----------------------------- MODULE Repository -----------------------------
(***************************************************************************)
(* What the registry keeps: the Postgres tables of the publisher side and  *)
(* the object store.  An operator of this module is ONE statement (or one  *)
(* object-store call): repo.Postgres runs every call on the pool, outside  *)
(* any transaction, so a statement is the unit of atomicity.  An operator  *)
(* is enabled exactly when the statement succeeds and touches a row; its   *)
(* guards are the table constraints of migrations/0001_init.sql.  What a   *)
(* handler does when the statement fails belongs to the handler.           *)
(*                                                                         *)
(* A table is a function from primary key to row whose domain is the set   *)
(* of keys present.  The tables that hang off packages are one function    *)
(* per package id, empty for an id with no rows.                           *)
(***************************************************************************)
EXTENDS Integers, FiniteSets, FiniteSetsExt

CONSTANTS
  PackageIds,   \* compactID(): the ids a package may get
  Names,        \* charm names
  Tracks,       \* track names
  LatestTrack,  \* the track "latest" every package is registered with
  Channels,     \* channel strings a release may name
  Uploads,      \* uuid.NewString(): upload ids
  DotDot,       \* the uploads whose file the client has named ".."
  SharedKey,    \* "uploads", the object key of each of those
  Payloads,     \* artifact contents, each with a digest of its own
  Charms,       \* the payloads charm.ParseArchive accepts
  Resources,    \* names of resources
  Declared,     \* Declared[c]: the resources the metadata of charm c lists
  MaxRevision,  \* the largest value of the column revisions.revision INTEGER
  None          \* no value

ASSUME TracksAssumption == LatestTrack \in Tracks
ASSUME CharmsAssumption == Charms \subseteq Payloads
ASSUME DeclaredAssumption == Declared \in [Charms -> SUBSET Resources]
ASSUME MaxRevisionAssumption == MaxRevision \in Nat \ {0}
ASSUME NoneAssumption == None \notin PackageIds \cup Uploads \cup Payloads
ASSUME DotDotAssumption == DotDot \subseteq Uploads /\ SharedKey \notin Uploads

VARIABLES
  packages,     \* packages: id -> row
  minted,       \* the package ids inserted so far; a uuid is never reused
  tracks,       \* tracks[p]: names of the tracks of package p
  revisions,    \* revisions[p]: revision number -> row, UNIQUE(package_id, revision)
  releases,     \* releases[p]: channel -> revision number, UNIQUE(package_id, channel)
  definitions,  \* definitions[p]: names of the resource definitions of package p
  uploads,      \* uploads: id -> row
  blobs         \* object store: object key -> payload

tables == <<packages, minted, tracks, revisions, releases, definitions, uploads, blobs>>

(***************************************************************************)
(* Rows.  "private" stands for the columns that only a metadata PATCH sets *)
(* (private, contact, default_track); title, summary, description, links   *)
(* and website, which a push sets too, are left out.  The digest of a      *)
(* payload (sha256, sha384 and size in the code) is the payload itself,    *)
(* that is, digests are taken to be injective.                             *)
(***************************************************************************)
PackageRow == [name : Names, private : BOOLEAN, status : {"registered", "published"}]
RevisionNumber == 1..MaxRevision
RevisionRow == [upload : Uploads, digest : Payloads]
UploadRow == [digest : Payloads,
              status : {"pending", "approved", "rejected"},
              revision : RevisionNumber \cup {None}]

(***************************************************************************)
(* The object key of an upload is filepath.Join("uploads", id, filename).  *)
(* The file name is the client's; of what a multipart reader lets through, *)
(* ".." alone takes the id out of the path again.  Every other name leaves *)
(* a key that no other upload has, for which the id stands.                *)
(***************************************************************************)
ObjectKey(u) == IF u \in DotDot THEN SharedKey ELSE u
ObjectKeys == Uploads \cup {SharedKey}

\* An upload with an object to itself.
Own(u) == u \notin DotDot

NoRows == [k \in {} |-> None]

WithRow(table, key, row) ==
  [k \in DOMAIN table \cup {key} |-> IF k = key THEN row ELSE table[k]]

InitRepository ==
  /\ packages = NoRows
  /\ minted = {}
  /\ tracks = [p \in PackageIds |-> {}]
  /\ revisions = [p \in PackageIds |-> NoRows]
  /\ releases = [p \in PackageIds |-> NoRows]
  /\ definitions = [p \in PackageIds |-> {}]
  /\ uploads = NoRows
  /\ blobs = NoRows

Live(p) == p \in DOMAIN packages

-----------------------------------------------------------------------------
(* Packages and tracks. *)

\* Postgres.CreatePackage: a duplicate name is the ErrConflict of the code.
InsertPackage(p, row) ==
  /\ p \in PackageIds \ minted
  /\ \A q \in DOMAIN packages : packages[q].name # row.name
  /\ packages' = WithRow(packages, p, row)
  /\ minted' = minted \cup {p}
  /\ UNCHANGED <<tracks, revisions, releases, definitions, uploads, blobs>>

\* A slip: the write becomes an upsert and brings a deleted package back.
UpdatePackageRowOrInsert(p, row) ==
  /\ packages' = WithRow(packages, p, row)
  /\ UNCHANGED <<minted, tracks, revisions, releases, definitions, uploads, blobs>>

\* Postgres.UpdatePackage: every column but the name is written, WHERE id = p.
UpdatePackageRow(p, row) ==
  /\ Live(p)
  /\ packages' = [packages EXCEPT ![p] = [row EXCEPT !.name = packages[p].name]]
  /\ UNCHANGED <<minted, tracks, revisions, releases, definitions, uploads, blobs>>

\* A slip: the foreign key of releases loses its ON DELETE CASCADE.
DeletePackageRowKeepingReleases(p) ==
  /\ Live(p)
  /\ packages' = [q \in DOMAIN packages \ {p} |-> packages[q]]
  /\ tracks' = [tracks EXCEPT ![p] = {}]
  /\ revisions' = [revisions EXCEPT ![p] = NoRows]
  /\ definitions' = [definitions EXCEPT ![p] = {}]
  /\ UNCHANGED <<minted, releases, uploads, blobs>>

\* Postgres.DeletePackage, with the ON DELETE CASCADE of every table below it.
DeletePackageRow(p) ==
  /\ Live(p)
  /\ packages' = [q \in DOMAIN packages \ {p} |-> packages[q]]
  /\ tracks' = [tracks EXCEPT ![p] = {}]
  /\ revisions' = [revisions EXCEPT ![p] = NoRows]
  /\ releases' = [releases EXCEPT ![p] = NoRows]
  /\ definitions' = [definitions EXCEPT ![p] = {}]
  /\ UNCHANGED <<minted, uploads, blobs>>

\* One INSERT of Postgres.CreateTracks, ON CONFLICT DO NOTHING.
InsertTrackRow(p, t) ==
  /\ Live(p)
  /\ tracks' = [tracks EXCEPT ![p] = @ \cup {t}]
  /\ UNCHANGED <<packages, minted, revisions, releases, definitions, uploads, blobs>>

-----------------------------------------------------------------------------
(* Uploads and objects. *)

\* A slip: the key is the file name alone, and all files have one name; whatever
\* key is read, it leads to the object put last.
PutObjectByFilename(u, payload) ==
  /\ blobs' = [k \in DOMAIN blobs \cup {ObjectKey(u)} |-> payload]
  /\ UNCHANGED <<packages, minted, tracks, revisions, releases, definitions, uploads>>

\* An id that no upload has had.  Of an upload that never got a row the object tells,
\* unless it is the shared one; but then nothing names that id any more.
NewUpload(u) == u \notin DOMAIN uploads /\ u \notin DOMAIN blobs

\* blob.Store.Put overwrites what is stored under the key.
PutObject(u, payload) ==
  /\ blobs' = WithRow(blobs, ObjectKey(u), payload)
  /\ UNCHANGED <<packages, minted, tracks, revisions, releases, definitions, uploads>>

\* Postgres.CreateUpload.
InsertUploadRow(u, digest) ==
  /\ u \notin DOMAIN uploads
  /\ uploads' = WithRow(uploads, u, [digest |-> digest, status |-> "pending", revision |-> None])
  /\ UNCHANGED <<packages, minted, tracks, revisions, releases, definitions, blobs>>

\* Postgres.ApproveUpload: whatever the row held before, it gets this verdict.
ReviewUploadRow(u, verdict, n) ==
  /\ u \in DOMAIN uploads
  /\ uploads' = [uploads EXCEPT ![u].status = verdict, ![u].revision = n]
  /\ UNCHANGED <<packages, minted, tracks, revisions, releases, definitions, blobs>>

-----------------------------------------------------------------------------
(* Revisions, releases and resource definitions. *)

\* GetLatestRevision (ORDER BY revision DESC) and the "+ 1" of PushRevision.
NextRevision(p) ==
  IF DOMAIN revisions[p] = {} THEN 1 ELSE Max(DOMAIN revisions[p]) + 1

\* A slip: UNIQUE(package_id, revision) is missing and the later row wins.
InsertRevisionRowNoUnique(p, n, row) ==
  /\ Live(p)
  /\ n \in RevisionNumber
  /\ revisions' = [revisions EXCEPT ![p] = WithRow(@, n, row)]
  /\ UNCHANGED <<packages, minted, tracks, releases, definitions, uploads, blobs>>

\* A slip: the column would have to be wider than it is.
InsertRevisionRowAnyNumber(p, n, row) ==
  /\ Live(p)
  /\ n \notin DOMAIN revisions[p]
  /\ revisions' = [revisions EXCEPT ![p] = WithRow(@, n, row)]
  /\ UNCHANGED <<packages, minted, tracks, releases, definitions, uploads, blobs>>

\* Postgres.CreateRevision: the foreign key, UNIQUE and the INTEGER column.
InsertRevisionRow(p, n, row) ==
  /\ Live(p)
  /\ n \in RevisionNumber \ DOMAIN revisions[p]
  /\ revisions' = [revisions EXCEPT ![p] = WithRow(@, n, row)]
  /\ UNCHANGED <<packages, minted, tracks, releases, definitions, uploads, blobs>>

\* Postgres.ReplaceRelease: upsert on (package_id, channel).  The package is a
\* foreign key, the revision is not.
UpsertReleaseRow(p, c, n) ==
  /\ Live(p)
  /\ releases' = [releases EXCEPT ![p] = WithRow(@, c, n)]
  /\ UNCHANGED <<packages, minted, tracks, revisions, definitions, uploads, blobs>>

\* Postgres.UpsertResourceDefinition: a second push keeps the row and its id.
UpsertDefinitionRow(p, r) ==
  /\ Live(p)
  /\ definitions' = [definitions EXCEPT ![p] = @ \cup {r}]
  /\ UNCHANGED <<packages, minted, tracks, revisions, releases, uploads, blobs>>

=============================================================================
