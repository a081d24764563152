------------------------------- MODULE Memory -------------------------------
(***************************************************************************)
(* repo.Memory and blob.MemoryStore, the stores every test of the service  *)
(* runs on (internal/repo/memory.go, internal/blob/store.go).  A method    *)
(* holds the lock from its first line to its last, so a call is one step.  *)
(* The tests send one request after another: a call's arguments are what   *)
(* the service makes of the state it has just read, and a copy that a      *)
(* request writes back is current.                                         *)
(*                                                                         *)
(* The question is what such a test says about Postgres.  For the WRITES,  *)
(* T below is the schema of the publisher tables with its statements, as   *)
(* this store's read methods show it (RunsLikePostgres).  The READS of      *)
(* packages, revisions, accounts and store tokens are compared in          *)
(* IndexesAgree and AccountsAgree.  They differ from those of Postgres in  *)
(* what the README lists: the order of most lists, ErrNotFound where       *)
(* Postgres answers with an empty list (one revision by its number, the    *)
(* tracks of no package), roles, which this store does not know, the       *)
(* wildcards of ILIKE, and the default release.                            *)
(***************************************************************************)
EXTENDS Integers, Sequences

CONSTANTS
  PackageIds, Names, Tracks, LatestTrack, Channels, Uploads, DotDot, SharedKey, Payloads,
  Charms, Resources, Declared, Platforms, MaxRevision, None,
  DefinitionIds,   \* uuid.NewString(): ids of resource definitions
  Queries,         \* what a search may ask for, other than nothing
  Matches,         \* a query, and a name that contains it in whatever case
  Subjects, AccountIds,
  Hashes,          \* hashes of the secrets of store tokens
  MaxTime,         \* bound of the clock
  MaxPushes        \* bound: the pushes of one resource

ASSUME MemoryAssumption == MaxTime \in Nat /\ MaxPushes \in Nat

\* The store has no column that a number could be too large for, and gives a third
\* push of a resource the number 2: MaxRevision leaves room for it.
ASSUME NumbersAssumption == MaxRevision \in Nat /\ MaxRevision >= 2

\* The values that the maps hold, as far as the properties tell them apart.
StoreToken == [account : AccountIds, until : 0..(MaxTime + 1), revoked : BOOLEAN]
Package == [id : PackageIds, name : Names, owner : AccountIds, private : BOOLEAN,
            status : {"registered", "published"}, tracks : SUBSET Tracks]
Revision == [revision : 1..MaxRevision, upload : Uploads, digest : Payloads]
ResourceRevision ==
  [revision : 1..MaxRevision, upload : Uploads, digest : Payloads, platforms : Platforms]

ASSUME ValuesAssumption ==
  /\ LatestTrack \in Tracks
  /\ None \notin Subjects \cup Names \cup Queries \cup Revision \cup Seq(Revision)
  /\ None \notin 1..MaxRevision /\ SharedKey \notin Uploads

VARIABLES
  accounts,           \* accounts: subject -> account
  accountsByID,       \* the same accounts by id
  tokens,             \* token hash -> store token
  packages,           \* packages: name -> package
  packagesByID,       \* the same packages by id
  uploads,            \* upload id -> upload
  revisions,          \* package id -> list of revisions, in the order of the pushes
  resourceDefs,       \* package id -> name -> definition id
  resourceRevisions,  \* definition id -> list of resource revisions
  releases,           \* package id -> channel -> revision number
  data,               \* MemoryStore.data: key -> payload
  issued,             \* package ids given out; a uuid is never reused
  now                 \* time.Now()

accountMaps == <<accounts, accountsByID, tokens>>
resourceMaps == <<resourceDefs, resourceRevisions>>
packageMaps == <<packages, packagesByID, issued>>
memoryVars == <<accountMaps, packageMaps, uploads, revisions, resourceMaps, releases, data, now>>

Put(map, key, value) == [k \in DOMAIN map \cup {key} |-> IF k = key THEN value ELSE map[k]]
Without(map, key) == [k \in DOMAIN map \ {key} |-> map[k]]
EmptyMap == [k \in {} |-> None]

\* The loops over a list of revisions stop at the first that matches.
FirstMatch(list, n) ==
  CHOOSE i \in DOMAIN list : list[i].revision = n /\ \A j \in 1..(i - 1) : list[j].revision # n

FirstOf(list, n) == list[FirstMatch(list, n)]

NumbersOf(list) == {list[i].revision : i \in DOMAIN list}

NewMemory ==
  /\ accounts = EmptyMap /\ accountsByID = EmptyMap /\ tokens = EmptyMap
  /\ packages = EmptyMap /\ packagesByID = EmptyMap /\ issued = {}
  /\ uploads = EmptyMap /\ data = EmptyMap
  /\ revisions = [p \in PackageIds |-> <<>>]
  /\ resourceDefs = [p \in PackageIds |-> EmptyMap]
  /\ resourceRevisions = [d \in DefinitionIds |-> <<>>]
  /\ releases = [p \in PackageIds |-> EmptyMap]
  /\ now = 0

-----------------------------------------------------------------------------
(* Accounts and store tokens. *)

\* The columns that only describe an account are left out: an account is its id in
\* the one map and its subject in the other.
EnsureAccount(subject, id) ==
  \/ subject \in DOMAIN accounts /\ UNCHANGED <<accounts, accountsByID>>
  \/ /\ subject \notin DOMAIN accounts /\ id \notin DOMAIN accountsByID
     /\ accounts' = Put(accounts, subject, id)
     /\ accountsByID' = Put(accountsByID, id, subject)

GetAccountByID(id) == IF id \in DOMAIN accountsByID THEN accountsByID[id] ELSE None

CreateStoreToken(hash, token) == tokens' = Put(tokens, hash, token)

Expired(token) == token.until < now

\* A slip: a revoked token is listed until it expires.
ListStoreTokensUnexpired(id, includeInactive) ==
  {h \in DOMAIN tokens :
     /\ tokens[h].account = id
     /\ includeInactive \/ ~Expired(tokens[h])}

ListStoreTokens(id, includeInactive) ==
  {h \in DOMAIN tokens :
     /\ tokens[h].account = id
     /\ includeInactive \/ ~(tokens[h].revoked \/ Expired(tokens[h]))}

RevokeStoreToken(id, hash) ==
  /\ hash \in DOMAIN tokens /\ tokens[hash].account = id
  /\ tokens' = [tokens EXCEPT ![hash].revoked = TRUE]

\* The token and its account; ErrNotFound (None) when either is missing.
FindStoreTokenByHash(hash) ==
  IF hash \in DOMAIN tokens /\ tokens[hash].account \in DOMAIN accountsByID
  THEN accountsByID[tokens[hash].account] ELSE None

AccountCall ==
  /\ \/ \E subject \in Subjects, id \in AccountIds :
          EnsureAccount(subject, id) /\ UNCHANGED tokens
     \/ \E hash \in Hashes \ DOMAIN tokens, id \in DOMAIN accountsByID :  \* valid for one tick
          /\ CreateStoreToken(hash, [account |-> id, until |-> now + 1, revoked |-> FALSE])
          /\ UNCHANGED <<accounts, accountsByID>>
     \/ \E hash \in Hashes, id \in DOMAIN accountsByID :
          RevokeStoreToken(id, hash) /\ UNCHANGED <<accounts, accountsByID>>
  /\ UNCHANGED <<packageMaps, uploads, revisions, resourceMaps, releases, data, now>>

Tick ==
  /\ now < MaxTime /\ now' = now + 1
  /\ UNCHANGED <<accountMaps, packageMaps, uploads, revisions, resourceMaps, releases, data>>

-----------------------------------------------------------------------------
(* Packages and tracks; a package value carries its tracks. *)

GetPackageByName(name) == IF name \in DOMAIN packages THEN packages[name] ELSE None
GetPackageByID(p) == IF p \in DOMAIN packagesByID THEN packagesByID[p] ELSE None
ListTracks(p) == IF p \in DOMAIN packagesByID THEN packagesByID[p].tracks ELSE {}

\* The collaborations a caller asks for are ignored: an account sees what it owns.
ListPackagesForAccount(id) == {packages[name] : name \in {n \in DOMAIN packages : packages[n].owner = id}}

\* Every name contains the blank query, which is None here.
SearchPackages(query) ==
  {packages[name] : name \in {n \in DOMAIN packages : query = None \/ <<query, n>> \in Matches}}

CanViewPackage(p, id) ==
  p \in DOMAIN packagesByID /\ (~packagesByID[p].private \/ packagesByID[p].owner = id)

CanManagePackage(p, id) == p \in DOMAIN packagesByID /\ packagesByID[p].owner = id

\* A slip: the second map is forgotten.
StoreByNameOnly(pkg) ==
  packages' = Put(packages, pkg.name, pkg) /\ UNCHANGED packagesByID

\* The two assignments that CreatePackage, UpdatePackage and CreateTracks end with.
Store(pkg) ==
  /\ packages' = Put(packages, pkg.name, pkg)
  /\ packagesByID' = Put(packagesByID, pkg.id, pkg)

CreatePackage(pkg) == pkg.name \notin DOMAIN packages /\ Store(pkg)

UpdatePackage(pkg) == pkg.name \in DOMAIN packages /\ Store(pkg)

DeletePackage(p) ==
  /\ p \in DOMAIN packagesByID
  /\ packagesByID' = Without(packagesByID, p)
  /\ packages' = Without(packages, packagesByID[p].name)

\* A slip: the new tracks replace the old ones.
CreateTracksAnew(p, T) ==
  /\ p \in DOMAIN packagesByID
  /\ Store([packagesByID[p] EXCEPT !.tracks = T])

CreateTracks(p, T) ==
  /\ p \in DOMAIN packagesByID
  /\ Store([packagesByID[p] EXCEPT !.tracks = @ \cup T])

\* All revisions (n = None) or the one with number n, ErrNotFound (None) if there is none.
ListRevisions(p, n) ==
  IF n = None THEN revisions[p]
  ELSE IF n \in NumbersOf(revisions[p]) THEN <<FirstOf(revisions[p], n)>> ELSE None

\* RegisterPackage hands CreatePackage a package that has its first track already.
\* Tracks come one at a time, as Postgres.CreateTracks inserts them.
PackageCall ==
  /\ \/ \E p \in PackageIds \ issued, name \in Names, private \in BOOLEAN,
           owner \in DOMAIN accountsByID :
          /\ CreatePackage([id |-> p, name |-> name, owner |-> owner, private |-> private,
                            status |-> "registered", tracks |-> {LatestTrack}])
          /\ issued' = issued \cup {p}
     \/ /\ \E name \in DOMAIN packages, private \in BOOLEAN :
             UpdatePackage([GetPackageByName(name) EXCEPT !.private = private])
        /\ UNCHANGED issued
     \/ /\ \E name \in DOMAIN packages :
             LET pkg == GetPackageByName(name) IN
             ListRevisions(pkg.id, None) # <<>> /\ UpdatePackage([pkg EXCEPT !.status = "published"])
        /\ UNCHANGED issued
     \/ /\ \E p \in DOMAIN packagesByID : ListRevisions(p, None) = <<>> /\ DeletePackage(p)
        /\ UNCHANGED issued
     \/ /\ \E p \in DOMAIN packagesByID, t \in Tracks : CreateTracks(p, {t})
        /\ UNCHANGED issued
  /\ UNCHANGED <<accountMaps, uploads, revisions, resourceMaps, releases, data, now>>

-----------------------------------------------------------------------------
(* Uploads, revisions and releases. *)

GetUpload(u) == IF u \in DOMAIN uploads THEN uploads[u] ELSE None

CreateUpload(u, digest) ==
  uploads' = Put(uploads, u, [digest |-> digest, status |-> "pending", revision |-> None])

ApproveUpload(u, n) ==
  /\ u \in DOMAIN uploads
  /\ uploads' = [uploads EXCEPT ![u].revision = n,
                                ![u].status = IF n = None THEN "rejected" ELSE "approved"]

\* The latest is the one appended last.
GetLatestRevision(p) ==
  IF revisions[p] = <<>> THEN None ELSE revisions[p][Len(revisions[p])]

\* A slip: the first revision is number 0.
NextNumberFromZero(p) == IF GetLatestRevision(p) = None THEN 0 ELSE GetLatestRevision(p).revision + 1

\* The number PushRevision makes of it.
NextNumber(p) == IF GetLatestRevision(p) = None THEN 1 ELSE GetLatestRevision(p).revision + 1

\* Nothing is checked: neither the package nor the number.
CreateRevision(p, revision) ==
  revisions' = [revisions EXCEPT ![p] = Append(@, revision)]

GetRevisionByNumber(p, n) == FirstOf(revisions[p], n)

ReplaceRelease(p, c, n) == releases' = [releases EXCEPT ![p] = Put(@, c, n)]

ListReleases(p) == DOMAIN releases[p]
ResolveRelease(p, c) == releases[p][c]

\* filepath.Join("uploads", id, filename), where a file named ".." leaves "uploads".
ObjectKey(u) == IF u \in DotDot THEN SharedKey ELSE u

PutBlob(key, payload) == data' = Put(data, key, payload)

UploadCall ==
  /\ \/ \E u \in Uploads \ (DOMAIN uploads \cup DOMAIN data), payload \in Payloads :
          PutBlob(ObjectKey(u), payload) /\ UNCHANGED uploads
     \/ \E u \in Uploads \ DOMAIN uploads :
          /\ ObjectKey(u) \in DOMAIN data
          /\ CreateUpload(u, data[ObjectKey(u)]) /\ UNCHANGED data
     \/ \E u \in DOMAIN uploads, n \in 1..MaxRevision \cup {None} :
          ApproveUpload(u, n) /\ UNCHANGED data
  /\ UNCHANGED <<accountMaps, packageMaps, revisions, resourceMaps, releases, now>>

RevisionCall ==
  /\ \E p \in DOMAIN packagesByID :
       \/ /\ NextNumber(p) <= MaxRevision
          /\ \E u \in DOMAIN uploads :
               CreateRevision(p, [revision |-> NextNumber(p), upload |-> u,
                                  digest |-> GetUpload(u).digest])
          /\ UNCHANGED releases
       \/ /\ \E c \in Channels : \E n \in NumbersOf(ListRevisions(p, None)) :
               ReplaceRelease(p, c, GetRevisionByNumber(p, n).revision)
          /\ UNCHANGED revisions
  /\ UNCHANGED <<accountMaps, packageMaps, uploads, resourceMaps, data, now>>

-----------------------------------------------------------------------------
(* Resource definitions and resource revisions. *)

GetResourceDefinition(p, r) == resourceDefs[p][r]
ListResourceDefinitions(p) == DOMAIN resourceDefs[p]
ListResourceRevisions(d) == resourceRevisions[d]
GetResourceRevision(d, n) == FirstOf(resourceRevisions[d], n)

\* The new definition takes the place of the old one, with its own id.
UpsertResourceDefinition(p, r, d) == resourceDefs' = [resourceDefs EXCEPT ![p] = Put(@, r, d)]

CreateResourceRevision(d, item) ==
  resourceRevisions' = [resourceRevisions EXCEPT ![d] = Append(@, item)]

\* The whole row is replaced.
UpdateResourceRevision(d, item) ==
  /\ item.revision \in NumbersOf(resourceRevisions[d])
  /\ resourceRevisions' = [resourceRevisions EXCEPT ![d] =
       [@ EXCEPT ![FirstMatch(resourceRevisions[d], item.revision)] = item]]

\* "existing[0].Revision + 1" of PushResource.
NextResourceNumber(d) ==
  LET existing == ListResourceRevisions(d) IN
  IF existing = <<>> THEN 1 ELSE existing[1].revision + 1

Defined == UNION {{resourceDefs[p][r] : r \in DOMAIN resourceDefs[p]} : p \in PackageIds}

ResourceCall ==
  /\ \E p \in DOMAIN packagesByID, r \in Resources :
       \/ /\ ListRevisions(p, None) # <<>>
          /\ \E d \in DefinitionIds :  \* an id without rows is as good as a new one
               d \notin Defined /\ resourceRevisions[d] = <<>> /\ UpsertResourceDefinition(p, r, d)
          /\ UNCHANGED resourceRevisions
       \/ /\ r \in ListResourceDefinitions(p)
          /\ LET d == GetResourceDefinition(p, r) IN
               \/ /\ Len(resourceRevisions[d]) < MaxPushes
                  /\ \E u \in DOMAIN uploads, platforms \in Platforms :
                       CreateResourceRevision(d, [revision |-> NextResourceNumber(d), upload |-> u,
                         digest |-> GetUpload(u).digest, platforms |-> platforms])
               \/ \E n \in NumbersOf(ListResourceRevisions(d)), platforms \in Platforms :
                    UpdateResourceRevision(d, [GetResourceRevision(d, n) EXCEPT !.platforms = platforms])
          /\ UNCHANGED resourceDefs
  /\ UNCHANGED <<accountMaps, packageMaps, uploads, revisions, releases, data, now>>

MemoryNext == AccountCall \/ Tick \/ PackageCall \/ UploadCall \/ RevisionCall \/ ResourceCall

MemorySpec == NewMemory /\ [][MemoryNext]_memoryVars

-----------------------------------------------------------------------------
(***************************************************************************)
(* The tables as the read methods show them.                               *)
(***************************************************************************)
ShownPackages ==
  [p \in DOMAIN packagesByID |->
     LET pkg == GetPackageByID(p) IN
     [name |-> pkg.name, private |-> pkg.private, status |-> pkg.status]]

ShownRevisions ==
  [p \in PackageIds |-> [n \in NumbersOf(ListRevisions(p, None)) |->
     LET revision == GetRevisionByNumber(p, n) IN
     [upload |-> revision.upload, digest |-> revision.digest]]]

ShownResourceRevisions ==
  [p \in PackageIds |-> [r \in Resources |->
     IF r \notin ListResourceDefinitions(p) THEN EmptyMap
     ELSE LET d == GetResourceDefinition(p, r) IN
          [n \in NumbersOf(ListResourceRevisions(d)) |->
             LET item == GetResourceRevision(d, n) IN
             [upload |-> item.upload, oci |-> FALSE, image |-> None, digest |-> item.digest,
              platforms |-> item.platforms]]]]

T == INSTANCE ResourceTables WITH
       packages          <- ShownPackages,
       minted            <- issued,
       tracks            <- [p \in PackageIds |-> ListTracks(p)],
       revisions         <- ShownRevisions,
       releases          <- [p \in PackageIds |-> [c \in ListReleases(p) |-> ResolveRelease(p, c)]],
       definitions       <- [p \in PackageIds |-> ListResourceDefinitions(p)],
       uploads           <- [u \in DOMAIN uploads |-> GetUpload(u)],
       blobs             <- data,
       resourceRevisions <- ShownResourceRevisions

-----------------------------------------------------------------------------
(***************************************************************************)
(* Properties.                                                             *)
(***************************************************************************)

\* Each map holds what its type in the struct says.
MemoryTypeOK ==
  /\ DOMAIN accounts \subseteq Subjects /\ DOMAIN accountsByID \subseteq AccountIds
  /\ \A h \in DOMAIN tokens : tokens[h] \in StoreToken
  /\ issued \subseteq PackageIds /\ DOMAIN packagesByID \subseteq issued
  /\ \A p \in DOMAIN packagesByID : packagesByID[p] \in Package
  /\ \A u \in DOMAIN uploads : uploads[u] \in T!UploadRow
  /\ \A p \in PackageIds :
       /\ \A i \in DOMAIN revisions[p] : revisions[p][i] \in Revision
       /\ \A c \in DOMAIN releases[p] : c \in Channels /\ releases[p][c] \in 1..MaxRevision
       /\ \A r \in DOMAIN resourceDefs[p] : r \in Resources /\ resourceDefs[p][r] \in DefinitionIds
  /\ \A d \in DefinitionIds : \A i \in DOMAIN resourceRevisions[d] :
       resourceRevisions[d][i] \in ResourceRevision

\* Revisions are listed oldest first, the list of Postgres backwards.  For one number
\* both lists have the row that the other has, but a number that is not there is an
\* error here and an empty list there.  The revision appended last is the one that
\* ORDER BY revision DESC finds first, and the next numbers that both lead to agree.
RevisionReads ==
  \A p \in DOMAIN packagesByID :
    LET list == ListRevisions(p, None) IN
    /\ \A i \in DOMAIN list : list[i].revision = i /\ ListRevisions(p, i) = <<list[i]>>
    /\ \A n \in 1..MaxRevision :
         ListRevisions(p, n) = None <=> n \notin DOMAIN ShownRevisions[p]
    /\ NextNumber(p) = T!NextRevision(p)

\* Packages and accounts are kept twice, by value, and every method writes both
\* copies: whichever map a request goes through, it reads the same.  What a search
\* or a list finds by name is what is there, or may be managed or viewed, by id.
IndexesAgree ==
  /\ {packages[name] : name \in DOMAIN packages} = {packagesByID[p] : p \in DOMAIN packagesByID}
  /\ \A name \in DOMAIN packages : packages[name].name = name
  /\ \A p \in DOMAIN packagesByID : packagesByID[p].id = p
  /\ \A subject \in DOMAIN accounts : accountsByID[accounts[subject]] = subject
  /\ \A id \in DOMAIN accountsByID : accounts[GetAccountByID(id)] = id
  /\ \A id \in DOMAIN accountsByID :
       /\ ListPackagesForAccount(id) = {packagesByID[p] : p \in {q \in PackageIds : CanManagePackage(q, id)}}
       /\ ListPackagesForAccount(id) \subseteq
            {packagesByID[p] : p \in {q \in PackageIds : CanViewPackage(q, id)}}
  /\ SearchPackages(None) = {packagesByID[p] : p \in DOMAIN packagesByID}
  /\ \A query \in Queries : SearchPackages(query) =
       {packagesByID[p] : p \in {q \in DOMAIN packagesByID : <<query, packagesByID[q].name>> \in Matches}}
  /\ RevisionReads

\* A token leads to the account it was issued for, as the join in Postgres does, and
\* is listed as active exactly as long as there, up to the instant it expires at:
\* "ValidUntil.Before(now)" keeps it in the list, "valid_until > NOW()" does not.
AccountsAgree ==
  \A h \in DOMAIN tokens :
    LET id == tokens[h].account
        active == ~tokens[h].revoked /\ tokens[h].until > now IN
    /\ FindStoreTokenByHash(h) # None /\ accounts[FindStoreTokenByHash(h)] = id
    /\ h \in ListStoreTokens(id, TRUE)
    /\ h \in ListStoreTokens(id, FALSE) <=> active \/ (~tokens[h].revoked /\ tokens[h].until = now)

(***************************************************************************)
(* A call that writes is one statement of Postgres on the same tables, or  *)
(* one of three differences.                                               *)
(***************************************************************************)
Rows == [upload : Uploads, digest : Payloads]
Items == [upload : Uploads, oci : {FALSE}, image : {None}, digest : Payloads, platforms : Platforms]

Statement ==
  \/ /\ packagesByID' # packagesByID
     /\ \E p \in PackageIds :
          \/ \E row \in T!PackageRow : T!UpdatePackageRow(p, row) /\ UNCHANGED ShownResourceRevisions
          \/ \E t \in Tracks : T!InsertTrackRow(p, t) /\ UNCHANGED ShownResourceRevisions
          \/ T!DeletePackageRow(p) /\ T!CascadeToResources
  \/ /\ <<uploads, data>>' # <<uploads, data>>
     /\ \E u \in Uploads :
          \/ \E payload \in Payloads : T!PutObject(u, payload) \/ T!InsertUploadRow(u, payload)
          \/ \E n \in 1..MaxRevision : T!ReviewUploadRow(u, "approved", n)
          \/ T!ReviewUploadRow(u, "rejected", None)
     /\ UNCHANGED ShownResourceRevisions
  \/ /\ <<revisions, releases>>' # <<revisions, releases>>
     /\ \E p \in PackageIds, n \in 1..MaxRevision :
          \/ \E row \in Rows : T!InsertRevisionRow(p, n, row)
          \/ \E c \in Channels : T!UpsertReleaseRow(p, c, n)
     /\ UNCHANGED ShownResourceRevisions
  \/ /\ resourceDefs' # resourceDefs
     /\ \E p \in PackageIds, r \in Resources : T!UpsertDefinitionRow(p, r)
     /\ UNCHANGED ShownResourceRevisions
  \/ /\ resourceRevisions' # resourceRevisions
     /\ \E p \in PackageIds, r \in Resources, n \in 1..MaxRevision, item \in Items :
          T!InsertResourceRow(p, r, n, item) \/ T!UpdateResourceRow(p, r, n, item)
     /\ UNCHANGED T!tables

\* The two statements of RegisterPackage at once: the row and its first track.
RegistersAtOnce ==
  \E p \in PackageIds \ issued :
    /\ issued' = issued \cup {p}
    /\ \E row \in T!PackageRow :
         /\ \A q \in DOMAIN ShownPackages : ShownPackages[q].name # row.name
         /\ ShownPackages' = Put(ShownPackages, p, row)
    /\ ListTracks(p)' = {LatestTrack}

\* A second push of a charm: the resources it declares lose their revisions.
LosesResourceRevisions ==
  \E p \in PackageIds, r \in Resources :
    /\ DOMAIN ShownResourceRevisions[p][r] # {}
    /\ ShownResourceRevisions' = [ShownResourceRevisions EXCEPT ![p][r] = EmptyMap]
    /\ UNCHANGED T!tables

\* From the third push of a resource on, existing[0] is the oldest revision: the
\* push gets a number that is taken, and nobody can ever download it.
RepeatsResourceNumber ==
  /\ UNCHANGED <<T!tables, ShownResourceRevisions>>
  /\ \E d \in DefinitionIds :
       Len(resourceRevisions[d]) > 1 /\ Len(resourceRevisions'[d]) > Len(resourceRevisions[d])

\* What a call leaves in the tables is what Postgres would have written, but for the
\* three differences: no foreign key, UNIQUE or cascade is ever missed, because a
\* sequence of requests that each finish before the next never gets to them.
RunsLikePostgres ==
  [][\/ UNCHANGED <<packageMaps, uploads, revisions, resourceMaps, releases, data>>
     \/ Statement
     \/ RegistersAtOnce
     \/ LosesResourceRevisions
     \/ RepeatsResourceNumber]_memoryVars

=============================================================================
