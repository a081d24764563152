----------------------------- MODULE Publishing -----------------------------
(***************************************************************************)
(* The publisher side of the registry: internal/service/packages.go,       *)
(* revisions.go and releases.go over the repository.  Every HTTP request   *)
(* runs in a goroutine of its own, and a service method is a sequence of   *)
(* repository and object-store calls that no transaction holds together.   *)
(* A handler h serves one request at a time; req[h] is the method's local  *)
(* state between two calls.  One action is one call and the code that runs *)
(* up to the next one.                                                     *)
(*                                                                         *)
(* A call that returns an error ends the request with everything already   *)
(* written left in place: Fail(h).  It stands for the 400, 403 and 404     *)
(* answers, for a constraint the statement runs into, for an unreachable   *)
(* database or object store, for a cancelled context, for a crash of the   *)
(* process between two calls, and for a reply the client never sees.       *)
(***************************************************************************)
EXTENDS Repository

CONSTANTS
  Handlers,  \* the requests in flight at a time
  Served,    \* the operations clients ask for
  MaxBatch   \* bound: the items of one Release request

Operations ==
  {"register", "patch", "unregister", "upload", "push", "release", "tracks"}

ASSUME ServedAssumption == Served \subseteq Operations
ASSUME MaxBatchAssumption == MaxBatch \in Nat

VARIABLE req

vars == <<tables, req>>

(***************************************************************************)
(* The call a handler is about to make.                                    *)
(***************************************************************************)
UploadSteps == {"GetBlob", "RejectUpload", "GetLatestRevision", "CreateRevision", "ApproveUpload"}
PackageSteps == UploadSteps \cup
  {"CanManagePackage", "CreateTracks", "UpdatePackage", "ListRevisions", "DeletePackage",
   "GetUpload", "PublishPackage", "UpsertResourceDefinition", "GetRevisionByNumber",
   "ReplaceRelease"}
Steps == PackageSteps \cup {"Idle", "CreateUpload"}

Request ==
  [step   : Steps,
   op     : Operations \cup {"none"},
   id     : PackageIds \cup {None},     \* pkg.ID
   pkg    : PackageRow \cup {None},     \* the package as it was read
   upload : Uploads \cup {None},        \* upload.ID
   digest : Payloads \cup {None},       \* upload.SHA256
   number : 0..(MaxRevision + 1),       \* revisionNumber, or request.Revision
   left   : 0..MaxBatch,                \* items of the Release request not served yet
   work   : SUBSET (Tracks \cup Resources)]  \* tracks or resources not written yet

Idle ==
  [step |-> "Idle", op |-> "none", id |-> None, pkg |-> None, upload |-> None,
   digest |-> None, number |-> 0, left |-> 0, work |-> {}]

At(h, step) == req[h].step = step
Goto(h, step) == req' = [req EXCEPT ![h].step = step]
Finish(h) == req' = [req EXCEPT ![h] = Idle]

Init ==
  /\ InitRepository
  /\ req = [h \in Handlers |-> Idle]

-----------------------------------------------------------------------------
(* RegisterPackage: the row, then its first track. *)

\* RegisterPackage up to repo.CreatePackage.
CreatePackage(h) ==
  /\ At(h, "Idle")
  /\ "register" \in Served
  /\ \E p \in PackageIds, n \in Names, private \in BOOLEAN :
       LET row == [name |-> n, private |-> private, status |-> "registered"] IN
       /\ InsertPackage(p, row)
       /\ req' = [req EXCEPT ![h] =
            [Idle EXCEPT !.step = "CreateTracks", !.op = "register", !.id = p,
                         !.pkg = row, !.work = {LatestTrack}]]

\* One INSERT of repo.CreateTracks, for RegisterPackage and the tracks endpoint.
InsertTrack(h) ==
  /\ At(h, "CreateTracks")
  /\ \E t \in req[h].work :
       /\ InsertTrackRow(req[h].id, t)
       /\ req' = [req EXCEPT ![h].work = @ \ {t}]

-----------------------------------------------------------------------------
(* The prologue of every method that works on an existing package. *)

\* repo.GetPackageByName: the handler works on this copy from now on.
GetPackageByName(h) ==
  /\ At(h, "Idle")
  /\ \E op \in Served \ {"register", "upload"}, p \in DOMAIN packages :
       req' = [req EXCEPT ![h] =
         [Idle EXCEPT !.step = "CanManagePackage", !.op = op, !.id = p, !.pkg = packages[p]]]
  /\ UNCHANGED tables

\* requirePackageManage said yes; what the request's body asks for is fixed here.
\* A PATCH that carries "private" sets it in the copy; an absent field keeps it.
RequirePackageManage(h) ==
  LET Continue(step) == req' = [req EXCEPT ![h].step = step] IN
  /\ At(h, "CanManagePackage")
  /\ Live(req[h].id)
  /\ \/ req[h].op = "unregister" /\ Continue("ListRevisions")
     \/ req[h].op = "push" /\ Continue("GetUpload")
     \/ /\ req[h].op = "patch"
        /\ \E private \in BOOLEAN :
             req' = [req EXCEPT ![h].step = "UpdatePackage", ![h].pkg.private = private]
     \/ /\ req[h].op = "release"
        /\ \E n \in 0..MaxBatch :
             req' = [req EXCEPT ![h].step = "GetRevisionByNumber", ![h].left = n]
     \/ /\ req[h].op = "tracks"
        /\ \E T \in SUBSET Tracks :
             req' = [req EXCEPT ![h].step = "CreateTracks", ![h].work = T]
  /\ UNCHANGED tables

-----------------------------------------------------------------------------
(* UpdatePackage and UnregisterPackage. *)

\* UpdatePackage (PATCH): the whole row is written back from the copy.
UpdatePackage(h) ==
  /\ At(h, "UpdatePackage")
  /\ UpdatePackageRow(req[h].id, req[h].pkg)
  /\ Finish(h)

\* UnregisterPackage: repo.ListRevisions found nothing.
ListRevisions(h) ==
  /\ At(h, "ListRevisions")
  /\ DOMAIN revisions[req[h].id] = {}
  /\ Goto(h, "DeletePackage")
  /\ UNCHANGED tables

\* UnregisterPackage: repo.DeletePackage.
DeletePackage(h) ==
  /\ At(h, "DeletePackage")
  /\ DeletePackageRow(req[h].id)
  /\ Finish(h)

-----------------------------------------------------------------------------
(* CreateUpload: the object first, the row that names it second. *)

\* CreateUpload up to blobs.Put.
PutBlob(h) ==
  /\ At(h, "Idle")
  /\ "upload" \in Served
  /\ \E u \in Uploads, payload \in Payloads :
       /\ NewUpload(u) /\ \A g \in Handlers : req[g].upload # u
       /\ PutObject(u, payload)
       /\ req' = [req EXCEPT ![h] =
            [Idle EXCEPT !.step = "CreateUpload", !.op = "upload", !.upload = u, !.digest = payload]]

\* CreateUpload: repo.CreateUpload.
CreateUpload(h) ==
  /\ At(h, "CreateUpload")
  /\ InsertUploadRow(req[h].upload, req[h].digest)
  /\ Finish(h)

-----------------------------------------------------------------------------
(* PushRevision. *)

\* repo.GetUpload: any upload will do, whatever its status says.
GetUpload(h) ==
  /\ At(h, "GetUpload")
  /\ \E u \in DOMAIN uploads :
       req' = [req EXCEPT ![h].step = "GetBlob", ![h].upload = u, ![h].digest = uploads[u].digest]
  /\ UNCHANGED tables

\* blobs.Get and charm.ParseArchive.
GetBlob(h) ==
  /\ At(h, "GetBlob")
  /\ ObjectKey(req[h].upload) \in DOMAIN blobs
  /\ LET payload == blobs[ObjectKey(req[h].upload)] IN
       IF payload \in Charms
       THEN req' = [req EXCEPT ![h].step = "GetLatestRevision", ![h].work = Declared[payload]]
       ELSE Goto(h, "RejectUpload")
  /\ UNCHANGED tables

\* repo.ApproveUpload with an error, and the 400 that follows it.
RejectUpload(h) ==
  /\ At(h, "RejectUpload")
  /\ ReviewUploadRow(req[h].upload, "rejected", None)
  /\ Finish(h)

\* A slip: the first revision of a package is number 0.
GetLatestRevisionFromZero(h) ==
  /\ At(h, "GetLatestRevision")
  /\ req' = [req EXCEPT ![h].step = "CreateRevision",
                       ![h].number = IF DOMAIN revisions[req[h].id] = {} THEN 0
                                     ELSE NextRevision(req[h].id)]
  /\ UNCHANGED tables

\* A slip: the number after the next one.
GetLatestRevisionSkipping(h) ==
  /\ At(h, "GetLatestRevision")
  /\ req' = [req EXCEPT ![h].step = "CreateRevision", ![h].number = NextRevision(req[h].id) + 1]
  /\ UNCHANGED tables

\* repo.GetLatestRevision: a package without revisions is not an error.
GetLatestRevision(h) ==
  /\ At(h, "GetLatestRevision")
  /\ req' = [req EXCEPT ![h].step = "CreateRevision", ![h].number = NextRevision(req[h].id)]
  /\ UNCHANGED tables

\* A slip: the error of the insert is dropped and the handler goes on.
CreateRevisionIgnoringError(h) ==
  LET row == [upload |-> req[h].upload, digest |-> req[h].digest] IN
  /\ At(h, "CreateRevision")
  /\ \/ InsertRevisionRow(req[h].id, req[h].number, row)
     \/ req[h].number \in DOMAIN revisions[req[h].id] /\ UNCHANGED tables
  /\ Goto(h, "ApproveUpload")

\* repo.CreateRevision.
CreateRevision(h) ==
  /\ At(h, "CreateRevision")
  /\ InsertRevisionRow(req[h].id, req[h].number,
                       [upload |-> req[h].upload, digest |-> req[h].digest])
  /\ Goto(h, "ApproveUpload")

\* repo.ApproveUpload with the revision number.
ApproveUpload(h) ==
  /\ At(h, "ApproveUpload")
  /\ ReviewUploadRow(req[h].upload, "approved", req[h].number)
  /\ Goto(h, "PublishPackage")

\* The UpdatePackage call at the end of PushRevision and of Release.
PublishPackage(h) ==
  /\ At(h, "PublishPackage")
  /\ UpdatePackageRow(req[h].id, [req[h].pkg EXCEPT !.status = "published"])
  /\ \/ req[h].op = "push" /\ Goto(h, "UpsertResourceDefinition")
     \/ req[h].op = "release" /\ Finish(h)

\* A slip: the loop over the declared resources ends after its first round.
UpsertFirstResourceDefinition(h) ==
  /\ At(h, "UpsertResourceDefinition")
  /\ \E r \in req[h].work :
       /\ UpsertDefinitionRow(req[h].id, r)
       /\ req' = [req EXCEPT ![h].work = {}]

\* One round of the loop over the manifest's resources, in map order.
UpsertResourceDefinition(h) ==
  /\ At(h, "UpsertResourceDefinition")
  /\ \E r \in req[h].work :
       /\ UpsertDefinitionRow(req[h].id, r)
       /\ req' = [req EXCEPT ![h].work = @ \ {r}]

-----------------------------------------------------------------------------
(* Release: check and write, item by item, and then publish the package. *)

\* A slip: the channel is assigned without a look at the revision.
GetRevisionByNumberUnchecked(h) ==
  /\ At(h, "GetRevisionByNumber")
  /\ req[h].left > 0
  /\ \E n \in RevisionNumber :
       req' = [req EXCEPT ![h].step = "ReplaceRelease", ![h].number = n]
  /\ UNCHANGED tables

\* repo.GetRevisionByNumber of the next item.
GetRevisionByNumber(h) ==
  /\ At(h, "GetRevisionByNumber")
  /\ req[h].left > 0
  /\ \E n \in DOMAIN revisions[req[h].id] :
       req' = [req EXCEPT ![h].step = "ReplaceRelease", ![h].number = n]
  /\ UNCHANGED tables

\* repo.ReplaceRelease, for a channel the token is not barred from.
ReplaceRelease(h) ==
  /\ At(h, "ReplaceRelease")
  /\ \E c \in Channels : UpsertReleaseRow(req[h].id, c, req[h].number)
  /\ req' = [req EXCEPT ![h].step = "GetRevisionByNumber", ![h].number = 0, ![h].left = @ - 1]

\* The loop of Release is over; an empty list gets here at once.
EndBatch(h) ==
  /\ At(h, "GetRevisionByNumber")
  /\ req[h].left = 0
  /\ Goto(h, "PublishPackage")
  /\ UNCHANGED tables

-----------------------------------------------------------------------------
\* The last call of a push, a registration or a track request has returned.
Done(h) ==
  /\ req[h].step \in {"CreateTracks", "UpsertResourceDefinition"}
  /\ req[h].work = {}

\* The method returns without an error.
Reply(h) ==
  /\ Done(h)
  /\ Finish(h)
  /\ UNCHANGED tables

\* The next call returns an error, or the process dies: nothing is undone.
Fail(h) ==
  /\ ~At(h, "Idle")
  /\ Finish(h)
  /\ UNCHANGED tables

Accept(h) == CreatePackage(h) \/ GetPackageByName(h) \/ PutBlob(h)

Proceed(h) ==
  \/ InsertTrack(h) \/ RequirePackageManage(h)
  \/ UpdatePackage(h) \/ ListRevisions(h) \/ DeletePackage(h)
  \/ CreateUpload(h)
  \/ GetUpload(h) \/ GetBlob(h) \/ RejectUpload(h) \/ GetLatestRevision(h)
  \/ CreateRevision(h) \/ ApproveUpload(h) \/ PublishPackage(h) \/ UpsertResourceDefinition(h)
  \/ GetRevisionByNumber(h) \/ ReplaceRelease(h) \/ EndBatch(h)
  \/ Reply(h)

Next == \E h \in Handlers : Accept(h) \/ Proceed(h) \/ Fail(h)

Spec == Init /\ [][Next]_vars

(***************************************************************************)
(* A call comes back, with a result or with an error: the goroutine of a   *)
(* request never stops on its own.  No request has to arrive.              *)
(***************************************************************************)
Fairness == \A h \in Handlers : WF_vars(Proceed(h) \/ Fail(h))

FairSpec == Spec /\ Fairness

-----------------------------------------------------------------------------
(***************************************************************************)
(* Properties.                                                             *)
(***************************************************************************)

IsTable(table, keys, rows) ==
  DOMAIN table \subseteq keys /\ table \in [DOMAIN table -> rows]

PackagesTypeOK ==
  /\ minted \subseteq PackageIds
  /\ IsTable(packages, minted, PackageRow)
  /\ tracks \in [PackageIds -> SUBSET Tracks]
  /\ definitions \in [PackageIds -> SUBSET Resources]

RevisionsTypeOK ==
  /\ DOMAIN revisions = PackageIds
  /\ \A p \in PackageIds : IsTable(revisions[p], RevisionNumber, RevisionRow)
  /\ DOMAIN releases = PackageIds
  /\ \A p \in PackageIds : IsTable(releases[p], Channels, RevisionNumber)

UploadsTypeOK ==
  /\ IsTable(uploads, Uploads, UploadRow)
  /\ IsTable(blobs, ObjectKeys, Payloads)

\* Every table holds rows of its shape: no revision number outgrows the INTEGER
\* column, no request carries a value its method could not have read.
TypeOK == PackagesTypeOK /\ RevisionsTypeOK /\ UploadsTypeOK /\ req \in [Handlers -> Request]

\* The revisions of a package are numbered 1, 2, 3, ... without a gap, although
\* PushRevision reads the latest number in one statement and inserts in another.
RevisionsContiguous ==
  \A p \in PackageIds : \E n \in 0..MaxRevision : DOMAIN revisions[p] = 1..n

\* A released channel leads to a revision of the package.  The table has no
\* foreign key for it: Release looks the revision up in a statement of its own.
ReleasesResolve ==
  \A p \in PackageIds : \A c \in DOMAIN releases[p] : releases[p][c] \in DOMAIN revisions[p]

\* A package that was unregistered leaves nothing behind, and no request that
\* still holds its id puts a row back.
NoOrphanRows ==
  \A p \in PackageIds \ DOMAIN packages :
    /\ tracks[p] = {} /\ definitions[p] = {}
    /\ DOMAIN revisions[p] = {} /\ DOMAIN releases[p] = {}

\* Whatever a row names is in the object store, with the digest that the row
\* advertises; what is published is a charm that can be parsed.  Only uploads named
\* ".." may have lost their object to each other, and they never touch another's.
ArtifactsStored ==
  /\ \A u \in DOMAIN uploads :
       /\ ObjectKey(u) \in DOMAIN blobs
       /\ Own(u) => blobs[u] = uploads[u].digest
  /\ \A p \in PackageIds : \A n \in DOMAIN revisions[p] :
       LET row == revisions[p][n] IN
       /\ ObjectKey(row.upload) \in DOMAIN blobs
       /\ Own(row.upload) => blobs[row.upload] = row.digest /\ row.digest \in Charms

\* The answer of ReviewUpload is right for uploads that are pushed as charms: an
\* approved upload is the revision it says, of some package, unless a package has
\* been unregistered since; a rejected upload was never published, if it has an
\* object to itself: one named ".." may be read again as what another has put there.
ReviewIsTruthful ==
  \A u \in DOMAIN uploads :
    /\ uploads[u].status = "approved" =>
         \/ minted # DOMAIN packages
         \/ \E p \in DOMAIN packages :
              /\ uploads[u].revision \in DOMAIN revisions[p]
              /\ revisions[p][uploads[u].revision].upload = u
    /\ uploads[u].status = "rejected" /\ Own(u) =>
         \A p \in PackageIds : \A n \in DOMAIN revisions[p] : revisions[p][n].upload # u

\* When PushRevision or RegisterPackage is about to answer 200, all it promised
\* is there, whatever ran in between, unless the package is gone.  (An upload named
\* ".." may have lost its object since: what the charm declared is not read off it any
\* more, and another push of the upload may have rejected what it found there.)
RepliesAreTrue ==
  \A h \in Handlers : Done(h) /\ Live(req[h].id) =>
    /\ req[h].op = "register" => LatestTrack \in tracks[req[h].id]
    /\ req[h].op = "push" =>
         /\ req[h].number \in DOMAIN revisions[req[h].id]
         /\ revisions[req[h].id][req[h].number].upload = req[h].upload
         /\ Own(req[h].upload) =>
              /\ uploads[req[h].upload].status = "approved"
              /\ Declared[blobs[req[h].upload]] \subseteq definitions[req[h].id]

\* A revision that was published stays as it is until its package is deleted:
\* two pushes that computed the same number cannot both write it.
RevisionsImmutable ==
  [][\A p \in DOMAIN packages \cap DOMAIN packages' : \A n \in DOMAIN revisions[p] :
       n \in DOMAIN revisions'[p] /\ revisions'[p][n] = revisions[p][n]]_vars

\* A push whose insert hits UNIQUE(package_id, revision) lost a race: the number
\* it computed was the next one, and somebody has published it since.  Without a
\* race the number is never taken and never leaves a gap.
NumberWasNext ==
  \A h \in Handlers : At(h, "CreateRevision") /\ Live(req[h].id) =>
    req[h].number \in 1..NextRevision(req[h].id)

\* Every request comes to an end, as the loops over the items of a release and
\* over tracks and resources consume what they work on.
RequestsEnd == \A h \in Handlers : ~At(h, "Idle") ~> At(h, "Idle")

\* UnregisterPackage "deletes an empty package from the registry"
\* (packages.go:145): no revision is ever deleted with a package.
UnregisterDeletesOnlyEmpty ==
  [][\A p \in DOMAIN packages \ DOMAIN packages' : DOMAIN revisions[p] = {}]_vars

\* Visibility is metadata, and metadata changes by a metadata PATCH: a push or
\* a release never flips what a PATCH has set.
OnlyPatchChangesPrivate ==
  [][\A p \in DOMAIN packages \cap DOMAIN packages' :
       packages'[p].private # packages[p].private =>
         \E h \in Handlers : At(h, "UpdatePackage") /\ req[h].id = p /\ req'[h] = Idle]_vars


-----------------------------------------------------------------------------
\* The catalog a reader sees: the rows without the handlers' local state.
C == INSTANCE Catalog WITH
       names    <- [p \in DOMAIN packages |-> packages[p].name],
       history  <- [p \in PackageIds |-> [n \in DOMAIN revisions[p] |-> revisions[p][n].upload]],
       channels <- releases

\* Every call of every handler is one step of the catalog or none: the order in
\* which handlers interleave never shows as anything but such a sequence.
ImplementsCatalog == C!CatalogSpec

=============================================================================
