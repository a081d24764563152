-------------------------- MODULE PublishingProofs --------------------------
(***************************************************************************)
(* Proofs about Publishing, for every set of handlers, ids, uploads,       *)
(* channels and every bound.                                               *)
(*                                                                         *)
(* The invariants of the tables do not follow from the tables alone: a     *)
(* handler acts on what an earlier call told it.  The inductive invariant  *)
(* IInv therefore adds, for every request in flight, what that request may *)
(* still rely on (InFlight), and the step from one handler's call to the   *)
(* others goes through Grows: the ways in which any statement may change   *)
(* what other handlers have read.                                          *)
(***************************************************************************)
EXTENDS Publishing, TLAPS

TablesOK ==
  /\ PackagesTypeOK /\ RevisionsTypeOK /\ UploadsTypeOK
  /\ RevisionsContiguous /\ ReleasesResolve /\ NoOrphanRows
  /\ ArtifactsStored

\* What a request in flight can rely on between two of its calls.
InFlight(r) ==
  /\ r.step \in PackageSteps => r.id \in minted /\ r.pkg \in PackageRow
  /\ r.step \in UploadSteps \cup {"GetUpload", "UpsertResourceDefinition"} => r.op = "push"
  /\ r.step = "CreateTracks" => r.op \in {"register", "tracks"}
  /\ r.op = "push" => r.work \subseteq Resources
  /\ r.op \in {"register", "tracks"} => r.work \subseteq Tracks
  /\ r.step \in UploadSteps =>
       r.upload \in DOMAIN uploads /\ r.digest = uploads[r.upload].digest
  /\ r.step = "CreateUpload" =>
       /\ r.upload \in Uploads /\ ObjectKey(r.upload) \in DOMAIN blobs /\ r.digest \in Payloads
       /\ Own(r.upload) => r.digest = blobs[r.upload]
  /\ r.step \in {"GetLatestRevision", "CreateRevision"} /\ Own(r.upload) => r.digest \in Charms
  /\ r.step = "CreateRevision" =>
       r.number > 0 /\ (Live(r.id) => 1..(r.number - 1) \subseteq DOMAIN revisions[r.id])
  /\ r.step = "ApproveUpload" => r.number \in RevisionNumber
  /\ r.step = "ReplaceRelease" =>
       /\ r.number \in RevisionNumber /\ r.left > 0
       /\ Live(r.id) => r.number \in DOMAIN revisions[r.id]

IInv ==
  /\ TablesOK
  /\ req \in [Handlers -> Request]
  /\ \A h \in Handlers : InFlight(req[h])

-----------------------------------------------------------------------------
(* Statements keep the tables well formed. *)

\* An upload has its object under its own id, or under the key of those named "..".
LEMMA KeyOfAnUpload ==
  ASSUME NEW u \in Uploads
  PROVE  /\ ObjectKey(u) \in ObjectKeys /\ u # SharedKey
         /\ Own(u) => ObjectKey(u) = u
         /\ ~Own(u) => ObjectKey(u) = SharedKey
BY DotDotAssumption DEF ObjectKey, ObjectKeys, Own

\* The next number of a package whose revisions are 1..m is m + 1.
LEMMA NextRevisionOf ==
  ASSUME NEW p, NEW m \in Nat, DOMAIN revisions[p] = 1..m
  PROVE  NextRevision(p) = m + 1
<1>1. CASE m = 0
  BY <1>1 DEF NextRevision
<1>2. CASE m > 0
  <2>1. m \in 1..m /\ \A y \in 1..m : m >= y
    BY <1>2
  <2>2. \A x \in 1..m : (\A y \in 1..m : x >= y) => x = m
    BY <2>1
  <2>3. Max(1..m) = m
    BY <2>1, <2>2 DEF Max
  <2> QED BY <1>2, <2>3 DEF NextRevision
<1> QED BY <1>1, <1>2

\* INSERT INTO packages
LEMMA InsertPackageKeepsTables ==
  ASSUME TablesOK, NEW p \in PackageIds, NEW row \in PackageRow, InsertPackage(p, row)
  PROVE  TablesOK'
BY DEF TablesOK, PackagesTypeOK, RevisionsTypeOK, UploadsTypeOK, RevisionsContiguous,
       ReleasesResolve, NoOrphanRows, ArtifactsStored, IsTable, InsertPackage, WithRow

\* UPDATE packages
LEMMA UpdatePackageRowKeepsTables ==
  ASSUME TablesOK, NEW p \in PackageIds, NEW row \in PackageRow, UpdatePackageRow(p, row)
  PROVE  TablesOK'
BY ZenonT(60) DEF TablesOK, PackagesTypeOK, RevisionsTypeOK, UploadsTypeOK, RevisionsContiguous,
       ReleasesResolve, NoOrphanRows, ArtifactsStored, IsTable, UpdatePackageRow, PackageRow, Live

\* DELETE FROM packages, with its cascade
LEMMA DeletePackageRowKeepsTables ==
  ASSUME TablesOK, NEW p \in PackageIds, DeletePackageRow(p)
  PROVE  TablesOK'
<1> USE DEF DeletePackageRow, TablesOK
<1>1. PackagesTypeOK'
  BY DEF PackagesTypeOK, IsTable
<1>2. RevisionsTypeOK' /\ UploadsTypeOK'
  BY DEF RevisionsTypeOK, UploadsTypeOK, IsTable, NoRows
<1>3. RevisionsContiguous'
  <2>1. 0 \in 0..MaxRevision /\ DOMAIN NoRows = 1..0
    BY MaxRevisionAssumption DEF NoRows
  <2> QED BY <2>1 DEF RevisionsContiguous, RevisionsTypeOK
<1>4. ReleasesResolve' /\ NoOrphanRows'
  BY DEF ReleasesResolve, NoOrphanRows, PackagesTypeOK, RevisionsTypeOK, IsTable, NoRows
<1>5. ArtifactsStored'
  BY DEF ArtifactsStored, RevisionsTypeOK, NoRows
<1> QED BY <1>1, <1>2, <1>3, <1>4, <1>5

\* INSERT INTO tracks
LEMMA InsertTrackRowKeepsTables ==
  ASSUME TablesOK, NEW p \in PackageIds, NEW t \in Tracks, InsertTrackRow(p, t)
  PROVE  TablesOK'
BY DEF TablesOK, PackagesTypeOK, RevisionsTypeOK, UploadsTypeOK, RevisionsContiguous,
       ReleasesResolve, NoOrphanRows, ArtifactsStored, IsTable, InsertTrackRow, Live

\* INSERT INTO resource_definitions
LEMMA UpsertDefinitionRowKeepsTables ==
  ASSUME TablesOK, NEW p \in PackageIds, NEW r \in Resources, UpsertDefinitionRow(p, r)
  PROVE  TablesOK'
BY DEF TablesOK, PackagesTypeOK, RevisionsTypeOK, UploadsTypeOK, RevisionsContiguous,
       ReleasesResolve, NoOrphanRows, ArtifactsStored, IsTable, UpsertDefinitionRow, Live

\* The object store's Put
LEMMA PutObjectKeepsTables ==
  ASSUME TablesOK, NEW u \in Uploads, NEW payload \in Payloads, NewUpload(u),
         PutObject(u, payload)
  PROVE  TablesOK'
<1>1. /\ DOMAIN blobs' = DOMAIN blobs \cup {ObjectKey(u)} /\ ObjectKey(u) \in ObjectKeys
      /\ \A v \in Uploads : v \in DOMAIN blobs => blobs'[v] = blobs[v]
  BY KeyOfAnUpload DEF PutObject, WithRow, NewUpload
<1>2. UploadsTypeOK'
  BY <1>1 DEF TablesOK, UploadsTypeOK, IsTable, PutObject, WithRow
<1>3. ArtifactsStored'
  <2>1. /\ \A v \in DOMAIN uploads : v \in Uploads
        /\ \A p \in PackageIds : \A n \in DOMAIN revisions[p] : revisions[p][n].upload \in Uploads
    BY DEF TablesOK, UploadsTypeOK, RevisionsTypeOK, IsTable, RevisionRow
  <2>2. uploads' = uploads /\ revisions' = revisions
    BY DEF PutObject
  <2> QED BY <1>1, <2>1, <2>2, KeyOfAnUpload DEF TablesOK, ArtifactsStored
<1>4. PackagesTypeOK' /\ RevisionsTypeOK' /\ RevisionsContiguous' /\ ReleasesResolve' /\ NoOrphanRows'
  BY DEF TablesOK, PackagesTypeOK, RevisionsTypeOK, RevisionsContiguous, ReleasesResolve,
         NoOrphanRows, IsTable, PutObject
<1> QED BY <1>2, <1>3, <1>4 DEF TablesOK

\* INSERT INTO uploads, for an object that is stored
LEMMA InsertUploadRowKeepsTables ==
  ASSUME TablesOK, NEW u \in Uploads, NEW digest \in Payloads, ObjectKey(u) \in DOMAIN blobs,
         Own(u) => digest = blobs[u], InsertUploadRow(u, digest)
  PROVE  TablesOK'
<1>1. ArtifactsStored'
  BY DEF TablesOK, ArtifactsStored, InsertUploadRow, WithRow
<1> QED
  BY <1>1 DEF TablesOK, PackagesTypeOK, RevisionsTypeOK, UploadsTypeOK, RevisionsContiguous,
              ReleasesResolve, NoOrphanRows, IsTable, InsertUploadRow, WithRow, UploadRow

\* UPDATE uploads
LEMMA ReviewUploadRowKeepsTables ==
  ASSUME TablesOK, NEW u, NEW verdict \in {"approved", "rejected"},
         NEW n \in RevisionNumber \cup {None}, ReviewUploadRow(u, verdict, n)
  PROVE  TablesOK'
<1> USE DEF ReviewUploadRow, TablesOK
<1>1. \A v \in DOMAIN uploads : uploads'[v] \in UploadRow /\ uploads'[v].digest = uploads[v].digest
  BY DEF UploadsTypeOK, IsTable, UploadRow
<1>2. DOMAIN uploads' = DOMAIN uploads /\ uploads' = [v \in DOMAIN uploads |-> uploads'[v]]
  BY DEF UploadsTypeOK, IsTable
<1>3. UploadsTypeOK'
  BY <1>1, <1>2 DEF UploadsTypeOK, IsTable
<1>4. ArtifactsStored'
  BY <1>1, <1>2 DEF ArtifactsStored
<1>5. PackagesTypeOK' /\ RevisionsTypeOK' /\ RevisionsContiguous' /\ ReleasesResolve' /\ NoOrphanRows'
  BY DEF PackagesTypeOK, RevisionsTypeOK, RevisionsContiguous, ReleasesResolve, NoOrphanRows, IsTable
<1> QED BY <1>3, <1>4, <1>5

\* INSERT INTO releases ... ON CONFLICT, for a revision that is there
LEMMA UpsertReleaseRowKeepsTables ==
  ASSUME TablesOK, NEW p \in PackageIds, NEW c \in Channels, NEW n \in DOMAIN revisions[p],
         UpsertReleaseRow(p, c, n)
  PROVE  TablesOK'
BY DEF TablesOK, PackagesTypeOK, RevisionsTypeOK, UploadsTypeOK, RevisionsContiguous,
       ReleasesResolve, NoOrphanRows, ArtifactsStored, IsTable, UpsertReleaseRow, WithRow, Live

\* INSERT INTO revisions, for a number that leaves no gap and an upload that is a stored charm
LEMMA InsertRevisionRowKeepsTables ==
  ASSUME TablesOK, NEW p \in PackageIds, NEW n \in Nat \ {0}, NEW u \in Uploads,
         NEW digest \in Payloads, ObjectKey(u) \in DOMAIN blobs,
         Own(u) => blobs[u] = digest /\ digest \in Charms, 1..(n - 1) \subseteq DOMAIN revisions[p],
         InsertRevisionRow(p, n, [upload |-> u, digest |-> digest])
  PROVE  TablesOK'
<1> USE DEF InsertRevisionRow, TablesOK
<1>1. PICK m \in 0..MaxRevision : DOMAIN revisions[p] = 1..m
  BY DEF RevisionsContiguous
<1>2. n = m + 1 /\ n \in RevisionNumber
  BY <1>1, MaxRevisionAssumption DEF RevisionNumber
<1>3. /\ DOMAIN revisions' = PackageIds
      /\ \A q \in PackageIds \ {p} : revisions'[q] = revisions[q]
      /\ revisions'[p] = WithRow(revisions[p], n, [upload |-> u, digest |-> digest])
  BY DEF RevisionsTypeOK
<1>4. DOMAIN revisions'[p] = 1..n
  BY <1>1, <1>2, <1>3 DEF WithRow
<1>5. RevisionsTypeOK'
  BY <1>2, <1>3 DEF RevisionsTypeOK, IsTable, WithRow, RevisionRow
<1>6. RevisionsContiguous'
  BY <1>2, <1>3, <1>4 DEF RevisionsContiguous, RevisionNumber
<1>7. ReleasesResolve' /\ NoOrphanRows'
  BY <1>3 DEF ReleasesResolve, NoOrphanRows, WithRow, Live
<1>8. ArtifactsStored'
  BY <1>3 DEF ArtifactsStored, WithRow
<1>9. PackagesTypeOK' /\ UploadsTypeOK'
  BY DEF PackagesTypeOK, UploadsTypeOK, IsTable
<1> QED BY <1>5, <1>6, <1>7, <1>8, <1>9

-----------------------------------------------------------------------------
(* What one statement leaves of what other handlers have read. *)

\* Ids stay minted; an upload keeps its digest and an object its content, unless it is
\* the shared one; a package that is still there keeps the revisions it had.
Grows ==
  /\ minted \subseteq minted'
  /\ \A u \in DOMAIN uploads : u \in DOMAIN uploads' /\ uploads'[u].digest = uploads[u].digest
  /\ \A k \in DOMAIN blobs : k \in DOMAIN blobs' /\ (k # SharedKey => blobs'[k] = blobs[k])
  /\ \A p \in minted \cap DOMAIN packages' :
       p \in DOMAIN packages /\ DOMAIN revisions[p] \subseteq DOMAIN revisions'[p]

\* The statements on packages, tracks, releases and definitions grow the tables.
LEMMA PackageStatementsGrow ==
  ASSUME TablesOK, NEW p \in PackageIds, NEW x, NEW y,
         \/ InsertPackage(p, x) \/ UpdatePackageRow(p, x) \/ DeletePackageRow(p)
         \/ InsertTrackRow(p, x) \/ UpsertDefinitionRow(p, x) \/ UpsertReleaseRow(p, x, y)
  PROVE  Grows
BY DEF TablesOK, PackagesTypeOK, RevisionsTypeOK, UploadsTypeOK, IsTable, Grows, WithRow, Live,
       InsertPackage, UpdatePackageRow, DeletePackageRow, InsertTrackRow, UpsertDefinitionRow,
       UpsertReleaseRow

\* So do the statements on objects, uploads and revisions.
LEMMA UploadStatementsGrow ==
  ASSUME TablesOK, NEW p, NEW u, NEW x, NEW y,
         \/ NewUpload(u) /\ PutObject(u, x)
         \/ InsertUploadRow(u, x) \/ ReviewUploadRow(u, x, y) \/ InsertRevisionRow(p, x, y)
  PROVE  Grows
<1>1. CASE (NewUpload(u) /\ PutObject(u, x)) \/ InsertUploadRow(u, x)
  BY <1>1 DEF TablesOK, PackagesTypeOK, RevisionsTypeOK, UploadsTypeOK, IsTable, Grows, WithRow,
              PutObject, InsertUploadRow, NewUpload, ObjectKey
<1>2. CASE ReviewUploadRow(u, x, y)
  <2>1. \A v \in DOMAIN uploads : uploads'[v].digest = uploads[v].digest
    BY <1>2 DEF ReviewUploadRow, TablesOK, UploadsTypeOK, IsTable, UploadRow
  <2>2. DOMAIN uploads' = DOMAIN uploads
    BY <1>2 DEF ReviewUploadRow
  <2> QED BY <1>2, <2>1, <2>2 DEF ReviewUploadRow, TablesOK, PackagesTypeOK, IsTable, Grows
<1>3. CASE InsertRevisionRow(p, x, y)
  BY <1>3 DEF TablesOK, PackagesTypeOK, RevisionsTypeOK, IsTable, Grows, WithRow, InsertRevisionRow
<1> QED BY <1>1, <1>2, <1>3

\* A call that only reads changes nothing.
LEMMA ReadsKeepTables ==
  ASSUME TablesOK, UNCHANGED tables
  PROVE  TablesOK' /\ Grows
BY DEF tables, TablesOK, PackagesTypeOK, RevisionsTypeOK, UploadsTypeOK, RevisionsContiguous,
       ReleasesResolve, NoOrphanRows, ArtifactsStored, IsTable, Grows

\* A request that does not move keeps what it relies on.
LEMMA InFlightIsStable ==
  ASSUME Grows, NEW r \in Request, InFlight(r)
  PROVE  InFlight(r)'
BY KeyOfAnUpload DEF Grows, InFlight, Live, Request, PackageSteps, UploadSteps

\* A step of one handler keeps IInv when its statement keeps the tables and its
\* own next request is in order.
LEMMA HandlerStep ==
  ASSUME IInv, NEW h \in Handlers, TablesOK', Grows,
         NEW r \in Request, req' = [req EXCEPT ![h] = r], InFlight(r)'
  PROVE  IInv'
<1>1. req' \in [Handlers -> Request]
  BY DEF IInv
<1>2. ASSUME NEW k \in Handlers PROVE InFlight(req[k])'
  <2>1. CASE k = h
    BY <2>1 DEF IInv
  <2>2. CASE k # h
    <3>1. req'[k] = req[k] /\ req[k] \in Request /\ InFlight(req[k])
      BY <2>2 DEF IInv
    <3> QED BY <3>1, InFlightIsStable DEF InFlight
  <2> QED BY <2>1, <2>2
<1> QED BY <1>1, <1>2 DEF IInv

-----------------------------------------------------------------------------
(* IInv is inductive. *)

\* The idle request is a request, and its fields.
LEMMA IdleIsRequest ==
  /\ Idle \in Request
  /\ Idle.op = "none" /\ Idle.step = "Idle" /\ Idle.work = {}
BY MaxRevisionAssumption, MaxBatchAssumption DEF Idle, Request, Steps

\* No request is in flight and every table is empty.
LEMMA InitIInv == Init => IInv
<1> SUFFICES ASSUME Init PROVE IInv
  OBVIOUS
<1> USE DEF Init, InitRepository, NoRows
<1>1. PackagesTypeOK /\ RevisionsTypeOK /\ UploadsTypeOK
  BY DEF PackagesTypeOK, RevisionsTypeOK, UploadsTypeOK, IsTable
<1>2. RevisionsContiguous
  <2>1. 0 \in 0..MaxRevision /\ DOMAIN NoRows = 1..0
    BY MaxRevisionAssumption
  <2> QED BY <2>1 DEF RevisionsContiguous
<1>3. ReleasesResolve /\ NoOrphanRows /\ ArtifactsStored
  BY DEF ReleasesResolve, NoOrphanRows, ArtifactsStored
<1>4. InFlight(Idle)
  BY IdleIsRequest DEF InFlight, PackageSteps, UploadSteps
<1> QED BY <1>1, <1>2, <1>3, <1>4, IdleIsRequest DEF IInv, TablesOK

\* A request that is over relies on nothing.
LEMMA FinishStep ==
  ASSUME IInv, NEW h \in Handlers, TablesOK', Grows, Finish(h)
  PROVE  IInv'
<1>1. InFlight(Idle)'
  BY IdleIsRequest DEF InFlight, PackageSteps, UploadSteps
<1> QED BY <1>1, IdleIsRequest, HandlerStep DEF Finish

\* The calls that take a request in.
LEMMA AcceptStep ==
  ASSUME IInv, NEW h \in Handlers, Accept(h)
  PROVE  IInv'
<1> USE IdleIsRequest
<1>1. CASE CreatePackage(h)
  <2>1. PICK p \in PackageIds, n \in Names, private \in BOOLEAN :
          LET row == [name |-> n, private |-> private, status |-> "registered"] IN
          /\ InsertPackage(p, row)
          /\ req' = [req EXCEPT ![h] =
               [Idle EXCEPT !.step = "CreateTracks", !.op = "register", !.id = p,
                            !.pkg = row, !.work = {LatestTrack}]]
    BY <1>1 DEF CreatePackage
  <2> DEFINE row == [name |-> n, private |-> private, status |-> "registered"]
             r == [Idle EXCEPT !.step = "CreateTracks", !.op = "register", !.id = p,
                               !.pkg = row, !.work = {LatestTrack}]
  <2>2. row \in PackageRow
    BY DEF PackageRow
  <2>3. TablesOK' /\ Grows
    BY <2>1, <2>2, InsertPackageKeepsTables, PackageStatementsGrow DEF IInv
  <2>4. r \in Request
    <3>1. "CreateTracks" \in Steps /\ "register" \in Operations /\ LatestTrack \in Tracks
      BY TracksAssumption DEF Steps, PackageSteps, Operations
    <3> HIDE DEF row
    <3> QED BY <2>2, <3>1 DEF Request
  <2>5. p \in minted'
    BY <2>1 DEF InsertPackage
  <2>6. InFlight(r)'
    <3> HIDE DEF row
    <3> QED BY <2>2, <2>5, TracksAssumption DEF InFlight, Request, UploadSteps
  <2> QED BY <2>1, <2>3, <2>4, <2>6, HandlerStep
<1>2. CASE GetPackageByName(h)
  <2>1. PICK op \in Served \ {"register", "upload"}, p \in DOMAIN packages :
          req' = [req EXCEPT ![h] =
            [Idle EXCEPT !.step = "CanManagePackage", !.op = op, !.id = p, !.pkg = packages[p]]]
    BY <1>2 DEF GetPackageByName
  <2>2. PICK row : row = packages[p]
    OBVIOUS
  <2> DEFINE r == [Idle EXCEPT !.step = "CanManagePackage", !.op = op, !.id = p, !.pkg = row]
  <2>3. TablesOK' /\ Grows
    BY <1>2, ReadsKeepTables DEF GetPackageByName, IInv
  <2>4. p \in minted /\ p \in PackageIds /\ row \in PackageRow
    BY <2>2 DEF IInv, TablesOK, PackagesTypeOK, IsTable
  <2>5. r \in Request
    <3>1. "CanManagePackage" \in Steps /\ op \in Operations
      BY ServedAssumption DEF Steps, PackageSteps
    <3> QED BY <2>4, <3>1 DEF Request
  <2>6. InFlight(r)'
    BY <2>3, <2>4 DEF InFlight, Request, UploadSteps, Grows
  <2> QED BY <2>1, <2>2, <2>3, <2>5, <2>6, HandlerStep
<1>3. CASE PutBlob(h)
  <2>1. PICK u \in Uploads, payload \in Payloads :
          /\ NewUpload(u) /\ PutObject(u, payload)
          /\ req' = [req EXCEPT ![h] =
               [Idle EXCEPT !.step = "CreateUpload", !.op = "upload", !.upload = u,
                            !.digest = payload]]
    BY <1>3 DEF PutBlob
  <2> DEFINE r == [Idle EXCEPT !.step = "CreateUpload", !.op = "upload", !.upload = u,
                               !.digest = payload]
  <2>2. TablesOK' /\ Grows
    BY <2>1, PutObjectKeepsTables, UploadStatementsGrow DEF IInv
  <2>3. r \in Request
    <3>1. "CreateUpload" \in Steps /\ "upload" \in Operations
      BY DEF Steps, Operations
    <3> QED BY <3>1 DEF Request
  <2>4. ObjectKey(u) \in DOMAIN blobs' /\ (Own(u) => blobs'[u] = payload)
    BY <2>1 DEF PutObject, WithRow, ObjectKey, Own
  <2>5. InFlight(r)'
    BY <2>4 DEF InFlight, Request, UploadSteps, PackageSteps
  <2> QED BY <2>1, <2>2, <2>3, <2>5, HandlerStep
<1> QED BY <1>1, <1>2, <1>3 DEF Accept

\* A request that moves on with its fields unchanged.
LEMMA GotoStep ==
  ASSUME IInv, NEW h \in Handlers, TablesOK', Grows, NEW q, q = req[h],
         NEW s \in Steps, Goto(h, s), InFlight([q EXCEPT !.step = s])'
  PROVE  IInv'
<1>1. q \in Request
  BY DEF IInv
<1>2. [q EXCEPT !.step = s] \in Request
  BY <1>1 DEF Request
<1>3. req' = [req EXCEPT ![h] = [q EXCEPT !.step = s]]
  BY DEF Goto
<1> QED BY <1>2, <1>3, HandlerStep

\* The calls of RegisterPackage, CreateTracks, UpdatePackage and UnregisterPackage,
\* and the permission check they share with the others.
LEMMA PackageMethodsStep ==
  ASSUME IInv, NEW h \in Handlers,
         \/ InsertTrack(h) \/ RequirePackageManage(h) \/ UpdatePackage(h)
         \/ ListRevisions(h) \/ DeletePackage(h)
  PROVE  IInv'
<1>1. PICK q : q = req[h]
  OBVIOUS
<1>2. q \in Request /\ InFlight(q)
  BY <1>1 DEF IInv
<1>3. q.step \in PackageSteps => q.id \in PackageIds /\ q.pkg \in PackageRow
  BY <1>2 DEF InFlight, IInv, TablesOK, PackagesTypeOK
<1>4. CASE InsertTrack(h)
  <2>1. PICK t \in q.work :
          /\ InsertTrackRow(q.id, t)
          /\ req' = [req EXCEPT ![h] = [q EXCEPT !.work = @ \ {t}]]
    BY <1>1, <1>4 DEF InsertTrack
  <2>2. q.step = "CreateTracks" /\ q.id \in PackageIds /\ q.work \subseteq Tracks
    BY <1>1, <1>2, <1>3, <1>4 DEF InsertTrack, At, InFlight, PackageSteps
  <2>3. TablesOK' /\ Grows
    BY <2>1, <2>2, InsertTrackRowKeepsTables, PackageStatementsGrow DEF IInv
  <2>4. [q EXCEPT !.work = @ \ {t}] \in Request
    BY <1>2 DEF Request
  <2>5. InFlight(q)'
    BY <1>2, <2>3, InFlightIsStable
  <2>6. InFlight([q EXCEPT !.work = @ \ {t}])'
    BY <1>2, <2>2, <2>5 DEF InFlight, Request, UploadSteps
  <2> QED BY <2>1, <2>3, <2>4, <2>6, HandlerStep
<1>5. CASE RequirePackageManage(h)
  <2>1. TablesOK' /\ Grows
    BY <1>5, ReadsKeepTables DEF RequirePackageManage, IInv
  <2>2. InFlight(q)'
    BY <1>2, <2>1, InFlightIsStable
  <2>3. q.step = "CanManagePackage" /\ q.id \in PackageIds /\ q.pkg \in PackageRow
    BY <1>1, <1>3, <1>5 DEF RequirePackageManage, At, PackageSteps
  <2>4. CASE q.op = "unregister" /\ Goto(h, "ListRevisions")
    <3>1. "ListRevisions" \in Steps /\ InFlight([q EXCEPT !.step = "ListRevisions"])'
      BY <1>2, <2>2, <2>3, <2>4 DEF InFlight, Request, Steps, PackageSteps, UploadSteps
    <3> QED BY <1>1, <2>1, <2>4, <3>1, GotoStep
  <2>5. CASE q.op = "push" /\ Goto(h, "GetUpload")
    <3>1. "GetUpload" \in Steps /\ InFlight([q EXCEPT !.step = "GetUpload"])'
      BY <1>2, <2>2, <2>3, <2>5 DEF InFlight, Request, Steps, PackageSteps, UploadSteps
    <3> QED BY <1>1, <2>1, <2>5, <3>1, GotoStep
  <2>6. ASSUME NEW private \in BOOLEAN,
               req' = [req EXCEPT ![h] = [q EXCEPT !.step = "UpdatePackage", !.pkg.private = private]]
        PROVE  IInv'
    <3> DEFINE row == [q.pkg EXCEPT !.private = private]
               r == [q EXCEPT !.step = "UpdatePackage", !.pkg = row]
    <3>1. row \in PackageRow
      BY <2>3 DEF PackageRow
    <3>2. r \in Request
      <4>1. "UpdatePackage" \in Steps
        BY DEF Steps, PackageSteps
      <4> HIDE DEF row
      <4> QED BY <1>2, <3>1, <4>1 DEF Request
    <3>3. InFlight(r)'
      <4> HIDE DEF row
      <4> QED BY <1>2, <2>2, <2>3, <3>1 DEF InFlight, Request, PackageSteps, UploadSteps
    <3>4. req' = [req EXCEPT ![h] = r]
      BY <2>6
    <3> QED BY <2>1, <3>2, <3>3, <3>4, HandlerStep
  <2>7. ASSUME NEW n \in 0..MaxBatch, q.op = "release",
               req' = [req EXCEPT ![h] = [q EXCEPT !.step = "GetRevisionByNumber", !.left = n]]
        PROVE  IInv'
    <3>1. "GetRevisionByNumber" \in Steps
      BY DEF Steps, PackageSteps
    <3>2. [q EXCEPT !.step = "GetRevisionByNumber", !.left = n] \in Request
      BY <1>2, <3>1 DEF Request
    <3>3. InFlight([q EXCEPT !.step = "GetRevisionByNumber", !.left = n])'
      BY <1>2, <2>2, <2>3 DEF InFlight, Request, PackageSteps, UploadSteps
    <3> QED BY <2>1, <2>7, <3>2, <3>3, HandlerStep
  <2>8. ASSUME NEW T \in SUBSET Tracks, q.op = "tracks",
               req' = [req EXCEPT ![h] = [q EXCEPT !.step = "CreateTracks", !.work = T]]
        PROVE  IInv'
    <3>1. "CreateTracks" \in Steps
      BY DEF Steps, PackageSteps
    <3>2. [q EXCEPT !.step = "CreateTracks", !.work = T] \in Request
      BY <1>2, <3>1 DEF Request
    <3>3. InFlight([q EXCEPT !.step = "CreateTracks", !.work = T])'
      BY <1>2, <2>2, <2>3, <2>8 DEF InFlight, Request, PackageSteps, UploadSteps
    <3> QED BY <2>1, <2>8, <3>2, <3>3, HandlerStep
  <2> QED BY ZenonT(60), <1>1, <1>5, <2>4, <2>5, <2>6, <2>7, <2>8 DEF RequirePackageManage, Goto
<1>6. CASE UpdatePackage(h)
  <2>1. q.id \in PackageIds /\ q.pkg \in PackageRow /\ UpdatePackageRow(q.id, q.pkg)
    BY <1>1, <1>3, <1>6 DEF UpdatePackage, At, PackageSteps
  <2>2. TablesOK' /\ Grows
    BY <2>1, UpdatePackageRowKeepsTables, PackageStatementsGrow DEF IInv
  <2> QED BY <1>6, <2>2, FinishStep DEF UpdatePackage
<1>7. CASE ListRevisions(h)
  <2>1. TablesOK' /\ Grows
    BY <1>7, ReadsKeepTables DEF ListRevisions, IInv
  <2>2. InFlight(q)' /\ q.step = "ListRevisions"
    BY <1>1, <1>2, <1>7, <2>1, InFlightIsStable DEF ListRevisions, At
  <2>3. "DeletePackage" \in Steps /\ InFlight([q EXCEPT !.step = "DeletePackage"])'
    BY <1>2, <2>2 DEF InFlight, Request, Steps, PackageSteps, UploadSteps
  <2> QED BY <1>1, <1>7, <2>1, <2>3, GotoStep DEF ListRevisions
<1>8. CASE DeletePackage(h)
  <2>1. q.id \in PackageIds /\ DeletePackageRow(q.id)
    BY <1>1, <1>3, <1>8 DEF DeletePackage, At, PackageSteps
  <2>2. TablesOK' /\ Grows
    BY <2>1, DeletePackageRowKeepsTables, PackageStatementsGrow DEF IInv
  <2> QED BY <1>8, <2>2, FinishStep DEF DeletePackage
<1> QED BY <1>4, <1>5, <1>6, <1>7, <1>8

\* The calls of CreateUpload and the reading half of PushRevision.
LEMMA PreparePushStep ==
  ASSUME IInv, NEW h \in Handlers,
         \/ CreateUpload(h) \/ GetUpload(h) \/ GetBlob(h) \/ RejectUpload(h)
         \/ GetLatestRevision(h)
  PROVE  IInv'
<1>1. PICK q : q = req[h]
  OBVIOUS
<1>2. q \in Request /\ InFlight(q)
  BY <1>1 DEF IInv
<1>3. CASE CreateUpload(h)
  <2>1. /\ q.upload \in Uploads /\ q.digest \in Payloads /\ ObjectKey(q.upload) \in DOMAIN blobs
        /\ Own(q.upload) => q.digest = blobs[q.upload]
        /\ InsertUploadRow(q.upload, q.digest)
    BY <1>1, <1>2, <1>3 DEF CreateUpload, At, InFlight
  <2>2. TablesOK' /\ Grows
    BY <2>1, InsertUploadRowKeepsTables, UploadStatementsGrow DEF IInv
  <2> QED BY <1>3, <2>2, FinishStep DEF CreateUpload
<1>4. CASE GetUpload(h)
  <2>1. PICK u \in DOMAIN uploads :
          req' = [req EXCEPT ![h] =
            [q EXCEPT !.step = "GetBlob", !.upload = u, !.digest = uploads[u].digest]]
    BY <1>1, <1>4 DEF GetUpload
  <2>2. PICK d : d = uploads[u].digest
    OBVIOUS
  <2>3. TablesOK' /\ Grows
    BY <1>4, ReadsKeepTables DEF GetUpload, IInv
  <2>4. u \in Uploads /\ d \in Payloads
    BY <2>2 DEF IInv, TablesOK, UploadsTypeOK, IsTable, UploadRow
  <2>5. [q EXCEPT !.step = "GetBlob", !.upload = u, !.digest = d] \in Request
    <3>1. "GetBlob" \in Steps
      BY DEF Steps, PackageSteps, UploadSteps
    <3> QED BY <1>2, <2>4, <3>1 DEF Request
  <2>6. InFlight(q)' /\ q.step = "GetUpload"
    BY <1>1, <1>2, <1>4, <2>3, InFlightIsStable DEF GetUpload, At
  <2>7. u \in DOMAIN uploads' /\ uploads'[u].digest = d
    BY <2>2, <2>3 DEF Grows
  <2>8. InFlight([q EXCEPT !.step = "GetBlob", !.upload = u, !.digest = d])'
    BY <1>2, <2>6, <2>7 DEF InFlight, Request, PackageSteps, UploadSteps
  <2> QED BY <2>1, <2>2, <2>3, <2>5, <2>8, HandlerStep
<1>5. CASE GetBlob(h)
  <2>1. TablesOK' /\ Grows
    BY <1>5, ReadsKeepTables DEF GetBlob, IInv
  <2>2. InFlight(q)' /\ q.step = "GetBlob"
    BY <1>1, <1>2, <1>5, <2>1, InFlightIsStable DEF GetBlob, At
  <2>3. PICK payload : payload = blobs[ObjectKey(q.upload)]
    OBVIOUS
  <2>4. CASE payload \in Charms
    <3>1. req' = [req EXCEPT ![h] =
            [q EXCEPT !.step = "GetLatestRevision", !.work = Declared[payload]]]
      BY <1>1, <1>5, <2>3, <2>4 DEF GetBlob
    <3>2. Declared[payload] \subseteq Resources
      BY <2>4, DeclaredAssumption
    <3>3. [q EXCEPT !.step = "GetLatestRevision", !.work = Declared[payload]] \in Request
      <4>1. "GetLatestRevision" \in Steps
        BY DEF Steps, PackageSteps, UploadSteps
      <4> QED BY <1>2, <3>2, <4>1 DEF Request
    <3>4. Own(q.upload) => payload = q.digest
      <4>1. q.upload \in DOMAIN uploads /\ q.digest = uploads[q.upload].digest
        BY <1>2, <2>2 DEF InFlight, UploadSteps
      <4> QED BY <2>3, <4>1 DEF IInv, TablesOK, ArtifactsStored, ObjectKey, Own
    <3>5. InFlight([q EXCEPT !.step = "GetLatestRevision", !.work = Declared[payload]])'
      BY <1>2, <2>2, <2>4, <3>2, <3>4 DEF InFlight, Request, PackageSteps, UploadSteps
    <3> QED BY <2>1, <3>1, <3>3, <3>5, HandlerStep
  <2>5. CASE payload \notin Charms
    <3>1. Goto(h, "RejectUpload")
      BY <1>1, <1>5, <2>3, <2>5 DEF GetBlob
    <3>2. "RejectUpload" \in Steps /\ InFlight([q EXCEPT !.step = "RejectUpload"])'
      BY <1>2, <2>2 DEF InFlight, Request, Steps, PackageSteps, UploadSteps
    <3> QED BY <1>1, <2>1, <3>1, <3>2, GotoStep
  <2> QED BY <2>4, <2>5
<1>6. CASE RejectUpload(h)
  <2>1. ReviewUploadRow(q.upload, "rejected", None)
    BY <1>1, <1>6 DEF RejectUpload
  <2>2. TablesOK' /\ Grows
    BY <2>1, ReviewUploadRowKeepsTables, UploadStatementsGrow DEF IInv
  <2> QED BY <1>6, <2>2, FinishStep DEF RejectUpload
<1>7. CASE GetLatestRevision(h)
  <2>1. TablesOK' /\ Grows
    BY <1>7, ReadsKeepTables DEF GetLatestRevision, IInv
  <2>2. InFlight(q)' /\ q.step = "GetLatestRevision"
    BY <1>1, <1>2, <1>7, <2>1, InFlightIsStable DEF GetLatestRevision, At
  <2>3. q.id \in PackageIds
    BY <1>2, <2>2 DEF InFlight, PackageSteps, UploadSteps, IInv, TablesOK, PackagesTypeOK
  <2>4. PICK m \in 0..MaxRevision : DOMAIN revisions[q.id] = 1..m
    BY <2>3 DEF IInv, TablesOK, RevisionsContiguous
  <2>5. NextRevision(q.id) = m + 1 /\ m + 1 \in 0..(MaxRevision + 1)
    BY <2>4, NextRevisionOf, MaxRevisionAssumption
  <2>6. req' = [req EXCEPT ![h] = [q EXCEPT !.step = "CreateRevision", !.number = m + 1]]
    BY <1>1, <1>7, <2>5 DEF GetLatestRevision
  <2>7. [q EXCEPT !.step = "CreateRevision", !.number = m + 1] \in Request
    <3>1. "CreateRevision" \in Steps
      BY DEF Steps, PackageSteps, UploadSteps
    <3> QED BY <1>2, <2>5, <3>1 DEF Request
  <2>8. 1..((m + 1) - 1) \subseteq (DOMAIN revisions[q.id])'
    BY <1>7, <2>4 DEF GetLatestRevision, tables
  <2>9. InFlight([q EXCEPT !.step = "CreateRevision", !.number = m + 1])'
    BY <1>2, <2>2, <2>8 DEF InFlight, Request, PackageSteps, UploadSteps, Live
  <2> QED BY <2>1, <2>6, <2>7, <2>9, HandlerStep
<1> QED BY <1>3, <1>4, <1>5, <1>6, <1>7

\* The writing half of PushRevision, and the UpdatePackage it shares with Release.
LEMMA PushStep ==
  ASSUME IInv, NEW h \in Handlers,
         \/ CreateRevision(h) \/ ApproveUpload(h) \/ PublishPackage(h)
         \/ UpsertResourceDefinition(h)
  PROVE  IInv'
<1>1. PICK q : q = req[h]
  OBVIOUS
<1>2. q \in Request /\ InFlight(q)
  BY <1>1 DEF IInv
<1>3. q.step \in PackageSteps => q.id \in PackageIds /\ q.pkg \in PackageRow
  BY <1>2 DEF InFlight, IInv, TablesOK, PackagesTypeOK
<1>4. CASE CreateRevision(h)
  <2>1. q.step = "CreateRevision" /\ q.step \in UploadSteps /\ q.id \in PackageIds
    BY <1>1, <1>3, <1>4 DEF CreateRevision, At, PackageSteps, UploadSteps
  <2>2. InsertRevisionRow(q.id, q.number, [upload |-> q.upload, digest |-> q.digest])
    BY <1>1, <1>4 DEF CreateRevision
  <2>3. /\ q.upload \in DOMAIN uploads
        /\ q.digest = uploads[q.upload].digest
        /\ q.upload \in Uploads /\ q.digest \in Payloads
        /\ q.number \in Nat \ {0}
        /\ 1..(q.number - 1) \subseteq DOMAIN revisions[q.id]
        /\ ObjectKey(q.upload) \in DOMAIN blobs
        /\ Own(q.upload) => blobs[q.upload] = q.digest /\ q.digest \in Charms
    <3>1. /\ q.upload \in DOMAIN uploads
          /\ q.digest = uploads[q.upload].digest
          /\ Own(q.upload) => q.digest \in Charms
          /\ q.number \in Nat \ {0}
          /\ 1..(q.number - 1) \subseteq DOMAIN revisions[q.id]
      BY <1>2, <2>1, <2>2 DEF InFlight, Request, InsertRevisionRow
    <3> QED BY <3>1 DEF IInv, TablesOK, UploadsTypeOK, IsTable, UploadRow, ArtifactsStored
  <2>4. TablesOK' /\ Grows
    BY <2>1, <2>2, <2>3, InsertRevisionRowKeepsTables, UploadStatementsGrow DEF IInv
  <2>5. InFlight(q)' /\ q.number \in RevisionNumber
    BY <1>2, <2>2, <2>4, InFlightIsStable DEF InsertRevisionRow
  <2>6. "ApproveUpload" \in Steps /\ InFlight([q EXCEPT !.step = "ApproveUpload"])'
    BY <1>2, <2>1, <2>5 DEF InFlight, Request, Steps, PackageSteps, UploadSteps
  <2> QED BY <1>1, <1>4, <2>4, <2>6, GotoStep DEF CreateRevision
<1>5. CASE ApproveUpload(h)
  <2>1. q.step = "ApproveUpload" /\ q.number \in RevisionNumber
    BY <1>1, <1>2, <1>5 DEF ApproveUpload, At, InFlight
  <2>2. ReviewUploadRow(q.upload, "approved", q.number)
    BY <1>1, <1>5 DEF ApproveUpload
  <2>3. TablesOK' /\ Grows
    BY <2>1, <2>2, ReviewUploadRowKeepsTables, UploadStatementsGrow DEF IInv
  <2>4. InFlight(q)'
    BY <1>2, <2>3, InFlightIsStable
  <2>5. "PublishPackage" \in Steps /\ InFlight([q EXCEPT !.step = "PublishPackage"])'
    BY <1>2, <2>1, <2>4 DEF InFlight, Request, Steps, PackageSteps, UploadSteps
  <2> QED BY <1>1, <1>5, <2>3, <2>5, GotoStep DEF ApproveUpload
<1>6. CASE PublishPackage(h)
  <2>1. q.step = "PublishPackage" /\ q.id \in PackageIds /\ q.pkg \in PackageRow
    BY <1>1, <1>3, <1>6 DEF PublishPackage, At, PackageSteps
  <2>2. /\ UpdatePackageRow(q.id, [q.pkg EXCEPT !.status = "published"])
        /\ [q.pkg EXCEPT !.status = "published"] \in PackageRow
    BY <1>1, <1>6, <2>1 DEF PublishPackage, PackageRow
  <2>3. TablesOK' /\ Grows
    BY <2>1, <2>2, UpdatePackageRowKeepsTables, PackageStatementsGrow DEF IInv
  <2>4. InFlight(q)'
    BY <1>2, <2>3, InFlightIsStable
  <2>5. CASE q.op = "push" /\ Goto(h, "UpsertResourceDefinition")
    <3>1. /\ "UpsertResourceDefinition" \in Steps
          /\ InFlight([q EXCEPT !.step = "UpsertResourceDefinition"])'
      BY <1>2, <2>1, <2>4, <2>5 DEF InFlight, Request, Steps, PackageSteps, UploadSteps
    <3> QED BY <1>1, <2>3, <2>5, <3>1, GotoStep
  <2>6. CASE Finish(h)
    BY <2>3, <2>6, FinishStep
  <2> QED BY <1>1, <1>6, <2>5, <2>6 DEF PublishPackage
<1>7. CASE UpsertResourceDefinition(h)
  <2>1. PICK r \in q.work :
          /\ UpsertDefinitionRow(q.id, r)
          /\ req' = [req EXCEPT ![h] = [q EXCEPT !.work = @ \ {r}]]
    BY <1>1, <1>7 DEF UpsertResourceDefinition
  <2>2. /\ q.step = "UpsertResourceDefinition"
        /\ q.id \in PackageIds /\ q.work \subseteq Resources
    BY <1>1, <1>2, <1>3, <1>7 DEF UpsertResourceDefinition, At, InFlight, PackageSteps
  <2>3. TablesOK' /\ Grows
    BY <2>1, <2>2, UpsertDefinitionRowKeepsTables, PackageStatementsGrow DEF IInv
  <2>4. [q EXCEPT !.work = @ \ {r}] \in Request
    BY <1>2 DEF Request
  <2>5. InFlight(q)'
    BY <1>2, <2>3, InFlightIsStable
  <2>6. InFlight([q EXCEPT !.work = @ \ {r}])'
    BY <1>2, <2>2, <2>5 DEF InFlight, Request, UploadSteps
  <2> QED BY <2>1, <2>3, <2>4, <2>6, HandlerStep
<1> QED BY <1>4, <1>5, <1>6, <1>7

\* The loop of Release.
LEMMA ReleaseStep ==
  ASSUME IInv, NEW h \in Handlers,
         GetRevisionByNumber(h) \/ ReplaceRelease(h) \/ EndBatch(h)
  PROVE  IInv'
<1>1. PICK q : q = req[h]
  OBVIOUS
<1>2. q \in Request /\ InFlight(q)
  BY <1>1 DEF IInv
<1>3. q.step \in PackageSteps => q.id \in PackageIds
  BY <1>2 DEF InFlight, IInv, TablesOK, PackagesTypeOK
<1>4. CASE GetRevisionByNumber(h)
  <2>1. PICK n \in DOMAIN revisions[q.id] :
          req' = [req EXCEPT ![h] = [q EXCEPT !.step = "ReplaceRelease", !.number = n]]
    BY ZenonT(60), <1>1, <1>4 DEF GetRevisionByNumber
  <2>2. TablesOK' /\ Grows
    BY <1>4, ReadsKeepTables DEF GetRevisionByNumber, IInv
  <2>3. /\ InFlight(q)' /\ q.step = "GetRevisionByNumber"
        /\ q.id \in PackageIds /\ q.left > 0
    BY <1>1, <1>2, <1>3, <1>4, <2>2, InFlightIsStable DEF GetRevisionByNumber, At, PackageSteps
  <2>4. n \in RevisionNumber /\ n \in 0..(MaxRevision + 1)
    BY <2>1, <2>3, MaxRevisionAssumption
       DEF IInv, TablesOK, RevisionsTypeOK, IsTable, RevisionNumber
  <2>5. [q EXCEPT !.step = "ReplaceRelease", !.number = n] \in Request
    <3>1. "ReplaceRelease" \in Steps
      BY DEF Steps, PackageSteps
    <3> QED BY <1>2, <2>4, <3>1 DEF Request
  <2>6. n \in (DOMAIN revisions[q.id])'
    BY <1>4, <2>1 DEF GetRevisionByNumber, tables
  <2>7. InFlight([q EXCEPT !.step = "ReplaceRelease", !.number = n])'
    BY <1>2, <2>3, <2>4, <2>6 DEF InFlight, Request, PackageSteps, UploadSteps
  <2> QED BY <2>1, <2>2, <2>5, <2>7, HandlerStep
<1>5. CASE ReplaceRelease(h)
  <2>1. PICK c \in Channels : UpsertReleaseRow(q.id, c, q.number)
    BY <1>1, <1>5 DEF ReplaceRelease
  <2>2. /\ q.step = "ReplaceRelease" /\ q.id \in PackageIds
        /\ q.number \in DOMAIN revisions[q.id]
    BY <1>1, <1>2, <1>3, <1>5, <2>1 DEF ReplaceRelease, At, PackageSteps, InFlight, UpsertReleaseRow
  <2>3. TablesOK' /\ Grows
    BY <2>1, <2>2, UpsertReleaseRowKeepsTables, PackageStatementsGrow DEF IInv
  <2>4. InFlight(q)'
    BY <1>2, <2>3, InFlightIsStable
  <2> DEFINE r == [q EXCEPT !.step = "GetRevisionByNumber", !.number = 0, !.left = @ - 1]
  <2>5. req' = [req EXCEPT ![h] = r]
    BY <1>1, <1>5 DEF ReplaceRelease
  <2>6. q.left > 0
    BY <1>1, <1>2, <2>2 DEF InFlight
  <2>7. r \in Request
    <3>1. "GetRevisionByNumber" \in Steps
      BY DEF Steps, PackageSteps
    <3>2. q.left - 1 \in 0..MaxBatch /\ 0 \in 0..(MaxRevision + 1)
      BY <1>2, <2>6, MaxRevisionAssumption, MaxBatchAssumption DEF Request
    <3> QED BY <1>2, <3>1, <3>2 DEF Request
  <2>8. InFlight(r)'
    BY <1>2, <2>2, <2>4 DEF InFlight, Request, PackageSteps, UploadSteps
  <2> QED BY <2>3, <2>5, <2>7, <2>8, HandlerStep
<1>6. CASE EndBatch(h)
  <2>1. TablesOK' /\ Grows
    BY <1>6, ReadsKeepTables DEF EndBatch, IInv
  <2>2. InFlight(q)' /\ q.step = "GetRevisionByNumber"
    BY <1>1, <1>2, <1>6, <2>1, InFlightIsStable DEF EndBatch, At
  <2>3. "PublishPackage" \in Steps /\ InFlight([q EXCEPT !.step = "PublishPackage"])'
    BY <1>2, <2>2 DEF InFlight, Request, Steps, PackageSteps, UploadSteps
  <2> QED BY <1>1, <1>6, <2>1, <2>3, GotoStep DEF EndBatch
<1> QED BY <1>4, <1>5, <1>6

\* Whatever a handler does next, IInv stays.
LEMMA NextKeepsIInv == IInv /\ [Next]_vars => IInv'
<1> SUFFICES ASSUME IInv, [Next]_vars PROVE IInv'
  OBVIOUS
<1>1. CASE UNCHANGED vars
  <2>1. TablesOK' /\ Grows /\ req' = req
    BY <1>1, ReadsKeepTables DEF vars, IInv
  <2> QED BY <2>1, InFlightIsStable DEF IInv
<1>2. ASSUME NEW h \in Handlers, Accept(h) PROVE IInv'
  BY <1>2, AcceptStep
<1>3. ASSUME NEW h \in Handlers, Proceed(h) PROVE IInv'
  <2>1. CASE Reply(h)
    BY <2>1, ReadsKeepTables, FinishStep DEF Reply, IInv
  <2> QED BY <1>3, <2>1, PackageMethodsStep, PreparePushStep, PushStep, ReleaseStep DEF Proceed
<1>4. ASSUME NEW h \in Handlers, Fail(h) PROVE IInv'
  BY <1>4, ReadsKeepTables, FinishStep DEF Fail, IInv
<1> QED BY <1>1, <1>2, <1>3, <1>4 DEF Next

-----------------------------------------------------------------------------
(* The theorems. *)

\* IInv holds throughout.
THEOREM Invariance == Spec => []IInv
BY InitIInv, NextKeepsIInv, PTL DEF Spec

\* Rows and requests keep their shape; in particular no revision number
\* outgrows the INTEGER column of 0001_init.sql.
THEOREM TypeCorrect == Spec => []TypeOK
<1>1. IInv => TypeOK
  BY DEF IInv, TablesOK, TypeOK
<1> QED BY <1>1, Invariance, PTL

\* The numbers PushRevision hands out leave no gap, for any number of
\* concurrent pushes, deletions and failures.
THEOREM NumberingIsContiguous == Spec => []RevisionsContiguous
<1>1. IInv => RevisionsContiguous
  BY DEF IInv, TablesOK
<1> QED BY <1>1, Invariance, PTL

\* What Release writes never dangles, although the lookup of the revision and
\* the write of the channel are two statements and no foreign key backs them.
THEOREM ChannelsResolve == Spec => []ReleasesResolve
<1>1. IInv => ReleasesResolve
  BY DEF IInv, TablesOK
<1> QED BY <1>1, Invariance, PTL

\* UnregisterPackage removes a package for good, whoever still holds its id.
THEOREM NothingOutlivesItsPackage == Spec => []NoOrphanRows
<1>1. IInv => NoOrphanRows
  BY DEF IInv, TablesOK
<1> QED BY <1>1, Invariance, PTL

\* CreateUpload and PushRevision: every upload and every revision leads to an object, and
\* that object has the digest that is advertised for it unless its file was named "..";
\* such uploads overwrite each other, and no other upload's object.
THEOREM PublishedIsStored == Spec => []ArtifactsStored
<1>1. IInv => ArtifactsStored
  BY DEF IInv, TablesOK
<1> QED BY <1>1, Invariance, PTL

\* The number a push has computed is at most the next one.
LEMMA NumbersAreNext == IInv => NumberWasNext
<1> SUFFICES ASSUME IInv, NEW h \in Handlers, At(h, "CreateRevision"), Live(req[h].id)
             PROVE  req[h].number \in 1..NextRevision(req[h].id)
  BY DEF NumberWasNext
<1>1. /\ InFlight(req[h]) /\ req[h] \in Request
      /\ req[h].step \in PackageSteps
  BY DEF IInv, At, PackageSteps, UploadSteps
<1>2. /\ req[h].number \in Nat \ {0}
      /\ 1..(req[h].number - 1) \subseteq DOMAIN revisions[req[h].id]
      /\ req[h].id \in PackageIds
  <2>1. req[h].number \in Nat
    BY <1>1, MaxRevisionAssumption DEF Request
  <2>2. req[h].number > 0 /\ 1..(req[h].number - 1) \subseteq DOMAIN revisions[req[h].id]
    BY <1>1 DEF InFlight, At
  <2>3. req[h].id \in PackageIds
    BY <1>1 DEF InFlight, IInv, TablesOK, PackagesTypeOK
  <2> QED BY <2>1, <2>2, <2>3
<1>3. PICK m \in 0..MaxRevision : DOMAIN revisions[req[h].id] = 1..m
  BY <1>2 DEF IInv, TablesOK, RevisionsContiguous
<1>4. NextRevision(req[h].id) = m + 1
  BY <1>3, NextRevisionOf
<1>5. req[h].number =< m + 1
  <2>1. CASE req[h].number = 1
    BY <2>1
  <2>2. CASE req[h].number > 1
    <3>1. req[h].number - 1 \in 1..(req[h].number - 1)
      BY <1>2, <2>2
    <3>2. req[h].number - 1 \in 1..m
      BY <1>2, <1>3, <3>1
    <3> QED BY <1>2, <3>2
  <2> QED BY <1>2, <2>1, <2>2
<1> QED BY <1>2, <1>4, <1>5

\* A push that fails on UNIQUE(package_id, revision) did lose a race.
THEOREM ConflictsAreRaces == Spec => []NumberWasNext
BY NumbersAreNext, Invariance, PTL

-----------------------------------------------------------------------------
(***************************************************************************)
(* Publishing implements Catalog: the initial states map to initial        *)
(* states, and every call of every handler maps to a step of the catalog   *)
(* or to a stutter.  The proof looks at the statements rather than at the  *)
(* handlers: StatementOfAStep says which statement a step executes and     *)
(* what IInv knows about its arguments.                                    *)
(***************************************************************************)

\* Statements that a reader of the catalog does not notice.
InvisibleStatement ==
  \/ \E p \in PackageIds : \E row \in PackageRow : UpdatePackageRow(p, row)
  \/ \E p \in PackageIds : \E t \in Tracks : InsertTrackRow(p, t)
  \/ \E p \in PackageIds : \E r \in Resources : UpsertDefinitionRow(p, r)
  \/ \E u \in Uploads : \E payload \in Payloads : NewUpload(u) /\ PutObject(u, payload)
  \/ \E u \in Uploads : \E payload \in Payloads : InsertUploadRow(u, payload)
  \/ \E u \in Uploads, v \in {"approved", "rejected"}, n \in RevisionNumber \cup {None} :
       ReviewUploadRow(u, v, n)

\* An insert into revisions that leaves no gap.
PublishStatement(p, n, u) ==
  /\ 1..(n - 1) \subseteq DOMAIN revisions[p]
  /\ InsertRevisionRow(p, n, [upload |-> u, digest |-> uploads[u].digest])

Statement ==
  \/ InvisibleStatement
  \/ \E p \in PackageIds : \E row \in PackageRow : InsertPackage(p, row)
  \/ \E p \in PackageIds : DeletePackageRow(p)
  \/ \E p \in PackageIds, n \in Nat \ {0}, u \in Uploads : PublishStatement(p, n, u)
  \/ \E p \in PackageIds, c \in Channels : \E n \in DOMAIN revisions[p] : UpsertReleaseRow(p, c, n)

\* A step that takes a request in executes a statement or reads.
LEMMA AcceptStatement ==
  ASSUME IInv, NEW h \in Handlers, Accept(h)
  PROVE  Statement \/ UNCHANGED tables
<1>1. CASE CreatePackage(h)
  <2>1. PICK p \in PackageIds, n \in Names, private \in BOOLEAN :
          InsertPackage(p, [name |-> n, private |-> private, status |-> "registered"])
    BY <1>1 DEF CreatePackage
  <2>2. [name |-> n, private |-> private, status |-> "registered"] \in PackageRow
    BY DEF PackageRow
  <2> QED BY <2>1, <2>2 DEF Statement
<1>2. CASE GetPackageByName(h)
  BY <1>2 DEF GetPackageByName
<1>3. CASE PutBlob(h)
  BY <1>3 DEF PutBlob, Statement, InvisibleStatement
<1> QED BY <1>1, <1>2, <1>3 DEF Accept

\* So does a step of a request in flight.
LEMMA ProceedStatement ==
  ASSUME IInv, NEW h \in Handlers, Proceed(h)
  PROVE  Statement \/ UNCHANGED tables
<1>1. PICK q : q = req[h]
  OBVIOUS
<1>2. q \in Request /\ InFlight(q)
  BY <1>1 DEF IInv
<1>3. q.step \in PackageSteps => q.id \in PackageIds /\ q.pkg \in PackageRow
  BY <1>2 DEF InFlight, IInv, TablesOK, PackagesTypeOK
<1>4. q.step \in UploadSteps => q.upload \in Uploads
  BY <1>2 DEF InFlight, IInv, TablesOK, UploadsTypeOK, IsTable
<1>5. CASE InsertTrack(h)
  <2>1. q.step = "CreateTracks" /\ q.id \in PackageIds /\ q.work \subseteq Tracks
    BY <1>1, <1>2, <1>3, <1>5 DEF InsertTrack, At, InFlight, PackageSteps
  <2> QED BY <1>1, <1>5, <2>1 DEF InsertTrack, Statement, InvisibleStatement
<1>6. CASE UpdatePackage(h)
  <2>1. q.id \in PackageIds /\ q.pkg \in PackageRow
    BY <1>1, <1>3, <1>6 DEF UpdatePackage, At, PackageSteps
  <2> QED BY <1>1, <1>6, <2>1 DEF UpdatePackage, Statement, InvisibleStatement
<1>7. CASE DeletePackage(h)
  <2>1. q.id \in PackageIds
    BY <1>1, <1>3, <1>7 DEF DeletePackage, At, PackageSteps
  <2> QED BY <1>1, <1>7, <2>1 DEF DeletePackage, Statement
<1>8. CASE CreateUpload(h)
  <2>1. q.upload \in Uploads /\ q.digest \in Payloads
    BY <1>1, <1>2, <1>8 DEF CreateUpload, At, InFlight
  <2> QED BY <1>1, <1>8, <2>1 DEF CreateUpload, Statement, InvisibleStatement
<1>9. CASE RejectUpload(h)
  <2>1. q.upload \in Uploads
    BY <1>1, <1>4, <1>9 DEF RejectUpload, At, UploadSteps
  <2> QED BY <1>1, <1>9, <2>1 DEF RejectUpload, Statement, InvisibleStatement
<1>10. CASE ApproveUpload(h)
  <2>1. q.upload \in Uploads /\ q.number \in RevisionNumber
    BY <1>1, <1>2, <1>4, <1>10 DEF ApproveUpload, At, InFlight, UploadSteps
  <2> QED BY <1>1, <1>10, <2>1 DEF ApproveUpload, Statement, InvisibleStatement
<1>11. CASE PublishPackage(h)
  <2>1. q.id \in PackageIds /\ [q.pkg EXCEPT !.status = "published"] \in PackageRow
    BY <1>1, <1>3, <1>11 DEF PublishPackage, At, PackageSteps, PackageRow
  <2> QED BY <1>1, <1>11, <2>1 DEF PublishPackage, Statement, InvisibleStatement
<1>12. CASE UpsertResourceDefinition(h)
  <2>1. /\ q.step = "UpsertResourceDefinition"
        /\ q.id \in PackageIds /\ q.work \subseteq Resources
    BY <1>1, <1>2, <1>3, <1>12 DEF UpsertResourceDefinition, At, InFlight, PackageSteps
  <2> QED BY <1>1, <1>12, <2>1 DEF UpsertResourceDefinition, Statement, InvisibleStatement
<1>13. CASE CreateRevision(h)
  <2>1. /\ q.step = "CreateRevision" /\ q.id \in PackageIds /\ q.upload \in Uploads
        /\ InsertRevisionRow(q.id, q.number, [upload |-> q.upload, digest |-> q.digest])
    BY <1>1, <1>3, <1>4, <1>13 DEF CreateRevision, At, PackageSteps, UploadSteps
  <2>2. q.digest = uploads[q.upload].digest
    BY <1>2, <2>1 DEF InFlight, UploadSteps
  <2>3. q.number \in Nat \ {0} /\ 1..(q.number - 1) \subseteq DOMAIN revisions[q.id]
    BY <1>2, <2>1 DEF InFlight, Request, InsertRevisionRow
  <2>4. PublishStatement(q.id, q.number, q.upload)
    BY <2>1, <2>2, <2>3 DEF PublishStatement
  <2> QED BY <2>1, <2>3, <2>4 DEF Statement
<1>14. CASE ReplaceRelease(h)
  <2>1. PICK c \in Channels : UpsertReleaseRow(q.id, c, q.number)
    BY <1>1, <1>14 DEF ReplaceRelease
  <2>2. q.id \in PackageIds /\ q.number \in DOMAIN revisions[q.id]
    BY <1>1, <1>2, <1>3, <1>14, <2>1
       DEF ReplaceRelease, At, PackageSteps, InFlight, UpsertReleaseRow
  <2> QED BY <2>1, <2>2 DEF Statement
<1> QED
  BY <1>5, <1>6, <1>7, <1>8, <1>9, <1>10, <1>11, <1>12, <1>13, <1>14
     DEF Proceed, RequirePackageManage, ListRevisions, GetUpload, GetBlob, GetLatestRevision,
         GetRevisionByNumber, EndBatch, Reply

\* Every step executes one statement, or none.
LEMMA StatementOfAStep ==
  ASSUME IInv, [Next]_vars
  PROVE  Statement \/ UNCHANGED tables
BY AcceptStatement, ProceedStatement DEF Next, Fail, vars, tables

-----------------------------------------------------------------------------
(* What each statement is in the catalog. *)

\* The refinement mapping of Publishing!C, by name.
namesOf == [p \in DOMAIN packages |-> packages[p].name]
historyOf == [p \in PackageIds |-> [n \in DOMAIN revisions[p] |-> revisions[p][n].upload]]

catalogOf == <<namesOf, minted, historyOf, releases>>

\* The catalog does not notice a statement on anything but names, revisions and releases.
LEMMA InvisibleStatementStutters ==
  ASSUME IInv, InvisibleStatement \/ UNCHANGED tables
  PROVE  UNCHANGED catalogOf
<1>1. CASE \E p \in PackageIds : \E row \in PackageRow : UpdatePackageRow(p, row)
  <2>1. PICK p \in PackageIds, row \in PackageRow : UpdatePackageRow(p, row)
    BY <1>1
  <2>2. DOMAIN packages' = DOMAIN packages
    BY <2>1 DEF UpdatePackageRow
  <2>3. \A q \in DOMAIN packages : packages'[q].name = packages[q].name
    BY <2>1 DEF UpdatePackageRow, PackageRow
  <2>4. namesOf' = namesOf
    BY <2>2, <2>3 DEF namesOf
  <2> QED BY <2>1, <2>4 DEF UpdatePackageRow, catalogOf, historyOf
<1>2. CASE UNCHANGED <<packages, minted, revisions, releases>>
  BY <1>2 DEF catalogOf, namesOf, historyOf
<1> QED
  BY <1>1, <1>2 DEF InvisibleStatement, InsertTrackRow, UpsertDefinitionRow, PutObject,
                    InsertUploadRow, ReviewUploadRow, tables

\* INSERT INTO packages registers a name.
LEMMA InsertPackageRegisters ==
  ASSUME IInv, NEW p \in PackageIds, NEW row \in PackageRow, InsertPackage(p, row)
  PROVE  C!CatalogNext
<1>1. row.name \in Names /\ p \notin minted /\ p \notin DOMAIN packages
  BY DEF PackageRow, InsertPackage, IInv, TablesOK, PackagesTypeOK, IsTable
<1>2. /\ namesOf' = [q \in DOMAIN namesOf \cup {p} |-> IF q = p THEN row.name ELSE namesOf[q]]
      /\ \A q \in DOMAIN namesOf : namesOf[q] # row.name
      /\ historyOf' = historyOf
  BY <1>1 DEF InsertPackage, WithRow, namesOf, historyOf
<1>3. C!Register(p, row.name)
  BY <1>1, <1>2 DEF C!Register, InsertPackage, namesOf, historyOf
<1> QED BY <1>1, <1>3 DEF C!CatalogNext

\* DELETE FROM packages unregisters.
LEMMA DeletePackageUnregisters ==
  ASSUME IInv, NEW p \in PackageIds, DeletePackageRow(p)
  PROVE  C!CatalogNext
<1>1. namesOf' = [q \in DOMAIN namesOf \ {p} |-> namesOf[q]] /\ p \in DOMAIN namesOf
  BY DEF DeletePackageRow, Live, namesOf
<1>2. historyOf' = [historyOf EXCEPT ![p] = C!Nothing]
  BY DEF DeletePackageRow, historyOf, NoRows, C!Nothing, IInv, TablesOK, RevisionsTypeOK
<1>3. releases' = [releases EXCEPT ![p] = C!Nothing] /\ minted' = minted
  BY DEF DeletePackageRow, NoRows, C!Nothing
<1>4. C!Unregister(p)
  BY <1>1, <1>2, <1>3 DEF C!Unregister, namesOf, historyOf
<1> QED BY <1>4 DEF C!CatalogNext

\* INSERT INTO revisions publishes the next revision.
LEMMA InsertRevisionPublishes ==
  ASSUME IInv, NEW p \in PackageIds, NEW n \in Nat \ {0}, NEW u \in Uploads,
         PublishStatement(p, n, u)
  PROVE  C!CatalogNext
<1> DEFINE row == [upload |-> u, digest |-> uploads[u].digest]
<1>1. PICK m \in 0..MaxRevision : DOMAIN revisions[p] = 1..m
  BY DEF IInv, TablesOK, RevisionsContiguous
<1>2. n = m + 1 /\ n \in 1..MaxRevision
  BY <1>1, MaxRevisionAssumption DEF PublishStatement, InsertRevisionRow, RevisionNumber
<1>3. revisions' = [revisions EXCEPT ![p] = WithRow(@, n, row)] /\ DOMAIN revisions = PackageIds
  BY DEF PublishStatement, InsertRevisionRow, IInv, TablesOK, RevisionsTypeOK
<1>4. DOMAIN historyOf[p] = 1..(n - 1) /\ DOMAIN historyOf = PackageIds
  BY <1>1, <1>2 DEF historyOf
<1>5. \A q \in PackageIds \ {p} : historyOf'[q] = historyOf[q]
  BY <1>3 DEF historyOf
<1>6. historyOf'[p] = [k \in 1..n |-> IF k = n THEN u ELSE historyOf[p][k]]
  <2>1. revisions'[p] = WithRow(revisions[p], n, row)
    BY <1>3
  <2>2. DOMAIN revisions'[p] = 1..n
    BY <1>1, <1>2, <2>1 DEF WithRow
  <2>3. historyOf'[p] = [k \in 1..n |-> revisions'[p][k].upload]
    BY <2>2 DEF historyOf
  <2>4. \A k \in 1..n : revisions'[p][k].upload = IF k = n THEN u ELSE revisions[p][k].upload
    BY <1>1, <1>2, <2>1 DEF WithRow
  <2>5. \A k \in (1..n) \ {n} : historyOf[p][k] = revisions[p][k].upload
    BY <1>1, <1>2 DEF historyOf
  <2> QED BY <2>3, <2>4, <2>5
<1>7. historyOf' = [historyOf EXCEPT ![p] = [k \in 1..n |-> IF k = n THEN u ELSE @[k]]]
  BY <1>4, <1>5, <1>6 DEF historyOf
<1>8. UNCHANGED <<namesOf, minted, releases>> /\ p \in DOMAIN namesOf
  BY DEF PublishStatement, InsertRevisionRow, namesOf, Live
<1>9. C!Publish(p, n, u)
  BY <1>4, <1>7, <1>8 DEF C!Publish, namesOf, historyOf
<1> QED BY <1>2, <1>9 DEF C!CatalogNext

\* INSERT INTO releases assigns a channel.
LEMMA UpsertReleaseAssigns ==
  ASSUME IInv, NEW p \in PackageIds, NEW c \in Channels, NEW n \in DOMAIN revisions[p],
         UpsertReleaseRow(p, c, n)
  PROVE  C!CatalogNext
<1>1. n \in DOMAIN historyOf[p] /\ p \in DOMAIN namesOf
  BY DEF historyOf, namesOf, UpsertReleaseRow, Live
<1>2. UNCHANGED <<namesOf, minted, historyOf>>
  BY DEF UpsertReleaseRow, namesOf, historyOf
<1>3. releases' = [releases EXCEPT ![p] = [d \in DOMAIN @ \cup {c} |-> IF d = c THEN n ELSE @[d]]]
  BY DEF UpsertReleaseRow, WithRow
<1>4. C!Assign(p, c, n)
  BY <1>1, <1>2, <1>3 DEF C!Assign, namesOf, historyOf
<1> QED BY <1>1, <1>4 DEF C!CatalogNext, historyOf

\* The tables start as an empty catalog.
LEMMA InitMapsToInit == Init => C!CatalogInit
BY DEF Init, InitRepository, NoRows, C!CatalogInit, C!Nothing

\* A step of Publishing is a step of Catalog or leaves the catalog alone.
LEMMA StepMapsToStep == IInv /\ [Next]_vars => [C!CatalogNext]_(C!catalog)
<1> SUFFICES ASSUME IInv, [Next]_vars PROVE C!CatalogNext \/ UNCHANGED C!catalog
  OBVIOUS
<1>1. CASE InvisibleStatement \/ UNCHANGED tables
  BY <1>1, InvisibleStatementStutters DEF catalogOf, namesOf, historyOf, C!catalog
<1>2. CASE Statement /\ ~InvisibleStatement
  BY <1>2, InsertPackageRegisters, DeletePackageUnregisters, InsertRevisionPublishes,
     UpsertReleaseAssigns DEF Statement
<1> QED BY <1>1, <1>2, StatementOfAStep

\* The handlers, interleaved and failing as they may, implement the catalog.
THEOREM PublishingImplementsCatalog == Spec => ImplementsCatalog
BY InitMapsToInit, StepMapsToStep, Invariance, PTL DEF Spec, ImplementsCatalog, C!CatalogSpec

\* The revisions of a package stay what they are until the package goes.
RevisionsKept ==
  \A p \in DOMAIN packages \cap DOMAIN packages' : \A n \in DOMAIN revisions[p] :
    n \in DOMAIN revisions'[p] /\ revisions'[p][n] = revisions[p][n]

\* The statements that touch the table revisions add a number that was free, or
\* delete the whole package.
LEMMA StepKeepsRevisions ==
  ASSUME IInv, [Next]_vars
  PROVE  RevisionsKept
<1> USE DEF RevisionsKept
<1>1. DOMAIN packages \subseteq PackageIds /\ DOMAIN revisions = PackageIds
  BY DEF IInv, TablesOK, PackagesTypeOK, RevisionsTypeOK, IsTable
<1>2. CASE revisions' = revisions
  BY <1>2
<1>3. ASSUME NEW p \in PackageIds, DeletePackageRow(p) PROVE RevisionsKept
  BY <1>1, <1>3 DEF DeletePackageRow
<1>4. ASSUME NEW p \in PackageIds, NEW n, NEW u, PublishStatement(p, n, u) PROVE RevisionsKept
  BY <1>1, <1>4 DEF PublishStatement, InsertRevisionRow, WithRow
<1>5. InvisibleStatement \/ UNCHANGED tables => revisions' = revisions
  BY DEF InvisibleStatement, UpdatePackageRow, InsertTrackRow, UpsertDefinitionRow, PutObject,
         InsertUploadRow, ReviewUploadRow, tables
<1> QED
  BY <1>2, <1>3, <1>4, <1>5, StatementOfAStep DEF Statement, InsertPackage, UpsertReleaseRow

\* What PushRevision has published is never rewritten.
THEOREM PublishedRevisionsStay == Spec => RevisionsImmutable
<1>1. IInv /\ [Next]_vars => [RevisionsKept]_vars
  BY StepKeepsRevisions
<1> QED BY <1>1, Invariance, PTL DEF Spec, RevisionsImmutable, RevisionsKept

=============================================================================
