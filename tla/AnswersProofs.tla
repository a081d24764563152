---------------------------- MODULE AnswersProofs ----------------------------
(***************************************************************************)
(* What Publishing tells its clients is true, for every value of the       *)
(* constants: the review of an upload, and the 200 of a push and of a      *)
(* registration.  PromisesInv adds to IInv what a request has done so far  *)
(* (HasDone), and AnswersInv that only what is no charm is ever rejected   *)
(* (ReviewsOK); Persists says that no statement takes back what was done,  *)
(* the deletion of a package excepted.  The last part (ServedInv) puts the *)
(* requests of Resources beside them: what HasDone says holds on; what     *)
(* ReviewsOK says does not, and ReviewNamesARevision takes its place.      *)
(***************************************************************************)
EXTENDS ResourcesProofs

\* The revision n of p is the upload u, unless p has been unregistered.
Pushed(p, n, u) == Live(p) => n \in DOMAIN revisions[p] /\ revisions[p][n].upload = u

\* The calls of a push whose work is still everything the charm declares.
BeforeDefinitions == {"GetLatestRevision", "CreateRevision", "ApproveUpload", "PublishPackage"}
\* The calls of a push that come after repo.CreateRevision.
AfterInsert == {"ApproveUpload", "PublishPackage", "UpsertResourceDefinition"}

\* What a request in flight has done, or found out about its upload.
HasDone(r) ==
  /\ r.step \in {"GetRevisionByNumber", "ReplaceRelease"} => r.op = "release"
  /\ r.step = "RejectUpload" /\ Own(r.upload) => blobs[r.upload] \notin Charms
  /\ r.op = "push" /\ r.step \in BeforeDefinitions /\ Own(r.upload) =>
       r.work = Declared[blobs[r.upload]]
  /\ r.op = "push" /\ r.step \in AfterInsert =>
       /\ r.upload \in DOMAIN uploads /\ (Own(r.upload) => blobs[r.upload] \in Charms)
       /\ Pushed(r.id, r.number, r.upload)
  /\ r.op = "push" /\ r.step \in AfterInsert \ {"ApproveUpload"} /\ Own(r.upload) =>
       uploads[r.upload].status = "approved"
  /\ r.step = "UpsertResourceDefinition" /\ Live(r.id) /\ Own(r.upload) =>
       Declared[blobs[r.upload]] \subseteq definitions[r.id] \cup r.work
  /\ r.op = "register" /\ r.step = "CreateTracks" /\ Live(r.id) =>
       LatestTrack \in tracks[r.id] \cup r.work

\* ReviewIsTruthful, with the reason why a rejected upload is never published.
ReviewsOK ==
  \A u \in DOMAIN uploads :
    /\ uploads[u].status = "approved" =>
         \/ minted # DOMAIN packages
         \/ \E p \in DOMAIN packages :
              /\ uploads[u].revision \in DOMAIN revisions[p]
              /\ revisions[p][uploads[u].revision].upload = u
    /\ uploads[u].status = "rejected" /\ Own(u) => blobs[u] \notin Charms

PromisesInv == IInv /\ \A h \in Handlers : HasDone(req[h])

AnswersInv == PromisesInv /\ ReviewsOK

-----------------------------------------------------------------------------
(* What a statement leaves of what was done. *)

\* A package that lives keeps its rows.
PackagesKeepRows ==
  /\ minted \subseteq minted'
  /\ \A p \in minted \cap DOMAIN packages' :
       /\ p \in DOMAIN packages
       /\ definitions[p] \subseteq definitions'[p] /\ tracks[p] \subseteq tracks'[p]
       /\ \A n \in DOMAIN revisions[p] :
            n \in DOMAIN revisions'[p] /\ revisions'[p][n] = revisions[p][n]

\* An object stays with its content, unless it is the shared one.
ObjectsStay ==
  \A k \in DOMAIN blobs : k \in DOMAIN blobs' /\ (k # SharedKey => blobs'[k] = blobs[k])

\* Objects stay, and so does the approval of a charm that has its object to itself.
Persists ==
  /\ PackagesKeepRows
  /\ ObjectsStay
  /\ \A u \in DOMAIN uploads :
       /\ u \in DOMAIN uploads'
       /\ uploads[u].status = "approved" /\ Own(u) /\ blobs[u] \in Charms =>
            uploads'[u].status = "approved"

\* The reviews are what they were; what is new is pending.
ReviewsStay ==
  /\ \A u \in DOMAIN uploads : u \in DOMAIN uploads' /\ uploads'[u] = uploads[u]
  /\ \A u \in DOMAIN uploads' \ DOMAIN uploads : uploads'[u].status = "pending"

\* No statement takes rows from a package it does not delete; objects stay.
LEMMA StatementKeepsRows ==
  ASSUME TablesOK, Statement \/ UNCHANGED tables
  PROVE  PackagesKeepRows /\ ObjectsStay
<1> USE DEF PackagesKeepRows, ObjectsStay, TablesOK, PackagesTypeOK, RevisionsTypeOK, IsTable
<1>1. CASE UNCHANGED tables
  BY <1>1 DEF tables
<1>2. ASSUME NEW p \in PackageIds, NEW row, InsertPackage(p, row) \/ UpdatePackageRow(p, row)
      PROVE  PackagesKeepRows /\ UNCHANGED blobs
  BY <1>2 DEF InsertPackage, UpdatePackageRow, WithRow
<1>3. ASSUME NEW p \in PackageIds, DeletePackageRow(p) PROVE PackagesKeepRows /\ UNCHANGED blobs
  BY <1>3 DEF DeletePackageRow
<1>4. ASSUME NEW p \in PackageIds, NEW x, InsertTrackRow(p, x) \/ UpsertDefinitionRow(p, x)
      PROVE  PackagesKeepRows /\ UNCHANGED blobs
  BY <1>4 DEF InsertTrackRow, UpsertDefinitionRow
<1>5. ASSUME NEW u, NEW x, NEW y,
             \/ NewUpload(u) /\ PutObject(u, x)
             \/ InsertUploadRow(u, x) \/ ReviewUploadRow(u, x, y)
      PROVE  PackagesKeepRows /\ ObjectsStay
  BY <1>5 DEF NewUpload, PutObject, InsertUploadRow, ReviewUploadRow, WithRow, ObjectKey
<1>6. ASSUME NEW p \in PackageIds, NEW n, NEW row, InsertRevisionRow(p, n, row)
      PROVE  PackagesKeepRows /\ UNCHANGED blobs
  BY <1>6 DEF InsertRevisionRow, WithRow
<1>7. ASSUME NEW p \in PackageIds, NEW c, NEW n, UpsertReleaseRow(p, c, n)
      PROVE  PackagesKeepRows /\ UNCHANGED blobs
  BY <1>7 DEF UpsertReleaseRow
<1>a. UNCHANGED blobs => ObjectsStay
  OBVIOUS
<1> HIDE DEF PackagesKeepRows, ObjectsStay, TablesOK, PackagesTypeOK, RevisionsTypeOK, IsTable
<1>8. CASE InvisibleStatement
  BY <1>2, <1>4, <1>5, <1>8, <1>a DEF InvisibleStatement
<1>9. CASE Statement /\ ~InvisibleStatement
  BY <1>2, <1>3, <1>6, <1>7, <1>9, <1>a DEF Statement, PublishStatement
<1> QED BY <1>1, <1>8, <1>9

\* An upload with an object to itself keeps it.
LEMMA OwnObjectStays ==
  ASSUME TablesOK, ObjectsStay, NEW u \in DOMAIN uploads, Own(u)
  PROVE  u \in DOMAIN blobs /\ blobs'[u] = blobs[u]
BY DotDotAssumption DEF TablesOK, ArtifactsStored, UploadsTypeOK, IsTable, ObjectsStay, ObjectKey, Own

\* A package that is gone is missing for good.
LEMMA GoneForGood ==
  ASSUME TablesOK, PackagesKeepRows, minted # DOMAIN packages
  PROVE  minted' # DOMAIN packages'
BY DEF TablesOK, PackagesTypeOK, IsTable, PackagesKeepRows

\* An approved upload is still the revision its review says, unless a package is gone.
LEMMA ApprovalStaysTrue ==
  ASSUME TablesOK, PackagesKeepRows, NEW u, NEW n, NEW p \in DOMAIN packages,
         n \in DOMAIN revisions[p], revisions[p][n].upload = u
  PROVE  \/ minted' # DOMAIN packages'
         \/ \E q \in DOMAIN packages' :
              n \in DOMAIN revisions'[q] /\ revisions'[q][n].upload = u
<1>1. p \in minted
  BY DEF TablesOK, PackagesTypeOK, IsTable
<1>2. CASE p \in DOMAIN packages'
  BY <1>1, <1>2 DEF PackagesKeepRows
<1>3. CASE p \notin DOMAIN packages'
  BY <1>1, <1>3 DEF PackagesKeepRows
<1> QED BY <1>2, <1>3

\* A step that reviews nothing persists.
LEMMA QuietPersists ==
  ASSUME IInv, Statement \/ UNCHANGED tables, ReviewsStay
  PROVE  Persists
BY StatementKeepsRows DEF IInv, ReviewsStay, Persists

\* And the reviews stay right.
LEMMA QuietStatement ==
  ASSUME IInv, ReviewsOK, Statement \/ UNCHANGED tables, ReviewsStay
  PROVE  ReviewsOK'
<1>1. PackagesKeepRows /\ ObjectsStay /\ TablesOK
  BY StatementKeepsRows DEF IInv
<1>3. ASSUME NEW u \in DOMAIN uploads', uploads'[u].status \in {"approved", "rejected"}
      PROVE  u \in DOMAIN uploads /\ uploads'[u] = uploads[u]
  BY <1>3 DEF ReviewsStay
<1>4. ASSUME NEW u \in DOMAIN uploads', uploads'[u].status = "approved"
      PROVE  \/ minted' # DOMAIN packages'
             \/ \E p \in DOMAIN packages' :
                  /\ uploads'[u].revision \in DOMAIN revisions'[p]
                  /\ revisions'[p][uploads'[u].revision].upload = u
  <2>1. u \in DOMAIN uploads /\ uploads'[u] = uploads[u]
    BY <1>3, <1>4
  <2>2. CASE minted # DOMAIN packages
    BY <1>1, <2>2, GoneForGood
  <2>3. CASE minted = DOMAIN packages
    <3>1. PICK p \in DOMAIN packages : /\ uploads[u].revision \in DOMAIN revisions[p]
                                       /\ revisions[p][uploads[u].revision].upload = u
      BY <1>4, <2>1, <2>3 DEF ReviewsOK
    <3> QED BY <1>1, <2>1, <3>1, ApprovalStaysTrue
  <2> QED BY <2>2, <2>3
<1>5. ASSUME NEW u \in DOMAIN uploads', uploads'[u].status = "rejected", Own(u)
      PROVE  blobs'[u] \notin Charms
  <2>1. u \in DOMAIN uploads /\ uploads'[u] = uploads[u]
    BY <1>3, <1>5
  <2>2. u \in DOMAIN blobs /\ blobs'[u] = blobs[u]
    BY <1>1, <1>5, <2>1, OwnObjectStays
  <2> QED BY <1>5, <2>1, <2>2 DEF ReviewsOK
<1> QED BY <1>4, <1>5 DEF ReviewsOK

\* Only RejectUpload and ApproveUpload review.
LEMMA OnlyReviewsReview ==
  ASSUME NEW h \in Handlers, Accept(h) \/ Proceed(h) \/ Fail(h),
         ~RejectUpload(h), ~ApproveUpload(h)
  PROVE  ReviewsStay
<1>1. CASE UNCHANGED uploads
  BY <1>1 DEF ReviewsStay
<1>2. ASSUME NEW u, NEW d, InsertUploadRow(u, d) PROVE ReviewsStay
  BY <1>2 DEF InsertUploadRow, WithRow, ReviewsStay
<1>3. CASE Accept(h) \/ Fail(h)
  BY <1>1, <1>3 DEF Accept, Fail, CreatePackage, GetPackageByName, PutBlob, InsertPackage,
                    PutObject, tables
<1>4. CASE CreateUpload(h)
  BY <1>2, <1>4 DEF CreateUpload
<1>5. CASE \/ InsertTrack(h) \/ RequirePackageManage(h) \/ UpdatePackage(h)
           \/ ListRevisions(h) \/ DeletePackage(h) \/ GetUpload(h) \/ GetBlob(h)
  BY <1>1, <1>5 DEF InsertTrack, RequirePackageManage, UpdatePackage, ListRevisions,
                    DeletePackage, GetUpload, GetBlob, InsertTrackRow, UpdatePackageRow,
                    DeletePackageRow, tables
<1>6. CASE \/ GetLatestRevision(h) \/ CreateRevision(h) \/ PublishPackage(h)
           \/ UpsertResourceDefinition(h) \/ GetRevisionByNumber(h) \/ ReplaceRelease(h)
           \/ EndBatch(h) \/ Reply(h)
  BY <1>1, <1>6 DEF GetLatestRevision, CreateRevision, PublishPackage,
                    UpsertResourceDefinition, GetRevisionByNumber, ReplaceRelease, EndBatch,
                    Reply, InsertRevisionRow, UpdatePackageRow, UpsertDefinitionRow,
                    UpsertReleaseRow, tables
<1> QED BY <1>3, <1>4, <1>5, <1>6 DEF Proceed

\* A step that reviews nothing is quiet.
LEMMA QuietStep ==
  ASSUME IInv, NEW h \in Handlers, Accept(h) \/ Proceed(h) \/ Fail(h),
         ~RejectUpload(h), ~ApproveUpload(h)
  PROVE  Persists
<1>1. Statement \/ UNCHANGED tables
  BY AcceptStatement, ProceedStatement DEF Fail
<1> QED BY <1>1, OnlyReviewsReview, QuietPersists

\* After repo.CreateRevision the revision is there.
LEMMA InsertedIsPushed ==
  ASSUME TablesOK, NEW p \in PackageIds, NEW n, NEW u, NEW d,
         InsertRevisionRow(p, n, [upload |-> u, digest |-> d])
  PROVE  Pushed(p, n, u)'
BY DEF InsertRevisionRow, WithRow, Pushed, TablesOK, RevisionsTypeOK

-----------------------------------------------------------------------------
(* What one request has done stays done while the others go on. *)

\* A request that does not move keeps what it was promised.
LEMMA HasDoneIsStable ==
  ASSUME TablesOK, Persists, NEW r \in Request, InFlight(r), HasDone(r)
  PROVE  HasDone(r)'
<1>1. r.step \in PackageSteps => r.id \in minted
  BY DEF InFlight
<1>2. r.id \in minted /\ Live(r.id)' =>
        /\ Live(r.id)
        /\ definitions[r.id] \subseteq definitions'[r.id] /\ tracks[r.id] \subseteq tracks'[r.id]
        /\ \A n \in DOMAIN revisions[r.id] :
             n \in DOMAIN revisions'[r.id] /\ revisions'[r.id][n] = revisions[r.id][n]
  BY DEF Persists, PackagesKeepRows, Live
<1>3. r.upload \in DOMAIN uploads =>
        r.upload \in DOMAIN uploads' /\ (Own(r.upload) => blobs'[r.upload] = blobs[r.upload])
  BY OwnObjectStays DEF Persists
<1>4. r.upload \in DOMAIN uploads /\ uploads[r.upload].status = "approved" /\ Own(r.upload)
        /\ blobs[r.upload] \in Charms => uploads'[r.upload].status = "approved"
  BY DEF Persists
<1>5. r.step \in UploadSteps => r.upload \in DOMAIN uploads
  BY DEF InFlight
<1>6. r.step = "UpsertResourceDefinition" => r.op = "push"
  BY DEF InFlight
<1>7. r.op = "push" /\ r.step \in AfterInsert => Pushed(r.id, r.number, r.upload)'
  BY <1>1, <1>2 DEF HasDone, Pushed, AfterInsert, PackageSteps, UploadSteps
<1>8. r.op = "push" /\ r.step \in BeforeDefinitions \cup AfterInsert => r.upload \in DOMAIN uploads
  BY <1>5 DEF HasDone, BeforeDefinitions, AfterInsert, UploadSteps
<1>9. r.op = "push" /\ r.step \in BeforeDefinitions /\ Own(r.upload) =>
        r.work = Declared[blobs'[r.upload]]
  BY <1>3, <1>8 DEF HasDone
<1>10. r.op = "push" /\ r.step \in AfterInsert =>
         r.upload \in DOMAIN uploads' /\ (Own(r.upload) => blobs'[r.upload] \in Charms)
  BY <1>3, <1>8 DEF HasDone
<1>11. r.op = "push" /\ r.step \in AfterInsert \ {"ApproveUpload"} /\ Own(r.upload) =>
         uploads'[r.upload].status = "approved"
  BY <1>4, <1>8 DEF HasDone
<1>12. r.step = "UpsertResourceDefinition" /\ Live(r.id)' /\ Own(r.upload) =>
         Declared[blobs'[r.upload]] \subseteq definitions'[r.id] \cup r.work
  BY <1>1, <1>2, <1>3, <1>6, <1>8 DEF HasDone, AfterInsert, PackageSteps
<1>13. r.op = "register" /\ r.step = "CreateTracks" /\ Live(r.id)' =>
         LatestTrack \in tracks'[r.id] \cup r.work
  BY <1>1, <1>2 DEF HasDone, PackageSteps
<1>14. r.step = "RejectUpload" /\ Own(r.upload) => blobs'[r.upload] \notin Charms
  BY <1>3, <1>5 DEF HasDone, UploadSteps
<1>15. r.step \in {"GetRevisionByNumber", "ReplaceRelease"} => r.op = "release"
  BY DEF HasDone
<1> QED BY <1>7, <1>9, <1>10, <1>11, <1>12, <1>13, <1>14, <1>15 DEF HasDone

\* A call touches the state of no request but its own.
LEMMA OwnRequestOnly ==
  ASSUME req \in [Handlers -> Request], NEW h \in Handlers, Accept(h) \/ Proceed(h) \/ Fail(h)
  PROVE  \A k \in Handlers \ {h} : req'[k] = req[k]
<1>1. CASE Accept(h) \/ Fail(h)
  BY <1>1 DEF Accept, CreatePackage, GetPackageByName, PutBlob, Fail, Finish
<1>2. CASE \/ InsertTrack(h) \/ RequirePackageManage(h) \/ UpdatePackage(h)
           \/ ListRevisions(h) \/ DeletePackage(h) \/ CreateUpload(h)
           \/ GetRevisionByNumber(h) \/ ReplaceRelease(h) \/ EndBatch(h) \/ Reply(h)
  BY <1>2 DEF InsertTrack, RequirePackageManage, UpdatePackage, ListRevisions, DeletePackage,
              CreateUpload, GetRevisionByNumber, ReplaceRelease, EndBatch, Reply, Finish, Goto
<1>3. CASE \/ GetUpload(h) \/ GetBlob(h) \/ RejectUpload(h) \/ GetLatestRevision(h)
           \/ CreateRevision(h) \/ ApproveUpload(h) \/ PublishPackage(h)
           \/ UpsertResourceDefinition(h)
  BY <1>3 DEF GetUpload, GetBlob, RejectUpload, GetLatestRevision, CreateRevision,
              ApproveUpload, PublishPackage, UpsertResourceDefinition, Finish, Goto
<1> QED BY <1>1, <1>2, <1>3 DEF Proceed

\* A step keeps PromisesInv when it persists and its own next request has what it
\* promises.
LEMMA AnswerStep ==
  ASSUME PromisesInv, IInv', NEW h \in Handlers, Accept(h) \/ Proceed(h) \/ Fail(h),
         Persists, NEW r, r = req'[h], HasDone(r)'
  PROVE  PromisesInv'
<1>1. ASSUME NEW k \in Handlers PROVE HasDone(req[k])'
  <2>1. CASE k = h
    BY <2>1 DEF HasDone, Pushed
  <2>2. CASE k # h
    <3>1. PICK q \in Request : q = req[k] /\ q = req'[k] /\ InFlight(q) /\ HasDone(q)
      BY <2>2, OwnRequestOnly DEF PromisesInv, IInv
    <3>2. HasDone(q)'
      BY <3>1, HasDoneIsStable DEF PromisesInv, IInv
    <3> QED BY <3>1, <3>2 DEF HasDone, Pushed
  <2> QED BY <2>1, <2>2
<1> QED BY <1>1 DEF PromisesInv

\* Calls before which nothing has been done that the answer speaks of.
Unbound == {"Idle", "CanManagePackage", "UpdatePackage", "ListRevisions", "DeletePackage",
            "CreateUpload", "GetUpload", "GetBlob"}

\* A step whose next call is one of them, or one that its operation makes harmless.
LEMMA UnboundStep ==
  ASSUME PromisesInv, IInv', NEW h \in Handlers, Accept(h) \/ Proceed(h) \/ Fail(h),
         Persists,
         \/ req'[h].step \in Unbound
         \/ /\ req'[h].op = "release"
            /\ req'[h].step \in {"GetRevisionByNumber", "ReplaceRelease", "PublishPackage"}
         \/ req'[h].op = "tracks" /\ req'[h].step = "CreateTracks"
  PROVE  PromisesInv'
<1>1. PICK r : r = req'[h]
  OBVIOUS
<1>2. HasDone(r)'
  BY <1>1 DEF HasDone, Unbound, BeforeDefinitions, AfterInsert
<1> QED BY <1>1, <1>2, AnswerStep

-----------------------------------------------------------------------------
(* AnswersInv is inductive. *)

\* No request is in flight and no upload is there.
LEMMA InitAnswersInv == Init => AnswersInv
<1> SUFFICES ASSUME Init PROVE AnswersInv
  OBVIOUS
<1>1. ReviewsOK
  BY DEF Init, InitRepository, NoRows, ReviewsOK
<1>2. \A h \in Handlers : HasDone(req[h])
  BY IdleIsRequest DEF Init, HasDone, BeforeDefinitions, AfterInsert
<1> QED BY <1>1, <1>2, InitIInv DEF AnswersInv, PromisesInv

\* The calls that take a request in.
LEMMA AcceptAnswers ==
  ASSUME PromisesInv, IInv', NEW h \in Handlers, Accept(h)
  PROVE  PromisesInv'
<1>1. At(h, "Idle") /\ req \in [Handlers -> Request]
  BY DEF Accept, CreatePackage, GetPackageByName, PutBlob, PromisesInv, IInv
<1>2. Persists
  BY <1>1, QuietStep DEF PromisesInv, At, RejectUpload, ApproveUpload
<1>3. CASE CreatePackage(h)
  <2>1. PICK r : r = req'[h]
    OBVIOUS
  <2>2. r.step = "CreateTracks" /\ r.op = "register" /\ r.work = {LatestTrack}
    BY <1>1, <1>3, <2>1 DEF CreatePackage, Idle
  <2>3. HasDone(r)'
    BY <2>2 DEF HasDone, BeforeDefinitions, AfterInsert
  <2> QED BY <1>2, <2>1, <2>3, AnswerStep
<1>4. CASE GetPackageByName(h)
  <2>1. req'[h].step = "CanManagePackage"
    BY <1>1, <1>4 DEF GetPackageByName, Idle
  <2> QED BY <1>2, <2>1, UnboundStep DEF Unbound
<1>5. CASE PutBlob(h)
  <2>1. req'[h].step = "CreateUpload"
    BY <1>1, <1>5 DEF PutBlob, Idle
  <2> QED BY <1>2, <2>1, UnboundStep DEF Unbound
<1> QED BY <1>3, <1>4, <1>5 DEF Accept

\* The calls of the methods on packages, and of Release.
LEMMA PackageAnswers ==
  ASSUME PromisesInv, IInv', NEW h \in Handlers,
         \/ InsertTrack(h) \/ RequirePackageManage(h) \/ UpdatePackage(h)
         \/ ListRevisions(h) \/ DeletePackage(h) \/ CreateUpload(h)
         \/ GetRevisionByNumber(h) \/ ReplaceRelease(h) \/ EndBatch(h)
  PROVE  PromisesInv'
<1>1. PICK q \in Request : q = req[h] /\ InFlight(q) /\ HasDone(q)
  BY DEF PromisesInv, IInv
<1>2. /\ ~At(h, "RejectUpload") /\ ~At(h, "ApproveUpload") /\ Proceed(h)
      /\ req \in [Handlers -> Request]
  BY DEF At, InsertTrack, RequirePackageManage, UpdatePackage, ListRevisions, DeletePackage,
         CreateUpload, GetRevisionByNumber, ReplaceRelease, EndBatch, Proceed, PromisesInv, IInv
<1>3. Persists
  BY <1>2, QuietStep DEF PromisesInv, RejectUpload, ApproveUpload
<1>4. CASE InsertTrack(h)
  <2>1. PICK t \in q.work : /\ InsertTrackRow(q.id, t) /\ q.step = "CreateTracks"
                            /\ req' = [req EXCEPT ![h].work = @ \ {t}]
    BY <1>1, <1>4 DEF InsertTrack, At
  <2>2. q.id \in PackageIds
    BY <1>1, <2>1 DEF InFlight, PackageSteps, PromisesInv, IInv, TablesOK, PackagesTypeOK
  <2>3. tracks'[q.id] = tracks[q.id] \cup {t} /\ Live(q.id)
    BY <2>1, <2>2 DEF InsertTrackRow, PromisesInv, IInv, TablesOK, PackagesTypeOK
  <2>4. PICK r : r = req'[h]
    OBVIOUS
  <2>5. r.step = q.step /\ r.op = q.op /\ r.id = q.id /\ r.work = q.work \ {t}
    BY <1>1, <1>2, <2>1, <2>4 DEF Request
  <2>6. HasDone(r)'
    BY <1>1, <2>1, <2>3, <2>5 DEF HasDone, BeforeDefinitions, AfterInsert
  <2> QED BY <1>2, <1>3, <2>4, <2>6, AnswerStep
<1>5. CASE RequirePackageManage(h)
  <2>1. \/ req'[h].step \in Unbound
        \/ req'[h].step = "GetRevisionByNumber" /\ req'[h].op = "release"
        \/ req'[h].step = "CreateTracks" /\ req'[h].op = "tracks"
    BY <1>1, <1>2, <1>5 DEF RequirePackageManage, Request, Unbound
  <2> QED BY <1>2, <1>3, <2>1, UnboundStep
<1>6. CASE UpdatePackage(h) \/ DeletePackage(h) \/ CreateUpload(h)
  <2>1. req'[h].step = "Idle"
    BY <1>2, <1>6, IdleIsRequest DEF UpdatePackage, DeletePackage, CreateUpload, Finish
  <2> QED BY <1>2, <1>3, <2>1, UnboundStep DEF Unbound
<1>7. CASE ListRevisions(h)
  <2>1. req'[h].step = "DeletePackage"
    BY <1>2, <1>7 DEF ListRevisions, Goto, Request
  <2> QED BY <1>2, <1>3, <2>1, UnboundStep DEF Unbound
<1>8. CASE GetRevisionByNumber(h) \/ ReplaceRelease(h) \/ EndBatch(h)
  <2>1. q.op = "release"
    BY <1>1, <1>8 DEF GetRevisionByNumber, ReplaceRelease, EndBatch, At, HasDone
  <2>2. /\ req'[h].step \in {"GetRevisionByNumber", "ReplaceRelease", "PublishPackage"}
        /\ req'[h].op = "release"
    BY <1>1, <1>2, <1>8, <2>1
       DEF GetRevisionByNumber, ReplaceRelease, EndBatch, Goto, Request
  <2> QED BY <1>2, <1>3, <2>2, UnboundStep
<1> QED BY <1>4, <1>5, <1>6, <1>7, <1>8

\* A review persists when it rejects no charm.
LEMMA ReviewPersists ==
  ASSUME IInv, NEW u, NEW verdict \in {"approved", "rejected"}, NEW n,
         ReviewUploadRow(u, verdict, n), Statement,
         verdict = "rejected" /\ Own(u) => blobs[u] \notin Charms
  PROVE  Persists /\ uploads'[u].status = verdict
<1>1. /\ u \in DOMAIN uploads /\ DOMAIN uploads' = DOMAIN uploads
      /\ uploads'[u].status = verdict
      /\ \A v \in DOMAIN uploads \ {u} : uploads'[v] = uploads[v]
  BY DEF ReviewUploadRow, IInv, TablesOK, UploadsTypeOK, IsTable, UploadRow
<1>2. Persists
  BY <1>1, StatementKeepsRows DEF Persists, IInv
<1> QED BY <1>1, <1>2

\* The reading half of PushRevision, and the rejection.
LEMMA PreparePushAnswers ==
  ASSUME PromisesInv, IInv', NEW h \in Handlers,
         GetUpload(h) \/ GetBlob(h) \/ RejectUpload(h) \/ GetLatestRevision(h)
  PROVE  PromisesInv'
<1>1. PICK q \in Request : q = req[h] /\ InFlight(q) /\ HasDone(q)
  BY DEF PromisesInv, IInv
<1>2. Proceed(h) /\ req \in [Handlers -> Request]
  BY DEF Proceed, PromisesInv, IInv
<1>3. CASE GetUpload(h)
  <2>1. Persists
    BY <1>2, <1>3, QuietStep DEF PromisesInv, GetUpload, RejectUpload, ApproveUpload, At
  <2>2. req'[h].step = "GetBlob"
    BY ZenonT(60), <1>2, <1>3 DEF GetUpload, Request
  <2> QED BY <1>2, <2>1, <2>2, UnboundStep DEF Unbound
<1>4. CASE GetBlob(h)
  <2>1. Persists /\ UNCHANGED tables
    BY <1>2, <1>4, QuietStep DEF PromisesInv, GetBlob, RejectUpload, ApproveUpload, At
  <2>2. PICK r : r = req'[h]
    OBVIOUS
  <2>3. q.op = "push"
    BY <1>1, <1>4 DEF GetBlob, At, InFlight, UploadSteps
  <2>a. PICK payload : payload = blobs[ObjectKey(q.upload)]
    OBVIOUS
  <2>b. Own(q.upload) => payload = blobs[q.upload]
    BY <2>a DEF ObjectKey, Own
  <2>4. CASE payload \in Charms
    <3>1. /\ r.step = "GetLatestRevision" /\ r.op = "push" /\ r.upload = q.upload
          /\ r.work = Declared[payload]
      BY <1>1, <1>2, <1>4, <2>2, <2>3, <2>4, <2>a DEF GetBlob, Request
    <3>2. HasDone(r)'
      BY <2>1, <2>b, <3>1 DEF HasDone, AfterInsert, tables
    <3> QED BY <1>2, <2>1, <2>2, <3>2, AnswerStep
  <2>5. CASE payload \notin Charms
    <3>1. r.step = "RejectUpload" /\ r.upload = q.upload
      BY <1>1, <1>2, <1>4, <2>2, <2>5, <2>a DEF GetBlob, Goto, Request
    <3>2. HasDone(r)'
      BY <2>1, <2>5, <2>b, <3>1 DEF HasDone, BeforeDefinitions, AfterInsert, tables
    <3> QED BY <1>2, <2>1, <2>2, <3>2, AnswerStep
  <2> QED BY <2>4, <2>5
<1>5. CASE RejectUpload(h)
  <2>1. /\ ReviewUploadRow(q.upload, "rejected", None)
        /\ q.step = "RejectUpload" /\ (Own(q.upload) => blobs[q.upload] \notin Charms)
    BY <1>1, <1>5 DEF RejectUpload, At, HasDone
  <2>2. q.upload \in Uploads
    BY <1>1, <2>1 DEF InFlight, UploadSteps, PromisesInv, IInv, TablesOK, UploadsTypeOK, IsTable
  <2>3. Statement
    BY <2>1, <2>2 DEF Statement, InvisibleStatement
  <2>4. Persists
    BY <2>1, <2>3, ReviewPersists DEF PromisesInv
  <2>5. req'[h].step = "Idle"
    BY <1>2, <1>5, IdleIsRequest DEF RejectUpload, Finish
  <2> QED BY <1>2, <2>4, <2>5, UnboundStep DEF Unbound
<1>6. CASE GetLatestRevision(h)
  <2>1. Persists /\ UNCHANGED tables
    BY <1>2, <1>6, QuietStep DEF PromisesInv, GetLatestRevision, RejectUpload, ApproveUpload, At
  <2>2. PICK r : r = req'[h]
    OBVIOUS
  <2>3. /\ q.step = "GetLatestRevision" /\ r.step = "CreateRevision" /\ r.op = q.op
        /\ r.upload = q.upload /\ r.work = q.work
    BY <1>1, <1>2, <1>6, <2>2 DEF GetLatestRevision, At, Request
  <2>4. HasDone(r)'
    BY <1>1, <2>1, <2>3 DEF HasDone, BeforeDefinitions, AfterInsert, tables
  <2> QED BY <1>2, <2>1, <2>2, <2>4, AnswerStep
<1> QED BY <1>3, <1>4, <1>5, <1>6

\* The writing half of PushRevision.
LEMMA PushAnswers ==
  ASSUME PromisesInv, IInv', NEW h \in Handlers,
         \/ CreateRevision(h) \/ ApproveUpload(h) \/ PublishPackage(h)
         \/ UpsertResourceDefinition(h)
  PROVE  PromisesInv'
<1>1. PICK q \in Request : q = req[h] /\ InFlight(q) /\ HasDone(q)
  BY DEF PromisesInv, IInv
<1>2. Proceed(h) /\ req \in [Handlers -> Request] /\ TablesOK
  BY DEF Proceed, PromisesInv, IInv
<1>3. PICK r : r = req'[h]
  OBVIOUS
<1>4. CASE CreateRevision(h)
  <2>1. Persists
    BY <1>2, <1>4, QuietStep DEF PromisesInv, CreateRevision, RejectUpload, ApproveUpload, At
  <2>2. /\ q.step = "CreateRevision" /\ r.step = "ApproveUpload" /\ r.op = q.op
        /\ r.id = q.id /\ r.number = q.number /\ r.upload = q.upload /\ r.work = q.work
        /\ InsertRevisionRow(q.id, q.number, [upload |-> q.upload, digest |-> q.digest])
    BY <1>1, <1>2, <1>3, <1>4 DEF CreateRevision, At, Goto, Request
  <2>3. /\ q.id \in PackageIds /\ q.upload \in DOMAIN uploads
        /\ Own(q.upload) => q.digest \in Charms
        /\ q.digest = uploads[q.upload].digest /\ q.op = "push"
    BY <1>1, <1>2, <2>2
       DEF InFlight, PackageSteps, UploadSteps, TablesOK, PackagesTypeOK
  <2>4. Pushed(r.id, r.number, r.upload)'
    BY <1>2, <2>2, <2>3, InsertedIsPushed
  <2>5. /\ r.upload \in DOMAIN uploads' /\ blobs'[r.upload] = blobs[q.upload]
        /\ Own(q.upload) => blobs[q.upload] \in Charms
    BY <1>2, <2>2, <2>3 DEF InsertRevisionRow, TablesOK, ArtifactsStored
  <2>6. HasDone(r)'
    BY <1>1, <2>2, <2>3, <2>4, <2>5 DEF HasDone, BeforeDefinitions, AfterInsert
  <2> QED BY <1>2, <1>3, <2>1, <2>6, AnswerStep
<1>5. CASE ApproveUpload(h)
  <2>1. /\ q.step = "ApproveUpload" /\ r.step = "PublishPackage" /\ r.op = q.op
        /\ r.id = q.id /\ r.number = q.number /\ r.upload = q.upload /\ r.work = q.work
        /\ ReviewUploadRow(q.upload, "approved", q.number)
    BY <1>1, <1>2, <1>3, <1>5 DEF ApproveUpload, At, Goto, Request
  <2>2. /\ q.op = "push" /\ q.id \in minted /\ q.upload \in Uploads
        /\ q.number \in RevisionNumber
        /\ Pushed(q.id, q.number, q.upload)
    BY <1>1, <1>2, <2>1 DEF InFlight, HasDone, PackageSteps, UploadSteps, AfterInsert,
                            TablesOK, UploadsTypeOK, IsTable
  <2>3. Statement
    BY <2>1, <2>2 DEF Statement, InvisibleStatement
  <2>5. Persists /\ uploads'[q.upload].status = "approved"
    BY <2>1, <2>3, ReviewPersists DEF PromisesInv
  <2>6. HasDone(q)'
    BY <1>1, <1>2, <2>5, HasDoneIsStable
  <2>7. HasDone(r)'
    BY <2>1, <2>2, <2>5, <2>6 DEF HasDone, Pushed, BeforeDefinitions, AfterInsert
  <2> QED BY <1>2, <1>3, <2>5, <2>7, AnswerStep
<1>6. CASE PublishPackage(h)
  <2>1. Persists
    BY <1>2, <1>6, QuietStep DEF PromisesInv, PublishPackage, RejectUpload, ApproveUpload, At
  <2>2. CASE q.op = "push" /\ Goto(h, "UpsertResourceDefinition")
    <3>1. /\ q.step = "PublishPackage" /\ r.step = "UpsertResourceDefinition" /\ r.op = q.op
          /\ r.id = q.id /\ r.number = q.number /\ r.upload = q.upload /\ r.work = q.work
      BY <1>1, <1>2, <1>3, <1>6, <2>2 DEF PublishPackage, At, Goto, Request
    <3>2. HasDone(q)'
      BY <1>1, <1>2, <2>1, HasDoneIsStable
    <3>3. HasDone(r)'
      BY <2>2, <3>1, <3>2 DEF HasDone, Pushed, BeforeDefinitions, AfterInsert
    <3> QED BY <1>2, <1>3, <2>1, <3>3, AnswerStep
  <2>3. CASE Finish(h)
    <3>1. req'[h].step = "Idle"
      BY <1>2, <2>3, IdleIsRequest DEF Finish
    <3> QED BY <1>2, <2>1, <3>1, UnboundStep DEF Unbound
  <2> QED BY <1>1, <1>6, <2>2, <2>3 DEF PublishPackage
<1>7. CASE UpsertResourceDefinition(h)
  <2>1. Persists
    BY <1>2, <1>7, QuietStep
       DEF PromisesInv, UpsertResourceDefinition, RejectUpload, ApproveUpload, At
  <2>2. PICK d \in q.work : /\ UpsertDefinitionRow(q.id, d)
                            /\ req' = [req EXCEPT ![h].work = @ \ {d}]
    BY <1>1, <1>7 DEF UpsertResourceDefinition
  <2>3. /\ q.step = "UpsertResourceDefinition" /\ r.step = q.step /\ r.op = q.op
        /\ r.id = q.id /\ r.number = q.number /\ r.upload = q.upload /\ r.work = q.work \ {d}
    BY <1>1, <1>2, <1>3, <1>7, <2>2 DEF UpsertResourceDefinition, At, Request
  <2>4. q.id \in PackageIds
    BY <1>1, <1>2, <2>3 DEF InFlight, PackageSteps, TablesOK, PackagesTypeOK
  <2>5. /\ Live(q.id) /\ definitions'[q.id] = definitions[q.id] \cup {d}
        /\ UNCHANGED blobs
    BY <1>2, <2>2, <2>4 DEF UpsertDefinitionRow, TablesOK, PackagesTypeOK
  <2>6. HasDone(q)'
    BY <1>1, <1>2, <2>1, HasDoneIsStable
  <2>7. Own(r.upload) => Declared[blobs'[r.upload]] \subseteq definitions'[r.id] \cup r.work
    BY <1>1, <2>3, <2>5 DEF HasDone
  <2>8. HasDone(r)'
    BY <2>3, <2>6, <2>7 DEF HasDone, Pushed, BeforeDefinitions, AfterInsert
  <2> QED BY <1>2, <1>3, <2>1, <2>8, AnswerStep
<1> QED BY <1>4, <1>5, <1>6, <1>7

\* Whatever a handler does next, PromisesInv stays.
LEMMA StepKeepsPromises ==
  ASSUME PromisesInv, IInv', NEW h \in Handlers, Accept(h) \/ Proceed(h) \/ Fail(h)
  PROVE  PromisesInv'
<1>1. CASE Accept(h)
  BY <1>1, AcceptAnswers
<1>2. CASE Reply(h) \/ Fail(h)
  <2>1. Proceed(h) \/ Fail(h)
    BY <1>2 DEF Proceed
  <2>2. UNCHANGED tables /\ req'[h].step = "Idle"
    BY <1>2, IdleIsRequest DEF Reply, Fail, Finish, PromisesInv, IInv
  <2>3. ReviewsStay
    BY <2>2 DEF ReviewsStay, tables
  <2>4. Persists
    BY <2>2, <2>3, QuietPersists DEF PromisesInv
  <2> QED BY <2>1, <2>2, <2>4, UnboundStep DEF Unbound
<1>3. CASE Proceed(h) /\ ~Reply(h)
  BY <1>3, PackageAnswers, PreparePushAnswers, PushAnswers DEF Proceed
<1> QED BY <1>1, <1>2, <1>3

\* A review leaves the reviews right when it rejects no charm and what it approves is
\* the revision it names.
LEMMA ReviewStatement ==
  ASSUME IInv, ReviewsOK, NEW u, NEW verdict \in {"approved", "rejected"}, NEW n,
         ReviewUploadRow(u, verdict, n),
         verdict = "rejected" /\ Own(u) => blobs[u] \notin Charms,
         verdict = "approved" =>
           \/ minted # DOMAIN packages
           \/ \E p \in DOMAIN packages : n \in DOMAIN revisions[p] /\ revisions[p][n].upload = u
  PROVE  ReviewsOK'
<1>1. /\ u \in DOMAIN uploads /\ DOMAIN uploads' = DOMAIN uploads
      /\ uploads'[u].status = verdict /\ uploads'[u].revision = n
      /\ \A v \in DOMAIN uploads \ {u} : uploads'[v] = uploads[v]
      /\ UNCHANGED <<packages, minted, revisions, blobs>>
  BY DEF ReviewUploadRow, IInv, TablesOK, UploadsTypeOK, IsTable, UploadRow
<1>2. ASSUME NEW v \in DOMAIN uploads, v # u
      PROVE  /\ uploads'[v].status = "approved" =>
                  \/ minted # DOMAIN packages
                  \/ \E p \in DOMAIN packages :
                       /\ uploads'[v].revision \in DOMAIN revisions[p]
                       /\ revisions[p][uploads'[v].revision].upload = v
             /\ uploads'[v].status = "rejected" /\ Own(v) => blobs[v] \notin Charms
  BY <1>1, <1>2 DEF ReviewsOK
<1> QED BY <1>1, <1>2 DEF ReviewsOK

\* A step leaves the reviews right.
LEMMA StepKeepsReviews ==
  ASSUME AnswersInv, NEW h \in Handlers, Accept(h) \/ Proceed(h) \/ Fail(h)
  PROVE  ReviewsOK'
<1>1. PICK q \in Request : q = req[h] /\ InFlight(q) /\ HasDone(q)
  BY DEF AnswersInv, PromisesInv, IInv
<1>2. IInv /\ ReviewsOK
  BY DEF AnswersInv, PromisesInv
<1>3. CASE RejectUpload(h)
  <2>1. /\ ReviewUploadRow(q.upload, "rejected", None)
        /\ Own(q.upload) => blobs[q.upload] \notin Charms
    BY <1>1, <1>3 DEF RejectUpload, At, HasDone
  <2> QED BY <1>2, <2>1, ReviewStatement
<1>4. CASE ApproveUpload(h)
  <2>1. ReviewUploadRow(q.upload, "approved", q.number) /\ q.step = "ApproveUpload"
    BY <1>1, <1>4 DEF ApproveUpload, At
  <2>2. Pushed(q.id, q.number, q.upload) /\ q.id \in minted
    BY <1>1, <2>1 DEF InFlight, HasDone, PackageSteps, UploadSteps, AfterInsert
  <2>3. \/ minted # DOMAIN packages
        \/ \E p \in DOMAIN packages :
             q.number \in DOMAIN revisions[p] /\ revisions[p][q.number].upload = q.upload
    BY <2>2 DEF Pushed, Live
  <2> QED BY <1>2, <2>1, <2>3, ReviewStatement
<1>5. CASE ~RejectUpload(h) /\ ~ApproveUpload(h)
  <2>1. Statement \/ UNCHANGED tables
    BY <1>2, AcceptStatement, ProceedStatement DEF Fail
  <2> QED BY <1>2, <1>5, <2>1, OnlyReviewsReview, QuietStatement
<1> QED BY <1>3, <1>4, <1>5

LEMMA NextKeepsAnswersInv == AnswersInv /\ [Next]_vars => AnswersInv'
<1> SUFFICES ASSUME AnswersInv, [Next]_vars PROVE AnswersInv'
  OBVIOUS
<1>1. IInv'
  BY NextKeepsIInv DEF AnswersInv, PromisesInv
<1>2. CASE UNCHANGED vars
  <2>1. /\ \A h \in Handlers : HasDone(req[h])'
        /\ ReviewsOK'
    BY <1>2 DEF AnswersInv, PromisesInv, HasDone, Pushed, Live, ReviewsOK, vars, tables
  <2> QED BY <1>1, <2>1 DEF AnswersInv, PromisesInv
<1>3. ASSUME NEW h \in Handlers, Accept(h) \/ Proceed(h) \/ Fail(h) PROVE AnswersInv'
  BY <1>1, <1>3, StepKeepsPromises, StepKeepsReviews DEF AnswersInv
<1> QED BY <1>2, <1>3 DEF Next

-----------------------------------------------------------------------------
(* The theorems. *)

\* AnswersInv holds throughout.
THEOREM AnswersInvariance == Spec => []AnswersInv
BY InitAnswersInv, NextKeepsAnswersInv, PTL DEF Spec

\* ReviewUpload: an approved upload is the revision its review names, a rejected one with
\* an object to itself was never published, however many pushes of it run at once.
THEOREM ReviewsAreTruthful == Spec => []ReviewIsTruthful
<1>1. AnswersInv => ReviewIsTruthful
  BY DEF AnswersInv, PromisesInv, ReviewsOK, ReviewIsTruthful, IInv, TablesOK, ArtifactsStored
<1> QED BY <1>1, AnswersInvariance, PTL

\* What a request has done is what its 200 says.
LEMMA AnswersAreTrue == PromisesInv => RepliesAreTrue
<1> SUFFICES ASSUME PromisesInv, NEW h \in Handlers, Done(h), Live(req[h].id)
             PROVE  /\ req[h].op = "register" => LatestTrack \in tracks[req[h].id]
                    /\ req[h].op = "push" =>
                         /\ req[h].number \in DOMAIN revisions[req[h].id]
                         /\ revisions[req[h].id][req[h].number].upload = req[h].upload
                         /\ Own(req[h].upload) =>
                              /\ uploads[req[h].upload].status = "approved"
                              /\ Declared[blobs[req[h].upload]] \subseteq definitions[req[h].id]
  BY DEF RepliesAreTrue
<1>1. PICK q \in Request : q = req[h] /\ InFlight(q) /\ HasDone(q)
  BY DEF PromisesInv, IInv
<1>2. q.step \in {"CreateTracks", "UpsertResourceDefinition"} /\ q.work = {} /\ Live(q.id)
  BY <1>1 DEF Done
<1>3. q.op = "register" => q.step = "CreateTracks"
  BY <1>1, <1>2 DEF InFlight
<1>4. q.op = "push" => q.step = "UpsertResourceDefinition"
  BY <1>1, <1>2 DEF InFlight
<1>5. q.op = "register" => LatestTrack \in tracks[q.id]
  BY <1>1, <1>2, <1>3 DEF HasDone
<1>6. q.op = "push" =>
        /\ q.number \in DOMAIN revisions[q.id] /\ revisions[q.id][q.number].upload = q.upload
        /\ Own(q.upload) => uploads[q.upload].status = "approved"
  BY <1>1, <1>2, <1>4 DEF HasDone, Pushed, AfterInsert
<1>7. q.op = "push" /\ Own(q.upload) => Declared[blobs[q.upload]] \subseteq definitions[q.id]
  BY <1>1, <1>2, <1>4 DEF HasDone
<1> QED BY <1>1, <1>5, <1>6, <1>7

\* A push or a registration that answers 200 has left everything it promised.
THEOREM PushesKeepTheirPromise == Spec => []RepliesAreTrue
BY AnswersInvariance, AnswersAreTrue, PTL DEF AnswersInv

-----------------------------------------------------------------------------
(* The one review of an upload, written by charm pushes and by resource    *)
(* pushes (ReviewNamesARevision of Resources).  The resource side of what  *)
(* is needed is in ResourcesInv; the charm side is HasDone.               *)

\* A revision n of some package, charm or resource, is the upload u.
NamesRevision(u, n) ==
  \E p \in DOMAIN packages :
    \/ n \in DOMAIN revisions[p] /\ revisions[p][n].upload = u
    \/ \E r \in definitions[p] : /\ n \in DOMAIN resourceRevisions[p][r]
                                 /\ resourceRevisions[p][r][n].upload = u

ServedInv ==
  /\ ResourcesInv
  /\ PromisesInv
  /\ ReviewNamesARevision

\* Every approved upload was approved before, under the same number.
NoNewApproval ==
  \A u \in DOMAIN uploads' : uploads'[u].status = "approved" =>
    /\ u \in DOMAIN uploads
    /\ uploads[u].status = "approved" /\ uploads'[u].revision = uploads[u].revision

-----------------------------------------------------------------------------
\* What is named stays named while every package lives.
LEMMA NamesRevisionStays ==
  ASSUME ResourcesInv, Keeps, PackagesKeepRows, minted' = DOMAIN packages',
         NEW u \in DOMAIN uploads, NEW n, NamesRevision(u, n)
  PROVE  NamesRevision(u, n)'
<1>1. PICK p \in DOMAIN packages :
        \/ n \in DOMAIN revisions[p] /\ revisions[p][n].upload = u
        \/ \E r \in definitions[p] : /\ n \in DOMAIN resourceRevisions[p][r]
                                     /\ resourceRevisions[p][r][n].upload = u
  BY DEF NamesRevision
<1>2. p \in minted /\ p \in PackageIds /\ definitions[p] \subseteq Resources
  BY DEF ResourcesInv, IInv, TablesOK, PackagesTypeOK, IsTable
<1>3. p \in DOMAIN packages' /\ definitions[p] \subseteq definitions'[p]
  BY <1>2 DEF PackagesKeepRows
<1>5. CASE n \in DOMAIN revisions[p] /\ revisions[p][n].upload = u
  BY <1>2, <1>3, <1>5 DEF PackagesKeepRows, NamesRevision
<1>6. ASSUME NEW r \in definitions[p], n \in DOMAIN resourceRevisions[p][r],
             resourceRevisions[p][r][n].upload = u
      PROVE  NamesRevision(u, n)'
  <2>1. /\ n \in DOMAIN resourceRevisions'[p][r]
        /\ resourceRevisions'[p][r][n].upload = u
    BY <1>2, <1>3, <1>6 DEF Keeps, ContentStays, SameContent
  <2> QED BY <1>3, <1>6, <2>1 DEF NamesRevision
<1> QED BY <1>1, <1>5, <1>6

\* A step that approves nothing leaves the reviews right.
LEMMA NothingApproved ==
  ASSUME ResourcesInv, ReviewNamesARevision, Keeps, PackagesKeepRows, NoNewApproval
  PROVE  ReviewNamesARevision'
<1> SUFFICES ASSUME minted' = DOMAIN packages',
                    NEW u \in DOMAIN uploads', uploads'[u].status = "approved",
                    NEW n, n = uploads'[u].revision
             PROVE  NamesRevision(u, n)'
  BY DEF ReviewNamesARevision, NamesRevision
<1>1. /\ u \in DOMAIN uploads /\ uploads[u].status = "approved"
      /\ uploads'[u].revision = uploads[u].revision
  BY DEF NoNewApproval
<1>2. minted = DOMAIN packages
  BY GoneForGood DEF ResourcesInv, IInv
<1>3. NamesRevision(u, n)
  BY <1>1, <1>2 DEF ReviewNamesARevision, NamesRevision
<1> QED BY <1>1, <1>3, NamesRevisionStays

\* An approval leaves the reviews right when it names what is there.
LEMMA ApprovalNames ==
  ASSUME ResourcesInv, ReviewNamesARevision, Keeps, PackagesKeepRows,
         NEW u, NEW n, ReviewUploadRow(u, "approved", n),
         minted = DOMAIN packages => NamesRevision(u, n)
  PROVE  ReviewNamesARevision'
<1> SUFFICES ASSUME minted' = DOMAIN packages',
                    NEW v \in DOMAIN uploads', uploads'[v].status = "approved",
                    NEW m, m = uploads'[v].revision
             PROVE  NamesRevision(v, m)'
  BY DEF ReviewNamesARevision, NamesRevision
<1>1. /\ u \in DOMAIN uploads /\ DOMAIN uploads' = DOMAIN uploads
      /\ uploads'[u].revision = n
      /\ \A w \in DOMAIN uploads \ {u} : uploads'[w] = uploads[w]
  BY DEF ReviewUploadRow, ResourcesInv, IInv, TablesOK, UploadsTypeOK, IsTable, UploadRow
<1>2. minted = DOMAIN packages
  BY GoneForGood DEF ResourcesInv, IInv
<1>3. NamesRevision(v, m)
  BY <1>1, <1>2 DEF ReviewNamesARevision, NamesRevision
<1> QED BY <1>1, <1>3, NamesRevisionStays

-----------------------------------------------------------------------------
(* ServedInv is inductive. *)

\* A request of Publishing.
LEMMA OtherRequestReviews ==
  ASSUME ServedInv, ResourcesInv', Keeps, NEW h \in Handlers, OtherRequest(h)
  PROVE  ServedInv'
<1>1. /\ Accept(h) \/ Proceed(h) \/ Fail(h)
      /\ IInv /\ TablesOK /\ req \in [Handlers -> Request] /\ ResourcesInv
      /\ ReviewNamesARevision
  BY DEF OtherRequest, ServedInv, ResourcesInv, IInv
<1>2. PackagesKeepRows
  <2>1. Statement \/ UNCHANGED tables
    BY <1>1, AcceptStatement, ProceedStatement DEF Fail
  <2> QED BY <1>1, <2>1, StatementKeepsRows
<1>3. PICK q \in Request : q = req[h] /\ InFlight(q) /\ HasDone(q)
  BY <1>1 DEF IInv, ServedInv, PromisesInv
<1>4. ReviewNamesARevision'
  <2>1. CASE ApproveUpload(h)
    <3>1. /\ ReviewUploadRow(q.upload, "approved", q.number)
          /\ q.step = "ApproveUpload" /\ q.id \in minted
          /\ Pushed(q.id, q.number, q.upload)
      BY <1>3, <2>1 DEF ApproveUpload, At, InFlight, PackageSteps, UploadSteps, HasDone,
                        AfterInsert
    <3>2. minted = DOMAIN packages => NamesRevision(q.upload, q.number)
      BY <3>1 DEF Pushed, Live, NamesRevision
    <3> QED BY <1>1, <1>2, <3>1, <3>2, ApprovalNames
  <2>2. CASE RejectUpload(h)
    <3>1. ReviewUploadRow(q.upload, "rejected", None)
      BY <1>3, <2>2 DEF RejectUpload
    <3>2. NoNewApproval
      BY <1>1, <3>1 DEF ReviewUploadRow, NoNewApproval, TablesOK, UploadsTypeOK, IsTable, UploadRow
    <3> QED BY <1>1, <1>2, <3>2, NothingApproved
  <2>3. CASE ~ApproveUpload(h) /\ ~RejectUpload(h)
    <3>1. NoNewApproval
      BY <1>1, <2>3, OnlyReviewsReview DEF ReviewsStay, NoNewApproval
    <3> QED BY <1>1, <1>2, <3>1, NothingApproved
  <2> QED BY <2>1, <2>2, <2>3
<1>5. PromisesInv'
  BY <1>1, StepKeepsPromises DEF ServedInv, ResourcesInv
<1> QED BY <1>4, <1>5 DEF ServedInv

\* A request of Resources.
LEMMA ResourceRequestReviews ==
  ASSUME ServedInv, ResourcesInv', Keeps, NEW h \in Handlers, ResourceRequestStep(h)
  PROVE  ServedInv'
<1>1. /\ UNCHANGED <<packages, minted, tracks, revisions, definitions, blobs, req>>
      /\ ApproveResourceUpload(h) \/ UNCHANGED uploads
  BY DEF ResourceRequestStep, ProceedResource, FindPackage, MayManage, GetResourceDefinition,
         GetResourceUpload, GetResourceBlob, ListResourceRevisions, CreateResourceRevision,
         ApproveResourceUpload, GetResourceRevision, UpdateResourceRevision, EndUpdates,
         ResourceReply, FailResource, ReviewUploadRow, tables
<1>2. PackagesKeepRows
  BY <1>1 DEF PackagesKeepRows, ServedInv, ResourcesInv, IInv, TablesOK, PackagesTypeOK, IsTable
<1>3. Persists => PromisesInv'
  <2>1. ASSUME Persists, NEW k \in Handlers PROVE HasDone(req[k])'
    <3>1. PICK q \in Request : q = req[k] /\ q = req'[k] /\ InFlight(q) /\ HasDone(q)
      BY <1>1 DEF ServedInv, PromisesInv, IInv
    <3>2. HasDone(q)'
      BY <2>1, <3>1, HasDoneIsStable DEF ServedInv, PromisesInv, IInv
    <3> QED BY <3>1, <3>2 DEF HasDone, Pushed
  <2> QED BY <2>1 DEF PromisesInv, ResourcesInv
<1>4. CASE UNCHANGED uploads
  <2>1. NoNewApproval
    BY <1>4 DEF NoNewApproval
  <2>2. Persists
    BY <1>1, <1>2, <1>4 DEF Persists, ObjectsStay
  <2> QED BY <1>2, <1>3, <2>1, <2>2, NothingApproved DEF ServedInv
<1>5. CASE ApproveResourceUpload(h)
  <2>1. PICK q \in ResourceRequest : q = resourceReq[h] /\ ResourceInFlight(q)
    BY DEF ServedInv, ResourcesInv
  <2>2. ReviewUploadRow(q.upload, "approved", q.number) /\ q.step = "ApproveUpload"
    BY <1>5, <2>1 DEF ApproveResourceUpload, AtResource
  <2>3. /\ q.id \in minted /\ q.digest = uploads[q.upload].digest
        /\ Live(q.id) => q.resource \in definitions[q.id]
        /\ Published(q.id, q.resource, q.number, q.upload, q.digest)
    BY <2>1, <2>2 DEF ResourceInFlight, PushSteps
  <2>4. minted = DOMAIN packages => NamesRevision(q.upload, q.number)
    BY <2>3 DEF Published, Live, NamesRevision
  <2>5. Persists
    BY <1>1, <1>2, <2>2
       DEF Persists, ObjectsStay, ReviewUploadRow, ServedInv, ResourcesInv, IInv, TablesOK, UploadsTypeOK,
           IsTable, UploadRow
  <2> QED BY <1>2, <1>3, <2>2, <2>4, <2>5, ApprovalNames DEF ServedInv
<1> QED BY <1>1, <1>4, <1>5

\* Whatever a handler does next, ServedInv stays.
LEMMA NextKeepsServedInv == ServedInv /\ [ResourcesNext]_resourceVars => ServedInv'
<1> SUFFICES ASSUME ServedInv, [ResourcesNext]_resourceVars PROVE ServedInv'
  OBVIOUS
<1>1. ResourcesInv' /\ Keeps
  BY NextKeepsResourcesInv DEF ServedInv
<1>2. CASE UNCHANGED resourceVars
  <2>1. PromisesInv'
    BY <1>1, <1>2 DEF ServedInv, PromisesInv, ResourcesInv, HasDone, Pushed, Live,
                      resourceVars, vars, tables
  <2> QED BY <1>1, <1>2, <2>1 DEF ServedInv, ReviewNamesARevision, resourceVars, vars, tables
<1>3. ASSUME NEW h \in Handlers, OtherRequest(h) \/ ResourceRequestStep(h) PROVE ServedInv'
  BY <1>1, <1>3, OtherRequestReviews, ResourceRequestReviews
<1> QED BY <1>2, <1>3 DEF ResourcesNext

\* Nothing is reviewed at first, and no request is in flight.
LEMMA InitServedInv == ResourcesInit => ServedInv
<1> SUFFICES ASSUME ResourcesInit PROVE ServedInv
  OBVIOUS
<1>1. ResourcesInv /\ PromisesInv
  BY InitResourcesInv, InitAnswersInv DEF ResourcesInit, AnswersInv
<1>2. ReviewNamesARevision
  BY DEF ResourcesInit, Init, InitRepository, NoRows, ReviewNamesARevision
<1> QED BY <1>1, <1>2 DEF ServedInv

LEMMA ServedInvariance == ResourcesSpec => []ServedInv
BY InitServedInv, NextKeepsServedInv, PTL DEF ResourcesSpec

\* ReviewUpload: whichever push wrote the review last, an approved upload is
\* published under the number the review says, as a charm or as a resource.
THEOREM ReviewsNameRevisions == ResourcesSpec => []ReviewNamesARevision
BY ServedInvariance, PTL DEF ServedInv

\* The 200 of a charm push or of a registration stays true beside resource pushes,
\* which may review the same upload once more.
THEOREM PushesKeepTheirPromiseBesideResources == ResourcesSpec => []RepliesAreTrue
BY ServedInvariance, AnswersAreTrue, PTL DEF ServedInv

=============================================================================
