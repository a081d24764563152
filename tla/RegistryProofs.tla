--------------------------- MODULE RegistryProofs ---------------------------
(***************************************************************************)
(* Proofs about Registry, for every value of the constants.  The handlers  *)
(* do not see the readers, so what is proved of Resources holds here too   *)
(* (HandlersRunAsBefore).  The readers see of the handlers what ResourcesInv *)
(* and Lasts say: the tables are in order, and no row that was read is     *)
(* taken away or rewritten.  DownloadsInv asks for nothing else, so it     *)
(* holds beside the handlers themselves.                                   *)
(***************************************************************************)
EXTENDS Registry, DownloadsProofs, AnswersProofs

RegistryInv ==
  /\ ResourcesInv
  /\ DownloadsInv
  /\ copied \in [Handlers -> Tracks \cup {None}]

-----------------------------------------------------------------------------
(* Handlers. *)

\* With the columns a step is still the step of Resources.
LEMMA HandlesAsBefore ==
  ASSUME NEW h \in Handlers, Handles(h)
  PROVE  OtherRequest(h) \/ ResourceRequestStep(h)
<1>1. CASE PackageRequest(h)
  <2>1. Accept(h) \/ Proceed(h) \/ Fail(h)
    BY <1>1 DEF PackageRequest, RegisterWithDefaultTrack, CopyDefaultTrack, PatchDefaultTrack,
                WriteDefaultTrack, ReplaceReferences, DropColumns, LeaveColumns, Accept, Proceed
  <2> QED BY <1>1, <2>1 DEF PackageRequest, OtherRequest
<1> QED BY <1>1 DEF Handles

\* A published revision stays: the other requests never touch the table, and the
\* requests of Publishing add to it or delete the package.
LEMMA HandlersLast ==
  ASSUME ResourcesInv, NEW h \in Handlers, OtherRequest(h) \/ ResourceRequestStep(h)
  PROVE  ResourcesInv' /\ Lasts
<1>1. ResourcesInv' /\ Keeps
  BY NextKeepsResourcesInv DEF ResourcesNext
<1>2. /\ IInv /\ DOMAIN revisions = PackageIds /\ minted \subseteq PackageIds
      /\ \A p \in minted \cap DOMAIN packages' : p \in DOMAIN packages
  BY <1>1 DEF ResourcesInv, IInv, TablesOK, RevisionsTypeOK, PackagesTypeOK, Keeps, TablesGrow
<1>3. CASE OtherRequest(h)
  <2>1. RevisionsKept
    BY <1>2, <1>3, StepKeepsRevisions DEF OtherRequest, Next
  <2> QED BY <1>1, <1>2, <2>1 DEF Lasts, RevisionsStay, RevisionsKept
<1>4. CASE ResourceRequestStep(h)
  <2>1. revisions' = revisions
    BY <1>4, ResourceRequestsLeaveCatalog
  <2> QED BY <1>1, <2>1 DEF Lasts, RevisionsStay
<1> QED BY <1>3, <1>4

\* A release row and its resources are written together, and go together.
LEMMA PackageColumns ==
  ASSUME RegistryInv, NEW h \in Handlers, PackageRequest(h)
  PROVE  ColumnsOK' /\ copied' \in [Handlers -> Tracks \cup {None}]
<1>1. /\ ColumnsOK /\ DOMAIN releases = PackageIds /\ DOMAIN packages \subseteq PackageIds
      /\ copied \in [Handlers -> Tracks \cup {None}] /\ copied[h] \in Tracks \cup {None}
      /\ req \in [Handlers -> Request]
  BY DEF RegistryInv, DownloadsInv, ConsumerInv, ConsumerTablesOK, TablesOK, RevisionsTypeOK,
         PackagesTypeOK, IsTable, ResourcesInv, IInv
<1>2. PICK q \in Request : q = req[h] /\ InFlight(q)
  BY DEF RegistryInv, ResourcesInv, IInv
<1>3. CASE RegisterWithDefaultTrack(h)
  <2>1. UNCHANGED <<releases, refs, copied>>
    BY <1>3 DEF RegisterWithDefaultTrack, CreatePackage, InsertPackage
  <2>2. PICK p : defaults' = [defaults EXCEPT ![p] = LatestTrack]
    BY <1>3 DEF RegisterWithDefaultTrack
  <2> QED BY <1>1, <2>1, <2>2, TracksAssumption DEF ColumnsOK
<1>4. CASE CopyDefaultTrack(h)
  <2>1. req'[h].id \in DOMAIN packages
    BY <1>1, <1>4 DEF CopyDefaultTrack, GetPackageByName, Idle
  <2>2. req'[h].id \in PackageIds
    BY <1>1, <2>1
  <2>3. UNCHANGED <<releases, refs, defaults>>
    BY <1>4 DEF CopyDefaultTrack, GetPackageByName, tables
  <2>4. copied' = [copied EXCEPT ![h] = defaults[req'[h].id]]
    BY <1>4 DEF CopyDefaultTrack
  <2>5. defaults[req'[h].id] \in Tracks \cup {None}
    BY <1>1, <2>2 DEF ColumnsOK
  <2> QED BY <1>1, <2>3, <2>4, <2>5, ColumnsStay
<1>5. CASE PatchDefaultTrack(h)
  <2>1. UNCHANGED <<releases, refs, defaults>>
    BY <1>5 DEF PatchDefaultTrack, RequirePackageManage, tables
  <2>2. UNCHANGED copied \/ \E t \in Tracks : copied' = [copied EXCEPT ![h] = t]
    BY <1>5 DEF PatchDefaultTrack
  <2> QED BY <1>1, <2>1, <2>2, ColumnsStay
<1>6. CASE WriteDefaultTrack(h)
  <2>1. UNCHANGED <<releases, refs, copied>>
    BY <1>6 DEF WriteDefaultTrack, UpdatePackage, PublishPackage, UpdatePackageRow
  <2>2. defaults' = [defaults EXCEPT ![q.id] = copied[h]]
    BY <1>2, <1>6 DEF WriteDefaultTrack
  <2> QED BY <1>1, <2>1, <2>2 DEF ColumnsOK
<1>7. CASE ReplaceReferences(h)
  <2>1. PICK c \in Channels, f \in References :
          /\ UpsertReleaseRow(q.id, c, q.number)
          /\ refs' = [refs EXCEPT ![q.id] = WithRow(@, c, f)]
    BY <1>2, <1>7 DEF ReplaceReferences
  <2>2. UNCHANGED <<defaults, copied>>
    BY <1>7 DEF ReplaceReferences
  <2> QED BY <1>1, <2>1, <2>2 DEF ColumnsOK, UpsertReleaseRow, WithRow
<1>8. CASE DropColumns(h)
  <2>1. /\ DeletePackageRow(q.id)
        /\ refs' = [refs EXCEPT ![q.id] = NoRows]
        /\ defaults' = [defaults EXCEPT ![q.id] = None]
        /\ UNCHANGED copied
    BY <1>2, <1>8 DEF DropColumns, DeletePackage
  <2>2. NoRows \in [DOMAIN NoRows -> References]
    BY DEF NoRows
  <2> QED BY <1>1, <2>1, <2>2 DEF ColumnsOK, DeletePackageRow
<1>9. CASE LeaveColumns(h)
  <2>1. UNCHANGED <<refs, defaults, copied>>
    BY <1>9 DEF LeaveColumns
  <2>2. UNCHANGED releases
    BY <1>9 DEF LeaveColumns, PutBlob, PutObject, InsertTrack, InsertTrackRow, ListRevisions,
       CreateUpload, InsertUploadRow, GetUpload, GetBlob, RejectUpload, ReviewUploadRow,
       GetLatestRevision, CreateRevision, InsertRevisionRow, ApproveUpload,
       UpsertResourceDefinition, UpsertDefinitionRow, GetRevisionByNumber, EndBatch, Reply, Fail,
       tables
  <2> QED BY <1>1, <2>1, <2>2, ColumnsStay
<1> QED BY <1>3, <1>4, <1>5, <1>6, <1>7, <1>8, <1>9 DEF PackageRequest

LEMMA HandlesKeepsInv ==
  ASSUME RegistryInv, NEW h \in Handlers, Handles(h)
  PROVE  RegistryInv'
<1>1. ResourcesInv' /\ Lasts
  BY HandlesAsBefore, HandlersLast DEF RegistryInv
<1>2. ColumnsOK' /\ copied' \in [Handlers -> Tracks \cup {None}]
  <2>1. CASE PackageRequest(h)
    BY <2>1, PackageColumns
  <2>2. CASE ResourceRequestStep(h) /\ UNCHANGED <<refs, defaults, copied>>
    <3>1. UNCHANGED releases
      BY <2>2, ResourceRequestsLeaveCatalog
    <3> QED BY <2>2, <3>1, ColumnsStay
            DEF RegistryInv, DownloadsInv, ConsumerInv, ConsumerTablesOK
  <2> QED BY <2>1, <2>2 DEF Handles
<1>3. DownloadsInv'
  <2>1. ConsumerTablesOK'
    BY <1>1, <1>2 DEF ConsumerTablesOK, ResourcesInv, IInv
  <2> QED BY <1>1, <2>1, WriterKeepsClients DEF RegistryInv, Handles
<1> QED BY <1>1, <1>2, <1>3 DEF RegistryInv

-----------------------------------------------------------------------------
(* Readers, and the whole. *)

\* Who reads moves no handler.
LEMMA HandlersRest ==
  ASSUME RegistryInv, UNCHANGED consumerTables, UNCHANGED <<req, resourceReq, copied>>
  PROVE  ResourcesInv' /\ copied' \in [Handlers -> Tracks \cup {None}]
<1>1. UNCHANGED resourceVars
  BY DEF consumerTables, resourceVars, vars
<1> QED BY <1>1, NextKeepsResourcesInv DEF RegistryInv

LEMMA ConsumesKeepsInv ==
  ASSUME RegistryInv, NEW h \in Readers, Consumes(h)
  PROVE  RegistryInv'
<1>1. UNCHANGED consumerTables /\ UNCHANGED <<req, resourceReq, copied>>
  BY DEF Consumes, Reader, Client, consumerVars
<1>2. DownloadsInv'
  BY ReaderKeepsClients, ClientKeepsInv DEF RegistryInv, Consumes
<1> QED BY <1>1, <1>2, HandlersRest DEF RegistryInv

LEMMA NextKeepsRegistryInv == RegistryInv /\ [RegistryNext]_registryVars => RegistryInv'
<1> SUFFICES ASSUME RegistryInv, [RegistryNext]_registryVars PROVE RegistryInv'
  OBVIOUS
<1>1. CASE UNCHANGED registryVars
  <2>1. UNCHANGED consumerTables /\ UNCHANGED <<req, resourceReq, copied>>
        /\ UNCHANGED downloadVars
    BY <1>1 DEF registryVars, resourceVars, vars, consumerTables, downloadVars, consumerVars
  <2> QED BY <2>1, HandlersRest, RestKeepsInv DEF RegistryInv
<1> QED BY <1>1, HandlesKeepsInv, ConsumesKeepsInv DEF RegistryNext

LEMMA InitRegistryInv == RegistryInit => RegistryInv
BY InitResourcesInv, InitDownloadsInv DEF RegistryInit, RegistryInv

LEMMA RegistryInvariance == RegistrySpec => []RegistryInv
BY InitRegistryInv, NextKeepsRegistryInv, PTL DEF RegistrySpec

-----------------------------------------------------------------------------
(* The theorems. *)

\* Readers do not exist for the handlers: whatever holds of Resources, every theorem
\* of ResourcesProofs and AnswersProofs about ResourcesSpec, holds of the service.
THEOREM HandlersRunAsBefore == RegistrySpec => ResourcesSpec
<1>1. RegistryInit => ResourcesInit
  BY DEF RegistryInit
<1>2. [RegistryNext]_registryVars => [ResourcesNext]_resourceVars
  <2>1. ASSUME NEW h \in Handlers, Handles(h) PROVE ResourcesNext
    BY <2>1, HandlesAsBefore DEF ResourcesNext
  <2>2. ASSUME NEW h \in Readers, Consumes(h) PROVE UNCHANGED resourceVars
    BY <2>2 DEF Consumes, Reader, Client, consumerVars, consumerTables, resourceVars, vars
  <2> QED BY <2>1, <2>2 DEF RegistryNext, registryVars
<1> QED BY <1>1, <1>2, PTL DEF RegistrySpec, ResourcesSpec

\* The 200 of PushRevision, RegisterPackage and PushResource and the review of an upload
\* say what the tables hold, in the whole service.
THEOREM HandlersKeepTheirPromises ==
  RegistrySpec => [](RepliesAreTrue /\ ResourceRepliesAreTrue /\ ReviewNamesARevision)
BY HandlersRunAsBefore, PushesKeepTheirPromiseBesideResources, PushedResourcesAreThere,
   ReviewsNameRevisions, PTL

\* The tables that the readers read are in order whenever they look: channels point to
\* revisions, no row outlives its package, and what is published is in the object store.
THEOREM ReadersFindTheTablesInOrder ==
  RegistrySpec => [](ReleasesResolve /\ NoOrphanRows /\ ArtifactsStored)
<1>1. RegistryInv => ReleasesResolve /\ NoOrphanRows /\ ArtifactsStored
  BY DEF RegistryInv, ResourcesInv, IInv, TablesOK
<1> QED BY <1>1, RegistryInvariance, PTL

\* A step of the service is a step of Catalog or leaves the catalog alone.
LEMMA ServiceStepMapsToStep ==
  RegistryInv /\ [RegistryNext]_registryVars => [C!CatalogNext]_(C!catalog)
<1> SUFFICES ASSUME RegistryInv, [RegistryNext]_registryVars
             PROVE  C!CatalogNext \/ UNCHANGED C!catalog
  OBVIOUS
<1>1. CASE UNCHANGED <<packages, minted, revisions, releases>>
  BY <1>1 DEF C!catalog
<1>2. ASSUME NEW h \in Handlers, OtherRequest(h)
      PROVE  C!CatalogNext \/ UNCHANGED C!catalog
  BY <1>2, StepMapsToStep DEF OtherRequest, Next, RegistryInv, ResourcesInv
<1>3. ASSUME NEW h \in Handlers, ResourceRequestStep(h)
      PROVE  UNCHANGED <<packages, minted, revisions, releases>>
  BY <1>3, ResourceRequestsLeaveCatalog
<1>4. ASSUME NEW h \in Readers, Consumes(h)
      PROVE  UNCHANGED <<packages, minted, revisions, releases>>
  BY <1>4 DEF Consumes, Reader, Client, consumerVars, consumerTables, tables
<1>5. CASE UNCHANGED registryVars
  BY <1>1, <1>5 DEF registryVars, resourceVars, vars, tables
<1> QED BY <1>1, <1>2, <1>3, <1>4, <1>5, HandlesAsBefore DEF RegistryNext

\* However charm pushes, resource pushes, releases, deletions and readers interleave, a
\* reader of the tables sees a history of the abstract catalog.
THEOREM ServiceImplementsCatalog == RegistrySpec => ImplementsCatalog
<1>1. RegistryInit => C!CatalogInit
  BY InitMapsToInit DEF RegistryInit, ResourcesInit
<1> QED BY <1>1, ServiceStepMapsToStep, RegistryInvariance, PTL
        DEF RegistrySpec, ImplementsCatalog, C!CatalogSpec

\* Requests of every kind keep their shape beside one another.
THEOREM RegistryTypeCorrect == RegistrySpec => []DownloadsTypeOK
BY RegistryInvariance, ClientsAreTyped, PTL DEF RegistryInv

\* What Refresh, Find and Info answered stays downloadable whatever PushRevision,
\* Release, PushResource, UpdatePackage and UnregisterPackage do in between, with the
\* rows they read some calls ago: only the deletion of its package takes it away, and only
\* another file named ".." the bytes of one of that name.
THEOREM AnswersSurviveTheHandlers == RegistrySpec => []AnswersStayDownloadable
BY RegistryInvariance, AnswersAreDownloadable, PTL DEF RegistryInv, DownloadsInv

\* The resources of an answer are those of the one release row that was read, although
\* ReplaceRelease may rewrite it before the revision and its resources are looked up.
THEOREM ReferencesSurviveTheHandlers == RegistrySpec => []ResourcesAsReleased
BY RegistryInvariance, ReferencesAreResolved, PTL DEF RegistryInv, DownloadsInv

\* Refresh accounts for each of its actions, and Find for a package that
\* UnregisterPackage deletes under it.  A refresh that fails as a whole has looked for
\* the package or for a resource revision that it was asked for, in vain; never for the
\* revision of a release, although Release looks for it before it writes the row.
THEOREM PartsSurviveTheHandlers == RegistrySpec => PartsAreAccountedFor
<1>1. RegistryInv => ConsumerInv /\ OneResultPerAction /\ SearchesSurviveDeletion
  BY PartsAreCounted DEF RegistryInv, DownloadsInv
<1>2. ConsumerInv /\ [RegistryNext]_registryVars
        => [\A h \in Readers : FailsForMissingRow(h)]_consumerVars
  <2> SUFFICES ASSUME ConsumerInv, [RegistryNext]_registryVars
               PROVE  \A h \in Readers : FailsForMissingRow(h)
    OBVIOUS
  <2>1. (\E k \in Readers : Reader(k)) \/ UNCHANGED read
    BY DEF RegistryNext, registryVars, Handles, Consumes, Client, consumerVars
  <2> QED BY <2>1, ReadersFailForMissingRows
<1> QED BY <1>1, <1>2, RegistryInvariance, PTL DEF RegistrySpec, PartsAreAccountedFor

\* DownloadCharm and DownloadResource deliver the bytes that were announced, but for an
\* upload named "..", although a push inserts its row several calls after it looked at its
\* object, and an update writes back the row of a resource that it read before.
THEOREM PromisesSurviveTheHandlers == RegistrySpec => []DownloadsKeepTheirPromise
BY RegistryInvariance, ClientsAreServed, PTL DEF RegistryInv

\* ListReleases finds the revision of every row it works through, although Release looks
\* for the revision in one statement and writes the row in another.
THEOREM ListingsSurviveTheHandlers == RegistrySpec => []ReleasesCanBeListed
BY RegistryInvariance, ClientsAreServed, PTL DEF RegistryInv

=============================================================================
