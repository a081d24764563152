--------------------------- MODULE ResourcesProofs ---------------------------
(***************************************************************************)
(* Proofs about Resources, for every value of the constants.  A request of *)
(* Publishing keeps IInv, the invariant of PublishingProofs, and executes  *)
(* one Statement of that module, whose cascade reaches the resource        *)
(* revisions; a resource request executes one of three statements of its   *)
(* own.  ResourcesInv adds to IInv the table of resource revisions and     *)
(* what a resource request in flight may rely on (ResourceInFlight), and   *)
(* Keeps says what any statement leaves of that.                           *)
(***************************************************************************)
EXTENDS Resources, PublishingProofs

ResourceRowsOK ==
  /\ DOMAIN resourceRevisions = PackageIds
  /\ \A p \in PackageIds :
       /\ DOMAIN resourceRevisions[p] = Resources
       /\ \A r \in Resources : IsTable(resourceRevisions[p][r], RevisionNumber, ResourceRow)

ResourceTablesOK ==
  ResourceRowsOK /\ ResourceRevisionsContiguous /\ NoOrphanResources /\ ResourcesServeTheirHash

PushSteps == {"GetBlob", "ListResourceRevisions", "CreateResourceRevision", "ApproveUpload"}
UpdateSteps == {"GetResourceRevision", "UpdateResourceRevision"}

\* The revision n of resource r of p, unless p has been unregistered, is this upload.
Published(p, r, n, upload, digest) ==
  Live(p) => /\ n \in DOMAIN resourceRevisions[p][r]
             /\ resourceRevisions[p][r][n].upload = upload
             /\ resourceRevisions[p][r][n].digest = digest

\* What a resource request in flight can rely on between two of its calls.
ResourceInFlight(q) ==
  /\ q.step # "Idle" => q.id \in minted /\ q.op \in ResourceOperations
  /\ q.step \in {"GetUpload", "Reply"} \cup PushSteps \cup UpdateSteps =>
       q.resource \in Resources /\ (Live(q.id) => q.resource \in definitions[q.id])
  /\ q.step \in {"GetUpload"} \cup PushSteps => q.op = "push_resource"
  /\ q.step \in UpdateSteps => q.op = "update_resources"
  /\ q.step \in PushSteps \/ (q.step = "Reply" /\ q.op = "push_resource") =>
       q.upload \in DOMAIN uploads /\ q.digest = uploads[q.upload].digest
  /\ q.step \in {"ListResourceRevisions", "CreateResourceRevision"} =>
       q.payload \in Payloads /\ (Own(q.upload) => q.payload = q.digest)
  /\ q.step = "CreateResourceRevision" =>
       /\ q.number > 0
       /\ Live(q.id) => 1..(q.number - 1) \subseteq DOMAIN resourceRevisions[q.id][q.resource]
  /\ q.step = "ApproveUpload" \/ (q.step = "Reply" /\ q.op = "push_resource") =>
       q.number \in RevisionNumber /\ Published(q.id, q.resource, q.number, q.upload, q.digest)
  /\ q.step = "Reply" /\ q.op = "push_resource" => uploads[q.upload].status # "pending"
  /\ q.step = "UpdateResourceRevision" =>
       /\ q.left > 0 /\ q.number \in RevisionNumber /\ q.item \in ResourceRow
       /\ Live(q.id) =>
            /\ q.number \in DOMAIN resourceRevisions[q.id][q.resource]
            /\ resourceRevisions[q.id][q.resource][q.number].image = q.item.image

ResourcesInv ==
  /\ IInv
  /\ ResourceTablesOK
  /\ resourceReq \in [Handlers -> ResourceRequest]
  /\ \A h \in Handlers : ResourceInFlight(resourceReq[h])
  /\ \A h \in Handlers : At(h, "Idle") \/ AtResource(h, "Idle")

-----------------------------------------------------------------------------
(* What a statement leaves of what was read. *)

\* Of the tables of Publishing.
TablesGrow ==
  /\ minted \subseteq minted'
  /\ \A u \in DOMAIN uploads :
       /\ u \in DOMAIN uploads' /\ uploads'[u].digest = uploads[u].digest
       /\ uploads[u].status # "pending" => uploads'[u].status # "pending"
  /\ \A k \in DOMAIN blobs : k \in DOMAIN blobs' /\ (k # SharedKey => blobs'[k] = blobs[k])
  /\ \A p \in minted \cap DOMAIN packages' : p \in DOMAIN packages
  /\ \A p \in PackageIds \cap DOMAIN packages' : definitions[p] \subseteq definitions'[p]

\* All of a row but its platforms.
SameContent(old, new) ==
  /\ new.upload = old.upload /\ new.oci = old.oci
  /\ new.image = old.image /\ new.digest = old.digest

\* The content of a resource revision stays while its package lives.
ContentStays ==
  \A p \in minted \cap DOMAIN packages', r \in Resources :
    \A n \in DOMAIN resourceRevisions[p][r] :
      LET old == resourceRevisions[p][r][n] new == resourceRevisions'[p][r][n] IN
      /\ n \in DOMAIN resourceRevisions'[p][r]
      /\ SameContent(old, new)

Keeps == TablesGrow /\ ContentStays

\* A request that does not move keeps what it relies on.
LEMMA ResourceInFlightIsStable ==
  ASSUME Keeps, ResourceRowsOK, minted \subseteq PackageIds,
         NEW q \in ResourceRequest, ResourceInFlight(q)
  PROVE  ResourceInFlight(q)'
<1>1. q.id \in minted /\ Live(q.id)' => Live(q.id) /\ definitions[q.id] \subseteq definitions'[q.id]
  BY DEF Keeps, TablesGrow, Live
<1>2. ASSUME q.id \in minted, q.resource \in Resources, Live(q.id)',
             NEW n \in DOMAIN resourceRevisions[q.id][q.resource]
      PROVE  /\ n \in DOMAIN resourceRevisions'[q.id][q.resource]
             /\ resourceRevisions'[q.id][q.resource][n].image
                  = resourceRevisions[q.id][q.resource][n].image
             /\ resourceRevisions'[q.id][q.resource][n].digest
                  = resourceRevisions[q.id][q.resource][n].digest
             /\ resourceRevisions'[q.id][q.resource][n].upload
                  = resourceRevisions[q.id][q.resource][n].upload
  BY <1>2 DEF Keeps, ContentStays, SameContent, Live
<1>3. \A u \in DOMAIN uploads :
        /\ u \in DOMAIN uploads' /\ uploads'[u].digest = uploads[u].digest
        /\ uploads[u].status # "pending" => uploads'[u].status # "pending"
  BY DEF Keeps, TablesGrow
<1>4. minted \subseteq minted'
  BY DEF Keeps, TablesGrow
<1> QED BY <1>1, <1>2, <1>3, <1>4 DEF ResourceInFlight, Published, PushSteps, UpdateSteps

\* What a request relies on is said of the request alone.
LEMMA InFlightOfTheSame ==
  ASSUME NEW r, NEW k \in Handlers, r = resourceReq'[k], ResourceInFlight(r)'
  PROVE  ResourceInFlight(resourceReq[k])'
BY DEF ResourceInFlight, Published

\* A step of a resource request keeps ResourcesInv when its statement keeps the
\* tables and its own next request is in order.
LEMMA ResourceStep ==
  ASSUME ResourcesInv, NEW h \in Handlers, IInv', ResourceTablesOK', Keeps,
         At(h, "Idle"), UNCHANGED req, NEW q \in ResourceRequest,
         resourceReq' = [resourceReq EXCEPT ![h] = q], ResourceInFlight(q)'
  PROVE  ResourcesInv' /\ Keeps
<1>1. /\ resourceReq' \in [Handlers -> ResourceRequest] /\ resourceReq'[h] = q
      /\ \A k \in Handlers \ {h} : resourceReq'[k] = resourceReq[k]
  BY DEF ResourcesInv
<1>2. ASSUME NEW k \in Handlers \ {h} PROVE ResourceInFlight(resourceReq[k])'
  <2>1. PICK r \in ResourceRequest : r = resourceReq[k] /\ ResourceInFlight(r)
    BY DEF ResourcesInv
  <2>2. ResourceInFlight(r)'
    BY <2>1, ResourceInFlightIsStable
       DEF ResourcesInv, ResourceTablesOK, IInv, TablesOK, PackagesTypeOK
  <2>3. r = resourceReq'[k]
    BY <1>1, <2>1
  <2> QED BY <2>2, <2>3, InFlightOfTheSame
<1>3. ResourceInFlight(resourceReq[h])'
  BY <1>1 DEF ResourceInFlight, Published
<1>4. \A k \in Handlers : At(k, "Idle")' \/ AtResource(k, "Idle")'
  BY <1>1 DEF ResourcesInv, At, AtResource
<1> QED BY <1>1, <1>2, <1>3, <1>4 DEF ResourcesInv

-----------------------------------------------------------------------------
(* The requests of Publishing. *)

\* What one statement leaves of the tables of Publishing.
LEMMA StatementGrows ==
  ASSUME TablesOK, Statement \/ UNCHANGED tables
  PROVE  TablesGrow
<1> USE DEF TablesGrow
<1>1. CASE UNCHANGED tables
  BY <1>1 DEF tables, TablesOK, PackagesTypeOK, IsTable
<1>2. ASSUME NEW p \in PackageIds, NEW row, InsertPackage(p, row) \/ UpdatePackageRow(p, row)
      PROVE  TablesGrow
  BY <1>2 DEF InsertPackage, UpdatePackageRow, WithRow, TablesOK, PackagesTypeOK, IsTable
<1>3. ASSUME NEW p \in PackageIds, NEW x, InsertTrackRow(p, x) \/ UpsertDefinitionRow(p, x)
      PROVE  TablesGrow
  BY <1>3 DEF InsertTrackRow, UpsertDefinitionRow, TablesOK, PackagesTypeOK, IsTable
<1>4. ASSUME NEW p \in PackageIds, NEW x, NEW y,
             UpsertReleaseRow(p, x, y) \/ InsertRevisionRow(p, x, y)
      PROVE  TablesGrow
  BY <1>4 DEF UpsertReleaseRow, InsertRevisionRow, TablesOK, PackagesTypeOK, IsTable
<1>5. ASSUME NEW p \in PackageIds, DeletePackageRow(p)
      PROVE  TablesGrow
  BY <1>5 DEF DeletePackageRow, TablesOK, PackagesTypeOK, IsTable
<1>6. ASSUME NEW u, NEW x, (NewUpload(u) /\ PutObject(u, x)) \/ InsertUploadRow(u, x)
      PROVE  TablesGrow
  BY <1>6 DEF NewUpload, PutObject, InsertUploadRow, WithRow, ObjectKey, TablesOK, PackagesTypeOK,
              UploadsTypeOK, IsTable
<1>7. ASSUME NEW u, NEW v \in {"approved", "rejected"}, NEW n, ReviewUploadRow(u, v, n)
      PROVE  TablesGrow
  <2>1. /\ DOMAIN uploads' = DOMAIN uploads
        /\ \A w \in DOMAIN uploads :
             /\ uploads'[w].digest = uploads[w].digest
             /\ uploads[w].status # "pending" => uploads'[w].status # "pending"
    BY <1>7 DEF ReviewUploadRow, TablesOK, UploadsTypeOK, IsTable, UploadRow
  <2> QED BY <1>7, <2>1 DEF ReviewUploadRow, TablesOK, PackagesTypeOK, IsTable
<1> QED BY <1>1, <1>2, <1>3, <1>4, <1>5, <1>6, <1>7
           DEF Statement, InvisibleStatement, PublishStatement

\* The cascade of a statement keeps the resource revisions in order.
LEMMA CascadeKeepsResources ==
  ASSUME TablesOK, TablesOK', ResourceTablesOK, TablesGrow, CascadeToResources
  PROVE  ResourceTablesOK' /\ Keeps
<1>1. /\ DOMAIN resourceRevisions' = PackageIds
      /\ \A p \in PackageIds : resourceRevisions'[p] =
           IF p \in DOMAIN packages' THEN resourceRevisions[p] ELSE NoResourceRows
  BY DEF CascadeToResources
<1>2. \A r \in Resources : /\ DOMAIN NoResourceRows = Resources
                           /\ NoResourceRows[r] = NoRows /\ DOMAIN NoRows = {}
                           /\ IsTable(NoRows, RevisionNumber, ResourceRow)
  BY DEF NoResourceRows, NoRows, IsTable
<1>3. ResourceRowsOK'
  BY <1>1, <1>2 DEF ResourceRowsOK, ResourceTablesOK, NoResourceRows
<1>4. ResourceRevisionsContiguous'
  <2>1. 0 \in 0..MaxRevision /\ DOMAIN NoRows = 1..0
    BY MaxRevisionAssumption DEF NoRows
  <2> QED BY <1>1, <1>2, <2>1 DEF ResourceRevisionsContiguous, ResourceTablesOK
<1>5. NoOrphanResources'
  <2> SUFFICES ASSUME NEW p \in PackageIds, NEW r \in Resources, r \notin definitions'[p]
               PROVE  DOMAIN resourceRevisions'[p][r] = {}
    BY DEF NoOrphanResources
  <2>1. CASE p \in DOMAIN packages'
    BY <1>1, <2>1 DEF TablesGrow, NoOrphanResources, ResourceTablesOK
  <2>2. CASE p \notin DOMAIN packages'
    BY <1>1, <1>2, <2>2
  <2> QED BY <2>1, <2>2
<1>6. ResourcesServeTheirHash'
  <2> SUFFICES ASSUME NEW p \in PackageIds, NEW r \in Resources,
                      NEW n \in DOMAIN resourceRevisions'[p][r],
                      NEW row, row = resourceRevisions'[p][r][n]
               PROVE  /\ row.oci \/ ObjectKey(row.upload) \in DOMAIN blobs'
                      /\ Own(row.upload) =>
                           (IF row.oci THEN row.image ELSE blobs'[row.upload]) = row.digest
    BY DEF ResourcesServeTheirHash, ServedContent, ObjectKey, Own
  <2>1. p \in DOMAIN packages' /\ resourceRevisions'[p] = resourceRevisions[p]
    BY <1>1, <1>2
  <2>2. row \in ResourceRow /\ row.upload \in Uploads
    BY <2>1 DEF ResourceTablesOK, ResourceRowsOK, IsTable, ResourceRow
  <2>3. /\ row.oci \/ ObjectKey(row.upload) \in DOMAIN blobs
        /\ Own(row.upload) => (IF row.oci THEN row.image ELSE blobs[row.upload]) = row.digest
    BY <2>1 DEF ResourcesServeTheirHash, ResourceTablesOK, ServedContent, ObjectKey, Own
  <2> QED BY <2>2, <2>3, KeyOfAnUpload DEF TablesGrow
<1>7. ContentStays
  BY <1>1 DEF ContentStays, SameContent, TablesOK, PackagesTypeOK
<1> QED BY <1>3, <1>4, <1>5, <1>6, <1>7 DEF ResourceTablesOK, Keeps

\* A step of a handler leaves the requests of the others alone.
LEMMA OthersStay ==
  ASSUME NEW h \in Handlers, Accept(h) \/ Proceed(h) \/ Fail(h), NEW k \in Handlers \ {h},
         req \in [Handlers -> Request]
  PROVE  req'[k] = req[k]
<1>1. CASE Accept(h) \/ Fail(h)
  BY <1>1 DEF Accept, CreatePackage, GetPackageByName, PutBlob, Fail, Finish
<1>2. CASE Proceed(h)
  BY <1>2 DEF Proceed, InsertTrack, RequirePackageManage, UpdatePackage, ListRevisions,
              DeletePackage, CreateUpload, GetUpload, GetBlob, RejectUpload, GetLatestRevision,
              CreateRevision, ApproveUpload, PublishPackage, UpsertResourceDefinition,
              GetRevisionByNumber, ReplaceRelease, EndBatch, Reply, Goto, Finish
<1> QED BY <1>1, <1>2

LEMMA OtherRequestStep ==
  ASSUME ResourcesInv, NEW h \in Handlers, OtherRequest(h)
  PROVE  ResourcesInv' /\ Keeps
<1>1. Next /\ CascadeToResources /\ UNCHANGED resourceReq
  BY DEF OtherRequest, Next
<1>2. IInv /\ IInv' /\ TablesOK /\ TablesOK'
  BY <1>1, NextKeepsIInv DEF ResourcesInv, IInv
<1>3. ResourceTablesOK' /\ Keeps
  BY <1>1, <1>2, StatementOfAStep, StatementGrows, CascadeKeepsResources DEF ResourcesInv
<1>4. ASSUME NEW k \in Handlers PROVE ResourceInFlight(resourceReq[k])'
  <2>1. PICK r \in ResourceRequest : r = resourceReq[k] /\ ResourceInFlight(r)
    BY DEF ResourcesInv
  <2>2. ResourceInFlight(r)'
    BY <1>3, <2>1, ResourceInFlightIsStable
       DEF ResourcesInv, ResourceTablesOK, IInv, TablesOK, PackagesTypeOK
  <2>3. r = resourceReq'[k]
    BY <1>1, <2>1
  <2> QED BY <2>2, <2>3, InFlightOfTheSame
<1>5. ASSUME NEW k \in Handlers PROVE At(k, "Idle")' \/ AtResource(k, "Idle")'
  <2>1. CASE k = h
    BY <1>1, <2>1 DEF OtherRequest, AtResource
  <2>2. CASE k # h
    BY <1>1, <2>2, OthersStay DEF OtherRequest, AtResource, At, ResourcesInv, IInv
  <2> QED BY <2>1, <2>2
<1> QED BY <1>1, <1>2, <1>3, <1>4, <1>5 DEF ResourcesInv

-----------------------------------------------------------------------------
(* The requests of Resources. *)

\* The request that is over is a request, and relies on nothing.
LEMMA NoRequestIsRequest ==
  NoRequest \in ResourceRequest /\ ResourceInFlight(NoRequest) /\ ResourceInFlight(NoRequest)'
<1>1. 0 \in 0..(MaxRevision + 1) /\ 0 \in 0..MaxUpdates
  BY MaxRevisionAssumption, MaxUpdatesAssumption
<1>2. NoRequest \in ResourceRequest
  BY <1>1 DEF NoRequest, ResourceRequest, ResourceSteps
<1> QED BY <1>2 DEF NoRequest, ResourceInFlight, PushSteps, UpdateSteps

\* A call that only reads keeps the tables.
LEMMA ResourceReadsKeepTables ==
  ASSUME ResourcesInv, UNCHANGED <<tables, resourceRevisions, req>>
  PROVE  IInv' /\ ResourceTablesOK' /\ Keeps
<1>1. IInv'
  BY NextKeepsIInv DEF ResourcesInv, vars
<1>2. TablesGrow
  BY StatementGrows DEF ResourcesInv, IInv
<1>3. UNCHANGED <<packages, minted, definitions, blobs, resourceRevisions>>
  BY DEF tables
<1>4. ResourceTablesOK' /\ ContentStays
  BY <1>3 DEF ResourcesInv, ResourceTablesOK, ResourceRowsOK, IsTable,
     ResourceRevisionsContiguous, NoOrphanResources, ResourcesServeTheirHash, ServedContent,
     ContentStays, SameContent, IInv, TablesOK, PackagesTypeOK
<1> QED BY <1>1, <1>2, <1>4 DEF Keeps

\* A request that reads.
LEMMA ReadStep ==
  ASSUME ResourcesInv, NEW h \in Handlers, At(h, "Idle"),
         UNCHANGED <<tables, resourceRevisions, req>>, NEW q \in ResourceRequest,
         resourceReq' = [resourceReq EXCEPT ![h] = q], ResourceInFlight(q)
  PROVE  ResourcesInv' /\ Keeps
<1>1. ResourceInFlight(q)'
  BY DEF ResourceInFlight, Published, Live, tables
<1> QED BY <1>1, ResourceReadsKeepTables, ResourceStep

\* Before its first call and after its last a request relies on nothing.
LEMMA ResourceEndStep ==
  ASSUME ResourcesInv, NEW h \in Handlers, ResourceReply(h) \/ FailResource(h), UNCHANGED req
  PROVE  ResourcesInv' /\ Keeps
<1>1. At(h, "Idle")
  BY DEF ResourceReply, FailResource, AtResource, ResourcesInv
<1> QED BY <1>1, NoRequestIsRequest, ReadStep DEF ResourceReply, FailResource, FinishResource

\* GetPackageByName, requirePackageManage, GetResourceDefinition.
LEMMA PrologueStep ==
  ASSUME ResourcesInv, NEW h \in Handlers, UNCHANGED req,
         FindPackage(h) \/ MayManage(h) \/ GetResourceDefinition(h)
  PROVE  ResourcesInv' /\ Keeps
<1>1. PICK q \in ResourceRequest : q = resourceReq[h] /\ ResourceInFlight(q)
  BY DEF ResourcesInv
<1>2. TablesOK /\ resourceReq \in [Handlers -> ResourceRequest]
  BY DEF ResourcesInv, IInv
<1>3. At(h, "Idle") /\ UNCHANGED <<tables, resourceRevisions, req>>
  BY DEF ResourcesInv, FindPackage, MayManage, GetResourceDefinition, AtResource
<1>4. CASE FindPackage(h)
  <2>1. PICK op, p, r :
          /\ op \in ServedResources /\ p \in DOMAIN packages
          /\ r = [NoRequest EXCEPT !.step = "CanManagePackage", !.op = op, !.id = p]
          /\ resourceReq' = [resourceReq EXCEPT ![h] = r]
    BY <1>4 DEF FindPackage
  <2>2. p \in minted /\ p \in PackageIds /\ op \in ResourceOperations
    BY <1>2, <2>1, ServedResourcesAssumption DEF TablesOK, PackagesTypeOK, IsTable
  <2>3. r \in ResourceRequest /\ r.step = "CanManagePackage" /\ r.op = op /\ r.id = p
    BY ZenonT(60), <2>1, <2>2, NoRequestIsRequest DEF ResourceRequest, ResourceSteps
  <2>4. ResourceInFlight(r)
    BY <2>2, <2>3 DEF ResourceInFlight, PushSteps, UpdateSteps
  <2> QED BY <1>3, <2>1, <2>3, <2>4, ReadStep
<1>5. CASE MayManage(h)
  <2>1. PICK r : /\ r = [q EXCEPT !.step = "GetResourceDefinition"]
                 /\ resourceReq' = [resourceReq EXCEPT ![h] = r]
    BY <1>1, <1>2, <1>5 DEF MayManage
  <2>2. /\ r \in ResourceRequest /\ r.step = "GetResourceDefinition"
        /\ r.op = q.op /\ r.id = q.id
    BY <2>1 DEF ResourceRequest, ResourceSteps
  <2>3. q.step = "CanManagePackage"
    BY <1>1, <1>5 DEF MayManage, AtResource
  <2>4. ResourceInFlight(r)
    BY <1>1, <2>2, <2>3 DEF ResourceInFlight, PushSteps, UpdateSteps
  <2> QED BY <1>3, <2>1, <2>2, <2>4, ReadStep
<1>6. CASE GetResourceDefinition(h)
  <2>1. q.step = "GetResourceDefinition" /\ q.id \in minted /\ q.id \in PackageIds
    BY <1>1, <1>2, <1>6
       DEF GetResourceDefinition, AtResource, ResourceInFlight, TablesOK, PackagesTypeOK
  <2>2. PICK d \in definitions[q.id] :
          \/ /\ q.op = "push_resource"
             /\ resourceReq' = [resourceReq EXCEPT ![h].step = "GetUpload", ![h].resource = d]
          \/ /\ q.op = "update_resources"
             /\ \E n \in 0..MaxUpdates :
                  resourceReq' = [resourceReq EXCEPT
                    ![h].step = "GetResourceRevision", ![h].resource = d, ![h].left = n]
    BY <1>1, <1>6 DEF GetResourceDefinition
  <2>3. d \in Resources
    BY <1>2, <2>1, <2>2 DEF TablesOK, PackagesTypeOK
  <2>4. CASE q.op = "push_resource"
    <3>1. PICK r : /\ r = [q EXCEPT !.step = "GetUpload", !.resource = d]
                   /\ resourceReq' = [resourceReq EXCEPT ![h] = r]
      BY <1>1, <1>2, <2>2, <2>4
    <3>2. /\ r \in ResourceRequest /\ r.step = "GetUpload" /\ r.op = q.op /\ r.id = q.id
          /\ r.resource = d
      BY <2>3, <3>1 DEF ResourceRequest, ResourceSteps
    <3>3. ResourceInFlight(r)
      BY <1>1, <2>1, <2>3, <2>4, <3>2 DEF ResourceInFlight, PushSteps, UpdateSteps
    <3> QED BY <1>3, <3>1, <3>2, <3>3, ReadStep
  <2>5. CASE q.op # "push_resource"
    <3>1. PICK n, r : /\ n \in 0..MaxUpdates /\ q.op = "update_resources"
                      /\ r = [q EXCEPT !.step = "GetResourceRevision", !.resource = d, !.left = n]
                      /\ resourceReq' = [resourceReq EXCEPT ![h] = r]
      BY <1>1, <1>2, <2>2, <2>5
    <3>2. /\ r \in ResourceRequest /\ r.step = "GetResourceRevision" /\ r.op = q.op
          /\ r.id = q.id /\ r.resource = d
      BY <2>3, <3>1 DEF ResourceRequest, ResourceSteps
    <3>3. ResourceInFlight(r)
      BY <1>1, <2>1, <2>3, <3>1, <3>2 DEF ResourceInFlight, PushSteps, UpdateSteps
    <3> QED BY <1>3, <3>1, <3>2, <3>3, ReadStep
  <2> QED BY <2>4, <2>5
<1> QED BY <1>4, <1>5, <1>6

\* The next number of a resource whose revisions are 1..m is m + 1.
LEMMA NextResourceRevisionOf ==
  ASSUME NEW p, NEW r, NEW m \in Nat, DOMAIN resourceRevisions[p][r] = 1..m
  PROVE  NextResourceRevision(p, r) = m + 1
<1>1. CASE m = 0
  BY <1>1 DEF NextResourceRevision
<1>2. CASE m > 0
  <2>1. m \in 1..m /\ \A y \in 1..m : m >= y
    BY <1>2
  <2>2. \A x \in 1..m : (\A y \in 1..m : x >= y) => x = m
    BY <2>1
  <2>3. Max(1..m) = m
    BY <2>1, <2>2 DEF Max
  <2> QED BY <1>2, <2>3 DEF NextResourceRevision
<1> QED BY <1>1, <1>2

\* PushResource up to its insert.
LEMMA PreparePushResourceStep ==
  ASSUME ResourcesInv, NEW h \in Handlers, UNCHANGED req,
         GetResourceUpload(h) \/ GetResourceBlob(h) \/ ListResourceRevisions(h)
  PROVE  ResourcesInv' /\ Keeps
<1>1. PICK q \in ResourceRequest : q = resourceReq[h] /\ ResourceInFlight(q)
  BY DEF ResourcesInv
<1>2. /\ TablesOK /\ ResourceTablesOK /\ resourceReq \in [Handlers -> ResourceRequest]
      /\ minted \subseteq PackageIds
  BY DEF ResourcesInv, IInv, TablesOK, PackagesTypeOK
<1>3. At(h, "Idle") /\ UNCHANGED <<tables, resourceRevisions, req>>
  BY DEF ResourcesInv, GetResourceUpload, GetResourceBlob, ListResourceRevisions, AtResource
<1>4. CASE GetResourceUpload(h)
  <2>1. PICK u, r :
          /\ u \in DOMAIN uploads
          /\ r = [q EXCEPT !.step = "GetBlob", !.upload = u, !.digest = uploads[u].digest]
          /\ resourceReq' = [resourceReq EXCEPT ![h] = r]
    BY <1>1, <1>2, <1>4 DEF GetResourceUpload
  <2>2. u \in Uploads /\ uploads[u].digest \in Payloads /\ q.step = "GetUpload"
    BY <1>1, <2>1, <1>2, <1>4
       DEF TablesOK, UploadsTypeOK, IsTable, UploadRow, GetResourceUpload, AtResource
  <2>3. /\ r \in ResourceRequest /\ r.step = "GetBlob" /\ r.op = q.op /\ r.id = q.id
        /\ r.resource = q.resource /\ r.upload = u /\ r.digest = uploads[u].digest
    BY <2>1, <2>2 DEF ResourceRequest, ResourceSteps
  <2>4. ResourceInFlight(r)
    BY <1>1, <2>1, <2>2, <2>3 DEF ResourceInFlight, PushSteps, UpdateSteps
  <2> QED BY <1>3, <2>1, <2>3, <2>4, ReadStep
<1>5. CASE GetResourceBlob(h)
  <2>1. PICK r :
          /\ r = [q EXCEPT !.step = "ListResourceRevisions",
                           !.payload = blobs[ObjectKey(q.upload)]]
          /\ resourceReq' = [resourceReq EXCEPT ![h] = r]
    BY <1>1, <1>2, <1>5 DEF GetResourceBlob
  <2>2. /\ q.step = "GetBlob" /\ q.upload \in DOMAIN uploads
        /\ q.digest = uploads[q.upload].digest
    BY <1>1, <1>5 DEF GetResourceBlob, AtResource, ResourceInFlight, PushSteps
  <2>3. /\ blobs[ObjectKey(q.upload)] \in Payloads
        /\ Own(q.upload) => blobs[ObjectKey(q.upload)] = q.digest
    BY <1>2, <2>2 DEF TablesOK, ArtifactsStored, UploadsTypeOK, IsTable, ObjectKey, Own
  <2>4. /\ r \in ResourceRequest /\ r.step = "ListResourceRevisions" /\ r.op = q.op
        /\ r.id = q.id /\ r.resource = q.resource /\ r.upload = q.upload
        /\ r.digest = q.digest /\ r.payload = blobs[ObjectKey(q.upload)]
    BY <2>1, <2>3 DEF ResourceRequest, ResourceSteps
  <2>5. ResourceInFlight(r)
    BY <1>1, <2>2, <2>3, <2>4 DEF ResourceInFlight, PushSteps, UpdateSteps
  <2> QED BY <1>3, <2>1, <2>4, <2>5, ReadStep
<1>6. CASE ListResourceRevisions(h)
  <2>1. PICK n, r :
          /\ n = NextResourceRevision(q.id, q.resource)
          /\ r = [q EXCEPT !.step = "CreateResourceRevision", !.number = n]
          /\ resourceReq' = [resourceReq EXCEPT ![h] = r]
    BY <1>1, <1>2, <1>6 DEF ListResourceRevisions
  <2>2. q.step = "ListResourceRevisions" /\ q.id \in PackageIds /\ q.resource \in Resources
    BY <1>1, <1>2, <1>6 DEF ListResourceRevisions, AtResource, ResourceInFlight, PushSteps
  <2>3. PICK m \in 0..MaxRevision : DOMAIN resourceRevisions[q.id][q.resource] = 1..m
    BY <1>2, <2>2 DEF ResourceTablesOK, ResourceRevisionsContiguous
  <2>4. n = m + 1 /\ m \in Nat
    BY <2>1, <2>3, NextResourceRevisionOf, MaxRevisionAssumption
  <2>5. n \in 0..(MaxRevision + 1) /\ n > 0 /\ 1..(n - 1) = 1..m
    BY <2>3, <2>4, MaxRevisionAssumption
  <2>6. /\ r \in ResourceRequest /\ r.step = "CreateResourceRevision" /\ r.op = q.op
        /\ r.id = q.id /\ r.resource = q.resource /\ r.upload = q.upload
        /\ r.digest = q.digest /\ r.payload = q.payload /\ r.number = n
    BY ZenonT(60), <2>1, <2>5 DEF ResourceRequest, ResourceSteps
  <2>7. ResourceInFlight(r)
    BY <1>1, <2>2, <2>3, <2>5, <2>6 DEF ResourceInFlight, PushSteps, UpdateSteps
  <2> QED BY <1>3, <2>1, <2>6, <2>7, ReadStep
<1> QED BY <1>4, <1>5, <1>6

-----------------------------------------------------------------------------
(* The statements of PushResource and UpdateResourceRevisions. *)

\* INSERT INTO resource_revisions of a row that serves its hash, under a number
\* that leaves no gap.
LEMMA InsertResourceRowKeepsTables ==
  ASSUME TablesOK, ResourceTablesOK, NEW p \in PackageIds, NEW r \in Resources, NEW n \in Nat,
         NEW row \in ResourceRow, InsertResourceRow(p, r, n, row), UNCHANGED tables,
         1..(n - 1) \subseteq DOMAIN resourceRevisions[p][r],
         row.oci \/ ObjectKey(row.upload) \in DOMAIN blobs,
         Own(row.upload) => ServedContent(row) = row.digest
  PROVE  /\ ResourceTablesOK' /\ Keeps
         /\ n \in DOMAIN resourceRevisions'[p][r] /\ resourceRevisions'[p][r][n] = row
<1>1. PICK m \in 0..MaxRevision : DOMAIN resourceRevisions[p][r] = 1..m
  BY DEF ResourceTablesOK, ResourceRevisionsContiguous
<1>2. /\ r \in definitions[p] /\ n \in RevisionNumber \ DOMAIN resourceRevisions[p][r]
      /\ resourceRevisions' = [resourceRevisions EXCEPT
           ![p][r] = WithRow(resourceRevisions[p][r], n, row)]
  BY DEF InsertResourceRow
<1>3. n = m + 1
  <2>1. n \in 1..MaxRevision /\ ~(n \in 1..m)
    BY <1>1, <1>2 DEF RevisionNumber
  <2>2. CASE n > 1
    <3>1. n - 1 \in 1..(n - 1)
      BY <2>1, <2>2, MaxRevisionAssumption
    <3> QED BY <1>1, <2>1, <3>1, MaxRevisionAssumption
  <2> QED BY <2>1, <2>2, MaxRevisionAssumption
<1>4. /\ DOMAIN resourceRevisions' = PackageIds
      /\ \A q \in PackageIds : DOMAIN resourceRevisions'[q] = Resources
      /\ \A q \in PackageIds, s \in Resources :
           (q # p \/ s # r) => resourceRevisions'[q][s] = resourceRevisions[q][s]
      /\ resourceRevisions'[p][r] = WithRow(resourceRevisions[p][r], n, row)
  BY <1>2 DEF ResourceTablesOK, ResourceRowsOK
<1>5. /\ DOMAIN resourceRevisions'[p][r] = 1..n
      /\ n \in DOMAIN resourceRevisions'[p][r] /\ resourceRevisions'[p][r][n] = row
      /\ \A k \in DOMAIN resourceRevisions[p][r] :
           /\ k \in DOMAIN resourceRevisions'[p][r]
           /\ resourceRevisions'[p][r][k] = resourceRevisions[p][r][k]
      /\ \A k \in DOMAIN resourceRevisions'[p][r] :
           k = n \/ k \in DOMAIN resourceRevisions[p][r]
  <2>1. PICK old, new : old = resourceRevisions[p][r] /\ new = resourceRevisions'[p][r]
    OBVIOUS
  <2>2. /\ DOMAIN new = DOMAIN old \cup {n} /\ new[n] = row
        /\ \A k \in DOMAIN old : k # n => new[k] = old[k]
    BY <1>4, <2>1 DEF WithRow
  <2>3. n \notin DOMAIN old
    BY <1>2, <2>1
  <2>4. DOMAIN new = 1..n
    BY <1>1, <1>3, <2>1, <2>2, MaxRevisionAssumption
  <2> QED BY <2>1, <2>2, <2>3, <2>4
<1>6. UNCHANGED <<packages, minted, definitions, blobs>>
  BY DEF tables
<1>7. ResourceRowsOK'
  <2>1. IsTable(resourceRevisions'[p][r], RevisionNumber, ResourceRow)
    BY <1>2, <1>4 DEF ResourceTablesOK, ResourceRowsOK, IsTable, WithRow
  <2> QED BY <1>4, <2>1 DEF ResourceTablesOK, ResourceRowsOK
<1>8. ResourceRevisionsContiguous'
  <2>1. n \in 0..MaxRevision
    BY <1>2, MaxRevisionAssumption DEF RevisionNumber
  <2> QED BY <1>4, <1>5, <2>1 DEF ResourceTablesOK, ResourceRevisionsContiguous
<1>9. NoOrphanResources'
  BY <1>2, <1>4, <1>6 DEF ResourceTablesOK, NoOrphanResources
<1>10. ResourcesServeTheirHash'
  <2> SUFFICES ASSUME NEW q \in PackageIds, NEW s \in Resources,
                      NEW k \in DOMAIN resourceRevisions'[q][s],
                      NEW it, it = resourceRevisions'[q][s][k]
               PROVE  /\ it.oci \/ ObjectKey(it.upload) \in DOMAIN blobs
                      /\ Own(it.upload) => ServedContent(it) = it.digest
    BY <1>6 DEF ResourcesServeTheirHash, ServedContent
  <2>1. CASE q = p /\ s = r /\ k = n
    BY <1>5, <2>1
  <2>2. CASE ~(q = p /\ s = r /\ k = n)
    <3>1. k \in DOMAIN resourceRevisions[q][s] /\ it = resourceRevisions[q][s][k]
      BY <1>4, <1>5, <2>2
    <3> QED BY <3>1 DEF ResourceTablesOK, ResourcesServeTheirHash
  <2> QED BY <2>1, <2>2
<1>11. ContentStays
  BY <1>4, <1>5, <1>6 DEF ContentStays, SameContent, TablesOK, PackagesTypeOK
<1>12. TablesGrow
  BY StatementGrows
<1> QED BY <1>2, <1>5, <1>7, <1>8, <1>9, <1>10, <1>11, <1>12 DEF ResourceTablesOK, Keeps

\* UPDATE resource_revisions with the image that is there.
LEMMA UpdateResourceRowKeepsTables ==
  ASSUME TablesOK, ResourceTablesOK, NEW p \in PackageIds, NEW r \in Resources, NEW n,
         NEW row \in ResourceRow, UpdateResourceRow(p, r, n, row), UNCHANGED tables,
         row.image = resourceRevisions[p][r][n].image
  PROVE  ResourceTablesOK' /\ Keeps
<1>1. /\ n \in DOMAIN resourceRevisions[p][r]
      /\ resourceRevisions' = [resourceRevisions EXCEPT
           ![p][r][n].platforms = row.platforms, ![p][r][n].image = row.image]
  BY DEF UpdateResourceRow
<1>2. PICK old : old = resourceRevisions[p][r][n]
  OBVIOUS
<1>3. old \in ResourceRow
  BY <1>1, <1>2 DEF ResourceTablesOK, ResourceRowsOK, IsTable
<1>4. PICK new : new = [old EXCEPT !.platforms = row.platforms, !.image = row.image]
  OBVIOUS
<1>5. /\ new \in ResourceRow
      /\ SameContent(old, new)
  BY <1>2, <1>3, <1>4 DEF ResourceRow, SameContent
<1>6. resourceRevisions' = [resourceRevisions EXCEPT ![p] =
        [resourceRevisions[p] EXCEPT ![r] = [resourceRevisions[p][r] EXCEPT ![n] = new]]]
  BY <1>1, <1>2, <1>4 DEF ResourceTablesOK, ResourceRowsOK
<1>7. /\ DOMAIN resourceRevisions' = PackageIds
      /\ \A q \in PackageIds : DOMAIN resourceRevisions'[q] = Resources
      /\ \A q \in PackageIds, s \in Resources :
           (q # p \/ s # r) => resourceRevisions'[q][s] = resourceRevisions[q][s]
      /\ resourceRevisions'[p][r] = [resourceRevisions[p][r] EXCEPT ![n] = new]
  BY <1>6 DEF ResourceTablesOK, ResourceRowsOK
<1>8. \A q \in PackageIds, s \in Resources :
        /\ DOMAIN resourceRevisions'[q][s] = DOMAIN resourceRevisions[q][s]
        /\ \A k \in DOMAIN resourceRevisions[q][s] :
             SameContent(resourceRevisions[q][s][k], resourceRevisions'[q][s][k])
  BY <1>2, <1>5, <1>7 DEF SameContent
<1>9. UNCHANGED <<packages, minted, definitions, blobs>>
  BY DEF tables
<1>10. ResourceRowsOK'
  <2>1. IsTable(resourceRevisions'[p][r], RevisionNumber, ResourceRow)
    <3>1. PICK was, is : was = resourceRevisions[p][r] /\ is = resourceRevisions'[p][r]
      OBVIOUS
    <3>2. IsTable(was, RevisionNumber, ResourceRow) /\ is = [was EXCEPT ![n] = new]
      BY <1>7, <3>1 DEF ResourceTablesOK, ResourceRowsOK
    <3>3. IsTable(is, RevisionNumber, ResourceRow)
      BY <1>5, <3>2 DEF IsTable
    <3> QED BY <3>1, <3>3 DEF IsTable
  <2> QED BY <1>7, <2>1 DEF ResourceTablesOK, ResourceRowsOK
<1>11. ResourceRevisionsContiguous' /\ NoOrphanResources'
  BY <1>8, <1>9 DEF ResourceTablesOK, ResourceRevisionsContiguous, NoOrphanResources
<1>12. ResourcesServeTheirHash'
  BY <1>8, <1>9 DEF ResourceTablesOK, ResourcesServeTheirHash, ServedContent, SameContent
<1>13. ContentStays
  BY <1>8, <1>9 DEF ContentStays, TablesOK, PackagesTypeOK
<1> QED BY <1>10, <1>11, <1>12, <1>13, StatementGrows DEF ResourceTablesOK, Keeps

\* CreateResourceRevision: the row PushResource builds serves what it advertises.
LEMMA CreateResourceStep ==
  ASSUME ResourcesInv, NEW h \in Handlers, CreateResourceRevision(h), UNCHANGED req
  PROVE  ResourcesInv' /\ Keeps
<1>1. PICK q \in ResourceRequest : q = resourceReq[h] /\ ResourceInFlight(q)
  BY DEF ResourcesInv
<1>2. /\ TablesOK /\ ResourceTablesOK /\ resourceReq \in [Handlers -> ResourceRequest]
      /\ minted \subseteq PackageIds
  BY DEF ResourcesInv, IInv, TablesOK, PackagesTypeOK
<1>3. PICK oci \in BOOLEAN, platforms \in Platforms :
        InsertResourceRow(q.id, q.resource, q.number, NewRow(h, oci, platforms))
  BY <1>1 DEF CreateResourceRevision
<1>4. PICK row : row = NewRow(h, oci, platforms)
  OBVIOUS
<1>5. /\ q.step = "CreateResourceRevision" /\ UNCHANGED <<tables, req>> /\ At(h, "Idle")
      /\ q.id \in minted /\ q.id \in PackageIds /\ q.resource \in Resources
      /\ q.op = "push_resource"
      /\ q.upload \in DOMAIN uploads /\ q.digest = uploads[q.upload].digest
      /\ q.payload \in Payloads /\ (Own(q.upload) => q.payload = q.digest)
      /\ q.number > 0 /\ q.number \in Nat
  <2>1. q.step = "CreateResourceRevision" /\ At(h, "Idle")
    BY <1>1 DEF CreateResourceRevision, AtResource, ResourcesInv
  <2>2. q.number \in Nat
    BY MaxRevisionAssumption DEF ResourceRequest
  <2> QED BY <1>1, <1>2, <2>1, <2>2 DEF CreateResourceRevision, ResourceInFlight, PushSteps
<1>6. Live(q.id)
  BY <1>2, <1>3, <1>5
     DEF InsertResourceRow, ResourcesInv, IInv, TablesOK, NoOrphanRows, Live
<1>7. 1..(q.number - 1) \subseteq DOMAIN resourceRevisions[q.id][q.resource]
  BY <1>1, <1>5, <1>6 DEF ResourceInFlight
<1>8. /\ q.upload \in Uploads /\ ObjectKey(q.upload) \in DOMAIN blobs
      /\ Own(q.upload) => blobs[q.upload] = q.digest
      /\ q.digest \in Payloads
  BY <1>2, <1>5 DEF TablesOK, ArtifactsStored, UploadsTypeOK, IsTable, UploadRow
<1>9. /\ row \in ResourceRow /\ row.digest = q.digest /\ row.upload = q.upload
      /\ row.oci \/ ObjectKey(row.upload) \in DOMAIN blobs
      /\ Own(row.upload) => ServedContent(row) = row.digest
  <2>1. row = [upload    |-> q.upload,
               oci       |-> oci,
               image     |-> IF oci THEN q.payload ELSE None,
               digest    |-> q.digest,
               platforms |-> platforms]
    BY <1>1, <1>4, <1>5 DEF NewRow
  <2> QED BY <1>5, <1>8, <2>1 DEF ResourceRow, ServedContent, ObjectKey, Own
<1>10. /\ ResourceTablesOK' /\ Keeps
       /\ q.number \in DOMAIN resourceRevisions'[q.id][q.resource]
       /\ resourceRevisions'[q.id][q.resource][q.number] = row
  BY <1>2, <1>3, <1>4, <1>5, <1>7, <1>9, InsertResourceRowKeepsTables
<1>11. IInv'
  BY <1>5, NextKeepsIInv DEF ResourcesInv, vars
<1>12. PICK r : /\ r = [q EXCEPT !.step = "ApproveUpload"]
                /\ resourceReq' = [resourceReq EXCEPT ![h] = r]
  BY <1>1, <1>2 DEF CreateResourceRevision
<1>13. /\ r \in ResourceRequest /\ r.step = "ApproveUpload" /\ r.op = q.op /\ r.id = q.id
       /\ r.resource = q.resource /\ r.upload = q.upload /\ r.digest = q.digest
       /\ r.number = q.number
  BY <1>12 DEF ResourceRequest, ResourceSteps
<1>14. UNCHANGED <<packages, minted, definitions, uploads>>
  BY <1>5 DEF tables
<1>15. q.number \in RevisionNumber /\ (Live(q.id) => q.resource \in definitions[q.id])
  BY <1>3 DEF InsertResourceRow
<1>16. ResourceInFlight(r)'
  BY <1>5, <1>9, <1>10, <1>13, <1>14, <1>15
     DEF ResourceInFlight, Published, PushSteps, UpdateSteps, Live, ResourceOperations
<1> QED BY <1>5, <1>10, <1>11, <1>12, <1>13, <1>16, ResourceStep

\* ApproveUpload: the only statement of a resource request on a table of Publishing.
LEMMA ApproveResourceStep ==
  ASSUME ResourcesInv, NEW h \in Handlers, ApproveResourceUpload(h), UNCHANGED req
  PROVE  ResourcesInv' /\ Keeps
<1>1. PICK q \in ResourceRequest : q = resourceReq[h] /\ ResourceInFlight(q)
  BY DEF ResourcesInv
<1>2. /\ IInv /\ TablesOK /\ ResourceTablesOK /\ resourceReq \in [Handlers -> ResourceRequest]
      /\ minted \subseteq PackageIds
  BY DEF ResourcesInv, IInv, TablesOK, PackagesTypeOK
<1>3. /\ q.step = "ApproveUpload" /\ At(h, "Idle")
      /\ ReviewUploadRow(q.upload, "approved", q.number) /\ UNCHANGED <<resourceRevisions, req>>
  BY <1>1 DEF ApproveResourceUpload, AtResource, ResourcesInv
<1>4. /\ q.id \in minted /\ q.resource \in Resources /\ q.op = "push_resource"
      /\ q.upload \in DOMAIN uploads /\ q.upload \in Uploads
      /\ q.digest = uploads[q.upload].digest
      /\ q.number \in RevisionNumber /\ Published(q.id, q.resource, q.number, q.upload, q.digest)
      /\ Live(q.id) => q.resource \in definitions[q.id]
  BY <1>1, <1>2, <1>3 DEF ResourceInFlight, PushSteps, TablesOK, UploadsTypeOK, IsTable
<1>5. UNCHANGED <<packages, minted, tracks, revisions, releases, definitions, blobs>>
  BY <1>3 DEF ReviewUploadRow
<1>6. /\ DOMAIN uploads' = DOMAIN uploads
      /\ uploads'[q.upload].digest = q.digest /\ uploads'[q.upload].status = "approved"
  BY <1>2, <1>3, <1>4 DEF ReviewUploadRow, TablesOK, UploadsTypeOK, IsTable, UploadRow
<1>7. TablesOK' /\ Grows
  BY <1>2, <1>3, <1>4, ReviewUploadRowKeepsTables, UploadStatementsGrow
<1>8. IInv'
  BY <1>2, <1>3, <1>7, InFlightIsStable DEF IInv
<1>9. TablesGrow
  <2>1. Statement
    BY <1>3, <1>4 DEF Statement, InvisibleStatement
  <2> QED BY <1>2, <2>1, StatementGrows
<1>10. ResourceTablesOK' /\ ContentStays
  BY <1>2, <1>3, <1>5
     DEF ResourceTablesOK, ResourceRowsOK, IsTable, ResourceRevisionsContiguous,
         NoOrphanResources, ResourcesServeTheirHash, ServedContent, ContentStays, SameContent,
         TablesOK, PackagesTypeOK
<1>11. PICK r : /\ r = [q EXCEPT !.step = "Reply"]
                /\ resourceReq' = [resourceReq EXCEPT ![h] = r]
  BY <1>1, <1>2 DEF ApproveResourceUpload
<1>12. /\ r \in ResourceRequest /\ r.step = "Reply" /\ r.op = q.op /\ r.id = q.id
       /\ r.resource = q.resource /\ r.upload = q.upload /\ r.digest = q.digest
       /\ r.number = q.number
  BY <1>11 DEF ResourceRequest, ResourceSteps
<1>13. ResourceInFlight(r)'
  BY <1>3, <1>4, <1>5, <1>6, <1>12
     DEF ResourceInFlight, Published, PushSteps, UpdateSteps, Live, ResourceOperations
<1> QED BY <1>3, <1>8, <1>9, <1>10, <1>11, <1>12, <1>13, ResourceStep DEF Keeps

\* UpdateResourceRevisions: read, write back, and the end of the loop.
LEMMA UpdatesStep ==
  ASSUME ResourcesInv, NEW h \in Handlers, UNCHANGED req,
         GetResourceRevision(h) \/ UpdateResourceRevision(h) \/ EndUpdates(h)
  PROVE  ResourcesInv' /\ Keeps
<1>1. PICK q \in ResourceRequest : q = resourceReq[h] /\ ResourceInFlight(q)
  BY DEF ResourcesInv
<1>2. /\ TablesOK /\ ResourceTablesOK /\ resourceReq \in [Handlers -> ResourceRequest]
      /\ minted \subseteq PackageIds /\ q.left \in 0..MaxUpdates
  BY SMTT(30), ZenonT(60) DEF ResourcesInv, IInv, TablesOK, PackagesTypeOK, ResourceRequest
<1>3. /\ q.step \in UpdateSteps /\ At(h, "Idle") /\ UNCHANGED <<tables, req>>
      /\ q.op = "update_resources" /\ q.id \in minted /\ q.id \in PackageIds
      /\ q.resource \in Resources /\ (Live(q.id) => q.resource \in definitions[q.id])
  <2>1. q.step \in UpdateSteps /\ At(h, "Idle")
    BY SMTT(30), ZenonT(60), <1>1 DEF GetResourceRevision, UpdateResourceRevision, EndUpdates,
                AtResource, UpdateSteps, ResourcesInv
  <2> QED BY SMTT(30), ZenonT(60), <1>1, <1>2, <2>1 DEF ResourceInFlight, UpdateSteps,
                                  GetResourceRevision, UpdateResourceRevision, EndUpdates
<1>4. CASE GetResourceRevision(h)
  <2>a. PICK n \in DOMAIN resourceRevisions[q.id][q.resource], platforms \in Platforms :
          resourceReq' = [resourceReq EXCEPT
            ![h].step = "UpdateResourceRevision", ![h].number = n,
            ![h].item = [resourceRevisions[q.id][q.resource][n] EXCEPT
                           !.platforms = platforms]]
    BY <1>1, <1>4 DEF GetResourceRevision
  <2>b. PICK row : row = [resourceRevisions[q.id][q.resource][n] EXCEPT
                            !.platforms = platforms]
    OBVIOUS
  <2>c. PICK r : r = [q EXCEPT !.step = "UpdateResourceRevision", !.number = n,
                               !.item = row]
    OBVIOUS
  <2>d. resourceReq' = [resourceReq EXCEPT ![h] = r]
    BY <1>1, <1>2, <2>a, <2>b, <2>c DEF ResourceRequest
  <2>1. /\ n \in DOMAIN resourceRevisions[q.id][q.resource] /\ platforms \in Platforms
        /\ row = [resourceRevisions[q.id][q.resource][n] EXCEPT !.platforms = platforms]
        /\ r = [q EXCEPT !.step = "UpdateResourceRevision", !.number = n, !.item = row]
        /\ resourceReq' = [resourceReq EXCEPT ![h] = r]
    BY <2>a, <2>b, <2>c, <2>d
  <2>2. n \in RevisionNumber /\ resourceRevisions[q.id][q.resource][n] \in ResourceRow
    BY <1>2, <1>3, <2>1 DEF ResourceTablesOK, ResourceRowsOK, IsTable
  <2>3. /\ row \in ResourceRow
        /\ resourceRevisions[q.id][q.resource][n].image = row.image
    BY <2>1, <2>2 DEF ResourceRow
  <2>4. n \in 0..(MaxRevision + 1)
    BY <2>2, MaxRevisionAssumption DEF RevisionNumber
  <2>5. /\ r \in ResourceRequest /\ r.step = "UpdateResourceRevision" /\ r.op = q.op
        /\ r.id = q.id /\ r.resource = q.resource /\ r.number = n /\ r.item = row
        /\ r.left = q.left
    BY ZenonT(60), <2>1, <2>3, <2>4 DEF ResourceRequest, ResourceSteps
  <2>6. q.left > 0
    BY <1>1, <1>4 DEF GetResourceRevision
  <2>7. ResourceInFlight(r)
    BY <1>3, <2>1, <2>2, <2>3, <2>5, <2>6
       DEF ResourceInFlight, PushSteps, UpdateSteps, ResourceOperations
  <2> QED BY <1>3, <1>4, <2>1, <2>5, <2>7, ReadStep DEF GetResourceRevision
<1>5. CASE UpdateResourceRevision(h)
  <2>1. /\ UpdateResourceRow(q.id, q.resource, q.number, q.item)
        /\ q.step = "UpdateResourceRevision"
    BY <1>1, <1>5 DEF UpdateResourceRevision, AtResource
  <2>2. q.left > 0 /\ q.item \in ResourceRow
    BY <1>1, <2>1 DEF ResourceInFlight
  <2>3. Live(q.id)
    BY <1>2, <1>3, <2>1
       DEF UpdateResourceRow, ResourceTablesOK, NoOrphanResources, ResourcesInv, IInv,
           TablesOK, NoOrphanRows, Live
  <2>4. q.item.image = resourceRevisions[q.id][q.resource][q.number].image
    BY <1>1, <2>1, <2>3 DEF ResourceInFlight
  <2>5. ResourceTablesOK' /\ Keeps
    BY <1>2, <1>3, <2>1, <2>2, <2>4, UpdateResourceRowKeepsTables
  <2>6. IInv'
    BY <1>3, NextKeepsIInv DEF ResourcesInv, vars
  <2>7. PICK r :
          /\ r = [q EXCEPT !.step = "GetResourceRevision", !.number = 0, !.item = None,
                           !.left = q.left - 1]
          /\ resourceReq' = [resourceReq EXCEPT ![h] = r]
    BY <1>1, <1>2, <1>5 DEF UpdateResourceRevision
  <2>8. q.left - 1 \in 0..MaxUpdates /\ 0 \in 0..(MaxRevision + 1)
    BY <1>2, <2>2, MaxUpdatesAssumption, MaxRevisionAssumption
  <2>9. /\ r \in ResourceRequest /\ r.step = "GetResourceRevision" /\ r.op = q.op
        /\ r.id = q.id /\ r.resource = q.resource
    BY <2>7, <2>8 DEF ResourceRequest, ResourceSteps
  <2>10. UNCHANGED <<packages, minted, definitions>>
    BY <1>3 DEF tables
  <2>11. ResourceInFlight(r)'
    BY <1>3, <2>9, <2>10 DEF ResourceInFlight, PushSteps, UpdateSteps, Live, ResourceOperations
  <2> QED BY <1>3, <2>5, <2>6, <2>7, <2>9, <2>11, ResourceStep
<1>6. CASE EndUpdates(h)
  <2>1. PICK r : /\ r = [q EXCEPT !.step = "Reply"]
                 /\ resourceReq' = [resourceReq EXCEPT ![h] = r]
    BY <1>1, <1>2, <1>6 DEF EndUpdates
  <2>2. /\ r \in ResourceRequest /\ r.step = "Reply" /\ r.op = q.op /\ r.id = q.id
        /\ r.resource = q.resource
    BY <2>1 DEF ResourceRequest, ResourceSteps
  <2>3. ResourceInFlight(r)
    BY <1>3, <2>2 DEF ResourceInFlight, PushSteps, UpdateSteps, ResourceOperations
  <2> QED BY <1>3, <1>6, <2>1, <2>2, <2>3, ReadStep DEF EndUpdates
<1> QED BY <1>4, <1>5, <1>6

-----------------------------------------------------------------------------
(* ResourcesInv is inductive. *)

LEMMA InitResourcesInv == ResourcesInit => ResourcesInv
<1> SUFFICES ASSUME ResourcesInit PROVE ResourcesInv
  OBVIOUS
<1>1. IInv
  BY InitIInv DEF ResourcesInit
<1>2. \A p \in PackageIds : resourceRevisions[p] = NoResourceRows
  BY DEF ResourcesInit, InitResourceTables
<1>3. \A r \in Resources : NoResourceRows[r] = NoRows /\ DOMAIN NoRows = {}
  BY DEF NoResourceRows, NoRows
<1>4. ResourceRowsOK
  BY <1>3 DEF ResourcesInit, InitResourceTables, ResourceRowsOK, NoResourceRows, NoRows, IsTable
<1>5. ResourceRevisionsContiguous
  <2>1. 0 \in 0..MaxRevision /\ DOMAIN NoRows = 1..0
    BY <1>3, MaxRevisionAssumption DEF NoRows
  <2> QED BY <1>2, <1>3, <2>1 DEF ResourceRevisionsContiguous
<1>6. NoOrphanResources /\ ResourcesServeTheirHash
  BY <1>2, <1>3 DEF NoOrphanResources, ResourcesServeTheirHash
<1>7. \A h \in Handlers : resourceReq[h] = NoRequest /\ At(h, "Idle")
  BY IdleIsRequest DEF ResourcesInit, Init, At
<1>8. \A h \in Handlers : ResourceInFlight(resourceReq[h])
  BY <1>7, NoRequestIsRequest
<1> QED BY <1>1, <1>4, <1>5, <1>6, <1>7, <1>8, NoRequestIsRequest
           DEF ResourcesInv, ResourceTablesOK, ResourcesInit

LEMMA NextKeepsResourcesInv ==
  ResourcesInv /\ [ResourcesNext]_resourceVars => ResourcesInv' /\ Keeps
<1> SUFFICES ASSUME ResourcesInv, [ResourcesNext]_resourceVars PROVE ResourcesInv' /\ Keeps
  OBVIOUS
<1>1. CASE UNCHANGED resourceVars
  <2>1. UNCHANGED <<tables, resourceRevisions, req>> /\ UNCHANGED resourceReq
    BY <1>1 DEF resourceVars, vars
  <2>2. IInv' /\ ResourceTablesOK' /\ Keeps
    BY <2>1, ResourceReadsKeepTables
  <2>3. ASSUME NEW h \in Handlers PROVE ResourceInFlight(resourceReq[h])'
    BY <2>1 DEF ResourcesInv, ResourceInFlight, Published, Live, tables
  <2>4. \A h \in Handlers : At(h, "Idle")' \/ AtResource(h, "Idle")'
    BY <2>1 DEF ResourcesInv, At, AtResource
  <2> QED BY <2>1, <2>2, <2>3, <2>4 DEF ResourcesInv
<1>2. ASSUME NEW h \in Handlers, OtherRequest(h) PROVE ResourcesInv' /\ Keeps
  BY <1>2, OtherRequestStep
<1>3. ASSUME NEW h \in Handlers, ResourceRequestStep(h) PROVE ResourcesInv' /\ Keeps
  BY <1>3, ResourceEndStep, PrologueStep, PreparePushResourceStep, CreateResourceStep,
     ApproveResourceStep, UpdatesStep DEF ResourceRequestStep, ProceedResource
<1> QED BY <1>1, <1>2, <1>3 DEF ResourcesNext

-----------------------------------------------------------------------------
(* The theorems. *)

\* What every request still knows of the rows it read, throughout.
THEOREM ResourcesInvariance == ResourcesSpec => []ResourcesInv
BY InitResourcesInv, NextKeepsResourcesInv, PTL DEF ResourcesSpec

\* Rows and requests of both kinds keep their shape beside one another; no number
\* that PushResource computes outgrows the column.
THEOREM ResourcesTypeCorrect == ResourcesSpec => []ResourcesTypeOK
<1>1. ResourcesInv => ResourcesTypeOK
  BY DEF ResourcesInv, IInv, TablesOK, TypeOK, ResourceTablesOK, ResourceRowsOK, ResourcesTypeOK
<1> QED BY <1>1, ResourcesInvariance, PTL

\* The numbers PushResource hands out leave no gap, for any number of concurrent
\* pushes of either kind, updates, deletions and failures.
THEOREM ResourceNumberingIsContiguous == ResourcesSpec => []ResourceRevisionsContiguous
<1>1. ResourcesInv => ResourceRevisionsContiguous
  BY DEF ResourcesInv, ResourceTablesOK
<1> QED BY <1>1, ResourcesInvariance, PTL

\* PushResource under a definition that UnregisterPackage has removed writes nothing.
THEOREM NoResourceOutlivesItsDefinition == ResourcesSpec => []NoOrphanResources
<1>1. ResourcesInv => NoOrphanResources
  BY DEF ResourcesInv, ResourceTablesOK
<1> QED BY <1>1, ResourcesInvariance, PTL

\* DownloadResource serves the content whose hash PushResource recorded, image or file,
\* however often UpdateResourceRevisions writes the row back, unless the file was named
\* ".." and shares its object; an object is there even then.
THEOREM ResourcesAreWhatTheyWere == ResourcesSpec => []ResourcesServeTheirHash
<1>1. ResourcesInv => ResourcesServeTheirHash
  BY DEF ResourcesInv, ResourceTablesOK
<1> QED BY <1>1, ResourcesInvariance, PTL

\* PushResource answers with a revision that is there, with the digest of what was pushed
\* unless its file was named "..", and an upload that is reviewed.
THEOREM PushedResourcesAreThere == ResourcesSpec => []ResourceRepliesAreTrue
<1>1. ResourcesInv => ResourceRepliesAreTrue
  <2> SUFFICES ASSUME ResourcesInv, NEW q \in ResourceRequest, ResourceInFlight(q),
                      q.step = "Reply", q.op = "push_resource", Live(q.id)
               PROVE  /\ q.number \in DOMAIN resourceRevisions[q.id][q.resource]
                      /\ resourceRevisions[q.id][q.resource][q.number].upload = q.upload
                      /\ Own(q.upload) =>
                           ServedContent(resourceRevisions[q.id][q.resource][q.number])
                             = uploads[q.upload].digest
                      /\ uploads[q.upload].status # "pending"
    BY DEF ResourcesInv, ResourceRepliesAreTrue
  <2>1. /\ q.id \in PackageIds /\ q.resource \in Resources
        /\ q.digest = uploads[q.upload].digest /\ uploads[q.upload].status # "pending"
        /\ Published(q.id, q.resource, q.number, q.upload, q.digest)
    BY DEF ResourceInFlight, ResourcesInv, IInv, TablesOK, PackagesTypeOK
  <2> QED BY <2>1 DEF Published, ResourcesInv, ResourceTablesOK, ResourcesServeTheirHash
<1> QED BY <1>1, ResourcesInvariance, PTL

\* UpdateResourceRevisions, which writes back an image it read in another statement,
\* never changes what a revision contains.
THEOREM ResourceContentStays == ResourcesSpec => ResourceContentImmutable
<1> DEFINE Same ==
  \A p \in DOMAIN packages \cap DOMAIN packages', r \in Resources :
    \A n \in DOMAIN resourceRevisions[p][r] :
      /\ n \in DOMAIN resourceRevisions'[p][r]
      /\ [resourceRevisions'[p][r][n] EXCEPT !.platforms = 0]
           = [resourceRevisions[p][r][n] EXCEPT !.platforms = 0]
<1>1. ResourcesInv /\ [ResourcesNext]_resourceVars => [Same]_resourceVars
  <2> SUFFICES ASSUME ResourcesInv, ResourcesInv', Keeps,
                      NEW p \in DOMAIN packages \cap DOMAIN packages', NEW r \in Resources,
                      NEW n \in DOMAIN resourceRevisions[p][r]
               PROVE  /\ n \in DOMAIN resourceRevisions'[p][r]
                      /\ [resourceRevisions'[p][r][n] EXCEPT !.platforms = 0]
                           = [resourceRevisions[p][r][n] EXCEPT !.platforms = 0]
    BY NextKeepsResourcesInv
  <2>1. p \in minted /\ p \in PackageIds
    BY DEF ResourcesInv, IInv, TablesOK, PackagesTypeOK, IsTable
  <2>2. PICK old, new : old = resourceRevisions[p][r][n] /\ new = resourceRevisions'[p][r][n]
    OBVIOUS
  <2>3. /\ n \in DOMAIN resourceRevisions'[p][r]
        /\ SameContent(old, new)
    BY <2>1, <2>2 DEF Keeps, ContentStays
  <2>4. old \in ResourceRow /\ new \in ResourceRow
    BY <2>1, <2>2, <2>3 DEF ResourcesInv, ResourceTablesOK, ResourceRowsOK, IsTable
  <2>5. [new EXCEPT !.platforms = 0] = [old EXCEPT !.platforms = 0]
    BY <2>3, <2>4 DEF ResourceRow, SameContent
  <2> QED BY <2>2, <2>3, <2>5
<1> QED BY <1>1, ResourcesInvariance, PTL DEF ResourcesSpec, ResourceContentImmutable

-----------------------------------------------------------------------------
(* The revisions of charms, beside the requests for resources. *)

\* Resource requests that approve uploads and write rows under a package leave the
\* numbering of PushRevision alone: it stays without a gap.
THEOREM NumberingSurvivesResources == ResourcesSpec => []RevisionsContiguous
<1>1. ResourcesInv => RevisionsContiguous
  BY DEF ResourcesInv, IInv, TablesOK
<1> QED BY <1>1, ResourcesInvariance, PTL

\* A push that hits UNIQUE(package_id, revision) lost a race to another push, never
\* to a resource request.
THEOREM ConflictsAreRacesBesideResources == ResourcesSpec => []NumberWasNext
<1>1. ResourcesInv => NumberWasNext
  BY NumbersAreNext DEF ResourcesInv
<1> QED BY <1>1, ResourcesInvariance, PTL

\* Resource requests write no package, no revision and no release of a charm.
LEMMA ResourceRequestsLeaveCatalog ==
  ASSUME NEW h \in Handlers, ResourceRequestStep(h)
  PROVE  UNCHANGED <<packages, minted, revisions, releases>>
BY DEF ResourceRequestStep, FindPackage, ProceedResource, FailResource, MayManage,
       GetResourceDefinition, GetResourceUpload, GetResourceBlob, ListResourceRevisions,
       CreateResourceRevision, ApproveResourceUpload, ReviewUploadRow, GetResourceRevision,
       UpdateResourceRevision, EndUpdates, ResourceReply, tables

\* No request of either kind rewrites a revision that was published.
THEOREM RevisionsSurviveResources == ResourcesSpec => RevisionsImmutable
<1>1. ResourcesInv /\ [ResourcesNext]_resourceVars => [RevisionsKept]_resourceVars
  <2> SUFFICES ASSUME ResourcesInv, ResourcesNext PROVE RevisionsKept
    OBVIOUS
  <2>1. DOMAIN revisions = PackageIds
    BY DEF ResourcesInv, IInv, TablesOK, RevisionsTypeOK
  <2>2. CASE \E h \in Handlers : OtherRequest(h)
    <3>1. IInv /\ Next
      BY <2>2 DEF ResourcesInv, OtherRequest, Next
    <3> QED BY <3>1, StepKeepsRevisions
  <2>3. ASSUME NEW h \in Handlers, ResourceRequestStep(h) PROVE revisions' = revisions
    BY <2>3, ResourceRequestsLeaveCatalog
  <2>4. revisions' = revisions => RevisionsKept
    BY DEF RevisionsKept
  <2> QED BY <2>2, <2>3, <2>4 DEF ResourcesNext
<1>2. [RevisionsKept]_resourceVars => [RevisionsKept]_vars
  BY DEF resourceVars, vars, RevisionsKept
<1> QED BY <1>1, <1>2, ResourcesInvariance, PTL
        DEF ResourcesSpec, RevisionsImmutable, RevisionsKept

=============================================================================
