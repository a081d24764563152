----------------------------- MODULE Resources ------------------------------
(***************************************************************************)
(* internal/service/resources.go: PushResource and UpdateResourceRevisions *)
(* beside all the requests of Publishing.  The two kinds of requests share *)
(* the resource definitions, which charm pushes write, and the uploads,    *)
(* whose one review both kinds of pushes write.  A handler serves one      *)
(* request at a time; resourceReq[h] is the local state of a resource      *)
(* request, req[h] that of any other.                                      *)
(***************************************************************************)
EXTENDS Publishing, ResourceTables

CONSTANTS
  ServedResources,  \* the resource operations clients ask for
  MaxUpdates        \* bound: the items of one UpdateResourceRevisions request

ResourceOperations == {"push_resource", "update_resources"}

ASSUME ServedResourcesAssumption == ServedResources \subseteq ResourceOperations
ASSUME MaxUpdatesAssumption == MaxUpdates \in Nat

VARIABLE resourceReq

resourceVars == <<vars, resourceRevisions, resourceReq>>

ResourceSteps ==
  {"Idle", "CanManagePackage", "GetResourceDefinition", "GetUpload", "GetBlob",
   "ListResourceRevisions", "CreateResourceRevision", "ApproveUpload",
   "GetResourceRevision", "UpdateResourceRevision", "Reply"}

ResourceRequest ==
  [step     : ResourceSteps,
   op       : ResourceOperations \cup {"none"},
   id       : PackageIds \cup {None},     \* pkg.ID
   resource : Resources \cup {None},      \* resourceDef, by its name
   upload   : Uploads \cup {None},        \* upload.ID
   digest   : Payloads \cup {None},       \* upload.SHA256
   payload  : Payloads \cup {None},       \* what blobs.Get returned
   number   : 0..(MaxRevision + 1),       \* revisionNumber, or update.Revision
   item     : ResourceRow \cup {None},    \* the row to write back
   left     : 0..MaxUpdates]              \* updates not applied yet

NoRequest ==
  [step |-> "Idle", op |-> "none", id |-> None, resource |-> None, upload |-> None,
   digest |-> None, payload |-> None, number |-> 0, item |-> None, left |-> 0]

AtResource(h, step) == resourceReq[h].step = step
FinishResource(h) == resourceReq' = [resourceReq EXCEPT ![h] = NoRequest]

ResourcesInit == Init /\ InitResourceTables /\ resourceReq = [h \in Handlers |-> NoRequest]

-----------------------------------------------------------------------------
(* The prologue of both methods. *)

\* repo.GetPackageByName.
FindPackage(h) ==
  /\ AtResource(h, "Idle") /\ At(h, "Idle")
  /\ \E op \in ServedResources, p \in DOMAIN packages :
       resourceReq' = [resourceReq EXCEPT ![h] =
         [NoRequest EXCEPT !.step = "CanManagePackage", !.op = op, !.id = p]]
  /\ UNCHANGED <<tables, resourceRevisions>>

\* requirePackageManage said yes.
MayManage(h) ==
  /\ AtResource(h, "CanManagePackage")
  /\ Live(resourceReq[h].id)
  /\ resourceReq' = [resourceReq EXCEPT ![h].step = "GetResourceDefinition"]
  /\ UNCHANGED <<tables, resourceRevisions>>

\* repo.GetResourceDefinition, and the number of updates the request carries.
GetResourceDefinition(h) ==
  /\ AtResource(h, "GetResourceDefinition")
  /\ \E r \in definitions[resourceReq[h].id] :
       \/ /\ resourceReq[h].op = "push_resource"
          /\ resourceReq' = [resourceReq EXCEPT ![h].step = "GetUpload", ![h].resource = r]
       \/ /\ resourceReq[h].op = "update_resources"
          /\ \E n \in 0..MaxUpdates :
               resourceReq' = [resourceReq EXCEPT
                 ![h].step = "GetResourceRevision", ![h].resource = r, ![h].left = n]
  /\ UNCHANGED <<tables, resourceRevisions>>

-----------------------------------------------------------------------------
(* PushResource. *)

\* repo.GetUpload: whatever the upload was made for and whatever its status is.
GetResourceUpload(h) ==
  /\ AtResource(h, "GetUpload")
  /\ \E u \in DOMAIN uploads :
       resourceReq' = [resourceReq EXCEPT
         ![h].step = "GetBlob", ![h].upload = u, ![h].digest = uploads[u].digest]
  /\ UNCHANGED <<tables, resourceRevisions>>

\* blobs.Get: any payload is good for a resource.
GetResourceBlob(h) ==
  /\ AtResource(h, "GetBlob")
  /\ ObjectKey(resourceReq[h].upload) \in DOMAIN blobs
  /\ resourceReq' = [resourceReq EXCEPT
       ![h].step = "ListResourceRevisions",
       ![h].payload = blobs[ObjectKey(resourceReq[h].upload)]]
  /\ UNCHANGED <<tables, resourceRevisions>>

\* A slip: the number skips one.
ListResourceRevisionsSkipping(h) ==
  /\ AtResource(h, "ListResourceRevisions")
  /\ resourceReq' = [resourceReq EXCEPT
       ![h].step = "CreateResourceRevision",
       ![h].number = NextResourceRevision(resourceReq[h].id, resourceReq[h].resource) + 1]
  /\ UNCHANGED <<tables, resourceRevisions>>

\* repo.ListResourceRevisions and the number that comes next.
ListResourceRevisions(h) ==
  /\ AtResource(h, "ListResourceRevisions")
  /\ resourceReq' = [resourceReq EXCEPT
       ![h].step = "CreateResourceRevision",
       ![h].number = NextResourceRevision(resourceReq[h].id, resourceReq[h].resource)]
  /\ UNCHANGED <<tables, resourceRevisions>>

\* A slip: an OCI image drops the object key and keeps no copy of the payload.
NewRowWithoutImage(h, oci, platforms) ==
  [upload    |-> resourceReq[h].upload,
   oci       |-> oci,
   image     |-> None,
   digest    |-> resourceReq[h].digest,
   platforms |-> platforms]

\* The row PushResource builds.
NewRow(h, oci, platforms) ==
  [upload    |-> resourceReq[h].upload,
   oci       |-> oci,
   image     |-> IF oci THEN resourceReq[h].payload ELSE None,
   digest    |-> resourceReq[h].digest,
   platforms |-> platforms]

\* repo.CreateResourceRevision.  The type is the request's or the definition's,
\* bases and architectures are the request's.
CreateResourceRevision(h) ==
  /\ AtResource(h, "CreateResourceRevision")
  /\ \E oci \in BOOLEAN, platforms \in Platforms :
       InsertResourceRow(resourceReq[h].id, resourceReq[h].resource, resourceReq[h].number,
                         NewRow(h, oci, platforms))
  /\ resourceReq' = [resourceReq EXCEPT ![h].step = "ApproveUpload"]
  /\ UNCHANGED tables

\* A slip: the approval comes first and a failing insert leaves it behind.
ApproveResourceUploadUnasked(h) ==
  /\ resourceReq[h].step \in {"CreateResourceRevision", "ApproveUpload"}
  /\ ReviewUploadRow(resourceReq[h].upload, "approved", resourceReq[h].number)
  /\ resourceReq' = [resourceReq EXCEPT ![h].step =
       IF @ = "ApproveUpload" THEN "Reply" ELSE @]
  /\ UNCHANGED resourceRevisions

\* repo.ApproveUpload: the review an upload got as a charm is overwritten.
ApproveResourceUpload(h) ==
  /\ AtResource(h, "ApproveUpload")
  /\ ReviewUploadRow(resourceReq[h].upload, "approved", resourceReq[h].number)
  /\ resourceReq' = [resourceReq EXCEPT ![h].step = "Reply"]
  /\ UNCHANGED resourceRevisions

-----------------------------------------------------------------------------
(* UpdateResourceRevisions. *)

\* repo.GetResourceRevision of the next update; the copy gets the new platforms.
GetResourceRevision(h) ==
  LET rows == resourceRevisions[resourceReq[h].id][resourceReq[h].resource] IN
  /\ AtResource(h, "GetResourceRevision")
  /\ resourceReq[h].left > 0
  /\ \E n \in DOMAIN rows, platforms \in Platforms :
       resourceReq' = [resourceReq EXCEPT
         ![h].step = "UpdateResourceRevision", ![h].number = n,
         ![h].item = [rows[n] EXCEPT !.platforms = platforms]]
  /\ UNCHANGED <<tables, resourceRevisions>>

\* A slip: the update goes to the row of the newest revision.
UpdateResourceRevisionNewest(h) ==
  /\ AtResource(h, "UpdateResourceRevision")
  /\ UpdateResourceRow(resourceReq[h].id, resourceReq[h].resource,
       NextResourceRevision(resourceReq[h].id, resourceReq[h].resource) - 1, resourceReq[h].item)
  /\ resourceReq' = [resourceReq EXCEPT
       ![h].step = "GetResourceRevision", ![h].number = 0, ![h].item = None, ![h].left = @ - 1]
  /\ UNCHANGED tables

\* A slip: the update is not consumed and the loop comes back to it.
UpdateResourceRevisionForever(h) ==
  /\ AtResource(h, "UpdateResourceRevision")
  /\ UpdateResourceRow(resourceReq[h].id, resourceReq[h].resource, resourceReq[h].number,
                       resourceReq[h].item)
  /\ resourceReq' = [resourceReq EXCEPT
       ![h].step = "GetResourceRevision", ![h].number = 0, ![h].item = None]
  /\ UNCHANGED tables

\* repo.UpdateResourceRevision.
UpdateResourceRevision(h) ==
  /\ AtResource(h, "UpdateResourceRevision")
  /\ UpdateResourceRow(resourceReq[h].id, resourceReq[h].resource, resourceReq[h].number,
                       resourceReq[h].item)
  /\ resourceReq' = [resourceReq EXCEPT
       ![h].step = "GetResourceRevision", ![h].number = 0, ![h].item = None, ![h].left = @ - 1]
  /\ UNCHANGED tables

\* The loop of UpdateResourceRevisions is over.
EndUpdates(h) ==
  /\ AtResource(h, "GetResourceRevision")
  /\ resourceReq[h].left = 0
  /\ resourceReq' = [resourceReq EXCEPT ![h].step = "Reply"]
  /\ UNCHANGED <<tables, resourceRevisions>>

-----------------------------------------------------------------------------
\* The method returns without an error.
ResourceReply(h) ==
  /\ AtResource(h, "Reply")
  /\ FinishResource(h)
  /\ UNCHANGED <<tables, resourceRevisions>>

\* The next call returns an error, or the process dies: nothing is undone.
FailResource(h) ==
  /\ ~AtResource(h, "Idle")
  /\ FinishResource(h)
  /\ UNCHANGED <<tables, resourceRevisions>>

ProceedResource(h) ==
  \/ MayManage(h) \/ GetResourceDefinition(h)
  \/ GetResourceUpload(h) \/ GetResourceBlob(h) \/ ListResourceRevisions(h)
  \/ CreateResourceRevision(h) \/ ApproveResourceUpload(h)
  \/ GetResourceRevision(h) \/ UpdateResourceRevision(h) \/ EndUpdates(h)
  \/ ResourceReply(h)

\* A request of Publishing; the cascade of a deletion reaches the resources.
OtherRequest(h) ==
  /\ AtResource(h, "Idle")
  /\ Accept(h) \/ Proceed(h) \/ Fail(h)
  /\ CascadeToResources
  /\ UNCHANGED resourceReq

ResourceRequestStep(h) ==
  /\ FindPackage(h) \/ ProceedResource(h) \/ FailResource(h)
  /\ UNCHANGED req

ResourcesNext == \E h \in Handlers : OtherRequest(h) \/ ResourceRequestStep(h)

ResourcesSpec == ResourcesInit /\ [][ResourcesNext]_resourceVars

\* A call of a request, of either kind, comes back with a result or with an error.
ResourcesFairSpec ==
  ResourcesSpec /\ \A h \in Handlers :
    /\ WF_resourceVars((ProceedResource(h) \/ FailResource(h)) /\ UNCHANGED req)
    /\ WF_resourceVars((Proceed(h) \/ Fail(h)) /\ CascadeToResources /\ UNCHANGED resourceReq)

-----------------------------------------------------------------------------
(***************************************************************************)
(* Properties.                                                             *)
(***************************************************************************)

\* The tables and the requests of both kinds keep their shape, and a handler
\* serves one request at a time.
ResourcesTypeOK ==
  /\ TypeOK
  /\ DOMAIN resourceRevisions = PackageIds
  /\ \A p \in PackageIds :
       /\ DOMAIN resourceRevisions[p] = Resources
       /\ \A r \in Resources : IsTable(resourceRevisions[p][r], RevisionNumber, ResourceRow)
  /\ resourceReq \in [Handlers -> ResourceRequest]
  /\ \A h \in Handlers : At(h, "Idle") \/ AtResource(h, "Idle")

\* The revisions of a resource are numbered 1, 2, 3, ... without a gap, although
\* PushResource lists them in one statement and inserts in another.
ResourceRevisionsContiguous ==
  \A p \in PackageIds, r \in Resources :
    \E n \in 0..MaxRevision : DOMAIN resourceRevisions[p][r] = 1..n

\* Resource revisions hang off a definition of a package that is there: a push
\* that still holds the id of a deleted definition writes nothing.
NoOrphanResources ==
  \A p \in PackageIds, r \in Resources :
    r \notin definitions[p] => DOMAIN resourceRevisions[p][r] = {}

\* DownloadResource serves what the hashes of the revision advertise, be it a
\* file in the object store or an image kept in the row.  Of a file that was named
\* ".." there is an object, but it may be that of a later upload of this name.
ResourcesServeTheirHash ==
  \A p \in PackageIds, r \in Resources : \A n \in DOMAIN resourceRevisions[p][r] :
    LET row == resourceRevisions[p][r][n] IN
    /\ row.oci \/ ObjectKey(row.upload) \in DOMAIN blobs
    /\ Own(row.upload) => ServedContent(row) = row.digest

\* The row of a resource revision stays as it was pushed while its package lives: an
\* update that writes back a row it read earlier changes the platforms only, and
\* never brings back what another request has replaced.
ResourceContentImmutable ==
  [][\A p \in DOMAIN packages \cap DOMAIN packages', r \in Resources :
       \A n \in DOMAIN resourceRevisions[p][r] :
         /\ n \in DOMAIN resourceRevisions'[p][r]
         /\ [resourceRevisions'[p][r][n] EXCEPT !.platforms = 0]
              = [resourceRevisions[p][r][n] EXCEPT !.platforms = 0]]_resourceVars

\* Charm pushes and resource pushes write the one review of an upload.  Whichever
\* wrote last, an approved upload is published under the number the review says,
\* as a charm or as a resource, unless a package has been unregistered since.
ReviewNamesARevision ==
  minted = DOMAIN packages => \A u \in DOMAIN uploads : uploads[u].status = "approved" =>
    \E p \in DOMAIN packages :
      LET n == uploads[u].revision IN
      \/ n \in DOMAIN revisions[p] /\ revisions[p][n].upload = u
      \/ \E r \in definitions[p] :
           /\ n \in DOMAIN resourceRevisions[p][r]
           /\ resourceRevisions[p][r][n].upload = u

\* PushResource is about to answer 200: the revision is there with the pushed
\* upload and its content, and the review of the upload has been given, if the
\* package lives.  (The object of an upload named ".." may be another's by then.)
ResourceRepliesAreTrue ==
  \A h \in Handlers : LET q == resourceReq[h] IN
    q.step = "Reply" /\ q.op = "push_resource" /\ Live(q.id) =>
      /\ q.number \in DOMAIN resourceRevisions[q.id][q.resource]
      /\ resourceRevisions[q.id][q.resource][q.number].upload = q.upload
      /\ Own(q.upload) =>
           ServedContent(resourceRevisions[q.id][q.resource][q.number]) = uploads[q.upload].digest
      /\ uploads[q.upload].status # "pending"

\* Every resource request comes to an end.
ResourceRequestsEnd == \A h \in Handlers : ~AtResource(h, "Idle") ~> AtResource(h, "Idle")

\* Every request ends, of either kind, whatever the others do to its package: the
\* loops over releases, tracks, resources and updates consume what they work on.
EveryRequestEnds == RequestsEnd /\ ResourceRequestsEnd

=============================================================================
