------------------------------ MODULE Registry ------------------------------
(***************************************************************************)
(* The whole service: the handlers of Publishing and Resources beside the  *)
(* consumer requests and the clients of Consumer and Downloads, all on the *)
(* same tables.  In Consumer a publisher is a set of statements; here it   *)
(* is the handlers themselves, with what they read some calls ago.         *)
(*                                                                         *)
(* The two columns that only readers look at get their writers: the        *)
(* resources of a release (ReplaceRelease), and the default track, which   *)
(* is a column of the package like "private" and travels in the same copy  *)
(* of the row.                                                             *)
(***************************************************************************)
EXTENDS Downloads, Resources

VARIABLE copied  \* copied[h]: default_track in the copy of the package that h works on

registryVars == <<resourceVars, refs, defaults, copied, read, client>>

RegistryInit ==
  /\ ResourcesInit
  /\ DownloadsInit
  /\ copied = [h \in Handlers |-> None]

-----------------------------------------------------------------------------
(* Handlers.  Each action is the one of Publishing with what its call does *)
(* to the columns and to the copy.                                         *)

\* RegisterPackage: the default track is "latest" from the start.
RegisterWithDefaultTrack(h) ==
  /\ CreatePackage(h)
  /\ defaults' = [defaults EXCEPT ![req'[h].id] = LatestTrack]
  /\ UNCHANGED <<refs, copied>>

\* repo.GetPackageByName reads the whole row.
CopyDefaultTrack(h) ==
  /\ GetPackageByName(h)
  /\ copied' = [copied EXCEPT ![h] = defaults[req'[h].id]]
  /\ UNCHANGED <<refs, defaults>>

\* A PATCH may set the default track, to any string, in the copy.
PatchDefaultTrack(h) ==
  /\ RequirePackageManage(h)
  /\ \/ UNCHANGED copied
     \/ req[h].op = "patch" /\ \E t \in Tracks : copied' = [copied EXCEPT ![h] = t]
  /\ UNCHANGED <<refs, defaults>>

\* repo.UpdatePackage, of a PATCH and at the end of a push or a release: the copy.
WriteDefaultTrack(h) ==
  /\ UpdatePackage(h) \/ PublishPackage(h)
  /\ defaults' = [defaults EXCEPT ![req[h].id] = copied[h]]
  /\ UNCHANGED <<refs, copied>>

\* repo.ReplaceRelease: the resources are those of the request, which nothing checks.
ReplaceReferences(h) ==
  /\ ReplaceRelease(h)
  /\ \E c \in Channels, f \in References :
       /\ UpsertReleaseRow(req[h].id, c, req[h].number)
       /\ refs' = [refs EXCEPT ![req[h].id] = WithRow(@, c, f)]
  /\ UNCHANGED <<defaults, copied>>

\* repo.DeletePackage: the columns go with their rows.
DropColumns(h) ==
  /\ DeletePackage(h)
  /\ refs' = [refs EXCEPT ![req[h].id] = NoRows]
  /\ defaults' = [defaults EXCEPT ![req[h].id] = None]
  /\ UNCHANGED copied

\* The calls that touch neither column.
LeaveColumns(h) ==
  /\ \/ PutBlob(h) \/ InsertTrack(h) \/ ListRevisions(h) \/ CreateUpload(h)
     \/ GetUpload(h) \/ GetBlob(h) \/ RejectUpload(h) \/ GetLatestRevision(h)
     \/ CreateRevision(h) \/ ApproveUpload(h) \/ UpsertResourceDefinition(h)
     \/ GetRevisionByNumber(h) \/ EndBatch(h) \/ Reply(h) \/ Fail(h)
  /\ UNCHANGED <<refs, defaults, copied>>

\* A handler serves one request at a time, of either kind.
PackageRequest(h) ==
  /\ AtResource(h, "Idle")
  /\ \/ RegisterWithDefaultTrack(h) \/ CopyDefaultTrack(h) \/ PatchDefaultTrack(h)
     \/ WriteDefaultTrack(h) \/ ReplaceReferences(h) \/ DropColumns(h) \/ LeaveColumns(h)
  /\ CascadeToResources
  /\ UNCHANGED resourceReq

Handles(h) ==
  /\ \/ PackageRequest(h)
     \/ ResourceRequestStep(h) /\ UNCHANGED <<refs, defaults, copied>>
  /\ UNCHANGED <<read, client>>

-----------------------------------------------------------------------------
\* A consumer request or a client moves; no handler and no table does.
Consumes(h) ==
  /\ \/ AtClient(h, "Idle") /\ Reader(h) /\ UNCHANGED client
     \/ Client(h)
  /\ UNCHANGED <<req, resourceReq, copied>>

RegistryNext == (\E h \in Handlers : Handles(h)) \/ (\E h \in Readers : Consumes(h))

RegistrySpec == RegistryInit /\ [][RegistryNext]_registryVars

=============================================================================
