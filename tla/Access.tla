------------------------------- MODULE Access -------------------------------
(***************************************************************************)
(* Who may do what (internal/service/helpers.go, Postgres.canAccess).      *)
(* This module puts the authorization in front of the publisher requests   *)
(* of Publishing and adds the requests that only view a package: a step    *)
(* here is a step of Publishing under the guard of its authorization, or   *)
(* one of the statements that the authorization reads.                     *)
(*                                                                         *)
(* The verdict on a request is put together from the copy of the package   *)
(* that it read first, from its token, which is read at authentication,    *)
(* and from up to two more statements, while PATCH requests change the     *)
(* visibility and administrators change roles and groups.  No code writes  *)
(* package_acl and account_group_members: administrators do, by hand.      *)
(***************************************************************************)
EXTENDS Publishing

CONSTANTS
  Accounts, Groups,
  Identities,  \* core.Identity: an account, or None, and a token, or None
  Viewers,     \* the view requests in flight at a time
  Grants,      \* bound: the rows that administrators insert into package_acl
  Memberships  \* bound: the rows that they insert into account_group_members

\* A token is its permissions, its packages by id or by name, and its channels.
ASSUME IdentitiesAssumption ==
  \A i \in Identities : i.account \in Accounts \cup {None} /\ (i.token # None => i.account # None)

\* package_id is a foreign key.  The columns principal_type, principal_id and role are
\* free text: a row may name a role or a principal that no query knows.
ASSUME GrantsAssumption == \A row \in Grants : row.package \in PackageIds

ASSUME MembershipsAssumption == Memberships \subseteq Groups \X Accounts
ASSUME ActorsAssumption == Handlers \cap Viewers = {}
ASSUME NobodyAssumption == None \notin Accounts

VARIABLES
  owner,    \* owner[p]: packages.owner_account_id
  acl,      \* package_acl
  members,  \* account_group_members: pairs of a group and an account
  judge,    \* judge[a]: the authorization of request a
  seen      \* history: what a request was entitled to since it read the package

Actors == Handlers \cup Viewers
rights == <<owner, acl, members>>
accessVars == <<vars, rights, judge, seen>>

Nobody == [step |-> "Idle", op |-> "none", identity |-> None, permission |-> None,
           id |-> None, name |-> None]
Unseen == [ever |-> FALSE, grounds |-> {}]

AccessInit ==
  /\ Init
  /\ owner = [p \in PackageIds |-> None] /\ acl = {} /\ members = {}
  /\ judge = [a \in Actors |-> Nobody]
  /\ seen = [a \in Actors |-> Unseen]

-----------------------------------------------------------------------------
(* The token. *)

\* The permission that each operation on a package asks for.
Permission(op) ==
  CASE op \in {"patch", "tracks"} -> "package-manage-metadata"
    [] op = "unregister"          -> "package-manage"
    [] op = "release"             -> "package-manage-releases"
    [] op = "push"                -> "package-manage-revisions"

\* The permissions that begin with "package-".
PackagePermissions ==
  {"package-manage", "package-manage-metadata", "package-manage-releases",
   "package-manage-revisions", "package-view"}

ASSUME PermissionsAssumption == None \notin PackagePermissions

\* No token, or a token without a list, grants everything its account may do.
requirePermission(identity, permission) ==
  /\ identity.account # None
  /\ \/ identity.token = None
     \/ identity.token.permissions = {}
     \/ permission \in identity.token.permissions
     \/ "package-manage" \in identity.token.permissions /\ permission \in PackagePermissions

tokenAllowsPackage(identity, p, name) ==
  \/ identity.token = None
  \/ identity.token.packages = {}
  \/ {p, name} \cap identity.token.packages # {}

\* A slip: a list of channels is taken for a list of suggestions.
AllowAnyChannel(identity, c) == TRUE

enforceChannelRestriction(identity, c) ==
  \/ identity.token = None
  \/ identity.token.channels = {}
  \/ c \in identity.token.channels

-----------------------------------------------------------------------------
(* The statements of Postgres on roles. *)

\* package_acl LEFT JOIN account_group_members: an entry for a group is joined with
\* its members, any other entry, and that of an empty group, with NULL.
AclJoinMembers ==
  UNION {LET M == {m \in members : row.type = "group" /\ m[1] = row.principal} IN
         IF M = {} THEN {<<row, None>>} ELSE {<<row, m[2]>> : m \in M} : row \in acl}

\* A slip: entries of groups are forgotten.
ConcernsDirectly(pair, account) ==
  pair[1].type = "account" /\ pair[1].principal = account

Concerns(pair, account) ==
  \/ pair[1].type = "account" /\ pair[1].principal = account
  \/ pair[2] = account

RolesFor(op) ==
  IF op = "manage" THEN {"editor", "owner"} ELSE {"viewer", "editor", "owner"}

ExistsRole(p, account, op) ==
  \E pair \in AclJoinMembers :
    pair[1].package = p /\ pair[1].role \in RolesFor(op) /\ Concerns(pair, account)

-----------------------------------------------------------------------------
(* What a request is entitled to, for the history. *)

Principals(account) ==
  {<<"account", account>>} \cup {<<"group", m[1]>> : m \in {n \in members : n[2] = account}}

\* The grounds on which the account of the request may do what it is about to do.
Grounds(j) ==
  {g \in {"public", "owner", "role"} :
     /\ Live(j.id)
     /\ \/ g = "public" /\ j.op = "view" /\ ~packages[j.id].private
        \/ g = "owner" /\ j.identity.account # None /\ owner[j.id] = j.identity.account
        \/ g = "role" /\ j.identity.account # None /\ \E row \in acl :
             /\ row.package = j.id /\ row.role \in RolesFor(j.op)
             /\ <<row.type, row.principal>> \in Principals(j.identity.account)}

\* The limits of the token: what is public is not limited to packages, and an
\* anonymous view needs no permission.
InScope(j, ground) ==
  /\ \/ j.permission = None
     \/ j.op = "view" /\ j.identity.account = None
     \/ requirePermission(j.identity, j.permission)
  /\ ground = "public" \/ tokenAllowsPackage(j.identity, j.id, j.name)

Watch ==
  seen' = [a \in Actors |->
    IF judge'[a].op \notin {"view", "manage"} THEN Unseen
    ELSE LET now == {g \in Grounds(judge[a])' : InScope(judge'[a], g)} IN
         IF judge[a] = Nobody THEN [ever |-> now # {}, grounds |-> now]
         ELSE [ever |-> seen[a].ever \/ now # {}, grounds |-> seen[a].grounds \cap now]]

-----------------------------------------------------------------------------
(* The authorization of a request. *)

\* The package is read; the token is looked at before the roles.
GetPackageToManage(h) ==
  /\ GetPackageByName(h)
  /\ \E identity \in Identities :
       LET q == req'[h] permission == Permission(q.op) IN
       judge' = [judge EXCEPT ![h] =
         [step |-> IF requirePermission(identity, permission) THEN "GetPackageOwner" ELSE "Refused",
          op |-> "manage", identity |-> identity, permission |-> permission,
          id |-> q.id, name |-> q.pkg.name]]
  /\ UNCHANGED rights

\* requirePackageView of the copy that was read, with or without a permission.
GetPackageToView(v) ==
  /\ judge[v] = Nobody
  /\ \E p \in DOMAIN packages, identity \in Identities, permission \in {"package-view", None} :
       judge' = [judge EXCEPT ![v] =
         [step |-> CASE packages[p].private /\ identity.account # None -> "GetPackageOwner"
                     [] ~packages[p].private /\ (\/ permission = None
                                                 \/ identity.account = None
                                                 \/ requirePermission(identity, permission)) -> "Allowed"
                     [] OTHER -> "Refused",
          op |-> "view", identity |-> identity, permission |-> permission,
          id |-> p, name |-> packages[p].name]]
  /\ UNCHANGED <<vars, rights>>

\* canAccess returned: the token's packages are next, and then, for a view, its
\* permissions.  A publisher request that is allowed goes on at once.
Judged(a, allowed) ==
  LET j == judge[a]
      granted == /\ allowed
                 /\ tokenAllowsPackage(j.identity, j.id, j.name)
                 /\ j.permission # None => requirePermission(j.identity, j.permission) IN
  /\ judge' = [judge EXCEPT ![a].step = IF granted THEN "Allowed" ELSE "Refused"]
  /\ IF granted /\ a \in Handlers THEN RequirePackageManage(a) ELSE UNCHANGED vars
  /\ UNCHANGED rights

\* A slip: a public package is anybody's to manage.
PublicForAnyUse(p, op) == ~packages[p].private

PublicForUse(p, op) == op = "view" /\ ~packages[p].private

\* canAccess, first statement: SELECT private, owner_account_id.
GetPackageOwner(a) ==
  LET j == judge[a] IN
  /\ j.step = "GetPackageOwner" /\ Live(j.id)
  /\ IF PublicForUse(j.id, j.op) \/ owner[j.id] = j.identity.account
     THEN Judged(a, TRUE)
     ELSE judge' = [judge EXCEPT ![a].step = "CanAccess"] /\ UNCHANGED <<vars, rights>>

\* canAccess, second statement: SELECT EXISTS.
CanAccess(a) ==
  LET j == judge[a] IN
  /\ j.step = "CanAccess"
  /\ Judged(a, ExistsRole(j.id, j.identity.account, j.op))

\* A view is answered, refused, or fails for want of a row or of the store.
EndView(v) ==
  /\ judge[v] # Nobody
  /\ judge' = [judge EXCEPT ![v] = Nobody]
  /\ UNCHANGED <<vars, rights>>

-----------------------------------------------------------------------------
(* Publisher requests under their authorization. *)

Ended(h) == judge' = [judge EXCEPT ![h] = IF req'[h] = Idle THEN Nobody ELSE @]

\* RegisterPackage: the account becomes the owner.
Register(h) ==
  /\ CreatePackage(h)
  /\ \E identity \in {i \in Identities : requirePermission(i, "account-register-package")} :
       /\ owner' = [owner EXCEPT ![req'[h].id] = identity.account]
       /\ judge' = [judge EXCEPT ![h] =
            [Nobody EXCEPT !.step = "Allowed", !.op = "register", !.identity = identity]]
  /\ UNCHANGED <<acl, members>>

\* Release, one item: the channel is checked after the revision, when the items
\* before it are released already.
ReleaseItem(h) ==
  /\ At(h, "ReplaceRelease")
  /\ \E c \in {d \in Channels : enforceChannelRestriction(judge[h].identity, d)} :
       UpsertReleaseRow(req[h].id, c, req[h].number)
  /\ ReplaceRelease(h)
  /\ UNCHANGED <<rights, judge>>

\* A slip: the roles outlive the package.
UnregisterKeepingRoles(h) ==
  /\ DeletePackage(h)
  /\ owner' = [owner EXCEPT ![req[h].id] = None]
  /\ Ended(h)
  /\ UNCHANGED <<acl, members>>

\* DELETE FROM packages takes the roles along.
Unregister(h) ==
  /\ DeletePackage(h)
  /\ owner' = [owner EXCEPT ![req[h].id] = None]
  /\ acl' = {row \in acl : row.package # req[h].id}
  /\ Ended(h)
  /\ UNCHANGED members

\* Every other call, and every error answer, the refusals among them.
Carry(h) ==
  /\ \/ PutBlob(h) \/ CreateUpload(h) \/ Fail(h)
     \/ /\ judge[h].step = "Allowed"
        /\ \/ InsertTrack(h) \/ UpdatePackage(h) \/ ListRevisions(h)
           \/ GetUpload(h) \/ GetBlob(h) \/ RejectUpload(h) \/ GetLatestRevision(h)
           \/ CreateRevision(h) \/ ApproveUpload(h) \/ PublishPackage(h)
           \/ UpsertResourceDefinition(h) \/ GetRevisionByNumber(h) \/ EndBatch(h) \/ Reply(h)
  /\ Ended(h)
  /\ UNCHANGED rights

\* An administrator's INSERT or DELETE; PRIMARY KEY (package_id, type, principal).
Administer ==
  /\ \/ \E row \in Grants :
          /\ Live(row.package)
          /\ \A other \in acl :
               <<other.package, other.type, other.principal>> # <<row.package, row.type, row.principal>>
          /\ acl' = acl \cup {row} /\ UNCHANGED members
     \/ \E row \in acl : acl' = acl \ {row} /\ UNCHANGED members
     \/ \E m \in Memberships :
          members' = (IF m \in members THEN members \ {m} ELSE members \cup {m}) /\ UNCHANGED acl
  /\ UNCHANGED <<vars, owner, judge>>

AccessNext ==
  /\ \/ \E h \in Handlers :
          \/ Register(h) \/ GetPackageToManage(h) \/ ReleaseItem(h) \/ Unregister(h) \/ Carry(h)
          \/ GetPackageOwner(h) \/ CanAccess(h)
     \/ \E v \in Viewers : GetPackageToView(v) \/ GetPackageOwner(v) \/ CanAccess(v) \/ EndView(v)
     \/ Administer
  /\ Watch

AccessSpec == AccessInit /\ [][AccessNext]_accessVars

-----------------------------------------------------------------------------
(***************************************************************************)
(* Properties.                                                             *)
(***************************************************************************)

\* The tables keep their keys, and an authorization is one that its request could
\* be going through: a publisher request that works on a package is allowed to.
AccessTypeOK ==
  /\ \A p \in PackageIds : IF Live(p) THEN owner[p] \in Accounts ELSE owner[p] = None
  /\ acl \subseteq Grants /\ members \subseteq Memberships
  /\ \A row \in acl : Live(row.package)
  /\ \A a \in Actors : LET j == judge[a] IN
       /\ j.step \in {"Idle", "GetPackageOwner", "CanAccess", "Allowed", "Refused"}
       /\ j.op \in {"none", "view", "manage", "register"}
       /\ j.identity \in Identities \cup {None}
       /\ j.id \in PackageIds \cup {None} /\ j.name \in Names \cup {None}
  /\ \A h \in Handlers :
       ~At(h, "Idle") /\ ~At(h, "CanManagePackage") /\ req[h].op # "upload" =>
         judge[h].step = "Allowed"

\* Whoever is let in was entitled to it at some instant since the package was read:
\* visibility, ownership and roles come from different statements, and they are
\* never added up to a right that nobody had.
ActsOnlyWhenEntitled ==
  \A a \in Actors :
    judge[a].step = "Allowed" /\ judge[a].op \in {"view", "manage"} => seen[a].ever

\* A right within the token's limits that stands on one ground as long as the request
\* lasts is not refused.
\* (One that moves from a role to visibility while canAccess is between its two
\* statements may be: there is no instant at which both are read.)
StandingRightsSuffice ==
  \A a \in Actors :
    judge[a].step = "Refused" => seen[a].grounds = {}

\* A token with a list of channels never moves another channel, whatever the
\* batch that its release request carries, and whatever became of the batch.
ChannelsAsGranted ==
  [][\A p \in DOMAIN packages', c \in Channels :
       /\ c \in DOMAIN releases'[p]
       /\ c \in DOMAIN releases[p] => releases'[p][c] # releases[p][c]
       => \E h \in Handlers :
            LET token == judge[h].identity.token IN
            /\ req[h].id = p /\ judge[h].step = "Allowed" /\ At(h, "ReplaceRelease")
            /\ token = None \/ token.channels = {} \/ c \in token.channels]_accessVars

=============================================================================
