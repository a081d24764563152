----------------------------- MODULE AccessProofs -----------------------------
(***************************************************************************)
(* Proofs about Access, for every value of the constants.  A step of       *)
(* Access is a step of Publishing or leaves its variables alone, so that   *)
(* everything that is proved of Publishing holds here; AccessInv adds what *)
(* is known of an authorization that is on its way: JudgeOK relates it to  *)
(* what its request was entitled to since it read the package, and         *)
(* HandlerOK to the call its request is at.                                *)
(***************************************************************************)
EXTENDS Access, AnswersProofs

AllGrounds == {"public", "owner", "role"}

Judge ==
  [step       : {"Idle", "GetPackageOwner", "CanAccess", "Allowed", "Refused"},
   op         : {"none", "view", "manage", "register"},
   identity   : Identities \cup {None},
   permission : PackagePermissions \cup {None},
   id         : PackageIds \cup {None},
   name       : Names \cup {None}]

Seen == [ever : BOOLEAN, grounds : SUBSET AllGrounds]

\* What is known of an authorization j whose request has seen s.
JudgeOK(j, s) ==
  /\ j.step = "Idle" => j = Nobody
  /\ j.step \in {"GetPackageOwner", "CanAccess"} =>
       /\ j.op \in {"view", "manage"} /\ j.id \in PackageIds
       /\ j.identity \in Identities /\ j.identity.account # None
       /\ "public" \notin s.grounds
  /\ j.step = "CanAccess" => "owner" \notin s.grounds
  /\ j.step = "Refused" => j.op \in {"view", "manage"} /\ s.grounds = {}
  /\ j.step = "Allowed" /\ j.op \in {"view", "manage"} => s.ever

\* Where the request of h is, by its authorization.
HandlerOK(h) ==
  /\ At(h, "Idle") => judge[h] = Nobody
  /\ judge[h].step \in {"GetPackageOwner", "CanAccess", "Refused"} => At(h, "CanManagePackage")
  /\ ~At(h, "Idle") /\ ~At(h, "CanManagePackage") /\ req[h].op # "upload" =>
       judge[h].step = "Allowed"

RightsOK ==
  /\ owner \in [PackageIds -> Accounts \cup {None}]
  /\ \A p \in PackageIds : IF Live(p) THEN owner[p] \in Accounts ELSE owner[p] = None
  /\ acl \subseteq Grants /\ members \subseteq Memberships
  /\ \A row \in acl : Live(row.package)

AccessInv ==
  /\ AnswersInv
  /\ RightsOK
  /\ judge \in [Actors -> Judge] /\ seen \in [Actors -> Seen]
  /\ \A a \in Actors : JudgeOK(judge[a], seen[a])
  /\ \A h \in Handlers : HandlerOK(h)

\* The grounds that count.
Now(j) == {g \in Grounds(j) : InScope(j, g)}

-----------------------------------------------------------------------------
(* The statements on roles. *)

LEMMA NobodyIsJudge ==
  /\ Nobody \in Judge /\ Nobody.step = "Idle" /\ Nobody.op = "none"
BY DEF Nobody, Judge

\* The join of canAccess finds what the roles of an account and its groups give it.
LEMMA ExistsRoleIsRole ==
  ASSUME RightsOK, NEW j \in Judge, j.identity \in Identities, j.identity.account # None,
         j.op \in {"view", "manage"}, j.id \in PackageIds
  PROVE  ExistsRole(j.id, j.identity.account, j.op) <=> "role" \in Grounds(j)
<1>1. PICK account \in Accounts : account = j.identity.account
  BY IdentitiesAssumption
<1>2. \A row \in acl : Live(row.package)
  BY DEF RightsOK
<1>4. ASSUME NEW row \in acl PROVE
        <<row.type, row.principal>> \in Principals(account) <=>
          \/ row.type = "account" /\ row.principal = account
          \/ row.type = "group" /\ \E m \in members : m[2] = account /\ m[1] = row.principal
  BY DEF Principals
<1>5. ASSUME NEW row \in acl PROVE
        (\E pair \in AclJoinMembers : pair[1] = row /\ Concerns(pair, account)) <=>
          <<row.type, row.principal>> \in Principals(account)
  <2> DEFINE M(e) == {m \in members : e.type = "group" /\ m[1] = e.principal}
             Joined(e) == IF M(e) = {} THEN {<<e, None>>} ELSE {<<e, m[2]>> : m \in M(e)}
  <2>1. AclJoinMembers = UNION {Joined(e) : e \in acl}
    BY DEF AclJoinMembers
  <2>2. \A e \in acl : \A pair \in Joined(e) : pair[1] = e
    OBVIOUS
  <2>3. ASSUME NEW pair \in AclJoinMembers, pair[1] = row, Concerns(pair, account)
        PROVE  <<row.type, row.principal>> \in Principals(account)
    <3>1. pair \in Joined(row)
      BY <2>1, <2>2, <2>3
    <3>2. CASE row.type = "account" /\ row.principal = account
      BY <3>2, <1>4
    <3>3. CASE pair[2] = account
      <4>1. account # None
        BY <1>1
      <4>2. M(row) # {}
        BY <3>1, <3>3, <4>1
      <4>3. PICK m \in M(row) : pair = <<row, m[2]>>
        BY <3>1, <4>2
      <4> QED BY <1>4, <3>3, <4>3
    <3> QED BY <2>3, <3>2, <3>3 DEF Concerns
  <2>4. ASSUME <<row.type, row.principal>> \in Principals(account)
        PROVE  \E pair \in AclJoinMembers : pair[1] = row /\ Concerns(pair, account)
    <3>1. CASE row.type = "account" /\ row.principal = account
      <4>1. PICK pair : pair \in Joined(row)
        OBVIOUS
      <4>2. pair \in AclJoinMembers /\ pair[1] = row
        BY <2>1, <2>2, <4>1
      <4> QED BY <3>1, <4>2 DEF Concerns
    <3>2. ASSUME NEW m \in members, row.type = "group", m[2] = account, m[1] = row.principal
          PROVE  \E pair \in AclJoinMembers : pair[1] = row /\ Concerns(pair, account)
      <4>1. m \in M(row)
        BY <3>2
      <4>2. <<row, account>> \in Joined(row)
        BY <3>2, <4>1
      <4>3. <<row, account>> \in AclJoinMembers
        BY <2>1, <4>2
      <4> QED BY <4>3 DEF Concerns
    <3> QED BY <1>4, <2>4, <3>1, <3>2
  <2> QED BY <2>3, <2>4
<1>6. "role" \in Grounds(j) <=>
        /\ Live(j.id)
        /\ \E row \in acl : /\ row.package = j.id
                            /\ <<row.type, row.principal>> \in Principals(account)
                            /\ row.role \in RolesFor(j.op)
  BY <1>1 DEF Grounds
<1>7. AclJoinMembers \subseteq {pair \in AclJoinMembers : pair[1] \in acl}
  BY DEF AclJoinMembers
<1>8. ExistsRole(j.id, account, j.op) <=>
        \E row \in acl : /\ row.package = j.id /\ row.role \in RolesFor(j.op)
                         /\ \E pair \in AclJoinMembers : pair[1] = row /\ Concerns(pair, account)
  BY <1>7 DEF ExistsRole
<1> QED BY <1>1, <1>2, <1>5, <1>6, <1>8

\* An account that is nobody has no role and owns nothing.
LEMMA NobodyHasNoGrounds ==
  ASSUME NEW j, j.identity.account = None
  PROVE  "owner" \notin Grounds(j) /\ "role" \notin Grounds(j)
BY DEF Grounds

-----------------------------------------------------------------------------
(* What a step leaves of the authorizations. *)

\* The history of one actor.
LEMMA WatchSays ==
  ASSUME Watch, NEW a \in Actors, NEW j, j = judge'[a]
  PROVE  /\ j.op \notin {"view", "manage"} => seen'[a] = Unseen
         /\ j.op \in {"view", "manage"} /\ judge[a] = Nobody =>
              /\ seen'[a].ever = (Now(j)' # {})
              /\ seen'[a].grounds = Now(j)'
         /\ j.op \in {"view", "manage"} /\ judge[a] # Nobody =>
              /\ seen'[a].ever = (seen[a].ever \/ Now(j)' # {})
              /\ seen'[a].grounds = seen[a].grounds \cap Now(j)'
<1>1. Now(j)' = {g \in Grounds(judge[a])' : InScope(judge'[a], g)}
  BY DEF Now, Grounds, InScope
<1> QED BY <1>1 DEF Watch

LEMMA NowAreGrounds ==
  ASSUME NEW j PROVE Now(j) \subseteq AllGrounds
BY DEF Now, Grounds, AllGrounds

LEMMA WatchKeepsSeen ==
  ASSUME Watch, seen \in [Actors -> Seen]
  PROVE  seen' \in [Actors -> Seen]
<1>1. ASSUME NEW a \in Actors PROVE seen'[a] \in Seen
  <2>1. PICK j : j = judge'[a]
    OBVIOUS
  <2>2. Now(j)' \subseteq AllGrounds
    BY DEF Now, Grounds, AllGrounds
  <2>3. PICK now : now = Now(j)'
    OBVIOUS
  <2>4. /\ Unseen \in Seen
        /\ [ever |-> now # {}, grounds |-> now] \in Seen
        /\ [ever |-> seen[a].ever \/ now # {}, grounds |-> seen[a].grounds \cap now] \in Seen
    <3>1. seen[a].grounds \cap now \subseteq AllGrounds /\ now \subseteq AllGrounds
      BY <2>2, <2>3
    <3>2. (now # {}) \in BOOLEAN /\ (seen[a].ever \/ now # {}) \in BOOLEAN
      OBVIOUS
    <3> QED BY <3>1, <3>2 DEF Unseen, Seen
  <2>5. now = {g \in Grounds(judge[a])' : InScope(judge'[a], g)}
    BY <2>1, <2>3 DEF Now, Grounds, InScope
  <2> QED BY <2>4, <2>5 DEF Watch
<1> QED BY <1>1 DEF Watch

\* An authorization that does not move stays in order: grounds only get fewer.
LEMMA JudgeStays ==
  ASSUME Watch, NEW a \in Actors, judge'[a] = judge[a],
         judge[a] \in Judge, JudgeOK(judge[a], seen[a])
  PROVE  JudgeOK(judge'[a], seen'[a])
<1>1. PICK j \in Judge : j = judge[a] /\ j = judge'[a]
  OBVIOUS
<1>2. CASE j.op \notin {"view", "manage"}
  BY <1>1, <1>2 DEF JudgeOK
<1>3. CASE j.op \in {"view", "manage"}
  <2>1. judge[a] # Nobody
    BY <1>1, <1>3, NobodyIsJudge
  <2>2. /\ seen[a].ever => seen'[a].ever
        /\ seen'[a].grounds \subseteq seen[a].grounds
    BY <1>1, <1>3, <2>1, WatchSays
  <2> QED BY <1>1, <2>2 DEF JudgeOK
<1> QED BY <1>2, <1>3

\* A step that moves the authorization of one actor.
LEMMA JudgeStep ==
  ASSUME AccessInv, [Next]_vars, Watch, RightsOK', NEW a \in Actors, NEW j \in Judge,
         judge' = [judge EXCEPT ![a] = j], JudgeOK(j, seen'[a]),
         \A h \in Handlers : HandlerOK(h)'
  PROVE  AccessInv'
<1>1. AnswersInv'
  BY NextKeepsAnswersInv DEF AccessInv
<1>2. judge' \in [Actors -> Judge] /\ seen' \in [Actors -> Seen]
  BY WatchKeepsSeen DEF AccessInv
<1>3. ASSUME NEW b \in Actors PROVE JudgeOK(judge'[b], seen'[b])
  <2>1. CASE b = a
    BY <2>1 DEF AccessInv
  <2>2. CASE b # a
    <3>1. judge'[b] = judge[b]
      BY <2>2 DEF AccessInv
    <3> QED BY <3>1, JudgeStays DEF AccessInv
  <2> QED BY <2>1, <2>2
<1> QED BY <1>1, <1>2, <1>3 DEF AccessInv

\* A step that moves none.
LEMMA NoJudgeStep ==
  ASSUME AccessInv, [Next]_vars, Watch, RightsOK', judge' = judge,
         \A h \in Handlers : HandlerOK(h)'
  PROVE  AccessInv'
<1>1. AnswersInv'
  BY NextKeepsAnswersInv DEF AccessInv
<1>2. judge' \in [Actors -> Judge] /\ seen' \in [Actors -> Seen]
  BY WatchKeepsSeen DEF AccessInv
<1>3. \A b \in Actors : JudgeOK(judge'[b], seen'[b])
  BY JudgeStays DEF AccessInv
<1> QED BY <1>1, <1>2, <1>3 DEF AccessInv

\* A request or a viewer that is out of the way of this step.
LEMMA OtherHandlersOK ==
  ASSUME AccessInv, NEW h, NEW k \in Handlers, k # h,
         req'[k] = req[k], judge'[k] = judge[k]
  PROVE  HandlerOK(k)'
BY DEF AccessInv, HandlerOK, At

LEMMA ViewersLeaveHandlers ==
  ASSUME AccessInv, UNCHANGED vars, NEW v \in Viewers,
         \A a \in Actors \ {v} : judge'[a] = judge[a]
  PROVE  \A h \in Handlers : HandlerOK(h)'
<1>1. \A h \in Handlers : judge'[h] = judge[h] /\ req'[h] = req[h]
  BY ActorsAssumption DEF Actors, vars
<1> QED BY <1>1 DEF AccessInv, HandlerOK, At

-----------------------------------------------------------------------------
(* The steps of Access are steps of Publishing. *)

\* The authorization of a request decides whether it goes on, not how.
LEMMA AccessStepIsPublishing ==
  ASSUME AccessNext
  PROVE  [Next]_vars
<1>1. ASSUME NEW a \in Actors, NEW allowed, Judged(a, allowed) PROVE [Next]_vars
  BY <1>1 DEF Judged, Next, Proceed
<1>2. ASSUME NEW a \in Actors, GetPackageOwner(a) \/ CanAccess(a) PROVE [Next]_vars
  BY <1>1, <1>2 DEF GetPackageOwner, CanAccess
<1>3. ASSUME NEW h \in Handlers,
             \/ Register(h) \/ GetPackageToManage(h) \/ ReleaseItem(h) \/ Unregister(h)
             \/ Carry(h)
      PROVE  [Next]_vars
  BY <1>3 DEF Register, GetPackageToManage, ReleaseItem, Unregister, Carry, Next, Accept, Proceed
<1>4. ASSUME NEW v \in Viewers, GetPackageToView(v) \/ EndView(v) PROVE [Next]_vars
  BY <1>4 DEF GetPackageToView, EndView
<1>5. CASE Administer
  BY <1>5 DEF Administer
<1> QED BY <1>2, <1>3, <1>4, <1>5 DEF AccessNext, Actors

-----------------------------------------------------------------------------
(* AccessInv is inductive: the requests of publishers. *)

LEMMA RightsStay ==
  ASSUME RightsOK, UNCHANGED rights, DOMAIN packages' = DOMAIN packages
  PROVE  RightsOK'
BY DEF RightsOK, rights, Live

\* RegisterPackage
LEMMA RegisterStep ==
  ASSUME AccessInv, NEW h \in Handlers, Register(h), Watch
  PROVE  AccessInv'
<1>1. PICK p \in PackageIds, n \in Names, private \in BOOLEAN :
        /\ InsertPackage(p, [name |-> n, private |-> private, status |-> "registered"])
        /\ req'[h].id = p /\ req'[h].step = "CreateTracks"
  BY DEF Register, CreatePackage, AccessInv, AnswersInv, PromisesInv, IInv, Idle
<1>2. PICK identity \in Identities :
        /\ requirePermission(identity, "account-register-package")
        /\ owner' = [owner EXCEPT ![req'[h].id] = identity.account]
        /\ judge' = [judge EXCEPT ![h] =
             [Nobody EXCEPT !.step = "Allowed", !.op = "register", !.identity = identity]]
  BY DEF Register
<1>3. PICK j : j = [Nobody EXCEPT !.step = "Allowed", !.op = "register", !.identity = identity]
  OBVIOUS
<1>4. j \in Judge /\ j.step = "Allowed" /\ j.op = "register"
  BY <1>3 DEF Nobody, Judge
<1>5. JudgeOK(j, seen'[h])
  BY <1>4 DEF JudgeOK
<1>6. identity.account \in Accounts
  BY <1>2, IdentitiesAssumption DEF requirePermission
<1>7. RightsOK'
  BY <1>1, <1>2, <1>6 DEF AccessInv, RightsOK, Register, InsertPackage, WithRow, Live
<1>8. Accept(h) /\ [Next]_vars
  BY DEF Register, Accept, Next
<1>9. ASSUME NEW k \in Handlers PROVE HandlerOK(k)'
  <2>1. CASE k = h
    <3>1. judge'[h].step = "Allowed"
      BY <1>2, <1>3, <1>4 DEF AccessInv, Actors
    <3> QED BY <1>1, <2>1, <3>1 DEF HandlerOK, At
  <2>2. CASE k # h
    BY <1>2, <1>8, <2>2, OwnRequestOnly, OtherHandlersOK
       DEF AccessInv, AnswersInv, PromisesInv, IInv, Actors
  <2> QED BY <2>1, <2>2
<1> QED BY <1>2, <1>3, <1>4, <1>5, <1>7, <1>8, <1>9, JudgeStep DEF Actors

\* The permission that a request on a package needs is one of packages.
LEMMA PermissionOfOperation ==
  ASSUME NEW op \in Operations \ {"register", "upload"}
  PROVE  Permission(op) \in PackagePermissions
BY DEF Operations, Permission, PackagePermissions

\* GetPackageByName of a request that wants to manage the package
LEMMA GetPackageToManageStep ==
  ASSUME AccessInv, NEW h \in Handlers, GetPackageToManage(h), Watch
  PROVE  AccessInv'
<1>1. /\ GetPackageByName(h) /\ Accept(h) /\ [Next]_vars /\ UNCHANGED <<tables, rights>>
      /\ req \in [Handlers -> Request] /\ h \in Actors
  BY DEF GetPackageToManage, GetPackageByName, Accept, Next, AccessInv, AnswersInv,
         PromisesInv, IInv, Actors
<1>2. PICK op \in Served \ {"register", "upload"}, p \in DOMAIN packages :
        /\ At(h, "Idle") /\ req'[h].step = "CanManagePackage" /\ req'[h].op = op
        /\ req'[h].id = p /\ req'[h].pkg = packages[p]
  BY <1>1 DEF GetPackageByName, Idle
<1>3. PICK identity \in Identities :
        judge' = [judge EXCEPT ![h] =
          [step |-> IF requirePermission(identity, Permission(op)) THEN "GetPackageOwner"
                    ELSE "Refused",
           op |-> "manage", identity |-> identity, permission |-> Permission(op),
           id |-> p, name |-> packages[p].name]]
  BY <1>2 DEF GetPackageToManage
<1>4. PICK j : j = [step |-> IF requirePermission(identity, Permission(op)) THEN "GetPackageOwner"
                             ELSE "Refused",
                    op |-> "manage", identity |-> identity, permission |-> Permission(op),
                    id |-> p, name |-> packages[p].name]
  OBVIOUS
<1>5. Permission(op) \in PackagePermissions /\ Permission(op) # None
  BY ServedAssumption, PermissionOfOperation, PermissionsAssumption
<1>6. p \in PackageIds /\ packages[p].name \in Names
  BY DEF AccessInv, AnswersInv, PromisesInv, IInv, TablesOK, PackagesTypeOK, IsTable, PackageRow
<1>7. j \in Judge /\ j.op = "manage" /\ j.id = p /\ j.identity = identity
      /\ j.permission = Permission(op)
  BY <1>4, <1>5, <1>6 DEF Judge
<1>8. j = judge'[h] /\ judge[h] = Nobody
  BY <1>1, <1>2, <1>3, <1>4 DEF AccessInv, HandlerOK
<1>9. seen'[h].grounds = Now(j)'
  BY <1>1, <1>7, <1>8, WatchSays
<1>10. "public" \notin Now(j)'
  BY <1>7 DEF Now, Grounds
<1>11. JudgeOK(j, seen'[h])
  <2>1. CASE requirePermission(identity, Permission(op))
    <3>1. j.step = "GetPackageOwner" /\ identity.account # None
      BY <1>4, <2>1 DEF requirePermission
    <3> QED BY <1>6, <1>7, <1>9, <1>10, <3>1 DEF JudgeOK
  <2>2. CASE ~requirePermission(identity, Permission(op))
    <3>1. j.step = "Refused"
      BY <1>4, <2>2
    <3>2. Now(j)' = {}
      BY <1>5, <1>7, <2>2 DEF Now, InScope
    <3> QED BY <1>7, <1>9, <3>1, <3>2 DEF JudgeOK
  <2> QED BY <2>1, <2>2
<1>12. ASSUME NEW k \in Handlers PROVE HandlerOK(k)'
  <2>1. CASE k = h
    BY <1>2, <2>1 DEF HandlerOK, At
  <2>2. CASE k # h
    BY <1>1, <1>3, <2>2, OwnRequestOnly, OtherHandlersOK DEF AccessInv, Actors
  <2> QED BY <2>1, <2>2
<1>13. RightsOK'
  BY <1>1, RightsStay DEF AccessInv, tables
<1> QED BY <1>1, <1>3, <1>4, <1>7, <1>11, <1>12, <1>13, JudgeStep

-----------------------------------------------------------------------------
(* Views and verdicts. *)

\* requirePackageView up to canAccess
LEMMA GetPackageToViewStep ==
  ASSUME AccessInv, NEW v \in Viewers, GetPackageToView(v), Watch
  PROVE  AccessInv'
<1>1. PICK p \in DOMAIN packages, identity \in Identities, permission \in {"package-view", None} :
        judge' = [judge EXCEPT ![v] =
          [step |-> CASE packages[p].private /\ identity.account # None -> "GetPackageOwner"
                      [] ~packages[p].private /\ (\/ permission = None
                                                  \/ identity.account = None
                                                  \/ requirePermission(identity, permission)) -> "Allowed"
                      [] OTHER -> "Refused",
           op |-> "view", identity |-> identity, permission |-> permission,
           id |-> p, name |-> packages[p].name]]
  BY DEF GetPackageToView
<1>2. judge[v] = Nobody /\ UNCHANGED <<vars, tables, rights>> /\ v \in Actors
  BY DEF GetPackageToView, Actors, vars
<1>3. PICK step \in {"GetPackageOwner", "Allowed", "Refused"} :
        /\ packages[p].private /\ identity.account # None => step = "GetPackageOwner"
        /\ packages[p].private /\ identity.account = None => step = "Refused"
        /\ ~packages[p].private => step =
             IF \/ permission = None \/ identity.account = None
                \/ requirePermission(identity, permission) THEN "Allowed" ELSE "Refused"
        /\ judge' = [judge EXCEPT ![v] =
             [step |-> step, op |-> "view", identity |-> identity, permission |-> permission,
              id |-> p, name |-> packages[p].name]]
  <2>1. CASE packages[p].private /\ identity.account # None
    BY <1>1, <2>1
  <2>2. CASE packages[p].private /\ identity.account = None
    BY <1>1, <2>2
  <2>3. CASE ~packages[p].private /\ (\/ permission = None \/ identity.account = None
                                      \/ requirePermission(identity, permission))
    BY <1>1, <2>3
  <2>4. CASE ~packages[p].private /\ ~(\/ permission = None \/ identity.account = None
                                       \/ requirePermission(identity, permission))
    BY <1>1, <2>4
  <2> QED BY <2>1, <2>2, <2>3, <2>4
<1>4. PICK j : j = [step |-> step, op |-> "view", identity |-> identity,
                    permission |-> permission, id |-> p, name |-> packages[p].name]
  OBVIOUS
<1>5. p \in PackageIds /\ packages[p].name \in Names /\ packages[p].private \in BOOLEAN
  BY DEF AccessInv, AnswersInv, PromisesInv, IInv, TablesOK, PackagesTypeOK, IsTable, PackageRow
<1>6. j \in Judge
  BY <1>4, <1>5 DEF Judge, PackagePermissions
<1>7. /\ j.step = step /\ j.op = "view" /\ j.id = p /\ j.identity = identity
      /\ j.permission = permission /\ j = judge'[v]
  BY <1>2, <1>3, <1>4 DEF AccessInv
<1>8. /\ seen'[v].grounds = Now(j)'
      /\ seen'[v].ever = (Now(j)' # {})
  BY <1>2, <1>7, WatchSays
<1>9. RightsOK /\ Now(j)' = Now(j)
  BY <1>2 DEF AccessInv, Now, Grounds, Live, Principals, rights, tables
<1>10. packages[p].private => "public" \notin Now(j)
  BY <1>7 DEF Now, Grounds
<1>11. JudgeOK(j, seen'[v])
  <2>1. CASE step = "GetPackageOwner"
    <3>1. packages[p].private /\ identity.account # None
      BY <1>3, <1>5, <2>1
    <3> QED BY <1>5, <1>7, <1>8, <1>9, <1>10, <2>1, <3>1 DEF JudgeOK
  <2>2. CASE step = "Allowed"
    <3>1. ~packages[p].private /\ (\/ permission = None \/ identity.account = None
                                   \/ requirePermission(identity, permission))
      BY <1>3, <1>5, <2>2
    <3>2. "public" \in Now(j)
      BY <1>7, <3>1 DEF Now, Grounds, InScope, Live
    <3> QED BY <1>7, <1>8, <1>9, <2>2, <3>2 DEF JudgeOK
  <2>3. CASE step = "Refused"
    <3>1. CASE packages[p].private
      <4>1. identity.account = None
        BY <1>3, <2>3, <3>1
      <4>2. Now(j) = {}
        BY <1>7, <1>9, <1>10, <3>1, <4>1, NobodyHasNoGrounds, NowAreGrounds DEF Now, AllGrounds
      <4> QED BY <1>7, <1>8, <1>9, <2>3, <4>2 DEF JudgeOK
    <3>2. CASE ~packages[p].private
      <4>1. /\ permission # None /\ identity.account # None
            /\ ~requirePermission(identity, permission)
        BY <1>3, <2>3, <3>2
      <4>2. Now(j) = {}
        BY <1>7, <4>1 DEF Now, InScope
      <4> QED BY <1>7, <1>8, <1>9, <2>3, <4>2 DEF JudgeOK
    <3> QED BY <1>5, <3>1, <3>2
  <2> QED BY <2>1, <2>2, <2>3
<1>12. RightsOK'
  BY <1>2, <1>9, RightsStay DEF tables
<1>13. \A h \in Handlers : HandlerOK(h)'
  BY <1>2, <1>3, ViewersLeaveHandlers DEF AccessInv
<1> QED BY <1>2, <1>3, <1>4, <1>6, <1>11, <1>12, <1>13, JudgeStep

\* A grant says nothing of another request's grounds.
LEMMA NowStays ==
  ASSUME UNCHANGED <<tables, rights>>, NEW j PROVE Now(j)' = Now(j)
BY DEF Now, Grounds, Live, Principals, rights, tables

\* The grounds do not depend on how far the authorization is.
LEMMA NowIgnoresStep ==
  ASSUME NEW i, NEW j, i.op = j.op, i.id = j.id, i.name = j.name, i.identity = j.identity,
         i.permission = j.permission
  PROVE  Now(i) = Now(j)
BY DEF Now, Grounds, InScope

\* The next step of an authorization
LEMMA WithStep ==
  ASSUME NEW j \in Judge, NEW step \in {"CanAccess", "Allowed", "Refused"}
  PROVE  LET i == [j EXCEPT !.step = step] IN
         /\ i \in Judge /\ i.step = step /\ i.op = j.op /\ i.id = j.id
         /\ i.name = j.name /\ i.identity = j.identity /\ i.permission = j.permission
BY DEF Judge

\* What canAccess said, and then the token
LEMMA JudgedStep ==
  ASSUME AccessInv, NEW a \in Actors, NEW allowed \in BOOLEAN, Judged(a, allowed), Watch,
         judge[a].step \in {"GetPackageOwner", "CanAccess"},
         allowed => Grounds(judge[a]) # {},
         ~allowed => seen[a].grounds \cap Grounds(judge[a]) = {}
  PROVE  AccessInv'
<1>1. PICK j \in Judge : j = judge[a]
  BY DEF AccessInv
<1>2. PICK granted \in BOOLEAN :
        granted <=> /\ allowed
                    /\ tokenAllowsPackage(j.identity, j.id, j.name)
                    /\ j.permission # None => requirePermission(j.identity, j.permission)
  OBVIOUS
<1>3. /\ judge' = [judge EXCEPT ![a].step = IF granted THEN "Allowed" ELSE "Refused"]
      /\ granted /\ a \in Handlers => RequirePackageManage(a)
      /\ ~(granted /\ a \in Handlers) => UNCHANGED vars
      /\ UNCHANGED rights
  BY <1>1, <1>2 DEF Judged
<1> DEFINE i == [j EXCEPT !.step = IF granted THEN "Allowed" ELSE "Refused"]
<1>4. /\ i \in Judge /\ i.step = (IF granted THEN "Allowed" ELSE "Refused")
      /\ i.op = j.op /\ i.id = j.id /\ i.name = j.name
      /\ i.identity = j.identity /\ i.permission = j.permission
  <2>1. (IF granted THEN "Allowed" ELSE "Refused") \in {"CanAccess", "Allowed", "Refused"}
    OBVIOUS
  <2> QED BY <2>1, WithStep
<1>5. judge' = [judge EXCEPT ![a] = i] /\ judge'[a] = i
  BY <1>1, <1>3 DEF AccessInv
<1> HIDE DEF i
<1>6. /\ j.op \in {"view", "manage"} /\ j.identity.account # None /\ j # Nobody
      /\ "public" \notin seen[a].grounds
  BY <1>1, NobodyIsJudge DEF AccessInv, JudgeOK
<1>7. UNCHANGED <<tables, rights>>
  BY <1>3 DEF RequirePackageManage, vars
<1>8. /\ seen'[a].ever = (seen[a].ever \/ Now(i)' # {})
      /\ seen'[a].grounds = seen[a].grounds \cap Now(i)'
  BY <1>1, <1>4, <1>5, <1>6, WatchSays
<1>9. Now(i)' = Now(j)
  BY <1>4, <1>7, NowStays, NowIgnoresStep
<1>10. JudgeOK(i, seen'[a])
  <2>1. CASE granted
    <3>1. PICK g : g \in Grounds(j)
      BY <1>1, <1>2, <2>1
    <3>2. g \in Now(j)
      BY <1>2, <2>1, <3>1 DEF Now, InScope
    <3>3. i.step = "Allowed" /\ seen'[a].ever
      BY <1>4, <1>8, <1>9, <2>1, <3>2
    <3> QED BY <3>3 DEF JudgeOK
  <2>2. CASE ~granted
    <3>1. i.step = "Refused" /\ i.op \in {"view", "manage"}
      BY <1>4, <1>6, <2>2
    <3>2. seen[a].grounds \cap Now(j) = {}
      <4>1. CASE ~allowed
        BY <1>1, <4>1 DEF Now
      <4>2. CASE ~tokenAllowsPackage(j.identity, j.id, j.name)
        BY <1>6, <4>2 DEF Now, InScope
      <4>3. CASE j.permission # None /\ ~requirePermission(j.identity, j.permission)
        BY <1>6, <4>3 DEF Now, InScope
      <4> QED BY <1>2, <2>2, <4>1, <4>2, <4>3
    <3> QED BY <1>8, <1>9, <3>1, <3>2 DEF JudgeOK
  <2> QED BY <2>1, <2>2
<1>11. [Next]_vars
  BY <1>3 DEF Next, Proceed
<1>12. RightsOK'
  BY <1>7, RightsStay DEF AccessInv, tables
<1>13. ASSUME NEW h \in Handlers PROVE HandlerOK(h)'
  <2>1. CASE a \notin Handlers
    <3>1. UNCHANGED vars /\ a \in Viewers /\ \A b \in Actors \ {a} : judge'[b] = judge[b]
      BY <1>3, <2>1 DEF Actors, AccessInv
    <3> QED BY <3>1, ViewersLeaveHandlers
  <2>2. CASE a = h /\ granted
    <3>1. RequirePackageManage(h) /\ judge'[h].step = "Allowed"
      BY <1>3, <1>4, <1>5, <2>2
    <3>2. req'[h].step # "Idle"
      BY <3>1 DEF RequirePackageManage, AccessInv, AnswersInv, PromisesInv, IInv, Request
    <3> QED BY <3>1, <3>2 DEF HandlerOK, At
  <2>3. CASE a = h /\ ~granted
    <3>1. req'[h] = req[h] /\ At(h, "CanManagePackage")
      BY <1>3, <2>3 DEF vars, AccessInv, HandlerOK
    <3> QED BY <3>1 DEF HandlerOK, At
  <2>4. CASE a # h /\ a \in Handlers
    <3>1. judge'[h] = judge[h]
      BY <1>5, <2>4 DEF AccessInv, Actors
    <3>2. req'[h] = req[h]
      BY <1>3, <2>4, OwnRequestOnly DEF AccessInv, AnswersInv, PromisesInv, IInv, Proceed, vars
    <3> QED BY <2>4, <3>1, <3>2, OtherHandlersOK
  <2> QED BY <2>1, <2>2, <2>3, <2>4
<1> QED BY <1>4, <1>5, <1>10, <1>11, <1>12, <1>13, JudgeStep

\* canAccess, first statement
LEMMA GetPackageOwnerStep ==
  ASSUME AccessInv, NEW a \in Actors, GetPackageOwner(a), Watch
  PROVE  AccessInv'
<1>1. PICK j \in Judge : /\ j = judge[a] /\ j.step = "GetPackageOwner" /\ Live(j.id)
                         /\ j.op \in {"view", "manage"} /\ j.id \in PackageIds
                         /\ j.identity \in Identities /\ j.identity.account # None /\ j # Nobody
                         /\ "public" \notin seen[a].grounds
  BY NobodyIsJudge DEF AccessInv, JudgeOK, GetPackageOwner
<1>2. CASE PublicForUse(j.id, j.op)
  <2>1. "public" \in Grounds(j)
    BY <1>1, <1>2 DEF Grounds, PublicForUse
  <2> QED BY <1>1, <1>2, <2>1, JudgedStep DEF GetPackageOwner
<1>3. CASE owner[j.id] = j.identity.account
  <2>1. "owner" \in Grounds(j)
    BY <1>1, <1>3 DEF Grounds
  <2> QED BY <1>1, <1>3, <2>1, JudgedStep DEF GetPackageOwner
<1>4. CASE ~PublicForUse(j.id, j.op) /\ owner[j.id] # j.identity.account
  <2>1. /\ judge' = [judge EXCEPT ![a].step = "CanAccess"]
        /\ UNCHANGED <<vars, tables, rights>>
    BY <1>1, <1>4 DEF GetPackageOwner, vars
  <2> DEFINE i == [j EXCEPT !.step = "CanAccess"]
  <2>2. /\ i \in Judge /\ i.step = "CanAccess" /\ i.op = j.op /\ i.id = j.id
        /\ i.name = j.name /\ i.identity = j.identity /\ i.permission = j.permission
    BY WithStep
  <2>3. judge' = [judge EXCEPT ![a] = i] /\ judge'[a] = i
    BY <1>1, <2>1 DEF AccessInv
  <2> HIDE DEF i
  <2>4. Now(i)' = Now(j)
    BY <2>1, <2>2, NowStays, NowIgnoresStep
  <2>5. seen'[a].grounds = seen[a].grounds \cap Now(i)'
    BY <1>1, <2>2, <2>3, WatchSays
  <2>6. "owner" \notin Now(j)
    BY <1>4 DEF Now, Grounds
  <2>7. JudgeOK(i, seen'[a])
    BY <1>1, <2>2, <2>4, <2>5, <2>6 DEF JudgeOK
  <2>8. ASSUME NEW h \in Handlers PROVE HandlerOK(h)'
    <3>1. CASE a = h
      BY <1>1, <2>1, <2>2, <2>3, <3>1 DEF HandlerOK, At, AccessInv, vars
    <3>2. CASE a # h
      <4>1. judge'[h] = judge[h] /\ req'[h] = req[h]
        BY <2>1, <2>3, <3>2 DEF AccessInv, Actors, vars
      <4> QED BY <3>2, <4>1, OtherHandlersOK
    <3> QED BY <3>1, <3>2
  <2>9. RightsOK'
    BY <2>1, RightsStay DEF AccessInv, tables
  <2> QED BY <2>1, <2>2, <2>3, <2>7, <2>8, <2>9, JudgeStep
<1> QED BY <1>2, <1>3, <1>4

\* canAccess, second statement
LEMMA CanAccessStep ==
  ASSUME AccessInv, NEW a \in Actors, CanAccess(a), Watch
  PROVE  AccessInv'
<1>1. PICK j \in Judge : /\ j = judge[a] /\ j.step = "CanAccess"
                         /\ j.op \in {"view", "manage"} /\ j.id \in PackageIds
                         /\ j.identity \in Identities /\ j.identity.account # None
                         /\ "public" \notin seen[a].grounds /\ "owner" \notin seen[a].grounds
  BY DEF AccessInv, JudgeOK, CanAccess
<1>2. Judged(a, ExistsRole(j.id, j.identity.account, j.op))
  BY <1>1 DEF CanAccess
<1>3. PICK allowed \in BOOLEAN : allowed = ExistsRole(j.id, j.identity.account, j.op)
  BY DEF ExistsRole
<1>4. allowed <=> "role" \in Grounds(j)
  BY <1>1, <1>3, ExistsRoleIsRole DEF AccessInv
<1>5. Grounds(j) \subseteq AllGrounds
  BY DEF Grounds, AllGrounds
<1>6. ~allowed => seen[a].grounds \cap Grounds(j) = {}
  BY <1>1, <1>4, <1>5 DEF AllGrounds
<1> QED BY <1>1, <1>2, <1>3, <1>4, <1>6, JudgedStep

-----------------------------------------------------------------------------
(* The calls of an allowed request, and the end of a request. *)

\* Release, one item
LEMMA ReleaseItemStep ==
  ASSUME AccessInv, NEW h \in Handlers, ReleaseItem(h), Watch
  PROVE  AccessInv'
<1>1. /\ ReplaceRelease(h) /\ Proceed(h) /\ [Next]_vars
      /\ UNCHANGED <<rights, judge, packages>>
  BY DEF ReleaseItem, ReplaceRelease, UpsertReleaseRow, Proceed, Next
<1>2. judge[h].step = "Allowed"
  BY DEF ReleaseItem, At, AccessInv, HandlerOK, AnswersInv, PromisesInv, HasDone
<1>3. req'[h].step = "GetRevisionByNumber"
  BY <1>1 DEF ReplaceRelease, AccessInv, AnswersInv, PromisesInv, IInv, Request
<1>4. ASSUME NEW k \in Handlers PROVE HandlerOK(k)'
  <2>1. CASE k = h
    BY <1>1, <1>2, <1>3, <2>1 DEF HandlerOK, At
  <2>2. CASE k # h
    BY <1>1, <2>2, OwnRequestOnly, OtherHandlersOK
            DEF AccessInv, AnswersInv, PromisesInv, IInv
  <2> QED BY <2>1, <2>2
<1>5. RightsOK'
  BY <1>1, RightsStay DEF AccessInv
<1> QED BY <1>1, <1>4, <1>5, NoJudgeStep

\* A request that ends leaves no authorization behind.
LEMMA NobodyIsOK ==
  ASSUME NEW s PROVE JudgeOK(Nobody, s)
BY DEF JudgeOK, Nobody

\* UnregisterPackage, last call: the owner and the roles go with the row.
LEMMA UnregisterStep ==
  ASSUME AccessInv, NEW h \in Handlers, Unregister(h), Watch
  PROVE  AccessInv'
<1>1. DeletePackageRow(req[h].id) /\ Proceed(h) /\ [Next]_vars /\ req'[h] = Idle
  BY DEF Unregister, DeletePackage, Finish, Proceed, Next, AccessInv, AnswersInv, PromisesInv, IInv
<1>2. judge' = [judge EXCEPT ![h] = Nobody]
  BY <1>1 DEF Unregister, Ended
<1>3. RightsOK'
  BY <1>1 DEF AccessInv, RightsOK, Unregister, DeletePackageRow, Live
<1>4. ASSUME NEW k \in Handlers PROVE HandlerOK(k)'
  <2>1. CASE k = h
    BY <1>1, <1>2, <2>1 DEF HandlerOK, At, Idle, Nobody, AccessInv, Actors
  <2>2. CASE k # h
    <3>1. judge'[k] = judge[k]
      BY <1>2, <2>2 DEF AccessInv, Actors
    <3> QED BY <1>1, <2>2, <3>1, OwnRequestOnly, OtherHandlersOK
            DEF AccessInv, AnswersInv, PromisesInv, IInv
  <2> QED BY <2>1, <2>2
<1> QED BY <1>1, <1>2, <1>3, <1>4, NobodyIsOK, NobodyIsJudge, JudgeStep DEF Actors

\* The calls that an allowed request makes between its first and its last
Works(h) ==
  \/ InsertTrack(h) \/ UpdatePackage(h) \/ ListRevisions(h)
  \/ GetUpload(h) \/ GetBlob(h) \/ RejectUpload(h) \/ GetLatestRevision(h)
  \/ CreateRevision(h) \/ ApproveUpload(h) \/ PublishPackage(h)
  \/ UpsertResourceDefinition(h) \/ GetRevisionByNumber(h) \/ EndBatch(h) \/ Reply(h)

\* They delete no package, and the request ends or goes on to another call.
LEMMA WorkGoesOn ==
  ASSUME req \in [Handlers -> Request], NEW h \in Handlers, Works(h)
  PROVE  /\ DOMAIN packages' = DOMAIN packages
         /\ req'[h] = Idle \/ req'[h].step # "Idle"
<1> USE DEF At, Goto, Finish, tables, Request
<1>1. CASE InsertTrack(h) \/ UpsertResourceDefinition(h)
  BY <1>1 DEF InsertTrack, InsertTrackRow, UpsertResourceDefinition, UpsertDefinitionRow
<1>2. CASE UpdatePackage(h) \/ PublishPackage(h)
  BY <1>2 DEF UpdatePackage, PublishPackage, UpdatePackageRow
<1>3. CASE ListRevisions(h) \/ GetRevisionByNumber(h) \/ EndBatch(h) \/ Reply(h)
  BY <1>3 DEF ListRevisions, GetRevisionByNumber, EndBatch, Reply
<1>5. CASE GetUpload(h) \/ GetBlob(h)
  BY ZenonT(60), <1>5 DEF GetUpload, GetBlob
<1>6. CASE GetLatestRevision(h)
  BY <1>6 DEF GetLatestRevision
<1>4. CASE RejectUpload(h) \/ CreateRevision(h) \/ ApproveUpload(h)
  BY <1>4 DEF RejectUpload, CreateRevision, ApproveUpload, ReviewUploadRow, InsertRevisionRow
<1> QED BY <1>1, <1>2, <1>3, <1>4, <1>5, <1>6 DEF Works

\* Every other call
LEMMA CarryStep ==
  ASSUME AccessInv, NEW h \in Handlers, Carry(h), Watch
  PROVE  AccessInv'
<1>1. /\ PutBlob(h) \/ CreateUpload(h) \/ Fail(h) \/ (judge[h].step = "Allowed" /\ Works(h))
      /\ judge' = [judge EXCEPT ![h] = IF req'[h] = Idle THEN Nobody ELSE @]
      /\ UNCHANGED rights
  BY DEF Carry, Works, Ended
<1>2. req \in [Handlers -> Request] /\ h \in Actors /\ judge \in [Actors -> Judge]
  BY DEF AccessInv, AnswersInv, PromisesInv, IInv, Actors
<1>3. [Next]_vars /\ (Accept(h) \/ Proceed(h) \/ Fail(h))
  BY <1>1 DEF Works, Next, Accept, Proceed
<1>4. DOMAIN packages' = DOMAIN packages
  BY <1>1, <1>2, WorkGoesOn DEF PutBlob, PutObject, CreateUpload, InsertUploadRow, Fail, tables
<1>5. RightsOK'
  BY <1>1, <1>4, RightsStay DEF AccessInv
<1>6. ASSUME NEW k \in Handlers, k # h PROVE HandlerOK(k)'
  <2>1. judge'[k] = judge[k]
    BY <1>1, <1>2, <1>6 DEF Actors
  <2> QED BY <1>2, <1>3, <1>6, <2>1, OwnRequestOnly, OtherHandlersOK
<1>7. CASE req'[h] = Idle
  <2>1. judge' = [judge EXCEPT ![h] = Nobody] /\ judge'[h] = Nobody
    BY <1>1, <1>2, <1>7
  <2>2. HandlerOK(h)'
    BY <1>7, <2>1 DEF HandlerOK, At, Idle, Nobody
  <2> QED BY <1>2, <1>3, <1>5, <1>6, <2>1, <2>2, NobodyIsOK, NobodyIsJudge, JudgeStep
<1>8. CASE req'[h] # Idle
  <2>1. judge' = judge
    BY <1>1, <1>2, <1>8
  <2>2. CASE PutBlob(h)
    <3>1. judge[h] = Nobody /\ req'[h].op = "upload" /\ req'[h].step = "CreateUpload"
      BY <1>2, <2>2 DEF PutBlob, Idle, AccessInv, HandlerOK
    <3>2. HandlerOK(h)'
      BY <2>1, <3>1 DEF HandlerOK, At, Nobody
    <3> QED BY <1>3, <1>5, <1>6, <2>1, <3>2, NoJudgeStep
  <2>3. CASE judge[h].step = "Allowed" /\ Works(h)
    <3>1. req'[h].step # "Idle"
      BY <1>2, <1>8, <2>3, WorkGoesOn
    <3>2. HandlerOK(h)'
      BY <2>1, <2>3, <3>1 DEF HandlerOK, At
    <3> QED BY <1>3, <1>5, <1>6, <2>1, <3>2, NoJudgeStep
  <2> QED BY <1>1, <1>2, <1>8, <2>2, <2>3 DEF CreateUpload, Fail, Finish
<1> QED BY <1>7, <1>8

\* A view ends.
LEMMA EndViewStep ==
  ASSUME AccessInv, NEW v \in Viewers, EndView(v), Watch
  PROVE  AccessInv'
<1>1. UNCHANGED <<vars, tables, rights>> /\ judge' = [judge EXCEPT ![v] = Nobody] /\ v \in Actors
  BY DEF EndView, vars, Actors
<1>2. RightsOK'
  BY <1>1, RightsStay DEF AccessInv, tables
<1>3. \A h \in Handlers : HandlerOK(h)'
  BY <1>1, ViewersLeaveHandlers DEF AccessInv
<1> QED BY <1>1, <1>2, <1>3, NobodyIsOK, NobodyIsJudge, JudgeStep

\* An administrator's statement
LEMMA AdministerStep ==
  ASSUME AccessInv, Administer, Watch
  PROVE  AccessInv'
<1>1. UNCHANGED <<vars, tables, owner, judge>>
  BY DEF Administer, vars
<1>2. acl' \subseteq Grants /\ members' \subseteq Memberships /\ \A row \in acl' : Live(row.package)
  BY DEF Administer, AccessInv, RightsOK
<1>3. RightsOK'
  BY <1>1, <1>2 DEF AccessInv, RightsOK, Live, tables
<1>4. \A h \in Handlers : HandlerOK(h)'
  BY <1>1 DEF AccessInv, HandlerOK, At, vars
<1> QED BY <1>1, <1>3, <1>4, NoJudgeStep

-----------------------------------------------------------------------------
LEMMA InitAccessInv == AccessInit => AccessInv
<1> SUFFICES ASSUME AccessInit PROVE AccessInv
  OBVIOUS
<1>1. AnswersInv
  BY InitAnswersInv DEF AccessInit
<1>2. RightsOK
  BY DEF AccessInit, RightsOK, Init, InitRepository, Live, NoRows
<1>3. judge \in [Actors -> Judge] /\ seen \in [Actors -> Seen]
  BY NobodyIsJudge DEF AccessInit, Seen, Unseen
<1>4. \A a \in Actors : JudgeOK(judge[a], seen[a])
  BY NobodyIsOK DEF AccessInit
<1>5. \A h \in Handlers : HandlerOK(h)
  BY DEF AccessInit, Init, HandlerOK, At, Idle, Nobody, Actors
<1> QED BY <1>1, <1>2, <1>3, <1>4, <1>5 DEF AccessInv

LEMMA NextKeepsAccessInv == AccessInv /\ [AccessNext]_accessVars => AccessInv'
<1>1. ASSUME AccessInv, UNCHANGED accessVars PROVE AccessInv'
  <2>1. UNCHANGED <<vars, tables, rights, judge, seen>> /\ [Next]_vars
    BY <1>1 DEF accessVars, vars
  <2>2. AnswersInv'
    BY <1>1, <2>1, NextKeepsAnswersInv DEF AccessInv
  <2>3. RightsOK'
    BY <1>1, <2>1, RightsStay DEF AccessInv, tables
  <2>4. \A h \in Handlers : HandlerOK(h)'
    BY <1>1, <2>1 DEF AccessInv, HandlerOK, At, vars
  <2>5. \A a \in Actors : JudgeOK(judge[a], seen[a])'
    BY <1>1, <2>1 DEF AccessInv, JudgeOK
  <2> QED BY <1>1, <2>1, <2>2, <2>3, <2>4, <2>5 DEF AccessInv
<1>2. ASSUME AccessInv, AccessNext PROVE AccessInv'
  <2>1. Watch
    BY <1>2 DEF AccessNext
  <2>2. ASSUME NEW h \in Handlers,
               \/ Register(h) \/ GetPackageToManage(h) \/ ReleaseItem(h) \/ Unregister(h)
               \/ Carry(h)
        PROVE  AccessInv'
    BY <1>2, <2>1, <2>2, RegisterStep, GetPackageToManageStep, ReleaseItemStep, UnregisterStep,
       CarryStep
  <2>3. ASSUME NEW a \in Actors, GetPackageOwner(a) \/ CanAccess(a) PROVE AccessInv'
    BY <1>2, <2>1, <2>3, GetPackageOwnerStep, CanAccessStep
  <2>4. ASSUME NEW v \in Viewers, GetPackageToView(v) \/ EndView(v) PROVE AccessInv'
    BY <1>2, <2>1, <2>4, GetPackageToViewStep, EndViewStep
  <2>5. CASE Administer
    BY <1>2, <2>1, <2>5, AdministerStep
  <2> QED BY <1>2, <2>2, <2>3, <2>4, <2>5 DEF AccessNext, Actors
<1> QED BY <1>1, <1>2

-----------------------------------------------------------------------------
(* The theorems. *)

\* The tables of rights keep their keys whatever is deleted under them (ON DELETE
\* CASCADE of packages), and no request gets past its authorization (helpers.go).
THEOREM AccessInvariance == AccessSpec => []AccessInv
BY InitAccessInv, NextKeepsAccessInv, PTL DEF AccessSpec

\* Authorization restricts what publishers do and adds nothing: with their views,
\* their roles and their tokens, they still do what Publishing says.
THEOREM AccessImplementsPublishing == AccessSpec => Spec
<1>1. [AccessNext]_accessVars => [Next]_vars
  BY AccessStepIsPublishing DEF accessVars
<1>2. AccessInit => Init
  BY DEF AccessInit
<1> QED BY <1>1, <1>2, PTL DEF AccessSpec, Spec

\* Type correctness of the rights and of the authorizations in flight.
THEOREM AccessTypeCorrect == AccessSpec => []AccessTypeOK
<1>1. AccessInv => AccessTypeOK
  BY DEF AccessInv, AccessTypeOK, RightsOK, HandlerOK, Judge
<1> QED BY <1>1, AccessInvariance, PTL

\* requirePackageManage and requirePackageView let in whoever was entitled to it
\* at some instant since the package was read, and nobody else.
THEOREM NobodyActsUnentitled == AccessSpec => []ActsOnlyWhenEntitled
<1>1. AccessInv => ActsOnlyWhenEntitled
  BY DEF AccessInv, ActsOnlyWhenEntitled, JudgeOK
<1> QED BY <1>1, AccessInvariance, PTL

\* canAccess refuses nobody whose right stands as long as the request lasts.
THEOREM StandingRightsAreHonoured == AccessSpec => []StandingRightsSuffice
<1>1. AccessInv => StandingRightsSuffice
  BY DEF AccessInv, StandingRightsSuffice, JudgeOK
<1> QED BY <1>1, AccessInvariance, PTL

\* The channel that a step moves, if it moves one, is one its token lists.
ChannelsMove ==
  \A p \in DOMAIN packages', c \in Channels :
    /\ c \in DOMAIN releases'[p]
    /\ c \in DOMAIN releases[p] => releases'[p][c] # releases[p][c]
    => \E h \in Handlers :
         LET token == judge[h].identity.token IN
         /\ req[h].id = p /\ judge[h].step = "Allowed" /\ At(h, "ReplaceRelease")
         /\ token = None \/ token.channels = {} \/ c \in token.channels

LEMMA ReleaseItemMovesItsChannel ==
  ASSUME AccessInv, NEW h \in Handlers, ReleaseItem(h)
  PROVE  ChannelsMove
<1>1. PICK d \in Channels :
        /\ enforceChannelRestriction(judge[h].identity, d)
        /\ UpsertReleaseRow(req[h].id, d, req[h].number)
  BY DEF ReleaseItem
<1>2. judge[h].step = "Allowed" /\ At(h, "ReplaceRelease")
  BY DEF ReleaseItem, At, AccessInv, HandlerOK, AnswersInv, PromisesInv, HasDone
<1>3. \A p \in DOMAIN packages', c \in Channels :
        /\ c \in DOMAIN releases'[p]
        /\ c \in DOMAIN releases[p] => releases'[p][c] # releases[p][c]
        => p = req[h].id /\ c = d
  BY <1>1 DEF UpsertReleaseRow, WithRow, AccessInv, AnswersInv, PromisesInv, IInv, TablesOK,
              PackagesTypeOK, RevisionsTypeOK, IsTable
<1> QED BY <1>1, <1>2, <1>3 DEF ChannelsMove, enforceChannelRestriction

LEMMA OthersLeaveChannels ==
  ASSUME AccessNext, \A h \in Handlers : ~ReleaseItem(h) /\ ~Unregister(h)
  PROVE  UNCHANGED releases
<1>1. ASSUME NEW h \in Handlers, Register(h) \/ GetPackageToManage(h) PROVE UNCHANGED releases
  BY <1>1 DEF Register, CreatePackage, InsertPackage, GetPackageToManage, GetPackageByName, tables
<1>2. ASSUME NEW h \in Handlers, Carry(h) PROVE UNCHANGED releases
  <2>1. CASE InsertTrack(h) \/ UpsertResourceDefinition(h) \/ UpdatePackage(h) \/ PublishPackage(h)
    BY <2>1 DEF InsertTrack, InsertTrackRow, UpsertResourceDefinition, UpsertDefinitionRow,
                UpdatePackage, PublishPackage, UpdatePackageRow
  <2>2. CASE \/ PutBlob(h) \/ CreateUpload(h) \/ RejectUpload(h) \/ CreateRevision(h)
             \/ ApproveUpload(h)
    BY <2>2 DEF PutBlob, PutObject, CreateUpload, InsertUploadRow, RejectUpload, CreateRevision,
                ApproveUpload, ReviewUploadRow, InsertRevisionRow
  <2>3. CASE \/ Fail(h) \/ ListRevisions(h) \/ GetUpload(h) \/ GetBlob(h) \/ GetLatestRevision(h)
             \/ GetRevisionByNumber(h) \/ EndBatch(h) \/ Reply(h)
    BY <2>3 DEF Fail, ListRevisions, GetUpload, GetBlob, GetLatestRevision,
                GetRevisionByNumber, EndBatch, Reply, tables
  <2> QED BY <1>2, <2>1, <2>2, <2>3 DEF Carry
<1>3. ASSUME NEW a \in Actors, GetPackageOwner(a) \/ CanAccess(a) PROVE UNCHANGED releases
  BY <1>3 DEF GetPackageOwner, CanAccess, Judged, RequirePackageManage, vars, tables
<1>4. ASSUME NEW v \in Viewers, GetPackageToView(v) \/ EndView(v) PROVE UNCHANGED releases
  BY <1>4 DEF GetPackageToView, EndView, vars, tables
<1>5. CASE Administer
  BY <1>5 DEF Administer, vars, tables
<1> QED BY <1>1, <1>2, <1>3, <1>4, <1>5 DEF AccessNext, Actors

\* A release request never moves a channel that its token does not list
\* (enforceChannelRestriction), and nothing but a release request moves one.
THEOREM ChannelsMoveAsGranted == AccessSpec => ChannelsAsGranted
<1>1. ASSUME AccessInv, [AccessNext]_accessVars PROVE [ChannelsMove]_accessVars
  <2>1. CASE UNCHANGED accessVars
    BY <2>1
  <2>2. ASSUME NEW h \in Handlers, ReleaseItem(h) PROVE ChannelsMove
    BY <1>1, <2>2, ReleaseItemMovesItsChannel
  <2>3. ASSUME NEW h \in Handlers, Unregister(h) PROVE ChannelsMove
    <3>1. PICK p : p = req[h].id /\ DeletePackageRow(p)
      BY <2>3 DEF Unregister, DeletePackage
    <3>2. \A q \in DOMAIN packages' : releases'[q] = releases[q]
      BY <1>1, <3>1 DEF DeletePackageRow, AccessInv, AnswersInv, PromisesInv, IInv, TablesOK,
                        PackagesTypeOK, RevisionsTypeOK, IsTable
    <3> QED BY <3>2 DEF ChannelsMove
  <2>4. CASE AccessNext /\ \A h \in Handlers : ~ReleaseItem(h) /\ ~Unregister(h)
    <3>1. UNCHANGED releases
      BY <2>4, OthersLeaveChannels
    <3> QED BY <3>1 DEF ChannelsMove
  <2> QED BY <1>1, <2>1, <2>2, <2>3, <2>4
<1>2. [][ChannelsMove]_accessVars => ChannelsAsGranted
  BY PTL DEF ChannelsMove, ChannelsAsGranted
<1> QED BY <1>1, <1>2, AccessInvariance, PTL DEF AccessSpec

=============================================================================
