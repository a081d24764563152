------------------------------- MODULE Tokens -------------------------------
(***************************************************************************)
(* Store tokens: issue, exchange, list, revoke, expire (service/tokens.go, *)
(* auth/auth.go, repo/postgres_accounts.go, api/http_tokens.go).  Every    *)
(* request authenticates in two or three statements before its method runs *)
(* in one or two more, and tokens are revoked and expire in between.       *)
(*                                                                         *)
(* A session id stands for its secret and for the hash of it, all three    *)
(* fresh and random.  A request without a credential, or with a secret     *)
(* that was never handed out, is refused before it changes anything and is *)
(* left out; so are the columns that describe an account, and what comes   *)
(* after the authentication of a request that is not about tokens.         *)
(***************************************************************************)
EXTENDS Naturals

CONSTANTS
  Handlers,            \* the requests in flight at a time
  Subjects,            \* who an OIDC or development token names
  DevSubject,          \* "dev-auto" under EnableInsecureDevAuth, None without it
  AccountIds, Sessions,
  Permissions, DefaultPermissions, Channels, Packages,
  Requested,           \* the restrictions that issue requests ask for
  TTLs, DefaultTTL,    \* lifetimes, positive
  MaxTime,             \* bound of the clock
  None

Scopes == [permissions : SUBSET Permissions, channels : SUBSET Channels,
           packages : SUBSET Packages]

ASSUME SubjectsAssumption == None \notin Subjects /\ DevSubject \in Subjects \cup {None}
ASSUME IdsAssumption == None \notin AccountIds /\ None \notin Sessions
ASSUME ScopesAssumption == DefaultPermissions \subseteq Permissions /\ Requested \subseteq Scopes
ASSUME TimesAssumption == TTLs \subseteq Nat \ {0} /\ DefaultTTL \in Nat \ {0} /\ MaxTime \in Nat

VARIABLES
  now,       \* the clock of the registry and of the database
  accounts,  \* subject -> id
  tokens,    \* session id -> row of store_tokens
  held,      \* sessions whose secret a client was handed
  req

tokenVars == <<now, accounts, tokens, held, req>>

Put(f, k, v) == [x \in DOMAIN f \cup {k} |-> IF x = k THEN v ELSE f[x]]
Empty == [x \in {} |-> None]

TokenRow == [account : AccountIds, scope : Scopes, until : Nat, revoked : BOOLEAN]

ASSUME RowAssumption == None \notin TokenRow

Unrestricted == [permissions |-> {}, channels |-> {}, packages |-> {}]

\* storeToken.RevokedAt != nil || storeToken.ValidUntil.Before(now)
Dead(s) == tokens[s].revoked \/ tokens[s].until < now

Operations == {"issue", "exchange", "revoke", "list"}

\* secret: the session that is presented; row: its row, as it was read; fresh, new:
\* the token being made; stale: whether the token was dead when the request arrived.
Quiet ==
  [step |-> "Idle", op |-> "list", secret |-> None, subject |-> None, row |-> None,
   account |-> None, fresh |-> None, new |-> None, target |-> None, listing |-> Empty,
   stale |-> FALSE]

AtStep(h, step) == req[h].step = step

TokensInit ==
  /\ now = 0
  /\ accounts = Empty
  /\ tokens = Empty
  /\ held = {}
  /\ req = [h \in Handlers |-> Quiet]

-----------------------------------------------------------------------------
(* Authentication: Authenticate (or AuthenticateToken), ResolveIdentity. *)

\* An OIDC or development token: the claims, and no call.
StartWithClaims(h) ==
  /\ AtStep(h, "Idle")
  /\ \E op \in Operations, subject \in Subjects :
       req' = [req EXCEPT ![h] =
         [Quiet EXCEPT !.step = "EnsureAccount", !.op = op, !.subject = subject]]
  /\ UNCHANGED <<now, accounts, tokens, held>>

\* handleIssueToken without a credential, under EnableInsecureDevAuth.
StartAnonymous(h) ==
  /\ AtStep(h, "Idle") /\ DevSubject # None
  /\ req' = [req EXCEPT ![h] =
       [Quiet EXCEPT !.step = "EnsureAccount", !.op = "issue", !.subject = DevSubject]]
  /\ UNCHANGED <<now, accounts, tokens, held>>

\* A store token, in the Authorization header or, to be exchanged, in Macaroons.
StartWithSecret(h) ==
  /\ AtStep(h, "Idle")
  /\ \E op \in Operations, s \in held :
       req' = [req EXCEPT ![h] =
         [Quiet EXCEPT !.step = "FindStoreTokenByHash", !.op = op, !.secret = s,
                       !.stale = Dead(s)]]
  /\ UNCHANGED <<now, accounts, tokens, held>>

\* The row, joined with that of its account.
FindStoreTokenByHash(h) ==
  LET row == tokens[req[h].secret] IN
  /\ AtStep(h, "FindStoreTokenByHash")
  /\ \E subject \in DOMAIN accounts :
       /\ accounts[subject] = row.account
       /\ req' = [req EXCEPT ![h].step = "CheckToken", ![h].row = row, ![h].subject = subject]
  /\ UNCHANGED <<now, accounts, tokens, held>>

\* A slip: an expired token is refused, a revoked one is not.
CheckExpiryOnly(h) ==
  /\ AtStep(h, "CheckToken")
  /\ req' = [req EXCEPT ![h] =
       IF req[h].row.until < now THEN Quiet ELSE [@ EXCEPT !.step = "EnsureAccount"]]
  /\ UNCHANGED <<now, accounts, tokens, held>>

\* The row that was read, against the clock of this moment.
CheckToken(h) ==
  /\ AtStep(h, "CheckToken")
  /\ req' = [req EXCEPT ![h] =
       IF req[h].row.revoked \/ req[h].row.until < now
       THEN Quiet ELSE [@ EXCEPT !.step = "EnsureAccount"]]
  /\ UNCHANGED <<now, accounts, tokens, held>>

Method(op) ==
  CASE op \in {"issue", "exchange"} -> "IssueStoreToken"
    [] op = "revoke"                -> "RevokeStoreToken"
    [] op = "list"                  -> "ListStoreTokens"

\* The identity: the account's id and the token.  What is not used again is dropped.
Identified(q, id) ==
  [q EXCEPT !.step = Method(q.op), !.account = id, !.subject = None,
            !.row = IF q.op = "exchange" THEN q.row ELSE None]

\* A slip: the id is among the columns that an existing row is given.
EnsureAccountOverwritingId(h) ==
  /\ AtStep(h, "EnsureAccount")
  /\ \E id \in AccountIds :
       /\ \A subject \in DOMAIN accounts : accounts[subject] # id
       /\ accounts' = Put(accounts, req[h].subject, id)
  /\ req' = [req EXCEPT ![h] = Identified(@, accounts'[@.subject])]
  /\ UNCHANGED <<now, tokens, held>>

\* INSERT ... ON CONFLICT (subject) DO UPDATE ... RETURNING id: the row that is
\* there, or a new one with a new id.
EnsureAccount(h) ==
  /\ AtStep(h, "EnsureAccount")
  /\ \/ req[h].subject \in DOMAIN accounts /\ UNCHANGED accounts
     \/ /\ req[h].subject \notin DOMAIN accounts
        /\ \E id \in AccountIds :
             /\ \A subject \in DOMAIN accounts : accounts[subject] # id
             /\ accounts' = Put(accounts, req[h].subject, id)
  /\ req' = [req EXCEPT ![h] = Identified(@, accounts'[@.subject])]
  /\ UNCHANGED <<now, tokens, held>>

-----------------------------------------------------------------------------
(* The methods. *)

\* A slip: the permissions and packages are carried over, the channels are not.
AskedForWithoutChannels(h) ==
  IF req[h].op = "issue" THEN Requested
  ELSE IF req[h].row = None THEN {Unrestricted}
  ELSE {[req[h].row.scope EXCEPT !.channels = {}]}

\* What the token is to be restricted to: an exchange takes over the restrictions
\* of the token it was authenticated with.
AskedFor(h) ==
  IF req[h].op = "issue" THEN Requested
  ELSE IF req[h].row = None THEN {Unrestricted}
  ELSE {req[h].row.scope}

\* No permissions mean the default ones.
Granted(scope) ==
  IF scope.permissions = {} THEN [scope EXCEPT !.permissions = DefaultPermissions] ELSE scope

Fresh(s) == s \notin DOMAIN tokens /\ \A h \in Handlers : req[h].fresh # s

\* The token is made of what the request knows and of the time it is now.
IssueStoreToken(h) ==
  /\ AtStep(h, "IssueStoreToken")
  /\ \E s \in Sessions, scope \in AskedFor(h),
        ttl \in IF req[h].op = "issue" THEN TTLs \cup {DefaultTTL} ELSE {DefaultTTL} :
       /\ Fresh(s)
       /\ req' = [req EXCEPT ![h].step = "CreateStoreToken", ![h].fresh = s,
            ![h].new = [account |-> req[h].account, scope |-> Granted(scope),
                        until |-> now + ttl, revoked |-> FALSE]]
  /\ UNCHANGED <<now, accounts, tokens, held>>

\* A slip: the error of the insert is ignored.
CreateStoreTokenIgnoringError(h) ==
  /\ AtStep(h, "CreateStoreToken")
  /\ tokens' \in {tokens, Put(tokens, req[h].fresh, req[h].new)}
  /\ req' = [req EXCEPT ![h].step = "Reply"]
  /\ UNCHANGED <<now, accounts, held>>

CreateStoreToken(h) ==
  /\ AtStep(h, "CreateStoreToken")
  /\ tokens' = Put(tokens, req[h].fresh, req[h].new)
  /\ req' = [req EXCEPT ![h].step = "Reply"]
  /\ UNCHANGED <<now, accounts, held>>

\* A slip: revoking twice takes the revocation back.
RevokeStoreTokenToggling(h) ==
  /\ AtStep(h, "RevokeStoreToken")
  /\ \E s \in DOMAIN tokens :
       /\ tokens[s].account = req[h].account
       /\ tokens' = [tokens EXCEPT ![s].revoked = ~@]
       /\ req' = [req EXCEPT ![h].step = "ListStoreTokens", ![h].target = s]
  /\ UNCHANGED <<now, accounts, held>>

\* UPDATE ... WHERE account_id AND session_id; no row is repo.ErrNotFound.
RevokeStoreToken(h) ==
  /\ AtStep(h, "RevokeStoreToken")
  /\ \E s \in DOMAIN tokens :
       /\ tokens[s].account = req[h].account
       /\ tokens' = [tokens EXCEPT ![s].revoked = TRUE]
       /\ req' = [req EXCEPT ![h].step = "ListStoreTokens", ![h].target = s]
  /\ UNCHANGED <<now, accounts, held>>

\* A slip: the list that answers a revocation is the list of active tokens.
ShownActive(h, s, inactive) == ~tokens[s].revoked /\ tokens[s].until > now

\* WHERE account_id [AND revoked_at IS NULL AND valid_until > NOW()]
Shown(h, s, inactive) == inactive \/ (~tokens[s].revoked /\ tokens[s].until > now)

\* The answer to a list request, and to a revocation, which wants them all.
ListStoreTokens(h) ==
  /\ AtStep(h, "ListStoreTokens")
  /\ \E inactive \in IF req[h].op = "revoke" THEN {TRUE} ELSE BOOLEAN :
       req' = [req EXCEPT ![h].step = "Reply",
         ![h].listing = [s \in {t \in DOMAIN tokens : tokens[t].account = req[h].account
                                                      /\ Shown(h, t, inactive)}
                           |-> tokens[s].revoked]]
  /\ UNCHANGED <<now, accounts, tokens, held>>

\* The answer reaches the client; that of issue and exchange holds the secret.
Reply(h) ==
  /\ AtStep(h, "Reply")
  /\ held' = held \cup ({req[h].fresh} \ {None})
  /\ req' = [req EXCEPT ![h] = Quiet]
  /\ UNCHANGED <<now, accounts, tokens>>

\* An error, a cancelled request, a crash, a lost answer.
Fail(h) ==
  /\ ~AtStep(h, "Idle")
  /\ req' = [req EXCEPT ![h] = Quiet]
  /\ UNCHANGED <<now, accounts, tokens, held>>

Tick == now < MaxTime /\ now' = now + 1 /\ UNCHANGED <<accounts, tokens, held, req>>

Step(h) ==
  \/ StartWithClaims(h) \/ StartAnonymous(h) \/ StartWithSecret(h)
  \/ FindStoreTokenByHash(h) \/ CheckToken(h) \/ EnsureAccount(h)
  \/ IssueStoreToken(h) \/ CreateStoreToken(h) \/ RevokeStoreToken(h)
  \/ ListStoreTokens(h) \/ Reply(h) \/ Fail(h)

TokensNext == Tick \/ \E h \in Handlers : Step(h)

TokensSpec == TokensInit /\ [][TokensNext]_tokenVars

-----------------------------------------------------------------------------
(***************************************************************************)
(* Properties.                                                             *)
(***************************************************************************)

\* Rows and requests keep their shape; accounts have different ids, which is the
\* primary key; a secret is handed out only for a row that is there.
TokensTypeOK ==
  /\ now \in 0..MaxTime
  /\ DOMAIN accounts \subseteq Subjects
  /\ \A subject \in DOMAIN accounts : accounts[subject] \in AccountIds
  /\ \A x, y \in DOMAIN accounts : accounts[x] = accounts[y] => x = y
  /\ DOMAIN tokens \subseteq Sessions /\ held \subseteq DOMAIN tokens
  /\ \A s \in DOMAIN tokens : tokens[s] \in TokenRow
  /\ \A h \in Handlers : LET q == req[h] IN
       /\ q.op \in Operations
       /\ q.secret \in held \cup {None} /\ q.subject \in Subjects \cup {None}
       /\ q.row \in TokenRow \cup {None} /\ q.new \in TokenRow \cup {None}
       /\ q.account \in AccountIds \cup {None}
       /\ q.fresh \in Sessions \cup {None} /\ q.target \in DOMAIN tokens \cup {None}
       /\ DOMAIN q.listing \subseteq DOMAIN tokens
       /\ q.stale \in BOOLEAN

\* A request acts for the account its token belongs to, although the account is
\* looked up again by subject, by a statement that writes; and what it lists is
\* that account's.
ActsForOwner ==
  \A h \in Handlers : LET q == req[h] IN
    /\ q.secret # None /\ q.account # None => q.account = tokens[q.secret].account
    /\ \A s \in DOMAIN q.listing : tokens[s].account = q.account

\* A token that was revoked or had expired before a request arrived does not
\* authenticate that request.
DeadTokensAreRefused ==
  \A h \in Handlers :
    req[h].step \notin {"Idle", "FindStoreTokenByHash", "CheckToken"} => ~req[h].stale

\* A token that is revoked or has expired stays so; no later request revives it.
DeadForGood == [][\A s \in DOMAIN tokens : Dead(s) => Dead(s)']_tokenVars

\* The token that an exchange creates belongs to the account of the token it was
\* exchanged for and has exactly its restrictions, whatever became of that token
\* since it was read.
ExchangeKeepsRestrictions ==
  [][\A h \in Handlers :
       AtStep(h, "CreateStoreToken") /\ AtStep(h, "Reply")' /\ req[h].op = "exchange"
         /\ req[h].secret # None
       => LET old == tokens[req[h].secret] new == tokens'[req[h].fresh] IN
          new.account = old.account /\ new.scope = old.scope]_tokenVars

\* The answer to a revocation shows the session as revoked, although the list is
\* read by a statement of its own.
RevocationIsShown ==
  \A h \in Handlers : LET q == req[h] IN
    q.op = "revoke" /\ q.step = "Reply" => q.target \in DOMAIN q.listing /\ q.listing[q.target]

=============================================================================
