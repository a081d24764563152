---------------------------- MODULE TokensProofs ----------------------------
(***************************************************************************)
(* Proofs about Tokens, for every set of handlers, subjects, ids and       *)
(* scopes and every lifetime.                                              *)
(*                                                                         *)
(* A request works on what it read in earlier statements while others      *)
(* write.  The inductive invariant TokensInv says, for every request, what *)
(* it still knows (InFlight); Ages says how any statement may change what  *)
(* was read: rows never go or change hands, revocations stay, time passes. *)
(***************************************************************************)
EXTENDS Tokens, TLAPS

TokenSteps == {"Idle", "FindStoreTokenByHash", "CheckToken", "EnsureAccount",
               "IssueStoreToken", "CreateStoreToken", "RevokeStoreToken",
               "ListStoreTokens", "Reply"}

\* An answer to a listing: session -> revoked.
TokenListings == UNION {[S -> BOOLEAN] : S \in SUBSET Sessions}

TokenRequest ==
  [step : TokenSteps, op : Operations, secret : Sessions \cup {None},
   subject : Subjects \cup {None}, row : TokenRow \cup {None},
   account : AccountIds \cup {None}, fresh : Sessions \cup {None},
   new : TokenRow \cup {None}, target : Sessions \cup {None},
   listing : TokenListings, stale : BOOLEAN]

\* Default permissions have been filled in.
Complete(scope) == scope.permissions = {} => DefaultPermissions = {}

\* Accounts and tokens: each account has its own id, each row is complete, and a
\* secret is out only for a row that is there.
StoreOK ==
  /\ now \in 0..MaxTime
  /\ DOMAIN accounts \subseteq Subjects
  /\ \A subject \in DOMAIN accounts : accounts[subject] \in AccountIds
  /\ \A x, y \in DOMAIN accounts : accounts[x] = accounts[y] => x = y
  /\ DOMAIN tokens \subseteq Sessions /\ held \subseteq DOMAIN tokens
  /\ \A s \in DOMAIN tokens : tokens[s] \in TokenRow /\ Complete(tokens[s].scope)

Authenticating == {"Idle", "FindStoreTokenByHash", "CheckToken", "EnsureAccount"}
Creating == {"CreateStoreToken", "Reply"}

\* row is what was read of the row of session s.
ReadOf(row, s) ==
  /\ row \in TokenRow /\ row.account = tokens[s].account /\ row.scope = tokens[s].scope
  /\ row.until = tokens[s].until /\ (row.revoked => tokens[s].revoked)

\* What a request that presented a secret knows.
KnowsSecret(q) ==
  q.secret # None =>
    /\ q.secret \in held
    /\ q.step = "FindStoreTokenByHash" /\ q.stale => Dead(q.secret)
    /\ q.step \in {"CheckToken", "EnsureAccount"} =>
         /\ ReadOf(q.row, q.secret)
         /\ q.subject \in DOMAIN accounts /\ accounts[q.subject] = q.row.account
    /\ q.step = "CheckToken" /\ q.stale => q.row.revoked \/ q.row.until < now
    /\ q.account # None => q.account = tokens[q.secret].account
    /\ q.step = "IssueStoreToken" /\ q.op = "exchange" => ReadOf(q.row, q.secret)
    /\ q.step = "CreateStoreToken" /\ q.op = "exchange" =>
         q.new.scope = tokens[q.secret].scope

\* What a request knows of its account and of the token it makes.
KnowsWork(q) ==
  /\ q.step \in {"FindStoreTokenByHash", "CheckToken"} => q.secret # None
  /\ q.step = "EnsureAccount" => q.subject \in Subjects
  /\ q.step \in Authenticating <=> q.account = None
  /\ q.step \in {"IssueStoreToken", "CreateStoreToken"} => q.op \in {"issue", "exchange"}
  /\ q.step = "CreateStoreToken" =>
       /\ q.fresh # None /\ q.fresh \notin DOMAIN tokens
       /\ q.new \in TokenRow /\ q.new.account = q.account /\ Complete(q.new.scope)
       /\ ~q.new.revoked
  /\ q.fresh # None => q.step \in Creating
  /\ q.step = "Reply" /\ q.fresh # None => q.fresh \in DOMAIN tokens
  /\ q.target # None =>
       /\ q.step \in {"ListStoreTokens", "Reply"} /\ q.target \in DOMAIN tokens
       /\ tokens[q.target].account = q.account /\ tokens[q.target].revoked
  /\ q.step = "ListStoreTokens" /\ q.op = "revoke" => q.target # None
  /\ \A s \in DOMAIN q.listing : s \in DOMAIN tokens /\ tokens[s].account = q.account
  /\ q.step = "Reply" /\ q.op = "revoke" =>
       q.target \in DOMAIN q.listing /\ q.listing[q.target]
  /\ q.step \notin {"Idle", "FindStoreTokenByHash", "CheckToken"} => ~q.stale

InFlight(q) == KnowsSecret(q) /\ KnowsWork(q)

\* No two requests make the same token: session ids are random.
FreshIsOwn ==
  \A h, k \in Handlers : req[h].fresh = req[k].fresh /\ req[h].fresh # None => h = k

TokensInv ==
  /\ StoreOK
  /\ req \in [Handlers -> TokenRequest]
  /\ \A h \in Handlers : InFlight(req[h])
  /\ FreshIsOwn

-----------------------------------------------------------------------------
(* What a statement leaves of what was read. *)

Ages ==
  /\ now' \in Nat /\ now =< now'
  /\ held \subseteq held'
  /\ \A x \in DOMAIN accounts : x \in DOMAIN accounts' /\ accounts'[x] = accounts[x]
  /\ \A s \in DOMAIN tokens :
       /\ s \in DOMAIN tokens' /\ tokens'[s].account = tokens[s].account
       /\ tokens'[s].scope = tokens[s].scope /\ tokens'[s].until = tokens[s].until
       /\ tokens[s].revoked => tokens'[s].revoked

LEMMA DeadStaysDead ==
  ASSUME StoreOK, Ages, NEW s \in DOMAIN tokens, Dead(s)
  PROVE  Dead(s)'
BY DEF StoreOK, Ages, Dead, TokenRow

\* What a request that does not move knows of the secret stays true.
LEMMA KnowsSecretIsStable ==
  ASSUME StoreOK, Ages, NEW q \in TokenRequest, KnowsSecret(q)
  PROVE  KnowsSecret(q)'
<1> SUFFICES ASSUME q.secret # None PROVE KnowsSecret(q)'
  BY DEF KnowsSecret
<1>1. q.secret \in held /\ q.secret \in DOMAIN tokens /\ q.secret \in held'
  BY DEF KnowsSecret, StoreOK, Ages
<1>2. ASSUME ReadOf(q.row, q.secret) PROVE ReadOf(q.row, q.secret)'
  BY <1>1, <1>2 DEF ReadOf, Ages
<1>3. q.step = "FindStoreTokenByHash" /\ q.stale => Dead(q.secret)'
  BY <1>1, DeadStaysDead DEF KnowsSecret
<1>4. q.step = "CheckToken" /\ q.stale => q.row.revoked \/ q.row.until < now'
  <2> SUFFICES ASSUME q.step = "CheckToken", q.stale, ~q.row.revoked PROVE q.row.until < now'
    OBVIOUS
  <2>1. q.row.until < now /\ q.row \in TokenRow
    BY DEF KnowsSecret, ReadOf
  <2>2. q.row.until \in Nat
    BY <2>1 DEF TokenRow
  <2> QED BY <2>1, <2>2 DEF Ages, StoreOK
<1>5. q.step \in {"CheckToken", "EnsureAccount"} =>
        /\ ReadOf(q.row, q.secret)'
        /\ q.subject \in DOMAIN accounts' /\ accounts'[q.subject] = q.row.account
  BY <1>2 DEF KnowsSecret, Ages
<1>6. q.step = "IssueStoreToken" /\ q.op = "exchange" => ReadOf(q.row, q.secret)'
  BY <1>2 DEF KnowsSecret
<1>7. /\ q.account # None => q.account = tokens'[q.secret].account
      /\ q.step = "CreateStoreToken" /\ q.op = "exchange" =>
           q.new.scope = tokens'[q.secret].scope
  BY <1>1 DEF KnowsSecret, Ages
<1> QED BY <1>1, <1>3, <1>4, <1>5, <1>6, <1>7 DEF KnowsSecret

\* So does what it knows of its work, as long as its fresh session is its own.
LEMMA KnowsWorkIsStable ==
  ASSUME Ages, NEW q \in TokenRequest, KnowsWork(q),
         q.fresh \in DOMAIN tokens' => q.fresh \in DOMAIN tokens
  PROVE  KnowsWork(q)'
BY DEF Ages, KnowsWork

\* A step of one handler keeps TokensInv when its statement keeps the tables, no
\* other request's fresh session is taken, and its own next request is in order.
LEMMA HandlerStep ==
  ASSUME TokensInv, NEW h \in Handlers, StoreOK', Ages,
         NEW q \in TokenRequest, req' = [req EXCEPT ![h] = q], InFlight(q)',
         \A k \in Handlers \ {h} : req[k].fresh # None =>
           /\ req[k].fresh # q.fresh
           /\ req[k].fresh \in DOMAIN tokens' => req[k].fresh \in DOMAIN tokens
  PROVE  TokensInv' /\ Ages
<1>1. /\ req' \in [Handlers -> TokenRequest] /\ req'[h] = q
      /\ \A k \in Handlers \ {h} : req'[k] = req[k]
  BY DEF TokensInv
<1>2. ASSUME NEW k \in Handlers \ {h} PROVE InFlight(req[k])'
  <2>1. req[k] \in TokenRequest /\ KnowsSecret(req[k]) /\ KnowsWork(req[k]) /\ StoreOK
    BY DEF TokensInv, InFlight
  <2> DEFINE r == req[k]
  <2>2. r.fresh \in DOMAIN tokens' => r.fresh \in DOMAIN tokens
    <3>1. CASE r.fresh # None
      BY <3>1
    <3>2. CASE r.fresh = None
      BY <3>2, IdsAssumption DEF StoreOK
    <3> QED BY <3>1, <3>2
  <2>3. /\ req'[k] = req[k]
    BY <1>1
  <2> HIDE DEF r
  <2>4. ASSUME NEW x \in TokenRequest, x = r, KnowsSecret(x), KnowsWork(x)
        PROVE  KnowsSecret(x)' /\ KnowsWork(x)'
    BY <2>1, <2>2, <2>4, KnowsSecretIsStable, KnowsWorkIsStable
  <2> QED BY <2>1, <2>3, <2>4 DEF r, InFlight, KnowsSecret, KnowsWork, ReadOf, Dead
<1>3. FreshIsOwn'
  BY <1>1 DEF FreshIsOwn, TokensInv
<1>4. \A k \in Handlers : InFlight(req[k])'
  BY <1>1, <1>2 DEF InFlight, KnowsSecret, KnowsWork, ReadOf, Dead
<1> QED BY <1>1, <1>3, <1>4 DEF TokensInv

-----------------------------------------------------------------------------
(* TokensInv is inductive. *)

\* The idle request is a request that relies on nothing.
LEMMA QuietIsRequest == Quiet \in TokenRequest /\ InFlight(Quiet) /\ InFlight(Quiet)'
<1>1. Empty \in [{} -> BOOLEAN] /\ DOMAIN Empty = {}
  BY DEF Empty
<1>2. Empty \in TokenListings
  BY <1>1 DEF TokenListings
<1>3. Quiet \in TokenRequest
  BY <1>2 DEF Quiet, TokenRequest, TokenSteps, Operations
<1> QED BY <1>1, <1>3 DEF Quiet, InFlight, KnowsSecret, KnowsWork, Authenticating

\* A call that only reads.
LEMMA ReadsKeepStore ==
  ASSUME StoreOK, UNCHANGED <<now, accounts, tokens, held>>
  PROVE  StoreOK' /\ Ages
BY TimesAssumption DEF StoreOK, Ages, TokenRow

LEMMA InitTokensInv == TokensInit => TokensInv
<1> SUFFICES ASSUME TokensInit PROVE TokensInv
  OBVIOUS
<1>1. StoreOK
  BY TimesAssumption DEF TokensInit, StoreOK, Empty
<1>2. Quiet.fresh = None
  BY DEF Quiet
<1> QED BY <1>1, <1>2, QuietIsRequest DEF TokensInit, TokensInv, FreshIsOwn

\* A request that is over relies on nothing.
LEMMA QuietStep ==
  ASSUME TokensInv, NEW h \in Handlers, StoreOK', Ages, DOMAIN tokens' = DOMAIN tokens,
         req' = [req EXCEPT ![h] = Quiet]
  PROVE  TokensInv' /\ Ages
<1>1. Quiet.fresh = None
  BY DEF Quiet
<1> QED BY <1>1, QuietIsRequest, HandlerStep

\* A request that reads and has no fresh session of its own.
LEMMA ReaderStep ==
  ASSUME TokensInv, NEW h \in Handlers, UNCHANGED <<now, accounts, tokens, held>>,
         NEW q \in TokenRequest, req' = [req EXCEPT ![h] = q], InFlight(q), q.fresh = None
  PROVE  TokensInv' /\ Ages
<1>1. StoreOK' /\ Ages
  BY ReadsKeepStore DEF TokensInv
<1>2. InFlight(q)'
  BY DEF InFlight, KnowsSecret, KnowsWork, ReadOf, Dead
<1> QED BY <1>1, <1>2, HandlerStep

\* The claims, or the secret, that a request brings.
LEMMA StartStep ==
  ASSUME TokensInv, NEW h \in Handlers,
         StartWithClaims(h) \/ StartAnonymous(h) \/ StartWithSecret(h)
  PROVE  TokensInv' /\ Ages
<1> DEFINE claims(op, subject) ==
             [Quiet EXCEPT !.step = "EnsureAccount", !.op = op, !.subject = subject]
<1>1. ASSUME NEW op \in Operations, NEW subject \in Subjects,
             req' = [req EXCEPT ![h] = claims(op, subject)],
             UNCHANGED <<now, accounts, tokens, held>>
      PROVE  TokensInv' /\ Ages
  <2>1. claims(op, subject) \in TokenRequest
    BY QuietIsRequest DEF TokenRequest, TokenSteps
  <2>2. InFlight(claims(op, subject)) /\ claims(op, subject).fresh = None
    BY SubjectsAssumption DEF Quiet, InFlight, KnowsSecret, KnowsWork, Authenticating, Empty
  <2> QED BY <1>1, <2>1, <2>2, ReaderStep
<1>2. CASE StartWithClaims(h)
  BY <1>1, <1>2 DEF StartWithClaims
<1>3. CASE StartAnonymous(h)
  <2>1. "issue" \in Operations /\ DevSubject \in Subjects
    BY <1>3, SubjectsAssumption DEF StartAnonymous, Operations
  <2> QED BY <1>1, <1>3, <2>1 DEF StartAnonymous
<1>4. CASE StartWithSecret(h)
  <2>1. PICK op \in Operations, s \in held :
          req' = [req EXCEPT ![h] =
            [Quiet EXCEPT !.step = "FindStoreTokenByHash", !.op = op, !.secret = s,
                          !.stale = Dead(s)]]
    BY <1>4 DEF StartWithSecret
  <2> DEFINE q == [Quiet EXCEPT !.step = "FindStoreTokenByHash", !.op = op, !.secret = s,
                                !.stale = Dead(s)]
  <2>2. s \in Sessions /\ s \in DOMAIN tokens /\ s # None
    BY IdsAssumption DEF TokensInv, StoreOK
  <2>3. Dead(s) \in BOOLEAN
    BY <2>2 DEF Dead, TokensInv, StoreOK, TokenRow
  <2>4. q \in TokenRequest
    BY <2>2, <2>3, QuietIsRequest DEF TokenRequest, TokenSteps
  <2>5. InFlight(q) /\ q.fresh = None
    BY <2>2 DEF Quiet, InFlight, KnowsSecret, KnowsWork, Authenticating, Empty
  <2> QED BY <1>4, <2>1, <2>4, <2>5, ReaderStep DEF StartWithSecret
<1> QED BY <1>2, <1>3, <1>4

\* The lookup of the secret, and the decision on the row that it found.
LEMMA AuthenticateStep ==
  ASSUME TokensInv, NEW h \in Handlers, FindStoreTokenByHash(h) \/ CheckToken(h)
  PROVE  TokensInv' /\ Ages
<1> DEFINE q == req[h]
<1>1. q \in TokenRequest /\ KnowsSecret(q) /\ KnowsWork(q) /\ StoreOK
  BY DEF TokensInv, InFlight
<1>2. CASE FindStoreTokenByHash(h)
  <2>1. /\ q.step = "FindStoreTokenByHash" /\ q.secret # None
        /\ q.secret \in held /\ q.secret \in DOMAIN tokens
        /\ q.account = None /\ q.fresh = None /\ q.target = None
    BY <1>1, <1>2 DEF FindStoreTokenByHash, AtStep, KnowsWork, KnowsSecret, StoreOK,
                      Authenticating, Creating
  <2>2. PICK subject \in DOMAIN accounts :
          /\ accounts[subject] = tokens[q.secret].account
          /\ req' = [req EXCEPT ![h].step = "CheckToken", ![h].row = tokens[q.secret],
                                ![h].subject = subject]
    BY <1>2 DEF FindStoreTokenByHash
  <2> DEFINE r == [q EXCEPT !.step = "CheckToken", !.row = tokens[q.secret],
                            !.subject = subject]
  <2>3. req' = [req EXCEPT ![h] = r]
    BY <2>2 DEF TokensInv
  <2>4. r \in TokenRequest
    BY <1>1, <2>1 DEF TokenRequest, TokenSteps, StoreOK
  <2>5. /\ r.step = "CheckToken" /\ r.row = tokens[q.secret] /\ r.subject = subject
        /\ r.op = q.op /\ r.secret = q.secret /\ r.account = None /\ r.fresh = None
        /\ r.target = None /\ r.listing = q.listing /\ r.stale = q.stale
    BY <1>1, <2>1 DEF TokenRequest
  <2> HIDE DEF r
  <2>6. KnowsSecret(r)
    BY <1>1, <2>1, <2>2, <2>5 DEF KnowsSecret, ReadOf, StoreOK, Dead
  <2>7. KnowsWork(r)
    BY <1>1, <2>1, <2>5 DEF KnowsWork, Authenticating
  <2> QED BY <1>2, <2>3, <2>4, <2>5, <2>6, <2>7, ReaderStep DEF InFlight, FindStoreTokenByHash
<1>3. CASE CheckToken(h)
  <2>1. CASE q.row.revoked \/ q.row.until < now
    <3>1. req' = [req EXCEPT ![h] = Quiet]
      BY <1>3, <2>1 DEF CheckToken
    <3>2. StoreOK' /\ Ages /\ DOMAIN tokens' = DOMAIN tokens
      BY <1>1, <1>3, ReadsKeepStore DEF CheckToken
    <3> QED BY <3>1, <3>2, QuietStep
  <2>2. CASE ~(q.row.revoked \/ q.row.until < now)
    <3> DEFINE r == [q EXCEPT !.step = "EnsureAccount"]
    <3>1. req' = [req EXCEPT ![h] = r]
      BY <1>3, <2>2 DEF CheckToken, TokensInv
    <3>2. r \in TokenRequest
      BY <1>1 DEF TokenRequest, TokenSteps
    <3>3. /\ q.step = "CheckToken" /\ q.account = None /\ q.fresh = None /\ q.target = None
          /\ ~q.stale /\ q.secret # None
      BY <1>1, <1>3, <2>2 DEF CheckToken, AtStep, KnowsSecret, KnowsWork, Authenticating,
                              Creating, TokenRequest
    <3>4. /\ r.step = "EnsureAccount" /\ r.row = q.row /\ r.subject = q.subject
          /\ r.op = q.op /\ r.secret = q.secret /\ r.account = None /\ r.fresh = None
          /\ r.target = None /\ r.listing = q.listing /\ r.stale = q.stale
      BY <1>1, <3>3 DEF TokenRequest
    <3> HIDE DEF r
    <3>5. KnowsSecret(r)
      BY <1>1, <3>3, <3>4 DEF KnowsSecret, ReadOf
    <3>6. KnowsWork(r)
      BY <1>1, <3>3, <3>4, <3>5 DEF KnowsWork, KnowsSecret, Authenticating, StoreOK
    <3> QED BY <1>3, <3>1, <3>2, <3>4, <3>5, <3>6, ReaderStep DEF InFlight, CheckToken
  <2> QED BY <2>1, <2>2
<1> QED BY <1>2, <1>3

\* The account's id, by a statement that may insert its row.
LEMMA EnsureAccountStep ==
  ASSUME TokensInv, NEW h \in Handlers, EnsureAccount(h)
  PROVE  TokensInv' /\ Ages
<1>1. PICK q \in TokenRequest : q = req[h] /\ KnowsSecret(q) /\ KnowsWork(q) /\ StoreOK
  BY DEF TokensInv, InFlight
<1>2. PICK id : id = accounts'[q.subject]
  OBVIOUS
<1>3. /\ q.step = "EnsureAccount" /\ q.subject \in Subjects
      /\ q.account = None /\ q.fresh = None /\ q.target = None /\ ~q.stale
      /\ UNCHANGED <<now, tokens, held>>
  BY <1>1 DEF EnsureAccount, AtStep, KnowsWork, Authenticating, Creating
<1>4. StoreOK' /\ Ages /\ id \in AccountIds
      /\ (q.subject \in DOMAIN accounts => id = accounts[q.subject])
  <2>1. CASE q.subject \in DOMAIN accounts
    <3>1. UNCHANGED accounts
      BY <1>1, <2>1 DEF EnsureAccount
    <3> QED BY <1>1, <1>2, <1>3, <2>1, <3>1, ReadsKeepStore DEF StoreOK
  <2>2. CASE q.subject \notin DOMAIN accounts
    <3>1. PICK new \in AccountIds :
            /\ \A x \in DOMAIN accounts : accounts[x] # new
            /\ accounts' = Put(accounts, q.subject, new)
      BY <1>1, <2>2 DEF EnsureAccount
    <3>2. /\ DOMAIN accounts' = DOMAIN accounts \cup {q.subject} /\ id = new
          /\ \A x \in DOMAIN accounts : accounts'[x] = accounts[x]
      BY <1>2, <2>2, <3>1 DEF Put
    <3>3. \A x, y \in DOMAIN accounts' : accounts'[x] = accounts'[y] => x = y
      BY <1>1, <1>2, <3>1, <3>2 DEF StoreOK
    <3>4. \A x \in DOMAIN accounts' : x \in Subjects /\ accounts'[x] \in AccountIds
      BY <1>1, <1>2, <1>3, <3>2 DEF StoreOK
    <3>5. Ages
      BY <1>1, <1>3, <3>2, TimesAssumption DEF Ages, StoreOK
    <3>6. StoreOK'
      BY <1>1, <1>3, <3>3, <3>4 DEF StoreOK, Complete
    <3> QED BY <2>2, <3>2, <3>5, <3>6
  <2> QED BY <2>1, <2>2
<1>5. PICK r : r = Identified(q, id) /\ req' = [req EXCEPT ![h] = r]
  BY <1>1, <1>2 DEF EnsureAccount
<1>6. /\ r.step = Method(q.op) /\ r.account = id /\ r.subject = None
      /\ r.row = IF q.op = "exchange" THEN q.row ELSE None
      /\ r.op = q.op /\ r.secret = q.secret /\ r.fresh = None /\ r.target = None
      /\ r.new = q.new /\ r.listing = q.listing /\ r.stale = q.stale
  BY <1>3, <1>5 DEF Identified, TokenRequest
<1>7. /\ Method(q.op) \in {"IssueStoreToken", "RevokeStoreToken", "ListStoreTokens"}
      /\ Method(q.op) = "IssueStoreToken" => q.op \in {"issue", "exchange"}
      /\ Method(q.op) = "ListStoreTokens" => q.op = "list"
  BY DEF Method, TokenRequest, Operations
<1>8. r \in TokenRequest
  <2>1. /\ r.step \in TokenSteps /\ r.row \in TokenRow \cup {None} /\ id \in AccountIds
    BY <1>4, <1>6, <1>7 DEF TokenRequest, TokenSteps
  <2> QED BY ZenonT(60), <1>5, <1>6, <2>1 DEF Identified, TokenRequest
<1>9. KnowsSecret(r)'
  <2> SUFFICES ASSUME q.secret # None PROVE KnowsSecret(r)'
    BY <1>6 DEF KnowsSecret
  <2>1. /\ q.secret \in held /\ ReadOf(q.row, q.secret) /\ q.subject \in DOMAIN accounts
        /\ accounts[q.subject] = q.row.account
    BY <1>1, <1>3 DEF KnowsSecret
  <2>2. id = tokens[q.secret].account
    BY <1>4, <2>1 DEF ReadOf
  <2> QED BY <1>3, <1>6, <1>7, <2>1, <2>2 DEF KnowsSecret, ReadOf
<1>10. KnowsWork(r)'
  <2>1. r.step \notin Authenticating \cup Creating \cup {"Idle"} /\ r.account # None
    BY <1>4, <1>6, <1>7, IdsAssumption DEF Authenticating, Creating
  <2>2. \A s \in DOMAIN r.listing : s \in DOMAIN tokens' /\ tokens'[s].account = r.account
    BY <1>1, <1>3, <1>6, IdsAssumption DEF KnowsWork, StoreOK, TokenRow
  <2> QED BY <1>3, <1>6, <1>7, <2>1, <2>2 DEF KnowsWork, Authenticating, Creating
<1> QED BY <1>3, <1>4, <1>5, <1>6, <1>8, <1>9, <1>10, HandlerStep DEF InFlight

\* IssueStoreToken: the new token is prepared.
LEMMA IssueStep ==
  ASSUME TokensInv, NEW h \in Handlers, IssueStoreToken(h)
  PROVE  TokensInv' /\ Ages
<1>1. PICK q \in TokenRequest : q = req[h] /\ KnowsSecret(q) /\ KnowsWork(q) /\ StoreOK
  BY DEF TokensInv, InFlight
<1>2. PICK s \in Sessions, scope \in AskedFor(h),
           ttl \in IF req[h].op = "issue" THEN TTLs \cup {DefaultTTL} ELSE {DefaultTTL} :
        /\ Fresh(s)
        /\ req' = [req EXCEPT ![h].step = "CreateStoreToken", ![h].fresh = s,
             ![h].new = [account |-> req[h].account, scope |-> Granted(scope),
                         until |-> now + ttl, revoked |-> FALSE]]
  BY DEF IssueStoreToken
<1>3. PICK row : row = [account |-> q.account, scope |-> Granted(scope),
                        until |-> now + ttl, revoked |-> FALSE]
  OBVIOUS
<1>4. PICK r : /\ r = [q EXCEPT !.step = "CreateStoreToken", !.fresh = s, !.new = row]
               /\ req' = [req EXCEPT ![h] = r]
  BY <1>1, <1>2, <1>3 DEF TokensInv
<1>5. /\ q.step = "IssueStoreToken" /\ q.account \in AccountIds /\ q.op \in {"issue", "exchange"}
      /\ q.target = None /\ ~q.stale /\ UNCHANGED <<now, accounts, tokens, held>>
  BY <1>1, IdsAssumption DEF IssueStoreToken, AtStep, KnowsWork, Authenticating, TokenRequest
<1>6. scope \in Scopes /\ (q.op = "exchange" /\ q.secret # None => scope = tokens[q.secret].scope)
  <2>1. Unrestricted \in Scopes
    BY DEF Unrestricted, Scopes
  <2>2. CASE q.op = "issue"
    BY <1>1, <1>2, <2>2, ScopesAssumption DEF AskedFor
  <2>3. CASE q.op = "exchange" /\ q.row = None
    <3>1. scope = Unrestricted
      BY <1>1, <1>2, <2>3 DEF AskedFor
    <3>2. q.secret = None
      BY <1>1, <1>5, <2>3, RowAssumption DEF KnowsSecret, ReadOf
    <3> QED BY <2>1, <2>3, <3>1, <3>2
  <2>4. CASE q.op = "exchange" /\ q.row # None
    <3>1. scope = q.row.scope /\ q.row \in TokenRow
      BY <1>1, <1>2, <2>4 DEF AskedFor, TokenRequest
    <3> QED BY <1>1, <1>5, <2>4, <3>1 DEF KnowsSecret, ReadOf, TokenRow
  <2> QED BY <1>5, <2>2, <2>3, <2>4
<1>7. /\ Granted(scope) \in Scopes /\ Complete(Granted(scope))
      /\ Complete(scope) => Granted(scope) = scope
  BY <1>6, ScopesAssumption DEF Granted, Complete, Scopes
<1>8. row \in TokenRow /\ row.account = q.account /\ row.scope = Granted(scope) /\ ~row.revoked
  <2>1. ttl \in Nat /\ now \in Nat
    BY <1>1, <1>2, TimesAssumption DEF StoreOK
  <2> QED BY <1>3, <1>5, <1>7, <2>1 DEF TokenRow
<1>9. /\ r \in TokenRequest
      /\ r.step = "CreateStoreToken" /\ r.fresh = s /\ r.new = row
      /\ r.op = q.op /\ r.secret = q.secret /\ r.account = q.account /\ r.target = None
      /\ r.listing = q.listing /\ r.stale = q.stale
  BY ZenonT(60), <1>4, <1>5, <1>8 DEF TokenRequest, TokenSteps
<1>10. q.op = "exchange" /\ q.secret # None => row.scope = tokens[q.secret].scope
  BY <1>1, <1>6, <1>7, <1>8 DEF StoreOK, KnowsSecret
<1>11. KnowsSecret(r)'
  BY <1>1, <1>5, <1>9, <1>10 DEF KnowsSecret
<1>12. KnowsWork(r)'
  BY <1>1, <1>2, <1>5, <1>7, <1>8, <1>9, IdsAssumption
     DEF KnowsWork, Authenticating, Creating, Fresh
<1>13. \A k \in Handlers : req[k].fresh # s
  BY <1>2 DEF Fresh
<1>14. StoreOK' /\ Ages
  BY <1>1, <1>5, ReadsKeepStore
<1>15. InFlight(r)'
  BY <1>9, <1>11, <1>12, <1>14 DEF InFlight
<1>16. \A k \in Handlers \ {h} : req[k].fresh # r.fresh /\ tokens' = tokens
  BY <1>5, <1>9, <1>13
<1> QED BY <1>4, <1>9, <1>14, <1>15, <1>16, HandlerStep

\* INSERT INTO store_tokens
LEMMA CreateStep ==
  ASSUME TokensInv, NEW h \in Handlers, CreateStoreToken(h)
  PROVE  TokensInv' /\ Ages
<1>1. PICK q \in TokenRequest : q = req[h] /\ KnowsSecret(q) /\ KnowsWork(q) /\ StoreOK
  BY DEF TokensInv, InFlight
<1>2. /\ q.step = "CreateStoreToken" /\ q.fresh \in Sessions \ DOMAIN tokens
      /\ q.new \in TokenRow /\ Complete(q.new.scope) /\ q.op \in {"issue", "exchange"}
      /\ q.target = None /\ q.account # None /\ ~q.stale
      /\ UNCHANGED <<now, accounts, held>>
      /\ tokens' = Put(tokens, q.fresh, q.new)
  BY <1>1 DEF CreateStoreToken, AtStep, KnowsWork, Authenticating, TokenRequest
<1>3. PICK r : r = [q EXCEPT !.step = "Reply"] /\ req' = [req EXCEPT ![h] = r]
  BY <1>1 DEF CreateStoreToken, TokensInv
<1>4. /\ DOMAIN tokens' = DOMAIN tokens \cup {q.fresh} /\ tokens'[q.fresh] = q.new
      /\ \A s \in DOMAIN tokens : tokens'[s] = tokens[s]
  BY <1>2 DEF Put
<1>5. StoreOK' /\ Ages
  BY <1>1, <1>2, <1>4, TimesAssumption DEF StoreOK, Ages, Complete
<1>6. /\ r \in TokenRequest /\ r.step = "Reply" /\ r.fresh = q.fresh
      /\ r.op = q.op /\ r.secret = q.secret /\ r.account = q.account /\ r.target = None
      /\ r.listing = q.listing /\ r.stale = q.stale
  BY <1>2, <1>3 DEF TokenRequest, TokenSteps
<1>7. KnowsSecret(r)'
  BY <1>1, <1>2, <1>4, <1>6 DEF KnowsSecret, StoreOK
<1>8. KnowsWork(r)'
  BY <1>1, <1>2, <1>4, <1>6 DEF KnowsWork, Authenticating, Creating
<1>9. \A k \in Handlers \ {h} : req[k].fresh # None =>
        /\ req[k].fresh # r.fresh
        /\ req[k].fresh \in DOMAIN tokens' => req[k].fresh \in DOMAIN tokens
  BY <1>1, <1>2, <1>4, <1>6, IdsAssumption DEF TokensInv, FreshIsOwn
<1>10. InFlight(r)'
  BY <1>5, <1>6, <1>7, <1>8 DEF InFlight
<1> QED BY <1>3, <1>5, <1>6, <1>9, <1>10, HandlerStep

\* UPDATE store_tokens SET revoked_at
LEMMA RevokeStep ==
  ASSUME TokensInv, NEW h \in Handlers, RevokeStoreToken(h)
  PROVE  TokensInv' /\ Ages
<1>1. PICK q \in TokenRequest : q = req[h] /\ KnowsSecret(q) /\ KnowsWork(q) /\ StoreOK
  BY DEF TokensInv, InFlight
<1>2. PICK s \in DOMAIN tokens :
        /\ tokens[s].account = q.account
        /\ tokens' = [tokens EXCEPT ![s].revoked = TRUE]
        /\ req' = [req EXCEPT ![h].step = "ListStoreTokens", ![h].target = s]
  BY <1>1 DEF RevokeStoreToken
<1>3. /\ q.step = "RevokeStoreToken" /\ q.fresh = None /\ q.account # None /\ ~q.stale
      /\ UNCHANGED <<now, accounts, held>>
  BY <1>1 DEF RevokeStoreToken, AtStep, KnowsWork, Authenticating, Creating
<1>4. PICK r : /\ r = [q EXCEPT !.step = "ListStoreTokens", !.target = s]
               /\ req' = [req EXCEPT ![h] = r]
  BY <1>1, <1>2 DEF TokensInv
<1>5. /\ DOMAIN tokens' = DOMAIN tokens
      /\ tokens'[s] = [tokens[s] EXCEPT !.revoked = TRUE]
      /\ \A t \in DOMAIN tokens \ {s} : tokens'[t] = tokens[t]
  BY <1>2
<1>6. \A t \in DOMAIN tokens :
        /\ tokens'[t] \in TokenRow
        /\ tokens'[t].account = tokens[t].account /\ tokens'[t].scope = tokens[t].scope
        /\ tokens'[t].until = tokens[t].until /\ (tokens[t].revoked => tokens'[t].revoked)
  BY ZenonT(60), <1>1, <1>5 DEF StoreOK, TokenRow
<1>7. tokens'[s].revoked
  BY <1>1, <1>5 DEF StoreOK, TokenRow
<1>8. StoreOK' /\ Ages
  BY <1>1, <1>3, <1>5, <1>6, TimesAssumption DEF StoreOK, Ages, Complete
<1>9. /\ r \in TokenRequest /\ r.step = "ListStoreTokens" /\ r.fresh = None
      /\ r.op = q.op /\ r.secret = q.secret /\ r.account = q.account /\ r.target = s
      /\ r.listing = q.listing /\ r.stale = q.stale
  <2>1. s \in Sessions \cup {None}
    BY <1>1 DEF StoreOK
  <2> QED BY ZenonT(60), <1>3, <1>4, <2>1 DEF TokenRequest, TokenSteps
<1>10. KnowsSecret(r)'
  BY <1>1, <1>3, <1>6, <1>9 DEF KnowsSecret, StoreOK
<1>11. KnowsWork(r)'
  <2>1. \A t \in DOMAIN r.listing : t \in DOMAIN tokens' /\ tokens'[t].account = r.account
    BY <1>1, <1>5, <1>6, <1>9 DEF KnowsWork
  <2>2. r.target # None /\ tokens'[s].account = r.account /\ s \in DOMAIN tokens'
    BY <1>1, <1>2, <1>5, <1>6, <1>9, IdsAssumption DEF StoreOK
  <2> QED BY <1>3, <1>7, <1>9, <2>1, <2>2 DEF KnowsWork, Authenticating
<1> QED BY <1>4, <1>3, <1>5, <1>8, <1>9, <1>10, <1>11, HandlerStep DEF InFlight

\* The listing that answers.
LEMMA ListStep ==
  ASSUME TokensInv, NEW h \in Handlers, ListStoreTokens(h)
  PROVE  TokensInv' /\ Ages
<1>1. PICK q \in TokenRequest : q = req[h] /\ KnowsSecret(q) /\ KnowsWork(q) /\ StoreOK
  BY DEF TokensInv, InFlight
<1>2. PICK inactive \in IF req[h].op = "revoke" THEN {TRUE} ELSE BOOLEAN :
        req' = [req EXCEPT ![h].step = "Reply",
          ![h].listing = [s \in {t \in DOMAIN tokens : tokens[t].account = req[h].account
                                                       /\ Shown(h, t, inactive)}
                            |-> tokens[s].revoked]]
  BY DEF ListStoreTokens
<1>3. PICK S : S = {t \in DOMAIN tokens : tokens[t].account = q.account
                                          /\ Shown(h, t, inactive)}
  OBVIOUS
<1>4. PICK listing : listing = [s \in S |-> tokens[s].revoked]
  OBVIOUS
<1>5. PICK r : /\ r = [q EXCEPT !.step = "Reply", !.listing = listing]
               /\ req' = [req EXCEPT ![h] = r]
  BY <1>1, <1>2, <1>3, <1>4 DEF TokensInv
<1>6. /\ q.step = "ListStoreTokens" /\ q.fresh = None /\ q.account # None /\ ~q.stale
      /\ q.op = "revoke" => /\ q.target \in DOMAIN tokens /\ tokens[q.target].revoked
                            /\ tokens[q.target].account = q.account
      /\ UNCHANGED <<now, accounts, tokens, held>>
  BY <1>1 DEF ListStoreTokens, AtStep, KnowsWork, Authenticating, Creating
<1>7. S \in SUBSET Sessions /\ listing \in [S -> BOOLEAN]
  BY <1>1, <1>3, <1>4 DEF StoreOK, TokenRow
<1>8. listing \in TokenListings
  BY <1>7 DEF TokenListings
<1>9. q.op = "revoke" => q.target \in S /\ listing[q.target]
  BY <1>1, <1>2, <1>3, <1>4, <1>6 DEF Shown
<1>10. /\ r \in TokenRequest /\ r.step = "Reply" /\ r.fresh = None
       /\ r.op = q.op /\ r.secret = q.secret /\ r.account = q.account
       /\ r.target = q.target /\ r.listing = listing /\ r.stale = q.stale
  BY ZenonT(60), <1>5, <1>6, <1>8 DEF TokenRequest, TokenSteps
<1>11. KnowsSecret(r)
  BY <1>1, <1>6, <1>10 DEF KnowsSecret
<1>12. KnowsWork(r)
  BY <1>1, <1>3, <1>4, <1>6, <1>9, <1>10 DEF KnowsWork, Authenticating, Creating
<1> QED BY <1>5, <1>6, <1>10, <1>11, <1>12, ReaderStep DEF InFlight

\* The answer, and the end of a request that fails.
LEMMA EndStep ==
  ASSUME TokensInv, NEW h \in Handlers, Reply(h) \/ Fail(h)
  PROVE  TokensInv' /\ Ages
<1>1. StoreOK /\ req[h] \in TokenRequest /\ KnowsWork(req[h])
  BY DEF TokensInv, InFlight
<1>2. StoreOK' /\ Ages /\ DOMAIN tokens' = DOMAIN tokens
  <2>1. CASE Reply(h)
    <3>1. /\ UNCHANGED <<now, accounts, tokens>> /\ held \subseteq held'
          /\ held' \subseteq DOMAIN tokens
      BY <1>1, <2>1 DEF Reply, AtStep, KnowsWork, StoreOK
    <3> QED BY <1>1, <3>1, TimesAssumption DEF StoreOK, Ages, Complete, TokenRow
  <2>2. CASE Fail(h)
    BY <1>1, <2>2, ReadsKeepStore DEF Fail
  <2> QED BY <2>1, <2>2
<1> QED BY <1>2, QuietStep DEF Reply, Fail

\* A step of the clock, and a step of nobody.
LEMMA TickStep ==
  ASSUME TokensInv, Tick \/ UNCHANGED tokenVars
  PROVE  TokensInv' /\ Ages
<1>1. StoreOK' /\ Ages /\ DOMAIN tokens' = DOMAIN tokens /\ req' = req
  BY TimesAssumption DEF Tick, tokenVars, TokensInv, StoreOK, Ages, Complete, TokenRow
<1>2. ASSUME NEW h \in Handlers PROVE InFlight(req[h])'
  <2>1. PICK q \in TokenRequest : q = req[h] /\ KnowsSecret(q) /\ KnowsWork(q) /\ StoreOK
    BY DEF TokensInv, InFlight
  <2>2. KnowsSecret(q)' /\ KnowsWork(q)'
    BY <1>1, <2>1, KnowsSecretIsStable, KnowsWorkIsStable
  <2> QED BY <1>1, <2>1, <2>2 DEF InFlight, KnowsSecret, KnowsWork, ReadOf, Dead
<1> QED BY <1>1, <1>2 DEF TokensInv, FreshIsOwn

LEMMA NextKeepsTokensInv == TokensInv /\ [TokensNext]_tokenVars => TokensInv' /\ Ages
BY StartStep, AuthenticateStep, EnsureAccountStep, IssueStep, CreateStep, RevokeStep,
   ListStep, EndStep, TickStep
   DEF TokensNext, Step

-----------------------------------------------------------------------------
(* The theorems. *)

\* What a request still knows of the rows it read, throughout.
THEOREM TokensInvariance == TokensSpec => []TokensInv
BY InitTokensInv, NextKeepsTokensInv, PTL DEF TokensSpec

\* Tokens, accounts and requests keep their shape; accounts have ids of their own,
\* however many first requests of a subject race in EnsureAccount.
THEOREM TokensTypeCorrect == TokensSpec => []TokensTypeOK
<1>1. TokensInv => TokensTypeOK
  <2> SUFFICES ASSUME TokensInv PROVE TokensTypeOK
    OBVIOUS
  <2>1. StoreOK /\ \A s \in DOMAIN tokens : tokens[s] \in TokenRow
    BY DEF TokensInv, StoreOK
  <2>2. ASSUME NEW h \in Handlers
        PROVE  /\ req[h] \in TokenRequest
               /\ req[h].secret \in held \cup {None}
               /\ req[h].target \in DOMAIN tokens \cup {None}
               /\ DOMAIN req[h].listing \subseteq DOMAIN tokens
    BY DEF TokensInv, InFlight, KnowsSecret, KnowsWork
  <2> QED BY <2>1, <2>2 DEF TokensTypeOK, StoreOK, TokenRequest
<1> QED BY <1>1, TokensInvariance, PTL

\* Authenticate, ResolveIdentity and ListStoreTokens: whatever is created, revoked
\* or listed in between, a request acts for the account of the token it presented.
THEOREM RequestsActForOwner == TokensSpec => []ActsForOwner
<1>1. TokensInv => ActsForOwner
  BY DEF TokensInv, InFlight, KnowsSecret, KnowsWork, ActsForOwner
<1> QED BY <1>1, TokensInvariance, PTL

\* AuthenticateToken's check of RevokedAt and ValidUntil, made on a row that was read
\* earlier, lets no token through that was dead when its request arrived.
THEOREM DeadTokensDoNotAuthenticate == TokensSpec => []DeadTokensAreRefused
<1>1. TokensInv => DeadTokensAreRefused
  BY DEF TokensInv, InFlight, KnowsWork, DeadTokensAreRefused
<1> QED BY <1>1, TokensInvariance, PTL

\* handleRevokeToken answers with a list of its own, in which the session is revoked.
THEOREM RevocationsAreShown == TokensSpec => []RevocationIsShown
<1>1. TokensInv => RevocationIsShown
  BY DEF TokensInv, InFlight, KnowsWork, RevocationIsShown
<1> QED BY <1>1, TokensInvariance, PTL

\* RevokeStoreToken is for good: no statement of tokens.go brings a token back.
THEOREM TheDeadStayDead == TokensSpec => DeadForGood
<1>1. TokensInv /\ [TokensNext]_tokenVars
        => [\A s \in DOMAIN tokens : Dead(s) => Dead(s)']_tokenVars
  BY NextKeepsTokensInv, DeadStaysDead DEF TokensInv
<1> QED BY <1>1, TokensInvariance, PTL DEF TokensSpec, DeadForGood

\* ExchangeStoreToken cannot widen a token, although it works on a row read by
\* another statement.
THEOREM ExchangesKeepRestrictions == TokensSpec => ExchangeKeepsRestrictions
<1> DEFINE Kept ==
  \A h \in Handlers :
       AtStep(h, "CreateStoreToken") /\ AtStep(h, "Reply")' /\ req[h].op = "exchange"
         /\ req[h].secret # None
       => LET old == tokens[req[h].secret] new == tokens'[req[h].fresh] IN
          new.account = old.account /\ new.scope = old.scope
<1>1. TokensInv /\ [TokensNext]_tokenVars => [Kept]_tokenVars
  <2> SUFFICES ASSUME TokensInv, TokensNext, NEW h \in Handlers,
                      AtStep(h, "CreateStoreToken"), AtStep(h, "Reply")',
                      req[h].op = "exchange", req[h].secret # None
               PROVE  /\ tokens'[req[h].fresh].account = tokens[req[h].secret].account
                      /\ tokens'[req[h].fresh].scope = tokens[req[h].secret].scope
    OBVIOUS
  <2>1. req[h].step = "CreateStoreToken" /\ req'[h].step = "Reply" /\ req \in [Handlers -> TokenRequest]
    BY DEF AtStep, TokensInv
  <2>2. CreateStoreToken(h)
    <3>1. ASSUME NEW k \in Handlers, Step(k) PROVE k = h
      BY <2>1, <3>1 DEF Step, StartWithClaims, StartAnonymous, StartWithSecret,
         FindStoreTokenByHash, CheckToken, EnsureAccount, IssueStoreToken, CreateStoreToken,
         RevokeStoreToken, ListStoreTokens, Reply, Fail
    <3>2. ~Tick
      BY <2>1 DEF Tick
    <3>3. Step(h)
      BY <3>1, <3>2 DEF TokensNext
    <3>4. ~Fail(h)
      BY <2>1 DEF Fail, Quiet
    <3> QED BY <2>1, <3>3, <3>4 DEF Step, AtStep, StartWithClaims, StartAnonymous,
         StartWithSecret, FindStoreTokenByHash, CheckToken, EnsureAccount, IssueStoreToken,
         RevokeStoreToken, ListStoreTokens, Reply
  <2>3. tokens'[req[h].fresh] = req[h].new
    BY <2>2 DEF CreateStoreToken, Put
  <2> QED BY <2>1, <2>3, IdsAssumption
             DEF TokensInv, InFlight, KnowsSecret, KnowsWork, Authenticating
<1> QED BY <1>1, TokensInvariance, PTL DEF TokensSpec, ExchangeKeepsRestrictions

=============================================================================
