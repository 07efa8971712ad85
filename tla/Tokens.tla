-------------------------------- MODULE Tokens --------------------------------
(***************************************************************************)
(* Session tokens and their revocation (server/auth.ts): tokens are        *)
(* checked against what the process remembers; the table token_revocations *)
(* is written without being awaited and read once, after a start.          *)
(*                                                                         *)
(* Pair k is the k-th generateTokenPair(): an access and a refresh token.  *)
(* Signatures are taken to hold (JWT_SECRET is set, as production demands). *)
(* Time counts the units the lifetimes are given in.                       *)
(***************************************************************************)
EXTENDS Integers, Sequences, FiniteSets

CONSTANTS Users,
          AccessLife, RefreshLife,  \* lifetimes of the two tokens of a pair
          Keep,                     \* how long a revocation is remembered
          MaxPairs, MaxTime, MaxFaults

ASSUME LifetimesAssumption ==
  /\ {AccessLife, RefreshLife, Keep} \subseteq Nat
  /\ AccessLife <= RefreshLife
  /\ RefreshLife <= Keep
ASSUME TokenBoundsAssumption ==
  {MaxPairs, MaxTime, MaxFaults} \subseteq Nat /\ MaxPairs >= 1

Never == -1
Time == 0..MaxTime
Moments == Time \cup {Never}
Tokens == (1..MaxPairs) \X {"access", "refresh"}
\* authMiddleware would take a refresh token as well; clients send none there.
Bearers == (1..MaxPairs) \X {"access"}
Cookies == (1..MaxPairs) \X {"refresh"}
NoToken == <<0, "access">>

VARIABLES
  now,
  pairs,           \* the token pairs issued so far
  revokedTokens,   \* in memory: when a token was revoked
  revokedUserIds,  \* in memory: the users whose tokens are all rejected
  rows,            \* token_revocations: revoked_at of a token's row
  sentinels,       \* token_revocations: revoked_at of the row all:<user>
  inFlight,        \* statements on token_revocations that have not run
  loaded,          \* loadRevokedTokens() has succeeded since the start
  faults           \* restarts and statements that failed

memory == <<revokedTokens, revokedUserIds, loaded>>
table == <<rows, sentinels>>
tokenVars == <<now, pairs, memory, table, inFlight, faults>>

(***************************************************************************)
(* A token that is neither expired nor known to be revoked.                *)
(***************************************************************************)
Issued(t) == t[1] \in DOMAIN pairs
Owner(t) == pairs[t[1]].user
IssuedAt(t) == pairs[t[1]].iat
Life(t) == IF t[2] = "access" THEN AccessLife ELSE RefreshLife

verifyToken(t) ==
  /\ Issued(t)
  /\ now <= IssuedAt(t) + Life(t)
  /\ revokedTokens[t] = Never
  /\ Owner(t) \notin revokedUserIds

\* The process starts among sessions of an earlier one.
TokenInit ==
  /\ now = 0
  /\ pairs \in {<<[user |-> u, iat |-> 0, proof |-> 0, began |-> 0]>> : u \in Users}
  /\ revokedTokens = [t \in Tokens |-> Never]
  /\ revokedUserIds = {}
  /\ rows = [t \in Tokens |-> Never]
  /\ sentinels = [u \in Users |-> Never]
  /\ inFlight = {}
  /\ loaded = FALSE
  /\ faults = 0

(***************************************************************************)
(* What the handlers call.  The fields proof and began of a pair are not   *)
(* in the token: they say which password the session rests on.             *)
(***************************************************************************)
Insert(t) == [do |-> "insert", token |-> t, user |-> Owner(t), at |-> now]
Delete(u) == [do |-> "delete", token |-> NoToken, user |-> u, at |-> now]
Sentinel(u) == [do |-> "sentinel", token |-> NoToken, user |-> u, at |-> now]

generateTokenPair(u, proof, began) ==
  /\ Len(pairs) < MaxPairs
  /\ pairs' = Append(pairs, [user |-> u, iat |-> now, proof |-> proof, began |-> began])

\* Mutant: only remembered.
Revoke_Unwritten(ts) ==
  /\ revokedTokens' = [t \in Tokens |-> IF t \in ts /\ verifyToken(t) THEN now ELSE revokedTokens[t]]
  /\ UNCHANGED <<revokedUserIds, inFlight>>

\* revokeTokenByToken() of each token that still verifies.
Revoke(ts) ==
  LET hit == {t \in ts : verifyToken(t)} IN
  /\ revokedTokens' = [t \in Tokens |-> IF t \in hit THEN now ELSE revokedTokens[t]]
  /\ inFlight' = inFlight \cup {Insert(t) : t \in hit}
  /\ UNCHANGED revokedUserIds

\* A DELETE of the user's rows and the sentinel's INSERT, both unawaited.
revokeAllUserTokens(u) ==
  /\ revokedUserIds' = revokedUserIds \cup {u}
  /\ inFlight' = inFlight \cup {Delete(u), Sentinel(u)}
  /\ UNCHANGED revokedTokens

(***************************************************************************)
(* The routes that await nothing.                                          *)
(***************************************************************************)
\* POST /refresh: a new pair; the refresh token used stays valid.
RefreshSession(t) ==
  /\ verifyToken(t)
  /\ generateTokenPair(Owner(t), pairs[t[1]].proof, pairs[t[1]].began)
  /\ UNCHANGED <<now, memory, table, inFlight, faults>>

\* POST /logout with a bearer token and the refresh cookie, if there is one.
Logout(t, cookie) ==
  /\ verifyToken(t)
  /\ cookie = NoToken \/ Issued(cookie)
  /\ Revoke({t, cookie})
  /\ UNCHANGED <<now, pairs, loaded, table, faults>>

(***************************************************************************)
(* The pool runs the statements in any order; their errors are swallowed.  *)
(***************************************************************************)
RunStatement(s) ==
  /\ s \in inFlight
  /\ inFlight' = inFlight \ {s}
  /\ CASE s.do = "insert" ->   \* ON CONFLICT (jti) DO NOTHING
            /\ rows' = [rows EXCEPT ![s.token] = IF @ = Never THEN s.at ELSE @]
            /\ UNCHANGED sentinels
       [] s.do = "delete" ->
            /\ rows' = [t \in Tokens |-> IF Issued(t) /\ Owner(t) = s.user
                                         THEN Never ELSE rows[t]]
            /\ sentinels' = [sentinels EXCEPT ![s.user] = Never]
       [] s.do = "sentinel" -> \* ON CONFLICT (jti) DO UPDATE
            /\ sentinels' = [sentinels EXCEPT ![s.user] = s.at]
            /\ UNCHANGED rows
  /\ UNCHANGED <<now, pairs, memory, faults>>

StatementFails(s) ==
  /\ faults < MaxFaults /\ faults' = faults + 1
  /\ s \in inFlight
  /\ inFlight' = inFlight \ {s}
  /\ UNCHANGED <<now, pairs, memory, table>>

(***************************************************************************)
(* Time, the hourly clean-up, and a restart.  Requests are served as soon  *)
(* as the process runs, loaded or not.                                     *)
(***************************************************************************)
Tick ==
  /\ now < MaxTime
  /\ now' = now + 1
  /\ UNCHANGED <<pairs, memory, table, inFlight, faults>>

Outdated_Early(at) == at # Never /\ now - at >= Keep  \* mutant
Outdated(at) == at # Never /\ now - at > Keep

cleanupRevokedTokens ==
  /\ \E t \in Tokens : Outdated(revokedTokens[t])
  /\ revokedTokens' = [t \in Tokens |->
       IF Outdated(revokedTokens[t]) THEN Never ELSE revokedTokens[t]]
  /\ UNCHANGED <<now, pairs, revokedUserIds, loaded, table, inFlight, faults>>

\* A statement in flight has run before (RunStatement) or is lost.
TokensRestart ==
  /\ faults < MaxFaults /\ faults' = faults + 1
  /\ revokedTokens' = [t \in Tokens |-> Never]
  /\ revokedUserIds' = {}
  /\ inFlight' = {}
  /\ loaded' = FALSE
  /\ UNCHANGED <<now, pairs, table>>

\* SELECT .. WHERE revoked_at > cutoff.
Recent_Before(at) == at # Never /\ at <= now - Keep  \* mutant
Recent(at) == at # Never /\ at > now - Keep
loadRevokedTokens ==
  /\ ~loaded /\ loaded' = TRUE
  /\ revokedTokens' = [t \in Tokens |-> IF Recent(rows[t]) THEN rows[t] ELSE revokedTokens[t]]
  /\ revokedUserIds' = revokedUserIds \cup {u \in Users : Recent(sentinels[u])}
  /\ UNCHANGED <<now, pairs, table, inFlight, faults>>

PoolStep == \E s \in inFlight : RunStatement(s) \/ StatementFails(s)
TimerStep == Tick \/ cleanupRevokedTokens \/ loadRevokedTokens
=============================================================================
