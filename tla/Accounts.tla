------------------------------- MODULE Accounts -------------------------------
(***************************************************************************)
(* The account routes that await the database between their steps          *)
(* (server/routes/auth.ts): signing in, changing and resetting a password, *)
(* deleting an account, over the tokens of Tokens.                         *)
(*                                                                         *)
(* Request r is the r-th of these requests.  A request with a wrong        *)
(* password, or about an account that is not there, is answered without    *)
(* any change and is left out.  Passwords are known by their version, the  *)
(* number of updates of the row.                                           *)
(***************************************************************************)
EXTENDS Tokens

CONSTANTS ResetLife,      \* RESET_EXPIRY_MINUTES
          MaxRequests

ASSUME RequestBoundsAssumption == ResetLife \in Nat /\ MaxRequests \in Nat

VARIABLES
  account,      \* the row of users is there
  version,      \* of the password in it
  link,         \* the row of password_reset_tokens
  reqs,         \* the requests under way
  count,        \* how many requests there were
  answered,     \* the latest version whose update was answered
  spent,        \* the links of answered resets
  restarts

accountRows == <<account, version, link>>
ghosts == <<answered, spent, restarts>>
vars == <<tokenVars, accountRows, reqs, count, ghosts>>

NoLink == [id |-> 0, expires |-> 0, used |-> TRUE]

Init ==
  /\ TokenInit
  /\ account = [u \in Users |-> TRUE]
  /\ version = [u \in Users |-> 0]
  /\ link = [u \in Users |-> NoLink]
  /\ reqs = {} /\ count = 0
  /\ answered = [u \in Users |-> 0]
  /\ spent = {} /\ restarts = 0

Counted == count < MaxRequests /\ count' = count + 1

(***************************************************************************)
(* A request begins by reading the row it is about.                        *)
(***************************************************************************)
Request(op, u) ==
  [id |-> count + 1, op |-> op, user |-> u, pc |-> "read",
   proof |-> 0, began |-> 0, \* sign-in: the version found, the one answered by then
   at |-> 0,                 \* forgot: when the link was made
   link |-> 0,               \* reset: the link it was given
   token |-> NoToken, cookie |-> NoToken] \* delete: what it was called with

Begins(req) ==
  /\ Counted
  /\ account[req.user]
  /\ reqs' = reqs \cup {req}
  /\ UNCHANGED <<tokenVars, accountRows, ghosts>>

\* login, login/verify-mfa, and the OAuth callbacks of an existing account.
SignInReads(u) ==
  Begins([Request("sign-in", u) EXCEPT !.proof = version[u], !.began = answered[u]])

ForgotReads(u) == Begins([Request("forgot", u) EXCEPT !.at = now])

Usable(u) == ~link[u].used /\ now <= link[u].expires
ResetReads(u) ==
  /\ Usable(u)
  /\ Begins([Request("reset", u) EXCEPT !.link = link[u].id])

ChangeReads(u, t) ==
  /\ verifyToken(t) /\ Owner(t) = u
  /\ Begins(Request("change", u))

DeleteReads(u, t, cookie) ==
  /\ verifyToken(t) /\ Owner(t) = u
  /\ cookie = NoToken \/ Issued(cookie)
  /\ Begins([Request("delete", u) EXCEPT !.token = t, !.cookie = cookie])

(***************************************************************************)
(* What it does when the statement before has answered.                    *)
(***************************************************************************)
Is(r, op, pc) == r.op = op /\ r.pc = pc
Goto(r, pc) == reqs' = (reqs \ {r}) \cup {[r EXCEPT !.pc = pc]}
Ends(r) == reqs' = reqs \ {r}

\* Mutant: signing in readmits the user.
SignInIssues_Readmits(r) ==
  /\ Is(r, "sign-in", "read") /\ Ends(r)
  /\ generateTokenPair(r.user, r.proof, r.began)
  /\ revokedUserIds' = revokedUserIds \ {r.user}
  /\ UNCHANGED <<now, revokedTokens, loaded, table, inFlight, faults, accountRows, count, ghosts>>

\* issueSession()
SignInIssues(r) ==
  /\ Is(r, "sign-in", "read") /\ Ends(r)
  /\ generateTokenPair(r.user, r.proof, r.began)
  /\ UNCHANGED <<now, memory, table, inFlight, faults, accountRows, count, ghosts>>

\* Mutant: a link that has expired already.
ForgotUpserts_Expired(r) ==
  /\ Is(r, "forgot", "read") /\ Ends(r)
  /\ link' = [link EXCEPT ![r.user] = [id |-> r.id, expires |-> r.at - ResetLife, used |-> FALSE]]
  /\ UNCHANGED <<tokenVars, account, version, count, ghosts>>

\* ON CONFLICT (user_id) DO UPDATE; the row needs its user (foreign key).
ForgotUpserts(r) ==
  /\ Is(r, "forgot", "read") /\ Ends(r)
  /\ link' = IF account[r.user]
             THEN [link EXCEPT ![r.user] = [id |-> r.id, expires |-> r.at + ResetLife,
                                            used |-> FALSE]]
             ELSE link
  /\ UNCHANGED <<tokenVars, account, version, count, ghosts>>

\* UPDATE users SET password_hash; no row is no error.
PasswordUpdate(r) ==
  /\ r.op \in {"change", "reset"} /\ r.pc = "read"
  /\ version' = [version EXCEPT ![r.user] = IF account[r.user] THEN @ + 1 ELSE @]
  /\ reqs' = (reqs \ {r}) \cup {[r EXCEPT !.pc = "updated", !.proof = version'[r.user]]}
  /\ UNCHANGED <<tokenVars, account, link, count, ghosts>>

\* Mutant: the link stays usable.
LinkUpdate_Missing(r) ==
  /\ Is(r, "reset", "updated") /\ Goto(r, "marked")
  /\ UNCHANGED <<tokenVars, accountRows, count, ghosts>>

\* UPDATE password_reset_tokens SET used = true WHERE token = ..
LinkUpdate(r) ==
  /\ Is(r, "reset", "updated") /\ Goto(r, "marked")
  /\ link' = IF link[r.user].id = r.link
             THEN [link EXCEPT ![r.user].used = TRUE] ELSE link
  /\ UNCHANGED <<tokenVars, account, version, count, ghosts>>

\* revokeAllUserTokens() and the answer.
PasswordAnswers(r) ==
  /\ Is(r, "change", "updated") \/ Is(r, "reset", "marked")
  /\ Ends(r)
  /\ revokeAllUserTokens(r.user)
  /\ answered' = [answered EXCEPT ![r.user] = IF r.proof > @ THEN r.proof ELSE @]
  /\ spent' = IF r.op = "reset" THEN spent \cup {r.link} ELSE spent
  /\ UNCHANGED <<now, pairs, loaded, table, faults, accountRows, count, restarts>>

\* DELETE FROM users, which takes the reset link along (ON DELETE CASCADE).
AccountDelete(r) ==
  /\ Is(r, "delete", "read") /\ Goto(r, "updated")
  /\ account' = [account EXCEPT ![r.user] = FALSE]
  /\ link' = [link EXCEPT ![r.user] = NoLink]
  /\ UNCHANGED <<tokenVars, version, count, ghosts>>

DeleteAnswers(r) ==
  /\ Is(r, "delete", "updated") /\ Ends(r)
  /\ Revoke({r.token, r.cookie})
  /\ UNCHANGED <<now, pairs, loaded, table, faults, accountRows, count, ghosts>>

\* The statement of a request under way fails: status 500.
RequestFails(r) ==
  /\ faults < MaxFaults /\ faults' = faults + 1
  /\ r.pc = "read" \/ Is(r, "reset", "updated")
  /\ Ends(r)
  /\ UNCHANGED <<now, pairs, memory, table, inFlight, accountRows, count, ghosts>>

(***************************************************************************)
(* The steps of Tokens, and a restart, which forgets the requests.         *)
(***************************************************************************)
TokenRequest ==
  /\ Counted
  /\ \/ \E t \in Cookies : RefreshSession(t)
     \/ \E t \in Bearers, cookie \in Cookies \cup {NoToken} : Logout(t, cookie)
  /\ UNCHANGED <<accountRows, reqs, ghosts>>

TokenStep ==
  /\ PoolStep \/ TimerStep
  /\ UNCHANGED <<accountRows, reqs, count, ghosts>>

Restart ==
  /\ TokensRestart
  /\ reqs' = {}
  /\ restarts' = restarts + 1
  /\ UNCHANGED <<accountRows, count, answered, spent>>

RequestBegins ==
  \E u \in Users :
    \/ SignInReads(u)
    \/ ForgotReads(u)
    \/ ResetReads(u)
    \/ \E t \in Bearers : ChangeReads(u, t)
    \/ \E t \in Bearers, cookie \in Cookies \cup {NoToken} : DeleteReads(u, t, cookie)

RequestGoesOn ==
  \E r \in reqs :
    \/ SignInIssues(r)
    \/ ForgotUpserts(r)
    \/ PasswordUpdate(r)
    \/ LinkUpdate(r)
    \/ PasswordAnswers(r)
    \/ AccountDelete(r)
    \/ DeleteAnswers(r)
    \/ RequestFails(r)

Next == RequestBegins \/ RequestGoesOn \/ TokenRequest \/ TokenStep \/ Restart
Spec == Init /\ [][Next]_vars

\* The pool runs the statements it is given while the process lives.
FairSpec == Spec /\ WF_vars(PoolStep /\ UNCHANGED <<accountRows, reqs, count, ghosts>>)

(***************************************************************************)
(* Properties.                                                             *)
(***************************************************************************)
TypeOK ==
  /\ now \in Time /\ faults \in 0..MaxFaults /\ restarts \in Nat
  /\ pairs \in Seq([user : Users, iat : Time, proof : Nat, began : Nat])
  /\ Len(pairs) <= MaxPairs
  /\ revokedTokens \in [Tokens -> Moments]
  /\ revokedUserIds \in SUBSET Users
  /\ rows \in [Tokens -> Moments]
  /\ sentinels \in [Users -> Moments]
  /\ inFlight \subseteq [do : {"insert", "delete", "sentinel"},
                         token : Tokens \cup {NoToken}, user : Users, at : Time]
  /\ loaded \in BOOLEAN
  /\ account \in [Users -> BOOLEAN]
  /\ version \in [Users -> Nat] /\ answered \in [Users -> Nat]
  /\ link \in [Users -> [id : Nat, expires : Nat, used : BOOLEAN]]
  /\ reqs \subseteq [id : 1..MaxRequests, user : Users,
                     op : {"sign-in", "change", "forgot", "reset", "delete"},
                     pc : {"read", "updated", "marked"},
                     proof : Nat, began : Nat, at : Time, link : Nat,
                     token : Tokens \cup {NoToken}, cookie : Tokens \cup {NoToken}]
  /\ count \in 0..MaxRequests
  /\ spent \subseteq 1..MaxRequests

\* While a process runs, a token it once rejected stays rejected: no clean-up,
\* load, passing of time or later request brings it back.
RejectedStaysRejected ==
  [][restarts' = restarts =>
       \A t \in Tokens : Issued(t) /\ ~verifyToken(t) => ~verifyToken(t)']_vars

\* A revocation that reached the table outlives its token: once a process has
\* loaded the table, tokens issued before a revocation of theirs are rejected,
\* however old the row and whatever the clean-up has forgotten.  (A token issued
\* and revoked within one second is not covered: see the README.)
PersistedRevocationsHold ==
  loaded => \A t \in Tokens :
    Issued(t) /\ (rows[t] > IssuedAt(t) \/ sentinels[Owner(t)] > IssuedAt(t))
      => ~verifyToken(t)

\* A session that rests on a password replaced by an answered reset or change is
\* over, also when its sign-in was under way meanwhile.  (A deletion of the account
\* ends only the tokens it came with.)
OldSessionsEnd ==
  restarts = 0 => \A t \in Tokens :
    Issued(t) /\ pairs[t[1]].proof < answered[Owner(t)] => ~verifyToken(t)

\* Once a reset over a link was answered, no further reset gets through with it,
\* whatever requests for links were answered meanwhile or overtook it.  (Resets
\* that read the link before may still be under way, and each sets its password.)
UsedLinksStayDead ==
  [][\A r \in reqs' \ reqs : Is(r, "reset", "read") => r.link \notin spent]_vars

\* A token revoked by a logout or a deletion gets its row, or its user a
\* sentinel on the way, unless a statement fails or the process restarts.
Unwritten == {t \in Tokens : /\ revokedTokens[t] # Never
                             /\ rows[t] = Never
                             /\ Owner(t) \notin revokedUserIds}
LogoutReachesTable == (Unwritten # {}) ~> (Unwritten = {} \/ faults > 0)

\* routes/auth.ts:720 "Password updated. Please sign in with your new password.":
\* after an answered reset, a session whose sign-in began with the current
\* password in force works until it expires, is logged out, or its account goes.
NewSessionsWork ==
  \A t \in Tokens :
    /\ Issued(t) /\ now <= IssuedAt(t) + Life(t)
    /\ account[Owner(t)] /\ link[Owner(t)].id \in spent
    /\ 0 < pairs[t[1]].began /\ pairs[t[1]].began = version[Owner(t)]
    /\ revokedTokens[t] = Never
    => verifyToken(t)
=============================================================================
