---------------------------- MODULE Accounts_proofs ----------------------------
(***************************************************************************)
(* Proofs about Accounts and the Tokens below it: for any users, lifetimes *)
(* and bounds, a rejected token stays rejected, a revocation that reached  *)
(* the table holds after a restart, a replaced password's sessions are     *)
(* over, and the link of an answered reset is dead.                        *)
(***************************************************************************)
EXTENDS Accounts, TLAPS

PairSet == [user : Users, iat : Time, proof : Nat, began : Nat]
StatementSet == [do : {"insert", "delete", "sentinel"},
                 token : Tokens \cup {NoToken}, user : Users, at : Time]
RequestSet == [id : 1..MaxRequests, user : Users,
               op : {"sign-in", "change", "forgot", "reset", "delete"},
               pc : {"read", "updated", "marked"},
               proof : Nat, began : Nat, at : Time, link : Nat,
               token : Tokens \cup {NoToken}, cookie : Tokens \cup {NoToken}]
LinkSet == [id : Nat, expires : Nat, used : BOOLEAN]

TokenTypes ==
  /\ now \in Time /\ faults \in 0..MaxFaults
  /\ pairs \in Seq(PairSet) /\ Len(pairs) <= MaxPairs
  /\ revokedTokens \in [Tokens -> Moments]
  /\ revokedUserIds \in SUBSET Users
  /\ rows \in [Tokens -> Moments]
  /\ sentinels \in [Users -> Moments]
  /\ inFlight \subseteq StatementSet
  /\ loaded \in BOOLEAN

AccountTypes ==
  /\ account \in [Users -> BOOLEAN]
  /\ version \in [Users -> Nat] /\ answered \in [Users -> Nat]
  /\ link \in [Users -> LinkSet]
  /\ reqs \subseteq RequestSet
  /\ count \in 0..MaxRequests
  /\ spent \subseteq 1..MaxRequests
  /\ restarts \in Nat

(***************************************************************************)
(* What makes a revocation last.  A token is revoked while it is issued,   *)
(* so what the clean-up forgets has expired; what is under way to the      *)
(* table is remembered by the process that sent it.                        *)
(***************************************************************************)
PairsPast == \A k \in DOMAIN pairs : pairs[k].iat <= now
RevokedWhileIssued(when) ==
  \A t \in Tokens : when[t] # Never => Issued(t) /\ IssuedAt(t) <= when[t] /\ when[t] <= now
InFlightRejected ==
  \A s \in inFlight :
    /\ s.at <= now
    /\ s.do = "insert" => /\ s.token \in Tokens /\ Issued(s.token)
                          /\ IssuedAt(s.token) <= s.at /\ ~verifyToken(s.token)
    /\ s.do # "insert" => s.user \in revokedUserIds
SentinelsPast == \A u \in Users : sentinels[u] <= now
TokenInv ==
  /\ TokenTypes
  /\ PairsPast /\ RevokedWhileIssued(revokedTokens) /\ RevokedWhileIssued(rows)
  /\ InFlightRejected /\ SentinelsPast /\ PersistedRevocationsHold

\* Until the first restart an answered update's user is remembered.
AnsweredRevokes == restarts = 0 => \A u \in Users : answered[u] > 0 => u \in revokedUserIds

(***************************************************************************)
(* What makes a link dead.  A request for a link has a number of its own,  *)
(* and a reset marks the link it was given before its answer.              *)
(***************************************************************************)
IdsFresh ==
  /\ \A r \in reqs : r.id <= count
  /\ \A r, q \in reqs : r.id = q.id => r = q
  /\ \A u \in Users : link[u].id <= count
  /\ \A i \in spent : i <= count
ForgotFresh ==
  \A r \in reqs : r.op = "forgot" =>
    /\ r.id \notin spent
    /\ \A u \in Users : link[u].id # r.id
    /\ \A q \in reqs : q.op = "reset" => q.link # r.id
LinksOfOne ==
  /\ \A u \in Users : link[u].id = 0 => link[u].used
  /\ \A u, v \in Users : link[u].id = link[v].id => u = v \/ link[u].id = 0
ResetsOfOne ==
  \A r \in reqs : r.op = "reset" =>
    /\ r.link \in 1..count
    /\ \A u \in Users : link[u].id = r.link => u = r.user
    /\ r.pc = "marked" /\ link[r.user].id = r.link => link[r.user].used
SpentLinksUsed == \A u \in Users : link[u].id \in spent => link[u].used
LinkInv == IdsFresh /\ ForgotFresh /\ LinksOfOne /\ ResetsOfOne /\ SpentLinksUsed

IInv == TokenInv /\ AccountTypes /\ AnsweredRevokes /\ LinkInv

LEMMA TypeOKParts == TypeOK <=> TokenTypes /\ AccountTypes
BY DEF TypeOK, TokenTypes, AccountTypes, PairSet, StatementSet, RequestSet, LinkSet

(***************************************************************************)
(* Tokens.                                                                 *)
(***************************************************************************)
LEMMA Numbers ==
  /\ AccessLife \in Nat /\ RefreshLife \in Nat /\ Keep \in Nat
  /\ AccessLife <= RefreshLife /\ RefreshLife <= Keep
  /\ MaxPairs \in Nat /\ MaxPairs >= 1 /\ MaxTime \in Nat /\ MaxFaults \in Nat
  /\ ResetLife \in Nat /\ MaxRequests \in Nat
BY LifetimesAssumption, TokenBoundsAssumption, RequestBoundsAssumption

\* No lifetime exceeds how long a revocation is remembered.
LEMMA LifeWithinKeep ==
  ASSUME NEW t
  PROVE  Life(t) \in Nat /\ Life(t) <= Keep
BY Numbers DEF Life

LEMMA TokenParts ==
  ASSUME NEW t \in Tokens
  PROVE  t[1] \in 1..MaxPairs /\ t # NoToken
BY Numbers DEF Tokens, NoToken

LEMMA NoTokenNotIssued ==
  ASSUME TokenTypes
  PROVE  ~Issued(NoToken)
BY DEF TokenTypes, Issued, NoToken

LEMMA IssuedTypes ==
  ASSUME TokenTypes, NEW t, Issued(t)
  PROVE  /\ Owner(t) \in Users /\ IssuedAt(t) \in Time /\ IssuedAt(t) \in Nat
         /\ pairs[t[1]] \in PairSet
         /\ now \in Time /\ now \in Nat
<1>1. pairs[t[1]] \in PairSet
  BY DEF TokenTypes, Issued
<1>2. now \in Time /\ Time \subseteq Nat
  BY Numbers DEF TokenTypes, Time
<1> QED
  BY <1>1, <1>2 DEF Owner, IssuedAt, PairSet

LEMMA IssuedIsToken ==
  ASSUME TokenTypes, NEW t \in Tokens \cup {NoToken}, Issued(t)
  PROVE  t \in Tokens
BY NoTokenNotIssued

\* What rejects a token that was issued.
Expired(t) == now > IssuedAt(t) + Life(t)
Remembered(t) == revokedTokens[t] # Never \/ Owner(t) \in revokedUserIds
LEMMA VerifySays ==
  ASSUME TokenTypes, NEW t
  PROVE  /\ verifyToken(t) => Issued(t)
         /\ Issued(t) => (verifyToken(t) <=> ~Expired(t) /\ ~Remembered(t))
<1>1. Issued(t) => (now <= IssuedAt(t) + Life(t) <=> ~Expired(t))
  BY IssuedTypes, LifeWithinKeep DEF Expired
<1> QED
  BY <1>1 DEF verifyToken, Remembered

\* What one step of a process does to what it knows: pairs are only added, now;
\* time does not go back, and only what is out of date is forgotten.
MemoryLasts ==
  /\ \A k \in DOMAIN pairs : k \in DOMAIN pairs' /\ pairs'[k] = pairs[k]
  /\ \A k \in DOMAIN pairs' : k \in DOMAIN pairs \/ pairs'[k].iat = now
  /\ now <= now'
  /\ revokedUserIds \subseteq revokedUserIds'
  /\ \A t \in Tokens : revokedTokens[t] # Never =>
       revokedTokens'[t] # Never \/ now - revokedTokens[t] > Keep

LEMMA StillIssued ==
  ASSUME MemoryLasts, NEW t, Issued(t)
  PROVE  Issued(t)' /\ IssuedAt(t)' = IssuedAt(t) /\ Owner(t)' = Owner(t)
         /\ pairs'[t[1]] = pairs[t[1]]
BY DEF MemoryLasts, Issued, IssuedAt, Owner

\* A token that a process rejects stays rejected by what the process does.
LEMMA StillRejected ==
  ASSUME TokenInv, TokenTypes', MemoryLasts, NEW t \in Tokens, Issued(t), ~verifyToken(t)
  PROVE  ~verifyToken(t)'
<1>1. /\ Issued(t)' /\ IssuedAt(t)' = IssuedAt(t) /\ Owner(t)' = Owner(t)
      /\ IssuedAt(t) \in Nat /\ now \in Nat
  BY StillIssued, IssuedTypes DEF TokenInv
<1>2. now' \in Nat /\ now <= now' /\ Life(t) \in Nat /\ Life(t) <= Keep /\ Keep \in Nat
  BY LifeWithinKeep, Numbers DEF TokenTypes, Time, MemoryLasts
<1>3. Expired(t) \/ Remembered(t)
  BY VerifySays DEF TokenInv
<1>4. CASE Expired(t)
  BY <1>1, <1>2, <1>4 DEF Expired, verifyToken
<1>5. CASE Owner(t) \in revokedUserIds
  BY <1>1, <1>5 DEF MemoryLasts, verifyToken
<1>6. CASE revokedTokens[t] # Never
  <2>1. IssuedAt(t) <= revokedTokens[t] /\ revokedTokens[t] \in Nat
    BY <1>6 DEF TokenInv, RevokedWhileIssued, TokenTypes, Moments, Time
  <2>2. CASE revokedTokens'[t] # Never
    BY <2>2 DEF verifyToken
  <2>3. CASE now - revokedTokens[t] > Keep
    BY <1>1, <1>2, <2>1, <2>3 DEF verifyToken
  <2> QED
    BY <1>6, <2>2, <2>3 DEF MemoryLasts
<1> QED
  BY <1>3, <1>4, <1>5, <1>6 DEF Remembered

\* The parts of TokenInv that such a step keeps, from what it does to them.
LEMMA PairsStayPast ==
  ASSUME TokenInv, TokenTypes', MemoryLasts
  PROVE  PairsPast'
<1> SUFFICES ASSUME NEW k \in DOMAIN pairs'
             PROVE  pairs'[k].iat <= now'
  BY DEF PairsPast
<1>1. now \in Nat /\ now' \in Nat /\ now <= now'
  BY Numbers DEF TokenInv, TokenTypes, Time, MemoryLasts
<1>2. CASE k \in DOMAIN pairs
  <2>1. pairs[k] \in PairSet
    BY <1>2 DEF TokenInv, TokenTypes
  <2>2. pairs[k].iat \in Nat
    BY <2>1, Numbers DEF PairSet, Time
  <2> QED
    BY <1>1, <1>2, <2>2 DEF TokenInv, PairsPast, MemoryLasts
<1>3. CASE k \notin DOMAIN pairs
  BY <1>1, <1>3 DEF MemoryLasts
<1> QED
  BY <1>2, <1>3

LEMMA RevokedStays ==
  ASSUME TokenInv, TokenTypes', MemoryLasts,
         NEW when, NEW after, when \in [Tokens -> Moments], after \in [Tokens -> Moments],
         RevokedWhileIssued(when),
         \A t \in Tokens : after[t] # Never =>
           \/ after[t] = when[t]
           \/ Issued(t) /\ IssuedAt(t) <= after[t] /\ after[t] <= now
  PROVE  \A t \in Tokens : after[t] # Never =>
           Issued(t)' /\ IssuedAt(t)' <= after[t] /\ after[t] <= now'
<1> SUFFICES ASSUME NEW t \in Tokens, after[t] # Never
             PROVE  Issued(t)' /\ IssuedAt(t)' <= after[t] /\ after[t] <= now'
  OBVIOUS
<1>1. Issued(t) /\ IssuedAt(t) <= after[t] /\ after[t] <= now
  BY DEF RevokedWhileIssued
<1>2. now \in Nat /\ now' \in Nat /\ now <= now' /\ after[t] \in Nat
  BY Numbers DEF TokenInv, TokenTypes, Time, Moments, MemoryLasts
<1> QED
  BY <1>1, <1>2, StillIssued

LEMMA FlightStays ==
  ASSUME TokenInv, TokenTypes', MemoryLasts,
         \A s \in inFlight' : s \in inFlight \/
           /\ s.at = now
           /\ s.do = "insert" => /\ s.token \in Tokens /\ Issued(s.token)
                                 /\ IssuedAt(s.token) <= s.at /\ ~verifyToken(s.token)'
           /\ s.do # "insert" => s.user \in revokedUserIds'
  PROVE  InFlightRejected'
<1> SUFFICES ASSUME NEW s \in inFlight'
             PROVE  /\ s.at <= now'
                    /\ s.do = "insert" =>
                         /\ s.token \in Tokens /\ Issued(s.token)'
                         /\ IssuedAt(s.token)' <= s.at /\ ~verifyToken(s.token)'
                    /\ s.do # "insert" => s.user \in revokedUserIds'
  BY DEF InFlightRejected
<1>1. now \in Nat /\ now' \in Nat /\ now <= now' /\ s.at \in Nat
  <2>1. s \in StatementSet
    BY DEF TokenTypes
  <2> QED
    BY <2>1, Numbers DEF TokenInv, TokenTypes, Time, StatementSet, MemoryLasts
<1>2. CASE s \in inFlight
  <2>1. s.at <= now /\ (s.do # "insert" => s.user \in revokedUserIds)
    BY <1>2 DEF TokenInv, InFlightRejected
  <2>2. ASSUME s.do = "insert"
        PROVE  /\ s.token \in Tokens /\ Issued(s.token)'
               /\ IssuedAt(s.token)' <= s.at /\ ~verifyToken(s.token)'
    <3>1. /\ s.token \in Tokens /\ Issued(s.token)
          /\ IssuedAt(s.token) <= s.at /\ ~verifyToken(s.token)
      BY <1>2, <2>2 DEF TokenInv, InFlightRejected
    <3>2. ~verifyToken(s.token)'
      BY <3>1, StillRejected
    <3> QED
      BY <3>1, <3>2, StillIssued
  <2> QED
    BY <1>1, <2>1, <2>2 DEF MemoryLasts
<1>3. CASE s \notin inFlight
  BY <1>1, <1>3, StillIssued
<1> QED
  BY <1>2, <1>3

LEMMA SentinelsStayPast ==
  ASSUME TokenInv, TokenTypes', MemoryLasts,
         \A u \in Users : sentinels'[u] = sentinels[u] \/ sentinels'[u] <= now
  PROVE  SentinelsPast'
<1> SUFFICES ASSUME NEW u \in Users
             PROVE  sentinels'[u] <= now'
  BY DEF SentinelsPast
<1>1. now \in Int /\ now' \in Int /\ now <= now' /\ sentinels'[u] \in Int
  BY Numbers DEF TokenInv, TokenTypes, Time, Moments, Never, MemoryLasts
<1>2. sentinels'[u] <= now
  BY DEF TokenInv, SentinelsPast
<1> QED
  BY <1>1, <1>2

\* What the table says of a token that was already issued, and of a new one.
LEMMA TableHolds ==
  ASSUME TokenInv, TokenTypes', MemoryLasts, SentinelsPast,
         UNCHANGED loaded,
         \A t \in Tokens : \/ rows'[t] = rows[t] \/ rows'[t] = Never
                           \/ Issued(t) /\ ~verifyToken(t),
         \A u \in Users : \/ sentinels'[u] = sentinels[u] \/ sentinels'[u] = Never
                          \/ u \in revokedUserIds /\ sentinels'[u] <= now
  PROVE  PersistedRevocationsHold'
<1> SUFFICES ASSUME loaded', NEW t \in Tokens, Issued(t)', 
                    rows'[t] > IssuedAt(t)' \/ sentinels'[Owner(t)'] > IssuedAt(t)'
             PROVE  ~verifyToken(t)'
  BY DEF PersistedRevocationsHold
<1>1. /\ IssuedAt(t)' \in Nat /\ Owner(t)' \in Users /\ now \in Nat
  <2>1. pairs'[t[1]] \in PairSet
    BY DEF TokenTypes, Issued
  <2>2. Time \subseteq Nat
    BY Numbers DEF Time
  <2>3. now \in Time
    BY DEF TokenInv, TokenTypes
  <2> QED
    BY <2>1, <2>2, <2>3 DEF PairSet, Owner, IssuedAt
<1>2. CASE Issued(t)
  <2>1. IssuedAt(t)' = IssuedAt(t) /\ Owner(t)' = Owner(t)
    BY <1>2, StillIssued
  <2>2. SUFFICES ASSUME verifyToken(t)
                 PROVE  FALSE
    BY <1>2, StillRejected
  <2>3. Owner(t) \notin revokedUserIds
    BY <2>2 DEF verifyToken
  <2>4. CASE rows'[t] > IssuedAt(t)
    <3>1. rows'[t] # Never
      BY <1>1, <2>1, <2>4 DEF Never
    <3> QED
      BY <1>2, <2>2, <2>4, <3>1 DEF TokenInv, PersistedRevocationsHold
  <2>5. CASE sentinels'[Owner(t)] > IssuedAt(t)
    <3>1. sentinels'[Owner(t)] # Never
      BY <1>1, <2>1, <2>5 DEF Never
    <3> QED
      BY <1>1, <1>2, <2>1, <2>2, <2>3, <2>5, <3>1 DEF TokenInv, PersistedRevocationsHold
  <2> QED
    BY <2>1, <2>4, <2>5
<1>3. CASE ~Issued(t)
  <2>1. IssuedAt(t)' = now
    BY <1>3 DEF MemoryLasts, Issued, IssuedAt
  <2>2. rows[t] = Never
    BY <1>3 DEF TokenInv, RevokedWhileIssued
  <2>3. ~(rows'[t] > IssuedAt(t)')
    BY <1>1, <1>3, <2>2 DEF Never
  <2>4. sentinels'[Owner(t)'] \in Int /\ sentinels'[Owner(t)'] <= now
    BY <1>1, Numbers DEF SentinelsPast, TokenTypes, Moments, Time, Never
  <2> QED
    BY <1>1, <2>1, <2>3, <2>4
<1> QED
  BY <1>2, <1>3

LEMMA MemoryStays ==
  ASSUME TokenInv, TokenTypes', MemoryLasts,
         \A t \in Tokens :
           \/ revokedTokens'[t] = Never \/ revokedTokens'[t] = revokedTokens[t]
           \/ Issued(t) /\ IssuedAt(t) <= revokedTokens'[t] /\ revokedTokens'[t] <= now
  PROVE  RevokedWhileIssued(revokedTokens)'
<1>1. revokedTokens \in [Tokens -> Moments] /\ revokedTokens' \in [Tokens -> Moments]
      /\ RevokedWhileIssued(revokedTokens)
  BY DEF TokenInv, TokenTypes
<1> QED
  BY <1>1, RevokedStays DEF RevokedWhileIssued

LEMMA RowsStay ==
  ASSUME TokenInv, TokenTypes', MemoryLasts,
         \A t \in Tokens :
           \/ rows'[t] = Never \/ rows'[t] = rows[t]
           \/ Issued(t) /\ IssuedAt(t) <= rows'[t] /\ rows'[t] <= now
  PROVE  RevokedWhileIssued(rows)'
<1>1. rows \in [Tokens -> Moments] /\ rows' \in [Tokens -> Moments] /\ RevokedWhileIssued(rows)
  BY DEF TokenInv, TokenTypes
<1> QED
  BY <1>1, RevokedStays DEF RevokedWhileIssued

LEMMA TableStays ==
  ASSUME TokenInv, TokenTypes', MemoryLasts, UNCHANGED <<loaded, rows, sentinels>>
  PROVE  RevokedWhileIssued(rows)' /\ SentinelsPast' /\ PersistedRevocationsHold'
<1>1. /\ \A t \in Tokens : rows'[t] = rows[t]
      /\ \A u \in Users : sentinels'[u] = sentinels[u]
  OBVIOUS
<1>2. SentinelsPast
  BY DEF TokenInv
<1>3. PersistedRevocationsHold'
  BY <1>1, <1>2, TableHolds
<1> QED
  BY <1>1, <1>3, RowsStay, SentinelsStayPast

\* A pair is added, now.
LEMMA GenerateKeeps ==
  ASSUME TokenInv, NEW u \in Users, NEW proof \in Nat, NEW began \in Nat,
         generateTokenPair(u, proof, began), UNCHANGED <<now, memory, table, inFlight, faults>>
  PROVE  TokenInv' /\ MemoryLasts
<1> DEFINE x == [user |-> u, iat |-> now, proof |-> proof, began |-> began]
<1>1. /\ UNCHANGED <<now, revokedTokens, revokedUserIds, loaded, rows, sentinels, inFlight, faults>>
      /\ pairs' = Append(pairs, x) /\ Len(pairs) < MaxPairs
  BY DEF generateTokenPair, memory, table
<1>2. pairs \in Seq(PairSet) /\ x \in PairSet /\ x.iat = now
  BY DEF TokenInv, TokenTypes, PairSet
<1> HIDE DEF x
<1>3. /\ pairs' \in Seq(PairSet) /\ Len(pairs') = Len(pairs) + 1 /\ Len(pairs) \in Nat
      /\ \A k \in DOMAIN pairs : k \in DOMAIN pairs' /\ pairs'[k] = pairs[k]
      /\ \A k \in DOMAIN pairs' : k \in DOMAIN pairs \/ pairs'[k] = x
  BY <1>1, <1>2
<1>4. now <= now
  BY Numbers DEF TokenInv, TokenTypes, Time
<1>5. TokenTypes' /\ MemoryLasts
  BY <1>1, <1>2, <1>3, <1>4, Numbers DEF TokenInv, TokenTypes, MemoryLasts
<1>6. InFlightRejected'
  BY <1>1, <1>5, FlightStays
<1>7. RevokedWhileIssued(revokedTokens)'
  BY <1>1, <1>5, MemoryStays
<1> QED
  BY <1>1, <1>5, <1>6, <1>7, TableStays, PairsStayPast DEF TokenInv

\* A token that verifies is remembered, now, and its row is under way.
LEMMA RevokeKeeps ==
  ASSUME TokenInv, NEW ts, ts \subseteq Tokens \cup {NoToken}, Revoke(ts),
         UNCHANGED <<now, pairs, loaded, table, faults>>
  PROVE  TokenInv' /\ MemoryLasts
<1> DEFINE hit == {t \in ts : verifyToken(t)}
<1>1. /\ revokedTokens' = [t \in Tokens |-> IF t \in hit THEN now ELSE revokedTokens[t]]
      /\ inFlight' = inFlight \cup {Insert(t) : t \in hit}
      /\ UNCHANGED <<now, pairs, loaded, rows, sentinels, faults, revokedUserIds>>
  BY DEF Revoke, table
<1>2. ASSUME NEW t \in hit
      PROVE  /\ t \in Tokens /\ Issued(t) /\ Owner(t) \in Users
             /\ IssuedAt(t) <= now /\ now \in Time /\ now # Never
  <2>1. Issued(t)
    BY DEF verifyToken
  <2>2. t \in Tokens /\ Owner(t) \in Users /\ now \in Time /\ now \in Nat
    BY <2>1, IssuedIsToken, IssuedTypes DEF TokenInv
  <2>3. IssuedAt(t) <= now
    BY <2>1 DEF TokenInv, PairsPast, Issued, IssuedAt
  <2> QED
    BY <2>1, <2>2, <2>3 DEF Never
<1> HIDE DEF hit
<1>3. now <= now /\ now \in Moments
  BY Numbers DEF TokenInv, TokenTypes, Time, Moments
<1>4. ASSUME NEW t \in hit
      PROVE  /\ Insert(t) \in StatementSet
             /\ Insert(t).at = now /\ Insert(t).do = "insert" /\ Insert(t).token = t
  BY <1>2, <1>4 DEF Insert, StatementSet
<1>5. TokenTypes'
  BY <1>1, <1>3, <1>4 DEF TokenInv, TokenTypes
<1>6. MemoryLasts
  <2>1. \A t \in Tokens : revokedTokens[t] # Never => revokedTokens'[t] # Never
    BY <1>1, <1>2
  <2> QED
    BY <1>1, <1>3, <2>1 DEF MemoryLasts
<1>7. InFlightRejected'
  <2>1. ASSUME NEW t \in hit
        PROVE  ~verifyToken(t)'
    BY <1>1, <1>2, <2>1 DEF verifyToken
  <2> QED
    BY <1>1, <1>2, <1>3, <1>4, <1>5, <1>6, <2>1, FlightStays
<1>8. RevokedWhileIssued(revokedTokens)'
  <2>1. ASSUME NEW t \in Tokens
        PROVE  \/ revokedTokens'[t] = revokedTokens[t]
               \/ Issued(t) /\ IssuedAt(t) <= revokedTokens'[t] /\ revokedTokens'[t] <= now
    <3>1. CASE t \in hit
      BY <1>1, <1>2, <1>3, <3>1
    <3>2. CASE t \notin hit
      BY <1>1, <3>2
    <3> QED
      BY <3>1, <3>2
  <2> QED
    BY <1>5, <1>6, <2>1, MemoryStays
<1> QED
  BY <1>1, <1>5, <1>6, <1>7, <1>8, TableStays, PairsStayPast DEF TokenInv

\* A user is remembered; the old rows' deletion and the sentinel are under way.
LEMMA RevokeAllKeeps ==
  ASSUME TokenInv, NEW u \in Users, revokeAllUserTokens(u),
         UNCHANGED <<now, pairs, loaded, table, faults>>
  PROVE  TokenInv' /\ MemoryLasts
<1>1. /\ revokedUserIds' = revokedUserIds \cup {u}
      /\ inFlight' = inFlight \cup {Delete(u), Sentinel(u)}
      /\ UNCHANGED <<now, pairs, loaded, rows, sentinels, faults, revokedTokens>>
  BY DEF revokeAllUserTokens, table
<1>2. now <= now /\ now \in Time
  BY Numbers DEF TokenInv, TokenTypes, Time
<1>3. \A s \in {Delete(u), Sentinel(u)} :
        s \in StatementSet /\ s.at = now /\ s.do # "insert" /\ s.user = u
  BY <1>2 DEF Delete, Sentinel, StatementSet
<1>4. TokenTypes' /\ MemoryLasts
  BY <1>1, <1>2, <1>3 DEF TokenInv, TokenTypes, MemoryLasts
<1>5. InFlightRejected'
  BY <1>1, <1>3, <1>4, FlightStays
<1>6. RevokedWhileIssued(revokedTokens)'
  BY <1>1, <1>4, MemoryStays
<1> QED
  BY <1>1, <1>4, <1>5, <1>6, TableStays, PairsStayPast DEF TokenInv

\* A statement runs: what it writes is remembered by the process that sent it.
LEMMA RunStatementKeeps ==
  ASSUME TokenInv, NEW s \in inFlight, RunStatement(s)
  PROVE  TokenInv' /\ MemoryLasts
<1>1. /\ inFlight' = inFlight \ {s}
      /\ UNCHANGED <<now, pairs, loaded, faults, revokedTokens, revokedUserIds>>
  BY DEF RunStatement, memory
<1>2. s \in StatementSet
  BY DEF TokenInv, TokenTypes
<1>3. now <= now /\ s.at <= now /\ s.at \in Moments
  BY <1>2, Numbers DEF TokenInv, TokenTypes, Time, Moments, StatementSet, InFlightRejected
<1>4. MemoryLasts
  BY <1>1, <1>3 DEF MemoryLasts
<1>5. \/ /\ s.do = "insert" /\ sentinels' = sentinels
         /\ rows' = [rows EXCEPT ![s.token] = IF rows[s.token] = Never THEN s.at ELSE rows[s.token]]
      \/ /\ s.do # "insert"
         /\ rows' \in [Tokens -> Moments]
         /\ \A t \in Tokens : rows'[t] = rows[t] \/ rows'[t] = Never
         /\ \/ sentinels' = [sentinels EXCEPT ![s.user] = Never]
            \/ sentinels' = [sentinels EXCEPT ![s.user] = s.at]
  <2>1. CASE s.do = "insert"
    BY <2>1 DEF RunStatement
  <2>2. CASE s.do = "delete"
    <3>1. /\ rows' = [t \in Tokens |-> IF Issued(t) /\ Owner(t) = s.user THEN Never ELSE rows[t]]
          /\ sentinels' = [sentinels EXCEPT ![s.user] = Never]
      BY <2>2 DEF RunStatement
    <3> QED
      BY <2>2, <3>1 DEF TokenInv, TokenTypes, Moments
  <2>3. CASE s.do = "sentinel"
    <3>1. rows' = rows /\ sentinels' = [sentinels EXCEPT ![s.user] = s.at]
      BY <2>3 DEF RunStatement
    <3> QED
      BY <2>3, <3>1 DEF TokenInv, TokenTypes
  <2> QED
    BY <1>2, <2>1, <2>2, <2>3 DEF StatementSet
<1>6. rows' \in [Tokens -> Moments] /\ sentinels' \in [Users -> Moments]
  <2>1. rows \in [Tokens -> Moments] /\ sentinels \in [Users -> Moments] /\ Never \in Moments
    BY DEF TokenInv, TokenTypes, Moments
  <2> QED
    BY <1>3, <1>5, <2>1
<1>7. TokenTypes'
  BY <1>1, <1>6 DEF TokenInv, TokenTypes
<1>8. InFlightRejected'
  BY <1>1, <1>4, <1>7, FlightStays
<1>9. /\ \A t \in Tokens : \/ rows'[t] = rows[t] \/ rows'[t] = Never
                           \/ /\ Issued(t) /\ ~verifyToken(t)
                              /\ IssuedAt(t) <= rows'[t] /\ rows'[t] <= now
      /\ \A u \in Users : \/ sentinels'[u] = sentinels[u] \/ sentinels'[u] = Never
                          \/ u \in revokedUserIds /\ sentinels'[u] <= now
  <2>1. CASE s.do = "insert"
    <3>1. /\ s.token \in Tokens /\ Issued(s.token)
          /\ IssuedAt(s.token) <= s.at /\ ~verifyToken(s.token)
      BY <2>1 DEF TokenInv, InFlightRejected
    <3>2. /\ rows' = [rows EXCEPT ![s.token] = IF rows[s.token] = Never THEN s.at ELSE rows[s.token]]
          /\ rows \in [Tokens -> Moments] /\ sentinels' = sentinels
      BY <1>5, <2>1 DEF TokenInv, TokenTypes
    <3>3. \A t \in Tokens : t # s.token => rows'[t] = rows[t]
      BY <3>2
    <3>4. rows'[s.token] = s.at \/ rows'[s.token] = rows[s.token]
      BY <3>1, <3>2
    <3> QED
      BY <1>3, <3>1, <3>2, <3>3, <3>4
  <2>2. CASE s.do # "insert"
    <3>1. s.user \in revokedUserIds
      BY <2>2 DEF TokenInv, InFlightRejected
    <3>2. sentinels \in [Users -> Moments]
      BY DEF TokenInv, TokenTypes
    <3> QED
      BY <1>3, <1>5, <2>2, <3>1, <3>2
  <2> QED
    BY <2>1, <2>2
<1>10. SentinelsPast' /\ RevokedWhileIssued(rows)'
  <2>1. \A u \in Users : sentinels'[u] = sentinels[u] \/ sentinels'[u] <= now
    BY <1>3, <1>9, Numbers DEF TokenInv, TokenTypes, Time, Never
  <2> QED
    BY <1>4, <1>7, <1>9, <2>1, RowsStay, SentinelsStayPast
<1>11. PersistedRevocationsHold'
  <2>1. SentinelsPast
    BY DEF TokenInv
  <2> QED
    BY <1>1, <1>4, <1>7, <1>9, <2>1, TableHolds
<1>12. RevokedWhileIssued(revokedTokens)'
  BY <1>1, <1>4, <1>7, MemoryStays
<1> QED
  BY <1>4, <1>7, <1>8, <1>10, <1>11, <1>12, PairsStayPast DEF TokenInv

\* Steps that leave pairs, memory and table as they are: time passes, a statement
\* or a request fails, or the tokens are not concerned.
LEMMA RestKeeps ==
  ASSUME TokenInv, UNCHANGED <<pairs, memory, table>>,
         now' \in Time, now <= now', inFlight' \subseteq inFlight, faults' \in 0..MaxFaults
  PROVE  TokenInv' /\ MemoryLasts
<1>1. UNCHANGED <<pairs, loaded, revokedTokens, revokedUserIds, rows, sentinels>>
  BY DEF memory, table
<1>2. TokenTypes' /\ MemoryLasts
  BY <1>1 DEF TokenInv, TokenTypes, MemoryLasts
<1>3. InFlightRejected'
  BY <1>2, FlightStays
<1>4. RevokedWhileIssued(revokedTokens)'
  BY <1>1, <1>2, MemoryStays
<1> QED
  BY <1>1, <1>2, <1>3, <1>4, TableStays, PairsStayPast DEF TokenInv

LEMMA FailsAndTicksKeep ==
  ASSUME TokenInv, Tick \/ \E s \in inFlight : StatementFails(s)
  PROVE  TokenInv' /\ MemoryLasts
<1>1. now \in Nat /\ now \in Time /\ faults \in Nat /\ faults \in 0..MaxFaults
  BY Numbers DEF TokenInv, TokenTypes, Time
<1>2. CASE Tick
  BY <1>1, <1>2, Numbers, RestKeeps DEF Tick, Time
<1>3. CASE \E s \in inFlight : StatementFails(s)
  <2>1. /\ UNCHANGED <<pairs, memory, table, now>>
        /\ inFlight' \subseteq inFlight /\ faults' = faults + 1 /\ faults < MaxFaults
    BY <1>3 DEF StatementFails
  <2>2. faults' \in 0..MaxFaults
    BY <1>1, <2>1, Numbers
  <2> QED
    BY <1>1, <2>1, <2>2, RestKeeps
<1> QED
  BY <1>2, <1>3

\* The clean-up forgets only what was revoked longer ago than tokens live.
LEMMA CleanupKeeps ==
  ASSUME TokenInv, cleanupRevokedTokens
  PROVE  TokenInv' /\ MemoryLasts
<1>1. /\ revokedTokens' = [t \in Tokens |-> IF Outdated(revokedTokens[t]) THEN Never ELSE revokedTokens[t]]
      /\ UNCHANGED <<now, pairs, revokedUserIds, loaded, rows, sentinels, inFlight, faults>>
  BY DEF cleanupRevokedTokens, table
<1>2. now <= now
  BY Numbers DEF TokenInv, TokenTypes, Time
<1>3. TokenTypes'
  BY <1>1 DEF TokenInv, TokenTypes, Moments
<1>4. MemoryLasts
  BY <1>1, <1>2 DEF MemoryLasts, Outdated
<1>5. InFlightRejected'
  BY <1>1, <1>3, <1>4, FlightStays
<1>6. RevokedWhileIssued(revokedTokens)'
  BY <1>1, <1>3, <1>4, MemoryStays
<1> QED
  BY <1>1, <1>3, <1>4, <1>5, <1>6, TableStays, PairsStayPast DEF TokenInv

\* What the load does not find recent enough is older than any token it revokes.
LEMMA LoadKeeps ==
  ASSUME TokenInv, loadRevokedTokens
  PROVE  TokenInv' /\ MemoryLasts
<1>1. /\ revokedTokens' = [t \in Tokens |-> IF Recent(rows[t]) THEN rows[t] ELSE revokedTokens[t]]
      /\ revokedUserIds' = revokedUserIds \cup {u \in Users : Recent(sentinels[u])}
      /\ loaded' = TRUE
      /\ UNCHANGED <<now, pairs, rows, sentinels, inFlight, faults>>
  BY DEF loadRevokedTokens, table
<1>2. now <= now /\ now \in Nat
  BY Numbers DEF TokenInv, TokenTypes, Time
<1>3. TokenTypes'
  BY <1>1 DEF TokenInv, TokenTypes
<1>4. MemoryLasts
  BY <1>1, <1>2 DEF MemoryLasts, Recent
<1>5. InFlightRejected'
  BY <1>1, <1>3, <1>4, FlightStays
<1>6. RevokedWhileIssued(revokedTokens)'
  <2>1. ASSUME NEW t \in Tokens
        PROVE  \/ revokedTokens'[t] = revokedTokens[t]
               \/ Issued(t) /\ IssuedAt(t) <= revokedTokens'[t] /\ revokedTokens'[t] <= now
    <3>1. CASE Recent(rows[t])
      BY <1>1, <3>1 DEF Recent, TokenInv, RevokedWhileIssued
    <3>2. CASE ~Recent(rows[t])
      BY <1>1, <3>2
    <3> QED
      BY <3>1, <3>2
  <2> QED
    BY <1>3, <1>4, <2>1, MemoryStays
<1>7. RevokedWhileIssued(rows)' /\ SentinelsPast'
  BY <1>1, <1>3, <1>4, RowsStay, SentinelsStayPast
<1>8. PersistedRevocationsHold'
  <2> SUFFICES ASSUME NEW t \in Tokens, Issued(t)',
                      rows'[t] > IssuedAt(t)' \/ sentinels'[Owner(t)'] > IssuedAt(t)'
               PROVE  ~verifyToken(t)'
    BY DEF PersistedRevocationsHold
  <2>1. Issued(t) /\ IssuedAt(t)' = IssuedAt(t) /\ Owner(t)' = Owner(t)
    BY <1>1 DEF Issued, IssuedAt, Owner
  <2>2. IssuedAt(t) \in Nat /\ Owner(t) \in Users /\ Life(t) \in Nat /\ Life(t) <= Keep /\ Keep \in Nat
    BY <2>1, IssuedTypes, LifeWithinKeep, Numbers DEF TokenInv
  <2>3. ASSUME NEW at \in Moments, at > IssuedAt(t), ~Recent(at)
        PROVE  ~verifyToken(t)'
    <3>1. at # Never /\ at \in Nat /\ at <= now - Keep
      BY <1>2, <2>2, <2>3, Numbers DEF Recent, Never, Moments, Time
    <3>2. now > IssuedAt(t) + Life(t)
      BY <1>2, <2>2, <2>3, <3>1
    <3> QED
      BY <1>1, <1>2, <2>1, <2>2, <3>2 DEF verifyToken
  <2>4. CASE rows[t] > IssuedAt(t)
    <3>1. rows[t] \in Moments
      BY DEF TokenInv, TokenTypes
    <3>2. Recent(rows[t]) => revokedTokens'[t] # Never
      BY <1>1 DEF Recent
    <3> QED
      BY <2>3, <2>4, <3>1, <3>2 DEF verifyToken
  <2>5. CASE sentinels[Owner(t)] > IssuedAt(t)
    <3>1. sentinels[Owner(t)] \in Moments
      BY <2>2 DEF TokenInv, TokenTypes
    <3>2. Recent(sentinels[Owner(t)]) => Owner(t)' \in revokedUserIds'
      BY <1>1, <2>1, <2>2
    <3> QED
      BY <2>3, <2>5, <3>1, <3>2 DEF verifyToken
  <2> QED
    BY <1>1, <2>1, <2>4, <2>5
<1> QED
  BY <1>3, <1>4, <1>5, <1>6, <1>7, <1>8, PairsStayPast DEF TokenInv

\* A restart forgets what is remembered, and what was under way to the table.
LEMMA RestartKeepsTokens ==
  ASSUME TokenInv, TokensRestart
  PROVE  TokenInv'
<1>1. /\ faults < MaxFaults /\ faults' = faults + 1
      /\ revokedTokens' = [t \in Tokens |-> Never] /\ revokedUserIds' = {}
      /\ inFlight' = {} /\ ~loaded' /\ loaded' \in BOOLEAN
      /\ UNCHANGED <<now, pairs, rows, sentinels>>
  BY Zenon DEF TokensRestart, table
<1>2. faults' \in 0..MaxFaults
  BY <1>1, Numbers DEF TokenInv, TokenTypes
<1>3. TokenTypes'
  BY <1>1, <1>2 DEF TokenInv, TokenTypes, Moments
<1>4. PairsPast' /\ SentinelsPast' /\ InFlightRejected' /\ PersistedRevocationsHold'
  BY <1>1 DEF TokenInv, PairsPast, SentinelsPast, InFlightRejected, PersistedRevocationsHold
<1>5. RevokedWhileIssued(revokedTokens)' /\ RevokedWhileIssued(rows)'
  BY <1>1 DEF TokenInv, RevokedWhileIssued, Issued, IssuedAt
<1> QED
  BY <1>3, <1>4, <1>5 DEF TokenInv

(***************************************************************************)
(* Every step but a restart keeps TokenInv, and what the process knows.    *)
(***************************************************************************)
LEMMA TokenRequestKeeps ==
  ASSUME TokenInv, TokenRequest
  PROVE  TokenInv' /\ MemoryLasts
<1>1. ASSUME NEW t \in Cookies, RefreshSession(t)
      PROVE  TokenInv' /\ MemoryLasts
  <2>1. Issued(t) /\ pairs[t[1]] \in PairSet /\ Owner(t) \in Users
    BY <1>1, IssuedTypes DEF RefreshSession, verifyToken, TokenInv
  <2>2. pairs[t[1]].proof \in Nat /\ pairs[t[1]].began \in Nat
    BY <2>1 DEF PairSet
  <2> QED
    BY <1>1, <2>1, <2>2, GenerateKeeps DEF RefreshSession
<1>2. ASSUME NEW t \in Bearers, NEW cookie \in Cookies \cup {NoToken}, Logout(t, cookie)
      PROVE  TokenInv' /\ MemoryLasts
  <2>1. {t, cookie} \subseteq Tokens \cup {NoToken}
    BY DEF Bearers, Cookies, Tokens
  <2> QED
    BY <1>2, <2>1, RevokeKeeps DEF Logout
<1> QED
  BY <1>1, <1>2 DEF TokenRequest

LEMMA TokenStepKeeps ==
  ASSUME TokenInv, TokenStep
  PROVE  TokenInv' /\ MemoryLasts
BY RunStatementKeeps, FailsAndTicksKeep, CleanupKeeps, LoadKeeps
   DEF TokenStep, PoolStep, TimerStep

LEMMA BeginsKeepsTokens ==
  ASSUME TokenInv, UNCHANGED tokenVars
  PROVE  TokenInv' /\ MemoryLasts
<1>1. /\ now \in Time /\ now <= now /\ faults \in 0..MaxFaults
      /\ UNCHANGED <<pairs, memory, table, now, inFlight, faults>>
  BY Numbers DEF TokenInv, TokenTypes, Time, tokenVars
<1> QED
  BY <1>1, RestKeeps

LEMMA RequestKeepsTokens ==
  ASSUME TokenInv, AccountTypes, RequestBegins \/ RequestGoesOn
  PROVE  TokenInv' /\ MemoryLasts
<1>1. CASE RequestBegins
  BY <1>1, BeginsKeepsTokens
     DEF RequestBegins, SignInReads, ForgotReads, ResetReads, ChangeReads, DeleteReads, Begins
<1>2. ASSUME NEW r \in reqs,
             ForgotUpserts(r) \/ PasswordUpdate(r) \/ LinkUpdate(r) \/ AccountDelete(r)
      PROVE  TokenInv' /\ MemoryLasts
  BY <1>2, BeginsKeepsTokens DEF ForgotUpserts, PasswordUpdate, LinkUpdate, AccountDelete
<1>3. ASSUME NEW r \in reqs
      PROVE  /\ r.user \in Users /\ r.proof \in Nat /\ r.began \in Nat
             /\ {r.token, r.cookie} \subseteq Tokens \cup {NoToken}
  BY DEF AccountTypes, RequestSet
<1>4. ASSUME NEW r \in reqs, SignInIssues(r)
      PROVE  TokenInv' /\ MemoryLasts
  BY <1>3, <1>4, GenerateKeeps DEF SignInIssues
<1>5. ASSUME NEW r \in reqs, PasswordAnswers(r)
      PROVE  TokenInv' /\ MemoryLasts
  BY <1>3, <1>5, RevokeAllKeeps DEF PasswordAnswers
<1>6. ASSUME NEW r \in reqs, DeleteAnswers(r)
      PROVE  TokenInv' /\ MemoryLasts
  BY <1>3, <1>6, RevokeKeeps DEF DeleteAnswers
<1>7. ASSUME NEW r \in reqs, RequestFails(r)
      PROVE  TokenInv' /\ MemoryLasts
  <2>1. faults' \in 0..MaxFaults /\ now \in Time /\ now <= now
    BY <1>7, Numbers DEF RequestFails, TokenInv, TokenTypes, Time
  <2> QED
    BY <1>7, <2>1, RestKeeps DEF RequestFails
<1> QED
  BY <1>1, <1>2, <1>4, <1>5, <1>6, <1>7 DEF RequestGoesOn

(***************************************************************************)
(* Requests, their links and what was answered.                            *)
(***************************************************************************)
LEMMA AccountSays ==
  ASSUME TokenInv, AccountTypes
  PROVE  /\ count \in Nat /\ spent \subseteq Nat /\ now \in Time /\ now \in Nat /\ Time \subseteq Nat
         /\ \A u \in Users : /\ link[u] \in LinkSet /\ link[u].id \in Nat
                             /\ version[u] \in Nat /\ answered[u] \in Nat
         /\ \A r \in reqs : /\ r \in RequestSet /\ r.id \in 1..MaxRequests /\ r.id \in Nat
                            /\ r.user \in Users
BY Numbers DEF TokenInv, TokenTypes, Time, AccountTypes, LinkSet, RequestSet

\* A request begins with a number of its own, a reset with a link that is one.
LEMMA BeginsKeepsLinks ==
  ASSUME TokenInv, AccountTypes, LinkInv, NEW req \in RequestSet, Begins(req), req.id = count + 1, req.pc = "read",
         req.op = "reset" => req.link = link[req.user].id /\ ~link[req.user].used
  PROVE  AccountTypes' /\ LinkInv'
<1> USE AccountSays
<1>1. /\ count < MaxRequests /\ count' = count + 1 /\ reqs' = reqs \cup {req}
      /\ UNCHANGED <<account, version, link, answered, spent, restarts>>
  BY DEF Begins, Counted, accountRows, ghosts
<1>2. AccountTypes'
  BY <1>1, Numbers DEF AccountTypes
<1>3. IdsFresh'
  BY <1>1 DEF LinkInv, IdsFresh
<1>4. req.op = "reset" => req.link \in Nat /\ req.link # 0 /\ req.link <= count /\ req.user \in Users
  BY DEF LinkInv, IdsFresh, LinksOfOne, RequestSet
<1>5. ForgotFresh'
  <2> SUFFICES ASSUME NEW r \in reqs', r.op = "forgot"
               PROVE  /\ r.id \notin spent
                      /\ \A u \in Users : link[u].id # r.id
                      /\ \A q \in reqs' : q.op = "reset" => q.link # r.id
    BY <1>1 DEF ForgotFresh
  <2>1. CASE r \in reqs
    <3>1. /\ r.id \notin spent
          /\ \A u \in Users : link[u].id # r.id
          /\ \A q \in reqs : q.op = "reset" => q.link # r.id
      BY <2>1 DEF LinkInv, ForgotFresh
    <3> QED
      BY <1>1, <1>4, <3>1
  <2>2. CASE r = req
    <3>1. \A q \in reqs : q.op = "reset" => q.link \in 1..count
      BY DEF LinkInv, ResetsOfOne
    <3>2. \A q \in reqs' : q.op = "reset" => q \in reqs
      BY <1>1, <2>2
    <3>3. \A q \in reqs' : q.op = "reset" => q.link # r.id
      BY <2>2, <3>1, <3>2
    <3> QED
      BY <2>2, <3>3 DEF LinkInv, IdsFresh
  <2> QED
    BY <1>1, <2>1, <2>2
<1>6. LinksOfOne' /\ SpentLinksUsed'
  BY <1>1 DEF LinkInv, LinksOfOne, SpentLinksUsed
<1>7. ResetsOfOne'
  <2> SUFFICES ASSUME NEW r \in reqs', r.op = "reset"
               PROVE  /\ r.link \in 1..count'
                      /\ \A u \in Users : link[u].id = r.link => u = r.user
                      /\ r.pc = "marked" /\ link[r.user].id = r.link => link[r.user].used
    BY <1>1 DEF ResetsOfOne
  <2>1. CASE r \in reqs
    BY <1>1, <2>1 DEF LinkInv, ResetsOfOne
  <2>2. CASE r = req
    <3>1. \A u \in Users : link[u].id = r.link => u = r.user
      BY <1>4, <2>2 DEF LinkInv, LinksOfOne
    <3> QED
      BY <1>1, <1>4, <2>2, <3>1
  <2> QED
    BY <1>1, <2>1, <2>2
<1> QED
  BY <1>2, <1>3, <1>5, <1>6, <1>7 DEF LinkInv

\* Requests end, or were none of these; links and answers stay.
LEMMA EndsKeepsLinks ==
  ASSUME TokenInv, AccountTypes, LinkInv, reqs' \subseteq reqs, count' \in 0..MaxRequests, count <= count',
         UNCHANGED <<account, version, link, answered, spent>>, restarts' \in Nat
  PROVE  AccountTypes' /\ LinkInv'
<1> USE AccountSays
<1>1. AccountTypes'
  BY DEF AccountTypes
<1>2. count' \in Nat
  OBVIOUS
<1>3. IdsFresh' /\ ForgotFresh'
  BY <1>2 DEF LinkInv, IdsFresh, ForgotFresh
<1>4. LinksOfOne' /\ SpentLinksUsed' /\ ResetsOfOne'
  BY <1>2 DEF LinkInv, LinksOfOne, SpentLinksUsed, ResetsOfOne
<1> QED
  BY <1>1, <1>3, <1>4 DEF LinkInv

\* A request goes on under its number, with the link it was given.
Successor(q, r) == q.id = r.id /\ q.op = r.op /\ q.user = r.user /\ q.link = r.link
LEMMA MovesKeepsIds ==
  ASSUME TokenInv, AccountTypes, LinkInv, NEW r \in reqs, NEW q, Successor(q, r),
         reqs' = (reqs \ {r}) \cup {q}, UNCHANGED <<count, spent>>,
         \A u \in Users : link'[u].id = link[u].id \/ link'[u].id = 0
  PROVE  IdsFresh' /\ ForgotFresh'
<1> USE AccountSays
<1>1. IdsFresh'
  BY DEF LinkInv, IdsFresh, Successor
<1>2. ForgotFresh'
  <2> SUFFICES ASSUME NEW f \in reqs', f.op = "forgot"
               PROVE  /\ f.id \notin spent
                      /\ \A u \in Users : link'[u].id # f.id
                      /\ \A p \in reqs' : p.op = "reset" => p.link # f.id
    BY DEF ForgotFresh
  <2>1. PICK g \in reqs : g.id = f.id /\ g.op = "forgot"
    BY DEF Successor
  <2>2. \A p \in reqs' : \E o \in reqs : o.op = p.op /\ o.link = p.link
    BY DEF Successor
  <2>3. /\ g.id \notin spent /\ g.id # 0
        /\ \A u \in Users : link[u].id # g.id
        /\ \A p \in reqs : p.op = "reset" => p.link # g.id
    BY <2>1 DEF LinkInv, ForgotFresh
  <2> QED
    BY <2>1, <2>2, <2>3
<1> QED
  BY <1>1, <1>2

LEMMA PasswordUpdateKeepsLinks ==
  ASSUME TokenInv, AccountTypes, LinkInv, NEW r \in reqs, PasswordUpdate(r)
  PROVE  AccountTypes' /\ LinkInv'
<1> USE AccountSays
<1> DEFINE q == [r EXCEPT !.pc = "updated", !.proof = version'[r.user]]
<1>1. /\ version' = [version EXCEPT ![r.user] = IF account[r.user] THEN version[r.user] + 1 ELSE version[r.user]]
      /\ reqs' = (reqs \ {r}) \cup {q}
      /\ UNCHANGED <<account, link, count, answered, spent, restarts>>
  BY DEF PasswordUpdate, ghosts
<1>2. version' \in [Users -> Nat]
  BY <1>1 DEF AccountTypes
<1>3. r \in RequestSet /\ version'[r.user] \in Nat
  BY <1>2
<1>4. q \in RequestSet /\ Successor(q, r) /\ q.pc = "updated"
  BY <1>3 DEF RequestSet, Successor
<1> HIDE DEF q
<1>5. AccountTypes'
  BY <1>1, <1>2, <1>4 DEF AccountTypes
<1>6. IdsFresh' /\ ForgotFresh'
  BY <1>1, <1>4, MovesKeepsIds
<1>7. LinksOfOne' /\ SpentLinksUsed'
  BY <1>1 DEF LinkInv, LinksOfOne, SpentLinksUsed
<1>8. ResetsOfOne'
  BY <1>1, <1>4 DEF LinkInv, ResetsOfOne, Successor
<1> QED
  BY <1>5, <1>6, <1>7, <1>8 DEF LinkInv

\* Marking a link changes nothing else of it.
LEMMA LinkUpdateKeepsLinks ==
  ASSUME TokenInv, AccountTypes, LinkInv, NEW r \in reqs, LinkUpdate(r)
  PROVE  AccountTypes' /\ LinkInv'
<1> USE AccountSays
<1> DEFINE q == [r EXCEPT !.pc = "marked"]
<1>1. /\ r.op = "reset" /\ r.pc = "updated"
      /\ link' = IF link[r.user].id = r.link THEN [link EXCEPT ![r.user].used = TRUE] ELSE link
      /\ reqs' = (reqs \ {r}) \cup {q}
      /\ UNCHANGED <<account, version, count, answered, spent, restarts>>
  BY DEF LinkUpdate, Is, Goto, ghosts
<1>2. r \in RequestSet
  OBVIOUS
<1>3. q \in RequestSet /\ Successor(q, r) /\ q.pc = "marked"
  BY <1>2 DEF RequestSet, Successor
<1>4. /\ link' \in [Users -> LinkSet]
      /\ \A u \in Users : link'[u].id = link[u].id /\ (link[u].used => link'[u].used)
      /\ link[r.user].id = r.link => link'[r.user].used
  <2>1. link \in [Users -> LinkSet]
    BY DEF AccountTypes
  <2>2. CASE link[r.user].id = r.link
    <3>1. link' = [link EXCEPT ![r.user] = [link[r.user] EXCEPT !.used = TRUE]]
      BY <1>1, <2>2
    <3>2. /\ [link[r.user] EXCEPT !.used = TRUE] \in LinkSet
          /\ [link[r.user] EXCEPT !.used = TRUE].used
          /\ [link[r.user] EXCEPT !.used = TRUE].id = link[r.user].id
      BY DEF LinkSet
    <3> QED
      BY <2>1, <3>1, <3>2
  <2>3. CASE link[r.user].id # r.link
    BY <1>1, <2>1, <2>3
  <2> QED
    BY <2>2, <2>3
<1> HIDE DEF q
<1>5. AccountTypes'
  BY <1>1, <1>3, <1>4 DEF AccountTypes
<1>6. IdsFresh' /\ ForgotFresh'
  BY <1>1, <1>3, <1>4, MovesKeepsIds
<1>7. LinksOfOne' /\ SpentLinksUsed'
  BY <1>1, <1>4 DEF LinkInv, LinksOfOne, SpentLinksUsed
<1>8. ResetsOfOne'
  <2> SUFFICES ASSUME NEW p \in reqs', p.op = "reset"
               PROVE  /\ p.link \in 1..count
                      /\ \A u \in Users : link'[u].id = p.link => u = p.user
                      /\ p.pc = "marked" /\ link'[p.user].id = p.link => link'[p.user].used
    BY <1>1 DEF ResetsOfOne
  <2>1. PICK o \in reqs : /\ o.op = "reset" /\ o.link = p.link /\ o.user = p.user
                          /\ o = p \/ o = r
    BY <1>1, <1>3 DEF Successor
  <2>2. /\ o.link \in 1..count
        /\ \A u \in Users : link[u].id = o.link => u = o.user
        /\ o.pc = "marked" /\ link[o.user].id = o.link => link[o.user].used
    BY <2>1 DEF LinkInv, ResetsOfOne
  <2> QED
    BY <1>4, <2>1, <2>2
<1> QED
  BY <1>5, <1>6, <1>7, <1>8 DEF LinkInv

\* The account's link goes with it; no reset was given link 0.
LEMMA AccountDeleteKeepsLinks ==
  ASSUME TokenInv, AccountTypes, LinkInv, NEW r \in reqs, AccountDelete(r)
  PROVE  AccountTypes' /\ LinkInv'
<1> USE AccountSays
<1> DEFINE q == [r EXCEPT !.pc = "updated"]
<1>1. /\ r.op = "delete"
      /\ account' = [account EXCEPT ![r.user] = FALSE]
      /\ link' = [link EXCEPT ![r.user] = NoLink]
      /\ reqs' = (reqs \ {r}) \cup {q}
      /\ UNCHANGED <<version, count, answered, spent, restarts>>
  BY DEF AccountDelete, Is, Goto, ghosts
<1>2. r \in RequestSet
  OBVIOUS
<1>3. q \in RequestSet /\ Successor(q, r)
  BY <1>2 DEF RequestSet, Successor
<1>4. NoLink \in LinkSet /\ NoLink.id = 0 /\ NoLink.used
  BY DEF NoLink, LinkSet
<1>5. /\ link' \in [Users -> LinkSet]
      /\ \A u \in Users : link'[u] = link[u] \/ link'[u] = NoLink
  BY <1>1, <1>4 DEF AccountTypes
<1>6. account' \in [Users -> BOOLEAN]
  BY <1>1 DEF AccountTypes
<1> HIDE DEF q
<1>7. AccountTypes'
  BY <1>1, <1>3, <1>5, <1>6 DEF AccountTypes
<1>8. IdsFresh' /\ ForgotFresh'
  BY <1>1, <1>3, <1>4, <1>5, MovesKeepsIds
<1>9. LinksOfOne'
  BY <1>4, <1>5 DEF LinkInv, LinksOfOne
<1>10. SpentLinksUsed'
  BY <1>1, <1>4, <1>5 DEF LinkInv, SpentLinksUsed
<1>11. ResetsOfOne'
  <2> SUFFICES ASSUME NEW p \in reqs', p.op = "reset"
               PROVE  /\ p.link \in 1..count
                      /\ \A u \in Users : link'[u].id = p.link => u = p.user
                      /\ p.pc = "marked" /\ link'[p.user].id = p.link => link'[p.user].used
    BY <1>1 DEF ResetsOfOne
  <2>1. p \in reqs
    BY <1>1, <1>3 DEF Successor
  <2>2. /\ p.link \in 1..count /\ p.link # 0
        /\ \A u \in Users : link[u].id = p.link => u = p.user
        /\ p.pc = "marked" /\ link[p.user].id = p.link => link[p.user].used
    BY <2>1 DEF LinkInv, ResetsOfOne
  <2> QED
    BY <1>4, <1>5, <2>1, <2>2
<1> QED
  BY <1>7, <1>8, <1>9, <1>10, <1>11 DEF LinkInv

\* A link that is made replaces the one before; its number was given to nobody.
LEMMA ForgotKeepsLinks ==
  ASSUME TokenInv, AccountTypes, LinkInv, NEW r \in reqs, ForgotUpserts(r)
  PROVE  AccountTypes' /\ LinkInv'
<1> USE AccountSays
<1>1. /\ r.op = "forgot" /\ reqs' = reqs \ {r}
      /\ UNCHANGED <<account, version, count, answered, spent, restarts>>
  BY DEF ForgotUpserts, Is, Ends, ghosts
<1> DEFINE l == [id |-> r.id, expires |-> r.at + ResetLife, used |-> FALSE]
<1>2. l \in LinkSet /\ l.id = r.id /\ l.id # 0
  <2>1. r.at \in Nat
    BY DEF RequestSet
  <2> QED
    BY <2>1, Numbers DEF LinkSet
<1>3. CASE link' = link
  <2>1. reqs' \subseteq reqs /\ count' \in 0..MaxRequests /\ count <= count' /\ restarts' \in Nat
    BY <1>1 DEF AccountTypes
  <2> QED
    BY <1>1, <1>3, <2>1, EndsKeepsLinks
<1>4. CASE link' = [link EXCEPT ![r.user] = l]
  <2> HIDE DEF l
  <2>1. /\ link' \in [Users -> LinkSet] /\ link'[r.user] = l
        /\ \A u \in Users : u # r.user => link'[u] = link[u]
    BY <1>2, <1>4 DEF AccountTypes
  <2>2. /\ \A u \in Users : link[u].id # r.id
        /\ \A p \in reqs : p.op = "reset" => p.link # r.id
        /\ r.id \notin spent
    BY <1>1 DEF LinkInv, ForgotFresh
  <2>3. AccountTypes'
    BY <1>1, <2>1 DEF AccountTypes
  <2>4. IdsFresh'
    BY <1>1, <1>2, <2>1 DEF LinkInv, IdsFresh
  <2>5. ForgotFresh'
    <3> SUFFICES ASSUME NEW f \in reqs', f.op = "forgot"
                 PROVE  /\ f.id \notin spent
                        /\ \A u \in Users : link'[u].id # f.id
                        /\ \A p \in reqs' : p.op = "reset" => p.link # f.id
      BY <1>1 DEF ForgotFresh
    <3>1. f \in reqs /\ f.id # r.id
      BY <1>1 DEF LinkInv, IdsFresh
    <3>2. /\ f.id \notin spent
          /\ \A u \in Users : link[u].id # f.id
          /\ \A p \in reqs : p.op = "reset" => p.link # f.id
      BY <3>1 DEF LinkInv, ForgotFresh
    <3> QED
      BY <1>1, <1>2, <2>1, <3>1, <3>2
  <2>6. LinksOfOne'
    BY <1>2, <2>1, <2>2 DEF LinkInv, LinksOfOne
  <2>7. SpentLinksUsed'
    BY <1>1, <1>2, <2>1, <2>2 DEF LinkInv, SpentLinksUsed
  <2>8. ResetsOfOne'
    <3> SUFFICES ASSUME NEW p \in reqs, p.op = "reset"
                 PROVE  /\ p.link \in 1..count
                        /\ \A u \in Users : link'[u].id = p.link => u = p.user
                        /\ p.pc = "marked" /\ link'[p.user].id = p.link => link'[p.user].used
      BY <1>1 DEF ResetsOfOne
    <3>1. /\ p.link \in 1..count /\ p.link # r.id
          /\ \A u \in Users : link[u].id = p.link => u = p.user
          /\ p.pc = "marked" /\ link[p.user].id = p.link => link[p.user].used
      BY <2>2 DEF LinkInv, ResetsOfOne
    <3> QED
      BY <1>2, <2>1, <3>1
  <2> QED
    BY <2>3, <2>4, <2>5, <2>6, <2>7, <2>8 DEF LinkInv
<1> QED
  BY <1>3, <1>4 DEF ForgotUpserts

\* The link of a reset that is answered is marked, or there is another.
LEMMA AnswersKeepsLinks ==
  ASSUME TokenInv, AccountTypes, LinkInv, NEW r \in reqs, PasswordAnswers(r)
  PROVE  AccountTypes' /\ LinkInv'
<1> USE AccountSays
<1>1. /\ reqs' = reqs \ {r}
      /\ r.op = "reset" => r.pc = "marked"
      /\ answered' = [answered EXCEPT ![r.user] = IF r.proof > answered[r.user] THEN r.proof
                                                  ELSE answered[r.user]]
      /\ spent' = IF r.op = "reset" THEN spent \cup {r.link} ELSE spent
      /\ UNCHANGED <<account, version, link, count, restarts>>
  BY DEF PasswordAnswers, Is, Ends, accountRows
<1>2. r.op = "reset" =>
        /\ r.link \in 1..count
        /\ \A u \in Users : link[u].id = r.link => u = r.user
        /\ link[r.user].id = r.link => link[r.user].used
  BY <1>1 DEF LinkInv, ResetsOfOne
<1>3. r.op = "reset" => r.link \in 1..MaxRequests
  BY <1>2, Numbers DEF AccountTypes
<1>4. AccountTypes'
  <2>1. answered' \in [Users -> Nat]
    <3>1. r.proof \in Nat /\ answered \in [Users -> Nat]
      BY DEF AccountTypes, RequestSet
    <3> QED
      BY <1>1, <3>1
  <2>2. spent' \subseteq 1..MaxRequests
    BY <1>1, <1>3 DEF AccountTypes
  <2> QED
    BY <1>1, <2>1, <2>2 DEF AccountTypes
<1>5. IdsFresh' /\ ResetsOfOne' /\ LinksOfOne'
  BY <1>1, <1>2 DEF LinkInv, IdsFresh, ResetsOfOne, LinksOfOne
<1>6. ForgotFresh'
  BY <1>1 DEF LinkInv, ForgotFresh
<1>7. SpentLinksUsed'
  BY <1>1, <1>2 DEF LinkInv, SpentLinksUsed
<1> QED
  BY <1>4, <1>5, <1>6, <1>7 DEF LinkInv

(***************************************************************************)
(* The inductive invariant.                                                *)
(***************************************************************************)
LEMMA RequestKeepsLinks ==
  ASSUME TokenInv, AccountTypes, LinkInv, RequestBegins \/ RequestGoesOn
  PROVE  AccountTypes' /\ LinkInv'
<1> USE AccountSays
<1>1. ASSUME Counted
      PROVE  count + 1 \in 1..MaxRequests
  BY <1>1, Numbers DEF Counted
<1>2. 0 \in Nat /\ 0 \in Time /\ NoToken \in Tokens \cup {NoToken}
  BY Numbers DEF Time
<1>3. ASSUME NEW u \in Users, SignInReads(u)
      PROVE  AccountTypes' /\ LinkInv'
  <2> DEFINE q == [Request("sign-in", u) EXCEPT !.proof = version[u], !.began = answered[u]]
  <2>1. q = [id |-> count + 1, op |-> "sign-in", user |-> u, pc |-> "read", proof |-> version[u],
             began |-> answered[u], at |-> 0, link |-> 0, token |-> NoToken, cookie |-> NoToken]
    <3> DEFINE p == [Request("sign-in", u) EXCEPT !.proof = version[u]]
    <3>1. q = [p EXCEPT !.began = answered[u]]
      OBVIOUS
    <3>2. p = [id |-> count + 1, op |-> "sign-in", user |-> u, pc |-> "read", proof |-> version[u],
             began |-> 0, at |-> 0, link |-> 0, token |-> NoToken, cookie |-> NoToken]
      BY DEF Request
    <3> HIDE DEF p, q
    <3> QED
      BY <3>1, <3>2
  <2>2. Begins(q) /\ Counted
    BY <1>3 DEF SignInReads, Begins
  <2>3. q \in RequestSet /\ q.id = count + 1 /\ q.pc = "read" /\ q.op = "sign-in"
    BY <1>1, <1>2, <2>1, <2>2 DEF RequestSet
  <2> HIDE DEF q
  <2> QED
    BY <2>2, <2>3, BeginsKeepsLinks
<1>4. ASSUME NEW u \in Users, ForgotReads(u)
      PROVE  AccountTypes' /\ LinkInv'
  <2> DEFINE q == [Request("forgot", u) EXCEPT !.at = now]
  <2>1. q = [id |-> count + 1, op |-> "forgot", user |-> u, pc |-> "read", proof |-> 0,
             began |-> 0, at |-> now, link |-> 0, token |-> NoToken, cookie |-> NoToken]
    BY DEF Request
  <2>2. Begins(q) /\ Counted
    BY <1>4 DEF ForgotReads, Begins
  <2>3. q \in RequestSet /\ q.id = count + 1 /\ q.pc = "read" /\ q.op = "forgot"
    BY <1>1, <1>2, <2>1, <2>2 DEF RequestSet
  <2> HIDE DEF q
  <2> QED
    BY <2>2, <2>3, BeginsKeepsLinks
<1>5. ASSUME NEW u \in Users, ResetReads(u)
      PROVE  AccountTypes' /\ LinkInv'
  <2> DEFINE q == [Request("reset", u) EXCEPT !.link = link[u].id]
  <2>1. q = [id |-> count + 1, op |-> "reset", user |-> u, pc |-> "read", proof |-> 0,
             began |-> 0, at |-> 0, link |-> link[u].id, token |-> NoToken, cookie |-> NoToken]
    BY DEF Request
  <2>2. Begins(q) /\ Counted /\ ~link[u].used
    BY <1>5 DEF ResetReads, Begins, Usable
  <2>3. q \in RequestSet /\ q.id = count + 1 /\ q.pc = "read" /\ q.user = u /\ q.link = link[u].id
    BY <1>1, <1>2, <2>1, <2>2 DEF RequestSet
  <2> HIDE DEF q
  <2> QED
    BY <2>2, <2>3, BeginsKeepsLinks
<1>6. ASSUME NEW u \in Users, NEW t \in Bearers, ChangeReads(u, t)
      PROVE  AccountTypes' /\ LinkInv'
  <2> DEFINE q == Request("change", u)
  <2>1. q = [id |-> count + 1, op |-> "change", user |-> u, pc |-> "read", proof |-> 0,
             began |-> 0, at |-> 0, link |-> 0, token |-> NoToken, cookie |-> NoToken]
    BY DEF Request
  <2>2. Begins(q) /\ Counted
    BY <1>6 DEF ChangeReads, Begins
  <2>3. q \in RequestSet /\ q.id = count + 1 /\ q.pc = "read" /\ q.op = "change"
    BY <1>1, <1>2, <2>1, <2>2 DEF RequestSet
  <2> HIDE DEF q
  <2> QED
    BY <2>2, <2>3, BeginsKeepsLinks
<1>7. ASSUME NEW u \in Users, NEW t \in Bearers, NEW cookie \in Cookies \cup {NoToken},
             DeleteReads(u, t, cookie)
      PROVE  AccountTypes' /\ LinkInv'
  <2> DEFINE q == [Request("delete", u) EXCEPT !.token = t, !.cookie = cookie]
  <2>1. q = [id |-> count + 1, op |-> "delete", user |-> u, pc |-> "read", proof |-> 0,
             began |-> 0, at |-> 0, link |-> 0, token |-> t, cookie |-> cookie]
    <3> DEFINE p == [Request("delete", u) EXCEPT !.token = t]
    <3>1. q = [p EXCEPT !.cookie = cookie]
      OBVIOUS
    <3>2. p = [id |-> count + 1, op |-> "delete", user |-> u, pc |-> "read", proof |-> 0,
             began |-> 0, at |-> 0, link |-> 0, token |-> t, cookie |-> NoToken]
      BY DEF Request
    <3> HIDE DEF p, q
    <3> QED
      BY <3>1, <3>2
  <2>2. Begins(q) /\ Counted
    BY <1>7 DEF DeleteReads, Begins
  <2>3. t \in Tokens \cup {NoToken} /\ cookie \in Tokens \cup {NoToken}
    BY DEF Bearers, Cookies, Tokens
  <2>4. q \in RequestSet /\ q.id = count + 1 /\ q.pc = "read" /\ q.op = "delete"
    BY <1>1, <1>2, <2>1, <2>2, <2>3 DEF RequestSet
  <2> HIDE DEF q
  <2> QED
    BY <2>2, <2>4, BeginsKeepsLinks
<1>8. ASSUME NEW r \in reqs, SignInIssues(r) \/ DeleteAnswers(r) \/ RequestFails(r)
      PROVE  AccountTypes' /\ LinkInv'
  <2>1. /\ reqs' \subseteq reqs
        /\ UNCHANGED <<account, version, link, answered, spent, restarts, count>>
    BY <1>8 DEF SignInIssues, DeleteAnswers, RequestFails, Ends, accountRows, ghosts
  <2>2. count' \in 0..MaxRequests /\ count <= count' /\ restarts' \in Nat
    BY <2>1 DEF AccountTypes
  <2> QED
    BY <2>1, <2>2, EndsKeepsLinks
<1> QED
  BY <1>3, <1>4, <1>5, <1>6, <1>7, <1>8, ForgotKeepsLinks, PasswordUpdateKeepsLinks,
     LinkUpdateKeepsLinks, AnswersKeepsLinks, AccountDeleteKeepsLinks
     DEF RequestBegins, RequestGoesOn

\* What is not about these requests leaves them, or ends them.
LEMMA OthersKeepLinks ==
  ASSUME TokenInv, AccountTypes, LinkInv, TokenRequest \/ TokenStep \/ Restart \/ UNCHANGED vars
  PROVE  AccountTypes' /\ LinkInv'
<1>1. /\ reqs' \subseteq reqs /\ UNCHANGED <<account, version, link, answered, spent>>
      /\ count' = count \/ Counted
      /\ restarts' = restarts \/ restarts' = restarts + 1
  BY DEF TokenRequest, TokenStep, Restart, vars, accountRows, ghosts
<1>2. count \in 0..MaxRequests /\ restarts \in Nat
  BY DEF AccountTypes
<1>3. count' \in 0..MaxRequests /\ count <= count' /\ restarts' \in Nat
  BY <1>1, <1>2, Numbers DEF Counted
<1> QED
  BY <1>1, <1>3, EndsKeepsLinks

\* A step that is no restart lets the process know no less than before.
LEMMA StepKnows ==
  ASSUME IInv, [Next]_vars, restarts' = restarts
  PROVE  TokenInv' /\ MemoryLasts
<1>1. IInv => TokenInv /\ AccountTypes
  BY DEF IInv
<1>2. ~Restart
  BY <1>1 DEF Restart, AccountTypes
<1>3. CASE UNCHANGED vars
  BY <1>1, <1>3, BeginsKeepsTokens DEF vars
<1> QED
  BY <1>1, <1>2, <1>3, RequestKeepsTokens, TokenRequestKeeps, TokenStepKeeps DEF Next

LEMMA RestartsOrNot ==
  ASSUME [Next]_vars
  PROVE  Restart \/ restarts' = restarts
BY DEF Next, RequestBegins, RequestGoesOn, TokenRequest, TokenStep, vars, ghosts, SignInReads,
       ForgotReads, ResetReads, ChangeReads, DeleteReads, Begins, SignInIssues, ForgotUpserts,
       PasswordUpdate, LinkUpdate, PasswordAnswers, AccountDelete, DeleteAnswers, RequestFails

\* A version is answered together with the revocation of its user's tokens.
LEMMA AnsweredOrSame ==
  ASSUME AccountTypes, [Next]_vars
  PROVE  \A u \in Users : answered'[u] = answered[u] \/ u \in revokedUserIds'
<1>1. CASE \E r \in reqs : PasswordAnswers(r)
  <2>1. PICK r \in reqs : PasswordAnswers(r)
    BY <1>1
  <2>2. r.user \in revokedUserIds' /\ answered \in [Users -> Nat]
    BY <2>1 DEF PasswordAnswers, revokeAllUserTokens, AccountTypes
  <2> QED
    BY <2>1, <2>2 DEF PasswordAnswers
<1>2. CASE ~\E r \in reqs : PasswordAnswers(r)
  <2>1. answered' = answered
    BY <1>2 DEF Next, RequestBegins, RequestGoesOn, TokenRequest, TokenStep, Restart, vars, ghosts, SignInReads,
         ForgotReads, ResetReads, ChangeReads, DeleteReads, Begins, SignInIssues, ForgotUpserts,
         PasswordUpdate, LinkUpdate, AccountDelete, DeleteAnswers, RequestFails
  <2> QED
    BY <2>1
<1> QED
  BY <1>1, <1>2

LEMMA InitIInv == Init => IInv
<1> SUFFICES ASSUME Init
             PROVE  IInv
  OBVIOUS
<1>1. PICK u \in Users : pairs = <<[user |-> u, iat |-> 0, proof |-> 0, began |-> 0]>>
  BY DEF Init, TokenInit
<1>2. /\ now = 0 /\ faults = 0 /\ inFlight = {} /\ revokedUserIds = {} /\ ~loaded /\ loaded \in BOOLEAN
      /\ revokedTokens = [t \in Tokens |-> Never] /\ rows = [t \in Tokens |-> Never]
      /\ sentinels = [v \in Users |-> Never]
  BY Zenon DEF Init, TokenInit
<1>3. 0 \in Time /\ 0 \in 0..MaxFaults
  BY Numbers DEF Time
<1>4. TokenTypes
  <2>1. [user |-> u, iat |-> 0, proof |-> 0, began |-> 0] \in PairSet
    BY <1>3 DEF PairSet
  <2>2. pairs \in Seq(PairSet) /\ Len(pairs) = 1
    BY <1>1, <2>1
  <2> QED
    BY <1>2, <1>3, <2>2, Numbers DEF TokenTypes, Moments
<1>5. TokenInv
  BY <1>1, <1>2, <1>4 DEF TokenInv, PairsPast, RevokedWhileIssued, InFlightRejected, SentinelsPast,
     PersistedRevocationsHold, Never
<1>6. /\ account = [v \in Users |-> TRUE] /\ version = [v \in Users |-> 0]
      /\ link = [v \in Users |-> NoLink] /\ reqs = {} /\ count = 0
      /\ answered = [v \in Users |-> 0] /\ spent = {} /\ restarts = 0
  BY DEF Init
<1>7. NoLink \in LinkSet /\ NoLink.id = 0 /\ NoLink.used
  BY DEF NoLink, LinkSet
<1>8. AccountTypes
  BY <1>6, <1>7, Numbers DEF AccountTypes
<1>9. AnsweredRevokes /\ LinkInv
  BY <1>6, <1>7 DEF AnsweredRevokes, LinkInv, IdsFresh, ForgotFresh, LinksOfOne, ResetsOfOne, SpentLinksUsed
<1> QED
  BY <1>5, <1>8, <1>9 DEF IInv

LEMMA NextIInv == IInv /\ [Next]_vars => IInv'
<1> SUFFICES ASSUME IInv, [Next]_vars
             PROVE  IInv'
  OBVIOUS
<1>1. TokenInv /\ AccountTypes /\ LinkInv /\ AnsweredRevokes
  BY DEF IInv
<1>2. AccountTypes' /\ LinkInv'
  BY <1>1, RequestKeepsLinks, OthersKeepLinks DEF Next
<1>3. CASE Restart
  <2>1. TokenInv'
    BY <1>1, <1>3, RestartKeepsTokens DEF Restart
  <2>2. restarts' # 0
    BY <1>1, <1>3 DEF Restart, AccountTypes
  <2> QED
    BY <1>2, <2>1, <2>2 DEF IInv, AnsweredRevokes
<1>4. CASE restarts' = restarts
  <2>1. TokenInv' /\ MemoryLasts
    BY <1>4, StepKnows
  <2>2. AnsweredRevokes'
    <3> SUFFICES ASSUME restarts = 0, NEW u \in Users, answered'[u] > 0
                 PROVE  u \in revokedUserIds'
      BY <1>4 DEF AnsweredRevokes
    <3>1. CASE answered'[u] = answered[u]
      BY <1>1, <2>1, <3>1 DEF AnsweredRevokes, MemoryLasts
    <3> QED
      BY <1>1, <3>1, AnsweredOrSame
  <2> QED
    BY <1>2, <2>1, <2>2 DEF IInv
<1> QED
  BY <1>3, <1>4, RestartsOrNot

(***************************************************************************)
(* The theorems.                                                           *)
(***************************************************************************)
\* In every behaviour tokens, rows, statements and requests keep to their types.
THEOREM TypeCorrect == Spec => []TypeOK
<1>1. IInv => TypeOK
  BY TypeOKParts DEF IInv, TokenInv
<1> QED
  BY InitIInv, NextIInv, <1>1, PTL DEF Spec

\* While a process runs, verifyToken() accepts no token again that it would have
\* rejected: for all lifetimes in the order the code gives them, neither the
\* hourly clean-up nor the load, a late statement or another request brings one
\* back.
THEOREM RejectionIsFinal == Spec => RejectedStaysRejected
<1>1. IInv /\ [Next]_vars =>
        [restarts' = restarts =>
           \A t \in Tokens : Issued(t) /\ ~verifyToken(t) => ~verifyToken(t)']_vars
  <2> SUFFICES ASSUME IInv, [Next]_vars, restarts' = restarts,
                      NEW t \in Tokens, Issued(t), ~verifyToken(t)
               PROVE  ~verifyToken(t)'
    OBVIOUS
  <2>1. TokenInv /\ TokenInv' /\ MemoryLasts
    BY StepKnows DEF IInv
  <2> QED
    BY <2>1, StillRejected DEF TokenInv
<1> QED
  BY InitIInv, NextIInv, <1>1, PTL DEF Spec, RejectedStaysRejected

\* A process that has loaded token_revocations rejects every token issued before
\* a revocation of it, or of its user's tokens, that is in the table, however
\* many restarts and failures there were and whenever the clean-up ran.
THEOREM PersistedRevocationsOutlive == Spec => []PersistedRevocationsHold
<1>1. IInv => PersistedRevocationsHold
  BY DEF IInv, TokenInv
<1> QED
  BY InitIInv, NextIInv, <1>1, PTL DEF Spec

\* Until the first restart no session that rests on a password replaced by an
\* answered reset or change (routes/auth.ts:715, :717) verifies, not even one whose
\* sign-in overlapped the update.
THEOREM OldSessionsAreOver == Spec => []OldSessionsEnd
<1>1. IInv => OldSessionsEnd
  <2> SUFFICES ASSUME IInv, restarts = 0, NEW t \in Tokens, Issued(t),
                      pairs[t[1]].proof < answered[Owner(t)]
               PROVE  ~verifyToken(t)
    BY DEF OldSessionsEnd
  <2>1. Owner(t) \in Users /\ pairs[t[1]].proof \in Nat
    BY IssuedTypes DEF IInv, TokenInv, PairSet
  <2>2. answered[Owner(t)] \in Nat
    BY <2>1 DEF IInv, AccountTypes
  <2>3. answered[Owner(t)] > 0
    BY <2>1, <2>2
  <2> QED
    BY <2>1, <2>3 DEF IInv, AnsweredRevokes, verifyToken
<1> QED
  BY InitIInv, NextIInv, <1>1, PTL DEF Spec

\* A link over which a reset was answered (routes/auth.ts:716) lets no later reset
\* begin, for any users and requests: not when several resets were given the same
\* link, not when a link for this or another user is made meanwhile.  Resets that
\* read the link before that are not concerned: each of them sets a password.
THEOREM SpentLinksAreDead == Spec => UsedLinksStayDead
<1>1. ASSUME IInv, [Next]_vars, NEW r \in reqs' \ reqs, Is(r, "reset", "read")
      PROVE  r.link \notin spent
  <2>1. CASE \E u \in Users : ResetReads(u)
    <3>1. PICK u \in Users : ResetReads(u)
      BY <2>1
    <3>2. r = [Request("reset", u) EXCEPT !.link = link[u].id]
      BY <1>1, <3>1 DEF ResetReads, Begins
    <3>3. r.link = link[u].id /\ ~link[u].used
      BY <3>1, <3>2 DEF ResetReads, Usable, Request
    <3> QED
      BY <1>1, <3>3 DEF IInv, LinkInv, SpentLinksUsed
  <2>2. CASE RequestBegins /\ ~\E u \in Users : ResetReads(u)
    <3>1. ASSUME NEW u \in Users,
                 SignInReads(u) \/ ForgotReads(u) \/ (\E t \in Bearers : ChangeReads(u, t))
                 \/ \E t \in Bearers, cookie \in Cookies \cup {NoToken} :
                      DeleteReads(u, t, cookie)
          PROVE  r.op # "reset"
      <4>1. PICK req : reqs' = reqs \cup {req} /\ req.op # "reset"
        <5>1. CASE SignInReads(u)
          BY <5>1 DEF SignInReads, Begins, Request
        <5>2. CASE ForgotReads(u)
          BY <5>2 DEF ForgotReads, Begins, Request
        <5>3. ASSUME NEW t \in Bearers, ChangeReads(u, t)
              PROVE  Begins(Request("change", u))
          BY <5>3 DEF ChangeReads
        <5>4. ASSUME NEW t \in Bearers, NEW cookie \in Cookies \cup {NoToken},
                     DeleteReads(u, t, cookie)
              PROVE  Begins([Request("delete", u) EXCEPT !.token = t, !.cookie = cookie])
          BY <5>4 DEF DeleteReads
        <5>5. CASE \E t \in Bearers : ChangeReads(u, t)
          BY <5>3, <5>5 DEF Begins, Request
        <5>6. CASE \E t \in Bearers, cookie \in Cookies \cup {NoToken} : DeleteReads(u, t, cookie)
          <6>1. PICK t \in Bearers, cookie \in Cookies \cup {NoToken} : DeleteReads(u, t, cookie)
            BY <5>6
          <6>2. reqs' = reqs \cup {[Request("delete", u) EXCEPT !.token = t, !.cookie = cookie]}
            BY <5>4, <6>1 DEF Begins
          <6> QED
            BY <6>2 DEF Request
        <5> QED
          BY <3>1, <5>1, <5>2, <5>5, <5>6
      <4> QED
        BY <1>1, <4>1
    <3> QED
      BY <1>1, <2>2, <3>1 DEF RequestBegins, Is
  <2>3. CASE RequestGoesOn
    <3>1. PICK q \in reqs : \/ SignInIssues(q) \/ ForgotUpserts(q) \/ PasswordUpdate(q)
                             \/ LinkUpdate(q) \/ PasswordAnswers(q) \/ AccountDelete(q)
                             \/ DeleteAnswers(q) \/ RequestFails(q)
      BY <2>3 DEF RequestGoesOn
    <3>2. CASE SignInIssues(q) \/ ForgotUpserts(q) \/ PasswordAnswers(q)
               \/ DeleteAnswers(q) \/ RequestFails(q)
      BY <1>1, <3>2
      DEF SignInIssues, ForgotUpserts, PasswordAnswers, DeleteAnswers, RequestFails, Ends
    <3>3. CASE PasswordUpdate(q) \/ LinkUpdate(q) \/ AccountDelete(q)
      <4>1. q \in RequestSet
        BY <1>1, <3>1 DEF IInv, AccountTypes
      <4>2. PICK pc \in {"updated", "marked"} : r.pc = pc
        <5>1. CASE PasswordUpdate(q)
          BY <1>1, <4>1, <5>1 DEF PasswordUpdate, RequestSet
        <5>2. CASE LinkUpdate(q)
          BY <1>1, <4>1, <5>2 DEF LinkUpdate, Goto, RequestSet
        <5>3. CASE AccountDelete(q)
          BY <1>1, <4>1, <5>3 DEF AccountDelete, Goto, RequestSet
        <5> QED
          BY <3>3, <5>1, <5>2, <5>3
      <4> QED
        BY <1>1, <4>2 DEF Is
    <3> QED
      BY <3>1, <3>2, <3>3
  <2>4. CASE TokenRequest \/ TokenStep \/ Restart \/ UNCHANGED vars
    BY <1>1, <2>4 DEF TokenRequest, TokenStep, Restart, vars
  <2> QED
    BY <1>1, <2>1, <2>2, <2>3, <2>4 DEF Next
<1>2. IInv /\ [Next]_vars =>
        [\A r \in reqs' \ reqs : Is(r, "reset", "read") => r.link \notin spent]_vars
  BY <1>1
<1> QED
  BY InitIInv, NextIInv, <1>2, PTL DEF Spec, UsedLinksStayDead
=============================================================================
