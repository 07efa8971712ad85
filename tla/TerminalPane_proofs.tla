-------------------------- MODULE TerminalPane_proofs --------------------------
(***************************************************************************)
(* Proofs about TerminalPane: for any numbers of retries and of the user's *)
(* acts, the pane does not multiply its connections, opens no socket after *)
(* its end, and says it is connected only when a session is on.            *)
(***************************************************************************)
EXTENDS TerminalPane, FiniteSetTheorems, TLAPS

\* The attempts are finitely many; only a native pane asks Electron; a socket
\* that nobody listens to, or that is not open yet, has no session; and all
\* sockets of a browser's pane are listened to.
AttemptsFinite == IsFiniteSet(sockets) /\ IsFiniteSet(natives)
SocketsHandled ==
  /\ kind # "native" => natives = {} /\ \A s \in sockets : s.handled
  /\ \A s \in sockets : ~s.handled \/ s.net = "connecting" => s.session = "none"
IInv == TypeOK /\ AttemptsFinite /\ OneAttemptPerAct /\ SocketsHandled /\ ConnectedHasSession

(***************************************************************************)
(* Counting.                                                               *)
(***************************************************************************)
\* To(s, t) does not make the set of sockets larger.
LEMMA ReplaceCount ==
  ASSUME NEW S, IsFiniteSet(S), NEW s \in S, NEW t
  PROVE  /\ IsFiniteSet((S \ {s}) \cup {t})
         /\ Cardinality((S \ {s}) \cup {t}) \in Nat
         /\ Cardinality((S \ {s}) \cup {t}) <= Cardinality(S)
<1>1. IsFiniteSet(S \ {s}) /\ Cardinality(S \ {s}) = Cardinality(S) - 1
  BY FS_RemoveElement
<1>2. /\ IsFiniteSet((S \ {s}) \cup {t})
      /\ Cardinality((S \ {s}) \cup {t}) =
           IF t \in S \ {s} THEN Cardinality(S \ {s}) ELSE Cardinality(S \ {s}) + 1
  BY <1>1, FS_AddElement
<1>3. Cardinality(S) \in Nat
  BY FS_CardinalityType
<1>4. Cardinality((S \ {s}) \cup {t}) \in Nat
  BY <1>2, FS_CardinalityType
<1> QED
  BY <1>1, <1>2, <1>3, <1>4

\* A new member, and one that goes.
LEMMA AddCount ==
  ASSUME NEW S, IsFiniteSet(S), NEW t
  PROVE  /\ IsFiniteSet(S \cup {t})
         /\ Cardinality(S \cup {t}) \in Nat
         /\ Cardinality(S \cup {t}) <= Cardinality(S) + 1
<1>1. /\ IsFiniteSet(S \cup {t})
      /\ Cardinality(S \cup {t}) = IF t \in S THEN Cardinality(S) ELSE Cardinality(S) + 1
  BY FS_AddElement
<1>2. Cardinality(S) \in Nat /\ Cardinality(S \cup {t}) \in Nat
  BY <1>1, FS_CardinalityType
<1> QED
  BY <1>1, <1>2

LEMMA RemoveCount ==
  ASSUME NEW S, IsFiniteSet(S), NEW s \in S
  PROVE  /\ IsFiniteSet(S \ {s})
         /\ Cardinality(S \ {s}) \in Nat
         /\ Cardinality(S \ {s}) = Cardinality(S) - 1
<1>1. IsFiniteSet(S \ {s}) /\ Cardinality(S \ {s}) = Cardinality(S) - 1
  BY FS_RemoveElement
<1> QED
  BY <1>1, FS_CardinalityType

\* What a function makes of a finite set is no larger.
LEMMA ImageCount ==
  ASSUME NEW S, IsFiniteSet(S), NEW f, f = [x \in S |-> f[x]]
  PROVE  /\ IsFiniteSet({f[x] : x \in S})
         /\ Cardinality({f[x] : x \in S}) \in Nat
         /\ Cardinality({f[x] : x \in S}) <= Cardinality(S)
<1> DEFINE T == {f[x] : x \in S}
<1>1. f \in [S -> T]
  OBVIOUS
<1>2. f \in Surjection(S, T)
  BY <1>1 DEF Surjection
<1>3. IsFiniteSet(T) /\ Cardinality(T) <= Cardinality(S)
  <2> HIDE DEF T
  <2> QED
    BY <1>2, FS_Surjection
<1> QED
  BY <1>3, FS_CardinalityType

\* Attempts have no more numbers than there are attempts.
LEMMA IdCount ==
  ASSUME NEW S, IsFiniteSet(S)
  PROVE  /\ IsFiniteSet({x.id : x \in S})
         /\ Cardinality({x.id : x \in S}) \in Nat
         /\ Cardinality({x.id : x \in S}) <= Cardinality(S)
<1> DEFINE f == [x \in S |-> x.id]
<1>1. {f[x] : x \in S} = {x.id : x \in S} /\ f = [x \in S |-> f[x]]
  OBVIOUS
<1> HIDE DEF f
<1> QED
  BY <1>1, ImageCount

\* There is a number left for a new attempt: those of the live ones are no more
\* than the acts before.
LEMMA NewIdIsThere ==
  ASSUME IInv, Cardinality(sockets) + Cardinality(natives) <= acts
  PROVE  NewId \in Ids
<1> DEFINE S == {s.id : s \in sockets}
           N == {n.id : n \in natives}
<1>1. IsFiniteSet(S) /\ Cardinality(S) \in Nat /\ Cardinality(S) <= Cardinality(sockets)
  BY IdCount DEF IInv, AttemptsFinite
<1>2. IsFiniteSet(N) /\ Cardinality(N) \in Nat /\ Cardinality(N) <= Cardinality(natives)
  BY IdCount DEF IInv, AttemptsFinite
<1> HIDE DEF S, N
<1>3. Cardinality(sockets) \in Nat /\ Cardinality(natives) \in Nat
  BY FS_CardinalityType DEF IInv, AttemptsFinite
<1>4. IsFiniteSet(S \cup N) /\ Cardinality(S \cup N) <= Cardinality(S) + Cardinality(N)
  <2>1. S \cap N \in SUBSET S
    OBVIOUS
  <2>2. IsFiniteSet(S \cap N) /\ Cardinality(S \cap N) \in Nat
    BY <1>1, <2>1, FS_Subset, FS_CardinalityType
  <2>3. /\ IsFiniteSet(S \cup N)
        /\ Cardinality(S \cup N) = Cardinality(S) + Cardinality(N) - Cardinality(S \cap N)
    BY <1>1, <1>2, FS_Union
  <2> QED
    BY <1>1, <1>2, <2>2, <2>3
<1>5. IsFiniteSet(Ids) /\ Cardinality(Ids) = MaxActs + 1
  <2>1. MaxActs \in Nat
    BY PaneAssumption
  <2>2. /\ IsFiniteSet(1..(MaxActs + 1))
        /\ Cardinality(1..(MaxActs + 1)) = IF 1 > MaxActs + 1 THEN 0 ELSE (MaxActs + 1) - 1 + 1
    BY <2>1, FS_Interval
  <2> QED
    BY <2>1, <2>2 DEF Ids
<1>6. ~ (Ids \subseteq S \cup N)
  <2> SUFFICES ASSUME Ids \in SUBSET (S \cup N) PROVE FALSE
    OBVIOUS
  <2>1. Cardinality(Ids) <= Cardinality(S \cup N)
    BY <1>4, FS_Subset
  <2>2. Cardinality(S \cup N) \in Nat /\ acts \in Nat /\ acts <= MaxActs /\ MaxActs \in Nat
    BY <1>4, FS_CardinalityType, PaneAssumption DEF IInv, TypeOK
  <2> QED
    BY <1>1, <1>2, <1>3, <1>4, <1>5, <2>1, <2>2
<1>7. Live = S \cup N
  BY DEF Live, S, N
<1>8. \E i \in Ids : i \notin Live
  BY <1>6, <1>7
<1> QED
  BY <1>8 DEF NewId
(***************************************************************************)
(* The invariant holds at the start and is kept by every action.           *)
(***************************************************************************)
\* The pane starts with one attempt and no acts.
LEMMA InitIInv == Init => IInv
<1> SUFFICES ASSUME Init PROVE IInv
  OBVIOUS
<1>0. MaxRetries \in Nat /\ MaxActs \in Nat
  BY PaneAssumption
<1> DEFINE first == [NewSocket(1) EXCEPT !.handled = TRUE]
           asked == [id |-> 1, open |-> FALSE]
<1>1. \/ kind = "native" /\ sockets = {} /\ natives = {asked} /\ wsRef = 0
      \/ kind # "native" /\ sockets = {first} /\ natives = {} /\ wsRef = 1
  BY DEF Init
<1>2. 1 \in Ids /\ first \in Sockets /\ asked \in Natives
  <2>1. 1 \in Ids
    BY <1>0 DEF Ids
  <2> QED
    BY <2>1 DEF NewSocket, Sockets, Natives, Init
<1>3. TypeOK
  <2> HIDE DEF first, asked
  <2>1. sockets \subseteq Sockets /\ natives \subseteq Natives /\ wsRef \in Ids \cup {0}
    BY <1>1, <1>2
  <2>2. retryCount \in 0..MaxRetries /\ acts \in 0..MaxActs /\ strays \in Nat
    BY <1>0 DEF Init
  <2> QED
    BY <2>1, <2>2 DEF Init, TypeOK
<1>4. AttemptsFinite /\ Cardinality(sockets) + Cardinality(natives) = 1
  <2> HIDE DEF first, asked
  <2>1. /\ IsFiniteSet({first}) /\ Cardinality({first}) = 1
        /\ IsFiniteSet({asked}) /\ Cardinality({asked}) = 1
    BY FS_Singleton
  <2>2. IsFiniteSet({}) /\ Cardinality({}) = 0
    BY FS_EmptySet
  <2>3. CASE kind = "native"
    BY <1>1, <2>1, <2>2, <2>3 DEF AttemptsFinite
  <2>4. CASE kind # "native"
    BY <1>1, <2>1, <2>2, <2>4 DEF AttemptsFinite
  <2> QED
    BY <2>3, <2>4
<1>5. OneAttemptPerAct
  <2>1. Pending = 0 /\ acts = 0
    BY DEF Init, Pending
  <2>2. Cardinality(sockets) \in Nat /\ Cardinality(natives) \in Nat
    BY <1>4, FS_CardinalityType DEF AttemptsFinite
  <2> QED
    BY <1>4, <2>1, <2>2 DEF OneAttemptPerAct, Attempts
<1>6. SocketsHandled
  BY <1>1 DEF SocketsHandled, NewSocket
<1>7. ConnectedHasSession
  BY DEF Init, ConnectedHasSession
<1> QED
  BY <1>3, <1>4, <1>5, <1>6, <1>7 DEF IInv

\* The counts are numbers, and there are as many attempts as the invariant says.
LEMMA Counts ==
  ASSUME IInv
  PROVE  /\ IsFiniteSet(sockets) /\ IsFiniteSet(natives)
         /\ Cardinality(sockets) \in Nat /\ Cardinality(natives) \in Nat
         /\ Pending \in Nat /\ acts \in Nat /\ MaxRetries \in Nat /\ MaxActs \in Nat
         /\ Cardinality(sockets) + Cardinality(natives) + Pending <= 1 + acts
<1>1. IsFiniteSet(sockets) /\ IsFiniteSet(natives)
  BY DEF IInv, AttemptsFinite
<1>2. Pending \in Nat /\ acts \in Nat /\ MaxRetries \in Nat /\ MaxActs \in Nat
  BY PaneAssumption DEF IInv, TypeOK, Pending
<1> QED
  BY <1>1, <1>2, FS_CardinalityType DEF IInv, OneAttemptPerAct, Attempts

\* A timer that fires gives its place to the attempt it makes.
LEMMA ConnectIInv ==
  ASSUME IInv, connect, strays' \in Nat, retryTimer' \in BOOLEAN,
         Pending \in Nat, Pending' = Pending - 1, Pending' \in Nat,
         UNCHANGED <<kind, mounted, electronSessionRef, retryCount, acts>>
  PROVE  IInv'
<1>0. NewId \in Ids
  BY Counts, NewIdIsThere
<1>1. /\ NewSocket(NewId) \in Sockets /\ [id |-> NewId, open |-> FALSE] \in Natives
      /\ NewSocket(NewId).session = "none" /\ NewSocket(NewId).handled = mounted
  BY <1>0 DEF IInv, TypeOK, NewSocket, Sockets, Natives
<1>2. TypeOK'
  <2>1. timeouts' \subseteq Ids /\ connectTimeoutRef' \in Ids \cup {0}
    BY DEF IInv, TypeOK, connect, ClearConnectTimeout
  <2> QED
    BY <1>0, <1>1, <2>1 DEF IInv, TypeOK, connect
<1>3. AttemptsFinite' /\ OneAttemptPerAct'
  <2>1. CASE ~mounted
    <3>1. sockets' = sockets /\ natives' = natives /\ acts' = acts
      BY <2>1 DEF connect
    <3> QED
      BY <3>1, Counts DEF AttemptsFinite, OneAttemptPerAct, Attempts
  <2>2. CASE mounted /\ kind = "native"
    <3> DEFINE n == [id |-> NewId, open |-> FALSE]
    <3>1. sockets' = sockets /\ natives' = natives \cup {n} /\ acts' = acts
      BY <2>2 DEF connect
    <3> HIDE DEF n
    <3>2. /\ IsFiniteSet(natives') /\ Cardinality(natives') \in Nat
          /\ Cardinality(natives') <= Cardinality(natives) + 1
      BY <3>1, Counts, AddCount
    <3> QED
      BY <3>1, <3>2, Counts DEF AttemptsFinite, OneAttemptPerAct, Attempts
  <2>3. CASE mounted /\ kind # "native"
    <3>1. sockets' = sockets \cup {NewSocket(NewId)} /\ natives' = natives /\ acts' = acts
      BY <2>3 DEF connect
    <3>2. /\ IsFiniteSet(sockets') /\ Cardinality(sockets') \in Nat
          /\ Cardinality(sockets') <= Cardinality(sockets) + 1
      BY <3>1, Counts, AddCount
    <3> QED
      BY <3>1, <3>2, Counts DEF AttemptsFinite, OneAttemptPerAct, Attempts
  <2> QED
    BY <2>1, <2>2, <2>3 DEF IInv, TypeOK
<1>4. SocketsHandled'
  BY <1>1 DEF IInv, SocketsHandled, connect
<1>5. ConnectedHasSession'
  BY DEF connect, ConnectedHasSession
<1> QED
  BY <1>2, <1>3, <1>4, <1>5 DEF IInv

\* Both kinds of timers of a retry.
LEMMA RetryFiresIInv == IInv /\ RetryFires => IInv'
<1> SUFFICES ASSUME IInv, RetryFires PROVE IInv'
  OBVIOUS
<1>1. strays' \in Nat /\ retryTimer' \in BOOLEAN /\ strays' = strays
  BY DEF IInv, TypeOK, RetryFires
<1>2. Pending \in Nat /\ Pending' = Pending - 1 /\ Pending' \in Nat
  BY <1>1 DEF RetryFires, Pending
<1> QED
  BY <1>1, <1>2, ConnectIInv DEF RetryFires

LEMMA StrayFiresIInv == IInv /\ StrayFires => IInv'
<1> SUFFICES ASSUME IInv, StrayFires PROVE IInv'
  OBVIOUS
<1>1. strays \in Nat /\ strays' \in Nat /\ retryTimer' \in BOOLEAN /\ retryTimer' = retryTimer
  BY DEF IInv, TypeOK, StrayFires
<1>2. Pending \in Nat /\ Pending' = Pending - 1 /\ Pending' \in Nat
  BY <1>1 DEF StrayFires, Pending
<1> QED
  BY <1>1, <1>2, ConnectIInv DEF StrayFires

\* A socket that only changes its state is no more than one socket.
LEMMA ToCount ==
  ASSUME IInv, NEW s \in sockets, NEW t, To(s, t), UNCHANGED <<natives, strays, retryTimer, acts>>
  PROVE  AttemptsFinite' /\ OneAttemptPerAct'
<1>1. /\ IsFiniteSet(sockets') /\ Cardinality(sockets') \in Nat
      /\ Cardinality(sockets') <= Cardinality(sockets)
  BY Counts, ReplaceCount DEF To
<1>2. Pending' = Pending
  BY DEF Pending
<1> QED
  BY <1>1, <1>2, Counts DEF AttemptsFinite, OneAttemptPerAct, Attempts

\* One socket in a new state, which keeps its number and its session.
LEMMA SameSessionIInv ==
  ASSUME IInv, NEW s \in sockets, NEW t \in Sockets, To(s, t),
         t.handled = s.handled, t.session = s.session,
         t.net = "connecting" => s.net = "connecting",
         UNCHANGED <<natives, strays, retryTimer, acts, kind>>,
         TypeOK', status' = status \/ status' # "connected"
  PROVE  IInv'
<1>1. AttemptsFinite' /\ OneAttemptPerAct'
  BY ToCount
<1>2. SocketsHandled'
  BY DEF IInv, SocketsHandled, To
<1>3. ConnectedHasSession'
  BY DEF IInv, ConnectedHasSession, To
<1> QED
  BY <1>1, <1>2, <1>3 DEF IInv

\* The 15 s are over.
LEMMA TimesOutIInv ==
  ASSUME IInv, NEW s \in sockets, TimesOut(s)
  PROVE  IInv'
<1>1. CASE s.net = "open"
  <2> DEFINE t == [s EXCEPT !.net = "closing", !.connectionFailed = TRUE]
  <2>1. s \in Sockets
    BY DEF IInv, TypeOK
  <2>2. /\ t \in Sockets /\ t.handled = s.handled /\ t.session = s.session
        /\ t.net = "closing"
    BY <2>1 DEF Sockets
  <2>3. To(s, t) /\ status' = "error"
    BY <1>1 DEF TimesOut
  <2> HIDE DEF t
  <2>4. TypeOK'
    BY <2>2, <2>3 DEF IInv, TypeOK, TimesOut, To, refs
  <2> QED
    BY <2>2, <2>3, <2>4, SameSessionIInv DEF TimesOut
<1>2. CASE s.net # "open"
  <2>1. /\ UNCHANGED <<sockets, status, natives, strays, retryTimer, acts, kind>>
        /\ timeouts' \subseteq timeouts
    BY <1>2 DEF TimesOut
  <2>2. TypeOK'
    BY <2>1 DEF IInv, TypeOK, TimesOut, refs
  <2> QED
    BY <2>1, <2>2 DEF IInv, AttemptsFinite, OneAttemptPerAct, Attempts, Pending,
       SocketsHandled, ConnectedHasSession
<1> QED
  BY <1>1, <1>2

\* A socket that opens had no session before, and one that is listened to asks
\* for one.
LEMMA OpensIInv ==
  ASSUME IInv, NEW s \in sockets, Opens(s)
  PROVE  IInv'
<1> DEFINE t == [s EXCEPT !.net = "open", !.session = IF s.handled THEN "asked" ELSE "none"]
<1>1. s \in Sockets /\ s.id \in Ids
  BY DEF IInv, TypeOK, Sockets
<1>2. /\ t \in Sockets /\ t.handled = s.handled /\ t.net = "open"
      /\ ~s.handled => t.session = "none"
  BY <1>1 DEF Sockets
<1>3. To(s, t) /\ s.net = "connecting"
  BY DEF Opens
<1> HIDE DEF t
<1>4. TypeOK'
  <2>1. retryCount' \in 0..MaxRetries
    BY PaneAssumption DEF IInv, TypeOK, Opens
  <2>2. timeouts' \subseteq Ids /\ connectTimeoutRef' \in Ids \cup {0}
    BY <1>1 DEF IInv, TypeOK, Opens
  <2>3. sockets' \subseteq Sockets
    BY <1>2, <1>3 DEF IInv, TypeOK, To
  <2> QED
    BY <2>1, <2>2, <2>3 DEF IInv, TypeOK, Opens, refs
<1>5. AttemptsFinite' /\ OneAttemptPerAct'
  BY <1>3, ToCount DEF Opens
<1>6. SocketsHandled'
  BY <1>2, <1>3 DEF IInv, SocketsHandled, Opens, To
<1>7. ConnectedHasSession'
  <2>1. s.session = "none"
    BY <1>3 DEF IInv, SocketsHandled
  <2> QED
    BY <1>3, <2>1 DEF IInv, ConnectedHasSession, Opens, To
<1> QED
  BY <1>4, <1>5, <1>6, <1>7 DEF IInv

\* The relay says of one session that it is on, or over.
LEMMA RelayAnswersIInv ==
  ASSUME IInv, NEW s \in sockets, NEW session \in {"told", "on", "over"},
         RelayAnswers(s, session)
  PROVE  IInv'
<1> DEFINE t == [s EXCEPT !.session = session]
<1>1. s \in Sockets
  BY DEF IInv, TypeOK
<1>2. t \in Sockets /\ t.handled = s.handled /\ t.net = s.net /\ t.session = session
  BY <1>1 DEF Sockets
<1>3. /\ To(s, t) /\ s.net = "open" /\ session \in Answers(s) /\ status' \in Shown(session)
      /\ UNCHANGED <<kind, mounted, natives, refs, retryCount, retryTimer, strays, acts>>
  BY DEF RelayAnswers
<1> HIDE DEF t
<1>4. TypeOK'
  <2>1. status' \in {"connecting", "connected", "disconnected", "error", "idle"}
    BY <1>3 DEF IInv, TypeOK, Shown
  <2>2. timeouts' \subseteq Ids /\ connectTimeoutRef' \in Ids \cup {0}
    BY DEF IInv, TypeOK, RelayAnswers, ClearConnectTimeout
  <2>3. sockets' \subseteq Sockets
    BY <1>2, <1>3 DEF IInv, TypeOK, To
  <2> QED
    BY <1>3, <2>1, <2>2, <2>3 DEF IInv, TypeOK, refs
<1>5. AttemptsFinite' /\ OneAttemptPerAct'
  BY <1>3, ToCount
<1>6. SocketsHandled'
  <2>1. s.handled
    <3>1. s.session # "none"
      BY <1>3 DEF Answers
    <3> QED
      BY <1>1, <3>1 DEF IInv, SocketsHandled, Sockets
  <2> QED
    BY <1>2, <1>3, <2>1 DEF IInv, SocketsHandled, To
<1>7. ConnectedHasSession'
  <2>1. CASE session = "told"
    <3>1. s.session = "asked" /\ status' = status
      BY <1>3, <2>1 DEF Answers, Shown
    <3> QED
      BY <1>3, <3>1 DEF IInv, ConnectedHasSession, To
  <2>2. CASE session = "on"
    BY <1>2, <1>3, <2>2 DEF ConnectedHasSession, To
  <2>3. CASE session = "over"
    BY <1>3, <2>3 DEF ConnectedHasSession, Shown
  <2> QED
    BY <2>1, <2>2, <2>3
<1> QED
  BY <1>4, <1>5, <1>6, <1>7 DEF IInv

\* A socket's end makes room for the one retry that it may schedule, for onerror
\* and onclose together.
LEMMA RetriesAtMostOne ==
  ASSUME IInv, NEW s \in Sockets, NEW end
  PROVE  /\ SocketRetries(s, end) \in {0, 1}
         /\ SocketRetries(s, end) = 1 => retryCount < MaxRetries
<1>1. retryCount \in Nat /\ MaxRetries \in Nat /\ s.connectionFailed \in BOOLEAN
  BY PaneAssumption DEF IInv, TypeOK, Sockets
<1>2. CASE end = "lost"
  <2>1. SocketRetries(s, end) = 0 + IF s.connectionFailed THEN 0 ELSE More(retryCount + 0)
    BY <1>2 DEF SocketRetries
  <2> QED
    BY <1>1, <2>1 DEF More
<1>3. CASE end # "lost"
  <2>1. SocketRetries(s, end) = (IF end = "failed" THEN More(retryCount) ELSE 0) + 0
    BY <1>3 DEF SocketRetries
  <2> QED
    BY <1>1, <2>1 DEF More
<1> QED
  BY <1>2, <1>3

LEMMA SocketEndsIInv ==
  ASSUME IInv, NEW s \in sockets, NEW end \in {"failed", "lost", "normal"}, SocketEnds(s, end)
  PROVE  IInv'
<1> DEFINE n == SocketRetries(s, end)
<1>0. s \in Sockets
  BY DEF IInv, TypeOK
<1>1. n \in {0, 1} /\ (n = 1 => retryCount < MaxRetries)
  BY <1>0, RetriesAtMostOne
<1>2. /\ sockets' = sockets \ {s} /\ acts' = acts /\ natives' = natives /\ kind' = kind
      /\ wsRef' = (IF wsRef = s.id THEN 0 ELSE wsRef)
      /\ retryCount' = retryCount + n
      /\ retryTimer' = (retryTimer \/ n > 0)
      /\ strays' = strays + n - (IF n > 0 /\ ~retryTimer THEN 1 ELSE 0)
      /\ UNCHANGED <<mounted, electronSessionRef>>
      /\ timeouts' \subseteq timeouts /\ connectTimeoutRef' = 0
      /\ status' = Ended(end) /\ kind # "vault"
  BY DEF SocketEnds, Gone, Retries
<1> HIDE DEF n
<1>3. retryCount' \in 0..MaxRetries /\ strays' \in Nat /\ Pending' = Pending + n
  <2>1. retryCount \in 0..MaxRetries /\ MaxRetries \in Nat /\ strays \in Nat /\ retryTimer \in BOOLEAN
    BY PaneAssumption DEF IInv, TypeOK
  <2>2. CASE n = 0
    <3>1. retryCount' = retryCount /\ retryTimer' = retryTimer /\ strays' = strays
      BY <1>2, <2>1, <2>2
    <3> QED
      BY <2>1, <2>2, <3>1 DEF Pending
  <2>3. CASE n = 1 /\ retryTimer
    <3>1. retryCount' = retryCount + 1 /\ strays' = strays + 1
      BY <1>2, <2>1, <2>3
    <3>2. retryTimer' = TRUE /\ retryTimer = TRUE
      BY <1>2, <2>1, <2>3
    <3>3. Pending' = (strays + 1) + 1 /\ Pending = strays + 1
      BY <3>1, <3>2 DEF Pending
    <3> QED
      BY <1>1, <2>1, <2>3, <3>1, <3>3
  <2>4. CASE n = 1 /\ ~retryTimer
    <3>1. retryCount' = retryCount + 1 /\ strays' = strays
      BY <1>2, <2>1, <2>4
    <3>2. retryTimer' = TRUE /\ retryTimer = FALSE
      <4>1. n > 0
        BY <2>4
      <4> QED
        BY <1>2, <2>1, <2>4, <4>1
    <3>3. Pending' = strays + 1 /\ Pending = strays + 0
      BY <3>1, <3>2 DEF Pending
    <3> QED
      BY <1>1, <2>1, <2>4, <3>1, <3>3
  <2> QED
    BY <1>1, <2>2, <2>3, <2>4
<1>4. TypeOK'
  <2>1. status' \in {"connecting", "connected", "disconnected", "error", "idle"}
    BY <1>2 DEF Ended
  <2>2. retryTimer' \in BOOLEAN
    BY <1>2
  <2> QED
    BY <1>2, <1>3, <2>1, <2>2 DEF IInv, TypeOK
<1>5. AttemptsFinite' /\ OneAttemptPerAct'
  <2>1. /\ IsFiniteSet(sockets') /\ Cardinality(sockets') \in Nat
        /\ Cardinality(sockets') = Cardinality(sockets) - 1
    BY <1>2, Counts, RemoveCount
  <2> QED
    BY <1>1, <1>2, <1>3, <2>1, Counts DEF AttemptsFinite, OneAttemptPerAct, Attempts
<1>6. SocketsHandled'
  BY <1>2 DEF IInv, SocketsHandled
<1>7. ConnectedHasSession'
  BY <1>2 DEF ConnectedHasSession, Ended
<1> QED
  BY <1>4, <1>5, <1>6, <1>7 DEF IInv

\* The end of a socket that is nobody's, or a vault's.
LEMMA SocketEndsUnheardIInv ==
  ASSUME IInv, NEW s \in sockets, NEW end \in {"failed", "lost", "normal"},
         SocketEndsUnheard(s, end)
  PROVE  IInv'
<1>1. /\ sockets' = sockets \ {s} /\ wsRef' = (IF wsRef = s.id THEN 0 ELSE wsRef)
      /\ UNCHANGED <<kind, mounted, natives, electronSessionRef, acts, timers>>
      /\ status' = (IF s.handled THEN Ended(end) ELSE status)
      /\ ~s.handled \/ kind = "vault"
  BY DEF SocketEndsUnheard, Gone
<1>2. TypeOK'
  <2>1. status' \in {"connecting", "connected", "disconnected", "error", "idle"}
    BY <1>1 DEF IInv, TypeOK, Ended
  <2> QED
    BY <1>1, <2>1 DEF IInv, TypeOK, timers
<1>3. AttemptsFinite' /\ OneAttemptPerAct'
  <2>1. /\ IsFiniteSet(sockets') /\ Cardinality(sockets') \in Nat
        /\ Cardinality(sockets') = Cardinality(sockets) - 1
    BY <1>1, Counts, RemoveCount
  <2>2. Pending' = Pending
    BY <1>1 DEF Pending, timers
  <2> QED
    BY <1>1, <2>1, <2>2, Counts DEF AttemptsFinite, OneAttemptPerAct, Attempts
<1>4. SocketsHandled'
  BY <1>1 DEF IInv, SocketsHandled
<1>5. ConnectedHasSession'
  BY <1>1 DEF IInv, SocketsHandled, ConnectedHasSession
<1> QED
  BY <1>2, <1>3, <1>4, <1>5 DEF IInv

\* Electron's sessions are those of a native pane only.
LEMMA NativeOpensIInv ==
  ASSUME IInv, NEW n \in natives, NativeOpens(n)
  PROVE  IInv'
<1> DEFINE m == [n EXCEPT !.open = TRUE]
<1>0. n \in Natives /\ kind = "native"
  BY DEF IInv, TypeOK, SocketsHandled
<1>1. m \in Natives /\ n.id \in Ids
  BY <1>0 DEF Natives
<1>2. natives' = (natives \ {n}) \cup {m} /\ sockets' = sockets /\ kind' = kind
  BY DEF NativeOpens
<1> HIDE DEF m
<1>3. TypeOK'
  <2>1. timeouts' \subseteq Ids /\ connectTimeoutRef' = 0 /\ retryCount' \in 0..MaxRetries
    BY PaneAssumption DEF IInv, TypeOK, NativeOpens, ClearConnectTimeout
  <2> QED
    BY <1>1, <1>2, <2>1 DEF IInv, TypeOK, NativeOpens
<1>4. AttemptsFinite' /\ OneAttemptPerAct'
  <2>1. /\ IsFiniteSet(natives') /\ Cardinality(natives') \in Nat
        /\ Cardinality(natives') <= Cardinality(natives)
    BY <1>2, Counts, ReplaceCount
  <2>2. Pending' = Pending /\ acts' = acts
    BY DEF Pending, NativeOpens
  <2> QED
    BY <1>2, <2>1, <2>2, Counts DEF AttemptsFinite, OneAttemptPerAct, Attempts
<1>5. SocketsHandled' /\ ConnectedHasSession'
  BY <1>0, <1>2 DEF IInv, SocketsHandled, ConnectedHasSession
<1> QED
  BY <1>3, <1>4, <1>5 DEF IInv

\* A socket takes the place of the session that Electron could not open.
LEMMA NativeFailsIInv ==
  ASSUME IInv, NEW n \in natives, NativeFails(n)
  PROVE  IInv'
<1>0. n \in Natives /\ kind = "native"
  BY DEF IInv, TypeOK, SocketsHandled
<1>1. n.id \in Ids /\ NewSocket(n.id) \in Sockets /\ NewSocket(n.id).session = "none"
  BY <1>0 DEF IInv, TypeOK, Natives, Sockets, NewSocket
<1>2. /\ natives' = natives \ {n} /\ sockets' = sockets \cup {NewSocket(n.id)}
      /\ kind' = kind /\ acts' = acts
  BY DEF NativeFails
<1>3. TypeOK'
  <2>1. timeouts' \subseteq Ids /\ connectTimeoutRef' = 0
    BY DEF IInv, TypeOK, NativeFails, ClearConnectTimeout
  <2> QED
    BY <1>1, <1>2, <2>1 DEF IInv, TypeOK, NativeFails
<1>4. AttemptsFinite' /\ OneAttemptPerAct'
  <2>1. /\ IsFiniteSet(natives') /\ Cardinality(natives') \in Nat
        /\ Cardinality(natives') = Cardinality(natives) - 1
    BY <1>2, Counts, RemoveCount
  <2>2. /\ IsFiniteSet(sockets') /\ Cardinality(sockets') \in Nat
        /\ Cardinality(sockets') <= Cardinality(sockets) + 1
    BY <1>2, Counts, AddCount
  <2>3. Pending' = Pending
    BY DEF Pending, NativeFails
  <2> QED
    BY <1>2, <2>1, <2>2, <2>3, Counts DEF AttemptsFinite, OneAttemptPerAct, Attempts
<1>5. SocketsHandled' /\ ConnectedHasSession'
  BY <1>0, <1>1, <1>2 DEF IInv, SocketsHandled, ConnectedHasSession
<1> QED
  BY <1>3, <1>4, <1>5 DEF IInv

LEMMA NativeEndsIInv ==
  ASSUME IInv, NEW n \in natives, NativeEnds(n)
  PROVE  IInv'
<1>0. kind = "native"
  BY DEF IInv, SocketsHandled
<1>1. natives' = natives \ {n} /\ UNCHANGED <<sockets, kind, acts, strays, retryTimer>>
  BY DEF NativeEnds
<1>2. TypeOK'
  <2>1. timeouts' \subseteq Ids /\ connectTimeoutRef' = 0
    BY DEF IInv, TypeOK, NativeEnds, ClearConnectTimeout
  <2> QED
    BY <1>1, <2>1 DEF IInv, TypeOK, NativeEnds
<1>3. AttemptsFinite' /\ OneAttemptPerAct'
  <2>1. /\ IsFiniteSet(natives') /\ Cardinality(natives') \in Nat
        /\ Cardinality(natives') = Cardinality(natives) - 1
    BY <1>1, Counts, RemoveCount
  <2>2. Pending' = Pending
    BY <1>1 DEF Pending
  <2> QED
    BY <1>1, <2>1, <2>2, Counts DEF AttemptsFinite, OneAttemptPerAct, Attempts
<1>4. SocketsHandled' /\ ConnectedHasSession'
  BY <1>0, <1>1 DEF IInv, SocketsHandled, ConnectedHasSession
<1> QED
  BY <1>2, <1>3, <1>4 DEF IInv

\* close() only changes the state of the sockets it closes.
LEMMA ClosesSockets ==
  ASSUME IInv, NEW nets, Closes(nets)
  PROVE  /\ sockets' \subseteq Sockets
         /\ IsFiniteSet(sockets') /\ Cardinality(sockets') \in Nat
         /\ Cardinality(sockets') <= Cardinality(sockets)
         /\ \A t \in sockets' : \E s \in sockets :
              /\ t.id = s.id /\ t.session = s.session /\ t.handled = s.handled
              /\ t.net = "connecting" => s.net = "connecting"
         /\ \A s \in sockets : \E t \in sockets' : t.session = s.session
<1> DEFINE g(s) == IF s.id = wsRef /\ s.net \in nets THEN [s EXCEPT !.net = "closing"] ELSE s
           f == [s \in sockets |-> g(s)]
<1>1. sockets' = {f[s] : s \in sockets} /\ f = [s \in sockets |-> f[s]]
  BY DEF Closes
<1>2. \A s \in sockets : /\ f[s] \in Sockets
                         /\ f[s].id = s.id /\ f[s].session = s.session
                         /\ f[s].handled = s.handled
                         /\ f[s].net = "connecting" => s.net = "connecting"
  <2> SUFFICES ASSUME NEW s \in sockets
               PROVE  /\ g(s) \in Sockets
                      /\ g(s).id = s.id /\ g(s).session = s.session
                      /\ g(s).handled = s.handled
                      /\ g(s).net = "connecting" => s.net = "connecting"
    OBVIOUS
  <2>1. s \in Sockets
    BY DEF IInv, TypeOK
  <2> QED
    BY <2>1 DEF Sockets
<1> HIDE DEF f
<1>3. IsFiniteSet(sockets') /\ Cardinality(sockets') \in Nat
      /\ Cardinality(sockets') <= Cardinality(sockets)
  BY <1>1, Counts, ImageCount
<1> QED
  BY <1>1, <1>2, <1>3

\* What disconnect() does to the sockets and Electron's sessions: none is added.
LEMMA FewerAttempts ==
  ASSUME IInv, UNCHANGED <<kind, wsRef>>,
         \/ sockets' = sockets
         \/ \E nets \in SUBSET {"connecting", "open"} : Closes(nets),
         natives' \subseteq natives
  PROVE  /\ sockets' \subseteq Sockets /\ natives' \subseteq Natives
         /\ AttemptsFinite' /\ SocketsHandled'
         /\ Cardinality(sockets') \in Nat /\ Cardinality(natives') \in Nat
         /\ Cardinality(sockets') <= Cardinality(sockets)
         /\ Cardinality(natives') <= Cardinality(natives)
         /\ (\E s \in sockets : s.session = "on") => \E s \in sockets' : s.session = "on"
<1>1. /\ sockets' \subseteq Sockets /\ IsFiniteSet(sockets')
      /\ Cardinality(sockets') \in Nat /\ Cardinality(sockets') <= Cardinality(sockets)
      /\ \A t \in sockets' : \E s \in sockets :
           /\ t.id = s.id /\ t.session = s.session /\ t.handled = s.handled
           /\ t.net = "connecting" => s.net = "connecting"
      /\ \A s \in sockets : \E t \in sockets' : t.session = s.session
  <2>1. CASE sockets' = sockets
    BY <2>1, Counts DEF IInv, TypeOK
  <2>2. CASE \E nets \in SUBSET {"connecting", "open"} : Closes(nets)
    BY <2>2, ClosesSockets
  <2> QED
    BY <2>1, <2>2
<1>2. /\ natives' \subseteq Natives /\ IsFiniteSet(natives')
      /\ Cardinality(natives') \in Nat /\ Cardinality(natives') <= Cardinality(natives)
  <2>1. natives' \in SUBSET natives
    OBVIOUS
  <2> QED
    BY <2>1, Counts, FS_Subset, FS_CardinalityType DEF IInv, TypeOK
<1>3. SocketsHandled'
  BY <1>1 DEF IInv, SocketsHandled
<1> QED
  BY <1>1, <1>2, <1>3 DEF AttemptsFinite

\* disconnect() clears the retry and closes what is open.
LEMMA DisconnectFacts ==
  ASSUME IInv, disconnect, UNCHANGED <<kind, wsRef>>
  PROVE  /\ \/ sockets' = sockets
            \/ \E nets \in SUBSET {"connecting", "open"} : Closes(nets)
         /\ natives' \subseteq natives
         /\ electronSessionRef' \in Ids \cup {0, Stale}
         /\ retryTimer' = FALSE /\ retryCount' \in 0..MaxRetries
         /\ timeouts' \subseteq Ids /\ connectTimeoutRef' = 0
<1>1. \/ sockets' = sockets
      \/ \E nets \in SUBSET {"connecting", "open"} : Closes(nets)
  <2>1. CASE electronSessionRef # 0
    BY <2>1 DEF disconnect
  <2>2. CASE electronSessionRef = 0
    <3>1. Closes({"open"})
      BY <2>2 DEF disconnect
    <3> QED
      BY <3>1
  <2> QED
    BY <2>1, <2>2
<1>2. /\ natives' \subseteq natives
      /\ electronSessionRef' \in Ids \cup {0, Stale}
  BY DEF disconnect, NativeDisconnects, IInv, TypeOK
<1>3. /\ retryTimer' = FALSE /\ retryCount' \in 0..MaxRetries
      /\ timeouts' \subseteq Ids /\ connectTimeoutRef' = 0
  BY PaneAssumption DEF disconnect, ClearConnectTimeout, IInv, TypeOK
<1> QED
  BY <1>1, <1>2, <1>3

\* The user's acts clear the retry and start at most one timer.
LEMMA ActPending ==
  ASSUME IInv, ~retryTimer', strays' = strays \/ strays' = strays + 1
  PROVE  strays' \in Nat /\ Pending \in Nat /\ Pending' \in Nat /\ Pending' <= Pending + 1
<1>1. strays \in Nat
  BY DEF IInv, TypeOK
<1>2. Pending = strays \/ Pending = strays + 1
  BY <1>1 DEF Pending
<1>3. Pending' = strays' + 0
  BY DEF Pending
<1>4. CASE strays' = strays
  BY <1>1, <1>2, <1>3, <1>4
<1>5. CASE strays' = strays + 1
  BY <1>1, <1>2, <1>3, <1>5
<1> QED
  BY <1>4, <1>5

\* An act of the user, which leaves fewer attempts but for at most one timer.
LEMMA ActIInv ==
  ASSUME IInv, Act, UNCHANGED <<kind, wsRef, status>>,
         \/ sockets' = sockets
         \/ \E nets \in SUBSET {"connecting", "open"} : Closes(nets),
         natives' \subseteq natives, mounted' \in BOOLEAN,
         electronSessionRef' \in Ids \cup {0, Stale},
         retryTimer' = FALSE, retryCount' \in 0..MaxRetries,
         timeouts' \subseteq Ids, connectTimeoutRef' \in Ids \cup {0},
         strays' = strays \/ strays' = strays + 1
  PROVE  IInv'
<1>1. acts' \in 0..MaxActs /\ acts' = acts + 1 /\ acts \in Nat
  BY PaneAssumption DEF IInv, TypeOK, Act
<1>2. strays' \in Nat /\ Pending \in Nat /\ Pending' \in Nat /\ Pending' <= Pending + 1
  BY ActPending
<1>3. TypeOK'
  BY <1>1, <1>2, FewerAttempts DEF IInv, TypeOK
<1>4. OneAttemptPerAct'
  BY <1>1, <1>2, FewerAttempts, Counts DEF OneAttemptPerAct, Attempts
<1>5. ConnectedHasSession'
  BY FewerAttempts DEF IInv, ConnectedHasSession
<1> QED
  BY <1>3, <1>4, <1>5, FewerAttempts DEF IInv

LEMMA UserIInv == IInv /\ User => IInv'
<1> SUFFICES ASSUME IInv, User PROVE IInv'
  OBVIOUS
<1>1. CASE Disconnects
  <2>1. Act /\ disconnect /\ UNCHANGED <<kind, mounted, status, wsRef, strays>>
    BY <1>1 DEF Disconnects
  <2>2. mounted' \in BOOLEAN
    BY <2>1 DEF IInv, TypeOK
  <2> QED
    BY <2>1, <2>2, DisconnectFacts, ActIInv
<1>2. CASE Reconnects
  <2>1. /\ Act /\ disconnect /\ strays' = strays + 1
        /\ UNCHANGED <<kind, mounted, status, wsRef>>
    BY <1>2 DEF Reconnects
  <2>2. mounted' \in BOOLEAN
    BY <2>1 DEF IInv, TypeOK
  <2> QED
    BY <2>1, <2>2, DisconnectFacts, ActIInv
<1>3. CASE Unmounts
  <2>1. /\ Act /\ mounted' = FALSE /\ retryTimer' = FALSE
        /\ natives' \subseteq natives /\ electronSessionRef' = 0
        /\ Closes({"connecting", "open"})
        /\ UNCHANGED <<kind, status, wsRef, retryCount, strays, timeouts, connectTimeoutRef>>
    BY <1>3 DEF Unmounts, NativeDisconnects
  <2>2. \E nets \in SUBSET {"connecting", "open"} : Closes(nets)
    BY <2>1
  <2>3. /\ retryCount' \in 0..MaxRetries /\ timeouts' \subseteq Ids
        /\ connectTimeoutRef' \in Ids \cup {0}
    BY <2>1 DEF IInv, TypeOK
  <2> QED
    BY <2>1, <2>2, <2>3, ActIInv
<1> QED
  BY <1>1, <1>2, <1>3 DEF User

\* Every step keeps the invariant.
LEMMA NextIInv == IInv /\ [Next]_vars => IInv'
<1> SUFFICES ASSUME IInv, [Next]_vars PROVE IInv'
  OBVIOUS
<1>1. CASE User
  BY <1>1, UserIInv
<1>2. CASE TimerStep
  BY <1>2, RetryFiresIInv, StrayFiresIInv, TimesOutIInv DEF TimerStep
<1>3. ASSUME NEW s \in sockets, SocketStep(s) PROVE IInv'
  BY <1>3, OpensIInv, SocketEndsIInv, SocketEndsUnheardIInv, RelayAnswersIInv
     DEF SocketStep, Ends
<1>4. ASSUME NEW n \in natives, NativeStep(n) PROVE IInv'
  BY <1>4, NativeOpensIInv, NativeFailsIInv, NativeEndsIInv DEF NativeStep
<1>5. CASE UNCHANGED vars
  BY <1>5 DEF vars, refs, timers, IInv, TypeOK, AttemptsFinite, OneAttemptPerAct, Attempts,
              Pending, SocketsHandled, ConnectedHasSession
<1> QED
  BY <1>1, <1>2, <1>3, <1>4, <1>5 DEF Next

LEMMA SpecIInv == Spec => []IInv
<1> QED
  BY InitIInv, NextIInv, PTL DEF Spec

(***************************************************************************)
(* The theorems.                                                           *)
(***************************************************************************)
\* The variables of a pane keep their types, for any bounds: in particular a new
\* attempt always gets a number of its own, and no retry is counted past the
\* maximum.
THEOREM TypeCorrect == Spec => []TypeOK
<1> QED
  BY SpecIInv, PTL DEF IInv

\* However its timers and handlers interleave, a pane has no more sockets, Electron
\* sessions and pending timers than one and one for each act of the user.
THEOREM AttemptsBounded == Spec => []OneAttemptPerAct
<1> QED
  BY SpecIInv, PTL DEF IInv

\* A pane with a host that shows "connected" has a session that is on.
THEOREM ConnectedIsTrue == Spec => []ConnectedHasSession
<1> QED
  BY SpecIInv, PTL DEF IInv

\* No step of a browser's pane that has ended gives it another socket.
LEMMA UnmountedStep ==
  ASSUME IInv, [Next]_vars, ~mounted, kind # "native"
  PROVE  {s.id : s \in sockets'} \subseteq {s.id : s \in sockets}
<1>1. natives = {}
  BY DEF IInv, SocketsHandled
<1>2. ASSUME NEW s \in sockets, NEW t, To(s, t), t.id = s.id
      PROVE  {x.id : x \in sockets'} \subseteq {x.id : x \in sockets}
  BY <1>2 DEF To
<1>3. CASE User
  BY <1>3 DEF User, Disconnects, Reconnects, Unmounts, Act
<1>4. CASE RetryFires \/ StrayFires
  BY <1>4 DEF RetryFires, StrayFires, connect
<1>5. ASSUME NEW s \in sockets, TimesOut(s)
      PROVE  {x.id : x \in sockets'} \subseteq {x.id : x \in sockets}
  <2> DEFINE t == [s EXCEPT !.net = "closing", !.connectionFailed = TRUE]
  <2>1. CASE s.net = "open"
    <3>1. To(s, t) /\ t.id = s.id
      BY <1>5, <2>1 DEF TimesOut, IInv, TypeOK, Sockets
    <3> QED
      BY <3>1, <1>2
  <2>2. CASE s.net # "open"
    BY <1>5, <2>2 DEF TimesOut
  <2> QED
    BY <2>1, <2>2
<1>6. ASSUME NEW s \in sockets, Opens(s)
      PROVE  {x.id : x \in sockets'} \subseteq {x.id : x \in sockets}
  <2> DEFINE t == [s EXCEPT !.net = "open", !.session = IF s.handled THEN "asked" ELSE "none"]
  <2>1. To(s, t) /\ t.id = s.id
    BY <1>6 DEF Opens, IInv, TypeOK, Sockets
  <2> QED
    BY <2>1, <1>2
<1>7. ASSUME NEW s \in sockets, NEW session, RelayAnswers(s, session)
      PROVE  {x.id : x \in sockets'} \subseteq {x.id : x \in sockets}
  <2> DEFINE t == [s EXCEPT !.session = session]
  <2>1. To(s, t) /\ t.id = s.id
    BY <1>7 DEF RelayAnswers, IInv, TypeOK, Sockets
  <2> QED
    BY <2>1, <1>2
<1>8. ASSUME NEW s \in sockets, Ends(s)
      PROVE  {x.id : x \in sockets'} \subseteq {x.id : x \in sockets}
  BY <1>8 DEF Ends, SocketEnds, SocketEndsUnheard, Gone
<1>9. CASE UNCHANGED vars
  BY <1>9 DEF vars
<1> QED
  BY <1>1, <1>3, <1>4, <1>5, <1>6, <1>7, <1>8, <1>9 DEF Next, TimerStep, SocketStep

\* A timer or a handler that outlives the pane opens no socket.
THEOREM QuietAfterUnmount == Spec => NothingOpensAfterUnmount
<1>1. IInv /\ [Next]_vars =>
        [~mounted /\ kind # "native" =>
           {s.id : s \in sockets'} \subseteq {s.id : s \in sockets}]_vars
  BY UnmountedStep
<1> QED
  BY <1>1, SpecIInv, PTL DEF Spec, NothingOpensAfterUnmount
=============================================================================
