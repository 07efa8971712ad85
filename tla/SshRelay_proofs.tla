---------------------------- MODULE SshRelay_proofs ----------------------------
(***************************************************************************)
(* Proofs about SshRelay: for any number of attempts, failing statements   *)
(* and kinds of connect messages, the relay leaks no SSH connection, gives *)
(* a log row one outcome and ends each recorded session once.              *)
(***************************************************************************)
EXTENDS SshRelay, TLAPS

\* To have sent the statement on a row is to have it among the statements sent.
LEMMA OnIn ==
  ASSUME NEW op, NEW row \in Attempts, NEW S
  PROVE  On(op, row) \subseteq S <=> [op |-> op, row |-> row] \in S
<1>1. On(op, row) = {[op |-> op, row |-> row]}
  BY BoundsAssumption DEF On, Null, Attempts
<1> HIDE DEF On
<1> QED
  BY <1>1

\* The relay starts in the invariant.
LEMMA InitIInv == Init => IInv
<1> SUFFICES ASSUME Init PROVE IInv
  OBVIOUS
<1> USE BoundsAssumption DEF Init, Null, Attempts
<1>1. TypeOK
  BY DEF TypeOK, Kinds, Row, Statement
<1>2. SessionNeedsConnection /\ FedIsRecorded /\ NoConnectionLeaks
  BY DEF SessionNeedsConnection, FedIsRecorded, NoConnectionLeaks
<1>3. RowKnownOnce /\ SessionEndedOnce
  <2>1. \A n \in Attempts : ~(On("insert", n) \subseteq pending)
    BY OnIn
  <2> QED
    BY <2>1 DEF RowKnownOnce, SessionEndedOnce
<1>4. OnlyEndedAreTold /\ ActiveSessionsAreFed
  <2>1. \A n \in Attempts : ~EndOnItsWay(n)
    BY OnIn DEF EndOnItsWay
  <2> QED
    BY <2>1 DEF OnlyEndedAreTold, ActiveSessionsAreFed
<1> QED
  BY <1>1, <1>2, <1>3, <1>4 DEF IInv

\* Counting one more keeps a function of naturals one.
LEMMA CountType ==
  ASSUME NEW f \in [Attempts -> Nat], NEW n \in Attempts \cup {Null}
  PROVE  Count(f, n) \in [Attempts -> Nat]
  BY DEF Count

\* What Count gives at each place.
LEMMA CountAt ==
  ASSUME NEW f \in [Attempts -> Nat], NEW n \in Attempts \cup {Null}, NEW m \in Attempts
  PROVE  Count(f, n)[m] = IF m = n THEN f[m] + 1 ELSE f[m]
  BY BoundsAssumption DEF Count, Null, Attempts

\* A statement on a row that was started is one of the statements.
LEMMA OnFits ==
  ASSUME NEW op \in Ops, NEW n \in 0..MaxAttempts, NEW row \in 0..n
  PROVE  On(op, row) \subseteq Statement /\ \A s \in On(op, row) : s.row <= n
  BY BoundsAssumption DEF On, Statement, Null, Attempts

\* cleanup(), run by whatever handler, preserves the invariant.
LEMMA CleanupIInv ==
  ASSUME IInv, NEW outcome \in Terminal, Cleanup(outcome),
         UNCHANGED <<attempts, recorded, certStdin, kind, faults, log, active, failedEnds>>,
         wsOpen' \in BOOLEAN, wsOpen' => wsOpen,
         client' \in [Attempts -> {"idle", "live", "errored", "over"}],
         channel' \in [Attempts -> {"none", "opening", "open", "gone"}]
  PROVE  IInv'
<1> USE BoundsAssumption DEF Null, Attempts
<1>1. TypeOK'
  <2>1. pending' \subseteq Statement /\ \A s \in pending' : s.row <= attempts'
    BY DEF IInv, TypeOK, Cleanup, TellDb, On, Terminal, Statement, Ops
  <2>2. outcomes' \in [Attempts -> Nat] /\ ends' \in [Attempts -> Nat]
    <3>1. sessionId \in Attempts \cup {Null} /\ vaultSessionId \in Attempts \cup {Null}
      BY DEF IInv, TypeOK
    <3> QED
      BY <3>1, CountType DEF IInv, TypeOK, Cleanup, TellDb
  <2>3. ended' \subseteq 1..attempts'
    BY DEF IInv, TypeOK, Cleanup, EndConnection
  <2> QED
    BY <2>1, <2>2, <2>3 DEF IInv, TypeOK, Cleanup, EndConnection, Forget
<1>2. SessionNeedsConnection' /\ FedIsRecorded'
  BY DEF SessionNeedsConnection, FedIsRecorded, Cleanup, Forget
<1>3. NoConnectionLeaks'
  BY DEF IInv, NoConnectionLeaks, Cleanup, EndConnection
<1>0. sessionId \in Attempts \cup {Null} /\ vaultSessionId \in Attempts \cup {Null}
  BY DEF IInv, TypeOK
<1>4. RowKnownOnce'
  <2> SUFFICES ASSUME NEW n \in Attempts
               PROVE  /\ On("insert", n) \subseteq pending' =>
                           outcomes'[n] = 0 /\ sessionId' # n
                      /\ outcomes'[n] = 0 \/ (outcomes'[n] = 1 /\ sessionId' # n)
                      /\ n > attempts' => outcomes'[n] = 0
    BY DEF RowKnownOnce, On
  <2>1. outcomes'[n] = IF n = sessionId THEN outcomes[n] + 1 ELSE outcomes[n]
    BY <1>0, CountAt DEF IInv, TypeOK, Cleanup, TellDb
  <2>2. sessionId' = Null
    BY DEF Cleanup, Forget
  <2>3. On("insert", n) \subseteq pending' => On("insert", n) \subseteq pending
    BY DEF Cleanup, TellDb, On, Terminal
  <2> QED
    BY <2>1, <2>2, <2>3 DEF IInv, TypeOK, RowKnownOnce
<1>5. SessionEndedOnce'
  <2> SUFFICES ASSUME NEW n \in Attempts
               PROVE  ends'[n] = IF n \in recorded' /\ n # vaultSessionId' THEN 1 ELSE 0
    BY DEF SessionEndedOnce
  <2>1. ends'[n] = IF n = vaultSessionId THEN ends[n] + 1 ELSE ends[n]
    BY <1>0, CountAt DEF IInv, TypeOK, Cleanup, TellDb
  <2> QED
    BY <2>1 DEF IInv, TypeOK, SessionEndedOnce, FedIsRecorded, Cleanup, Forget
<1>6. \A n \in Attempts :
        EndOnItsWay(n)' <=> EndOnItsWay(n) \/ n = vaultSessionId
  BY DEF EndOnItsWay, On, Cleanup, TellDb, Terminal
<1>7. OnlyEndedAreTold'
  <2> SUFFICES ASSUME NEW n \in Attempts, EndOnItsWay(n)' PROVE ends'[n] = 1
    BY DEF OnlyEndedAreTold, EndOnItsWay
  <2>1. ends'[n] = IF n = vaultSessionId THEN ends[n] + 1 ELSE ends[n]
    BY <1>0, CountAt DEF IInv, TypeOK, Cleanup, TellDb
  <2>2. ends[n] = IF n \in recorded /\ n # vaultSessionId THEN 1 ELSE 0
    BY DEF IInv, SessionEndedOnce
  <2> QED
    BY <1>6, <2>1, <2>2 DEF IInv, OnlyEndedAreTold
<1>8. ActiveSessionsAreFed'
  <2>1. \A n \in recorded : n \in Attempts
    BY DEF IInv, TypeOK
  <2>2. vaultSessionId' = Null
    BY DEF Cleanup, Forget
  <2> QED
    BY <1>6, <2>1, <2>2 DEF IInv, ActiveSessionsAreFed
<1> QED
  BY <1>1, <1>2, <1>3, <1>4, <1>5, <1>7, <1>8 DEF IInv

\* 'connect' preserves the invariant: the new attempt's row, session and
\* connection are all fresh.
LEMMA ConnectIInv ==
  ASSUME IInv, NEW k \in Kinds, NEW b \in BOOLEAN, Connect(k, b)
  PROVE  IInv'
<1> DEFINE n == attempts + 1
<1> USE BoundsAssumption DEF Null, Attempts
<1>1. n \in Attempts /\ attempts' = n /\ attempts \in Nat
  BY DEF IInv, TypeOK, Connect
<1>2. vaultSessionId = Null /\ conn = Null
  BY DEF IInv, SessionNeedsConnection, Connect
<1>3. pending' \subseteq pending \cup On("insert", n) \cup On("connected", sessionId)
  BY DEF Connect
<1>13. /\ recorded' = IF b THEN recorded \cup {n} ELSE recorded
       /\ active' = IF b THEN active \cup {n} ELSE active
       /\ failedEnds' = failedEnds
  BY DEF Connect, Carry
<1>4. TypeOK'
  <2>1. pending' \subseteq Statement /\ \A s \in pending' : s.row <= attempts'
    <3>1. On("insert", n) \subseteq Statement /\ \A s \in On("insert", n) : s.row <= n
      BY <1>1, OnFits DEF Ops
    <3>2. /\ On("connected", sessionId) \subseteq Statement
          /\ \A s \in On("connected", sessionId) : s.row <= n
      BY <1>1, OnFits DEF Ops, IInv, TypeOK
    <3>3. \A s \in pending : s \in Statement /\ s.row <= n
      BY <1>1 DEF IInv, TypeOK, Statement
    <3> QED
      BY <1>1, <1>3, <3>1, <3>2, <3>3
  <2>2. stream' \in Attempts \cup {Null} /\ certStdin' \in Attempts \cup {Null}
    BY <1>1 DEF IInv, TypeOK, Connect
  <2>3. recorded' \subseteq 1..attempts' /\ vaultSessionId' \in 0..attempts'
    BY <1>1, <1>2, <1>13 DEF IInv, TypeOK, Connect
  <2>4. client' \in [Attempts -> {"idle", "live", "errored", "over"}]
        /\ kind' \in [Attempts -> Kinds]
    BY <1>1 DEF IInv, TypeOK, Connect
  <2>5. active' \subseteq recorded' /\ failedEnds' \subseteq recorded'
    BY <1>13 DEF IInv, TypeOK
  <2> QED
    BY <1>1, <2>1, <2>2, <2>3, <2>4, <2>5 DEF IInv, TypeOK, Connect
<1>5. SessionNeedsConnection' /\ FedIsRecorded'
  BY <1>1, <1>2, <1>13 DEF SessionNeedsConnection, FedIsRecorded, Connect
<1>6. NoConnectionLeaks'
  BY <1>1, <1>2 DEF IInv, NoConnectionLeaks, Connect
<1>7. RowKnownOnce'
  <2> SUFFICES ASSUME NEW m \in Attempts
               PROVE  /\ On("insert", m) \subseteq pending' =>
                           outcomes[m] = 0 /\ sessionId # m
                      /\ outcomes[m] = 0 \/ (outcomes[m] = 1 /\ sessionId # m)
                      /\ m > attempts' => outcomes[m] = 0
    BY DEF RowKnownOnce, Connect, On
  <2>1. On("insert", m) \subseteq pending' =>
          m = n \/ On("insert", m) \subseteq pending
    BY <1>3 DEF On
  <2>2. outcomes[n] = 0 /\ sessionId # n
    BY <1>1 DEF IInv, TypeOK, RowKnownOnce
  <2> QED
    BY <1>1, <2>1, <2>2 DEF IInv, TypeOK, RowKnownOnce
<1>8. SessionEndedOnce'
  <2>1. n \notin recorded
    BY <1>1 DEF IInv, TypeOK
  <2> QED
    BY <1>1, <1>2, <1>13, <2>1 DEF IInv, TypeOK, SessionEndedOnce, Connect
<1>9. \A m \in Attempts : EndOnItsWay(m)' <=> EndOnItsWay(m)
  BY DEF EndOnItsWay, On, Connect
<1>10. OnlyEndedAreTold'
  BY <1>9 DEF IInv, OnlyEndedAreTold, Connect
<1>11. ActiveSessionsAreFed'
  <2>1. n \notin recorded /\ \A m \in recorded' : m \in Attempts
    BY <1>1, <1>13 DEF IInv, TypeOK
  <2>2. vaultSessionId' = IF b THEN n ELSE Null
    BY <1>2 DEF Connect
  <2> QED
    BY <1>2, <1>9, <1>13, <2>1, <2>2 DEF IInv, TypeOK, ActiveSessionsAreFed
<1> QED
  BY <1>4, <1>5, <1>6, <1>7, <1>8, <1>10, <1>11 DEF IInv

\* So does one whose client.connect() throws.
LEMMA ConnectThrowsIInv ==
  ASSUME IInv, NEW b \in BOOLEAN, ConnectThrows(b)
  PROVE  IInv'
<1> DEFINE n == attempts + 1
           session == IF b THEN n ELSE vaultSessionId
<1> USE BoundsAssumption DEF Null, Attempts
<1>1. n \in Attempts /\ attempts' = n /\ attempts \in Nat
  BY DEF IInv, TypeOK, ConnectThrows
<1>2. vaultSessionId = Null /\ conn = Null /\ conn' = Null
  BY DEF IInv, SessionNeedsConnection, ConnectThrows
<1>3. pending' = pending \cup On("insert", n) \cup On("disconnected", sessionId)
                         \cup On("endSession", session)
  BY DEF ConnectThrows
<1>4. outcomes' = Count(outcomes, sessionId) /\ ends' = Count(ends, session)
  BY DEF ConnectThrows
<1>5. sessionId \in Attempts \cup {Null} /\ session \in Attempts \cup {Null}
  BY <1>1, <1>2 DEF IInv, TypeOK
<1>13. /\ recorded' = IF b THEN recorded \cup {n} ELSE recorded
       /\ active' = IF b THEN active \cup {n} ELSE active
       /\ failedEnds' = failedEnds
  BY DEF ConnectThrows, Carry
<1>6. TypeOK'
  <2>1. pending' \subseteq Statement /\ \A s \in pending' : s.row <= attempts'
    BY <1>1, <1>2, <1>3 DEF IInv, TypeOK, On, Statement, Ops, Terminal
  <2>2. outcomes' \in [Attempts -> Nat] /\ ends' \in [Attempts -> Nat]
    BY <1>4, <1>5, CountType DEF IInv, TypeOK
  <2>3. recorded' \subseteq 1..attempts' /\ ended' \subseteq 1..attempts'
    BY <1>1, <1>13 DEF IInv, TypeOK, ConnectThrows
  <2>4. client' \in [Attempts -> {"idle", "live", "errored", "over"}]
    BY <1>1 DEF IInv, TypeOK, ConnectThrows
  <2>5. active' \subseteq recorded' /\ failedEnds' \subseteq recorded'
    BY <1>13 DEF IInv, TypeOK
  <2>6. /\ UNCHANGED <<wsOpen, certStdin, kind, channel, faults, log>>
        /\ sessionId' = 0 /\ vaultSessionId' = 0 /\ stream' = Null
    BY DEF ConnectThrows
  <2>7. TypeOK
    BY DEF IInv
  <2> QED
    BY <1>1, <1>2, <2>1, <2>2, <2>3, <2>4, <2>5, <2>6, <2>7 DEF TypeOK
<1>7. SessionNeedsConnection' /\ FedIsRecorded'
  BY DEF SessionNeedsConnection, FedIsRecorded, ConnectThrows
<1>8. NoConnectionLeaks'
  BY <1>1, <1>2 DEF IInv, NoConnectionLeaks, ConnectThrows
<1>9. RowKnownOnce'
  <2> SUFFICES ASSUME NEW m \in Attempts
               PROVE  /\ On("insert", m) \subseteq pending' =>
                           outcomes'[m] = 0 /\ sessionId' # m
                      /\ outcomes'[m] = 0 \/ (outcomes'[m] = 1 /\ sessionId' # m)
                      /\ m > attempts' => outcomes'[m] = 0
    BY DEF RowKnownOnce, On
  <2>1. outcomes'[m] = IF m = sessionId THEN outcomes[m] + 1 ELSE outcomes[m]
    BY <1>4, <1>5, CountAt DEF IInv, TypeOK
  <2>2. On("insert", m) \subseteq pending' =>
          m = n \/ On("insert", m) \subseteq pending
    BY <1>3 DEF On
  <2>3. outcomes[n] = 0 /\ sessionId # n
    BY <1>1 DEF IInv, TypeOK, RowKnownOnce
  <2>4. sessionId' = Null
    BY DEF ConnectThrows
  <2> QED
    BY <1>1, <2>1, <2>2, <2>3, <2>4 DEF IInv, TypeOK, RowKnownOnce
<1>10. SessionEndedOnce'
  <2> SUFFICES ASSUME NEW m \in Attempts
               PROVE  ends'[m] = IF m \in recorded' /\ m # vaultSessionId' THEN 1 ELSE 0
    BY DEF SessionEndedOnce
  <2>1. ends'[m] = IF m = session THEN ends[m] + 1 ELSE ends[m]
    BY <1>4, <1>5, CountAt DEF IInv, TypeOK
  <2>2. n \notin recorded /\ vaultSessionId' = Null
    BY <1>1 DEF IInv, TypeOK, ConnectThrows
  <2> QED
    BY <1>1, <1>2, <1>13, <2>1, <2>2 DEF IInv, TypeOK, SessionEndedOnce
<1>11. \A m \in Attempts : EndOnItsWay(m)' <=> EndOnItsWay(m) \/ m = session
  BY <1>3 DEF EndOnItsWay, On
<1>14. n \notin recorded /\ vaultSessionId' = Null /\ \A m \in recorded' : m \in Attempts
  BY <1>1, <1>13 DEF IInv, TypeOK, ConnectThrows
<1>15. session = IF b THEN n ELSE Null
  BY <1>2
<1>16. OnlyEndedAreTold'
  <2> SUFFICES ASSUME NEW m \in Attempts, EndOnItsWay(m)' PROVE ends'[m] = 1
    BY DEF OnlyEndedAreTold, EndOnItsWay
  <2>1. ends'[m] = IF m = session THEN ends[m] + 1 ELSE ends[m]
    BY <1>4, <1>5, CountAt DEF IInv, TypeOK
  <2>2. ends[n] = 0
    BY <1>1, <1>14 DEF IInv, SessionEndedOnce
  <2>3. CASE m = session
    <3>1. m = n
      BY <1>15, <2>3
    <3> QED
      BY <2>1, <2>2, <2>3, <3>1
  <2>4. CASE m # session
    BY <1>11, <2>1, <2>4 DEF IInv, OnlyEndedAreTold
  <2> QED
    BY <2>3, <2>4
<1>17. ActiveSessionsAreFed'
  BY <1>1, <1>2, <1>11, <1>13, <1>14, <1>15 DEF IInv, TypeOK, ActiveSessionsAreFed
<1> QED
  BY <1>6, <1>7, <1>8, <1>9, <1>10, <1>16, <1>17 DEF IInv

\* Every other message and the end of the socket run cleanup().
LEMMA CleanupMessagesIInv == IInv /\ (Disconnect \/ SocketClose) => IInv'
<1> SUFFICES ASSUME IInv, Disconnect \/ SocketClose PROVE IInv'
  OBVIOUS
<1> USE DEF IInv, TypeOK, dbVars, sessionVars, Terminal
<1>1. CASE Disconnect
  BY <1>1, CleanupIInv DEF Disconnect
<1>2. CASE SocketClose
  BY <1>2, CleanupIInv DEF SocketClose
<1> QED
  BY <1>1, <1>2

\* The callbacks that end in cleanup() too.
LEMMA CleanupCallbacksIInv ==
  ASSUME IInv, NEW n \in Attempts,
         ShellEnds(n) \/ ClientError(n) \/ ProcessError(n) \/ ClientEnd(n)
  PROVE  IInv'
<1> USE DEF IInv, TypeOK, dbVars, sessionVars, Terminal
<1>1. CASE ShellEnds(n)
  BY <1>1, CleanupIInv DEF ShellEnds
<1>2. CASE ClientError(n)
  BY <1>2, CleanupIInv DEF ClientError
<1>3. CASE ProcessError(n)
  BY <1>3, CleanupIInv DEF ProcessError
<1>4. CASE ClientEnd(n)
  BY <1>4, CleanupIInv DEF ClientEnd
<1> QED
  BY <1>1, <1>2, <1>3, <1>4

\* Asking for a shell changes the channel alone.
LEMMA ReadyIInv ==
  ASSUME IInv, NEW n \in Attempts, Ready(n)
  PROVE  IInv'
<1> USE BoundsAssumption
        DEF IInv, Ready, relayVars, sentVars, dbVars, sessionVars, Attempts
<1>1. TypeOK'
  BY DEF TypeOK
<1>2. SessionNeedsConnection' /\ FedIsRecorded' /\ NoConnectionLeaks'
  BY DEF SessionNeedsConnection, FedIsRecorded, NoConnectionLeaks
<1>3. RowKnownOnce' /\ SessionEndedOnce'
  BY DEF RowKnownOnce, SessionEndedOnce, On
<1>4. OnlyEndedAreTold' /\ ActiveSessionsAreFed'
  BY DEF OnlyEndedAreTold, ActiveSessionsAreFed, EndOnItsWay, On
<1> QED
  BY <1>1, <1>2, <1>3, <1>4

\* An open shell reports the row the variables name as connected.
LEMMA ShellOpensIInv ==
  ASSUME IInv, NEW n \in Attempts, ShellOpens(n)
  PROVE  IInv'
<1> USE BoundsAssumption DEF IInv, ShellOpens, dbVars, sessionVars, Attempts
<1>1. TypeOK'
  <2>1. /\ On("connected", sessionId) \subseteq Statement
        /\ \A s \in On("connected", sessionId) : s.row <= attempts
    BY OnFits DEF Ops, TypeOK
  <2>2. pending' \subseteq Statement /\ \A s \in pending' : s.row <= attempts'
    BY <2>1 DEF TypeOK
  <2> HIDE DEF ShellOpens
  <2> QED
    BY <2>2 DEF TypeOK, ShellOpens
<1>2. SessionNeedsConnection' /\ FedIsRecorded' /\ NoConnectionLeaks'
  BY DEF SessionNeedsConnection, FedIsRecorded, NoConnectionLeaks
<1>3. SessionEndedOnce'
  BY DEF SessionEndedOnce
<1>4. RowKnownOnce'
  <2>1. \A m \in Attempts : On("insert", m) \subseteq pending'
                             => On("insert", m) \subseteq pending
    BY DEF On
  <2> QED
    BY <2>1 DEF RowKnownOnce, On
<1>5. OnlyEndedAreTold' /\ ActiveSessionsAreFed'
  <2>1. \A m \in Attempts : EndOnItsWay(m)' <=> EndOnItsWay(m)
    BY DEF EndOnItsWay, On
  <2>2. \A m \in recorded : m \in Attempts
    BY DEF TypeOK
  <2> QED
    BY <2>1, <2>2 DEF OnlyEndedAreTold, ActiveSessionsAreFed
<1> QED
  BY <1>1, <1>2, <1>3, <1>4, <1>5

\* The continuation of an INSERT names a row that had no outcome.
LEMMA InsertReturnsIInv ==
  ASSUME IInv, NEW s \in pending, InsertReturns(s)
  PROVE  IInv'
<1> USE BoundsAssumption DEF IInv, InsertReturns, clientVars, sessionVars, Null, Attempts
<1>1. s.row \in Attempts /\ s.row <= attempts /\ s = [op |-> "insert", row |-> s.row]
  BY DEF TypeOK, Statement
<1>2. outcomes[s.row] = 0
  BY <1>1 DEF RowKnownOnce, On
<1>3. TypeOK'
  <2>1. log' \in [Attempts -> Row]
    BY <1>1 DEF TypeOK, Row
  <2>2. pending' \subseteq Statement /\ \A t \in pending' : t.row <= attempts'
    BY DEF TypeOK
  <2>3. sessionId' \in 0..attempts'
    BY <1>1 DEF TypeOK
  <2> QED
    BY <2>1, <2>2, <2>3 DEF TypeOK
<1>4. SessionNeedsConnection' /\ FedIsRecorded' /\ NoConnectionLeaks'
  BY DEF SessionNeedsConnection, FedIsRecorded, NoConnectionLeaks
<1>5. SessionEndedOnce'
  BY DEF SessionEndedOnce
<1>6. RowKnownOnce'
  <2> SUFFICES ASSUME NEW m \in Attempts
               PROVE  /\ On("insert", m) \subseteq pending' =>
                           outcomes[m] = 0 /\ sessionId' # m
                      /\ outcomes[m] = 0 \/ (outcomes[m] = 1 /\ sessionId' # m)
                      /\ m > attempts => outcomes[m] = 0
    BY DEF RowKnownOnce, On
  <2>1. On("insert", m) \subseteq pending' =>
          m # s.row /\ On("insert", m) \subseteq pending
    BY <1>1 DEF On
  <2> QED
    BY <1>1, <1>2, <2>1 DEF RowKnownOnce
<1>7. OnlyEndedAreTold' /\ ActiveSessionsAreFed'
  <2>1. \A m \in Attempts : EndOnItsWay(m)' <=> EndOnItsWay(m)
    BY DEF EndOnItsWay, On
  <2>2. \A m \in recorded : m \in Attempts
    BY DEF TypeOK
  <2> QED
    BY <2>1, <2>2 DEF OnlyEndedAreTold, ActiveSessionsAreFed
<1> QED
  BY <1>3, <1>4, <1>5, <1>6, <1>7

\* Every other answer of the database only shortens what is pending.
LEMMA AnswerIInv ==
  ASSUME IInv, NEW s \in pending, UpdateRuns(s) \/ StatementFails(s)
  PROVE  IInv'
<1> USE BoundsAssumption DEF IInv, relayVars, clientVars, Attempts
<1>1. /\ pending' = pending \ {s}
      /\ UNCHANGED <<wsOpen, relayVars, clientVars, outcomes, ends>>
  BY DEF UpdateRuns, StatementFails
<1>2. TypeOK'
  <2>1. s.row \in Attempts /\ s.op \in Ops
    BY DEF TypeOK, Statement
  <2>4. active' \subseteq recorded'
    BY <1>1 DEF UpdateRuns, StatementFails, TypeOK
  <2>5. failedEnds' \subseteq recorded'
    <3>1. s.op = "endSession" => s.row \in recorded
      BY <2>1 DEF OnlyEndedAreTold, EndOnItsWay, On, SessionEndedOnce, TypeOK, Statement
    <3> QED
      BY <1>1, <3>1 DEF UpdateRuns, StatementFails, TypeOK
  <2>2. CASE UpdateRuns(s)
    <3>1. log' \in [Attempts -> Row]
      BY <2>1, <2>2 DEF UpdateRuns, TypeOK, Row, Ops, Terminal
    <3> QED
      BY <1>1, <2>2, <2>4, <2>5, <3>1 DEF UpdateRuns, TypeOK
  <2>3. CASE StatementFails(s)
    BY <1>1, <2>3, <2>4, <2>5 DEF StatementFails, TypeOK
  <2> QED
    BY <2>2, <2>3
<1>3. SessionNeedsConnection' /\ FedIsRecorded' /\ NoConnectionLeaks'
  BY <1>1 DEF SessionNeedsConnection, FedIsRecorded, NoConnectionLeaks
<1>4. RowKnownOnce' /\ SessionEndedOnce'
  BY <1>1 DEF RowKnownOnce, SessionEndedOnce, On
<1>5. OnlyEndedAreTold' /\ ActiveSessionsAreFed'
  <2>1. \A m \in Attempts :
          EndOnItsWay(m)' <=> EndOnItsWay(m) /\ s # [op |-> "endSession", row |-> m]
    <3>1. pending' = pending \ {s}
      BY <1>1
    <3> SUFFICES ASSUME NEW m \in Attempts
                 PROVE  EndOnItsWay(m)' <=>
                          EndOnItsWay(m) /\ s # [op |-> "endSession", row |-> m]
      OBVIOUS
    <3> QED
      BY <3>1, OnIn DEF EndOnItsWay
  <2>2. OnlyEndedAreTold'
    BY <1>1, <2>1 DEF OnlyEndedAreTold
  <2>3. ActiveSessionsAreFed'
    <3> SUFFICES ASSUME NEW m \in recorded
                 PROVE  /\ m = vaultSessionId => m \in active'
                        /\ m \in active' => m = vaultSessionId \/ EndOnItsWay(m)'
                                              \/ m \in failedEnds'
      BY <1>1 DEF ActiveSessionsAreFed
    <3>1. m \in Attempts /\ s \in Statement
      BY DEF TypeOK
    <3>2. s = [op |-> s.op, row |-> s.row] /\ (s.op = "endSession" => EndOnItsWay(s.row))
      BY <3>1 DEF Statement, EndOnItsWay, On
    <3>3. s.op = "endSession" => ends[s.row] = 1 /\ s.row # vaultSessionId
      BY <3>1, <3>2 DEF OnlyEndedAreTold, SessionEndedOnce, Statement
    <3>4. CASE UpdateRuns(s)
      BY <2>1, <3>1, <3>2, <3>3, <3>4 DEF UpdateRuns, ActiveSessionsAreFed
    <3>5. CASE StatementFails(s)
      BY <2>1, <3>1, <3>2, <3>3, <3>5 DEF StatementFails, ActiveSessionsAreFed
    <3> QED
      BY <3>4, <3>5
  <2> QED
    BY <2>2, <2>3
<1> QED
  BY <1>2, <1>3, <1>4, <1>5

\* Every step preserves the invariant.
LEMMA NextIInv == IInv /\ [Next]_vars => IInv'
<1> SUFFICES ASSUME IInv, [Next]_vars PROVE IInv'
  OBVIOUS
<1>1. CASE UserStep
  <2>1. ASSUME NEW o \in Offers, Connect(o[1], o[2]) PROVE IInv'
    <3>1. o[1] \in Kinds /\ o[2] \in BOOLEAN
      BY OffersAssumption
    <3> QED
      BY <2>1, <3>1, ConnectIInv
  <2>2. ASSUME NEW o \in Offers, ConnectThrows(o[2]) PROVE IInv'
    <3>1. o[2] \in BOOLEAN
      BY OffersAssumption
    <3> QED
      BY <2>2, <3>1, ConnectThrowsIInv
  <2> QED
    BY <1>1, <2>1, <2>2, CleanupMessagesIInv DEF UserStep
<1>2. CASE CallbackStep
  BY <1>2, CleanupCallbacksIInv, ReadyIInv, ShellOpensIInv DEF CallbackStep
<1>3. CASE DbStep
  BY <1>3, InsertReturnsIInv, AnswerIInv DEF DbStep
<1>4. CASE UNCHANGED vars
  BY <1>4 DEF vars, relayVars, clientVars, sentVars, dbVars, sessionVars, IInv, TypeOK,
    SessionNeedsConnection, FedIsRecorded, NoConnectionLeaks, RowKnownOnce,
    SessionEndedOnce, OnlyEndedAreTold, ActiveSessionsAreFed, EndOnItsWay, On
<1> QED
  BY <1>1, <1>2, <1>3, <1>4 DEF Next

\* The invariant holds in every behaviour of the relay.
THEOREM Inductive == Spec => []IInv
<1> QED
  BY InitIInv, NextIInv, PTL DEF Spec

\* Type correctness of the relay (the closure variables of handleSshConnection).
THEOREM TypeCorrect == Spec => []TypeOK
<1>1. IInv => TypeOK
  BY DEF IInv
<1> QED
  BY <1>1, Inductive, PTL

\* Whatever late callback overwrites conn, no SSH connection is left without
\* its conn.end(), and none outlives the socket.
THEOREM ConnectionsDoNotLeak == Spec => []NoConnectionLeaks
<1>1. IInv => NoConnectionLeaks
  BY DEF IInv
<1> QED
  BY <1>1, Inductive, PTL

\* However many callbacks run cleanup(), a log row is closed at most once.
THEOREM RowsAreClosedOnce == Spec => []OneOutcomePerRow
<1>1. IInv => OneOutcomePerRow
  BY DEF IInv, RowKnownOnce, OneOutcomePerRow
<1> QED
  BY <1>1, Inductive, PTL

\* Every recorded session but the one being fed was ended, exactly once.
THEOREM SessionsAreEndedOnce == Spec => []RecordedSessionsEnded
<1>1. IInv => RecordedSessionsEnded
  <2> SUFFICES ASSUME IInv, NEW n \in recorded
               PROVE  ends[n] = IF n = vaultSessionId THEN 0 ELSE 1
    BY DEF RecordedSessionsEnded
  <2> n \in Attempts
    BY BoundsAssumption DEF IInv, TypeOK, Attempts
  <2> QED
    BY DEF IInv, SessionEndedOnce
<1> QED
  BY <1>1, Inductive, PTL

\* A recorded session that is active in the database is being fed, or its ending
\* is on its way there or was lost there; one that is fed is active.
THEOREM ActiveSessionsFollow == Spec => []ActiveSessionsAreFed
<1>1. IInv => ActiveSessionsAreFed
  BY DEF IInv
<1> QED
  BY <1>1, Inductive, PTL

(***************************************************************************)
(* The relay implements the lease.                                         *)
(***************************************************************************)
\* What the relay holds is its current connection, if that is not yet ended.
LEMMA HeldIsCurrent == IInv => (1..attempts) \ ended \subseteq {conn} \ {Null}
  BY DEF IInv, TypeOK, NoConnectionLeaks, Null

\* A handler that runs cleanup() leaves no connection held.
LEMMA CleanupReleases ==
  ASSUME IInv, Cleanup("error") \/ Cleanup("disconnected"), UNCHANGED attempts
  PROVE  (1..attempts') \ ended' = {}
<1>1. ended' = ended \cup ({conn} \ {Null})
  BY DEF Cleanup, EndConnection
<1> QED
  BY <1>1, HeldIsCurrent

\* A message of the user, or the end of the socket, is a step of the lease.
LEMMA UserStepLeases ==
  ASSUME IInv, UserStep
  PROVE  [Lease!LeaseNext]_Lease!leaseVars
<1> USE DEF Lease!LeaseNext, Lease!leaseVars, Attempts
<1> DEFINE n == attempts + 1
<1>0. attempts \in Nat /\ attempts <= MaxAttempts /\ ended \subseteq 1..attempts
  BY BoundsAssumption DEF IInv, TypeOK
<1>1. ASSUME NEW o \in Offers, Connect(o[1], o[2])
      PROVE  Lease!Acquire
  <2>1. (1..attempts) \ ended = {}
    BY <1>1, HeldIsCurrent DEF Connect
  <2>2. (1..attempts') \ ended' = {n} /\ n \in 1..MaxAttempts
    BY <1>0, <1>1, <2>1 DEF Connect
  <2>3. attempts' = n /\ attempts < MaxAttempts
    BY <1>0, <1>1, <2>2, BoundsAssumption DEF Connect
  <2>4. wsOpen /\ UNCHANGED wsOpen
    BY <1>1, Zenon DEF Connect
  <2> QED
    BY <2>1, <2>2, <2>3, <2>4 DEF Lease!Acquire
<1>2. ASSUME NEW o \in Offers, ConnectThrows(o[2])
      PROVE  Lease!Forfeit
  <2>1. (1..attempts) \ ended = {}
    BY <1>2, HeldIsCurrent DEF ConnectThrows
  <2>2. (1..attempts') \ ended' = {} /\ n \in 1..MaxAttempts
    BY <1>0, <1>2, <2>1 DEF ConnectThrows
  <2>3. attempts' = n /\ attempts < MaxAttempts
    BY <1>0, <1>2, <2>2, BoundsAssumption DEF ConnectThrows
  <2>4. wsOpen /\ UNCHANGED wsOpen
    BY <1>2, Zenon DEF ConnectThrows
  <2> QED
    BY <2>1, <2>2, <2>3, <2>4 DEF Lease!Forfeit
<1>3. CASE Disconnect
  BY <1>3, CleanupReleases DEF Disconnect, Lease!Release
<1>4. CASE SocketClose
  BY <1>4, CleanupReleases DEF SocketClose, Lease!Shut
<1> QED
  BY <1>1, <1>2, <1>3, <1>4 DEF UserStep

\* So is a callback.
LEMMA CallbackStepLeases ==
  ASSUME IInv, NEW n \in Attempts,
         Ready(n) \/ ShellOpens(n) \/ ShellEnds(n) \/ ClientError(n)
           \/ ProcessError(n) \/ ClientEnd(n)
  PROVE  [Lease!LeaseNext]_Lease!leaseVars
<1> USE DEF Lease!LeaseNext, Lease!leaseVars
<1>1. CASE Ready(n) \/ ShellOpens(n)
  BY <1>1 DEF Ready, ShellOpens, relayVars
<1>2. CASE ShellEnds(n) \/ ClientError(n) \/ ProcessError(n) \/ ClientEnd(n)
  <2>1. /\ Cleanup("error") \/ Cleanup("disconnected")
        /\ UNCHANGED <<attempts, wsOpen>>
    BY <1>2 DEF ShellEnds, ClientError, ProcessError, ClientEnd
  <2> QED
    BY <2>1, CleanupReleases DEF Lease!Release
<1> QED
  BY <1>1, <1>2

\* The relay implements the abstract lease of its connections.
THEOREM RelayIsALease == Spec => HoldsAsLeased
<1>1. Init => Lease!LeaseInit
  BY DEF Init, Lease!LeaseInit
<1>2. IInv /\ [Next]_vars => [Lease!LeaseNext]_Lease!leaseVars
  <2> SUFFICES ASSUME IInv, [Next]_vars PROVE [Lease!LeaseNext]_Lease!leaseVars
    OBVIOUS
  <2>1. CASE UserStep
    BY <2>1, UserStepLeases
  <2>2. CASE CallbackStep
    BY <2>2, CallbackStepLeases DEF CallbackStep
  <2>3. CASE DbStep \/ UNCHANGED vars
    BY <2>3 DEF DbStep, InsertReturns, UpdateRuns, StatementFails, vars,
      relayVars, clientVars, Lease!leaseVars
  <2> QED
    BY <2>1, <2>2, <2>3 DEF Next
<1> QED
  BY <1>1, <1>2, Inductive, PTL DEF Spec, HoldsAsLeased, Lease!LeaseSpec
=============================================================================
