------------------------------- MODULE SshRelay -------------------------------
(***************************************************************************)
(* The SSH relay of server/ssh.ts: handleSshConnection, which serves one   *)
(* WebSocket of a signed-in user.  Its closure variables are shared by the *)
(* message handler, by the callbacks of every SSH client (or ssh child     *)
(* process) the socket ever started, and by the continuations of database  *)
(* statements that are sent and never awaited.  Each of these runs to its  *)
(* end without interruption, in an order the network and the database      *)
(* choose; each is one action here.                                        *)
(*                                                                         *)
(* Attempt n is the n-th accepted 'connect' message; it also names the SSH *)
(* client, the ssh_session_logs row and the recorded session (if the       *)
(* message carries one) that belong to it.  0 stands for null.             *)
(***************************************************************************)
EXTENDS Naturals, FiniteSets

CONSTANTS MaxAttempts,   \* bound on the connect messages of the socket
          MaxFaults,     \* bound on the database statements that fail
          Offers         \* the connect messages the client sends: <<kind, does
                         \* it carry a recorded session>>

ASSUME BoundsAssumption == MaxAttempts \in Nat /\ MaxFaults \in Nat

\* An ssh2 Client, or, with a certificate, a system ssh process.
Kinds == {"ssh2", "cert"}

ASSUME OffersAssumption == Offers \subseteq Kinds \X BOOLEAN

Attempts == 1..MaxAttempts
Null == 0

VARIABLES
  wsOpen,          \* the WebSocket has not closed
  attempts,        \* how many connect messages were accepted
  conn,            \* let conn: the attempt whose connection is current
  stream,          \* let stream: the attempt whose channel is current
  sessionId,       \* let sessionId: the log row to be closed on cleanup
  vaultSessionId,  \* let vaultSessionId: the recorded session being fed
  certStdin,       \* ws._sshProcStdin and ws._sshProc, set together
  kind,            \* how each attempt connects
  recorded,        \* the attempts that carried a recorded session
  client,          \* each SSH client (or process): idle, live, errored, over
  channel,         \* its shell channel: none, opening, open, gone
  ended,           \* the attempts whose conn.end() was called
  pending,         \* the statements handed to the database pool, unanswered
  faults,          \* how many statements failed
  log,             \* the ssh_session_logs rows: their status and ended_at
  active,          \* the recorded sessions whose row in sessions is_active
  failedEnds,      \* the recorded sessions whose endSession statement failed
  outcomes,        \* how many closing statements each row was ever sent
  ends             \* how many endSession calls each recorded session got

relayVars == <<attempts, conn, stream, sessionId, vaultSessionId, certStdin>>
clientVars == <<kind, recorded, client, channel, ended>>
sentVars == <<pending, outcomes, ends>>
sessionVars == <<active, failedEnds>>
dbVars == <<faults, log, sessionVars>>
vars == <<wsOpen, relayVars, clientVars, sentVars, dbVars>>

(***************************************************************************)
(* Statements.  A second copy of one that is still unanswered changes      *)
(* nothing more, so they are a set; "outcomes" and "ends" count the copies.*)
(***************************************************************************)
Terminal == {"disconnected", "error"}
Ops == {"insert", "connected", "endSession"} \cup Terminal
Statement == [op : Ops, row : Attempts]
\* The statement on the row a variable names, none when the variable is null.
On(op, row) == IF row = Null THEN {} ELSE {[op |-> op, row |-> row]}
Count(f, row) == IF row = Null THEN f ELSE [f EXCEPT ![row] = @ + 1]

Row == [status : {"absent", "connecting", "connected"} \cup Terminal,
        endedAt : BOOLEAN]

Init ==
  /\ wsOpen = TRUE
  /\ attempts = 0
  /\ conn = Null /\ stream = Null /\ sessionId = Null
  /\ vaultSessionId = Null /\ certStdin = Null
  /\ kind = [n \in Attempts |-> "ssh2"]
  /\ recorded = {}
  /\ client = [n \in Attempts |-> "idle"]
  /\ channel = [n \in Attempts |-> "none"]
  /\ ended = {}
  /\ pending = {} /\ faults = 0
  /\ outcomes = [n \in Attempts |-> 0]
  /\ ends = [n \in Attempts |-> 0]
  /\ log = [n \in Attempts |-> [status |-> "absent", endedAt |-> FALSE]]
  /\ active = {} /\ failedEnds = {}

(***************************************************************************)
(* cleanup(): close the log row and the recorded session the variables     *)
(* name, end the current connection, forget all of them.  Whoever calls it *)
(* ends what is current, whether or not it is the caller's own.            *)
(***************************************************************************)
TellDb_EndsWithRow(outcome) ==
  LET session == IF sessionId = Null THEN Null ELSE vaultSessionId IN
  /\ pending' = pending \cup On(outcome, sessionId) \cup On("endSession", session)
  /\ outcomes' = Count(outcomes, sessionId)
  /\ ends' = Count(ends, session)
TellDb(outcome) ==
  /\ pending' = pending \cup On(outcome, sessionId)
                        \cup On("endSession", vaultSessionId)
  /\ outcomes' = Count(outcomes, sessionId)
  /\ ends' = Count(ends, vaultSessionId)

EndConnection_Unended == conn' = Null /\ stream' = Null /\ UNCHANGED ended
EndConnection_EndsNull == conn' = Null /\ stream' = Null /\ ended' = ended \cup {conn}
EndConnection ==
  /\ ended' = ended \cup ({conn} \ {Null})
  /\ conn' = Null /\ stream' = Null

Forget_KeepsRow == vaultSessionId' = Null /\ UNCHANGED sessionId
Forget_KeepsSession == sessionId' = Null /\ UNCHANGED vaultSessionId
Forget == sessionId' = Null /\ vaultSessionId' = Null

Cleanup(outcome) == TellDb(outcome) /\ EndConnection /\ Forget

(***************************************************************************)
(* Messages of the user and the end of the socket.                         *)
(***************************************************************************)
\* The message names a recorded session, which POST /api/sessions has created
\* and left active for it.
Carry(withSession, n) ==
  /\ recorded' = IF withSession THEN recorded \cup {n} ELSE recorded
  /\ active' = IF withSession THEN active \cup {n} ELSE active
  /\ UNCHANGED failedEnds

\* 'connect': refused while conn is set.  The INSERT is sent and not awaited.
\* A certificate starts a process that counts as connected at once.
Connect(k, withSession) ==
  LET n == attempts + 1 IN
  /\ wsOpen /\ conn = Null /\ n \in Attempts
  /\ attempts' = n
  /\ conn' = n
  /\ kind' = [kind EXCEPT ![n] = k]
  /\ client' = [client EXCEPT ![n] = "live"]
  /\ Carry(withSession, n)
  /\ vaultSessionId' = IF withSession THEN n ELSE vaultSessionId
  /\ \/ /\ k = "ssh2"
        /\ pending' = pending \cup On("insert", n)
        /\ UNCHANGED <<stream, certStdin>>
     \/ /\ k = "cert"
        /\ stream' = n /\ certStdin' = n
        /\ pending' = pending \cup On("insert", n) \cup On("connected", sessionId)
  /\ UNCHANGED <<wsOpen, sessionId, channel, ended, outcomes, ends, faults, log>>

\* 'connect' whose client.connect() throws: the attempt is cleaned up within
\* the same handler.
ConnectThrows(withSession) ==
  LET n == attempts + 1 IN
  /\ wsOpen /\ conn = Null /\ n \in Attempts
  /\ attempts' = n
  /\ client' = [client EXCEPT ![n] = "over"]
  /\ Carry(withSession, n)
  /\ LET session == IF withSession THEN n ELSE vaultSessionId IN
     /\ pending' = pending \cup On("insert", n) \cup On("disconnected", sessionId)
                           \cup On("endSession", session)
     /\ ends' = Count(ends, session)
  /\ outcomes' = Count(outcomes, sessionId)
  /\ ended' = ended \cup {n}
  /\ stream' = Null /\ sessionId' = Null /\ vaultSessionId' = Null
  /\ UNCHANGED <<wsOpen, conn, certStdin, kind, channel, faults, log>>

\* 'disconnect', and the 'error' event of the socket.
Disconnect ==
  /\ wsOpen
  /\ Cleanup("disconnected")
  /\ UNCHANGED <<wsOpen, attempts, certStdin, kind, recorded, client, channel,
                 dbVars>>

SocketClose_NoCleanup ==
  /\ wsOpen /\ wsOpen' = FALSE
  /\ UNCHANGED <<relayVars, clientVars, sentVars, dbVars>>
SocketClose ==
  /\ wsOpen
  /\ wsOpen' = FALSE
  /\ Cleanup("disconnected")
  /\ UNCHANGED <<attempts, certStdin, kind, recorded, client, channel, dbVars>>

(***************************************************************************)
(* Callbacks of attempt n's SSH client, or of its ssh process.  They keep  *)
(* arriving after conn.end(): a pending shell request fails when its       *)
(* socket closes, an open channel closes, and 'end' or 'error' is emitted. *)
(***************************************************************************)
\* 'ready': ask for a shell.  (A client that was ended can no longer write.)
Ready(n) ==
  /\ kind[n] = "ssh2" /\ client[n] = "live" /\ channel[n] = "none"
  /\ n \notin ended
  /\ channel' = [channel EXCEPT ![n] = "opening"]
  /\ UNCHANGED <<wsOpen, relayVars, kind, recorded, client, ended, sentVars, dbVars>>

ShellOpens(n) ==
  /\ channel[n] = "opening" /\ client[n] = "live"
  /\ channel' = [channel EXCEPT ![n] = "open"]
  /\ stream' = n
  /\ pending' = pending \cup On("connected", sessionId)
  /\ UNCHANGED <<wsOpen, attempts, conn, sessionId, vaultSessionId, certStdin,
                 kind, recorded, client, ended, outcomes, ends, dbVars>>

\* The shell callback with an error, and the 'close' of an open channel.
ShellEnds(n) ==
  /\ channel[n] \in {"opening", "open"}
  /\ channel' = [channel EXCEPT ![n] = "gone"]
  /\ Cleanup("disconnected")
  /\ UNCHANGED <<wsOpen, attempts, certStdin, kind, recorded, client, dbVars>>

\* 'error' of an ssh2 client: the row the variables name gets the error and
\* is forgotten before cleanup.
ClientError(n) ==
  /\ kind[n] = "ssh2" /\ client[n] = "live"
  /\ client' = [client EXCEPT ![n] = "errored"]
  /\ Cleanup("error")
  /\ UNCHANGED <<wsOpen, attempts, certStdin, kind, recorded, channel, dbVars>>

\* 'error' of an ssh process: no row is told.
ProcessError(n) ==
  /\ kind[n] = "cert" /\ client[n] = "live"
  /\ client' = [client EXCEPT ![n] = "errored"]
  /\ Cleanup("disconnected")
  /\ UNCHANGED <<wsOpen, attempts, certStdin, kind, recorded, channel, dbVars>>

\* 'end' of an ssh2 client, 'close' of an ssh process.
ClientEnd(n) ==
  /\ client[n] \in {"live", "errored"}
  /\ client' = [client EXCEPT ![n] = "over"]
  /\ Cleanup("disconnected")
  /\ UNCHANGED <<wsOpen, attempts, certStdin, kind, recorded, channel, dbVars>>

(***************************************************************************)
(* The database pool runs the statements in flight in any order.           *)
(***************************************************************************)
\* The continuation of the INSERT: only now is the row's id known.
InsertReturns(s) ==
  /\ s.op = "insert"
  /\ pending' = pending \ {s}
  /\ log' = [log EXCEPT ![s.row].status = "connecting"]
  /\ sessionId' = s.row
  /\ UNCHANGED <<wsOpen, attempts, conn, stream, vaultSessionId, certStdin,
                 clientVars, outcomes, ends, faults, sessionVars>>

UpdateRuns(s) ==
  /\ s.op # "insert"
  /\ pending' = pending \ {s}
  /\ log' = CASE s.op = "connected"  -> [log EXCEPT ![s.row].status = "connected"]
              [] s.op \in Terminal   -> [log EXCEPT ![s.row] =
                                           [status |-> s.op, endedAt |-> TRUE]]
              [] s.op = "endSession" -> log
  /\ active' = IF s.op = "endSession" THEN active \ {s.row} ELSE active
  /\ UNCHANGED <<wsOpen, relayVars, clientVars, outcomes, ends, faults, failedEnds>>

\* .catch(() => {}): nobody is told.
StatementFails(s) ==
  /\ faults < MaxFaults
  /\ faults' = faults + 1
  /\ pending' = pending \ {s}
  /\ failedEnds' = IF s.op = "endSession" THEN failedEnds \cup {s.row} ELSE failedEnds
  /\ UNCHANGED <<wsOpen, relayVars, clientVars, outcomes, ends, log, active>>

UserStep == \/ \E o \in Offers : Connect(o[1], o[2])
            \/ \E o \in Offers : o[1] = "ssh2" /\ ConnectThrows(o[2])
            \/ Disconnect
            \/ SocketClose

CallbackStep == \E n \in Attempts : \/ Ready(n) \/ ShellOpens(n) \/ ShellEnds(n)
                                    \/ ClientError(n) \/ ProcessError(n)
                                    \/ ClientEnd(n)

DbStep == \E s \in pending : InsertReturns(s) \/ UpdateRuns(s) \/ StatementFails(s)

Next == UserStep \/ CallbackStep \/ DbStep

Spec == Init /\ [][Next]_vars
(***************************************************************************)
(* Fairness: the database answers.  Users and SSH servers owe nothing.     *)
(***************************************************************************)
FairSpec == Spec /\ WF_vars(DbStep)

-----------------------------------------------------------------------------
\* Every variable stays within its domain (the closure variables of
\* handleSshConnection, the rows and the statements).
TypeOK ==
  /\ wsOpen \in BOOLEAN
  /\ attempts \in 0..MaxAttempts
  /\ conn \in 0..attempts /\ sessionId \in 0..attempts
  /\ vaultSessionId \in 0..attempts
  /\ stream \in Attempts \cup {Null} /\ certStdin \in Attempts \cup {Null}
  /\ kind \in [Attempts -> Kinds]
  /\ recorded \subseteq 1..attempts
  /\ client \in [Attempts -> {"idle", "live", "errored", "over"}]
  /\ channel \in [Attempts -> {"none", "opening", "open", "gone"}]
  /\ ended \subseteq 1..attempts
  /\ pending \subseteq Statement /\ \A s \in pending : s.row <= attempts
  /\ outcomes \in [Attempts -> Nat]
  /\ ends \in [Attempts -> Nat]
  /\ faults \in 0..MaxFaults
  /\ log \in [Attempts -> Row]
  /\ active \subseteq recorded /\ failedEnds \subseteq recorded

(***************************************************************************)
(* The parts of the inductive invariant behind the safety properties.      *)
(***************************************************************************)
\* What is fed or connected is only replaced after it was let go.
SessionNeedsConnection == vaultSessionId # Null => conn # Null
\* A row is known at most once: when its INSERT returned, until its outcome.
RowKnownOnce ==
  \A n \in Attempts :
    /\ On("insert", n) \subseteq pending => outcomes[n] = 0 /\ sessionId # n
    /\ outcomes[n] = 0 \/ (outcomes[n] = 1 /\ sessionId # n)
    /\ n > attempts => outcomes[n] = 0
\* Recorded sessions are ended once, the others never.
SessionEndedOnce ==
  \A n \in Attempts :
    ends[n] = IF n \in recorded /\ n # vaultSessionId THEN 1 ELSE 0
FedIsRecorded == vaultSessionId \in recorded \cup {Null}
\* What the database is told to end is over for the relay.
EndOnItsWay(n) == On("endSession", n) \subseteq pending
OnlyEndedAreTold == \A n \in Attempts : EndOnItsWay(n) => ends[n] = 1

\* No SSH connection is left behind: every attempt but the current one had its
\* conn.end(), whatever late callback overwrote the variables, and a closed
\* socket holds none at all.
NoConnectionLeaks == /\ \A n \in 1..attempts : n \in ended \/ n = conn
                     /\ ~wsOpen => conn = Null

\* A log row is given one outcome at most: whichever of an error, a hang-up and
\* the user closes it first, no later callback closes it again.
OneOutcomePerRow == \A n \in Attempts : outcomes[n] <= 1

\* A recorded session is ended once, and only when another one, or none, is fed:
\* reconnecting on the same socket never abandons the session before.
RecordedSessionsEnded ==
  \A n \in recorded : ends[n] = IF n = vaultSessionId THEN 0 ELSE 1

\* The sessions table follows the relay: the session being fed is active, and
\* one that is active although it is no longer fed has its ending on its way
\* to the database, or lost there.
ActiveSessionsAreFed ==
  \A n \in recorded :
    /\ n = vaultSessionId => n \in active
    /\ n \in active => n = vaultSessionId \/ EndOnItsWay(n) \/ n \in failedEnds

\* All of it: what each step preserves.
IInv == /\ TypeOK
        /\ SessionNeedsConnection /\ FedIsRecorded
        /\ NoConnectionLeaks
        /\ RowKnownOnce
        /\ SessionEndedOnce
        /\ OnlyEndedAreTold
        /\ ActiveSessionsAreFed

\* When the database answers, closing the socket makes the row of every recorded
\* session inactive in the end, unless its one endSession statement failed:
\* nobody repeats it (ssh.ts:74).
SessionsEndInDb ==
  \A n \in Attempts :
    ~wsOpen /\ n \in recorded ~> n \notin active \/ n \in failedEnds

\* The relay holds its connections as the abstract lease allows.
Lease == INSTANCE ConnectionLease WITH used <- attempts, open <- wsOpen,
                                       held <- (1..attempts) \ ended
HoldsAsLeased == Lease!LeaseSpec

\* "store id for update on disconnect" (server/ssh.ts:114): once the socket is
\* closed and the database has answered everything, each row has its ended_at.
LogRowsClosed ==
  ~wsOpen /\ pending = {} =>
    \A n \in 1..attempts : log[n].status = "absent" \/ log[n].endedAt

\* "Cert auth: write to ssh process stdin instead of ssh2 stream"
\* (server/ssh.ts:295): only a connection that is a process is fed by stdin.
StdinIsForCert == certStdin # Null /\ conn # Null => kind[conn] = "cert"
=============================================================================
