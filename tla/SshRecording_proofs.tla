-------------------------- MODULE SshRecording_proofs --------------------------
(***************************************************************************)
(* Proofs about SshRecording, for any number of attempts and commands.     *)
(* The recording adds to the relay and takes nothing from it, so that      *)
(* every behaviour of RecSpec is one of the relay and the invariant of     *)
(* SshRelay_proofs holds of it.  On top of that, RecInv says what makes a  *)
(* late flush harmless: whichever command is next to be given the buffer,  *)
(* known by now or still on its way, was typed before all that is in it;   *)
(* and the one known by now is of the session being fed, or answered late. *)
(***************************************************************************)
EXTENDS SshRecording, SshRelay_proofs

CommandSet == [session : Attempts \cup {Null}, row : Attempts \cup {Null}]

\* A command not yet typed is stored under nothing.
UntypedUnstored ==
  \A c \in Commands : c > typed => command[c] = [session |-> Null, row |-> Null]

\* The buffer is not older than any command that may be given it.
BufferIsRecent == \A chunk \in outputBuffer : \A c \in inserting \cup {lastCommandId} : chunk.after >= c

\* What is in the buffer arrived while the present session was fed.
BufferIsOfSession == \A chunk \in outputBuffer : chunk.session = vaultSessionId

\* A command is recorded under a session, and the one that is to be given the
\* buffer under the present one, unless it answered late.
RecordedUnderSession ==
  /\ \A c \in inserting : command[c].session # Null
  /\ lastCommandId # Null =>
       \/ lastCommandId \in late
       \/ vaultSessionId # Null /\ command[lastCommandId].session = vaultSessionId

RecInv == /\ RecTypeOK /\ UntypedUnstored /\ BufferIsRecent
          /\ BufferIsOfSession /\ RecordedUnderSession
          /\ OutputFollowsItsCommand /\ OutputStaysInItsSession
          /\ BufferEmptyBetweenSessions

-----------------------------------------------------------------------------
\* Every step is a step of the relay, or does not concern it.
LEMMA RelayStepsOnly == [RecNext]_allVars => [Next]_vars
  BY DEF RecNext, RelayStep, TypeCommand, CommandRecorded, CommandLost, Output, allVars

\* What is proved of the relay is true of the relay that records
\* (handleSshConnection, server/ssh.ts, with the recording and without).
THEOREM RecordingIsARelay == RecSpec => Spec
<1>1. RecInit => Init
  BY DEF RecInit
<1>2. QED
  BY <1>1, RelayStepsOnly, PTL DEF RecSpec, Spec

LEMMA RelayInvHolds == RecSpec => []IInv
  BY RecordingIsARelay, Inductive, PTL

\* A recorded session is let go only by ending it.
LEMMA LetGoIsEnded ==
  ASSUME IInv, [Next]_vars, vaultSessionId # Null, vaultSessionId' = Null
  PROVE  ends' # ends
<1>1. /\ vaultSessionId \in Attempts /\ vaultSessionId \in Attempts \cup {Null}
      /\ ends \in [Attempts -> Nat] /\ conn # Null
  BY BoundsAssumption DEF IInv, TypeOK, Attempts, Null, SessionNeedsConnection
<1>2. Count(ends, vaultSessionId) # ends
  <2>1. Count(ends, vaultSessionId)[vaultSessionId] = ends[vaultSessionId] + 1
    BY <1>1, CountAt
  <2>2. ends[vaultSessionId] \in Nat
    BY <1>1
  <2>3. QED
    BY <2>1, <2>2
<1>3. ends' = Count(ends, vaultSessionId)
  <2>1. CASE UserStep
    BY <1>1, <2>1 DEF UserStep, Connect, ConnectThrows, Disconnect, SocketClose, Cleanup, TellDb
  <2>2. CASE CallbackStep
    BY <2>2 DEF CallbackStep, Ready, ShellOpens, ShellEnds, ClientError, ProcessError, ClientEnd,
                Cleanup, TellDb, relayVars
  <2>3. CASE DbStep
    BY <2>3 DEF DbStep, InsertReturns, UpdateRuns, StatementFails, relayVars
  <2>4. CASE UNCHANGED vars
    BY <2>4 DEF vars, relayVars
  <2>5. QED
    BY <2>1, <2>2, <2>3, <2>4 DEF Next
<1>4. QED
  BY <1>2, <1>3

\* The session being fed is replaced only when there is none.
LEMMA SessionChanges ==
  ASSUME IInv, [Next]_vars, vaultSessionId' # vaultSessionId
  PROVE  vaultSessionId = Null \/ vaultSessionId' = Null
<1>1. conn = Null => vaultSessionId = Null
  BY DEF IInv, SessionNeedsConnection
<1>2. CASE UserStep
  BY <1>1, <1>2 DEF UserStep, Connect, ConnectThrows, Disconnect, SocketClose, Cleanup, Forget
<1>3. CASE CallbackStep
  BY <1>3 DEF CallbackStep, Ready, ShellOpens, ShellEnds, ClientError, ProcessError, ClientEnd,
              Cleanup, Forget, relayVars
<1>4. CASE DbStep
  BY <1>4 DEF DbStep, InsertReturns, UpdateRuns, StatementFails, relayVars
<1>5. CASE UNCHANGED vars
  BY <1>5 DEF vars, relayVars
<1>6. QED
  BY <1>2, <1>3, <1>4, <1>5 DEF Next

-----------------------------------------------------------------------------
LEMMA RecInitEstablishes == RecInit => RecInv
<1> SUFFICES ASSUME RecInit PROVE RecInv
  OBVIOUS
<1>1. RecTypeOK
  BY CommandsAssumption DEF RecInit, RecTypeOK, Null
<1>2. UntypedUnstored
  BY DEF RecInit, UntypedUnstored
<1>3. /\ BufferIsRecent /\ BufferEmptyBetweenSessions
      /\ OutputFollowsItsCommand /\ OutputStaysInItsSession
  BY DEF RecInit, BufferIsRecent, OutputFollowsItsCommand, OutputStaysInItsSession,
         BufferEmptyBetweenSessions
<1>4. BufferIsOfSession /\ RecordedUnderSession
  BY DEF RecInit, BufferIsOfSession, RecordedUnderSession
<1>5. QED
  BY <1>1, <1>2, <1>3, <1>4 DEF RecInv

\* What a command may have been given.
Fits(c, chunk) == /\ chunk.after >= c
                  /\ chunk.session = command[c].session \/ c \in late

\* flushCommandOutput() gives the buffer to the last command known, which is
\* not younger than what it is given, and of its session unless it was late.
LEMMA FlushKeeps ==
  ASSUME RecInv, FlushCommandOutput
  PROVE  /\ outputBuffer' = {}
         /\ output' \in [Commands -> SUBSET Chunks]
         /\ \A c \in Commands : \A chunk \in output'[c] : Fits(c, chunk)
<1>1. /\ output \in [Commands -> SUBSET Chunks] /\ outputBuffer \in SUBSET Chunks
      /\ lastCommandId \in 0..typed /\ typed \in 0..MaxCommands
  BY DEF RecInv, RecTypeOK
<1>2. \A c \in Commands : \A chunk \in output[c] : Fits(c, chunk)
  BY DEF RecInv, OutputFollowsItsCommand, OutputStaysInItsSession, Fits
<1>3. outputBuffer' = {}
  BY DEF FlushCommandOutput
<1>4. CASE lastCommandId = Null \/ outputBuffer = {}
  BY <1>1, <1>2, <1>3, <1>4 DEF FlushCommandOutput
<1>5. CASE ~(lastCommandId = Null \/ outputBuffer = {})
  <2>1. output' = [output EXCEPT ![lastCommandId] = outputBuffer]
    BY <1>5 DEF FlushCommandOutput
  <2>2. lastCommandId \in Commands
    BY <1>1, <1>5, CommandsAssumption DEF Commands, Null
  <2>3. \A chunk \in outputBuffer : Fits(lastCommandId, chunk)
    BY <1>5 DEF RecInv, BufferIsRecent, BufferIsOfSession, RecordedUnderSession, Fits
  <2>4. output' \in [Commands -> SUBSET Chunks]
    BY <1>1, <2>1, <2>2
  <2>5. ASSUME NEW c \in Commands, NEW chunk \in output'[c]
        PROVE  Fits(c, chunk)
    BY <1>1, <1>2, <2>1, <2>2, <2>3, <2>5
  <2>6. QED
    BY <1>3, <2>4, <2>5
<1>6. QED
  BY <1>4, <1>5

LEMMA RelayStepKeeps ==
  ASSUME IInv, RecInv, RelayStep
  PROVE  RecInv'
<1>1. CASE ends' # ends
  <2>1. /\ FlushCommandOutput /\ lastCommandId' = Null
        /\ UNCHANGED <<typed, command, inserting, late>>
    BY <1>1 DEF RelayStep, ForgetCommand
  <2>2. RecTypeOK'
    BY <2>1, FlushKeeps, CommandsAssumption DEF RecInv, RecTypeOK, Null, Chunks
  <2>3. UntypedUnstored' /\ RecordedUnderSession'
    BY <2>1 DEF RecInv, UntypedUnstored, RecordedUnderSession
  <2>4. OutputFollowsItsCommand' /\ OutputStaysInItsSession'
    BY <2>1, FlushKeeps DEF OutputFollowsItsCommand, OutputStaysInItsSession, Fits
  <2>5. BufferIsRecent' /\ BufferIsOfSession' /\ BufferEmptyBetweenSessions'
    BY <2>1, FlushKeeps DEF BufferIsRecent, BufferIsOfSession, BufferEmptyBetweenSessions
  <2>6. QED
    BY <2>2, <2>3, <2>4, <2>5 DEF RecInv
<1>2. CASE ends' = ends
  <2>1. UNCHANGED <<typed, command, inserting, lastCommandId, outputBuffer, output, late>>
    BY <1>2 DEF RelayStep, recVars
  <2>2. vaultSessionId' # vaultSessionId => vaultSessionId = Null
    BY <1>2, LetGoIsEnded, SessionChanges DEF RelayStep
  <2>3. BufferEmptyBetweenSessions' /\ BufferIsOfSession'
    BY <2>1, <2>2 DEF RecInv, BufferEmptyBetweenSessions, BufferIsOfSession
  <2>4. RecordedUnderSession'
    BY <2>1, <2>2 DEF RecInv, RecordedUnderSession
  <2>5. QED
    BY <2>1, <2>3, <2>4
    DEF RecInv, RecTypeOK, Chunks, UntypedUnstored, BufferIsRecent, OutputFollowsItsCommand,
        OutputStaysInItsSession
<1>3. QED
  BY <1>1, <1>2

LEMMA TypeCommandKeeps ==
  ASSUME IInv, RecInv, TypeCommand
  PROVE  RecInv'
<1> DEFINE c == typed + 1
<1>1. /\ typed \in Nat /\ c \in Commands /\ typed' = c
      /\ inserting \subseteq 1..typed /\ lastCommandId \in 0..typed
      /\ outputBuffer \subseteq Chunks /\ late \subseteq 1..typed
      /\ output \in [Commands -> SUBSET Chunks]
      /\ command \in [Commands -> CommandSet]
      /\ lastCommandId' = lastCommandId /\ vaultSessionId' = vaultSessionId
      /\ late' = late
  BY DEF TypeCommand, RecInv, RecTypeOK, CommandSet, vars, relayVars
<1>2. typed' \in 0..MaxCommands
  BY <1>1, CommandsAssumption DEF Commands
<1>3. command' = [command EXCEPT ![c] = [session |-> vaultSessionId, row |-> sessionId]]
  BY DEF TypeCommand
<1>4. command' \in [Commands -> CommandSet]
  <2>1. [session |-> vaultSessionId, row |-> sessionId] \in CommandSet
    BY BoundsAssumption DEF IInv, TypeOK, CommandSet, Attempts, Null
  <2>2. QED
    BY <1>1, <1>3, <2>1
<1>5. UntypedUnstored'
  <2>1. \A d \in Commands : d > typed' => d # c /\ d > typed
    BY <1>1 DEF Commands
  <2>2. QED
    BY <1>1, <1>3, <2>1 DEF RecInv, UntypedUnstored
<1>6. 1..typed \subseteq 1..c /\ Chunks \subseteq Chunks'
  BY <1>1 DEF Chunks
\* A chunk already given fits still: its command is stored as it was.
<1>7. ASSUME NEW d \in Commands, NEW chunk \in Chunks, Fits(d, chunk)
      PROVE  Fits(d, chunk)'
  <2>1. chunk.after <= typed /\ typed \in Nat /\ d \in Nat /\ chunk.after \in Nat
    BY <1>1, <1>7, CommandsAssumption DEF Chunks, Commands
  <2>2. d # c
    BY <1>7, <2>1 DEF Fits
  <2>3. command'[d] = command[d]
    BY <1>1, <1>3, <2>2
  <2>4. QED
    BY <1>1, <1>7, <2>3 DEF Fits
<1>8. /\ \A d \in inserting : command'[d] = command[d]
      /\ lastCommandId # Null => command'[lastCommandId] = command[lastCommandId]
  <2>1. \A d \in 1..typed : d # c /\ d \in Commands
    BY <1>1, CommandsAssumption DEF Commands
  <2>2. \A d \in 1..typed : command'[d] = command[d]
    BY <1>1, <1>3, <2>1
  <2>3. QED
    BY <1>1, <2>2 DEF Null
<1>9. CASE vaultSessionId # Null
  <2>1. FlushCommandOutput /\ inserting' = inserting \cup {c}
    BY <1>9 DEF TypeCommand
  <2>2. inserting' \subseteq 1..c /\ late' \subseteq 1..c
    BY <1>1, <1>6, <2>1
  <2>3. output' \in [Commands -> SUBSET Chunks'] /\ outputBuffer' = {}
    BY <1>6, <2>1, FlushKeeps
  <2>4. RecTypeOK'
    BY <1>1, <1>2, <1>4, <1>6, <2>2, <2>3 DEF RecTypeOK, CommandSet
  <2>5. OutputFollowsItsCommand' /\ OutputStaysInItsSession'
    <3>1. \A d \in Commands : \A chunk \in output'[d] : chunk \in Chunks /\ Fits(d, chunk)
      BY <2>1, FlushKeeps
    <3>2. QED
      BY <1>7, <3>1 DEF OutputFollowsItsCommand, OutputStaysInItsSession, Fits
  <2>6. BufferIsRecent' /\ BufferIsOfSession' /\ BufferEmptyBetweenSessions'
    BY <2>3 DEF BufferIsRecent, BufferIsOfSession, BufferEmptyBetweenSessions
  <2>7. RecordedUnderSession'
    <3>1. command'[c].session # Null
      BY <1>1, <1>3, <1>9
    <3>2. QED
      BY <1>1, <1>8, <2>1, <3>1 DEF RecInv, RecordedUnderSession
  <2>8. QED
    BY <1>5, <2>4, <2>5, <2>6, <2>7 DEF RecInv
<1>10. CASE vaultSessionId = Null
  <2>1. UNCHANGED <<outputBuffer, output, inserting>>
    BY <1>10 DEF TypeCommand
  <2>2. RecTypeOK'
    BY <1>1, <1>2, <1>4, <1>6, <2>1 DEF RecTypeOK, CommandSet
  <2>3. OutputFollowsItsCommand' /\ OutputStaysInItsSession'
    <3>1. \A d \in Commands : \A chunk \in output[d] : chunk \in Chunks /\ Fits(d, chunk)
      BY <1>1 DEF RecInv, OutputFollowsItsCommand, OutputStaysInItsSession, Fits
    <3>2. QED
      BY <1>7, <2>1, <3>1 DEF OutputFollowsItsCommand, OutputStaysInItsSession, Fits
  <2>4. BufferIsRecent' /\ BufferIsOfSession' /\ BufferEmptyBetweenSessions'
    BY <1>1, <2>1
    DEF RecInv, BufferIsRecent, BufferIsOfSession, BufferEmptyBetweenSessions
  <2>5. RecordedUnderSession'
    BY <1>1, <1>8, <2>1 DEF RecInv, RecordedUnderSession
  <2>6. QED
    BY <1>5, <2>2, <2>3, <2>4, <2>5 DEF RecInv
<1>11. QED
  BY <1>9, <1>10

\* The answer of recordCommand(), however late, names a command typed before
\* all that is in the buffer.
LEMMA CommandAnswersKeeps ==
  ASSUME RecInv, NEW c \in inserting, CommandRecorded(c) \/ CommandLost(c)
  PROVE  RecInv'
<1>1. /\ inserting' = inserting \ {c} /\ lastCommandId' \in {c, lastCommandId}
      /\ late \subseteq late' /\ late' \subseteq late \cup {c}
      /\ UNCHANGED <<typed, command, outputBuffer, output, vaultSessionId>>
  BY DEF CommandRecorded, CommandLost, vars, relayVars
<1>2. RecTypeOK'
  <2>1. lastCommandId' \in 0..typed
    BY <1>1 DEF RecInv, RecTypeOK
  <2>2. QED
    BY <1>1, <2>1 DEF RecInv, RecTypeOK, Chunks
<1>3. BufferIsRecent'
  <2>1. inserting' \cup {lastCommandId'} \subseteq inserting \cup {lastCommandId}
    BY <1>1
  <2>2. QED
    BY <1>1, <2>1 DEF RecInv, BufferIsRecent
<1>4. RecordedUnderSession'
  <2>1. CASE CommandRecorded(c)
    <3>1. c \in late' \/ command[c].session = vaultSessionId
      BY <2>1 DEF CommandRecorded
    <3>2. QED
      BY <1>1, <2>1, <3>1 DEF RecInv, RecordedUnderSession, CommandRecorded
  <2>2. CASE CommandLost(c)
    BY <1>1, <2>2 DEF RecInv, RecordedUnderSession, CommandLost
  <2>3. QED
    BY <2>1, <2>2
<1>5. OutputFollowsItsCommand' /\ OutputStaysInItsSession'
  BY <1>1 DEF RecInv, OutputFollowsItsCommand, OutputStaysInItsSession
<1>6. QED
  BY <1>1, <1>2, <1>3, <1>4, <1>5
  DEF RecInv, UntypedUnstored, BufferIsOfSession, BufferEmptyBetweenSessions

LEMMA OutputKeeps ==
  ASSUME IInv, RecInv, NEW n \in Attempts, Output(n)
  PROVE  RecInv'
<1> DEFINE chunk == [after |-> typed, session |-> vaultSessionId]
<1>1. /\ outputBuffer' = outputBuffer \cup {chunk} /\ vaultSessionId # Null
      /\ UNCHANGED <<typed, command, inserting, lastCommandId, output, late, vaultSessionId>>
  BY DEF Output, Append, vars, relayVars
<1>2. /\ typed \in Nat /\ inserting \subseteq 1..typed /\ lastCommandId \in 0..typed
      /\ outputBuffer \subseteq Chunks
  BY DEF RecInv, RecTypeOK
<1>3. chunk \in Chunks
  BY <1>1, <1>2, BoundsAssumption DEF Chunks, IInv, TypeOK, Attempts, Null
<1>4. RecTypeOK'
  BY <1>1, <1>2, <1>3 DEF RecInv, RecTypeOK, Chunks
<1>5. BufferIsRecent' /\ BufferIsOfSession'
  <2>1. \A c \in inserting \cup {lastCommandId} : typed >= c
    BY <1>2
  <2>2. QED
    BY <1>1, <2>1 DEF RecInv, BufferIsRecent, BufferIsOfSession
<1>6. QED
  BY <1>1, <1>4, <1>5
  DEF RecInv, UntypedUnstored, OutputFollowsItsCommand, OutputStaysInItsSession,
      RecordedUnderSession, BufferEmptyBetweenSessions

LEMMA RecNextKeeps ==
  ASSUME IInv, RecInv, [RecNext]_allVars
  PROVE  RecInv'
<1>1. CASE UNCHANGED allVars
  BY <1>1 DEF allVars, recVars, vars, relayVars, RecInv, RecTypeOK, UntypedUnstored,
              BufferIsRecent, BufferIsOfSession, RecordedUnderSession, Chunks,
              OutputFollowsItsCommand, OutputStaysInItsSession, BufferEmptyBetweenSessions
<1>2. QED
  BY <1>1, RelayStepKeeps, TypeCommandKeeps, CommandAnswersKeeps, OutputKeeps DEF RecNext

LEMMA RecInvHolds == RecSpec => []RecInv
<1>1. RecInit => RecInv
  BY RecInitEstablishes
<1>2. IInv /\ RecInv /\ [RecNext]_allVars => RecInv'
  BY RecNextKeeps
<1>3. QED
  BY <1>1, <1>2, RelayInvHolds, PTL DEF RecSpec

-----------------------------------------------------------------------------
\* What the relay records keeps to its domains (server/ssh.ts).
THEOREM RecordingTypeCorrect == RecSpec => []RecTypeOK
<1>1. RecInv => RecTypeOK
  BY DEF RecInv
<1>2. QED
  BY <1>1, RecInvHolds, PTL

\* However late and out of order recordCommand() answers, no output is credited
\* to a command typed after it arrived (flushCommandOutput, server/ssh.ts).
THEOREM OutputIsNotCreditedAhead == RecSpec => []OutputFollowsItsCommand
<1>1. RecInv => OutputFollowsItsCommand
  BY DEF RecInv
<1>2. QED
  BY <1>1, RecInvHolds, PTL

\* Output of one recorded session is credited to a command of another one only
\* when that command's recordCommand() answered after its session was let go
\* (cleanup and the 'data' handler, server/ssh.ts).
THEOREM OutputIsOfItsSession == RecSpec => []OutputStaysInItsSession
<1>1. RecInv => OutputStaysInItsSession
  BY DEF RecInv
<1>2. QED
  BY <1>1, RecInvHolds, PTL

\* No output of one recorded session waits in the buffer for the next one on the
\* same socket (cleanup, server/ssh.ts).
THEOREM BufferIsNotHeldOver == RecSpec => []BufferEmptyBetweenSessions
<1>1. RecInv => BufferEmptyBetweenSessions
  BY DEF RecInv
<1>2. QED
  BY <1>1, RecInvHolds, PTL

LEMMA CommandStepLandsOpen ==
  ASSUME IInv, RecInv, [RecNext]_allVars, NEW c \in Commands,
         command'[c].row # command[c].row
  PROVE  outcomes[command'[c].row] = 0
<1>1. TypeCommand
  BY DEF RecNext, RelayStep, CommandRecorded, CommandLost, Output, allVars, recVars
<1>2. /\ typed \in Nat /\ typed + 1 \in Commands
      /\ command' = [command EXCEPT ![typed + 1] = [session |-> vaultSessionId, row |-> sessionId]]
      /\ command \in [Commands -> CommandSet]
  BY <1>1 DEF TypeCommand, RecInv, RecTypeOK, CommandSet
<1>3. c = typed + 1 /\ command'[c].row = sessionId
  BY <1>2
<1>4. command[c].row = Null
  BY <1>2, <1>3 DEF RecInv, UntypedUnstored
<1>5. sessionId # Null /\ sessionId \in Attempts
  BY <1>3, <1>4, BoundsAssumption DEF IInv, TypeOK, Attempts, Null
<1>6. outcomes[sessionId] = 0
  BY <1>5 DEF IInv, RowKnownOnce
<1>7. QED
  BY <1>3, <1>6

\* A command is logged against a row without an outcome, although the row a
\* reconnected socket names may be an earlier attempt's (server/ssh.ts, 'data').
THEOREM CommandsAreLoggedInOpenRows == RecSpec => CommandsLandInOpenRows
<1>1. IInv /\ RecInv /\ [RecNext]_allVars =>
        [\A c \in Commands :
           command'[c].row # command[c].row => outcomes[command'[c].row] = 0]_allVars
  BY CommandStepLandsOpen
<1>2. QED
  BY <1>1, RelayInvHolds, RecInvHolds, PTL DEF RecSpec, CommandsLandInOpenRows
=============================================================================
