----------------------------- MODULE SshRecording -----------------------------
(***************************************************************************)
(* What the relay of server/ssh.ts records of a session besides its log    *)
(* row: the commands the user types and the output that follows each.      *)
(* Composes SshRelay with the variables lastCommandId and outputBuffer:    *)
(* every step of the relay is a step here, and one that runs cleanup()     *)
(* while a recorded session is fed also flushes the output.                *)
(*                                                                         *)
(* Commands are numbered in the order they are typed.  A chunk of output   *)
(* is what the relay could know of its origin when it arrived: the last    *)
(* command typed and the session being fed.                                *)
(***************************************************************************)
EXTENDS SshRelay

CONSTANT MaxCommands      \* bound on the commands typed on the socket

ASSUME CommandsAssumption == MaxCommands \in Nat

Commands == 1..MaxCommands

VARIABLES
  typed,           \* how many commands were typed
  command,         \* what each was stored under: a recorded session, a log row
  inserting,       \* the commands whose recordCommand() has not answered
  lastCommandId,   \* let lastCommandId: the command to be given the output
  outputBuffer,    \* let outputBuffer: the chunks since the last flush
  output,          \* the chunks each command was given by updateCommand()
  late             \* the commands whose recordCommand() answered only when
                   \* their session was no longer the one being fed

recVars == <<typed, command, inserting, lastCommandId, outputBuffer, output, late>>
allVars == <<vars, recVars>>

RecInit ==
  /\ Init
  /\ typed = 0
  /\ command = [c \in Commands |-> [session |-> Null, row |-> Null]]
  /\ inserting = {}
  /\ lastCommandId = Null
  /\ outputBuffer = {}
  /\ output = [c \in Commands |-> {}]
  /\ late = {}

\* flushCommandOutput(): updateCommand() overwrites; with no command to give
\* it to, the output is dropped.
FlushCommandOutput_KeepsBuffer ==
  /\ UNCHANGED outputBuffer
  /\ output' = IF lastCommandId = Null THEN output
               ELSE [output EXCEPT ![lastCommandId] = outputBuffer]
FlushCommandOutput ==
  /\ outputBuffer' = {}
  /\ output' = IF lastCommandId = Null \/ outputBuffer = {} THEN output
               ELSE [output EXCEPT ![lastCommandId] = outputBuffer]

\* lastCommandId = null, with the session it belongs to.
ForgetCommand_Kept == UNCHANGED lastCommandId
ForgetCommand == lastCommandId' = Null

\* A step of the relay; ends changes exactly when cleanup() ended a session.
RelayStep ==
  /\ Next
  /\ \/ /\ ends' # ends
        /\ FlushCommandOutput
        /\ ForgetCommand
        /\ UNCHANGED <<typed, command, inserting, late>>
     \/ /\ ends' = ends
        /\ UNCHANGED recVars

\* 'data' that completes a command; of several lines in one message, each is a
\* step of its own.  Its row in ssh_command_logs is sent under
\* the log row known by now, its recording under the session being fed.
TypeCommand ==
  LET c == typed + 1 IN
  /\ wsOpen /\ c \in Commands
  /\ sessionId # Null \/ vaultSessionId # Null
  /\ typed' = c
  /\ command' = [command EXCEPT ![c] =
                   [session |-> vaultSessionId, row |-> sessionId]]
  /\ \/ /\ vaultSessionId # Null
        /\ FlushCommandOutput
        /\ inserting' = inserting \cup {c}
     \/ /\ vaultSessionId = Null
        /\ UNCHANGED <<outputBuffer, output, inserting>>
  /\ UNCHANGED <<vars, lastCommandId, late>>

\* recordCommand() answers, in any order and however late, also when its session
\* was let go and another one is being fed; or it rejects.
CommandRecorded(c) ==
  /\ inserting' = inserting \ {c}
  /\ lastCommandId' = c
  /\ late' = IF command[c].session = vaultSessionId THEN late ELSE late \cup {c}
  /\ UNCHANGED <<vars, typed, command, outputBuffer, output>>

CommandLost(c) ==
  /\ inserting' = inserting \ {c}
  /\ UNCHANGED <<vars, typed, command, lastCommandId, outputBuffer, output, late>>

\* 'data' of an ssh2 channel, even of an attempt that was cleaned up.
Append ==
  outputBuffer' = outputBuffer \cup {[after |-> typed, session |-> vaultSessionId]}

Output(n) ==
  /\ channel[n] = "open" /\ vaultSessionId # Null
  /\ Append
  /\ UNCHANGED <<vars, typed, command, inserting, lastCommandId, output, late>>

RecNext == \/ RelayStep
           \/ TypeCommand
           \/ \E c \in inserting : CommandRecorded(c) \/ CommandLost(c)
           \/ \E n \in Attempts : Output(n)

RecSpec == RecInit /\ [][RecNext]_allVars

-----------------------------------------------------------------------------
Chunks == [after : 0..typed, session : Attempts]
\* Every recording variable stays within its domain: the frame of the proofs.
RecTypeOK ==
  /\ typed \in 0..MaxCommands
  /\ command \in [Commands -> [session : Attempts \cup {Null},
                               row : Attempts \cup {Null}]]
  /\ inserting \subseteq 1..typed
  /\ lastCommandId \in 0..typed
  /\ outputBuffer \subseteq Chunks
  /\ output \in [Commands -> SUBSET Chunks]
  /\ late \subseteq 1..typed

\* Output is never credited to a command typed after it arrived, however late
\* and out of order the commands' INSERTs answer (ssh.ts:313-318, 57-63).
OutputFollowsItsCommand ==
  \A c \in Commands : \A chunk \in output[c] : chunk.after >= c

\* Output that arrives while one recorded session is fed is never credited to a
\* command of another one, unless that command's own recordCommand() answered
\* when its session was no longer fed (ssh.ts:315 then sets lastCommandId all the
\* same, and the next session's output goes to it).
OutputStaysInItsSession ==
  \A c \in Commands : \A chunk \in output[c] :
    chunk.session = command[c].session \/ c \in late

\* Output of one recorded session is never held over to the next one on the
\* same socket: between sessions the buffer is empty.
BufferEmptyBetweenSessions == vaultSessionId = Null => outputBuffer = {}

\* A command is never logged against a row that was already given its outcome,
\* although the row a reconnected socket names may be an earlier attempt's.
CommandsLandInOpenRows ==
  [][\A c \in Commands :
       command'[c].row # command[c].row => outcomes[command'[c].row] = 0]_allVars
=============================================================================
