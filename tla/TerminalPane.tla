----------------------------- MODULE TerminalPane -----------------------------
(***************************************************************************)
(* A terminal pane of the client (components/TerminalPane.tsx): one        *)
(* WebSocket per attempt to the relay of SshRelay, timers that try again,  *)
(* the user's buttons, waking up, and the end of the component.  A pane of *)
(* kind "native" asks Electron's SSH first (ElectronSSHAdapter.ts), one of *)
(* kind "vault" has the vault's credentials.  In Electron a host that is to*)
(* be reached by the relay has a pane of kind "relay": connectElectron()   *)
(* returns false for it, and connect() goes on before anything else runs.  *)
(*                                                                         *)
(* An attempt is known by a number that no live attempt has.               *)
(***************************************************************************)
EXTENDS Integers, FiniteSets

CONSTANTS MaxRetries, \* maxRetries
          MaxActs     \* how often the user or a wake-up acts

ASSUME PaneAssumption == {MaxRetries, MaxActs} \subseteq Nat

VARIABLES
  kind, mounted,
  status,             \* tab.status
  sockets,            \* the WebSockets that have not ended
  wsRef,              \* the one the pane names, or 0
  natives,            \* Electron's SSH sessions, asked for or open
  electronSessionRef, \* the one the pane names, or 0, or Stale
  retryCount,
  retryTimer,         \* the timer of retryTimeoutRef is pending
  strays,             \* pending timers that no reference names
  timeouts,           \* sockets whose 15 s timer is pending
  connectTimeoutRef,  \* the one whose timer is named, or 0
  acts

refs == <<wsRef, electronSessionRef>>
timers == <<retryCount, retryTimer, strays, timeouts, connectTimeoutRef>>
vars == <<kind, mounted, status, sockets, natives, refs, timers, acts>>

Ids == 1..(MaxActs + 1)
Stale == -1
Sockets == [id : Ids, net : {"connecting", "open", "closing"},
            session : {"none", "asked", "told", "on", "over"},
            connectionFailed : BOOLEAN, handled : BOOLEAN]
Natives == [id : Ids, open : BOOLEAN]

Live == {s.id : s \in sockets} \cup {n.id : n \in natives}
NewId == CHOOSE i \in Ids : i \notin Live

NewSocket(i) == [id |-> i, net |-> "connecting", session |-> "none",
                 connectionFailed |-> FALSE, handled |-> mounted]
To(s, t) == sockets' = (sockets \ {s}) \cup {t}

\* The pane calls connect() when it is mounted.
Init ==
  /\ kind \in {"relay", "native", "vault"} /\ mounted = TRUE
  /\ status = "connecting"
  /\ sockets = (IF kind = "native" THEN {} ELSE {[NewSocket(1) EXCEPT !.handled = TRUE]})
  /\ natives = (IF kind = "native" THEN {[id |-> 1, open |-> FALSE]} ELSE {})
  /\ wsRef = (IF kind = "native" THEN 0 ELSE 1) /\ electronSessionRef = 0
  /\ retryCount = 0 /\ retryTimer = FALSE /\ strays = 0
  /\ timeouts = {} /\ connectTimeoutRef = 0
  /\ acts = 0

(***************************************************************************)
(* Timers.                                                                 *)
(***************************************************************************)
ClearConnectTimeout ==
  /\ timeouts' = timeouts \ {connectTimeoutRef}
  /\ connectTimeoutRef' = 0

\* Mutant: the attempts are not counted.
Retries_Uncounted(n) ==
  /\ retryTimer' = (retryTimer \/ n > 0)
  /\ strays' = strays + n - (IF n > 0 /\ ~retryTimer THEN 1 ELSE 0)
  /\ UNCHANGED retryCount
\* retryTimeoutRef.current = setTimeout(connect); what it named runs on.
Retries(n) ==
  /\ retryCount' = retryCount + n
  /\ retryTimer' = (retryTimer \/ n > 0)
  /\ strays' = strays + n - (IF n > 0 /\ ~retryTimer THEN 1 ELSE 0)

\* Mutant: an optional call in place of the terminal that is taken to be there.
connect_Unmounted ==
  /\ status' = "connecting"
  /\ sockets' = sockets \cup {NewSocket(NewId)} /\ wsRef' = NewId
  /\ UNCHANGED <<natives, timeouts, connectTimeoutRef>>

\* connect().  Without its terminal it throws after it has set the status.
\* Electron's adapter says 'connecting' at once, which clears the 15 s timer.
connect ==
  /\ status' = "connecting"
  /\ IF ~mounted THEN UNCHANGED <<sockets, wsRef, natives, timeouts, connectTimeoutRef>>
     ELSE IF kind = "native"
     THEN /\ natives' = natives \cup {[id |-> NewId, open |-> FALSE]}
          /\ ClearConnectTimeout
          /\ UNCHANGED <<sockets, wsRef>>
     ELSE /\ sockets' = sockets \cup {NewSocket(NewId)} /\ wsRef' = NewId
          /\ UNCHANGED <<natives, timeouts, connectTimeoutRef>>

RetryFires ==
  /\ retryTimer /\ retryTimer' = FALSE
  /\ connect
  /\ UNCHANGED <<kind, mounted, electronSessionRef, retryCount, strays, acts>>

StrayFires ==
  /\ strays > 0 /\ strays' = strays - 1
  /\ connect
  /\ UNCHANGED <<kind, mounted, electronSessionRef, retryCount, retryTimer, acts>>

\* The 15 s after onopen are over.
TimesOut(s) ==
  /\ s.id \in timeouts /\ timeouts' = timeouts \ {s.id}
  /\ IF s.net = "open"
     THEN To(s, [s EXCEPT !.net = "closing", !.connectionFailed = TRUE]) /\ status' = "error"
     ELSE UNCHANGED <<sockets, status>>
  /\ UNCHANGED <<kind, mounted, natives, refs, retryCount, retryTimer, strays,
                 connectTimeoutRef, acts>>

(***************************************************************************)
(* The handlers of a WebSocket.                                            *)
(***************************************************************************)
\* Mutant: onopen starts no timer.
Opens_Untimed(s) ==
  /\ s.net = "connecting"
  /\ To(s, [s EXCEPT !.net = "open", !.session = IF s.handled THEN "asked" ELSE "none"])
  /\ retryCount' = IF s.handled THEN 0 ELSE retryCount
  /\ UNCHANGED <<kind, mounted, status, natives, refs, timeouts, connectTimeoutRef,
                 retryTimer, strays, acts>>

\* onopen sends the connect message and starts the 15 s.
Opens(s) ==
  /\ s.net = "connecting"
  /\ To(s, [s EXCEPT !.net = "open", !.session = IF s.handled THEN "asked" ELSE "none"])
  /\ retryCount' = IF s.handled THEN 0 ELSE retryCount
  /\ IF s.handled /\ kind # "vault"
     THEN timeouts' = timeouts \cup {s.id} /\ connectTimeoutRef' = s.id
     ELSE UNCHANGED <<timeouts, connectTimeoutRef>>
  /\ UNCHANGED <<kind, mounted, status, natives, refs, retryTimer, strays, acts>>

\* What the relay says of the session; any answer clears the timer.
Answers(s) ==
  CASE s.session = "asked" -> {"told"}
    [] s.session = "told" -> {"on", "over"}
    [] s.session = "on" -> {"over"}
    [] OTHER -> {}

Shown(session) ==
  CASE session = "told" -> {status}
    [] session = "on" -> {"connected"}
    [] session = "over" -> {"error", IF kind = "vault" THEN "idle" ELSE "disconnected"}

RelayAnswers(s, session) ==
  /\ s.net = "open" /\ session \in Answers(s)
  /\ To(s, [s EXCEPT !.session = session])
  /\ status' \in Shown(session)
  /\ IF kind = "vault" THEN UNCHANGED <<timeouts, connectTimeoutRef>> ELSE ClearConnectTimeout
  /\ UNCHANGED <<kind, mounted, natives, refs, retryCount, retryTimer, strays, acts>>

\* The ways a socket ends: as its closing ends, refused or lost, closed by a
\* proxy.  A close() of the client's own has the code 1005.
EndOf(s) ==
  CASE s.net = "connecting" -> {"failed"}
    [] s.net = "open" -> {"failed", "lost", "normal"}
    [] s.net = "closing" -> {"failed", "lost"}

Gone(s) ==
  /\ sockets' = sockets \ {s}
  /\ wsRef' = IF wsRef = s.id THEN 0 ELSE wsRef
  /\ UNCHANGED <<kind, mounted, natives, electronSessionRef, acts>>

\* onerror, for a socket that failed, and onclose, which looks at the flag that
\* onerror and the 15 s timer raise: how many retries they schedule.
More_OneTooMany(count) == IF count <= MaxRetries THEN 1 ELSE 0 \* mutant
More(count) == IF count < MaxRetries THEN 1 ELSE 0

\* Mutant: onerror does not raise the flag.
SocketRetries_Unflagged(s, end) ==
  LET first == IF end = "failed" THEN More(retryCount) ELSE 0
  IN first + IF s.connectionFailed \/ end = "normal" THEN 0 ELSE More(retryCount + first)

SocketRetries(s, end) ==
  LET first == IF end = "failed" THEN More(retryCount) ELSE 0
  IN first + IF s.connectionFailed \/ end # "lost" THEN 0 ELSE More(retryCount + first)

\* Mutant: a pane with a host treats an end like that of a vault.
Ended_AsVault(end) == IF end = "failed" THEN "error" ELSE status
Ended(end) == IF kind # "vault" THEN "disconnected"
              ELSE IF end = "failed" THEN "error" ELSE status

SocketEnds(s, end) ==
  /\ end \in EndOf(s)
  /\ s.handled /\ kind # "vault"
  /\ Gone(s)
  /\ timeouts' = timeouts \ {connectTimeoutRef, s.id}
  /\ connectTimeoutRef' = 0
  /\ status' = Ended(end)
  /\ Retries(SocketRetries(s, end))

\* A vault's pane, or a socket nobody listens to, has no second try.
SocketEndsUnheard(s, end) ==
  /\ end \in EndOf(s)
  /\ ~s.handled \/ kind = "vault"
  /\ Gone(s)
  /\ status' = IF s.handled THEN Ended(end) ELSE status
  /\ UNCHANGED timers

(***************************************************************************)
(* Electron's SSH.  Its disconnect() unsubscribes before the session ends. *)
(***************************************************************************)
NativeOpens(n) ==
  /\ ~n.open
  /\ natives' = (natives \ {n}) \cup {[n EXCEPT !.open = TRUE]}
  /\ electronSessionRef' = n.id
  /\ status' = "connected" /\ retryCount' = 0
  /\ ClearConnectTimeout
  /\ UNCHANGED <<kind, mounted, sockets, wsRef, retryTimer, strays, acts>>

\* connectWebSocket(): the socket is there before the terminal is missed.
NativeFails(n) ==
  /\ ~n.open
  /\ natives' = natives \ {n}
  /\ sockets' = sockets \cup {NewSocket(n.id)} /\ wsRef' = n.id
  /\ status' = "error"
  /\ ClearConnectTimeout
  /\ UNCHANGED <<kind, mounted, electronSessionRef, retryCount, retryTimer, strays, acts>>

NativeEnds(n) ==
  /\ n.open
  /\ natives' = natives \ {n}
  /\ electronSessionRef' = IF electronSessionRef = n.id THEN Stale ELSE electronSessionRef
  /\ status' = "disconnected"
  /\ ClearConnectTimeout
  /\ UNCHANGED <<kind, mounted, sockets, wsRef, retryCount, retryTimer, strays, acts>>

(***************************************************************************)
(* The user, a wake-up, and the end of the component.                      *)
(***************************************************************************)
Closes(nets) ==
  sockets' = {IF s.id = wsRef /\ s.net \in nets THEN [s EXCEPT !.net = "closing"] ELSE s :
                s \in sockets}
NativeDisconnects ==
  /\ natives' = {n \in natives : n.id # electronSessionRef}
  /\ electronSessionRef' = 0

\* disconnect().  send() throws on a socket that is connecting, so that close()
\* is not reached.
disconnect ==
  /\ retryTimer' = FALSE /\ retryCount' = 0
  /\ ClearConnectTimeout
  /\ IF electronSessionRef # 0
     THEN NativeDisconnects /\ UNCHANGED sockets
     ELSE Closes({"open"}) /\ UNCHANGED <<natives, electronSessionRef>>

Act == mounted /\ acts < MaxActs /\ acts' = acts + 1

\* The pane of a vault has no buttons, and its status is never "disconnected".
Disconnects ==
  /\ Act /\ kind # "vault" /\ status = "connected"
  /\ disconnect
  /\ UNCHANGED <<kind, mounted, status, wsRef, strays>>

\* The button, or a wake-up of a pane that is disconnected: connect() in 200 ms.
Reconnects ==
  /\ Act /\ kind # "vault" /\ status # "connected"
  /\ disconnect /\ strays' = strays + 1
  /\ UNCHANGED <<kind, mounted, status, wsRef>>

Unmounts ==
  /\ Act /\ mounted' = FALSE
  /\ retryTimer' = FALSE
  /\ NativeDisconnects
  /\ Closes({"connecting", "open"})
  /\ UNCHANGED <<kind, status, wsRef, retryCount, strays, timeouts, connectTimeoutRef>>

(***************************************************************************)
(* The next-state relation.                                                *)
(***************************************************************************)
User == Disconnects \/ Reconnects \/ Unmounts
TimerStep == RetryFires \/ StrayFires \/ \E s \in sockets : TimesOut(s)
Ends(s) == \E end \in {"failed", "lost", "normal"} : SocketEnds(s, end) \/ SocketEndsUnheard(s, end)
SocketStep(s) == Opens(s) \/ Ends(s) \/ \E session \in {"told", "on", "over"} : RelayAnswers(s, session)
NativeStep(n) == NativeOpens(n) \/ NativeFails(n) \/ NativeEnds(n)

Next ==
  \/ User \/ TimerStep
  \/ \E s \in sockets : SocketStep(s)
  \/ \E n \in natives : NativeStep(n)

Spec == Init /\ [][Next]_vars

\* Timers fire; the browser ends a handshake and a closing.  Nothing is asked of
\* the user, of the relay or of Electron: they may leave a question unanswered.
FairSpec ==
  /\ Spec
  /\ WF_vars(RetryFires) /\ WF_vars(StrayFires)
  /\ WF_vars(\E s \in sockets : TimesOut(s))
  /\ \A i \in Ids :
       WF_vars(\E s \in sockets : s.id = i /\ s.net # "open" /\ (Opens(s) \/ Ends(s)))

(***************************************************************************)
(* Properties.                                                             *)
(***************************************************************************)
TypeOK ==
  /\ kind \in {"relay", "native", "vault"} /\ mounted \in BOOLEAN
  /\ status \in {"connecting", "connected", "disconnected", "error", "idle"}
  /\ sockets \subseteq Sockets /\ natives \subseteq Natives
  /\ wsRef \in Ids \cup {0} /\ electronSessionRef \in Ids \cup {0, Stale}
  /\ retryCount \in 0..MaxRetries /\ retryTimer \in BOOLEAN
  /\ strays \in Nat
  /\ timeouts \subseteq Ids /\ connectTimeoutRef \in Ids \cup {0}
  /\ acts \in 0..MaxActs

\* The pane does not multiply its connections by itself: sockets, Electron's
\* sessions and pending timers are together no more than one for the pane and one
\* for each time the user or a wake-up acted, although onerror and onclose both
\* schedule retries and both run for a socket that failed.
Pending == strays + IF retryTimer THEN 1 ELSE 0
Attempts == Cardinality(sockets) + Cardinality(natives) + Pending
OneAttemptPerAct == Attempts <= 1 + acts

\* No timer or handler that outlives the pane opens a socket in a browser.
NothingOpensAfterUnmount ==
  [][~mounted /\ kind # "native" =>
       {s.id : s \in sockets'} \subseteq {s.id : s \in sockets}]_vars

\* A pane of kind "relay" that says it is connected has a socket whose session is
\* on: its end is noticed whatever other sockets of the pane do.
ConnectedHasSession ==
  kind = "relay" /\ status = "connected" => \E s \in sockets : s.session = "on"

\* A pane with a host does not stay at "Connecting", though the relay may never
\* answer and a superseded attempt may clear the current one's 15 s through the
\* reference they share: each attempt comes to an end that the pane shows, or the
\* one that cleared its timer does.  The exception is an attempt that was told
\* 'connecting', or is Electron's, and hears nothing for ever after: no timer is
\* left then (TerminalPane.tsx:494, :753) and shell() has none (ssh.ts:224).
Awaits(i) ==
  \/ \E s \in sockets : s.id = i /\ s.net = "open" /\ s.session = "told"
  \/ \E n \in natives : n.id = i /\ ~n.open
AnswersFollow == \A i \in Ids : []<>~Awaits(i)
ConnectingEnds ==
  AnswersFollow =>
    ((kind # "vault" /\ mounted /\ status = "connecting") ~> (status # "connecting" \/ ~mounted))

\* When no socket opens any more, the retries end, and so do the timers that try
\* again (a socket that waits for the relay may still have its 15 s).
Quiet == Pending = 0 /\ \A s \in sockets : s.net = "open"
RetriesEnd == []<><<\E s \in sockets : Opens(s)>>_vars \/ <>[]Quiet

\* TerminalPane.tsx:827 "Failed after ${maxRetries} reconnect attempts": the pane
\* gives up unless a session is opened again and again.
PaneGivesUp ==
  []<><<\E s \in sockets : RelayAnswers(s, "on")>>_vars \/ <>[]Quiet
=============================================================================
