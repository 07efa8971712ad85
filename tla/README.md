# NovoSSH: a TLA+ verification project

Formal models of the parts of NovoSSH whose correctness depends on the order in
which things happen: the SSH relay and the terminal pane that talks to it, the
synchronisation of offline changes, the vault entries and their log of changes,
sessions and their revocation, and the subscription with the limit it sets. TLC
checks the models on small instances; every safety property that a passing run
checks is also a theorem, proved with TLAPS for every value of the constants.
Liveness is checked by TLC alone.

Paths below are relative to the repository root.

## 1. The system

NovoSSH is an SSH client with an encrypted, synchronised vault. A TypeScript
server (`server/`, Express, WebSockets, PostgreSQL through an asynchronous pool)
serves a React client (`src/`), which also runs inside a desktop shell
(`tauri/`), and native mobile clients (`android/`, `ios/`).

| Component | State | Operations | What makes it hard |
|---|---|---|---|
| SSH relay, `server/ssh.ts` | closure variables of one WebSocket (`conn`, `stream`, `sessionId`, `vaultSessionId`, stdin of an ssh process), rows of `ssh_session_logs` | connect, data, resize, disconnect, close; callbacks of every SSH client; continuations of unawaited statements | callbacks and answers arrive late, for an attempt that is no longer the current one |
| Session recording, `server/ssh.ts`, `server/services/SessionService.ts` | `lastCommandId`, `outputBuffer`, `inputBuffer`; rows of commands | a command is typed, its row answers, output arrives, flush | answers out of order, buffers shared by successive sessions |
| Offline changes, `src/services/OfflineSyncService.ts`, `ReconnectionHandler.ts` | IndexedDB stores, `isReconnecting` | record, fetch, detect, resolve, push with retries, mark, clear | every step is between two awaits; page reloads; a second sync at the same time |
| Reconnection hook, `src/hooks/useReconnection.ts` | in-progress flag, AbortController | manual sync, cancel, online and offline events | cancels and restarts under a running loop; the same store |
| Server sync log, `server/services/SyncService.ts` | `sync_logs` | `recordChange` (a transaction), `detectConflicts`, `resolveConflict` | snapshots and row locks of concurrent transactions |
| Vault entries, `server/routes/entries.ts`, `sync.ts`, `server/services/VaultService.ts` | `vault_entries` | read, unconditional overwrite, delete, record the change, resolve a conflict | lost updates between a read and a write; the log is written after the entry |
| Tokens, `server/auth.ts` | revocations in memory and in `token_revocations` | issue, verify, refresh, revoke one or all, clean up, load at start | unawaited writes in either order, restarts, two clocks that forget |
| Accounts, `server/routes/auth.ts` | `users`, `password_reset_tokens` | sign in, change, forget and reset a password, delete the account | a sign-in that overlaps a reset; a link used while another is made |
| Billing, `server/services/StripeService.ts`, `SubscriptionService.ts`, `PlanDowngradeService.ts`, `TrialNotificationService.ts`, `server/routes/billing.ts`, `trial.ts`, `admin.ts` | `subscriptions`, processed events | webhooks, reconciliation, end of a trial, app stores, downgrade, an administrator's plan | repeated, reordered and lost webhooks; many writers of one row, each with an await between what it reads and what it writes |
| Vault limit, `server/routes/vaults.ts` | `usage_counts`, `vaults` | create and delete a vault | the count and the vault are written by separate statements |
| Terminal pane, `src/components/TerminalPane.tsx`, `src/services/ElectronSSHAdapter.ts` | WebSockets, Electron sessions, timers, the references to them, `tab.status` | connect, retry, disconnect, reconnect, wake up, unmount; the handlers of every socket | handlers and timers of attempts that are no longer the current one |
| Invitations, `server/services/InvitationService.ts` | `org_invitations` | create, accept, reject, cancel, expire | status changes by id alone |
| Notifications, `NotificationScheduler.ts`, `NotificationDispatcher.ts` | scheduled and queued rows | schedule, process due, deliver, retry | little: most of it has no caller |
| Rate limiting, `server/middleware/rateLimit.ts` | counters per window | count, reject, reset | windows and concurrent requests |
| Peer-to-peer sync, `src/services/P2PSyncService.ts` | peers, channels, sync vectors | offer, answer, candidate, changes | messages before the state they need |
| Client vault sync, `src/services/SyncService.ts` | sync states, conflicts | start, complete, add pending, resolve | changes added while a sync runs |
| Optimistic updates and conflict hooks, `src/hooks/` | pending updates | apply, confirm, roll back | overlapping updates |
| Port forwarding, `src/services/PortForwardingService.ts`, `tauri/src-tauri/src/port_forward.rs` | forwards and their connections | start, stop, accept | stop while connections are open |
| Everything else | | | single statements, queries, cryptography, user interface, configuration |

How they interact. The relay calls `SessionService` without awaiting it and
shares one closure between all its callbacks. The client's change store is
written by the vault code and read by two independent synchronisers
(`ReconnectionHandler` and `useReconnection`), of which only the first talks to
the server; it also hands changes to `P2PSyncService`. (The client as it stands
uses the hook; `ReconnectionHandler` is exercised by its tests.) On the server,
the entry and sync routes write `vault_entries` and then call
`SyncService.recordChange`. Every request is let in by `verifyToken`, which knows
only what the process remembers; the account routes write `users` and revoke
tokens afterwards. Billing events, the periodic reconciliation, the trial job
and requests all write one subscription row, and creating a vault reads the plan
in it. The pane opens a WebSocket per attempt to the relay, whose answers and
closing it interprets.

`PROJECT.json` lists every component with its state of modelling, and the
hazards of this code at the lines where they bite.

## 2. The modules

**SshRelay** is `handleSshConnection`. Its variables are the closure variables;
`n`, the number of an accepted `connect`, also names the SSH client, the row and
the recorded session that belong to it, so that "whose is this?" can be asked of
every variable. One action is one handler or callback, which JavaScript runs
without interruption: `Connect`, `ConnectThrows`, `Disconnect` (also the
socket's `error`), `SocketClose`; `Ready`, `ShellOpens`, `ShellEnds`,
`ClientError`, `ProcessError`, `ClientEnd` for any attempt, current or not;
`InsertReturns`, `UpdateRuns`, `StatementFails` for any statement in flight.
`Cleanup` is `cleanup()` in the order of the source. `log` and `active` are what
the statements leave in the database: the rows of `ssh_session_logs`, and which
recorded sessions are active in `sessions`. Data and resize messages change
nothing here and are left to SshRecording.

**ConnectionLease** is the abstract promise of the relay: one connection at a
time, a let-go attempt is never held again, a closed socket holds none.
`HoldsAsLeased` refines it with `held` as the attempts whose `conn.end()` was
not called.

**SshRecording** composes SshRelay with the recording of commands and output.
Every relay step is a step of it; one that runs `cleanup()` while a session is
fed also flushes the output. The ghost `late` has the commands whose
`recordCommand()` answered when their session was no longer the one being fed.

**OfflineSync** is `synchronizeAllChanges()`, one action per await, for two
callers: `handleReconnection`, which the flag guards, and a direct caller, which
nothing guards. **Outbox** is what it promises: a change waits until the server
has it. The server is external: it applies what it receives and answers, or the
answer is lost. A change has a key (`generateId()`), and keys come in any order:
two of one millisecond are ordered by a random UUID. `ReconnectingThrows` is the
one way out of `handleReconnection` that its `finally` does not cover.

**SyncLog** is the transaction of `recordChange()` with what PostgreSQL's READ
COMMITTED makes visible: the snapshot of each statement, row locks, the recheck
of a row after waiting for it, rollbacks. `detectConflicts()` is an operator
over the committed rows and an arbitrary order of their random ids.

**ConflictLedger** is the abstract promise of the log: a push enters it in one
step, together with its flag and the flags of the rivals it names; it may enter
without a flag only if every rival that was there when it began has been
noticed; a flag is cleared only by resolving the conflict. `FlagsAsPromised`
refines it, with the committed rows as the ledger, and fails without the `FOR
UPDATE` of the SELECT: then two pushes flag the same row and the second
overwrites what the first had written.

**Entries** composes SyncLog with the row of `vault_entries` and the requests
that write it. A PUT is `Reads`, `updateEntry`, and then the transaction of
SyncLog with the same number; a DELETE looks twice, as the route and
`deleteEntry()` both do; a push has nothing to write, and its answer asks
`detectConflicts()`. A resolution clears the flags with SyncLog's
`ResolveConflict` and has its later statements as steps of their own. Ghosts say
which writes a request had seen when it read and which it wrote over.

**Tokens** is `server/auth.ts`: pairs of an access and a refresh token, what the
process remembers (`revokedTokens`, `revokedUserIds`), the table it is reloaded
from (`rows`, `sentinels`), and the statements in flight between the two, which
the pool runs in any order. `verifyToken` is the operator that every route asks.
**Accounts** composes it with the account routes that await the database: a
request is a record that moves from await to await. Which password a session
rests on (`proof`, `began`) is not in a token; those fields are ghosts.

**Billing** is one user's subscription row and what writes it while the account
is there: `Deliver` and the steps of a flow are `handleWebhook()`, the walk is
`reconcileSubscriptions()`, and the trial job, the app stores and the confirmed
downgrade are flows too; `AdminSetsPlan` and `extendTrial` are single statements.
The walk in the code is one over the subscriptions of all users. Those of the
others leave this row alone, except that a `handleDowngrade()` that throws for one
of them ends the walk: `NeighbourThrows`. Stripe is external: it has subscriptions that change and
sends events for them, which are delivered late, in any order, or never.
**VaultQuota** adds the requests that create and delete vaults, statement by
statement, against the limit of the plan that Billing's row has at the time.

**TerminalPane** is the component: sockets with the flags their closures keep,
Electron's sessions, the references `wsRef`, `electronSessionRef`,
`retryTimeoutRef` and `connectTimeoutRef`, and the timers, named by a reference
or not. An action is a handler, a timer that fires, a button, a wake-up, or the
end of the component. `kind` says which of the three ways to connect it has; a
host that Electron is to reach by the relay counts as "relay", since
`connectElectron()` then returns at once without a change.

The modules named **_proofs** hold the theorems, one for each of SshRelay,
SshRecording, OfflineSync, SyncLog, Entries, Accounts (with Tokens), VaultQuota
(with Billing) and TerminalPane. SshRecording_proofs extends SshRelay_proofs and
Entries_proofs extends SyncLog_proofs, as the modules they are about do: the
invariants of the smaller one are used as they are. The `MC_` modules and the `.cfg` files are the instances for TLC.

## 3. What the runs check

| Run | Question | Bounds |
|---|---|---|
| relay | Does the relay leak connections, close a row twice, abandon a recorded session, or break the lease? Is a session active in the database only while it is fed, or its ending is on the way or has failed? Are all inactive in the end, once the socket is closed? | 2 attempts, 1 failing statement; an ssh2 connect that is recorded, a certificate one that is not |
| recording | Is output ever credited to a later command, or to one of another session that answered in time, or held over to the next session, or a command logged in a closed row? | 2 recorded shells, 2 commands; states with more than 2 statements in flight, or with a client that failed but has not ended, are checked but not continued |
| offline | Does a change leave the device without the server having it? Is the server's last word each resource's latest change while syncs do not overlap and keys are in order? Does a sync that begins end, lower its guard and clear what it read? | 2 changes, 1 remote change, 2 syncs of either flow, 1 reload, storage error or throwing listener, fewer failures than retries |
| synclog | Are conflicts with earlier rows flagged, flags true, and reported, also to the device that pushed into one? Does the log implement the abstract ledger? Is a write over another that it had not seen noticed? Do transactions end in spite of row locks? | 4 pushes of 2 devices, or 3 requests of up to 3 (two PUTs and a push; a PUT, a DELETE and a push), or 3 PUTs, the first and the last of one device; 1 resolution, also when nothing is flagged |
| accounts | Does a session outlive the reset or change of the password it rests on, does a reset begin over a link whose use was answered, does a token outlive its rejection, a revocation in the table its load? Does a logout reach the table? | 1 user, 2 pairs of tokens, 3 requests, 2 units of time with all lifetimes 1, 1 failure or restart |
| billing | Can there be more vaults than a limit allowed? Does the row settle on what Stripe says, if walks get as far as this user? | 2 plans with limits 1 and 2; 3 changes, requests or failures in all |
| pane | Does the pane multiply its connections, show a connection it has not, open one after its end, stay at "Connecting" though the relay never answers, or retry for ever against a host that cannot be reached? | 2 retries, 2 acts of the user, each kind of pane |

Two attempts are enough for the relay because a callback distinguishes only its
own attempt from the current one; a third adds no new relation between the two.
Whether a connect is recorded and how it connects are independent in the code,
so one of each is offered. Two commands let an answer overtake the other. In
OfflineSync two syncs over two changes have every phase of one meet every phase
of the other. In SyncLog a deadlock needs two transactions of one device and two
rows already committed by another, which the four pushes have (a transaction looks
only at rows of the other device, so that it makes no difference how the numbers
of the two are mixed); a flag that names a wrong rival needs three devices, which
the three requests may have; a version that a PUT moves is first missed by a third
PUT. Devices are
interchangeable, so `NamedInOrder` makes the pushes use them in a fixed order
(TLC's symmetry reduction is not sound for the liveness property).
No statement of Tokens and Accounts relates two users, so one is enough; two
pairs are a session before and one after a revocation, three requests let a
sign-in, a reset and another overlap, and with equal lifetimes the clean-up, the
expiry and the load all meet on one boundary. In Billing three inputs are enough
for a checkout, a change of it and a failure, or for two requests for a vault
that overlap a change of plan. In the pane two acts give three attempts, so that
the handlers of two old ones meet a new one, and two retries tell "one more" from
"the last".

Deadlock is not checked where the bounds let the system come to rest: the
socket is closed and the database idle, or the changes, syncs or pushes are
used up.

Five runs expect a violation, each of a sentence of the repository that the code
does not keep:

- relay_stdin: `server/ssh.ts:295` "Cert auth: write to ssh process stdin". The
  stdin is kept after the process ended and swallows the input of the next one.
- offline_lost: `src/hooks/useReconnection.ts:179` marking a change as synced is
  to be "done after successful server/peer sync". A change given up after
  `maxRetries` is marked and deleted (`ReconnectionHandler.ts:153-158`).
- synclog_race: `server/services/SyncService.ts:41` "within a transaction to
  prevent race conditions". Two overlapping pushes both find no row to lock.
- accounts_reset: `server/routes/auth.ts:720` "Password updated. Please sign in
  with your new password." Nothing takes a user out of `revokedUserIds`
  (`server/auth.ts:201`, `:323`), so that the new session is rejected too, until
  the process restarts and does not load the sentinel row.
- pane_gives_up: `src/components/TerminalPane.tsx:827` "Failed after ${maxRetries}
  reconnect attempts". `onopen` (`:694`) sets the count back before the relay has
  accepted anything, and the server closes what it refuses after the opening
  (`server/index.ts:279`): the pane reconnects for ever.

Four more statements do not hold and are kept as definitions that a `.cfg` can
name, because the properties that do hold stop short of them:

- `LogRowsClosed` (SshRelay): a row whose INSERT answers after the connection's
  end is never given its `ended_at`.
- `WaitEndsWhenResolved` (OfflineSync): no resolution ends the wait for one, as
  nothing sets `resolvedAt` on the conflicts that are waited for; the timeout does.
- `FlagMeansUnseen` (Entries): a PUT leaves the version as it is, so that the next
  device's PUT is flagged although it had seen the first.
- `MatchesStripe` (VaultQuota): with an old canceled subscription and a newer live
  one the reconciliation sets the plan to free and back at every walk.

Some properties carry an assumption that the code does not see to. Each fails
without it:

- `ServerIsCurrent` assumes that syncs never overlap (a direct call of
  `synchronizeAllChanges()` is not guarded) and that the keys of a resource's
  changes are in the order of their recording. Keys are a millisecond and a random
  UUID (`OfflineSyncService.ts:405-407`) and the store is read in their order:
  two changes of one millisecond, or recorded around a clock that is set back, are
  pushed the other way round, and the server ends with the older one.
- `RowSettles` assumes `WalksGetThrough`: again and again a reconciliation comes to
  the end of this user's subscriptions. A user with an old canceled and a newer
  live subscription, above the limits of the free plan, makes `handleDowngrade()`
  throw at every walk (`StripeService.ts:199`); those whose subscriptions are
  listed behind are then never reconciled.
- `ConnectingEnds` assumes `AnswersFollow`: an attempt that the relay has told
  'connecting', or that waits for Electron, hears something more. Nothing bounds
  that wait: any message clears the 15 s timer (`TerminalPane.tsx:753-756`, and
  `:494-498` for Electron), and the relay's `shell()` has no timeout
  (`ssh.ts:224-226`). A socket that is opened and never answered needs no such
  assumption: its 15 s run out. A late handler of another attempt may clear them,
  but it then shows the outcome of its own attempt, right or wrong for the pane.

Others are narrower than one would wish:

- `GuardIsLowered` is about syncs that begin. A listener of `'reconnecting'` that
  throws (`ReconnectionHandler.ts:71`) does so after the flag is raised and before
  the `try`, and no later 'online' event syncs until the page is reloaded
  (`ReconnectingThrows`).
- `OutputStaysInItsSession` excepts commands whose `recordCommand()` answers when
  another session, or none, is fed: `ssh.ts:315` sets `lastCommandId` all the same,
  and the next session's output is stored with them.
- `SessionsEndInDb` and `ActiveSessionsAreFed` except a session whose one
  `endSession()` fails: `ssh.ts:74` swallows the error, nobody repeats it, and the
  session stays active.
- `NoConnectionLeaks` and `HoldsAsLeased` say that connections are let go, not that
  they are kept: a late callback of an earlier client may end the connection that
  has replaced it (`ssh.ts:258-278`).
- `UsedLinksStayDead` is about resets that begin after an answered one. Two that
  overlap may both read the link unused (`routes/auth.ts:702-712`), and then each
  sets its password (`:715`).

The revocations of accounts keep no more than this:

- `OldSessionsEnd` is about resets and changes of the password (the deletion of an
  account revokes only the tokens it came with, `routes/auth.ts:591-599`), and about
  one run of the process. `server/auth.ts:320` "Persists
  to database so revocation survives restarts" is true only of what gets there:
  the DELETE and the sentinel's INSERT run in either order, either may fail, and
  their errors are swallowed. `LogoutReachesTable` says when a row gets there, and
  `PersistedRevocationsHold` what it is worth after the load.
- `PersistedRevocationsHold` starts with the load. Requests are served before it
  (`server/index.ts:288-294`), and the "periodic loadRevokedTokens()" of
  `server/auth.ts:208` is called only there. `verifyTokenWithDB` has no caller.
- It asks for a revocation later than the token, by one second: a token that
  lives for the whole of `Keep` and was revoked in the second it was issued is
  valid for one more second than the load looks back.

`VaultsWithinLimit` excludes a vault that two requests delete at once, since both
count it down. Steps that fail leave the count too high, which is the safe side.
`RowSettles` is about users with one subscription that counts; it survives
`handleDowngrade()`, which throws whenever something exceeds its new limit
(`PlanDowngradeService.ts` names columns that the tables do not have), so that
the webhook is answered with an error and the walk of the reconciliation ends.

`NothingOpensAfterUnmount` is about panes in a browser: in Electron a session may
open after the pane's end and is then never closed, and one that fails opens a
socket nobody listens to.

### Fairness

- `SshRelay!FairSpec`: weak fairness of `DbStep`. The pool keeps running
  statements while the process lives. Users and SSH servers owe nothing.
- `OfflineSync!FairSpec`: weak fairness of the steps of a sync under way. Each
  awaits a call that settles: IndexedDB requests, the server API, or a timer. It
  is an assumption about the server API that `syncChange` settles at all. Nobody
  has to start a sync or record a change.
- `SyncLog!FairSpec`: weak fairness of the statements of the transactions under
  way, taken together, and of the rollback of one that waits in a cycle, which
  PostgreSQL's deadlock detection does. As each transaction has finitely many
  statements, that one of them goes on is enough for all to end.
  `Entries!EntriesFairSpec` asks for the same and nothing more: no request has to
  come, or to go on.
- `Accounts!FairSpec`: weak fairness of `PoolStep`: the pool runs the statements
  it was given, or they fail, while the process lives.
- `VaultQuota!FairSpec`: weak fairness of the steps of a flow, which await the
  database, and of the reconciliation, which a timer starts and whose calls come
  back. Nothing is asked of Stripe's deliveries, the user, the trial job, or the
  neighbours in the walk: the row settles by the reconciliation alone, if it gets
  there (`WalksGetThrough`).
- `TerminalPane!FairSpec`: weak fairness of every timer, and of each socket's
  handshake and closing, which the browser ends one way or the other. Nothing is
  asked of the user, of the relay or of Electron.

## 4. What is proved

`SshRelay_proofs` proves, for every `MaxAttempts`, `MaxFaults` and `Offers`
(assumptions `BoundsAssumption`, `OffersAssumption`):

| Theorem | Statement |
|---|---|
| TypeCorrect | `Spec => []TypeOK` |
| ConnectionsDoNotLeak | `Spec => []NoConnectionLeaks` |
| RowsAreClosedOnce | `Spec => []OneOutcomePerRow` |
| SessionsAreEndedOnce | `Spec => []RecordedSessionsEnded` |
| ActiveSessionsFollow | `Spec => []ActiveSessionsAreFed` |
| RelayIsALease | `Spec => HoldsAsLeased` |

The argument is one inductive invariant, `IInv`. `NoConnectionLeaks` needs no
help, but `OneOutcomePerRow` is not inductive: a row might be closed and its
number then be set again by a late INSERT. `RowKnownOnce` excludes it: while an
INSERT is pending its row has had no outcome and no variable names it, and once
it had its outcome no variable names it again. `SessionEndedOnce` counts the
`endSession` calls of each session exactly, and needs `SessionNeedsConnection`:
a session is fed only while a connection is current, so the guard `if (conn)` of
`connect` is what keeps a reconnect from overwriting it. `ActiveSessionsAreFed` in
turn needs `OnlyEndedAreTold`: no `endSession` is on its way for the session being
fed. `CleanupIInv` proves
`cleanup()` once for its nine callers. The refinement rests on the same
invariant: what is held is at most the current connection.

`OfflineSync_proofs` proves, for every set of flows and resources, every
strategy and every bound (`FlowsAssumption`, `StrategyAssumption`,
`RetriesAssumption`, `BoundsAssumption`):

| Theorem | Statement |
|---|---|
| TypeCorrect | `Spec => []TypeOK` |
| ChangesAreKept | `MaxFailures < MaxRetries` gives `Spec => []NoChangeLost` |
| DeviceIsAnOutbox | `MaxFailures < MaxRetries` gives `Spec => DeliversAsPromised` |
| ServerEndsCurrent | `MaxFailures < MaxRetries` gives `Spec => ServerIsCurrent` |

The hypothesis cannot be dropped: `offline_lost` is what happens without it.
`NoChangeLost` is not inductive, since a change is marked by a sync that read it
long before. The invariant `IInv` of OfflineSync follows it there
(`PushedIsDelivered`): what the push loop has taken from its list was given to
the server, so the whole snapshot was when the marking starts. That holds until
a loop gives a change up, which takes `MaxRetries` failures (`FailuresCounted`:
no loop counts more than there were). Nothing in it relates two syncs, so it
holds however they overlap; `FlowOnlyIInv` and `LocalsIInv` prove the steps that
move one sync once for all of them. The loops pick the first change by `CHOOSE`;
`FirstIsThere` shows there is one. In the outbox marking is the step that drops
a change, and clearing is none.

`ServerIsCurrent` says `[](OneSyncAtATime /\ KeysInOrder) => []ServerHasLatest`, so
that its invariant (`CurrentInv`) may use at every step that no other sync is under
way and that the first key is the first change. A sync gives the server what it read from the first change to the last, then marks
it in that order. Marked changes are therefore always earlier than unmarked ones,
and what a repeated sync gives again is later than all that was marked: it never
puts an older change on top of a newer one that nobody will send again.

`TerminalPane_proofs` proves, for every `MaxRetries` and `MaxActs`
(`PaneAssumption`):

| Theorem | Statement |
|---|---|
| TypeCorrect | `Spec => []TypeOK` |
| AttemptsBounded | `Spec => []OneAttemptPerAct` |
| ConnectedIsTrue | `Spec => []ConnectedHasSession` |
| QuietAfterUnmount | `Spec => NothingOpensAfterUnmount` |

`IInv` is `TypeOK`, `AttemptsFinite`, `OneAttemptPerAct`, `SocketsHandled` and
`ConnectedHasSession`. The bound is its own induction: the sum of sockets,
sessions and pending timers grows only with `acts`, because a socket that ends
schedules at most one retry in place of itself, however its two handlers share
the work (`connectionFailed`), and a timer that fires makes at most one socket.
It is also what types the rest: there are `MaxActs + 1` numbers and fewer live
attempts than that whenever one is made (`NewIdIsThere`), so that `CHOOSE` finds
one. `ConnectedHasSession` needs `SocketsHandled`: outside Electron every
socket has the pane's handlers, so the end of the one that was on is shown. Cardinalities are moved
by the lemmas about finite sets of the library and by `ImageCount`, for the
action that rewrites every socket at once.

`SshRecording_proofs` proves, for every `MaxCommands` and the relay's constants
(`CommandsAssumption` and those of SshRelay):

| Theorem | Statement |
|---|---|
| RecordingIsARelay | `RecSpec => Spec` |
| RecordingTypeCorrect | `RecSpec => []RecTypeOK` |
| OutputIsOfItsSession | `RecSpec => []OutputStaysInItsSession` |
| OutputIsNotCreditedAhead | `RecSpec => []OutputFollowsItsCommand` |
| BufferIsNotHeldOver | `RecSpec => []BufferEmptyBetweenSessions` |
| CommandsAreLoggedInOpenRows | `RecSpec => CommandsLandInOpenRows` |

The first theorem brings everything proved of the relay along. `RecInv` adds to
the properties what makes them inductive: a command that was not typed is stored
under nothing (`UntypedUnstored`), and no chunk in the buffer is older than the
last command, or than one whose INSERT is still on its way (`BufferIsRecent`), so
that an answer that overtakes another cannot move the credit forward; what is
buffered is of the session being fed, and so is `lastCommandId` unless it answered
late, since `cleanup()` forgets it with its session. That the
row a command lands in is open rests on the relay's `RowKnownOnce`: the row that
`sessionId` names has had no outcome.

`SyncLog_proofs` proves, for every set of devices and versions, every choice of
callers and every number of pushes and resolutions (`DevicesAssumption`,
`VersionsAssumption`, `BoundsAssumption`, `CallersAssumption`):

| Theorem | Statement |
|---|---|
| TypeCorrect | `Spec => []TypeOK` |
| LateConflictsAreNoticed | `Spec => []LateConflictNoticed` |
| FlagsNameRivals | `Spec => []FlagNamesARival` |
| ConflictsAreReported | `Spec => []FlagsAreReported` |
| LogIsALedger | `Spec => FlagsAsPromised` |

Of the properties none is inductive, since the row that may miss a rival is inserted
several statements after the one that looked for it. `LogInv` says of every
transaction under way what it carries (`TxInv`): it works on rivals of its own
change only, the ones it has marked are of the device it will name, the rows of
its snapshot it has not yet looked at are all that is left to look at
(`SearchCovers`), and once it has passed them without finding any, every rival
that was there when it began was noticed by somebody (`NothingMissed`). Of the
table it says that a flagged row has a flagged rival (`FlagsPaired`), which is
what `detectConflicts()` joins on, in either order of the ids. `SearchStepKeeps`
proves the statements that change only their own transaction once for all.
The refinement needs one thing more, `LocksExclusive`: a row that a transaction
marked for its UPDATE is flagged by nobody else and marked by nobody else. That
is the row lock, and it is what keeps two pushes from overwriting each other's
flag; the invariants hold without it.

`Entries_proofs` proves of the requests, for every choice of uses as well
(`UsesAssumption`):

| Theorem | Statement |
|---|---|
| RequestsTypeCorrect | `EntriesSpec => []EntriesTypeOK` |
| LateConflictsOfRequestsAreNoticed | `EntriesSpec => []LateConflictNoticed` |
| FlagsOfRequestsNameRivals | `EntriesSpec => []FlagNamesARival` |
| ConflictsOfRequestsAreReported | `EntriesSpec => []FlagsAreReported` |
| UnseenWritesAreNoticed | `EntriesSpec => []UnseenWritesNoticed` |
| FlaggedPushersAreTold | `EntriesSpec => []PusherIsTold` |
| RequestsKeepALedger | `EntriesSpec => FlagsAsPromised` |

Entries is not a refinement of SyncLog: a request learns its base version when
it reads, after SyncLog would have chosen it. `ReadingKeepsLog` shows that this
does `LogInv` no harm, as it happens before the transaction begins. `EntriesInv`
adds that a PUT writes before its transaction and an answer comes after it
(`RequestsInOrder`), and that the version stands still until a conflict is
resolved (`VersionsInv`): all writes are then rivals, which is why unseen ones
are noticed, and why the property ends with the first resolution.

`Accounts_proofs` proves, for every set of users, all lifetimes and bounds
(`LifetimesAssumption`, `TokenBoundsAssumption`, `RequestBoundsAssumption`):

| Theorem | Statement |
|---|---|
| TypeCorrect | `Spec => []TypeOK` |
| RejectionIsFinal | `Spec => RejectedStaysRejected` |
| PersistedRevocationsOutlive | `Spec => []PersistedRevocationsHold` |
| OldSessionsAreOver | `Spec => []OldSessionsEnd` |
| SpentLinksAreDead | `Spec => []UsedLinksStayDead` |

`TokenBoundsAssumption` asks for one pair of tokens at least, since Init has one.
`LifetimesAssumption` is where the constants of the code matter: an access token
lives no longer than a refresh token, and that no longer than revocations are
kept (`Keep`), so that whatever is forgotten is out of date. `TokenInv` says that nothing is of
the future (pairs, revocations in memory and in rows, sentinels), that a token is
revoked after it was issued, and that the token or the user of every statement in
flight is already rejected by the process that sent it (`InFlightRejected`): a
row may arrive at any time after, in this process or the next. `StillRejected`
is used by all of it: what keeps a process's memory (`MemoryLasts`) keeps its
rejections. `OldSessionsEnd` follows from `AnsweredRevokes`, since nobody leaves
`revokedUserIds` while the process runs; its proof is also why a later sign-in is
rejected (accounts_reset). `UsedLinksStayDead` needs `LinkInv`: the numbers of
links are used once, a request for a link holds a fresh one, and a reset marks
the link it was given before its answer, or that link was replaced: no later reset
reads it usable.

`VaultQuota_proofs` proves, for every set of plans with limits and every number of
inputs (`PlansAssumption`, `BillingBoundAssumption`):

| Theorem | Statement |
|---|---|
| TypeCorrect | `Spec => []TypeOK` |
| VaultsNeverExceedLimit | `Spec => []VaultsWithinLimit` |

`VaultsWithinLimit` says nothing of the requests that have been let through and
not inserted yet. `PromisedWithinLimit` counts them with the vaults, and rests on
`CountCovers`: the usage count is never below the vaults there are, those to be
inserted and those deleted but not counted down. A failure between two statements
only leaves it higher. Changes of the plan cannot disturb either, because a
request carries the limit it read, and `AsksWithinHighest` bounds that. The row,
the flows and the walk of Billing need types and `WalkWithin`, that the walk does
not run past its list.

Only model-checked: liveness, that is `SessionsEndInDb`, `GuardIsLowered`,
`RecordedGetsCleared`, `TransactionsEnd`, `LogoutReachesTable`, `RowSettles`,
`ConnectingEnds` and `RetriesEnd`, since temporal properties under fairness and `ENABLED` are beyond
the prover; and the violations, which are counterexamples of an instance. The
symbolic bounds (`MaxAttempts`, `MaxPushes` and so on) stay in the theorems, but
as arbitrary numbers.

## 5. What is abstracted

Terminal data is a set of chunks, each known by the last command typed before
it; sizes and the 1 MB cap are left out. The relay's user is signed in (the
server closes other sockets first), each `connect` that is recorded names a
session of its own, several lines in one message are several commands typed one
after the other (the code takes them in one loop, so the model has more
interleavings), what `inputBuffer` (`ssh.ts:50`) carries from one session into the
first command of the next is not followed, temporary files can be written, and an SSH
client that was ended cannot report a shell any more. In OfflineSync time counts
changes, resources are a set of names, and applying a fetched change is absent
because the code does not do it; the device id stays in `localStorage`, so that the
prefix of all keys is the same; the sync queue of `OfflineSyncService` has no
caller in the handler and is left out.

SyncLog and Entries model one entry, since no statement relates two. Of its
content only the order of the writes is kept. A PUT may bring a `localVersion` of
its own; no client in the repository sends one, and the model has none. A push of
several changes is several pushes, and `markSynced` sets a time nothing reads.
Creating an entry logs no base version and so meets no conflict.

In Tokens signatures hold. `Bearers`, the tokens that a request may come with, are
access tokens; `authMiddleware` does not look at the type of a token
(`middleware/auth.ts:49`), and a refresh token would do as well. A request of Accounts that is refused without a change
is left out, as are signing up, the e-mail verification, the WebAuthn ceremony,
and the second factor as such (`login/verify-mfa` issues a session like `login`).

In Billing there is one user, one walk at a time, and the plan of a subscription
is the one in its metadata. The webhooks `paid` and `failed` retrieve a
subscription only for that plan, which does not change, and so are one step. A
trial ends in the row no earlier than at Stripe (`TrialRunsOut`); in the code an
earlier `trial_ends_at`, which `updateSubscription()` does not replace, takes
precedence, and a second trial could be ended before its time (`RowSettles` says
nothing of a user with a second subscription that counts). A redelivered event that was
processed is a no-op and left out, and app-store notifications never fail to be
acknowledged. Of the counted resources only the vaults are there.
`incrementIfAllowed` and `processExpiredGracePeriods` have no callers.

In TerminalPane the number of an attempt that has ended is used again. The error
and the close of one socket are fired in one task and are one step. A socket that
is refused and one whose connection is lost end alike; so does one the client
closed, as its `close()` has the code 1005. Any message of the relay clears the
15 s timer, the one that says `connecting` included, and so does the start of
Electron's `connect()`. Addresses and modes are
valid, `tab.status` is read as it is, a wake-up does what the button does, and
pings are left out. Electron's `disconnect()` unsubscribes first, so that the
pane goes on to say it is connected; a vault's `onclose` sets no status.

### Not modelled

Cryptography, WebAuthn and SAML (libraries), user interfaces, analytics and audit
(append-only), infrastructure. Notifications: of their loops only
`processDueNotifications` runs; the retry queue, scheduling and batching have no
callers, and with them goes all that could interleave. The reconnection hook
(`useReconnection`) marks changes without sending them anywhere, as its own
comment says, so that no promise of the store could be stated over it. Components
that are left for later are in the plan.

## 6. Plan

In this order:

1. Proofs: that Billing's side of VaultQuota and Tokens' side of Accounts
   implement abstract specifications of their own (a plan that follows Stripe's
   word or a failure; a set of dead tokens that only grows while a process runs),
   and that the vault limit is a counter that covers what it promised.
2. Invitations, peer-to-peer signaling (crossing offers, early candidates), the
   client's vault sync, rate limiting, port forwarding, connection routing as a
   pure decision.
