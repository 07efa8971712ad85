----------------------------- MODULE OfflineSync -----------------------------
(***************************************************************************)
(* Offline changes of one device and their synchronisation with the server *)
(* (src/services/OfflineSyncService.ts, src/services/ReconnectionHandler.ts)*)
(*                                                                         *)
(* A change is recorded in the IndexedDB store "changes".  A sync reads    *)
(* those not yet synced, fetches remote changes, compares, waits for or    *)
(* applies conflict resolutions, pushes each change with retries, marks    *)
(* them synced one by one and deletes what is marked.  Each of these is a  *)
(* step between two awaits, so changes are recorded and another sync runs  *)
(* in between.  The browser may also drop the page at any point: only the  *)
(* store survives.                                                         *)
(*                                                                         *)
(* Changes are numbered in the order they are recorded.  The store returns *)
(* them in the order of their keys, which is another one: a key is the     *)
(* millisecond followed by a random UUID, so that changes of one           *)
(* millisecond, or recorded before and after the clock was set back, come  *)
(* in any order.                                                           *)
(***************************************************************************)
EXTENDS Naturals, FiniteSets

CONSTANTS
  Flows,         \* "event": handleReconnection; "direct": a caller of
                 \* synchronizeAllChanges(), which the guard does not cover
  Resources,     \* what changes are made to
  Strategy,      \* options.conflictResolution
  MaxRetries,    \* options.maxRetries || 3
  MaxChanges,    \* bound on the changes recorded on this device
  MaxRemote,     \* bound on the changes other devices give the server
  MaxSyncs,      \* bound on the syncs started
  MaxFailures,   \* bound on the calls of syncChange that reject
  MaxAborts      \* bound on page reloads, IndexedDB errors and listeners
                 \* that throw

ASSUME FlowsAssumption == Flows \subseteq {"event", "direct"}
ASSUME StrategyAssumption == Strategy \in {"local", "remote", "manual"}
ASSUME RetriesAssumption == MaxRetries \in Nat \ {0}
ASSUME BoundsAssumption ==
  {MaxChanges, MaxRemote, MaxSyncs, MaxFailures, MaxAborts} \subseteq Nat

Changes == 1..MaxChanges
Remotes == 1..MaxRemote

VARIABLES
  recorded,        \* how many changes were recorded
  resource,        \* the resource of each change
  stamp,           \* and the time it was recorded
  key,             \* the place of its key among all keys, 0 before
  store,           \* the store "changes": unsynced, synced, or absent
  lastServerSync,  \* the metadata of that name
  remote,          \* the server's changes of other devices: resource, time
  delivered,       \* the changes syncChange brought to the server
  serverLast,      \* the change last applied to each resource by syncChange
  now,             \* the time, as the number of changes made anywhere
  isReconnecting,  \* the flag of the same name
  flow,            \* the syncs under way: where each is and its locals
  answered,        \* the conflicts the user called resolveConflict for
  syncs, failures, aborts

changeVars == <<recorded, resource, stamp, key>>
deviceVars == <<changeVars, store, lastServerSync>>
serverVars == <<remote, delivered, serverLast, now>>
boundVars == <<syncs, failures, aborts>>
vars == <<deviceVars, serverVars, isReconnecting, flow, answered, boundVars>>

PCs == {"idle", "read", "fetch", "stamp", "detect", "wait", "push", "mark", "clear"}

\* A conflict is the pair of a local change and a remote one.
Conflict == Changes \X Remotes

Idle == [pc |-> "idle", snapshot |-> {}, todo |-> {}, tries |-> 0,
         fetched |-> {}, conflicts |-> {}]

\* The next change of a loop: getAll() has returned them by key.
First_Newest(S) == CHOOSE c \in S : \A d \in S : key[c] >= key[d]
First(S) == CHOOSE c \in S : \A d \in S : key[c] <= key[d]

Stored == {c \in 1..recorded : store[c] # "absent"}
Unsynced == {c \in 1..recorded : store[c] = "unsynced"}

Init ==
  /\ recorded = 0
  /\ resource \in [Changes -> Resources]
  /\ stamp = [c \in Changes |-> 0]
  /\ key = [c \in Changes |-> 0]
  /\ store = [c \in Changes |-> "absent"]
  /\ lastServerSync = 0
  /\ remote = {}
  /\ delivered = {}
  /\ serverLast = [r \in Resources |-> 0]
  /\ now = 0
  /\ isReconnecting = FALSE
  /\ flow = [f \in Flows |-> Idle]
  /\ answered = {}
  /\ syncs = 0 /\ failures = 0 /\ aborts = 0

(***************************************************************************)
(* The user and the other devices.                                         *)
(***************************************************************************)
\* generateId(): a key no other change has.
NewKeys == Changes \ {key[c] : c \in Changes}

RecordChange ==
  LET c == recorded + 1 IN
  /\ c \in Changes
  /\ recorded' = c
  /\ now' = now + 1
  /\ stamp' = [stamp EXCEPT ![c] = now']
  /\ \E k \in NewKeys : key' = [key EXCEPT ![c] = k]
  /\ store' = [store EXCEPT ![c] = "unsynced"]
  /\ UNCHANGED <<resource, lastServerSync, remote, delivered, serverLast,
                 isReconnecting, flow, answered, boundVars>>

RemoteChange(r) ==
  /\ Cardinality(remote) < MaxRemote
  /\ now' = now + 1
  /\ remote' = remote \cup {[id |-> Cardinality(remote) + 1, resource |-> r,
                             time |-> now']}
  /\ UNCHANGED <<deviceVars, delivered, serverLast, isReconnecting, flow,
                 answered, boundVars>>

\* resolveConflict() looks the conflict up in the store "conflicts", where
\* nothing ever puts one, and resolves without having changed anything.
ResolveConflict(f) ==
  /\ flow[f].pc = "wait"
  /\ answered' = answered \cup flow[f].conflicts
  /\ answered' # answered
  /\ UNCHANGED <<deviceVars, serverVars, isReconnecting, flow, boundVars>>

(***************************************************************************)
(* synchronizeAllChanges(), one step per await.                            *)
(***************************************************************************)
Goto(f, pc) == flow' = [flow EXCEPT ![f].pc = pc]

\* The end of the call; handleReconnection then lowers its flag.
Finish_KeepsGuard(f) == flow' = [flow EXCEPT ![f] = Idle] /\ UNCHANGED isReconnecting
Finish(f) ==
  /\ flow' = [flow EXCEPT ![f] = Idle]
  /\ isReconnecting' = IF f = "event" THEN FALSE ELSE isReconnecting

Start(f) ==
  /\ syncs < MaxSyncs
  /\ flow[f].pc = "idle"
  /\ f = "event" => ~isReconnecting
  /\ isReconnecting' = IF f = "event" THEN TRUE ELSE isReconnecting
  /\ Goto(f, "read")
  /\ syncs' = syncs + 1
  /\ UNCHANGED <<deviceVars, serverVars, answered, failures, aborts>>

\* A listener of 'reconnecting' throws (:71): the flag is up by then, and the
\* try whose finally lowers it is not yet entered.  Only a reload lowers it.
ReconnectingThrows ==
  /\ "event" \in Flows /\ ~isReconnecting
  /\ aborts < MaxAborts
  /\ isReconnecting' = TRUE
  /\ aborts' = aborts + 1
  /\ UNCHANGED <<deviceVars, serverVars, flow, answered, syncs, failures>>

GetUnsyncedChanges(f) ==
  /\ flow[f].pc = "read"
  /\ \/ /\ Unsynced = {}
        /\ Finish(f)
     \/ /\ Unsynced # {}
        /\ flow' = [flow EXCEPT ![f].pc = "fetch", ![f].snapshot = Unsynced]
        /\ UNCHANGED isReconnecting
  /\ UNCHANGED <<deviceVars, serverVars, answered, boundVars>>

\* The server answers getChanges({since: lastServerSync}); a rejection is
\* swallowed and counts as no change.
FetchRemoteChanges(f) ==
  /\ flow[f].pc = "fetch"
  /\ \/ flow' = [flow EXCEPT ![f].pc = "stamp",
                   ![f].fetched = {m \in remote : m.time > lastServerSync}]
     \/ Goto(f, "detect")
  /\ UNCHANGED <<deviceVars, serverVars, isReconnecting, answered, boundVars>>

\* setMetadata('lastServerSync', Date.now()), after the answer has come; the
\* answer is thrown away when the metadata cannot be stored.
SetLastServerSync(f) ==
  /\ flow[f].pc = "stamp"
  /\ \/ lastServerSync' = now /\ Goto(f, "detect")
     \/ /\ flow' = [flow EXCEPT ![f].pc = "detect", ![f].fetched = {}]
        /\ UNCHANGED lastServerSync
  /\ UNCHANGED <<changeVars, store, serverVars, isReconnecting,
                 answered, boundVars>>

\* detectConflicts(): every stored change newer than a fetched one of the same
\* resource.
Clashes(fetched) == {p \in Stored \X fetched : /\ resource[p[1]] = p[2].resource
                                              /\ stamp[p[1]] > p[2].time}
ConflictsWith_ByTime(fetched) == {<<p[1], p[2].time>> : p \in Clashes(fetched)}
ConflictsWith(fetched) == {<<p[1], p[2].id>> : p \in Clashes(fetched)}

\* Resolving them automatically changes nothing (see ResolveConflict).
DetectConflicts(f) ==
  LET found == ConflictsWith(flow[f].fetched)
      manual == found # {} /\ Strategy = "manual"
  IN
  /\ flow[f].pc = "detect"
  /\ flow' = [flow EXCEPT ![f].pc = IF manual THEN "wait" ELSE "push",
                          ![f].conflicts = found,
                          ![f].todo = flow[f].snapshot]
  /\ UNCHANGED <<deviceVars, serverVars, isReconnecting, answered, boundVars>>

\* The 30 s are over: proceed anyway.  No conflict in memory is ever given a
\* resolvedAt, so this is the only way out of the wait.
WaitTimesOut(f) ==
  /\ flow[f].pc = "wait"
  /\ Goto(f, "push")
  /\ UNCHANGED <<deviceVars, serverVars, isReconnecting, answered, boundVars>>

\* What the server does with a change it receives.
Receive(c) ==
  /\ delivered' = delivered \cup {c}
  /\ serverLast' = [serverLast EXCEPT ![resource[c]] = c]

PushNext_GivesUp(f, done) ==
  flow' = [flow EXCEPT ![f].todo = @ \ {First(@)}, ![f].tries = 0]
PushNext(f, done) ==
  flow' = [flow EXCEPT ![f].todo = IF done THEN @ \ {First(@)} ELSE @,
                       ![f].tries = IF done THEN 0 ELSE @ + 1]

PushSucceeds(f) ==
  /\ flow[f].pc = "push" /\ flow[f].todo # {}
  /\ Receive(First(flow[f].todo))
  /\ PushNext(f, TRUE)
  /\ UNCHANGED <<deviceVars, remote, now, isReconnecting, answered, boundVars>>

\* syncChange() rejects: the change did not arrive, or its answer was lost.
\* After maxRetries of these the loop moves on to the next change.
PushFails(f) ==
  /\ flow[f].pc = "push" /\ flow[f].todo # {}
  /\ failures < MaxFailures
  /\ failures' = failures + 1
  /\ Receive(First(flow[f].todo)) \/ UNCHANGED <<delivered, serverLast>>
  /\ PushNext(f, flow[f].tries + 1 = MaxRetries)
  /\ UNCHANGED <<deviceVars, remote, now, isReconnecting, answered, syncs, aborts>>

\* All changes were tried.  Peers are sent them too, which changes nothing here.
PushEnds(f) ==
  /\ flow[f].pc = "push" /\ flow[f].todo = {}
  /\ flow' = [flow EXCEPT ![f].pc = "mark", ![f].todo = flow[f].snapshot]
  /\ UNCHANGED <<deviceVars, serverVars, isReconnecting, answered, boundVars>>

\* markAsSynced() of the next change; it resolves when the change is gone.
MarkAsSynced(f) ==
  /\ flow[f].pc = "mark" /\ flow[f].todo # {}
  /\ LET c == First(flow[f].todo) IN
     /\ store' = IF store[c] = "absent" THEN store
                 ELSE [store EXCEPT ![c] = "synced"]
     /\ flow' = [flow EXCEPT ![f].todo = @ \ {c}]
  /\ UNCHANGED <<changeVars, lastServerSync, serverVars,
                 isReconnecting, answered, boundVars>>

MarkEnds(f) ==
  /\ flow[f].pc = "mark" /\ flow[f].todo = {}
  /\ Goto(f, "clear")
  /\ UNCHANGED <<deviceVars, serverVars, isReconnecting, answered, boundVars>>

\* clearSyncedChanges() deletes every change marked, by whichever sync.
StoreCleared_Entirely == [c \in Changes |-> "absent"]
StoreCleared_Not == store
StoreCleared ==
  [c \in Changes |-> IF store[c] = "synced" THEN "absent" ELSE store[c]]

ClearSyncedChanges(f) ==
  /\ flow[f].pc = "clear"
  /\ store' = StoreCleared
  /\ Finish(f)
  /\ UNCHANGED <<changeVars, lastServerSync, serverVars,
                 answered, boundVars>>

(***************************************************************************)
(* Interruptions.                                                          *)
(***************************************************************************)
\* IndexedDB rejects, or a listener of the progress events throws: the sync ends
\* with success = false.
SyncFails(f) ==
  /\ aborts < MaxAborts
  /\ \/ flow[f].pc \in {"read", "detect", "wait", "mark", "clear"}
     \/ flow[f].pc = "push" /\ flow[f].todo = {}
  /\ aborts' = aborts + 1
  /\ Finish(f)
  /\ UNCHANGED <<deviceVars, serverVars, answered, syncs, failures>>

Reload ==
  /\ aborts < MaxAborts
  /\ aborts' = aborts + 1
  /\ flow' = [f \in Flows |-> Idle]
  /\ isReconnecting' = FALSE
  /\ UNCHANGED <<deviceVars, serverVars, answered, syncs, failures>>

SyncStep(f) == \/ GetUnsyncedChanges(f) \/ FetchRemoteChanges(f)
               \/ SetLastServerSync(f) \/ DetectConflicts(f) \/ WaitTimesOut(f)
               \/ PushSucceeds(f) \/ PushFails(f) \/ PushEnds(f)
               \/ MarkAsSynced(f) \/ MarkEnds(f) \/ ClearSyncedChanges(f)

Next == \/ RecordChange
        \/ \E r \in Resources : RemoteChange(r)
        \/ \E f \in Flows : ResolveConflict(f) \/ Start(f) \/ SyncStep(f) \/ SyncFails(f)
        \/ ReconnectingThrows
        \/ Reload

Spec == Init /\ [][Next]_vars

(***************************************************************************)
(* Fairness: a sync under way goes on, since every call it awaits settles. *)
(* Nobody has to start one.                                                *)
(***************************************************************************)
FairSpec == Spec /\ \A f \in Flows : WF_vars(SyncStep(f))

-----------------------------------------------------------------------------
FlowState == [pc : PCs, snapshot : SUBSET Changes, todo : SUBSET Changes,
              tries : 0..(MaxRetries - 1), conflicts : SUBSET Conflict,
              fetched : SUBSET [id : Remotes, resource : Resources, time : Nat]]

\* Every variable stays within its domain (the stores, the locals of the syncs).
TypeOK ==
  /\ recorded \in 0..MaxChanges
  /\ resource \in [Changes -> Resources]
  /\ stamp \in [Changes -> Nat] /\ key \in [Changes -> 0..MaxChanges]
  /\ store \in [Changes -> {"unsynced", "synced", "absent"}]
  /\ lastServerSync \in Nat
  /\ remote \subseteq [id : Remotes, resource : Resources, time : Nat]
  /\ delivered \subseteq 1..recorded
  /\ serverLast \in [Resources -> 0..MaxChanges]
  /\ now \in Nat
  /\ isReconnecting \in BOOLEAN
  /\ flow \in [Flows -> FlowState]
  /\ answered \subseteq Conflict
  /\ syncs \in 0..MaxSyncs /\ failures \in 0..MaxFailures /\ aborts \in 0..MaxAborts

\* "Mark as synced - in a real implementation, this would be done after
\* successful server/peer sync" (src/hooks/useReconnection.ts:179): a change
\* the device calls synced, or has deleted, was given to the server.
NoChangeLost ==
  \A c \in 1..recorded : store[c] # "unsynced" => c \in delivered

\* What a sync under way has pushed was given to the server, each failure of a
\* push was counted, and the locals name changes recorded before: with this
\* NoChangeLost is inductive as long as no loop can have given a change up.
LocalsKnown ==
  \A f \in Flows : flow[f].snapshot \cup flow[f].todo \subseteq 1..recorded
FailuresCounted == \A f \in Flows : flow[f].tries <= failures
Pushed(sync) ==
  /\ sync.pc \in {"wait", "push"} => sync.snapshot \ sync.todo \subseteq delivered
  /\ sync.pc \in {"mark", "clear"} => sync.snapshot \subseteq delivered
  /\ sync.pc = "mark" => sync.todo \subseteq sync.snapshot
PushedIsDelivered == \A f \in Flows : Pushed(flow[f])
NoneGivenUp == failures < MaxRetries => PushedIsDelivered /\ NoChangeLost
\* A key belongs to one change.
KeysDiffer == \A c, d \in 1..recorded : key[c] = key[d] => c = d
IInv == /\ TypeOK /\ IsFiniteSet(remote)
        /\ LocalsKnown /\ FailuresCounted /\ NoneGivenUp /\ KeysDiffer

\* If no two syncs ever overlap, and the changes of each resource were given keys
\* in the order they were recorded (each in a millisecond of its own, by a clock
\* that was not set back), the server ends up with each resource's latest change,
\* however often pushes were retried or repeated after a reload.  The code sees to
\* neither condition, and without either of them the server may end with an older
\* one.
OneSyncAtATime ==
  \A f, g \in Flows : flow[f].pc # "idle" /\ flow[g].pc # "idle" => f = g
KeysInOrder ==
  \A c, d \in 1..recorded : c < d /\ resource[c] = resource[d] => key[c] < key[d]
ServerHasLatest ==
  (Unsynced = {} /\ \A f \in Flows : flow[f].pc = "idle") =>
    \A c \in 1..recorded : serverLast[resource[c]] >= c
ServerIsCurrent == [](OneSyncAtATime /\ KeysInOrder) => []ServerHasLatest

\* The device keeps the promise of the abstract outbox.
Out == INSTANCE Outbox WITH count <- recorded, waiting <- Unsynced,
                            delivered <- delivered
DeliversAsPromised == Out!OutboxSpec

\* Whichever way the sync of an 'online' event ends, the guard is lowered again, so
\* that the next one can sync.  (An event that never gets as far as its sync leaves
\* it raised: see ReconnectingThrows.)
GuardIsLowered ==
  \A f \in Flows \ {"direct"} : flow[f].pc # "idle" ~> ~isReconnecting

\* A change recorded before a sync reads the store ends up off the device, unless
\* an interruption stops a sync.
RecordedGetsCleared ==
  \A c \in Changes : \A f \in Flows :
    flow[f].pc = "read" /\ store[c] = "unsynced" /\ aborts = 0
      ~> store[c] = "absent" \/ aborts > 0

\* "Wait for manual resolution" (ReconnectionHandler.ts:126): the wait runs out
\* of time only if the user left a conflict unresolved.
WaitEndsWhenResolved ==
  [][\A f \in Flows : WaitTimesOut(f) => ~(flow[f].conflicts \subseteq answered)]_vars
=============================================================================
