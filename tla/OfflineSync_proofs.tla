-------------------------- MODULE OfflineSync_proofs --------------------------
(***************************************************************************)
(* Proofs about OfflineSync: for any flows, resources and bounds, as long  *)
(* as fewer pushes failed than the retries of one loop, no change leaves   *)
(* the device before the server was given it, and syncs that do not        *)
(* overlap leave the server with the latest changes.                       *)
(***************************************************************************)
EXTENDS OfflineSync, FiniteSetTheorems, WellFoundedInduction, TLAPS

\* A set of numbers has a least one.  (Of the intervals that end in the set, one
\* contains no other.)
LEMMA LeastIsThere ==
  ASSUME NEW S \in SUBSET Nat, S # {}
  PROVE  \E c \in S : \A d \in S : c <= d
<1> DEFINE T == {1..c : c \in S}
<1>1. T # {} /\ T \subseteq FiniteSubsetsOf(Nat)
  <2>1. \A c \in S : 1..c \in SUBSET Nat /\ IsFiniteSet(1..c)
    BY FS_Interval
  <2> QED
    BY <2>1 DEF FiniteSubsetsOf
<1>2. PICK x \in T : \A y \in T : <<y, x>> \notin StrictSubsetOrdering(Nat)
  <2> HIDE DEF T
  <2> QED
    BY <1>1, FS_StrictSubsetOrderingWellFounded, WFMin
<1>3. PICK c \in S : x = 1..c
  OBVIOUS
<1>4. \A d \in S : c <= d
  <2> SUFFICES ASSUME NEW d \in S, d < c PROVE FALSE
    OBVIOUS
  <2>1. 1..d \subseteq 1..c /\ 1..d # 1..c /\ 1..d \in SUBSET Nat /\ 1..c \in SUBSET Nat
    OBVIOUS
  <2>2. <<1..d, x>> \in StrictSubsetOrdering(Nat)
    BY <2>1, <1>3 DEF StrictSubsetOrdering
  <2> QED
    BY <2>2, <1>2
<1> QED
  BY <1>4

\* The loops take a change there is: a set of changes has a first one.
LEMMA FirstIsThere ==
  ASSUME TypeOK, NEW S \in SUBSET Changes, S # {}
  PROVE  First(S) \in S /\ \A d \in S : key[First(S)] <= key[d]
<1> DEFINE K == {key[c] : c \in S}
<1>1. K \in SUBSET Nat /\ K # {}
  BY BoundsAssumption DEF TypeOK
<1>2. PICK k \in K : \A l \in K : k <= l
  <2> HIDE DEF K
  <2> QED
    BY <1>1, LeastIsThere
<1>3. PICK c \in S : key[c] = k
  BY <1>2
<1>4. \A d \in S : key[c] <= key[d]
  BY <1>2, <1>3
<1> QED
  BY <1>4 DEF First

\* The device starts in the invariant.
LEMMA InitIInv == Init => IInv
<1> SUFFICES ASSUME Init PROVE IInv
  OBVIOUS
<1> USE BoundsAssumption, RetriesAssumption
<1>1. TypeOK
  <2>1. Idle \in FlowState
    BY DEF Idle, FlowState, PCs
  <2>2. {MaxChanges, MaxSyncs, MaxFailures, MaxAborts} \subseteq Nat
    OBVIOUS
  <2>3. /\ recorded \in 0..MaxChanges /\ syncs \in 0..MaxSyncs
        /\ failures \in 0..MaxFailures /\ aborts \in 0..MaxAborts
    BY <2>2 DEF Init
  <2>4. flow \in [Flows -> FlowState]
    BY <2>1 DEF Init
  <2>5. serverLast \in [Resources -> 0..MaxChanges]
    BY <2>2 DEF Init
  <2> QED
    BY <2>3, <2>4, <2>5 DEF Init, TypeOK
<1>2. IsFiniteSet(remote)
  BY FS_EmptySet DEF Init
<1>3. LocalsKnown /\ FailuresCounted /\ PushedIsDelivered /\ NoChangeLost
  BY DEF Init, LocalsKnown, FailuresCounted, PushedIsDelivered, Pushed, NoChangeLost,
         Idle
<1>4. KeysDiffer
  BY DEF Init, KeysDiffer
<1> QED
  BY <1>1, <1>2, <1>3, <1>4 DEF IInv, NoneGivenUp

\* A new change is not yet in any sync and is kept.
LEMMA RecordChangeIInv == IInv /\ RecordChange => IInv'
<1> SUFFICES ASSUME IInv, RecordChange PROVE IInv'
  OBVIOUS
<1> USE BoundsAssumption
<1>0. PICK k \in NewKeys : key' = [key EXCEPT ![recorded + 1] = k]
  BY DEF RecordChange
<1>1. TypeOK'
  <2>1. key' \in [Changes -> 0..MaxChanges]
    <3>1. k \in 0..MaxChanges
      BY MaxChanges \in Nat DEF NewKeys, Changes
    <3> QED
      BY <1>0, <3>1 DEF IInv, TypeOK
  <2>2. store' \in [Changes -> {"unsynced", "synced", "absent"}] /\ now' \in Nat
    BY DEF IInv, TypeOK, RecordChange
  <2>3. stamp' \in [Changes -> Nat]
    BY <2>2 DEF IInv, TypeOK, RecordChange
  <2>4. /\ recorded' \in 0..MaxChanges /\ delivered' \subseteq 1..recorded'
        /\ UNCHANGED <<resource, lastServerSync, remote, serverLast, isReconnecting,
                       flow, answered, syncs, failures, aborts>>
    BY DEF IInv, TypeOK, RecordChange, Changes, boundVars
  <2> QED
    BY <2>1, <2>2, <2>3, <2>4 DEF IInv, TypeOK
<1>2. LocalsKnown' /\ FailuresCounted'
  BY DEF IInv, TypeOK, LocalsKnown, FailuresCounted, RecordChange, boundVars
<1>3. NoneGivenUp'
  BY DEF IInv, TypeOK, NoneGivenUp, PushedIsDelivered, Pushed, NoChangeLost,
         RecordChange, Changes, boundVars
<1>4. KeysDiffer'
  <2>1. /\ recorded' = recorded + 1 /\ recorded + 1 \in Changes
        /\ recorded \in 0..MaxChanges /\ key \in [Changes -> 0..MaxChanges]
    BY DEF RecordChange, IInv, TypeOK
  <2>2. \A c \in 1..recorded : c \in Changes /\ c # recorded + 1 /\ key[c] # k
    BY <2>1 DEF NewKeys, Changes
  <2>3. \A c \in 1..recorded' : c \in 1..recorded \/ c = recorded + 1
    BY <2>1
  <2>4. /\ key'[recorded + 1] = k /\ \A c \in 1..recorded : key'[c] = key[c]
    BY <1>0, <2>1, <2>2
  <2> QED
    BY <2>2, <2>3, <2>4 DEF IInv, KeysDiffer
<1> QED
  BY <1>1, <1>2, <1>3, <1>4 DEF IInv, RecordChange

\* The changes of other devices do not touch this one's.
LEMMA RemoteChangeIInv ==
  ASSUME IInv, NEW r \in Resources, RemoteChange(r)
  PROVE  IInv'
<1> USE BoundsAssumption
<1>1. Cardinality(remote) + 1 \in Remotes /\ IsFiniteSet(remote')
  <2>1. IsFiniteSet(remote) /\ Cardinality(remote) \in Nat
    BY FS_CardinalityType DEF IInv
  <2>2. Cardinality(remote) + 1 \in Remotes
    BY <2>1 DEF RemoteChange, Remotes
  <2> QED
    BY <2>1, <2>2, FS_AddElement DEF RemoteChange
<1>2. TypeOK'
  BY <1>1 DEF IInv, TypeOK, RemoteChange, deviceVars, changeVars, boundVars
<1>3. LocalsKnown' /\ FailuresCounted' /\ NoneGivenUp' /\ KeysDiffer'
  BY DEF IInv, LocalsKnown, FailuresCounted, NoneGivenUp, PushedIsDelivered, KeysDiffer,
         Pushed, NoChangeLost, RemoteChange, deviceVars, changeVars, boundVars
<1> QED
  BY <1>1, <1>2, <1>3 DEF IInv

\* A step that only moves syncs, and marks or pushes nothing, preserves the
\* invariant if the syncs' locals still satisfy their part of it.
LEMMA FlowOnlyIInv ==
  ASSUME IInv, flow' \in [Flows -> FlowState], lastServerSync' \in Nat,
         isReconnecting' \in BOOLEAN, answered' \subseteq Conflict,
         syncs' \in 0..MaxSyncs, aborts' \in 0..MaxAborts,
         UNCHANGED <<changeVars, store, serverVars, failures>>,
         LocalsKnown', FailuresCounted', PushedIsDelivered => PushedIsDelivered'
  PROVE  IInv'
<1> USE DEF changeVars
<1>1. TypeOK'
  BY DEF IInv, TypeOK, serverVars
<1>2. NoneGivenUp' /\ KeysDiffer'
  BY DEF IInv, NoneGivenUp, NoChangeLost, KeysDiffer, serverVars
<1> QED
  BY <1>1, <1>2 DEF IInv, serverVars

\* One sync's locals replaced by others that satisfy their part of the invariant.
LEMMA LocalsIInv ==
  ASSUME IInv, NEW f \in Flows, NEW new \in FlowState,
         new.snapshot \cup new.todo \subseteq 1..recorded,
         new.tries <= failures,
         PushedIsDelivered => Pushed(new),
         flow' = [flow EXCEPT ![f] = new], lastServerSync' \in Nat,
         isReconnecting' \in BOOLEAN,
         UNCHANGED <<changeVars, store, serverVars, answered, failures>>,
         syncs' \in 0..MaxSyncs, aborts' \in 0..MaxAborts
  PROVE  IInv'
<1> USE DEF changeVars
<1>1. flow' \in [Flows -> FlowState]
  BY DEF IInv, TypeOK
<1>2. LocalsKnown' /\ FailuresCounted'
  BY DEF IInv, TypeOK, LocalsKnown, FailuresCounted
<1>3. PushedIsDelivered => PushedIsDelivered'
  BY DEF IInv, TypeOK, PushedIsDelivered, Pushed, serverVars
<1>4. answered' \subseteq Conflict
  BY DEF IInv, TypeOK
<1> QED
  BY <1>1, <1>2, <1>3, <1>4, FlowOnlyIInv

\* A sync that is over has forgotten its locals.
LEMMA FinishIInv ==
  ASSUME IInv, NEW f \in Flows, Finish(f),
         UNCHANGED <<deviceVars, serverVars, answered, syncs, failures>>,
         aborts' \in 0..MaxAborts
  PROVE  IInv'
<1>1. Idle \in FlowState
  BY RetriesAssumption DEF Idle, FlowState, PCs
<1>2. failures \in Nat
  BY BoundsAssumption DEF IInv, TypeOK
<1>3. flow' = [flow EXCEPT ![f] = Idle] /\ isReconnecting' \in BOOLEAN
  BY DEF Finish, IInv, TypeOK
<1>4. /\ Idle.snapshot \cup Idle.todo \subseteq 1..recorded
      /\ Idle.tries <= failures /\ Pushed(Idle)
  BY <1>2 DEF Idle, Pushed
<1>5. syncs' \in 0..MaxSyncs /\ lastServerSync' \in Nat
  BY DEF IInv, TypeOK, deviceVars
<1> QED
  BY <1>1, <1>3, <1>4, <1>5, LocalsIInv DEF deviceVars

\* The steps before the push preserve the invariant: what they read was recorded.
LEMMA PrepareIInv ==
  ASSUME IInv, NEW f \in Flows,
         \/ Start(f) \/ GetUnsyncedChanges(f) \/ FetchRemoteChanges(f)
         \/ SetLastServerSync(f)
  PROVE  IInv'
<1> USE DEF deviceVars, changeVars, serverVars, boundVars
<1>0. /\ flow[f] \in FlowState /\ flow[f].snapshot \cup flow[f].todo \subseteq 1..recorded
      /\ flow[f].tries <= failures /\ recorded \in 0..MaxChanges
      /\ lastServerSync \in Nat /\ now \in Nat /\ isReconnecting \in BOOLEAN
      /\ syncs \in 0..MaxSyncs /\ aborts \in 0..MaxAborts /\ failures \in 0..MaxFailures
      /\ remote \subseteq [id : Remotes, resource : Resources, time : Nat]
      /\ flow \in [Flows -> FlowState]
  BY DEF IInv, TypeOK, LocalsKnown, FailuresCounted
<1>1. CASE Start(f)
  <2> DEFINE new == [flow[f] EXCEPT !.pc = "read"]
  <2>1. new \in FlowState /\ flow' = [flow EXCEPT ![f] = new]
    BY <1>0, <1>1 DEF FlowState, PCs, Start, Goto
  <2>2. /\ new.snapshot = flow[f].snapshot /\ new.todo = flow[f].todo
        /\ new.tries = flow[f].tries /\ new.pc = "read"
    BY <1>0 DEF FlowState
  <2>3. syncs' \in 0..MaxSyncs
    BY <1>0, <1>1, BoundsAssumption DEF Start
  <2>4. isReconnecting' \in BOOLEAN
    BY <1>0, <1>1 DEF Start
  <2> HIDE DEF new
  <2> QED
    BY <1>0, <1>1, <2>1, <2>2, <2>3, <2>4, LocalsIInv DEF Start, Pushed
<1>2. CASE GetUnsyncedChanges(f)
  <2>1. CASE Finish(f)
    BY <1>0, <1>2, <2>1, FinishIInv DEF GetUnsyncedChanges
  <2>2. CASE flow' = [flow EXCEPT ![f].pc = "fetch", ![f].snapshot = Unsynced]
             /\ UNCHANGED isReconnecting
    <3> DEFINE new == [flow[f] EXCEPT !.pc = "fetch", !.snapshot = Unsynced]
    <3>1. Unsynced \subseteq 1..recorded /\ Unsynced \subseteq Changes
      BY <1>0, BoundsAssumption DEF Unsynced, Changes
    <3>2. new \in FlowState /\ flow' = [flow EXCEPT ![f] = new]
      BY <1>0, <2>2, <3>1 DEF FlowState, PCs
    <3>3. /\ new.snapshot = Unsynced /\ new.todo = flow[f].todo
          /\ new.tries = flow[f].tries /\ new.pc = "fetch"
      BY <1>0 DEF FlowState
    <3> HIDE DEF new
    <3> QED
      BY <1>0, <1>2, <2>2, <3>1, <3>2, <3>3, LocalsIInv DEF GetUnsyncedChanges, Pushed
  <2> QED
    BY <1>2, <2>1, <2>2 DEF GetUnsyncedChanges
<1>3. CASE FetchRemoteChanges(f) \/ SetLastServerSync(f)
  <2>1. PICK new \in FlowState :
          /\ flow' = [flow EXCEPT ![f] = new]
          /\ new.snapshot = flow[f].snapshot /\ new.todo = flow[f].todo
          /\ new.tries = flow[f].tries /\ new.pc \in {"stamp", "detect"}
    <3>1. flow'[f] \in FlowState /\ flow' = [flow EXCEPT ![f] = flow'[f]]
      BY <1>0, <1>3 DEF FlowState, PCs, FetchRemoteChanges, SetLastServerSync, Goto
    <3>2. /\ flow'[f].snapshot = flow[f].snapshot /\ flow'[f].todo = flow[f].todo
          /\ flow'[f].tries = flow[f].tries /\ flow'[f].pc \in {"stamp", "detect"}
      BY <1>0, <1>3 DEF FlowState, FetchRemoteChanges, SetLastServerSync, Goto
    <3> QED
      BY <3>1, <3>2
  <2>2. lastServerSync' \in Nat
    BY <1>0, <1>3 DEF FetchRemoteChanges, SetLastServerSync
  <2> QED
    BY <1>0, <1>3, <2>1, <2>2, LocalsIInv
    DEF FetchRemoteChanges, SetLastServerSync, Pushed
<1> QED
  BY <1>1, <1>2, <1>3

\* What is found to conflict are stored changes and fetched ones.
LEMMA ConflictsFit ==
  ASSUME IInv, NEW fetched \in SUBSET [id : Remotes, resource : Resources, time : Nat]
  PROVE  ConflictsWith(fetched) \in SUBSET Conflict
<1>1. Stored \subseteq Changes
  BY BoundsAssumption DEF IInv, TypeOK, Stored, Changes
<1> QED
  BY <1>1 DEF ConflictsWith, Clashes, Conflict

\* Comparing, waiting and the ends of the loops preserve the invariant: the push
\* starts with everything to do and ends when all of it was given.
LEMMA TurnIInv ==
  ASSUME IInv, NEW f \in Flows,
         DetectConflicts(f) \/ WaitTimesOut(f) \/ PushEnds(f) \/ MarkEnds(f)
  PROVE  IInv'
<1> USE DEF deviceVars, changeVars, serverVars, boundVars
<1>0. /\ flow[f] \in FlowState /\ flow[f].snapshot \cup flow[f].todo \subseteq 1..recorded
      /\ flow[f].tries <= failures /\ lastServerSync \in Nat /\ isReconnecting \in BOOLEAN
      /\ syncs \in 0..MaxSyncs /\ aborts \in 0..MaxAborts
      /\ flow \in [Flows -> FlowState]
  BY DEF IInv, TypeOK, LocalsKnown, FailuresCounted
<1>2. SUFFICES ASSUME NEW new \in FlowState, flow' = [flow EXCEPT ![f] = new],
                      new.snapshot = flow[f].snapshot,
                      new.todo \in {flow[f].todo, flow[f].snapshot},
                      new.tries = flow[f].tries,
                      PushedIsDelivered => Pushed(new)
               PROVE  IInv'
  <2>1. PushedIsDelivered => Pushed(flow[f])
    BY DEF PushedIsDelivered
  <2>2. CASE DetectConflicts(f)
    <3> DEFINE found == ConflictsWith(flow[f].fetched)
               pc == IF found # {} /\ Strategy = "manual" THEN "wait" ELSE "push"
               new == [flow[f] EXCEPT !.pc = pc, !.conflicts = found,
                                      !.todo = flow[f].snapshot]
    <3>1. found \in SUBSET Conflict
      BY <1>0, ConflictsFit DEF FlowState
    <3>2. pc \in {"wait", "push"}
      OBVIOUS
    <3>3. flow' = [flow EXCEPT ![f] = new]
      BY <1>0, <2>2 DEF DetectConflicts
    <3> HIDE DEF found, pc
    <3>4. /\ new \in FlowState /\ new.snapshot = flow[f].snapshot
          /\ new.todo = flow[f].snapshot /\ new.tries = flow[f].tries /\ new.pc = pc
      BY <1>0, <3>1, <3>2 DEF FlowState, PCs
    <3> HIDE DEF new
    <3>5. Pushed(new)
      BY <3>2, <3>4 DEF Pushed
    <3> QED
      BY <1>2, <3>3, <3>4, <3>5
  <2>3. CASE WaitTimesOut(f)
    <3> DEFINE new == [flow[f] EXCEPT !.pc = "push"]
    <3>1. flow' = [flow EXCEPT ![f] = new] /\ flow[f].pc = "wait"
      BY <1>0, <2>3 DEF WaitTimesOut, Goto
    <3>2. /\ new \in FlowState /\ new.snapshot = flow[f].snapshot
          /\ new.todo = flow[f].todo /\ new.tries = flow[f].tries /\ new.pc = "push"
      BY <1>0 DEF FlowState, PCs
    <3> HIDE DEF new
    <3> QED
      BY <1>2, <2>1, <3>1, <3>2 DEF Pushed
  <2>4. CASE MarkEnds(f)
    <3> DEFINE new == [flow[f] EXCEPT !.pc = "clear"]
    <3>1. flow' = [flow EXCEPT ![f] = new] /\ flow[f].pc = "mark"
      BY <1>0, <2>4 DEF MarkEnds, Goto
    <3>2. /\ new \in FlowState /\ new.snapshot = flow[f].snapshot
          /\ new.todo = flow[f].todo /\ new.tries = flow[f].tries /\ new.pc = "clear"
      BY <1>0 DEF FlowState, PCs
    <3> HIDE DEF new
    <3> QED
      BY <1>2, <2>1, <3>1, <3>2 DEF Pushed
  <2>5. CASE PushEnds(f)
    <3> DEFINE new == [flow[f] EXCEPT !.pc = "mark", !.todo = flow[f].snapshot]
    <3>1. /\ flow' = [flow EXCEPT ![f] = new]
          /\ flow[f].pc = "push" /\ flow[f].todo = {}
      BY <1>0, <2>5 DEF PushEnds
    <3>2. /\ new \in FlowState /\ new.snapshot = flow[f].snapshot
          /\ new.todo = flow[f].snapshot /\ new.tries = flow[f].tries /\ new.pc = "mark"
      BY <1>0 DEF FlowState, PCs
    <3> HIDE DEF new
    <3> QED
      BY <1>2, <2>1, <3>1, <3>2 DEF Pushed
  <2> QED
    BY <2>2, <2>3, <2>4, <2>5
<1>3. UNCHANGED <<changeVars, store, serverVars, answered, failures,
                  lastServerSync, isReconnecting, syncs, aborts>>
  BY DEF DetectConflicts, WaitTimesOut, PushEnds, MarkEnds
<1>4. new.snapshot \cup new.todo \subseteq 1..recorded /\ new.tries <= failures
  BY <1>0, <1>2
<1> QED
  BY <1>0, <1>2, <1>3, <1>4, LocalsIInv

\* An answer of the user, an error of the store, a listener that throws and a
\* reload preserve the invariant.
LEMMA InterruptIInv ==
  ASSUME IInv,
         Reload \/ ReconnectingThrows \/ \E f \in Flows : ResolveConflict(f) \/ SyncFails(f)
  PROVE  IInv'
<1> USE DEF deviceVars, changeVars, boundVars
<1>0. /\ lastServerSync \in Nat /\ isReconnecting \in BOOLEAN /\ failures \in Nat
      /\ syncs \in 0..MaxSyncs /\ aborts \in 0..MaxAborts
      /\ flow \in [Flows -> FlowState] /\ answered \subseteq Conflict
  BY BoundsAssumption DEF IInv, TypeOK
<1>1. CASE Reload
  <2>1. Idle \in FlowState
    BY RetriesAssumption DEF Idle, FlowState, PCs
  <2>2. flow' \in [Flows -> FlowState] /\ LocalsKnown' /\ FailuresCounted'
    BY <1>0, <1>1, <2>1 DEF Reload, LocalsKnown, FailuresCounted, Idle
  <2>3. PushedIsDelivered'
    BY <1>1 DEF Reload, PushedIsDelivered, Pushed, Idle
  <2>4. aborts' \in 0..MaxAborts
    BY <1>0, <1>1, BoundsAssumption DEF Reload
  <2> QED
    BY <1>0, <1>1, <2>2, <2>3, <2>4, FlowOnlyIInv DEF Reload
<1>2. ASSUME NEW f \in Flows, ResolveConflict(f) PROVE IInv'
  <2>1. answered' \subseteq Conflict
    BY <1>0, <1>2 DEF ResolveConflict, FlowState
  <2>2. LocalsKnown' /\ FailuresCounted' /\ (PushedIsDelivered => PushedIsDelivered')
    BY <1>2 DEF IInv, ResolveConflict, LocalsKnown, FailuresCounted, PushedIsDelivered,
                Pushed, serverVars
  <2> QED
    BY <1>0, <1>2, <2>1, <2>2, FlowOnlyIInv DEF ResolveConflict
<1>3. ASSUME NEW f \in Flows, SyncFails(f) PROVE IInv'
  <2>1. aborts' \in 0..MaxAborts
    BY <1>0, <1>3, BoundsAssumption DEF SyncFails
  <2> QED
    BY <1>3, <2>1, FinishIInv DEF SyncFails
<1>4. CASE ReconnectingThrows
  <2>1. LocalsKnown' /\ FailuresCounted' /\ (PushedIsDelivered => PushedIsDelivered')
    BY <1>4 DEF IInv, ReconnectingThrows, LocalsKnown, FailuresCounted, PushedIsDelivered,
                Pushed, serverVars
  <2>2. aborts' \in 0..MaxAborts
    BY <1>0, <1>4, BoundsAssumption DEF ReconnectingThrows
  <2> QED
    BY <1>0, <1>4, <2>1, <2>2, FlowOnlyIInv DEF ReconnectingThrows
<1> QED
  BY <1>1, <1>2, <1>3, <1>4

\* What the server receives was recorded, and it keeps what it has.
LEMMA ReceiveFits ==
  ASSUME IInv, NEW c \in 1..recorded, Receive(c) \/ UNCHANGED <<delivered, serverLast>>
  PROVE  /\ delivered \subseteq delivered' /\ delivered' \subseteq 1..recorded
         /\ serverLast' \in [Resources -> 0..MaxChanges]
         /\ Receive(c) => c \in delivered'
<1>1. c \in Changes /\ c \in 0..MaxChanges
  BY BoundsAssumption DEF IInv, TypeOK, Changes
<1>2. resource[c] \in Resources
  BY <1>1 DEF IInv, TypeOK
<1>3. delivered \subseteq 1..recorded /\ serverLast \in [Resources -> 0..MaxChanges]
  BY DEF IInv, TypeOK
<1>4. CASE Receive(c)
  <2>1. delivered' = delivered \cup {c}
    BY <1>4 DEF Receive
  <2>2. serverLast' \in [Resources -> 0..MaxChanges]
    BY <1>1, <1>2, <1>3, <1>4 DEF Receive
  <2> QED
    BY <1>3, <2>1, <2>2
<1>5. CASE UNCHANGED <<delivered, serverLast>> /\ ~Receive(c)
  BY <1>3, <1>5
<1> QED
  BY <1>4, <1>5

\* Pushing preserves the invariant: a change leaves the loop when the server was
\* given it, or when as many pushes failed as there are retries.
LEMMA PushIInv ==
  ASSUME IInv, NEW f \in Flows, PushSucceeds(f) \/ PushFails(f)
  PROVE  IInv'
<1> USE DEF deviceVars, changeVars, boundVars
<1> DEFINE c == First(flow[f].todo)
<1>0. /\ flow[f] \in FlowState /\ flow[f].snapshot \cup flow[f].todo \subseteq 1..recorded
      /\ flow[f].tries <= failures /\ failures \in 0..MaxFailures
      /\ flow \in [Flows -> FlowState] /\ recorded \in 0..MaxChanges
      /\ flow[f].tries \in 0..(MaxRetries - 1) /\ flow[f].todo \subseteq Changes
  BY DEF IInv, TypeOK, LocalsKnown, FailuresCounted, FlowState
<1>1. flow[f].pc = "push" /\ c \in flow[f].todo
  BY <1>0, FirstIsThere DEF PushSucceeds, PushFails, IInv
<1>2. /\ delivered \subseteq delivered' /\ delivered' \subseteq 1..recorded
      /\ serverLast' \in [Resources -> 0..MaxChanges]
      /\ Receive(c) => c \in delivered'
  <2>1. c \in 1..recorded
    BY <1>0, <1>1
  <2>2. Receive(c) \/ UNCHANGED <<delivered, serverLast>>
    BY DEF PushSucceeds, PushFails
  <2> HIDE DEF c
  <2> QED
    BY <2>1, <2>2, ReceiveFits
<1>3. failures' \in 0..MaxFailures /\ failures' >= failures
  <2>1. failures' = failures \/ (failures < MaxFailures /\ failures' = failures + 1)
    BY DEF PushSucceeds, PushFails
  <2> QED
    BY <1>0, <2>1, BoundsAssumption
<1>4. PICK new \in FlowState :
        /\ flow' = [flow EXCEPT ![f] = new]
        /\ new.pc = "push" /\ new.snapshot = flow[f].snapshot
        /\ new.todo \in {flow[f].todo, flow[f].todo \ {c}}
        /\ new.tries <= failures'
        /\ failures' < MaxRetries /\ new.todo # flow[f].todo => c \in delivered'
  <2>1. ASSUME NEW todo \in {flow[f].todo, flow[f].todo \ {c}}, NEW tries \in 0..(MaxRetries - 1),
               tries <= failures',
               flow' = [flow EXCEPT ![f].todo = todo, ![f].tries = tries],
               failures' < MaxRetries /\ todo # flow[f].todo => c \in delivered'
        PROVE  \E new \in FlowState :
                 /\ flow' = [flow EXCEPT ![f] = new]
                 /\ new.pc = "push" /\ new.snapshot = flow[f].snapshot
                 /\ new.todo \in {flow[f].todo, flow[f].todo \ {c}}
                 /\ new.tries <= failures'
                 /\ failures' < MaxRetries /\ new.todo # flow[f].todo => c \in delivered'
    <3> DEFINE new == [flow[f] EXCEPT !.todo = todo, !.tries = tries]
    <3> HIDE DEF c
    <3>1. flow' = [flow EXCEPT ![f] = new]
      BY <1>0, <2>1
    <3>2. todo \in SUBSET Changes
      BY <1>0
    <3>3. /\ new \in FlowState /\ new.snapshot = flow[f].snapshot
          /\ new.todo = todo /\ new.tries = tries /\ new.pc = "push"
      BY <1>0, <1>1, <3>2 DEF FlowState
    <3> HIDE DEF new
    <3> QED
      BY <2>1, <3>1, <3>3
  <2>2. CASE PushSucceeds(f)
    <3> HIDE DEF c
    <3>1. flow' = [flow EXCEPT ![f].todo = flow[f].todo \ {c}, ![f].tries = 0]
      BY <1>0, <2>2 DEF PushSucceeds, PushNext, c
    <3>2. c \in delivered' /\ 0 \in 0..(MaxRetries - 1) /\ 0 <= failures'
      BY <1>0, <1>2, <1>3, <2>2, RetriesAssumption DEF PushSucceeds, c
    <3> QED
      BY <2>1, <3>1, <3>2
  <2>3. CASE PushFails(f)
    <3> HIDE DEF c
    <3>1. failures' = failures + 1
      BY <2>3 DEF PushFails
    <3>2. CASE flow[f].tries + 1 = MaxRetries
      <4>1. flow' = [flow EXCEPT ![f].todo = flow[f].todo \ {c}, ![f].tries = 0]
        BY <1>0, <2>3, <3>2 DEF PushFails, PushNext, c
      <4>2. 0 \in 0..(MaxRetries - 1) /\ 0 <= failures' /\ ~(failures' < MaxRetries)
        BY <1>0, <3>1, <3>2, RetriesAssumption, BoundsAssumption
      <4> QED
        BY <2>1, <4>1, <4>2
    <3>3. CASE flow[f].tries + 1 # MaxRetries
      <4>1. flow' = [flow EXCEPT ![f].todo = flow[f].todo, ![f].tries = flow[f].tries + 1]
        BY <1>0, <2>3, <3>3 DEF PushFails, PushNext
      <4>2. /\ flow[f].tries + 1 \in 0..(MaxRetries - 1)
            /\ flow[f].tries + 1 <= failures'
        BY <1>0, <3>1, <3>3, RetriesAssumption, BoundsAssumption
      <4> QED
        BY <2>1, <4>1, <4>2
    <3> QED
      BY <3>2, <3>3
  <2> QED
    BY <2>2, <2>3
<1>5. UNCHANGED <<changeVars, store, lastServerSync, remote, now,
                  isReconnecting, answered, syncs, aborts>>
  BY DEF PushSucceeds, PushFails
<1> HIDE DEF c
<1>6. TypeOK'
  BY <1>2, <1>3, <1>4, <1>5 DEF IInv, TypeOK
<1>9. KeysDiffer'
  BY <1>5 DEF IInv, KeysDiffer
<1>7. LocalsKnown' /\ FailuresCounted'
  <2>1. \A g \in Flows : flow[g].tries \in Nat
    BY DEF IInv, TypeOK, FlowState
  <2> QED
    BY <1>0, <1>1, <1>3, <1>4, <1>5, <2>1, BoundsAssumption
    DEF IInv, LocalsKnown, FailuresCounted
<1>8. NoneGivenUp'
  <2> SUFFICES ASSUME failures' < MaxRetries
               PROVE  PushedIsDelivered' /\ NoChangeLost'
    BY DEF NoneGivenUp
  <2>1. PushedIsDelivered /\ NoChangeLost
    BY <1>0, <1>3, BoundsAssumption, RetriesAssumption DEF IInv, NoneGivenUp
  <2>2. NoChangeLost'
    BY <1>2, <1>5, <2>1 DEF NoChangeLost
  <2>3. \A g \in Flows \ {f} : Pushed(flow[g])'
    BY <1>0, <1>2, <1>4, <2>1 DEF PushedIsDelivered, Pushed
  <2>4. Pushed(flow[f])'
    BY <1>0, <1>1, <1>2, <1>4, <2>1 DEF PushedIsDelivered, Pushed
  <2> QED
    BY <2>2, <2>3, <2>4 DEF PushedIsDelivered
<1> QED
  BY <1>5, <1>6, <1>7, <1>8, <1>9 DEF IInv

\* Marking preserves the invariant: the change marked was in the snapshot.
LEMMA MarkIInv ==
  ASSUME IInv, NEW f \in Flows, MarkAsSynced(f)
  PROVE  IInv'
<1> USE DEF changeVars, serverVars, boundVars
<1> DEFINE c == First(flow[f].todo)
           new == [flow[f] EXCEPT !.todo = flow[f].todo \ {c}]
<1>0. /\ flow[f] \in FlowState /\ flow[f].snapshot \cup flow[f].todo \subseteq 1..recorded
      /\ flow \in [Flows -> FlowState] /\ flow[f].todo \subseteq Changes
  BY DEF IInv, TypeOK, LocalsKnown, FlowState
<1>1. flow[f].pc = "mark" /\ c \in flow[f].todo /\ flow[f].tries <= failures
  BY <1>0, FirstIsThere DEF MarkAsSynced, IInv, FailuresCounted
<1>2. /\ store' = IF store[c] = "absent" THEN store ELSE [store EXCEPT ![c] = "synced"]
      /\ flow' = [flow EXCEPT ![f] = new]
  BY <1>0 DEF MarkAsSynced
<1>3. UNCHANGED <<changeVars, lastServerSync, serverVars,
                  isReconnecting, answered, boundVars>>
  BY DEF MarkAsSynced
<1> HIDE DEF c
<1>4. /\ new \in FlowState /\ new.snapshot = flow[f].snapshot /\ new.pc = "mark"
      /\ new.todo = flow[f].todo \ {c} /\ new.tries = flow[f].tries
  BY <1>0, <1>1 DEF FlowState
<1> HIDE DEF new
<1>5. TypeOK'
  <2>1. store' \in [Changes -> {"unsynced", "synced", "absent"}]
    BY <1>2 DEF IInv, TypeOK
  <2> QED
    BY <1>2, <1>3, <1>4, <2>1 DEF IInv, TypeOK
<1>6. LocalsKnown' /\ FailuresCounted'
  BY <1>0, <1>1, <1>2, <1>3, <1>4 DEF IInv, LocalsKnown, FailuresCounted
<1>7. NoneGivenUp'
  <2> SUFFICES ASSUME PushedIsDelivered, NoChangeLost
               PROVE  PushedIsDelivered' /\ NoChangeLost'
    BY <1>3 DEF IInv, NoneGivenUp
  <2>1. PushedIsDelivered'
    BY <1>0, <1>1, <1>2, <1>3, <1>4 DEF PushedIsDelivered, Pushed
  <2>2. c \in delivered
    BY <1>1 DEF PushedIsDelivered, Pushed
  <2>3. NoChangeLost'
    BY <1>2, <1>3, <2>2 DEF NoChangeLost, IInv, TypeOK
  <2> QED
    BY <2>1, <2>3
<1>8. KeysDiffer'
  BY <1>3 DEF IInv, KeysDiffer
<1> QED
  BY <1>3, <1>5, <1>6, <1>7, <1>8 DEF IInv

\* Clearing preserves the invariant: only what was marked is deleted.
LEMMA ClearIInv ==
  ASSUME IInv, NEW f \in Flows, ClearSyncedChanges(f)
  PROVE  IInv'
<1> USE DEF changeVars, serverVars, boundVars
<1>1. Idle \in FlowState /\ flow' = [flow EXCEPT ![f] = Idle]
  BY RetriesAssumption DEF ClearSyncedChanges, Finish, Idle, FlowState, PCs
<1>2. isReconnecting' \in BOOLEAN
  BY DEF ClearSyncedChanges, Finish, IInv, TypeOK
<1>3. UNCHANGED <<changeVars, lastServerSync, serverVars, answered, boundVars>>
  BY DEF ClearSyncedChanges
<1>4. /\ store' \in [Changes -> {"unsynced", "synced", "absent"}]
      /\ \A c \in Changes : store'[c] # "unsynced" => store[c] # "unsynced"
  BY DEF ClearSyncedChanges, StoreCleared, IInv, TypeOK
<1>5. TypeOK'
  BY <1>1, <1>2, <1>3, <1>4 DEF IInv, TypeOK
<1>6. LocalsKnown' /\ FailuresCounted'
  <2>1. failures \in Nat
    BY BoundsAssumption DEF IInv, TypeOK
  <2> QED
    BY <1>1, <1>3, <2>1 DEF IInv, TypeOK, LocalsKnown, FailuresCounted, Idle
<1>7. NoneGivenUp'
  <2>1. 1..recorded \subseteq Changes
    BY BoundsAssumption DEF IInv, TypeOK, Changes
  <2>2. PushedIsDelivered => PushedIsDelivered'
    BY <1>1, <1>3 DEF IInv, TypeOK, PushedIsDelivered, Pushed, Idle
  <2>3. NoChangeLost => NoChangeLost'
    BY <1>3, <1>4, <2>1 DEF NoChangeLost
  <2> QED
    BY <1>3, <2>2, <2>3 DEF IInv, NoneGivenUp
<1>8. KeysDiffer'
  BY <1>3 DEF IInv, KeysDiffer
<1> QED
  BY <1>3, <1>5, <1>6, <1>7, <1>8 DEF IInv

\* No step leads out of the invariant.
LEMMA NextIInv == IInv /\ [Next]_vars => IInv'
<1> SUFFICES ASSUME IInv, [Next]_vars PROVE IInv'
  OBVIOUS
<1>1. CASE RecordChange
  BY <1>1, RecordChangeIInv
<1>2. CASE \E r \in Resources : RemoteChange(r)
  BY <1>2, RemoteChangeIInv
<1>3. CASE Reload \/ ReconnectingThrows \/ \E f \in Flows : ResolveConflict(f) \/ SyncFails(f)
  BY <1>3, InterruptIInv
<1>4. ASSUME NEW f \in Flows, Start(f) \/ SyncStep(f)
      PROVE  IInv'
  BY <1>4, PrepareIInv, TurnIInv, PushIInv, MarkIInv, ClearIInv DEF SyncStep
<1>5. CASE UNCHANGED vars
  BY <1>5 DEF IInv, TypeOK, LocalsKnown, FailuresCounted, NoneGivenUp, PushedIsDelivered,
              Pushed, NoChangeLost, KeysDiffer, vars, deviceVars, changeVars, serverVars,
              boundVars
<1> QED
  BY <1>1, <1>2, <1>3, <1>4, <1>5 DEF Next

\* The invariant holds of every state a device gets to.
THEOREM Inductive == Spec => []IInv
<1> QED
  BY InitIInv, NextIInv, PTL DEF Spec

\* The stores and the locals of the syncs keep their types, whatever fails.
THEOREM TypeCorrect == Spec => []TypeOK
<1>1. IInv => TypeOK
  BY DEF IInv
<1> QED
  BY <1>1, Inductive, PTL

\* A device on which fewer pushes fail than one loop makes attempts loses no
\* change, however its syncs overlap, stop half-way or are repeated.
THEOREM ChangesAreKept ==
  ASSUME MaxFailures < MaxRetries
  PROVE  Spec => []NoChangeLost
<1>1. IInv => NoChangeLost
  BY BoundsAssumption, RetriesAssumption DEF IInv, TypeOK, NoneGivenUp
<1> QED
  BY <1>1, Inductive, PTL

\* In the outbox, marking a change is to drop it; nothing else takes one out.
LEMMA OutboxStep ==
  ASSUME IInv, NoChangeLost', [Next]_vars
  PROVE  [Out!OutboxNext]_(Out!outboxVars)
<1> SUFFICES ASSUME Next PROVE Out!OutboxNext \/ UNCHANGED Out!outboxVars
  BY DEF Out!outboxVars, vars, deviceVars, changeVars, serverVars, Unsynced
<1> USE DEF deviceVars, changeVars, serverVars, boundVars
<1>0. /\ recorded \in 0..MaxChanges /\ 1..recorded \subseteq Changes
      /\ store \in [Changes -> {"unsynced", "synced", "absent"}]
  BY BoundsAssumption DEF IInv, TypeOK, Changes
<1>1. CASE RecordChange
  <2>1. Unsynced' = Unsynced \cup {recorded + 1}
    BY <1>0, <1>1, BoundsAssumption DEF RecordChange, Unsynced, Changes
  <2>2. recorded < MaxChanges /\ recorded' = recorded + 1 /\ UNCHANGED delivered
    BY <1>0, <1>1, BoundsAssumption DEF RecordChange, Changes
  <2>3. Out!Put
    BY <2>1, <2>2 DEF Out!Put
  <2> QED
    BY <2>3 DEF Out!OutboxNext
<1>2. CASE \E f \in Flows : PushSucceeds(f) \/ PushFails(f)
  <2>1. PICK f \in Flows : PushSucceeds(f) \/ PushFails(f)
    BY <1>2
  <2>2. /\ UNCHANGED <<recorded, store>>
        /\ Receive(First(flow[f].todo)) \/ UNCHANGED delivered
    BY <2>1 DEF PushSucceeds, PushFails
  <2>3. UNCHANGED Unsynced
    BY <2>2 DEF Unsynced
  <2>4. First(flow[f].todo) \in 1..recorded
    <3>1. flow[f].todo \in SUBSET Changes /\ flow[f].todo # {}
      BY <2>1 DEF PushSucceeds, PushFails, IInv, TypeOK, FlowState
    <3> QED
      BY <3>1, FirstIsThere DEF IInv, LocalsKnown
  <2> QED
    BY <2>2, <2>3, <2>4 DEF Out!OutboxNext, Out!Deliver, Out!outboxVars, Receive
<1>3. CASE \E f \in Flows : MarkAsSynced(f)
  <2>1. PICK f \in Flows : MarkAsSynced(f)
    BY <1>3
  <2> DEFINE c == First(flow[f].todo)
  <2>2. /\ UNCHANGED <<recorded, delivered>>
        /\ store' = IF store[c] = "absent" THEN store ELSE [store EXCEPT ![c] = "synced"]
    BY <2>1 DEF MarkAsSynced
  <2> HIDE DEF c
  <2>3. Unsynced' \subseteq Unsynced /\ Unsynced \ {c} \subseteq Unsynced'
    BY <1>0, <2>2 DEF Unsynced
  <2>4. CASE c \in Unsynced /\ c \notin Unsynced'
    <3>1. c \in delivered
      BY <1>0, <2>2, <2>4 DEF NoChangeLost, Unsynced
    <3>2. Out!Drop
      BY <2>2, <2>3, <2>4, <3>1 DEF Out!Drop
    <3> QED
      BY <3>2 DEF Out!OutboxNext
  <2>5. CASE Unsynced' = Unsynced
    BY <2>2, <2>5 DEF Out!outboxVars
  <2> QED
    BY <2>3, <2>4, <2>5
<1>4. CASE \E f \in Flows : ClearSyncedChanges(f)
  <2>1. UNCHANGED <<recorded, delivered>> /\ store' = StoreCleared
    BY <1>4 DEF ClearSyncedChanges
  <2>2. UNCHANGED Unsynced
    BY <1>0, <2>1 DEF Unsynced, StoreCleared
  <2> QED
    BY <2>1, <2>2 DEF Out!outboxVars
<1>5. CASE \/ \E r \in Resources : RemoteChange(r)
           \/ Reload \/ ReconnectingThrows
           \/ \E f \in Flows :
                \/ ResolveConflict(f) \/ Start(f) \/ SyncFails(f) \/ GetUnsyncedChanges(f)
                \/ FetchRemoteChanges(f) \/ SetLastServerSync(f) \/ DetectConflicts(f)
                \/ WaitTimesOut(f) \/ PushEnds(f) \/ MarkEnds(f)
  <2>1. UNCHANGED <<recorded, store, delivered>>
    BY <1>5 DEF RemoteChange, Reload, ReconnectingThrows, ResolveConflict, Start, SyncFails, GetUnsyncedChanges,
                FetchRemoteChanges, SetLastServerSync, DetectConflicts, WaitTimesOut,
                PushEnds, MarkEnds
  <2> QED
    BY <2>1 DEF Out!outboxVars, Unsynced
<1> QED
  BY <1>1, <1>2, <1>3, <1>4, <1>5 DEF Next, SyncStep

\* Such a device implements the outbox: it takes a change out only after the
\* server was given it, and every step is one of the outbox or none.
THEOREM DeviceIsAnOutbox ==
  ASSUME MaxFailures < MaxRetries
  PROVE  Spec => DeliversAsPromised
<1>1. Init => Out!OutboxInit
  BY DEF Init, Out!OutboxInit, Unsynced
<1>2. IInv /\ NoChangeLost' /\ [Next]_vars => [Out!OutboxNext]_(Out!outboxVars)
  BY OutboxStep
<1>3. Spec => []NoChangeLost
  BY ChangesAreKept
<1> QED
  BY <1>1, <1>2, <1>3, Inductive, PTL DEF Spec, DeliversAsPromised, Out!OutboxSpec

(***************************************************************************)
(* The server's last word.  With keys in the order of recording, a sync    *)
(* gives the server the changes of a resource it found unsynced from the   *)
(* first to the last and then marks them in that order, so that of each    *)
(* resource the unsynced changes are always the last ones, and nothing     *)
(* that was marked is given again.                                         *)
(***************************************************************************)
Settled == (1..recorded) \ Unsynced
Latest(c) == serverLast[resource[c]] >= c
Before(S, T) == \A c \in S, d \in T : resource[c] = resource[d] => c < d

InOrder(sync) ==
  /\ sync.pc \in {"fetch", "stamp", "detect", "wait", "push", "mark"} =>
       Before(sync.snapshot, Unsynced \ sync.snapshot)
  /\ sync.pc \in {"fetch", "stamp", "detect", "wait", "push"} => sync.snapshot \subseteq Unsynced
  /\ sync.pc \in {"wait", "push", "mark"} =>
       /\ sync.todo \subseteq sync.snapshot
       /\ Before(sync.snapshot \ sync.todo, sync.todo)
       /\ \A c \in sync.snapshot \ sync.todo : Latest(c)
  /\ sync.pc = "mark" => /\ \A c \in sync.snapshot : Latest(c)
                         /\ sync.snapshot \ sync.todo \subseteq Settled

CurrentInv == /\ Before(Settled, Unsynced) /\ \A c \in Settled : Latest(c)
              /\ \A f \in Flows : InOrder(flow[f])

\* What the numbers and sets are that the order is about.
LEMMA ChangesAreNumbers ==
  ASSUME IInv
  PROVE  /\ recorded \in 0..MaxChanges /\ recorded \in Nat /\ 1..recorded \subseteq Changes
         /\ Changes \subseteq Nat
         /\ Unsynced \subseteq 1..recorded /\ Settled \subseteq 1..recorded
         /\ store \in [Changes -> {"unsynced", "synced", "absent"}]
         /\ serverLast \in [Resources -> 0..MaxChanges] /\ resource \in [Changes -> Resources]
         /\ flow \in [Flows -> FlowState]
         /\ \A f \in Flows : flow[f].snapshot \cup flow[f].todo \subseteq 1..recorded
BY BoundsAssumption DEF IInv, TypeOK, LocalsKnown, Changes, Unsynced, Settled

\* With keys in order, the change a loop takes is the first of its resource.
LEMMA FirstOfItsResource ==
  ASSUME IInv, KeysInOrder, NEW S \in SUBSET (1..recorded), S # {}
  PROVE  /\ First(S) \in S
         /\ \A d \in S : resource[d] = resource[First(S)] => First(S) <= d
<1>0. S \subseteq Changes /\ S \subseteq Nat
  BY ChangesAreNumbers
<1>1. First(S) \in S /\ \A d \in S : key[First(S)] <= key[d]
  BY <1>0, FirstIsThere DEF IInv
<1>x. PICK x : x = First(S)
  OBVIOUS
<1>2. ASSUME NEW d \in S, resource[d] = resource[x], d < x PROVE FALSE
  <2>1. key[d] < key[x] /\ key[x] <= key[d]
    BY <1>1, <1>2, <1>x DEF KeysInOrder
  <2>2. key[d] \in Nat /\ key[x] \in Nat
    <3>1. key \in [Changes -> 0..MaxChanges]
      BY DEF IInv, TypeOK
    <3>2. d \in Changes /\ x \in Changes
      BY <1>0, <1>1, <1>x
    <3>3. \A n \in 0..MaxChanges : n \in Nat
      BY BoundsAssumption
    <3> QED
      BY <3>1, <3>2, <3>3
  <2> QED
    BY <2>1, <2>2
<1>3. \A d \in S : resource[d] = resource[x] => x <= d
  <2> SUFFICES ASSUME NEW d \in S, resource[d] = resource[x], ~(x <= d) PROVE FALSE
    OBVIOUS
  <2>1. d \in Nat /\ x \in Nat
    BY <1>0, <1>1, <1>x
  <2> QED
    BY <1>2, <2>1
<1> QED
  BY <1>1, <1>3, <1>x

\* Nothing but a sync's own locals has changed, and the others are not under way.
LEMMA OneSyncMoves ==
  ASSUME CurrentInv, NEW f \in Flows, \A g \in Flows : g # f => flow'[g].pc = "idle" \/ flow'[g] = flow[g],
         UNCHANGED <<recorded, resource, store, serverLast>>, InOrder(flow'[f])
  PROVE  CurrentInv'
<1>1. /\ Unsynced' = Unsynced /\ Settled' = Settled /\ UNCHANGED resource
      /\ \A c : Latest(c)' <=> Latest(c)
  BY DEF Unsynced, Settled, Latest
<1>2. \A g \in Flows : InOrder(flow'[g])
  <2> SUFFICES ASSUME NEW g \in Flows, g # f PROVE InOrder(flow'[g])
    OBVIOUS
  <2>1. CASE flow'[g] = flow[g]
    BY <2>1 DEF CurrentInv
  <2>2. CASE flow'[g].pc = "idle"
    BY <2>2 DEF InOrder
  <2> QED
    BY <2>1, <2>2
<1> QED
  BY <1>1, <1>2 DEF CurrentInv, InOrder, Before

\* A new change is the last one.
LEMMA RecordKeepsOrder ==
  ASSUME IInv, CurrentInv, RecordChange
  PROVE  CurrentInv'
<1>1. /\ Unsynced' = Unsynced \cup {recorded + 1} /\ Settled' = Settled
      /\ UNCHANGED <<flow, resource, serverLast>>
  BY ChangesAreNumbers, BoundsAssumption DEF RecordChange, Unsynced, Settled, Changes
<1>2. \A c \in 1..recorded : c < recorded + 1
  BY ChangesAreNumbers
<1>3. Before(Settled', Unsynced') /\ \A c \in Settled' : Latest(c)'
  BY <1>1, <1>2, ChangesAreNumbers DEF CurrentInv, Before, Latest
<1>4. ASSUME NEW f \in Flows PROVE InOrder(flow[f])'
  <2>1. flow[f].snapshot \subseteq 1..recorded /\ InOrder(flow[f])
    BY ChangesAreNumbers DEF CurrentInv
  <2>2. \A c : Latest(c)' <=> Latest(c)
    BY <1>1 DEF Latest
  <2> QED
    BY <1>1, <1>2, <2>1, <2>2 DEF InOrder, Before
<1> QED
  BY <1>1, <1>3, <1>4 DEF CurrentInv, Before

\* The steps that neither push nor mark: what a sync reads is all that is
\* unsynced, and its marking starts when all of it was given.
LEMMA MovesKeepOrder ==
  ASSUME IInv, CurrentInv, NEW f \in Flows,
         \/ ResolveConflict(f) \/ Start(f) \/ SyncFails(f) \/ GetUnsyncedChanges(f)
         \/ FetchRemoteChanges(f) \/ SetLastServerSync(f) \/ DetectConflicts(f)
         \/ WaitTimesOut(f) \/ PushEnds(f) \/ MarkEnds(f)
  PROVE  CurrentInv'
<1>0. flow \in [Flows -> FlowState] /\ flow[f] \in FlowState /\ InOrder(flow[f])
  BY ChangesAreNumbers DEF CurrentInv
<1>1. UNCHANGED <<recorded, resource, store, serverLast>>
  BY DEF ResolveConflict, Start, SyncFails, GetUnsyncedChanges, FetchRemoteChanges,
         SetLastServerSync, DetectConflicts, WaitTimesOut, PushEnds, MarkEnds, deviceVars, changeVars,
         serverVars
<1>2. \A g \in Flows : g # f => flow'[g] = flow[g]
  BY <1>0 DEF ResolveConflict, Start, SyncFails, GetUnsyncedChanges, FetchRemoteChanges, Finish, Goto,
         SetLastServerSync, DetectConflicts, WaitTimesOut, PushEnds, MarkEnds
<1>3. InOrder(flow'[f])
  <2>1. CASE ResolveConflict(f)
    BY <1>0, <2>1 DEF ResolveConflict
  <2>2. CASE Start(f) \/ MarkEnds(f)
    <3>1. flow'[f].pc \in {"read", "clear"}
      BY <1>0, <2>2 DEF Start, MarkEnds, Goto, FlowState
    <3> QED
      BY <3>1 DEF InOrder
  <2>3. CASE Finish(f)
    <3>1. flow'[f].pc = "idle"
      BY <1>0, <2>3 DEF Finish, Idle
    <3> QED
      BY <3>1 DEF InOrder
  <2>4. CASE GetUnsyncedChanges(f) /\ ~Finish(f)
    <3>1. flow'[f].pc = "fetch" /\ flow'[f].snapshot = Unsynced
      BY <1>0, <2>4 DEF GetUnsyncedChanges, FlowState
    <3> QED
      BY <3>1 DEF InOrder, Before
  <2>5. CASE FetchRemoteChanges(f) \/ SetLastServerSync(f)
    <3>1. /\ flow[f].pc \in {"fetch", "stamp"} /\ flow'[f].pc \in {"stamp", "detect"}
          /\ flow'[f].snapshot = flow[f].snapshot
      BY <1>0, <2>5 DEF FetchRemoteChanges, SetLastServerSync, Goto, FlowState
    <3> QED
      BY <1>0, <3>1 DEF InOrder
  <2>6. CASE DetectConflicts(f)
    <3>1. /\ flow[f].pc = "detect" /\ flow'[f].pc \in {"wait", "push"}
          /\ flow'[f].snapshot = flow[f].snapshot /\ flow'[f].todo = flow[f].snapshot
      BY <1>0, <2>6 DEF DetectConflicts, FlowState
    <3> QED
      BY <1>0, <3>1 DEF InOrder, Before
  <2>7. CASE WaitTimesOut(f)
    <3>1. /\ flow[f].pc = "wait" /\ flow'[f].pc = "push"
          /\ flow'[f].snapshot = flow[f].snapshot /\ flow'[f].todo = flow[f].todo
      BY <1>0, <2>7 DEF WaitTimesOut, Goto, FlowState
    <3> QED
      BY <1>0, <3>1 DEF InOrder
  <2>8. CASE PushEnds(f)
    <3>1. /\ flow[f].pc = "push" /\ flow[f].todo = {} /\ flow'[f].pc = "mark"
          /\ flow'[f].snapshot = flow[f].snapshot /\ flow'[f].todo = flow[f].snapshot
      BY <1>0, <2>8 DEF PushEnds, FlowState
    <3> QED
      BY <1>0, <3>1 DEF InOrder, Before
  <2> QED
    BY <2>1, <2>2, <2>3, <2>4, <2>5, <2>6, <2>7, <2>8 DEF SyncFails
<1> QED
  BY <1>1, <1>2, <1>3, OneSyncMoves

\* A push gives the server a change later than all that were marked or given
\* by this sync; with fewer failures than retries none is passed over.
LEMMA PushKeepsOrder ==
  ASSUME MaxFailures < MaxRetries, IInv, CurrentInv, OneSyncAtATime, KeysInOrder,
         NEW f \in Flows, PushSucceeds(f) \/ PushFails(f)
  PROVE  CurrentInv'
<1> DEFINE todo == flow[f].todo
           snapshot == flow[f].snapshot
<1>x. PICK x : x = First(todo)
  OBVIOUS
<1>0. /\ flow \in [Flows -> FlowState] /\ flow[f] \in FlowState
      /\ flow[f].pc = "push" /\ InOrder(flow[f])
      /\ \A g \in Flows : g # f => flow[g].pc = "idle"
  BY ChangesAreNumbers DEF CurrentInv, PushSucceeds, PushFails, OneSyncAtATime
<1>1. /\ x \in todo /\ (\A d \in todo : resource[d] = resource[x] => x <= d)
      /\ todo \subseteq snapshot /\ snapshot \subseteq Unsynced
      /\ Before(snapshot \ todo, todo)
  <2>1. todo \in SUBSET (1..recorded) /\ todo # {}
    BY ChangesAreNumbers DEF PushSucceeds, PushFails
  <2> QED
    BY <1>0, <1>x, <2>1, FirstOfItsResource DEF InOrder
<1>2. UNCHANGED <<recorded, resource, store>> /\ Unsynced' = Unsynced /\ Settled' = Settled
  BY DEF PushSucceeds, PushFails, deviceVars, changeVars, Unsynced, Settled
<1>3. \/ serverLast' = [serverLast EXCEPT ![resource[x]] = x]
      \/ serverLast' = serverLast
  BY <1>x DEF PushSucceeds, PushFails, Receive
<1>4. /\ \A g \in Flows : g # f => flow'[g].pc = "idle"
      /\ flow'[f].pc = "push" /\ flow'[f].snapshot = snapshot
      /\ \/ flow'[f].todo = todo
         \/ flow'[f].todo = todo \ {x} /\ serverLast' = [serverLast EXCEPT ![resource[x]] = x]
  <2>1. CASE PushSucceeds(f)
    <3>1. flow' = [flow EXCEPT ![f].todo = todo \ {x}, ![f].tries = 0]
      BY <1>0, <1>x, <2>1 DEF PushSucceeds, PushNext
    <3>2. serverLast' = [serverLast EXCEPT ![resource[x]] = x]
      BY <1>x, <2>1 DEF PushSucceeds, Receive
    <3> QED
      BY <1>0, <3>1, <3>2 DEF FlowState
  <2>2. CASE PushFails(f)
    <3>1. flow[f].tries + 1 # MaxRetries
      <4>1. /\ flow[f].tries \in Nat /\ failures \in Nat
            /\ flow[f].tries <= failures /\ failures < MaxFailures
        BY <1>0, <2>2, BoundsAssumption, RetriesAssumption
        DEF PushFails, IInv, TypeOK, FailuresCounted, FlowState
      <4> QED
        BY <4>1, BoundsAssumption, RetriesAssumption
    <3>2. flow' = [flow EXCEPT ![f].todo = todo, ![f].tries = flow[f].tries + 1]
      BY <1>0, <2>2, <3>1 DEF PushFails, PushNext
    <3> QED
      BY <1>0, <3>2 DEF FlowState
  <2> QED
    BY <2>1, <2>2
<1>5. /\ x \in Nat /\ x \in 1..recorded /\ todo \subseteq Nat /\ snapshot \subseteq 1..recorded
      /\ Settled \subseteq 1..recorded
      /\ \A c \in 1..recorded : c \in Nat /\ resource[c] \in Resources /\ serverLast[resource[c]] \in Nat
      /\ DOMAIN serverLast = Resources
  BY <1>1, ChangesAreNumbers, BoundsAssumption
<1>6. ASSUME NEW c \in 1..recorded, Latest(c), resource[c] = resource[x] => c <= x
      PROVE  Latest(c)'
  BY <1>2, <1>3, <1>5, <1>6 DEF Latest
<1>7. \A c \in Settled : Latest(c)'
  <2> SUFFICES ASSUME NEW c \in Settled PROVE Latest(c)'
    OBVIOUS
  <2>1. Latest(c) /\ (resource[c] = resource[x] => c < x)
    BY <1>1 DEF CurrentInv, Before
  <2> QED
    BY <1>5, <1>6, <2>1
<1>8. \A c \in snapshot \ todo : Latest(c)'
  <2> SUFFICES ASSUME NEW c \in snapshot \ todo PROVE Latest(c)'
    OBVIOUS
  <2>1. Latest(c) /\ (resource[c] = resource[x] => c < x)
    BY <1>0, <1>1 DEF InOrder, Before
  <2> QED
    BY <1>5, <1>6, <2>1
<1>9. InOrder(flow[f])'
  <2>1. CASE flow'[f].todo = todo
    BY <1>0, <1>2, <1>4, <1>8, <2>1 DEF InOrder, Before
  <2>2. CASE flow'[f].todo = todo \ {x} /\ serverLast' = [serverLast EXCEPT ![resource[x]] = x]
    <3>1. Latest(x)'
      BY <1>2, <1>5, <2>2 DEF Latest
    <3>2. \A c \in snapshot \ (todo \ {x}) : Latest(c)'
      BY <1>8, <3>1
    <3>3. Before(snapshot \ (todo \ {x}), todo \ {x})
      BY <1>1, <1>5 DEF Before
    <3> QED
      BY <1>0, <1>1, <1>2, <1>4, <2>2, <3>2, <3>3 DEF InOrder, Before
  <2> QED
    BY <1>4, <2>1, <2>2
<1>10. \A g \in Flows : InOrder(flow[g])'
  <2> SUFFICES ASSUME NEW g \in Flows, g # f PROVE InOrder(flow[g])'
    BY <1>9
  <2> QED
    BY <1>4 DEF InOrder
<1> QED
  BY <1>2, <1>7, <1>10 DEF CurrentInv, Before

\* Marking takes the first of the unsynced changes, which the server has.
LEMMA MarkKeepsOrder ==
  ASSUME IInv, CurrentInv, OneSyncAtATime, KeysInOrder, NEW f \in Flows, MarkAsSynced(f)
  PROVE  CurrentInv'
<1> DEFINE x == First(flow[f].todo)
           todo == flow[f].todo
           snapshot == flow[f].snapshot
<1>0. /\ flow \in [Flows -> FlowState] /\ flow[f] \in FlowState
      /\ flow[f].pc = "mark" /\ InOrder(flow[f])
      /\ \A g \in Flows : g # f => flow[g].pc = "idle"
  BY ChangesAreNumbers DEF CurrentInv, MarkAsSynced, OneSyncAtATime
<1>1. /\ x \in todo /\ (\A d \in todo : resource[d] = resource[x] => x <= d)
      /\ todo \subseteq snapshot
      /\ Before(snapshot, Unsynced \ snapshot) /\ Latest(x)
      /\ snapshot \ todo \subseteq Settled
  <2>1. todo \in SUBSET (1..recorded) /\ todo # {}
    BY ChangesAreNumbers DEF MarkAsSynced
  <2> QED
    BY <1>0, <2>1, FirstOfItsResource DEF InOrder
<1>2. /\ store' = IF store[x] = "absent" THEN store ELSE [store EXCEPT ![x] = "synced"]
      /\ UNCHANGED <<recorded, resource, serverLast>>
      /\ flow' = [flow EXCEPT ![f].todo = todo \ {x}]
  BY DEF MarkAsSynced, changeVars, serverVars
<1>3. /\ x \in 1..recorded /\ x \in Changes /\ todo \subseteq Nat /\ snapshot \subseteq 1..recorded
      /\ \A c \in 1..recorded : c \in Nat
  BY <1>1, ChangesAreNumbers
<1> HIDE DEF x
<1>4. Unsynced' = Unsynced \ {x} /\ Settled' = Settled \cup {x}
  BY <1>2, <1>3, ChangesAreNumbers DEF Unsynced, Settled
<1>5. \A c : Latest(c)' <=> Latest(c)
  BY <1>2 DEF Latest
<1>6. \A d \in Unsynced \ {x} : resource[d] = resource[x] => x < d
  <2> SUFFICES ASSUME NEW d \in Unsynced, d # x, resource[d] = resource[x] PROVE x < d
    OBVIOUS
  <2>1. CASE d \in snapshot
    <3>1. d \in todo
      BY <1>1, <2>1 DEF Settled
    <3> QED
      BY <1>1, <1>3, <3>1
  <2>2. CASE d \notin snapshot
    BY <1>1, <2>2 DEF Before
  <2> QED
    BY <2>1, <2>2
<1>7. Before(Settled', Unsynced') /\ \A c \in Settled' : Latest(c)'
  BY <1>1, <1>2, <1>4, <1>5, <1>6 DEF CurrentInv, Before
<1>8. flow'[f].pc = "mark" /\ flow'[f].snapshot = snapshot /\ flow'[f].todo = todo \ {x}
      /\ \A g \in Flows : g # f => flow'[g].pc = "idle"
  BY <1>0, <1>2 DEF FlowState
<1>9. InOrder(flow[f])'
  <2>1. Before(snapshot, Unsynced' \ snapshot) /\ snapshot \ (todo \ {x}) \subseteq Settled'
    BY <1>1, <1>2, <1>4 DEF Before
  <2>2. Before(snapshot \ (todo \ {x}), todo \ {x})
    BY <1>0, <1>1, <1>2, <1>3 DEF InOrder, Before
  <2>3. \A c \in snapshot : Latest(c)'
    BY <1>0, <1>5 DEF InOrder
  <2> QED
    BY <1>1, <1>2, <1>8, <2>1, <2>2, <2>3 DEF InOrder, Before
<1>10. \A g \in Flows : InOrder(flow[g])'
  BY <1>8, <1>9 DEF InOrder
<1> QED
  BY <1>2, <1>7, <1>10 DEF CurrentInv, Before

\* Clearing deletes what is marked, and a reload forgets the syncs.
LEMMA ClearKeepsOrder ==
  ASSUME IInv, CurrentInv, OneSyncAtATime,
         Reload \/ \E f \in Flows : ClearSyncedChanges(f)
  PROVE  CurrentInv'
<1>1. Unsynced' = Unsynced /\ Settled' = Settled /\ UNCHANGED <<resource, serverLast>>
  BY ChangesAreNumbers
  DEF Reload, ClearSyncedChanges, StoreCleared, Unsynced, Settled, deviceVars, changeVars,
      serverVars
<1>2. \A f \in Flows : flow'[f].pc = "idle"
  <2>1. CASE Reload
    BY <2>1 DEF Reload, Idle
  <2>2. ASSUME NEW g \in Flows, ClearSyncedChanges(g)
        PROVE  \A f \in Flows : flow'[f].pc = "idle"
    <3>1. flow' = [flow EXCEPT ![g] = Idle] /\ \A f \in Flows : f # g => flow[f].pc = "idle"
      BY <2>2 DEF ClearSyncedChanges, Finish, OneSyncAtATime
    <3> QED
      BY <3>1, ChangesAreNumbers DEF Idle
  <2> QED
    BY <2>1, <2>2
<1> QED
  BY <1>1, <1>2 DEF CurrentInv, InOrder, Latest, Before

\* As long as syncs do not overlap, the keys of each resource's changes are in the
\* order they were recorded (OfflineSyncService.ts:405-407 orders them by the
\* millisecond only) and fewer pushes fail than one loop makes attempts, a device
\* with nothing left to send has left the server with each resource's latest change
\* (ReconnectionHandler.ts:91-168), however often syncs were dropped half-way and
\* repeated.
THEOREM ServerEndsCurrent ==
  ASSUME MaxFailures < MaxRetries
  PROVE  Spec => ServerIsCurrent
<1>1. Init => CurrentInv
  BY DEF Init, CurrentInv, Unsynced, Settled, Before, InOrder, Idle
<1>2. IInv /\ CurrentInv /\ OneSyncAtATime /\ KeysInOrder /\ [Next]_vars => CurrentInv'
  <2> SUFFICES ASSUME IInv, CurrentInv, OneSyncAtATime, KeysInOrder, [Next]_vars
               PROVE  CurrentInv'
    OBVIOUS
  <2>1. CASE RecordChange
    BY <2>1, RecordKeepsOrder
  <2>2. CASE UNCHANGED <<recorded, resource, store, serverLast, flow>>
    BY <2>2 DEF CurrentInv, InOrder, Latest, Before, Settled, Unsynced
  <2>3. CASE ReconnectingThrows \/ \E r \in Resources : RemoteChange(r)
    BY <2>2, <2>3 DEF ReconnectingThrows, RemoteChange, deviceVars, changeVars, serverVars
  <2>4. CASE Reload \/ \E f \in Flows : ClearSyncedChanges(f)
    BY <2>4, ClearKeepsOrder
  <2>5. ASSUME NEW f \in Flows,
               ResolveConflict(f) \/ Start(f) \/ SyncFails(f) \/ SyncStep(f)
        PROVE  CurrentInv'
    BY <2>4, <2>5, MovesKeepOrder, PushKeepsOrder, MarkKeepsOrder DEF SyncStep
  <2>6. CASE UNCHANGED vars
    BY <2>2, <2>6 DEF vars, deviceVars, changeVars, serverVars
  <2> QED
    BY <2>1, <2>3, <2>4, <2>5, <2>6 DEF Next
<1>3. IInv /\ CurrentInv => ServerHasLatest
  BY DEF CurrentInv, ServerHasLatest, Settled, Latest
<1> QED
  BY <1>1, <1>2, <1>3, Inductive, PTL DEF Spec, ServerIsCurrent
=============================================================================
