---------------------------- MODULE Entries_proofs ----------------------------
(***************************************************************************)
(* Proofs about Entries, for any requests: its type correctness, and what  *)
(* the log's flags are worth to the requests that write an entry or push a *)
(* change of it.                                                           *)
(*                                                                         *)
(* LogInv of SyncLog is kept although a request may change the base        *)
(* version of its push: it does so before the transaction begins.  Beside  *)
(* it the invariant says that no version is 0, that none has moved before  *)
(* the first resolution, and how far each request is when its push is.     *)
(***************************************************************************)
EXTENDS Entries, SyncLog_proofs

\* No version is ever 0, and none has moved before the first resolution.
VersionsInv ==
  /\ \A p \in Pushes : base[p] # 0
  /\ \A r \in resolving : r.pc = "update" => r.version # 0
  /\ resolutions = 0 =>
       entry.version = FirstVersion /\ resolving = {} /\ \A p \in Pushes : base[p] = FirstVersion

\* A PUT or DELETE writes before its transaction; an answer comes after it.
RequestsInOrder ==
  \A p \in Pushes :
    /\ kind[p] \in {"put", "delete"} /\ phase[p] # "written" => pc[p] = "new"
    /\ phase[p] = "answered" => kind[p] = "push" /\ pc[p] = "committed"

EntriesInv == /\ LogInv /\ EntriesTypeOK /\ VersionsInv /\ RequestsInOrder /\ PusherIsTold

EntrySet == [version : Nat \ {0}, deleted : BOOLEAN]
Resolvings == [id : 1..MaxResolutions, pc : {"select", "update", "merge"}, version : Nat]

-----------------------------------------------------------------------------
LEMMA EntriesInitEstablishes == EntriesInit => EntriesInv
<1> SUFFICES ASSUME EntriesInit PROVE EntriesInv
  OBVIOUS
<1>1. LogInv
  BY InitEstablishes DEF EntriesInit
<1>2. kind \in [Pushes -> Kinds]
  <2>1. PICK use \in Uses : kind = use[1]
    BY DEF EntriesInit
  <2>2. use \in [Pushes -> Kinds] \X Callers
    BY UsesAssumption
  <2>3. QED
    BY <2>1, <2>2
<1>3. entry \in EntrySet /\ entry.version = FirstVersion
  BY DEF EntriesInit, FirstVersion, EntrySet
<1>4. EntriesTypeOK
  BY <1>1, <1>2, <1>3 DEF EntriesInit, EntriesTypeOK, LogInv, EntrySet
<1>5. VersionsInv
  BY <1>3 DEF EntriesInit, VersionsInv, FirstVersion
<1>6. RequestsInOrder /\ PusherIsTold
  BY DEF EntriesInit, Init, RequestsInOrder, PusherIsTold
<1>7. QED
  BY <1>1, <1>4, <1>5, <1>6 DEF EntriesInv

\* A push whose transaction has not begun may still change its base version:
\* nothing in the log has looked at it.
LEMMA ReadingKeepsLog ==
  ASSUME LogInv, NEW p \in Pushes, pc[p] = "new", NEW v \in Nat,
         base' = [base EXCEPT ![p] = v],
         UNCHANGED <<device, pc, scan, marks, rival, row, early, resolutions>>
  PROVE  LogInv'
<1>1. TypeOK /\ TypeOK' /\ RowInv
  BY DEF LogInv, TypeOK
<1>2. Committed' = Committed /\ Flagged' = Flagged /\ p \notin Committed
  BY DEF Committed, Flagged
<1>3. \A q \in Pushes, r \in Pushes : q # p /\ r # p => (Rivals(q, r)' <=> Rivals(q, r))
  BY <1>1 DEF Rivals, TypeOK
<1>4. \A r \in Pushes : Noticed(r)' <=> Noticed(r)
  BY DEF Noticed
<1>5. \A q \in Committed : q \in Pushes /\ q # p
  BY <1>2 DEF Committed
<1>6. ASSUME NEW q \in Pushes
      PROVE  TxInv(q)'
  <2>1. TxInv(q)
    BY DEF LogInv
  <2>2. NewIsBlank(q)' /\ MarksOfRival(q)' /\ OwnRowNoticed(q)'
    BY <1>2, <1>4, <2>1 DEF TxInv, NewIsBlank, MarksOfRival, OwnRowNoticed
  <2>3. CASE q = p
    BY <1>1, <2>1, <2>2, <2>3
    DEF TxInv, NewIsBlank, WorksOnRivals, SearchCovers, NothingMissed
  <2>4. CASE q # p
    <3>1. early[q] \subseteq Committed /\ scan[q] \subseteq Committed /\ marks[q] \subseteq Committed
      BY <2>1 DEF TxInv, WorksOnRivals
    <3>2. WorksOnRivals(q)'
      BY <1>2, <1>3, <1>5, <2>1, <2>4, <3>1 DEF TxInv, WorksOnRivals
    <3>3. SearchCovers(q)' /\ NothingMissed(q)'
      BY <1>3, <1>4, <1>5, <2>1, <2>4, <3>1 DEF TxInv, SearchCovers, NothingMissed
    <3>4. QED
      BY <2>2, <3>2, <3>3 DEF TxInv
  <2>5. QED
    BY <2>3, <2>4
<1>7. LateConflictNoticed'
  <2>1. SUFFICES ASSUME NEW q \in Committed, NEW r \in early[q], Rivals(q, r)'
                 PROVE  Noticed(q)' \/ Noticed(r)'
    BY <1>2 DEF LateConflictNoticed, Rivals
  <2>2. r \in Committed
    BY <1>5 DEF LogInv, TxInv, WorksOnRivals
  <2>3. QED
    BY <1>1, <1>3, <1>4, <1>5, <2>1, <2>2 DEF RowInv, LateConflictNoticed
<1>8. FlagNamesARival'
  <2>1. SUFFICES ASSUME NEW r \in Committed, row[r].hasConflict
                 PROVE  \E q \in Committed : Rivals(r, q)' /\ device[q] = row[r].with
    BY <1>2 DEF FlagNamesARival, Rivals
  <2>2. PICK q \in Committed : Rivals(r, q) /\ device[q] = row[r].with
    BY <1>1, <2>1 DEF RowInv, FlagNamesARival
  <2>3. QED
    BY <1>3, <1>5, <2>2
<1>9. FlagsPaired'
  <2>1. SUFFICES ASSUME NEW r \in Flagged
                 PROVE  \E q \in Flagged : Rivals(r, q)'
    BY <1>2 DEF FlagsPaired, Rivals
  <2>2. PICK q \in Flagged : Rivals(r, q)
    BY <1>1, <2>1 DEF RowInv, FlagsPaired
  <2>3. QED
    BY <1>3, <1>5, <2>2 DEF Flagged
<1>10. QED
  BY <1>1, <1>6, <1>7, <1>8, <1>9 DEF LogInv, RowInv

-----------------------------------------------------------------------------
LEMMA ReadsKeeps ==
  ASSUME EntriesInv, NEW p \in Pushes, Reads(p)
  PROVE  EntriesInv'
<1>1. entry.version \in Nat \ {0} /\ entry \in EntrySet
  BY DEF EntriesInv, EntriesTypeOK, EntrySet
<1>2. pc[p] = "new" /\ kind[p] # "push"
  BY DEF EntriesInv, RequestsInOrder, Reads, Moves
<1>3. UNCHANGED <<device, pc, scan, marks, rival, row, early, resolutions>>
  BY DEF Reads, txVars
<1>4. LogInv'
  BY <1>1, <1>2, <1>3, ReadingKeepsLog DEF EntriesInv, Reads
<1>5. EntriesTypeOK'
  <2>1. phase' = [phase EXCEPT ![p] = "read"]
    BY DEF Reads, Moves
  <2>2. QED
    BY <1>4, <2>1 DEF EntriesInv, EntriesTypeOK, Reads, LogInv
<1>6. VersionsInv'
  <2>1. base' = [base EXCEPT ![p] = entry.version] /\ UNCHANGED <<resolving, entry, resolutions>>
    BY DEF Reads
  <2>2. base \in [Pushes -> Nat]
    BY DEF EntriesInv, LogInv, TypeOK
  <2>3. QED
    BY <1>1, <2>1, <2>2 DEF EntriesInv, VersionsInv
<1>7. RequestsInOrder' /\ PusherIsTold'
  BY <1>2, <1>3 DEF EntriesInv, EntriesTypeOK, RequestsInOrder, PusherIsTold, Reads, Moves
<1>8. QED
  BY <1>4, <1>5, <1>6, <1>7 DEF EntriesInv

\* PUT and DELETE on their way: only the phase, the entry and its writers move.
LEMMA WritingKeeps ==
  ASSUME EntriesInv, NEW p \in Pushes, NEW e \in EntrySet, NEW to \in {"found", "written"},
         to = "found" => phase[p] = "read",
         resolutions = 0 => e.version = FirstVersion,
         phase' = [phase EXCEPT ![p] = to], entry' = e,
         writers' \in SUBSET Pushes, over' \in [Pushes -> SUBSET Pushes],
         UNCHANGED <<vars, kind, seen, resolving, told>>
  PROVE  EntriesInv'
<1>1. LogInv'
  BY StutterKeeps DEF EntriesInv
<1>2. EntriesTypeOK'
  BY <1>1 DEF EntriesInv, EntriesTypeOK, LogInv, EntrySet
<1>3. UNCHANGED <<base, pc, rival, row, resolutions>>
  BY DEF vars, txVars
<1>4. VersionsInv'
  BY <1>3 DEF EntriesInv, VersionsInv
<1>5. RequestsInOrder' /\ PusherIsTold'
  BY <1>3 DEF EntriesInv, EntriesTypeOK, RequestsInOrder, PusherIsTold
<1>6. QED
  BY <1>1, <1>2, <1>4, <1>5 DEF EntriesInv

LEMMA OverwritesTyped ==
  ASSUME EntriesTypeOK, NEW p \in Pushes, Overwrites(p)
  PROVE  /\ writers' \in SUBSET Pushes /\ over' \in [Pushes -> SUBSET Pushes]
         /\ UNCHANGED <<vars, kind, seen, resolving, told>>
BY DEF EntriesTypeOK, Overwrites

LEMMA updateEntryKeeps ==
  ASSUME EntriesInv, NEW p \in Pushes, updateEntry(p)
  PROVE  EntriesInv'
<1> DEFINE e == [entry EXCEPT !.version = base[p]]
<1>1. entry \in EntrySet /\ base[p] \in Nat \ {0}
  BY DEF EntriesInv, EntriesTypeOK, EntrySet, VersionsInv, LogInv, TypeOK
<1>2. e \in EntrySet /\ e.version = base[p]
  BY <1>1 DEF EntrySet
<1>3. resolutions = 0 => base[p] = FirstVersion
  BY DEF EntriesInv, VersionsInv
<1>4. phase' = [phase EXCEPT ![p] = "written"] /\ entry' = e /\ Overwrites(p)
  BY DEF updateEntry, Moves
<1> HIDE DEF e
<1>5. EntriesTypeOK
  BY DEF EntriesInv
<1>6. QED
  BY <1>2, <1>3, <1>4, <1>5, OverwritesTyped, WritingKeeps

LEMMA deleteEntryLooksKeeps ==
  ASSUME EntriesInv, NEW p \in Pushes, deleteEntryLooks(p)
  PROVE  EntriesInv'
<1> DEFINE to == IF entry.deleted THEN "written" ELSE "found"
<1>1. entry \in EntrySet /\ to \in {"found", "written"}
  BY DEF EntriesInv, EntriesTypeOK, EntrySet
<1>2. /\ phase[p] = "read" /\ phase' = [phase EXCEPT ![p] = to]
      /\ UNCHANGED <<vars, kind, entry, writers, seen, over, resolving, told>>
  BY DEF deleteEntryLooks, Moves
<1> HIDE DEF to
<1>3. resolutions = 0 => entry.version = FirstVersion
  BY DEF EntriesInv, VersionsInv
<1>4. writers' \in SUBSET Pushes /\ over' \in [Pushes -> SUBSET Pushes]
  BY <1>2 DEF EntriesInv, EntriesTypeOK
<1>5. QED
  BY <1>1, <1>2, <1>3, <1>4, WritingKeeps

LEMMA deleteEntryKeeps ==
  ASSUME EntriesInv, NEW p \in Pushes, deleteEntry(p)
  PROVE  EntriesInv'
<1> DEFINE e == [entry EXCEPT !.deleted = TRUE]
<1>1. entry \in EntrySet
  BY DEF EntriesInv, EntriesTypeOK, EntrySet
<1>2. e \in EntrySet /\ e.version = entry.version
  BY <1>1 DEF EntrySet
<1>3. resolutions = 0 => entry.version = FirstVersion
  BY DEF EntriesInv, VersionsInv
<1>4. phase' = [phase EXCEPT ![p] = "written"] /\ entry' = e /\ Overwrites(p)
  BY DEF deleteEntry, Moves
<1> HIDE DEF e
<1>5. EntriesTypeOK
  BY DEF EntriesInv
<1>6. QED
  BY <1>2, <1>3, <1>4, <1>5, OverwritesTyped, WritingKeeps

-----------------------------------------------------------------------------
\* A step of SyncLog that is not a resolution leaves the base versions alone.
LEMMA RecordsMoves ==
  ASSUME NEW p \in Pushes, RecordStep(p) \/ Rollback(p)
  PROVE  /\ UNCHANGED <<device, base, resolutions>>
         /\ \/ InsertAndCommit(p)
            \/ pc' = [pc EXCEPT ![p] = pc'[p]] /\ pc[p] # "committed"
            \/ UNCHANGED pc
BY DEF RecordStep, Rollback, Begun, Begin, SelectLocks, SelectSkips, SelectFindsNone,
       StartUpdate, FlagNext, UpdateEnds, InsertAndCommit, Step

LEMMA RecordsKeeps ==
  ASSUME EntriesInv, NEW p \in Pushes, Records(p)
  PROVE  EntriesInv'
<1>1. LogInv /\ (RecordStep(p) \/ Rollback(p)) /\ UNCHANGED entryVars /\ [Next]_vars
  BY DEF EntriesInv, Records, Next
<1>2. LogInv'
  BY <1>1, NextKeeps
<1>3. UNCHANGED <<device, base, resolutions>>
  BY <1>1, RecordsMoves
<1>4. UNCHANGED <<kind, phase, entry, writers, seen, over, resolving, told>>
  BY <1>1 DEF entryVars
<1>5. EntriesTypeOK'
  BY <1>2, <1>4 DEF EntriesInv, EntriesTypeOK, LogInv
<1>6. VersionsInv'
  BY <1>3, <1>4 DEF EntriesInv, VersionsInv
<1>7. \A q \in Pushes : q # p => pc'[q] = pc[q]
  BY <1>1 DEF EntriesInv, LogInv, TypeOK, RecordStep, Rollback, Begin, SelectLocks, SelectSkips,
              SelectFindsNone, StartUpdate, FlagNext, UpdateEnds, InsertAndCommit, Step
<1>8. \A r \in Committed : r \in Committed' /\ rival'[r] = rival[r]
                         /\ (row[r].resolved => row'[r].resolved)
  BY <1>1, CommittedStays
<1>9. RequestsInOrder'
  <2>1. SUFFICES ASSUME NEW q \in Pushes
                 PROVE  /\ kind[q] \in {"put", "delete"} /\ phase[q] # "written" => pc'[q] = "new"
                        /\ phase[q] = "answered" => kind[q] = "push" /\ pc'[q] = "committed"
    BY <1>4 DEF RequestsInOrder
  <2>2. /\ kind[q] \in {"put", "delete"} /\ phase[q] # "written" => pc[q] = "new"
        /\ phase[q] = "answered" => kind[q] = "push" /\ pc[q] = "committed"
    BY DEF EntriesInv, RequestsInOrder
  <2>3. phase[q] = "answered" => pc'[q] = "committed"
    BY <1>8, <2>2 DEF Committed
  <2>4. ASSUME kind[q] \in {"put", "delete"}, phase[q] # "written"
        PROVE  q # p
    <3>1. pc[q] = "new"
      BY <2>2, <2>4
    <3>2. ~Ready(q)
      BY <2>4 DEF Ready
    <3>3. QED
      BY <3>1, <3>2 DEF Records
  <2>5. QED
    BY <1>7, <2>2, <2>3, <2>4
<1>10. PusherIsTold'
  <2>1. SUFFICES ASSUME NEW q \in Pushes, phase[q] = "answered", rival'[q] # None
                 PROVE  q \in told \/ row'[q].resolved
    BY <1>4 DEF PusherIsTold
  <2>2. q \in Committed
    BY <2>1 DEF EntriesInv, RequestsInOrder, Committed
  <2>3. q \in told \/ row[q].resolved
    BY <1>8, <2>1, <2>2 DEF EntriesInv, PusherIsTold
  <2>4. QED
    BY <1>8, <2>2, <2>3
<1>11. QED
  BY <1>2, <1>5, <1>6, <1>9, <1>10 DEF EntriesInv

\* A flagged push is answered with the pairs, whatever ids the rows drew.
LEMMA AnswersKeeps ==
  ASSUME EntriesInv, NEW p \in Pushes, Answers(p)
  PROVE  EntriesInv'
<1>1. UNCHANGED vars /\ UNCHANGED <<kind, entry, writers, seen, over, resolving>>
  BY DEF Answers
<1>2. UNCHANGED <<device, base, pc, rival, row, resolutions>>
  BY <1>1 DEF vars, txVars
<1>3. LogInv'
  BY <1>1, StutterKeeps DEF EntriesInv
<1>4. kind[p] = "push" /\ pc[p] = "committed" /\ phase' = [phase EXCEPT ![p] = "answered"]
  BY DEF Answers, Moves
<1>5. PICK rank \in Bijection(Pushes, Pushes) :
        told' = IF DetectedPairs(rank) # {} THEN told \cup {p} ELSE told
  BY DEF Answers
<1>6. EntriesTypeOK'
  BY <1>1, <1>3, <1>4, <1>5 DEF EntriesInv, EntriesTypeOK, LogInv
<1>7. VersionsInv'
  BY <1>1, <1>2 DEF EntriesInv, VersionsInv
<1>8. RequestsInOrder'
  BY <1>1, <1>2, <1>4 DEF EntriesInv, EntriesTypeOK, RequestsInOrder
<1>9. rival[p] # None => p \in told' \/ row[p].resolved
  <2>1. SUFFICES ASSUME rival[p] # None, ~row[p].resolved PROVE p \in told'
    OBVIOUS
  <2>2. p \in Committed
    BY <1>4 DEF Committed
  <2>3. Noticed(p)
    BY <2>1, <2>2 DEF EntriesInv, LogInv, TxInv, OwnRowNoticed
  <2>4. p \in Flagged
    BY <2>1, <2>2, <2>3 DEF Noticed, Flagged
  <2>5. DetectedPairs(rank) # {}
    BY <2>4, PairsAreReported DEF EntriesInv, FlagsAreReported
  <2>6. QED
    BY <1>5, <2>5
<1>10. PusherIsTold'
  <2>1. told \subseteq told'
    BY <1>5
  <2>2. SUFFICES ASSUME NEW q \in Pushes, phase'[q] = "answered", rival[q] # None
                 PROVE  q \in told' \/ row[q].resolved
    BY <1>2 DEF PusherIsTold
  <2>3. CASE q = p
    BY <1>9, <2>2, <2>3
  <2>4. CASE q # p
    <3>1. phase[q] = "answered"
      BY <1>4, <2>2, <2>4 DEF EntriesInv, EntriesTypeOK
    <3>2. QED
      BY <2>1, <2>2, <3>1 DEF EntriesInv, PusherIsTold
  <2>5. QED
    BY <2>3, <2>4
<1>11. QED
  BY <1>3, <1>6, <1>7, <1>8, <1>10 DEF EntriesInv

-----------------------------------------------------------------------------
LEMMA ResolvesKeeps ==
  ASSUME EntriesInv, NEW strategy \in {"remote", "merge", "last-write-wins"}, Resolves(strategy)
  PROVE  EntriesInv'
<1>1. LogInv /\ ResolveConflict /\ [Next]_vars
  BY DEF EntriesInv, Resolves, Next
<1>2. LogInv'
  BY <1>1, NextKeeps
<1>3. UNCHANGED <<device, base, pc, rival>> /\ resolutions' = resolutions + 1
  BY <1>1 DEF ResolveConflict, txVars
<1>4. UNCHANGED <<kind, phase, entry, writers, seen, over, told>>
  BY DEF Resolves
<1>5. resolutions \in Nat /\ resolutions' \in 1..MaxResolutions
  <2>1. resolutions \in 0..MaxResolutions /\ resolutions' \in 0..MaxResolutions
    BY <1>1, <1>2 DEF LogInv, TypeOK
  <2>2. QED
    BY <1>3, <2>1, BoundsAssumption
<1>6. ASSUME NEW r \in resolving'
      PROVE  r \in Resolvings /\ (r.pc = "update" => r.version # 0)
  <2>1. \/ r \in resolving
        \/ r = [id |-> resolutions', pc |-> "merge", version |-> 0]
        \/ r = [id |-> resolutions', pc |-> "select", version |-> 0]
    BY <1>6 DEF Resolves
  <2>2. CASE r \in resolving
    BY <2>2 DEF EntriesInv, EntriesTypeOK, VersionsInv, Resolvings
  <2>3. CASE r = [id |-> resolutions', pc |-> "merge", version |-> 0]
    BY <1>5, <2>3 DEF Resolvings
  <2>4. CASE r = [id |-> resolutions', pc |-> "select", version |-> 0]
    BY <1>5, <2>4 DEF Resolvings
  <2>5. QED
    BY <2>1, <2>2, <2>3, <2>4
<1>7. EntriesTypeOK'
  BY <1>2, <1>4, <1>6 DEF EntriesInv, EntriesTypeOK, LogInv, Resolvings
<1>8. VersionsInv'
  BY <1>3, <1>5, <1>6 DEF EntriesInv, VersionsInv
<1>9. RequestsInOrder'
  BY <1>3, <1>4 DEF EntriesInv, RequestsInOrder
<1>10. PusherIsTold'
  <2>1. SUFFICES ASSUME NEW q \in Pushes, phase[q] = "answered", rival[q] # None
                 PROVE  q \in told \/ row'[q].resolved
    BY <1>3, <1>4 DEF PusherIsTold
  <2>2. q \in Committed
    BY <2>1 DEF EntriesInv, RequestsInOrder, Committed
  <2>3. QED
    BY <1>1, <2>1, <2>2, CommittedStays DEF EntriesInv, PusherIsTold
<1>11. QED
  BY <1>2, <1>7, <1>8, <1>9, <1>10 DEF EntriesInv

\* The later statements of a resolution: only what is left of the resolutions
\* and the entry move.
LEMMA ResolvingKeeps ==
  ASSUME EntriesInv, resolutions # 0,
         UNCHANGED <<vars, kind, phase, writers, seen, over, told>>,
         entry' \in EntrySet,
         \A r \in resolving' : r \in Resolvings /\ (r.pc = "update" => r.version # 0)
  PROVE  EntriesInv'
<1>1. LogInv'
  BY StutterKeeps DEF EntriesInv
<1>2. UNCHANGED <<base, pc, rival, row, resolutions>>
  BY DEF vars, txVars
<1>3. EntriesTypeOK'
  BY <1>1 DEF EntriesInv, EntriesTypeOK, LogInv, EntrySet, Resolvings
<1>4. VersionsInv' /\ RequestsInOrder' /\ PusherIsTold'
  BY <1>2 DEF EntriesInv, VersionsInv, RequestsInOrder, PusherIsTold
<1>5. QED
  BY <1>1, <1>3, <1>4 DEF EntriesInv

LEMMA ResolvingIsTyped ==
  ASSUME EntriesInv, NEW r \in resolving
  PROVE  r \in Resolvings /\ (r.pc = "update" => r.version # 0) /\ resolutions # 0
BY DEF EntriesInv, EntriesTypeOK, VersionsInv, Resolvings

LEMMA SelectsLatestKeeps ==
  ASSUME EntriesInv, NEW r \in resolving, SelectsLatest(r)
  PROVE  EntriesInv'
<1>1. UNCHANGED <<vars, kind, phase, entry, writers, seen, over, told>>
  BY DEF SelectsLatest
<1>2. entry' \in EntrySet /\ resolutions # 0
  BY <1>1, ResolvingIsTyped DEF EntriesInv, EntriesTypeOK, EntrySet
<1>3. CASE Latest = {} /\ resolving' = resolving \ {r}
  BY <1>1, <1>2, <1>3, ResolvingIsTyped, ResolvingKeeps
<1>4. ASSUME NEW p \in Latest,
             resolving' = (resolving \ {r}) \cup {[r EXCEPT !.pc = "update", !.version = NewVersion(p)]}
      PROVE  EntriesInv'
  <2>1. base[p] \in Nat \ {0}
    BY DEF EntriesInv, LogInv, TypeOK, VersionsInv, Latest, Committed
  <2>2. NewVersion(p) \in Nat \ {0}
    BY <2>1 DEF NewVersion
  <2> DEFINE moved == [r EXCEPT !.pc = "update"]
             chosen == [moved EXCEPT !.version = NewVersion(p)]
  <2>3. moved \in Resolvings
    BY ResolvingIsTyped DEF Resolvings
  <2>4. resolving' = (resolving \ {r}) \cup {chosen}
    BY <1>4
  <2> HIDE DEF moved
  <2>5. chosen \in Resolvings /\ chosen.version # 0
    BY <2>2, <2>3 DEF Resolvings
  <2> HIDE DEF chosen
  <2>6. \A x \in resolving' : x \in Resolvings /\ (x.pc = "update" => x.version # 0)
    BY <2>4, <2>5, ResolvingIsTyped
  <2>7. QED
    BY <1>1, <1>2, <2>6, ResolvingKeeps
<1>5. QED
  BY <1>3, <1>4 DEF SelectsLatest

LEMMA WritesEntryKeeps ==
  ASSUME EntriesInv, NEW r \in resolving, WritesEntry(r)
  PROVE  EntriesInv'
<1>1. UNCHANGED <<vars, kind, phase, writers, seen, over, told>> /\ resolving' = resolving \ {r}
  BY DEF WritesEntry
<1> DEFINE v == IF r.pc = "merge" THEN entry.version + 1 ELSE r.version
<1>2. entry \in EntrySet /\ entry.version \in Nat \ {0}
  BY DEF EntriesInv, EntriesTypeOK, EntrySet
<1>3. v \in Nat \ {0}
  BY <1>2, ResolvingIsTyped DEF WritesEntry, Resolvings
<1>4. entry' = [entry EXCEPT !.version = v]
  BY DEF WritesEntry
<1> HIDE DEF v
<1>5. entry' \in EntrySet
  BY <1>2, <1>3, <1>4 DEF EntrySet
<1>6. QED
  BY <1>1, <1>5, ResolvingIsTyped, ResolvingKeeps

LEMMA EntriesStutterKeeps ==
  ASSUME EntriesInv, UNCHANGED allVars
  PROVE  EntriesInv'
<1>1. UNCHANGED vars /\ UNCHANGED <<kind, phase, entry, writers, seen, over, resolving, told>>
  BY DEF allVars, entryVars
<1>2. LogInv'
  BY <1>1, StutterKeeps DEF EntriesInv
<1>3. UNCHANGED <<base, pc, rival, row, resolutions>>
  BY <1>1 DEF vars, txVars
<1>4. QED
  BY <1>1, <1>2, <1>3
  DEF EntriesInv, EntriesTypeOK, LogInv, VersionsInv, RequestsInOrder, PusherIsTold

LEMMA EntriesNextKeeps ==
  ASSUME EntriesInv, [EntriesNext]_allVars
  PROVE  EntriesInv'
<1>1. CASE \E p \in Pushes : \/ Reads(p) \/ updateEntry(p) \/ deleteEntryLooks(p)
                             \/ deleteEntry(p) \/ Records(p) \/ Answers(p)
  BY <1>1, ReadsKeeps, updateEntryKeeps, deleteEntryLooksKeeps, deleteEntryKeeps, RecordsKeeps,
     AnswersKeeps
<1>2. CASE \E strategy \in {"remote", "merge", "last-write-wins"} : Resolves(strategy)
  BY <1>2, ResolvesKeeps
<1>3. CASE \E r \in resolving : SelectsLatest(r) \/ WritesEntry(r)
  BY <1>3, SelectsLatestKeeps, WritesEntryKeeps
<1>4. CASE UNCHANGED allVars
  BY <1>4, EntriesStutterKeeps
<1>5. QED
  BY <1>1, <1>2, <1>3, <1>4 DEF EntriesNext

LEMMA EntriesInvHolds == EntriesSpec => []EntriesInv
<1>1. EntriesInit => EntriesInv
  BY EntriesInitEstablishes
<1>2. EntriesInv /\ [EntriesNext]_allVars => EntriesInv'
  BY EntriesNextKeeps
<1>3. QED
  BY <1>1, <1>2, PTL DEF EntriesSpec

-----------------------------------------------------------------------------
\* Before the first resolution all versions are one, so that a write over an
\* unseen one of another device is a rival of it in the log.
LEMMA UnseenAreRivals ==
  ASSUME EntriesInv
  PROVE  UnseenWritesNoticed
<1>1. SUFFICES ASSUME resolutions = 0, NEW q \in Committed, NEW p \in Committed,
                      device[p] # device[q], p \in early[q] \/ q \in early[p]
               PROVE  Noticed(p) \/ Noticed(q)
  BY DEF UnseenWritesNoticed
<1>2. Rivals(p, q) /\ Rivals(q, p)
  BY <1>1 DEF EntriesInv, VersionsInv, Rivals, Committed
<1>3. QED
  BY <1>1, <1>2 DEF EntriesInv, LogInv, RowInv, LateConflictNoticed

\* The log, the entry and the requests keep to their domains (routes/entries.ts,
\* routes/sync.ts, SyncService.ts); no version is ever 0.
THEOREM RequestsTypeCorrect == EntriesSpec => []EntriesTypeOK
<1>1. EntriesInv => EntriesTypeOK
  BY DEF EntriesInv
<1>2. QED
  BY <1>1, EntriesInvHolds, PTL

\* Under the requests too, of two conflicting pushes that did not overlap one
\* row was flagged (recordChange, SyncService.ts).
THEOREM LateConflictsOfRequestsAreNoticed == EntriesSpec => []LateConflictNoticed
<1>1. EntriesInv => LateConflictNoticed
  BY DEF EntriesInv, LogInv, RowInv
<1>2. QED
  BY <1>1, EntriesInvHolds, PTL

\* Under the requests too, the device a flag names pushed from the same version
\* (recordChange, SyncService.ts).
THEOREM FlagsOfRequestsNameRivals == EntriesSpec => []FlagNamesARival
<1>1. EntriesInv => FlagNamesARival
  BY DEF EntriesInv, LogInv, RowInv
<1>2. QED
  BY <1>1, EntriesInvHolds, PTL

\* Under the requests too, an entry with a flagged row is reported
\* (detectConflicts, SyncService.ts).
THEOREM ConflictsOfRequestsAreReported == EntriesSpec => []FlagsAreReported
<1>1. EntriesInv => FlagsAreReported
  BY PairsAreReported DEF EntriesInv
<1>2. QED
  BY <1>1, EntriesInvHolds, PTL

\* PUT and DELETE (routes/entries.ts) overwrite what they have not seen; until a
\* conflict was resolved the log shows it, unless the two transactions overlapped.
THEOREM UnseenWritesAreNoticed == EntriesSpec => []UnseenWritesNoticed
<1>1. EntriesInv => UnseenWritesNoticed
  BY UnseenAreRivals
<1>2. QED
  BY <1>1, EntriesInvHolds, PTL

\* POST /sync (routes/sync.ts): a device whose push met a conflict hears of it
\* in the answer, unless it was resolved meanwhile.
THEOREM FlaggedPushersAreTold == EntriesSpec => []PusherIsTold
<1>1. EntriesInv => PusherIsTold
  BY DEF EntriesInv
<1>2. QED
  BY <1>1, EntriesInvHolds, PTL

-----------------------------------------------------------------------------
\* Beside the steps of the log, a request only moves the base of a push that has
\* not begun.
LEMMA RequestStepsOfLog ==
  ASSUME EntriesInv, [EntriesNext]_allVars, ~[Next]_vars
  PROVE  \E p \in Pushes : Reads(p)
<1>1. ASSUME NEW p \in Pushes,
             updateEntry(p) \/ deleteEntryLooks(p) \/ deleteEntry(p) \/ Answers(p)
      PROVE  UNCHANGED vars
  BY <1>1 DEF updateEntry, deleteEntryLooks, deleteEntry, Answers, Overwrites
<1>2. ASSUME NEW p \in Pushes, Records(p)
      PROVE  Next
  BY <1>2 DEF Records, Next
<1>3. ASSUME NEW strategy \in {"remote", "merge", "last-write-wins"}, Resolves(strategy)
      PROVE  Next
  BY <1>3 DEF Resolves, Next
<1>4. ASSUME NEW r \in resolving, SelectsLatest(r) \/ WritesEntry(r)
      PROVE  UNCHANGED vars
  BY <1>4 DEF SelectsLatest, WritesEntry
<1>5. UNCHANGED allVars => UNCHANGED vars
  BY DEF allVars
<1>6. QED
  BY <1>1, <1>2, <1>3, <1>4, <1>5 DEF EntriesNext

LEMMA ReadsKeepsPromise ==
  ASSUME EntriesInv, LocksExclusive, NEW p \in Pushes, Reads(p)
  PROVE  LocksExclusive' /\ UNCHANGED Ledger!ledgerVars
<1>1. /\ base' = [base EXCEPT ![p] = entry.version] /\ pc[p] = "new"
      /\ UNCHANGED <<device, pc, marks, row, early>>
  BY DEF EntriesInv, RequestsInOrder, Reads, Moves, txVars
<1>2. Committed' = Committed /\ Begun' = Begun /\ p \notin Committed
  BY <1>1 DEF Committed, Begun
<1>3. \A q \in Committed : base'[q] = base[q]
  BY <1>1, <1>2 DEF EntriesInv, LogInv, TypeOK, Committed
<1>4. QED
  BY <1>1, <1>2, <1>3, LocklessStepKeeps, LedgerUntouched

\* The requests too leave the log a ledger, although a PUT or DELETE learns its
\* base version on the way (routes/entries.ts, recordChange).
THEOREM RequestsKeepALedger == EntriesSpec => FlagsAsPromised
<1>1. EntriesInit => LocksExclusive /\ Ledger!LedgerInit
  BY InitLocksNothing, InitIsEmptyLedger DEF EntriesInit
<1>2. EntriesInv /\ LocksExclusive /\ [EntriesNext]_allVars =>
        LocksExclusive' /\ [Ledger!LedgerNext]_Ledger!ledgerVars
  <2>1. EntriesInv => LogInv
    BY DEF EntriesInv
  <2>2. QED
    BY <2>1, RequestStepsOfLog, ReadsKeepsPromise, NextKeepsLocks, NextKeepsPromise
<1>3. QED
  BY <1>1, <1>2, EntriesInvHolds, PTL DEF EntriesSpec, FlagsAsPromised, Ledger!LedgerSpec
=============================================================================
