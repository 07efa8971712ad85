---------------------------- MODULE SyncLog_proofs ----------------------------
(***************************************************************************)
(* Proofs about SyncLog, for any number of pushes, devices, versions and   *)
(* resolutions: its type correctness, and that what its flags say is right *)
(* however the transactions interleave.                                    *)
(*                                                                         *)
(* The invariants are not inductive by themselves.  TxInv(p) says of the   *)
(* transaction of push p what its statements rely on: the rows it still    *)
(* looks at or has locked are committed and rivals of p, and every rival   *)
(* committed before it began is flagged, resolved or still to be looked    *)
(* at.  RowInv says of the committed rows that flags come in pairs.        *)
(***************************************************************************)
EXTENDS SyncLog, TLAPS, WellFoundedInduction

RowSet == [hasConflict : BOOLEAN, with : Devices \cup {None}, resolved : BOOLEAN]

\* A push that has not begun has looked at nothing.
NewIsBlank(p) ==
  pc[p] = "new" => scan[p] = {} /\ marks[p] = {} /\ early[p] = {} /\ rival[p] = None

\* What it looks at, has flagged or found when it began is in the table.
WorksOnRivals(p) ==
  /\ early[p] \subseteq Committed
  /\ \A r \in scan[p] : r \in Committed /\ Rivals(p, r)
  /\ \A r \in marks[p] : r \in Committed /\ Rivals(p, r)

\* It has flagged rows of the device it names, and none when it names none.
MarksOfRival(p) ==
  /\ rival[p] = None <=> marks[p] = {}
  /\ \A r \in marks[p] : device[r] = rival[p]
  /\ pc[p] = "update" => \A r \in scan[p] : device[r] = rival[p]
  /\ pc[p] = "select" => rival[p] = None
  /\ pc[p] \in {"found", "update"} => rival[p] # None

\* The SELECT has the rivals it must not miss still before it ...
SearchCovers(p) ==
  pc[p] = "select" => \A q \in early[p] : Rivals(p, q) => Noticed(q) \/ q \in scan[p]

\* ... and when it found none to lock, they had all been noticed.
NothingMissed(p) ==
  pc[p] = "insert" /\ rival[p] = None =>
    \A q \in early[p] : Rivals(p, q) => Noticed(q)

\* The row of a push that met a conflict is flagged, until it is resolved.
OwnRowNoticed(p) == p \in Committed /\ rival[p] # None => Noticed(p)

TxInv(p) == /\ NewIsBlank(p) /\ WorksOnRivals(p) /\ MarksOfRival(p)
            /\ SearchCovers(p) /\ NothingMissed(p) /\ OwnRowNoticed(p)

\* A flagged row has a rival that is flagged too.
FlagsPaired == \A r \in Flagged : \E q \in Flagged : Rivals(r, q)

RowInv == LateConflictNoticed /\ FlagNamesARival /\ FlagsPaired

LogInv == TypeOK /\ (\A p \in Pushes : TxInv(p)) /\ RowInv

-----------------------------------------------------------------------------
\* The first of a set of row numbers is one of them.
LEMMA FirstBelongs ==
  ASSUME NEW S \in SUBSET Pushes, S # {}
  PROVE  First(S) \in S
<1>1. S \subseteq Nat
  BY BoundsAssumption DEF Pushes
<1> DEFINE Below == {ss \in Nat \X Nat : ss[1] < ss[2]}
<1>2. IsWellFoundedOn(Below, Nat)
  BY NatLessThanWellFounded DEF OpToRel
<1>3. PICK x \in S : \A y \in S : ~(<<y, x>> \in Below)
  <2> HIDE DEF Below
  <2>1. QED BY ONLY <1>1, <1>2, S # {}, WFMin
<1>4. ASSUME NEW y \in S
      PROVE  x <= y
  <2>1. x \in Nat /\ y \in Nat
    BY <1>1
  <2>2. <<y, x>> \notin Below
    BY <1>3
  <2>3. ~(y < x)
    BY <2>1, <2>2
  <2>4. QED
    BY <2>1, <2>3
<1>5. QED
  BY <1>4 DEF First

LEMMA RowsAreTyped ==
  ASSUME TypeOK, NEW r \in Pushes
  PROVE  /\ row[r] \in RowSet
         /\ row[r].hasConflict \in BOOLEAN
         /\ row[r].with \in Devices \cup {None}
         /\ row[r].resolved \in BOOLEAN
BY DEF TypeOK, RowSet

-----------------------------------------------------------------------------
LEMMA InitEstablishes == Init => LogInv
<1> SUFFICES ASSUME Init PROVE LogInv
  OBVIOUS
<1>1. NoRow \in RowSet
  BY DEF NoRow, RowSet
<1>2. TypeOK
  <2>1. device \in [Pushes -> Devices] /\ base \in [Pushes -> Nat]
    BY CallersAssumption, VersionsAssumption DEF Init
  <2>2. row \in [Pushes -> RowSet] /\ resolutions \in 0..MaxResolutions
    BY <1>1, BoundsAssumption DEF Init
  <2>3. QED
    BY <2>1, <2>2 DEF Init, TypeOK, RowSet
<1>3. Committed = {}
  BY DEF Init, Committed
<1>4. ASSUME NEW p \in Pushes
      PROVE  TxInv(p)
  BY <1>3 DEF Init, TxInv, NewIsBlank, WorksOnRivals, MarksOfRival, SearchCovers,
              NothingMissed, OwnRowNoticed
<1>5. RowInv
  BY <1>3 DEF RowInv, LateConflictNoticed, FlagNamesARival, FlagsPaired, Flagged
<1>6. QED
  BY <1>2, <1>4, <1>5 DEF LogInv

\* A statement that neither commits nor touches the table changes nothing for
\* the other transactions, nor for the rows.
LEMMA SearchStepKeeps ==
  ASSUME LogInv, TypeOK', NEW p \in Pushes,
         UNCHANGED <<device, base, row>>,
         p \notin Committed, p \notin Committed',
         \A q \in Pushes : q # p =>
           /\ pc'[q] = pc[q] /\ scan'[q] = scan[q] /\ marks'[q] = marks[q]
           /\ rival'[q] = rival[q] /\ early'[q] = early[q],
         TxInv(p)'
  PROVE  LogInv'
<1>1. Committed' = Committed
  BY DEF Committed
<1>2. Flagged' = Flagged
  BY <1>1 DEF Flagged
<1>3. ASSUME NEW q \in Pushes, q # p
      PROVE  TxInv(q)'
  <2>1. TxInv(q)
    BY DEF LogInv
  <2>2. QED
    BY <1>1, <1>3, <2>1
    DEF TxInv, NewIsBlank, WorksOnRivals, MarksOfRival, SearchCovers, NothingMissed,
        OwnRowNoticed, Noticed, Rivals
<1>4. LateConflictNoticed'
  <2>1. LateConflictNoticed
    BY DEF LogInv, RowInv
  <2>2. \A q \in Committed : q \in Pushes /\ q # p
    BY DEF Committed
  <2>3. QED
    BY <1>1, <2>1, <2>2 DEF LateConflictNoticed, Noticed, Rivals
<1>5. FlagNamesARival' /\ FlagsPaired'
  BY <1>1, <1>2 DEF LogInv, RowInv, FlagNamesARival, FlagsPaired, Rivals
<1>6. QED
  BY <1>3, <1>4, <1>5 DEF LogInv, RowInv

-----------------------------------------------------------------------------
LEMMA BeginKeeps ==
  ASSUME LogInv, NEW p \in Pushes, Begin(p)
  PROVE  LogInv'
<1>1. TypeOK' /\ pc'[p] = "select" /\ early'[p] = Committed /\ scan'[p] = Candidates(p)
  BY DEF LogInv, TypeOK, Begin, Step, Candidates, Committed
<1>2. marks'[p] = {} /\ rival'[p] = None
  BY DEF LogInv, TxInv, NewIsBlank, Begin, Step
<1>3. p \notin Committed /\ p \notin Committed'
  BY <1>1 DEF Begin, Step, Committed
<1>4. Committed' = Committed
  BY <1>1 DEF Begin, Step, Committed, LogInv, TypeOK
<1>5. NewIsBlank(p)' /\ MarksOfRival(p)' /\ NothingMissed(p)' /\ OwnRowNoticed(p)'
  BY <1>1, <1>2 DEF NewIsBlank, MarksOfRival, NothingMissed, OwnRowNoticed
<1>6. WorksOnRivals(p)' /\ SearchCovers(p)'
  BY <1>1, <1>2, <1>4
  DEF WorksOnRivals, SearchCovers, Candidates, Rivals, Noticed, Begin
<1>7. TxInv(p)'
  BY <1>5, <1>6 DEF TxInv
<1>8. QED
  <2>1. \A q \in Pushes : q # p =>
          /\ pc'[q] = pc[q] /\ scan'[q] = scan[q] /\ marks'[q] = marks[q]
          /\ rival'[q] = rival[q] /\ early'[q] = early[q]
    BY DEF LogInv, TypeOK, Begin, Step
  <2>2. UNCHANGED <<device, base, row>>
    BY DEF Begin
  <2>3. QED
    BY <1>1, <1>3, <1>7, <2>1, <2>2, SearchStepKeeps

LEMMA SelectLocksKeeps ==
  ASSUME LogInv, NEW p \in Pushes, SelectLocks(p)
  PROVE  LogInv'
<1> DEFINE r == First(scan[p])
<1>1. r \in scan[p] /\ r \in Pushes
  BY FirstBelongs DEF LogInv, TypeOK, SelectLocks
<1>2. TxInv(p)
  BY DEF LogInv
<1>3. r \in Committed /\ Rivals(p, r)
  BY <1>1, <1>2 DEF TxInv, WorksOnRivals
<1>4. device[r] \in Devices /\ device[r] # None
  BY <1>1, DevicesAssumption DEF LogInv, TypeOK
<1>5. /\ marks' = [marks EXCEPT ![p] = {r}] /\ rival' = [rival EXCEPT ![p] = device[r]]
      /\ pc[p] = "select" /\ pc' = [pc EXCEPT ![p] = "found"]
      /\ UNCHANGED <<device, base, scan, row, early, resolutions>>
  BY DEF SelectLocks, ForUpdate, Step
<1> HIDE DEF r
<1>6. TypeOK' /\ pc'[p] = "found" /\ marks'[p] = {r} /\ rival'[p] = device[r]
  BY <1>1, <1>4, <1>5 DEF LogInv, TypeOK
<1>7. p \notin Committed /\ p \notin Committed'
  BY <1>5, <1>6 DEF Committed
<1>8. Committed' = Committed
  BY <1>5, <1>6 DEF Committed, LogInv, TypeOK
<1>9. /\ NewIsBlank(p)' /\ SearchCovers(p)' /\ NothingMissed(p)' /\ OwnRowNoticed(p)'
  BY <1>6, <1>7 DEF NewIsBlank, SearchCovers, NothingMissed, OwnRowNoticed
<1>10. WorksOnRivals(p)' /\ MarksOfRival(p)'
  BY <1>2, <1>3, <1>4, <1>5, <1>6, <1>8 DEF TxInv, WorksOnRivals, MarksOfRival, Rivals
<1>11. TxInv(p)'
  BY <1>9, <1>10 DEF TxInv
<1>12. QED
  <2>1. \A q \in Pushes : q # p =>
          /\ pc'[q] = pc[q] /\ scan'[q] = scan[q] /\ marks'[q] = marks[q]
          /\ rival'[q] = rival[q] /\ early'[q] = early[q]
    BY <1>5 DEF LogInv, TypeOK
  <2>2. QED
    BY <1>5, <1>6, <1>7, <1>11, <2>1, SearchStepKeeps

LEMMA SelectSkipsKeeps ==
  ASSUME LogInv, NEW p \in Pushes, SelectSkips(p)
  PROVE  LogInv'
<1> DEFINE r == First(scan[p])
<1>1. r \in scan[p] /\ r \in Pushes
  BY FirstBelongs DEF LogInv, TypeOK, SelectSkips
<1>2. TxInv(p)
  BY DEF LogInv
<1>3. /\ pc[p] = "select" /\ row[r].hasConflict
      /\ scan' = [scan EXCEPT ![p] = scan[p] \ {r}]
      /\ UNCHANGED <<device, base, pc, marks, rival, row, early, resolutions>>
  BY DEF SelectSkips
<1> HIDE DEF r
<1>4. TypeOK' /\ scan'[p] = scan[p] \ {r}
  BY <1>3 DEF LogInv, TypeOK
<1>5. p \notin Committed /\ Committed' = Committed
  BY <1>3 DEF Committed
<1>6. /\ NewIsBlank(p)' /\ NothingMissed(p)' /\ OwnRowNoticed(p)'
  BY <1>3, <1>5 DEF NewIsBlank, NothingMissed, OwnRowNoticed
<1>7. WorksOnRivals(p)' /\ MarksOfRival(p)'
  BY <1>2, <1>3, <1>4, <1>5 DEF TxInv, WorksOnRivals, MarksOfRival, Rivals
<1>8. SearchCovers(p)'
  BY <1>2, <1>3, <1>4 DEF TxInv, SearchCovers, Rivals, Noticed
<1>9. TxInv(p)'
  BY <1>6, <1>7, <1>8 DEF TxInv
<1>10. QED
  <2>1. \A q \in Pushes : q # p =>
          /\ pc'[q] = pc[q] /\ scan'[q] = scan[q] /\ marks'[q] = marks[q]
          /\ rival'[q] = rival[q] /\ early'[q] = early[q]
    BY <1>3 DEF LogInv, TypeOK
  <2>2. QED
    BY <1>3, <1>4, <1>5, <1>9, <2>1, SearchStepKeeps

LEMMA SelectFindsNoneKeeps ==
  ASSUME LogInv, NEW p \in Pushes, SelectFindsNone(p)
  PROVE  LogInv'
<1>1. TxInv(p)
  BY DEF LogInv
<1>2. TypeOK' /\ pc'[p] = "insert"
  BY DEF SelectFindsNone, Step, LogInv, TypeOK
<1>3. p \notin Committed /\ p \notin Committed' /\ Committed' = Committed
  BY <1>2 DEF Committed, SelectFindsNone, Step, LogInv, TypeOK
<1>4. NewIsBlank(p)' /\ SearchCovers(p)' /\ OwnRowNoticed(p)'
  BY <1>2, <1>3 DEF NewIsBlank, SearchCovers, OwnRowNoticed
<1>5. WorksOnRivals(p)' /\ MarksOfRival(p)'
  BY <1>1, <1>2, <1>3 DEF SelectFindsNone, TxInv, WorksOnRivals, MarksOfRival, Rivals
<1>6. NothingMissed(p)'
  BY <1>1 DEF SelectFindsNone, Step, TxInv, SearchCovers, NothingMissed, Rivals, Noticed
<1>7. TxInv(p)'
  BY <1>4, <1>5, <1>6 DEF TxInv
<1>8. QED
  <2>1. \A q \in Pushes : q # p =>
          /\ pc'[q] = pc[q] /\ scan'[q] = scan[q] /\ marks'[q] = marks[q]
          /\ rival'[q] = rival[q] /\ early'[q] = early[q]
    BY DEF LogInv, TypeOK, SelectFindsNone, Step
  <2>2. UNCHANGED <<device, base, row>>
    BY DEF SelectFindsNone
  <2>3. QED
    BY <1>2, <1>3, <1>7, <2>1, <2>2, SearchStepKeeps

LEMMA StartUpdateKeeps ==
  ASSUME LogInv, NEW p \in Pushes, StartUpdate(p)
  PROVE  LogInv'
<1> DEFINE rows == {r \in Candidates(p) : device[r] = rival[p]}
<1>1. TxInv(p)
  BY DEF LogInv
<1>2. /\ pc[p] = "found" /\ pc' = [pc EXCEPT ![p] = "update"]
      /\ scan' = [scan EXCEPT ![p] = rows]
      /\ UNCHANGED <<device, base, marks, rival, row, early, resolutions>>
  BY DEF StartUpdate, Step
<1>3. /\ rows \subseteq Pushes
      /\ \A r \in rows : r \in Committed /\ Rivals(p, r) /\ device[r] = rival[p]
  BY DEF Candidates, Committed
<1> HIDE DEF rows
<1>4. TypeOK' /\ pc'[p] = "update" /\ scan'[p] = rows
  BY <1>2, <1>3 DEF LogInv, TypeOK
<1>5. p \notin Committed /\ p \notin Committed' /\ Committed' = Committed
  BY <1>2, <1>4 DEF Committed, LogInv, TypeOK
<1>6. NewIsBlank(p)' /\ SearchCovers(p)' /\ NothingMissed(p)' /\ OwnRowNoticed(p)'
  BY <1>4, <1>5 DEF NewIsBlank, SearchCovers, NothingMissed, OwnRowNoticed
<1>7. WorksOnRivals(p)'
  BY <1>1, <1>2, <1>3, <1>4, <1>5 DEF TxInv, WorksOnRivals, Rivals
<1>8. MarksOfRival(p)'
  BY <1>1, <1>2, <1>3, <1>4 DEF TxInv, MarksOfRival
<1>9. TxInv(p)'
  BY <1>6, <1>7, <1>8 DEF TxInv
<1>10. QED
  <2>1. \A q \in Pushes : q # p =>
          /\ pc'[q] = pc[q] /\ scan'[q] = scan[q] /\ marks'[q] = marks[q]
          /\ rival'[q] = rival[q] /\ early'[q] = early[q]
    BY <1>2 DEF LogInv, TypeOK
  <2>2. QED
    BY <1>2, <1>4, <1>5, <1>9, <2>1, SearchStepKeeps

LEMMA FlagNextKeeps ==
  ASSUME LogInv, NEW p \in Pushes, FlagNext(p)
  PROVE  LogInv'
<1> DEFINE r == First(scan[p])
           flagged == IF row[r].hasConflict THEN marks[p] ELSE marks[p] \cup {r}
<1>1. r \in scan[p] /\ r \in Pushes
  BY FirstBelongs DEF LogInv, TypeOK, FlagNext
<1>2. TxInv(p)
  BY DEF LogInv
<1>3. /\ pc[p] = "update"
      /\ scan' = [scan EXCEPT ![p] = scan[p] \ {r}]
      /\ marks' = IF row[r].hasConflict THEN marks
                  ELSE [marks EXCEPT ![p] = marks[p] \cup {r}]
      /\ UNCHANGED <<device, base, pc, rival, row, early, resolutions>>
  BY DEF FlagNext
<1>4. marks' = [marks EXCEPT ![p] = flagged]
  BY <1>3 DEF LogInv, TypeOK
<1>5. marks[p] \subseteq flagged /\ flagged \subseteq marks[p] \cup {r}
  OBVIOUS
<1> HIDE DEF r, flagged
<1>6. TypeOK' /\ scan'[p] = scan[p] \ {r} /\ marks'[p] = flagged
  <2>1. flagged \in SUBSET Pushes
    BY <1>1, <1>5 DEF LogInv, TypeOK
  <2>2. QED
    BY <1>3, <1>4, <2>1 DEF LogInv, TypeOK
<1>7. p \notin Committed /\ Committed' = Committed
  BY <1>3 DEF Committed
<1>8. NewIsBlank(p)' /\ SearchCovers(p)' /\ NothingMissed(p)' /\ OwnRowNoticed(p)'
  BY <1>3, <1>7 DEF NewIsBlank, SearchCovers, NothingMissed, OwnRowNoticed
<1>9. WorksOnRivals(p)'
  BY <1>1, <1>2, <1>3, <1>5, <1>6, <1>7 DEF TxInv, WorksOnRivals, Rivals
<1>10. MarksOfRival(p)'
  BY <1>1, <1>2, <1>3, <1>5, <1>6 DEF TxInv, MarksOfRival
<1>11. TxInv(p)'
  BY <1>8, <1>9, <1>10 DEF TxInv
<1>12. QED
  <2>1. \A q \in Pushes : q # p =>
          /\ pc'[q] = pc[q] /\ scan'[q] = scan[q] /\ marks'[q] = marks[q]
          /\ rival'[q] = rival[q] /\ early'[q] = early[q]
    BY <1>3, <1>4 DEF LogInv, TypeOK
  <2>2. QED
    BY <1>3, <1>6, <1>7, <1>11, <2>1, SearchStepKeeps

LEMMA UpdateEndsKeeps ==
  ASSUME LogInv, NEW p \in Pushes, UpdateEnds(p)
  PROVE  LogInv'
<1>1. TxInv(p)
  BY DEF LogInv
<1>2. TypeOK' /\ pc[p] = "update" /\ pc'[p] = "insert"
  BY DEF UpdateEnds, Step, LogInv, TypeOK
<1>3. p \notin Committed /\ p \notin Committed' /\ Committed' = Committed
  BY <1>2 DEF Committed, UpdateEnds, Step, LogInv, TypeOK
<1>4. NewIsBlank(p)' /\ SearchCovers(p)' /\ OwnRowNoticed(p)'
  BY <1>2, <1>3 DEF NewIsBlank, SearchCovers, OwnRowNoticed
<1>5. WorksOnRivals(p)' /\ MarksOfRival(p)' /\ NothingMissed(p)'
  BY <1>1, <1>2, <1>3
  DEF UpdateEnds, TxInv, WorksOnRivals, MarksOfRival, NothingMissed, Rivals
<1>6. TxInv(p)'
  BY <1>4, <1>5 DEF TxInv
<1>7. QED
  <2>1. \A q \in Pushes : q # p =>
          /\ pc'[q] = pc[q] /\ scan'[q] = scan[q] /\ marks'[q] = marks[q]
          /\ rival'[q] = rival[q] /\ early'[q] = early[q]
    BY DEF LogInv, TypeOK, UpdateEnds, Step
  <2>2. UNCHANGED <<device, base, row>>
    BY DEF UpdateEnds
  <2>3. QED
    BY <1>2, <1>3, <1>6, <2>1, <2>2, SearchStepKeeps

LEMMA RollbackKeeps ==
  ASSUME LogInv, NEW p \in Pushes, Rollback(p)
  PROVE  LogInv'
<1>1. TxInv(p)
  BY DEF LogInv
<1>2. TypeOK' /\ pc'[p] = "failed" /\ pc[p] # "committed"
  BY DEF Rollback, Begun, LogInv, TypeOK
<1>3. p \notin Committed /\ p \notin Committed' /\ Committed' = Committed
  BY <1>2 DEF Committed, Rollback, LogInv, TypeOK
<1>4. /\ NewIsBlank(p)' /\ SearchCovers(p)' /\ NothingMissed(p)' /\ OwnRowNoticed(p)'
  BY <1>2, <1>3 DEF NewIsBlank, SearchCovers, NothingMissed, OwnRowNoticed
<1>5. WorksOnRivals(p)' /\ MarksOfRival(p)'
  BY <1>1, <1>2, <1>3 DEF Rollback, TxInv, WorksOnRivals, MarksOfRival, Rivals
<1>6. TxInv(p)'
  BY <1>4, <1>5 DEF TxInv
<1>7. QED
  <2>1. \A q \in Pushes : q # p =>
          /\ pc'[q] = pc[q] /\ scan'[q] = scan[q] /\ marks'[q] = marks[q]
          /\ rival'[q] = rival[q] /\ early'[q] = early[q]
    BY DEF LogInv, TypeOK, Rollback
  <2>2. UNCHANGED <<device, base, row>>
    BY DEF Rollback
  <2>3. QED
    BY <1>2, <1>3, <1>6, <2>1, <2>2, SearchStepKeeps

-----------------------------------------------------------------------------
\* What the rows say after an INSERT and its COMMIT.
LEMMA MarkedRowSays ==
  ASSUME TypeOK, NEW p \in Pushes, NEW r \in Pushes
  PROVE  /\ MarkedRow(r, p) \in RowSet
         /\ MarkedRow(r, p).hasConflict
         /\ MarkedRow(r, p).with = device[p]
         /\ MarkedRow(r, p).resolved = row[r].resolved
<1>1. device[p] \in Devices \cup {None}
  BY DEF TypeOK
<1> DEFINE flagged == [row[r] EXCEPT !.hasConflict = TRUE]
<1>2. flagged \in RowSet /\ flagged.hasConflict = TRUE /\ flagged.resolved = row[r].resolved
  BY RowsAreTyped DEF RowSet
<1>3. MarkedRow(r, p) = [flagged EXCEPT !.with = device[p]]
  BY DEF MarkedRow
<1> HIDE DEF flagged
<1> DEFINE marked == [flagged EXCEPT !.with = device[p]]
<1>4. /\ marked \in RowSet /\ marked.hasConflict = flagged.hasConflict
      /\ marked.with = device[p] /\ marked.resolved = flagged.resolved
  BY <1>1, <1>2 DEF RowSet
<1> HIDE DEF marked
<1>5. marked.hasConflict
  <2>1. marked.hasConflict = TRUE
    BY <1>2, <1>4
  <2>2. QED
    BY <2>1
<1>6. QED
  BY <1>2, <1>3, <1>4, <1>5 DEF marked

LEMMA NewRowSays ==
  ASSUME TypeOK, NEW p \in Pushes
  PROVE  /\ NewRow(p) \in RowSet
         /\ NewRow(p).hasConflict <=> rival[p] # None
         /\ NewRow(p).with = rival[p]
<1>1. rival[p] \in Devices \cup {None}
  BY DEF TypeOK
<1>2. QED
  BY <1>1 DEF NewRow, RowSet

LEMMA InsertAndCommitKeeps ==
  ASSUME LogInv, NEW p \in Pushes, InsertAndCommit(p)
  PROVE  LogInv'
<1>1. TypeOK /\ TxInv(p) /\ RowInv
  BY DEF LogInv
<1>2. /\ pc[p] = "insert" /\ pc' = [pc EXCEPT ![p] = "committed"]
      /\ UNCHANGED <<device, base, scan, marks, rival, early, resolutions>>
  BY DEF InsertAndCommit, Step
<1>3. /\ p \notin Committed /\ Committed' = Committed \cup {p}
  BY <1>1, <1>2 DEF Committed, TypeOK
<1>4. marks[p] \subseteq Committed /\ p \notin marks[p]
  BY <1>1, <1>3 DEF TxInv, WorksOnRivals
<1>5. /\ row'[p] = NewRow(p)
      /\ \A r \in marks[p] : row'[r] = MarkedRow(r, p)
      /\ \A r \in Pushes : r # p /\ r \notin marks[p] => row'[r] = row[r]
  BY <1>3, <1>4 DEF InsertAndCommit, Committed
<1>6. TypeOK'
  <2>1. \A r \in Pushes : row'[r] \in RowSet
    BY <1>1, <1>4, <1>5, MarkedRowSays, NewRowSays, RowsAreTyped
  <2>2. row' \in [Pushes -> RowSet]
    BY <2>1 DEF InsertAndCommit
  <2>3. QED
    BY <1>1, <1>2, <2>2 DEF TypeOK, RowSet
<1>7. \A r \in marks[p] : row'[r].hasConflict /\ row'[r].with = device[p]
  BY <1>1, <1>4, <1>5, MarkedRowSays DEF Committed
<1>8. /\ row'[p].hasConflict <=> rival[p] # None
      /\ row'[p].with = rival[p]
  BY <1>1, <1>5, NewRowSays
<1>9. \A r \in Committed : Noticed(r) => Noticed(r)'
  BY <1>3, <1>5, <1>7 DEF Noticed, Committed
<1>10. \A q \in Pushes, r \in Pushes : Rivals(q, r)' <=> Rivals(q, r)
  BY <1>2 DEF Rivals
<1>11. ASSUME NEW q \in Pushes
       PROVE  TxInv(q)'
  <2>1. TxInv(q)
    BY DEF LogInv
  <2>2. q # p => pc'[q] = pc[q]
    BY <1>1, <1>2 DEF TypeOK
  <2>3. NewIsBlank(q)' /\ MarksOfRival(q)'
    BY <1>1, <1>2, <2>1, <2>2 DEF TxInv, NewIsBlank, MarksOfRival, TypeOK
  <2>4. WorksOnRivals(q)'
    BY <1>2, <1>3, <1>10, <2>1 DEF TxInv, WorksOnRivals, Committed
  <2>5. SearchCovers(q)' /\ NothingMissed(q)'
    <3>1. CASE q = p
      BY <1>1, <1>2, <3>1 DEF SearchCovers, NothingMissed, TypeOK
    <3>2. CASE q # p
      <4>1. early[q] \subseteq Committed /\ early[q] \subseteq Pushes
        BY <2>1 DEF TxInv, WorksOnRivals, Committed
      <4>2. QED
        BY <1>2, <1>9, <1>10, <2>1, <2>2, <3>2, <4>1 DEF TxInv, SearchCovers, NothingMissed
    <3>3. QED
      BY <3>1, <3>2
  <2>6. OwnRowNoticed(q)'
    <3>1. CASE q = p
      BY <1>2, <1>8, <3>1 DEF OwnRowNoticed, Noticed
    <3>2. CASE q # p
      BY <1>2, <1>3, <1>9, <2>1, <3>2 DEF TxInv, OwnRowNoticed
    <3>3. QED
      BY <3>1, <3>2
  <2>7. QED
    BY <2>3, <2>4, <2>5, <2>6 DEF TxInv
<1>12. LateConflictNoticed'
  <2>1. SUFFICES ASSUME NEW q \in Committed', NEW r \in early[q], Rivals(q, r)
                 PROVE  Noticed(q)' \/ Noticed(r)'
    BY <1>2, <1>10 DEF LateConflictNoticed, Rivals
  <2>2. TxInv(q)
    BY DEF LogInv, Committed
  <2>3. r \in Committed
    BY <2>2 DEF TxInv, WorksOnRivals
  <2>4. CASE q # p
    BY <1>1, <1>3, <1>9, <2>1, <2>3, <2>4 DEF RowInv, LateConflictNoticed
  <2>5. CASE q = p /\ rival[p] # None
    BY <1>8, <2>5 DEF Noticed
  <2>6. CASE q = p /\ rival[p] = None
    BY <1>1, <1>2, <1>9, <2>1, <2>3, <2>6 DEF TxInv, NothingMissed
  <2>7. QED
    BY <2>4, <2>5, <2>6
<1>13. \A r \in marks[p] : Rivals(p, r) /\ Rivals(r, p) /\ device[r] = rival[p]
  BY <1>1 DEF TxInv, WorksOnRivals, MarksOfRival, Rivals
<1>14. rival[p] # None => \E r \in marks[p] : TRUE
  BY <1>1 DEF TxInv, MarksOfRival
<1>15. FlagNamesARival'
  <2>1. SUFFICES ASSUME NEW r \in Committed', row'[r].hasConflict
                 PROVE  \E q \in Committed' : Rivals(r, q) /\ device[q] = row'[r].with
    BY <1>2, <1>10 DEF FlagNamesARival, Rivals
  <2>2. CASE r = p
    BY <1>3, <1>4, <1>8, <1>13, <1>14, <2>1, <2>2
  <2>3. CASE r \in marks[p]
    BY <1>3, <1>7, <1>13, <2>3
  <2>4. CASE r # p /\ r \notin marks[p]
    <3>1. r \in Committed /\ row'[r] = row[r]
      BY <1>3, <1>5, <2>4 DEF Committed
    <3>2. QED
      BY <1>1, <1>3, <2>1, <3>1 DEF RowInv, FlagNamesARival
  <2>5. QED
    BY <2>2, <2>3, <2>4
<1>16. FlagsPaired'
  <2>1. \A r \in Flagged : r \in Flagged'
    BY <1>3, <1>5, <1>7 DEF Flagged, Committed
  <2>2. \A r \in marks[p] : r \in Flagged'
    BY <1>3, <1>4, <1>7 DEF Flagged
  <2>3. p \in Flagged' <=> rival[p] # None
    BY <1>3, <1>8 DEF Flagged
  <2>4. SUFFICES ASSUME NEW r \in Flagged' PROVE \E q \in Flagged' : Rivals(r, q)
    BY <1>2, <1>10 DEF FlagsPaired, Rivals
  <2>5. CASE r = p
    BY <1>13, <1>14, <2>2, <2>3, <2>4, <2>5
  <2>6. CASE r \in marks[p]
    BY <1>13, <1>14, <2>3, <2>6, <1>1 DEF TxInv, MarksOfRival
  <2>7. CASE r # p /\ r \notin marks[p]
    <3>1. r \in Flagged
      BY <1>3, <1>5, <2>4, <2>7 DEF Flagged, Committed
    <3>2. QED
      BY <1>1, <2>1, <3>1 DEF RowInv, FlagsPaired
  <2>8. QED
    BY <2>5, <2>6, <2>7
<1>17. QED
  BY <1>6, <1>11, <1>12, <1>15, <1>16 DEF LogInv, RowInv

LEMMA ResolveConflictKeeps ==
  ASSUME LogInv, ResolveConflict
  PROVE  LogInv'
<1>1. TypeOK /\ RowInv
  BY DEF LogInv
<1>2. UNCHANGED <<device, base, pc, scan, marks, rival, early>>
  BY DEF ResolveConflict, txVars
<1>3. Committed' = Committed
  BY <1>2 DEF Committed
<1>4. ASSUME NEW r \in Pushes
      PROVE  /\ row'[r] \in RowSet
             /\ r \in Flagged => ~row'[r].hasConflict /\ row'[r].resolved
             /\ r \notin Flagged => row'[r] = row[r]
  <2> DEFINE cleared == [row[r] EXCEPT !.hasConflict = FALSE]
             settled == [cleared EXCEPT !.resolved = TRUE]
  <2>1. cleared \in RowSet /\ cleared.hasConflict = FALSE
    BY <1>1, RowsAreTyped DEF RowSet
  <2>2. r \in Flagged => row'[r] = settled
    BY DEF ResolveConflict
  <2>3. r \notin Flagged => row'[r] = row[r]
    BY DEF ResolveConflict
  <2> HIDE DEF cleared
  <2>4. settled \in RowSet /\ settled.hasConflict = cleared.hasConflict /\ settled.resolved = TRUE
    BY <2>1 DEF RowSet
  <2> HIDE DEF settled
  <2>5. settled.hasConflict = FALSE
    BY <2>1, <2>4
  <2>6. QED
    BY <1>1, <2>2, <2>3, <2>4, <2>5, RowsAreTyped
<1>5. TypeOK'
  <2>1. row' \in [Pushes -> RowSet]
    BY <1>4 DEF ResolveConflict
  <2>2. resolutions' \in 0..MaxResolutions
    <3>1. resolutions \in 0..MaxResolutions
      BY <1>1 DEF TypeOK
    <3>2. resolutions < MaxResolutions /\ resolutions' = resolutions + 1
      BY DEF ResolveConflict
    <3>3. QED
      BY <3>1, <3>2, BoundsAssumption
  <2>3. QED
    BY <1>1, <1>2, <2>1, <2>2 DEF TypeOK, RowSet
<1>6. \A r \in Committed : Noticed(r) => Noticed(r)'
  BY <1>4 DEF Noticed, Committed
<1>7. Flagged' = {}
  BY <1>3, <1>4 DEF Flagged, Committed
<1>8. \A q \in Pushes, r \in Pushes : Rivals(q, r)' <=> Rivals(q, r)
  BY <1>2 DEF Rivals
<1>9. ASSUME NEW q \in Pushes
      PROVE  TxInv(q)'
  <2>1. TxInv(q)
    BY DEF LogInv
  <2>2. NewIsBlank(q)' /\ MarksOfRival(q)' /\ WorksOnRivals(q)'
    BY <1>2, <1>3, <2>1 DEF TxInv, NewIsBlank, MarksOfRival, WorksOnRivals, Rivals
  <2>3. early[q] \subseteq Committed /\ early[q] \subseteq Pushes
    BY <2>1 DEF TxInv, WorksOnRivals, Committed
  <2>4. SearchCovers(q)' /\ NothingMissed(q)'
    BY <1>2, <1>6, <1>8, <2>1, <2>3 DEF TxInv, SearchCovers, NothingMissed
  <2>5. OwnRowNoticed(q)'
    BY <1>2, <1>3, <1>6, <2>1 DEF TxInv, OwnRowNoticed
  <2>6. QED
    BY <2>2, <2>4, <2>5 DEF TxInv
<1>10. LateConflictNoticed'
  <2>1. SUFFICES ASSUME NEW q \in Committed, NEW r \in early[q], Rivals(q, r)
                 PROVE  Noticed(q)' \/ Noticed(r)'
    BY <1>2, <1>3 DEF LateConflictNoticed, Rivals
  <2>2. r \in Committed
    BY DEF LogInv, TxInv, WorksOnRivals, Committed
  <2>3. QED
    BY <1>1, <1>6, <2>1, <2>2 DEF RowInv, LateConflictNoticed
<1>11. FlagNamesARival' /\ FlagsPaired'
  <2>1. \A r \in Committed' : ~row'[r].hasConflict
    BY <1>7 DEF Flagged
  <2>2. QED
    BY <1>7, <2>1 DEF FlagNamesARival, FlagsPaired
<1>12. QED
  BY <1>5, <1>9, <1>10, <1>11 DEF LogInv, RowInv

-----------------------------------------------------------------------------
\* Every step of one push keeps the invariant.
LEMMA RecordStepKeeps ==
  ASSUME LogInv, NEW p \in Pushes, RecordStep(p)
  PROVE  LogInv'
BY BeginKeeps, SelectLocksKeeps, SelectSkipsKeeps, SelectFindsNoneKeeps, StartUpdateKeeps,
   FlagNextKeeps, UpdateEndsKeeps, InsertAndCommitKeeps DEF RecordStep

LEMMA StutterKeeps ==
  ASSUME LogInv, UNCHANGED vars
  PROVE  LogInv'
BY DEF LogInv, TypeOK, TxInv, RowInv, NewIsBlank, WorksOnRivals, MarksOfRival, SearchCovers,
       NothingMissed, OwnRowNoticed, LateConflictNoticed, FlagNamesARival, FlagsPaired,
       Flagged, Committed, Noticed, Rivals, vars, txVars

LEMMA NextKeeps ==
  ASSUME LogInv, [Next]_vars
  PROVE  LogInv'
BY RecordStepKeeps, RollbackKeeps, ResolveConflictKeeps, StutterKeeps DEF Next

LEMMA LogInvHolds == Spec => []LogInv
<1>1. Init => LogInv
  BY InitEstablishes
<1>2. LogInv /\ [Next]_vars => LogInv'
  BY NextKeeps
<1>3. QED
  BY <1>1, <1>2, PTL DEF Spec

\* A flag and its partner are a pair detectConflicts() returns: the ids of the
\* two rows are in one order or the other.
LEMMA PairsAreReported ==
  ASSUME LogInv
  PROVE  FlagsAreReported
<1>1. SUFFICES ASSUME Flagged # {}, NEW rank \in Bijection(Pushes, Pushes)
               PROVE  DetectedPairs(rank) # {}
  BY DEF FlagsAreReported
<1>2. /\ \A r \in Pushes : rank[r] \in Nat
      /\ \A r \in Pushes, q \in Pushes : rank[r] = rank[q] => r = q
  <2>1. rank \in [Pushes -> Pushes] /\ IsInjective(rank)
    BY <1>1 DEF Bijection, Injection
  <2>2. Pushes \subseteq Nat
    BY BoundsAssumption DEF Pushes
  <2>3. QED
    BY <2>1, <2>2 DEF IsInjective
<1>3. PICK r \in Flagged : TRUE
  BY <1>1
<1>4. PICK q \in Flagged : Rivals(r, q)
  BY <1>3 DEF LogInv, RowInv, FlagsPaired
<1>5. r \in Committed /\ q \in Committed /\ row[r].hasConflict /\ row[q].hasConflict
  BY <1>3, <1>4 DEF Flagged
<1>6. Rivals(q, r) /\ r # q
  BY <1>4 DEF Rivals
<1>7. rank[r] < rank[q] \/ rank[q] < rank[r]
  <2>1. r \in Pushes /\ q \in Pushes
    BY <1>5 DEF Committed
  <2>2. rank[r] \in Nat /\ rank[q] \in Nat /\ rank[r] # rank[q]
    BY <1>2, <1>6, <2>1
  <2>3. QED
    BY <2>2
<1>8. <<r, q>> \in DetectedPairs(rank) \/ <<q, r>> \in DetectedPairs(rank)
  BY <1>4, <1>5, <1>6, <1>7 DEF DetectedPairs
<1>9. QED
  BY <1>8

\* What is committed stays, and so does what was found and resolved of it.
LEMMA CommittedStays ==
  ASSUME LogInv, [Next]_vars, NEW r \in Committed
  PROVE  /\ r \in Committed' /\ rival'[r] = rival[r]
         /\ row[r].resolved => row'[r].resolved
<1>1. TypeOK /\ r \in Pushes /\ pc[r] = "committed"
  BY DEF LogInv, Committed
<1>2. ASSUME NEW p \in Pushes, RecordStep(p) \/ Rollback(p), ~InsertAndCommit(p)
      PROVE  r \in Committed' /\ rival'[r] = rival[r] /\ row'[r] = row[r]
  <2>1. pc[p] # "committed" /\ pc' = [pc EXCEPT ![p] = pc'[p]] /\ row' = row
    BY <1>1, <1>2
    DEF RecordStep, Rollback, Begun, Begin, SelectLocks, SelectSkips, SelectFindsNone,
        StartUpdate, FlagNext, UpdateEnds, Step, TypeOK
  <2>2. r # p
    BY <1>1, <2>1
  <2>3. rival'[r] = rival[r]
    BY <1>1, <1>2, <2>2
    DEF RecordStep, Rollback, Begin, SelectLocks, SelectSkips, SelectFindsNone,
        StartUpdate, FlagNext, UpdateEnds, TypeOK
  <2>4. QED
    BY <1>1, <2>1, <2>2, <2>3 DEF Committed, TypeOK
<1>3. ASSUME NEW p \in Pushes, InsertAndCommit(p)
      PROVE  /\ r \in Committed' /\ rival'[r] = rival[r]
             /\ row'[r].resolved = row[r].resolved
  <2>1. /\ pc[p] = "insert" /\ pc' = [pc EXCEPT ![p] = "committed"] /\ rival' = rival
    BY <1>3 DEF InsertAndCommit, Step
  <2>2. r # p
    BY <1>1, <2>1
  <2>3. row'[r] = row[r] \/ row'[r] = MarkedRow(r, p)
    BY <1>1, <1>3, <2>2 DEF InsertAndCommit
  <2>4. QED
    BY <1>1, <2>1, <2>2, <2>3, MarkedRowSays DEF Committed, TypeOK
<1>4. ASSUME ResolveConflict
      PROVE  /\ r \in Committed' /\ rival'[r] = rival[r]
             /\ row[r].resolved => row'[r].resolved
  <2>1. row[r] \in RowSet
    BY <1>1, RowsAreTyped
  <2>2. UNCHANGED <<pc, rival>>
    BY <1>4 DEF ResolveConflict, txVars
  <2>3. \/ row'[r] = row[r]
        \/ row'[r] = [row[r] EXCEPT !.hasConflict = FALSE, !.resolved = TRUE]
    BY <1>1, <1>4 DEF ResolveConflict
  <2>4. QED
    BY <1>1, <2>1, <2>2, <2>3 DEF Committed, RowSet
<1>5. ASSUME UNCHANGED vars
      PROVE  r \in Committed' /\ rival'[r] = rival[r] /\ row'[r] = row[r]
  BY <1>5 DEF vars, txVars, Committed
<1>6. QED
  BY <1>2, <1>3, <1>4, <1>5 DEF Next

-----------------------------------------------------------------------------
(***************************************************************************)
(* The log keeps the promises of the ledger.  This takes the row locks:    *)
(* what a transaction has marked nobody else has, and nobody flagged it.   *)
(***************************************************************************)
LocksExclusive ==
  \A p \in Begun : \A r \in marks[p] :
    ~row[r].hasConflict /\ \A q \in Begun : q # p => r \notin marks[q]

LEMMA InitLocksNothing == Init => LocksExclusive
  BY DEF Init, LocksExclusive, Begun

\* A statement that takes no lock and does not touch the table.
LEMMA LocklessStepKeeps ==
  ASSUME LocksExclusive, UNCHANGED <<row, marks>>,
         \/ Begun' \subseteq Begun
         \/ \E p \in Pushes : marks[p] = {} /\ Begun' \subseteq Begun \cup {p}
  PROVE  LocksExclusive'
BY DEF LocksExclusive

\* One that takes the lock of a free row which is not flagged.
LEMMA LockingStepKeeps ==
  ASSUME LogInv, LocksExclusive, NEW p \in Begun, NEW r \in Pushes, Free(r, p), ~row[r].hasConflict,
         NEW held \in SUBSET (marks[p] \cup {r}),
         marks' = [marks EXCEPT ![p] = held],
         Begun' = Begun, UNCHANGED row
  PROVE  LocksExclusive'
<1>1. marks \in [Pushes -> SUBSET Pushes] /\ p \in Pushes
  BY DEF LogInv, TypeOK, Begun
<1>2. \A q \in Begun : q # p => r \notin marks[q]
  BY DEF Free, Locked
<1>3. \A q \in Begun : marks'[q] = IF q = p THEN held ELSE marks[q]
  BY <1>1 DEF Begun
<1>4. SUFFICES ASSUME NEW q \in Begun, NEW x \in marks'[q]
               PROVE  ~row[x].hasConflict /\ \A s \in Begun : s # q => x \notin marks'[s]
  BY DEF LocksExclusive
<1>5. CASE q = p
  BY <1>2, <1>3, <1>4, <1>5 DEF LocksExclusive
<1>6. CASE q # p
  BY <1>2, <1>3, <1>4, <1>6 DEF LocksExclusive
<1>7. QED
  BY <1>5, <1>6

\* A commit flags the rows its own locks are on, and gives them up.
LEMMA CommitKeepsLocks ==
  ASSUME LogInv, LocksExclusive, NEW p \in Pushes, InsertAndCommit(p)
  PROVE  LocksExclusive'
<1>1. TypeOK /\ pc[p] = "insert" /\ pc' = [pc EXCEPT ![p] = "committed"] /\ UNCHANGED marks
  BY DEF LogInv, InsertAndCommit, Step
<1>2. p \in Begun /\ Begun' = Begun \ {p} /\ p \notin Committed
  BY <1>1 DEF Begun, Committed, TypeOK
<1>3. SUFFICES ASSUME NEW q \in Begun, q # p, NEW r \in marks[q]
               PROVE  /\ ~row'[r].hasConflict
                      /\ \A s \in Begun : s # q => r \notin marks[s]
  BY <1>1, <1>2 DEF LocksExclusive
<1>4. r \in Committed /\ r # p /\ r \notin marks[p]
  <2>1. r \in Committed
    BY <1>3 DEF LogInv, TxInv, WorksOnRivals, Begun
  <2>2. QED
    BY <1>2, <1>3, <2>1 DEF LocksExclusive
<1>5. row'[r] = row[r]
  BY <1>4 DEF InsertAndCommit, Committed
<1>6. QED
  BY <1>3, <1>5 DEF LocksExclusive

LEMMA ResolveKeepsLocks ==
  ASSUME LogInv, LocksExclusive, ResolveConflict
  PROVE  LocksExclusive'
<1>1. TypeOK /\ UNCHANGED <<pc, marks>> /\ Begun' = Begun
  BY DEF LogInv, ResolveConflict, txVars, Begun
<1>2. SUFFICES ASSUME NEW q \in Begun, NEW r \in marks[q]
               PROVE  ~row'[r].hasConflict
  BY <1>1 DEF LocksExclusive
<1>3. ~row[r].hasConflict /\ r \in Pushes
  BY <1>1, <1>2 DEF LocksExclusive, TypeOK, Begun
<1>4. row'[r] = row[r]
  BY <1>3 DEF ResolveConflict, Flagged
<1>5. QED
  BY <1>3, <1>4

LEMMA NextKeepsLocks ==
  ASSUME LogInv, LocksExclusive, [Next]_vars
  PROVE  LocksExclusive'
<1>1. TypeOK
  BY DEF LogInv
<1>2. ASSUME NEW p \in Pushes, Begin(p)
      PROVE  LocksExclusive'
  <2>1. marks[p] = {}
    BY <1>2 DEF Begin, Step, LogInv, TxInv, NewIsBlank
  <2>2. Begun' \subseteq Begun \cup {p} /\ UNCHANGED <<row, marks>>
    BY <1>1, <1>2 DEF Begin, Step, Begun, TypeOK
  <2>3. QED
    BY <2>1, <2>2, LocklessStepKeeps
<1>3. ASSUME NEW p \in Pushes, SelectLocks(p)
      PROVE  LocksExclusive'
  <2> DEFINE r == First(scan[p])
  <2>1. r \in Pushes
    BY <1>3, FirstBelongs DEF LogInv, TypeOK, SelectLocks
  <2>2. Free(r, p) /\ ~row[r].hasConflict /\ marks' = [marks EXCEPT ![p] = {r}] /\ UNCHANGED row
    BY <1>3 DEF SelectLocks, ForUpdate
  <2>3. p \in Begun /\ Begun' = Begun
    BY <1>1, <1>3 DEF SelectLocks, Step, Begun, TypeOK
  <2> HIDE DEF r
  <2>4. QED
    BY <2>1, <2>2, <2>3, LockingStepKeeps
<1>4. ASSUME NEW p \in Pushes,
             SelectSkips(p) \/ SelectFindsNone(p) \/ StartUpdate(p) \/ UpdateEnds(p)
      PROVE  LocksExclusive'
  <2>1. Begun' \subseteq Begun
    BY <1>1, <1>4 DEF SelectSkips, SelectFindsNone, StartUpdate, UpdateEnds, Step, Begun, TypeOK
  <2>2. UNCHANGED <<row, marks>>
    BY <1>4 DEF SelectSkips, SelectFindsNone, StartUpdate, UpdateEnds
  <2>3. QED
    BY <2>1, <2>2, LocklessStepKeeps
<1>5. ASSUME NEW p \in Pushes, FlagNext(p)
      PROVE  LocksExclusive'
  <2> DEFINE r == First(scan[p])
  <2>1. r \in Pushes
    BY <1>5, FirstBelongs DEF LogInv, TypeOK, FlagNext
  <2>2. /\ Free(r, p) /\ UNCHANGED <<row, pc>> /\ pc[p] = "update"
        /\ marks' = IF row[r].hasConflict THEN marks ELSE [marks EXCEPT ![p] = marks[p] \cup {r}]
    BY <1>5 DEF FlagNext
  <2>3. p \in Begun /\ Begun' = Begun
    BY <2>2 DEF Begun
  <2> HIDE DEF r
  <2>4. CASE row[r].hasConflict
    BY <2>2, <2>3, <2>4, LocklessStepKeeps
  <2>5. CASE ~row[r].hasConflict
    <3>1. marks' = [marks EXCEPT ![p] = marks[p] \cup {r}]
      BY <2>2, <2>5
    <3>2. QED
      BY <2>1, <2>2, <2>3, <2>5, <3>1, LockingStepKeeps
  <2>6. QED
    BY <2>4, <2>5
<1>6. ASSUME NEW p \in Pushes, Rollback(p)
      PROVE  LocksExclusive'
  <2>1. Begun' \subseteq Begun /\ UNCHANGED <<row, marks>>
    BY <1>1, <1>6 DEF Rollback, Begun, TypeOK
  <2>2. QED
    BY <2>1, LocklessStepKeeps
<1>7. CASE UNCHANGED vars
  BY <1>7, LocklessStepKeeps DEF vars, txVars, Begun
<1>8. QED
  BY <1>2, <1>3, <1>4, <1>5, <1>6, <1>7, CommitKeepsLocks, ResolveKeepsLocks
  DEF Next, RecordStep

\* A step that changes neither the rows nor what was known leaves the ledger.
LEMMA LedgerUntouched ==
  ASSUME Committed' = Committed, UNCHANGED <<device, row, early>>,
         \A p \in Committed : base'[p] = base[p]
  PROVE  UNCHANGED Ledger!ledgerVars
BY DEF Ledger!ledgerVars, LedgerRow

\* BEGIN admits the push to the ledger.
LEMMA BeginAdmits ==
  ASSUME LogInv, NEW p \in Pushes, Begin(p)
  PROVE  Ledger!Admit(p)
<1>1. p \notin Committed /\ Committed' = Committed
  BY DEF Begin, Step, Committed, LogInv, TypeOK
<1>2. early' = [early EXCEPT ![p] = Committed] /\ UNCHANGED <<device, base, row>>
  BY DEF Begin
<1>3. QED
  BY <1>1, <1>2 DEF Ledger!Admit, Ledger!Logged, LedgerRow

\* COMMIT enters the push, with the rows it holds locked.
LEMMA CommitEnters ==
  ASSUME LogInv, LocksExclusive, NEW p \in Pushes, InsertAndCommit(p)
  PROVE  Ledger!LedgerNext
<1> DEFINE rows == [r \in Committed |-> LedgerRow(r)]
           change == [device |-> device[p], base |-> base[p],
                      flag |-> [hasConflict |-> marks[p] # {}, with |-> rival[p], resolved |-> FALSE]]
<1>1. TypeOK /\ TxInv(p)
  BY DEF LogInv
<1>2. /\ pc[p] = "insert" /\ pc' = [pc EXCEPT ![p] = "committed"]
      /\ UNCHANGED <<device, base, marks, rival, early>>
  BY DEF InsertAndCommit, Step
<1>3. p \in Begun /\ p \notin Committed /\ Committed' = Committed \cup {p}
  BY <1>1, <1>2 DEF Begun, Committed, TypeOK
<1>4. marks[p] \subseteq Committed /\ rival[p] \in Devices \cup {None}
  BY <1>1 DEF TxInv, WorksOnRivals, TypeOK
<1>5. change = LedgerRow(p)'
  <2>1. row'[p] = NewRow(p)
    BY DEF InsertAndCommit
  <2>2. NewRow(p) = change.flag
    BY <1>1 DEF NewRow, TxInv, MarksOfRival
  <2>3. QED
    BY <1>2, <2>1, <2>2 DEF LedgerRow
<1>6. \A r \in marks[p] : /\ Ledger!Rival(change, rows[r])
                          /\ ~rows[r].flag.hasConflict
                          /\ rows[r].device = rival[p]
  BY <1>1, <1>3, <1>4
  DEF TxInv, WorksOnRivals, MarksOfRival, LocksExclusive, Rivals, Ledger!Rival, LedgerRow
<1>7. marks[p] = {} =>
        /\ rival[p] = None
        /\ \A r \in early[p] : Ledger!Rival(change, rows[r]) =>
             rows[r].flag.hasConflict \/ rows[r].flag.resolved
  BY <1>1, <1>2
  DEF TxInv, WorksOnRivals, MarksOfRival, NothingMissed, Noticed, Rivals, Ledger!Rival, LedgerRow
<1>8. [r \in Committed' |-> LedgerRow(r)'] =
        [r \in Committed \cup {p} |->
           IF r = p THEN change
           ELSE IF r \in marks[p]
           THEN [device |-> rows[r].device, base |-> rows[r].base,
                 flag |-> Ledger!Marked(rows[r].flag, device[p])]
           ELSE rows[r]]
  <2>1. ASSUME NEW r \in Committed, r \in marks[p]
        PROVE  LedgerRow(r)' = [device |-> rows[r].device, base |-> rows[r].base,
                                flag |-> Ledger!Marked(rows[r].flag, device[p])]
    <3>1. row'[r] = MarkedRow(r, p)
      BY <1>3, <2>1 DEF InsertAndCommit, Committed
    <3>2. rows[r] = [device |-> device[r], base |-> base[r], flag |-> row[r]]
      BY <2>1 DEF LedgerRow
    <3>3. MarkedRow(r, p) = Ledger!Marked(row[r], device[p])
      BY DEF MarkedRow, Ledger!Marked
    <3> HIDE DEF rows
    <3>4. QED
      BY <1>2, <3>1, <3>2, <3>3 DEF LedgerRow
  <2>2. ASSUME NEW r \in Committed, r \notin marks[p]
        PROVE  LedgerRow(r)' = rows[r]
    <3>1. row'[r] = row[r]
      BY <1>3, <2>2 DEF InsertAndCommit, Committed
    <3>2. QED
      BY <1>2, <3>1 DEF LedgerRow
  <2> HIDE DEF rows, change
  <2>3. QED
    BY <1>3, <1>5, <2>1, <2>2
<1>9. /\ p \in Committed' \ Committed
      /\ LedgerRow(p)'.device = device[p] /\ LedgerRow(p)'.base = base[p]
  BY <1>2, <1>3 DEF LedgerRow
<1> HIDE DEF rows
<1>10. Ledger!Enter(p, device[p], base[p], marks[p], rival[p])
  BY <1>2, <1>6, <1>7, <1>8 DEF Ledger!Enter, Ledger!Logged, rows
<1>11. QED
  BY <1>4, <1>9, <1>10 DEF Ledger!LedgerNext, Ledger!Logged

\* resolveConflict() settles every flag at once, and leaves a log alone that has
\* none.
LEMMA ResolveSettles ==
  ASSUME LogInv, ResolveConflict
  PROVE  Ledger!Settle \/ UNCHANGED Ledger!ledgerVars
<1> DEFINE rows == [r \in Committed |-> LedgerRow(r)]
<1>1. UNCHANGED <<device, base, pc, early>> /\ Committed' = Committed
  BY DEF ResolveConflict, txVars, Committed
<1>2. \A r \in Committed : rows[r] = [device |-> device[r], base |-> base[r], flag |-> row[r]]
  BY DEF LedgerRow
<1>3. CASE Flagged = {}
  <2>1. UNCHANGED row
    BY <1>3 DEF ResolveConflict, LogInv, TypeOK
  <2>2. QED
    BY <1>1, <2>1, LedgerUntouched
<1>4. ASSUME NEW r \in Committed
      PROVE  LedgerRow(r)' = IF rows[r].flag.hasConflict
                             THEN [device |-> rows[r].device, base |-> rows[r].base,
                                   flag |-> Ledger!Cleared(rows[r].flag)]
                             ELSE rows[r]
  <2>1. r \in Pushes
    BY DEF Committed
  <2>2. CASE row[r].hasConflict
    <3>1. row'[r] = Ledger!Cleared(row[r])
      BY <2>1, <2>2 DEF ResolveConflict, Flagged, Ledger!Cleared
    <3>2. rows[r].device = device[r] /\ rows[r].base = base[r] /\ rows[r].flag = row[r]
      BY DEF LedgerRow
    <3> HIDE DEF rows
    <3>3. rows[r].flag.hasConflict
      BY <2>2, <3>2
    <3>4. LedgerRow(r)' = [device |-> rows[r].device, base |-> rows[r].base,
                           flag |-> Ledger!Cleared(rows[r].flag)]
      BY <1>1, <3>1, <3>2 DEF LedgerRow
    <3>5. QED
      BY <3>3, <3>4
  <2>3. CASE ~row[r].hasConflict
    <3>1. row'[r] = row[r]
      BY <2>1, <2>3 DEF ResolveConflict, Flagged
    <3> HIDE DEF rows
    <3>2. QED
      BY <1>1, <1>2, <2>3, <3>1 DEF LedgerRow
  <2>4. QED
    BY <2>2, <2>3
<1>5. CASE Flagged # {}
  <2>1. \E r \in Committed : rows[r].flag.hasConflict
    <3>1. PICK r \in Committed : row[r].hasConflict
      BY <1>5 DEF Flagged
    <3>2. rows[r].flag = row[r]
      BY <1>2
    <3>3. QED
      BY <3>1, <3>2
  <2>2. Ledger!Settle
    BY <1>1, <1>4, <2>1 DEF Ledger!Settle, Ledger!Logged
  <2>3. QED
    BY <2>2
<1>6. QED
  BY <1>3, <1>5

\* Every step of the log is a step of the ledger or leaves it alone.
LEMMA NextKeepsPromise ==
  ASSUME LogInv, LocksExclusive, [Next]_vars
  PROVE  [Ledger!LedgerNext]_Ledger!ledgerVars
<1>1. TypeOK
  BY DEF LogInv
<1>2. ASSUME NEW p \in Pushes, Begin(p)
      PROVE  Ledger!LedgerNext
  BY <1>2, BeginAdmits DEF Ledger!LedgerNext
<1>3. ASSUME NEW p \in Pushes,
             SelectLocks(p) \/ SelectSkips(p) \/ SelectFindsNone(p) \/ StartUpdate(p)
               \/ FlagNext(p) \/ UpdateEnds(p) \/ Rollback(p)
      PROVE  UNCHANGED Ledger!ledgerVars
  <2>1. UNCHANGED <<device, base, row, early>>
    BY <1>3 DEF SelectLocks, SelectSkips, SelectFindsNone, StartUpdate, FlagNext, UpdateEnds, Rollback
  <2>2. Committed' = Committed
    BY <1>1, <1>3
    DEF SelectLocks, SelectSkips, SelectFindsNone, StartUpdate, FlagNext, UpdateEnds, Rollback,
        Begun, Step, Committed, TypeOK
  <2>3. QED
    BY <2>1, <2>2, LedgerUntouched
<1>4. CASE ResolveConflict
  BY <1>4, ResolveSettles DEF Ledger!LedgerNext
<1>5. CASE UNCHANGED vars
  <2>1. Committed' = Committed /\ UNCHANGED <<device, base, row, early>>
    BY <1>5 DEF vars, txVars, Committed
  <2>2. QED
    BY <2>1, LedgerUntouched
<1>6. QED
  BY <1>2, <1>3, <1>4, <1>5, CommitEnters DEF Next, RecordStep

LEMMA InitIsEmptyLedger == Init => Ledger!LedgerInit
  BY DEF Init, Committed, Ledger!LedgerInit, Ledger!Logged

-----------------------------------------------------------------------------
\* The rows and the transactions keep to their domains (SyncService.ts
\* recordChange, resolveConflict), whatever the bounds.
THEOREM TypeCorrect == Spec => []TypeOK
<1>1. LogInv => TypeOK
  BY DEF LogInv
<1>2. QED
  BY <1>1, LogInvHolds, PTL

\* recordChange(): of two conflicting pushes that did not overlap, one row was
\* flagged, whatever other transactions did between the statements.
THEOREM LateConflictsAreNoticed == Spec => []LateConflictNoticed
<1>1. LogInv => LateConflictNoticed
  BY DEF LogInv, RowInv
<1>2. QED
  BY <1>1, LogInvHolds, PTL

\* recordChange(): the device a flag names did push from the same version, also
\* when the transaction that flagged another row was rolled back.
THEOREM FlagsNameRivals == Spec => []FlagNamesARival
<1>1. LogInv => FlagNamesARival
  BY DEF LogInv, RowInv
<1>2. QED
  BY <1>1, LogInvHolds, PTL

\* detectConflicts(): as long as a row is flagged the entry is reported,
\* whatever ids the rows drew.
THEOREM ConflictsAreReported == Spec => []FlagsAreReported
<1>1. LogInv => FlagsAreReported
  BY PairsAreReported
<1>2. QED
  BY <1>1, LogInvHolds, PTL

\* recordChange() and resolveConflict() implement the ledger: however their
\* statements interleave, each push enters the log as if in one step.
THEOREM LogIsALedger == Spec => FlagsAsPromised
<1>1. Init => LocksExclusive /\ Ledger!LedgerInit
  BY InitLocksNothing, InitIsEmptyLedger
<1>2. LogInv /\ LocksExclusive /\ [Next]_vars => LocksExclusive'
  BY NextKeepsLocks
<1>3. LogInv /\ LocksExclusive /\ [Next]_vars => [Ledger!LedgerNext]_Ledger!ledgerVars
  BY NextKeepsPromise
<1>4. QED
  BY <1>1, <1>2, <1>3, LogInvHolds, PTL DEF Spec, FlagsAsPromised, Ledger!LedgerSpec
=============================================================================
