-------------------------------- MODULE SyncLog --------------------------------
(***************************************************************************)
(* The server's log of vault changes and its conflict flags                *)
(* (server/services/SyncService.ts on PostgreSQL, READ COMMITTED): the     *)
(* transaction of recordChange(), detectConflicts() and resolveConflict(). *)
(*                                                                         *)
(* All pushes here are about one entry, since no statement relates two.    *)
(* Push p is one call of recordChange(); the row it inserts has its number *)
(* and every scan of the table reads the rows in the order of the numbers. *)
(* Statements of different transactions interleave; a statement sees what  *)
(* had been committed when it began, and waits for the row locks of other  *)
(* transactions.  A version is never 0: vault_entries.local_version starts *)
(* at 1.                                                                   *)
(***************************************************************************)
EXTENDS Naturals, FiniteSets, Functions

CONSTANTS Devices, None,    \* the devices of the vault; no device
          Versions,         \* the versions they may push from
          Callers,          \* which device makes each push
          MaxPushes,        \* bound on the calls of recordChange
          MaxResolutions    \* bound on the calls of resolveConflict

ASSUME DevicesAssumption == None \notin Devices
ASSUME VersionsAssumption == Versions \subseteq Nat \ {0}
ASSUME BoundsAssumption == MaxPushes \in Nat /\ MaxResolutions \in Nat

Pushes == 1..MaxPushes

ASSUME CallersAssumption == Callers \subseteq [Pushes -> Devices]

VARIABLES
  device, base,    \* what push p is called with: deviceId, previousVersion
  pc,              \* where the transaction of push p is
  scan,            \* the rows its SELECT still has to look at
  marks,           \* the rows its UPDATE flagged, not visible until commit
  rival,           \* its conflictingDeviceId, None when there is no conflict
  row,             \* the committed rows: conflict flag, device named, resolved
  early,           \* the rows committed before the transaction began
  resolutions

txVars == <<pc, scan, marks, rival>>
vars == <<device, base, txVars, row, early, resolutions>>

Begun_Failed == {p \in Pushes : pc[p] \notin {"new", "committed"}}
Begun == {p \in Pushes : pc[p] \notin {"new", "committed", "failed"}}
Committed == {p \in Pushes : pc[p] = "committed"}

\* The rows a transaction holds a lock on.
Locked(p) == IF p \in Begun THEN marks[p] ELSE {}
Free(r, p) == \A q \in Begun \ {p} : r \notin Locked(q)

\* Two pushes of different devices from the same version.
Rivals(p, q) == device[p] # device[q] /\ base[p] = base[q]

\* WHERE previous_version = .. AND device_id != .. AND has_conflict = false
Candidates_OwnDevice(p) ==
  {r \in Committed : device[r] = device[p] /\ base[r] = base[p] /\ ~row[r].hasConflict}
Candidates(p) == {r \in Committed : Rivals(p, r) /\ ~row[r].hasConflict}
First(S) == CHOOSE r \in S : \A q \in S : r <= q

NoRow == [hasConflict |-> FALSE, with |-> None, resolved |-> FALSE]

Init ==
  /\ device \in Callers
  /\ base \in [Pushes -> Versions]
  /\ pc = [p \in Pushes |-> "new"]
  /\ scan = [p \in Pushes |-> {}]
  /\ marks = [p \in Pushes |-> {}]
  /\ rival = [p \in Pushes |-> None]
  /\ row = [p \in Pushes |-> NoRow]
  /\ early = [p \in Pushes |-> {}]
  /\ resolutions = 0

Step(p, from, to) == pc[p] = from /\ pc' = [pc EXCEPT ![p] = to]

(***************************************************************************)
(* recordChange().                                                         *)
(***************************************************************************)
\* BEGIN and the snapshot of the SELECT.
Begin(p) ==
  /\ Step(p, "new", "select")
  /\ scan' = [scan EXCEPT ![p] = Candidates(p)]
  /\ early' = [early EXCEPT ![p] = Committed]
  /\ UNCHANGED <<device, base, marks, rival, row, resolutions>>

ForUpdate_Omitted(r, p) == UNCHANGED marks
ForUpdate(r, p) == marks' = [marks EXCEPT ![p] = {r}]

\* LIMIT 1 FOR UPDATE: the first row of the snapshot, once nobody holds it and
\* if it still qualifies, is locked.
SelectLocks(p) ==
  /\ scan[p] # {}
  /\ LET r == First(scan[p]) IN
     /\ Free(r, p)
     /\ ~row[r].hasConflict
     /\ ForUpdate(r, p)
     /\ rival' = [rival EXCEPT ![p] = device[r]]
  /\ Step(p, "select", "found")
  /\ UNCHANGED <<device, base, scan, row, early, resolutions>>

SelectSkips(p) ==
  /\ pc[p] = "select" /\ scan[p] # {}
  /\ LET r == First(scan[p]) IN
     /\ Free(r, p)
     /\ row[r].hasConflict
     /\ scan' = [scan EXCEPT ![p] = @ \ {r}]
  /\ UNCHANGED <<device, base, pc, marks, rival, row, early, resolutions>>

SelectFindsNone(p) ==
  /\ scan[p] = {}
  /\ Step(p, "select", "insert")
  /\ UNCHANGED <<device, base, scan, marks, rival, row, early, resolutions>>

\* UPDATE of every such row of the device found: its snapshot, then row by row,
\* each once nobody holds it and if it still qualifies.
StartUpdate(p) ==
  /\ Step(p, "found", "update")
  /\ scan' = [scan EXCEPT ![p] = {r \in Candidates(p) : device[r] = rival[p]}]
  /\ UNCHANGED <<device, base, marks, rival, row, early, resolutions>>

FlagNext(p) ==
  /\ pc[p] = "update" /\ scan[p] # {}
  /\ LET r == First(scan[p]) IN
     /\ Free(r, p)
     /\ scan' = [scan EXCEPT ![p] = @ \ {r}]
     /\ marks' = IF row[r].hasConflict THEN marks
                 ELSE [marks EXCEPT ![p] = @ \cup {r}]
  /\ UNCHANGED <<device, base, pc, rival, row, early, resolutions>>

UpdateEnds(p) ==
  /\ scan[p] = {}
  /\ Step(p, "update", "insert")
  /\ UNCHANGED <<device, base, scan, marks, rival, row, early, resolutions>>

\* INSERT and COMMIT.
NewRow(p) == [hasConflict |-> rival[p] # None, with |-> rival[p], resolved |-> FALSE]
MarkedRow_ById(r, p) == [row[r] EXCEPT !.hasConflict = TRUE, !.with = p]
MarkedRow_OwnDevice(r, p) == [row[r] EXCEPT !.hasConflict = TRUE, !.with = device[r]]
MarkedRow_Unflagged(r, p) == [row[r] EXCEPT !.with = device[p]]
MarkedRow(r, p) == [row[r] EXCEPT !.hasConflict = TRUE, !.with = device[p]]

InsertAndCommit(p) ==
  /\ Step(p, "insert", "committed")
  /\ row' = [r \in Pushes |-> IF r = p THEN NewRow(p)
                              ELSE IF r \in marks[p] THEN MarkedRow(r, p)
                              ELSE row[r]]
  /\ UNCHANGED <<device, base, scan, marks, rival, early, resolutions>>

\* A statement fails: the transaction is rolled back, the request answers 500.
Rollback(p) ==
  /\ p \in Begun
  /\ pc' = [pc EXCEPT ![p] = "failed"]
  /\ UNCHANGED <<device, base, scan, marks, rival, row, early, resolutions>>

(***************************************************************************)
(* resolveConflict(): the UPDATE of every flagged row; it waits for locks. *)
(* The later statements, on vault_entries, are steps of Entries.           *)
(***************************************************************************)
Flagged == {r \in Committed : row[r].hasConflict}

ResolveConflict ==
  /\ resolutions < MaxResolutions
  /\ \A r \in Flagged, p \in Begun : r \notin Locked(p)
  /\ resolutions' = resolutions + 1
  /\ row' = [r \in Pushes |->
               IF r \in Flagged
               THEN [row[r] EXCEPT !.hasConflict = FALSE, !.resolved = TRUE]
               ELSE row[r]]
  /\ UNCHANGED <<device, base, txVars, early>>

RecordStep(p) == \/ Begin(p) \/ SelectLocks(p) \/ SelectSkips(p)
                 \/ SelectFindsNone(p) \/ StartUpdate(p) \/ FlagNext(p)
                 \/ UpdateEnds(p) \/ InsertAndCommit(p)

Next == \/ \E p \in Pushes : RecordStep(p) \/ Rollback(p)
        \/ ResolveConflict

Spec == Init /\ [][Next]_vars
(***************************************************************************)
(* The database runs the statements of a transaction under way, and rolls  *)
(* back one of those that wait for each other's locks.                     *)
(***************************************************************************)
WaitsFor(p) == {q \in Begun \ {p} : /\ pc[p] \in {"select", "update"}
                                    /\ scan[p] # {}
                                    /\ First(scan[p]) \in Locked(q)}
Deadlocked(p) == \E S \in SUBSET Begun :
                   p \in S /\ \A q \in S : WaitsFor(q) \cap S # {}

FairSpec == /\ Spec
            /\ WF_vars(\E p \in Pushes : pc[p] # "new" /\ RecordStep(p))
            /\ WF_vars(\E p \in Pushes : Deadlocked(p) /\ Rollback(p))

(***************************************************************************)
(* detectConflicts(): a flagged row joined with one of another device from *)
(* the same version whose id, a random UUID, is greater.                   *)
(***************************************************************************)
DetectedPairs(rank) == {pair \in Committed \X Committed :
                    /\ Rivals(pair[1], pair[2])
                    /\ row[pair[1]].hasConflict
                    /\ rank[pair[1]] < rank[pair[2]]}

-----------------------------------------------------------------------------
\* Every variable stays within its domain (the rows, the transactions).
TypeOK ==
  /\ device \in [Pushes -> Devices] /\ base \in [Pushes -> Nat]
  /\ pc \in [Pushes -> {"new", "select", "found", "update", "insert",
                      "committed", "failed"}]
  /\ scan \in [Pushes -> SUBSET Pushes]
  /\ marks \in [Pushes -> SUBSET Pushes]
  /\ rival \in [Pushes -> Devices \cup {None}]
  /\ row \in [Pushes -> [hasConflict : BOOLEAN, with : Devices \cup {None},
                         resolved : BOOLEAN]]
  /\ early \in [Pushes -> SUBSET Pushes]
  /\ resolutions \in 0..MaxResolutions

Noticed(r) == row[r].hasConflict \/ row[r].resolved

\* A push that begins after a conflicting one was committed never goes
\* unnoticed: one of the two rows was flagged.
LateConflictNoticed ==
  \A p \in Committed : \A q \in early[p] :
    Rivals(p, q) => Noticed(p) \/ Noticed(q)

\* A flag is never a false alarm: the device it names did push from the same
\* version, whatever was rolled back meanwhile.
FlagNamesARival ==
  \A r \in Committed : row[r].hasConflict =>
    \E q \in Committed : Rivals(r, q) /\ device[q] = row[r].with

\* As long as a row is flagged, detectConflicts() reports the entry, in
\* whatever order the ids of the rows were drawn.
FlagsAreReported ==
  Flagged # {} => \A rank \in Bijection(Pushes, Pushes) : DetectedPairs(rank) # {}

\* However the statements of concurrent transactions interleave, the log keeps
\* what it promises as if each push were one step (SyncService.ts:41-92): no flag
\* is set on a row that another push flagged, nor lost before it is resolved.
LedgerRow(p) == [device |-> device[p], base |-> base[p], flag |-> row[p]]
Ledger == INSTANCE ConflictLedger WITH ledger <- [p \in Committed |-> LedgerRow(p)],
                                       known <- early
FlagsAsPromised == Ledger!LedgerSpec

\* Every transaction ends: it never waits for ever for a row lock, be it of one
\* that failed or of one that waits for it in turn.
TransactionsEnd ==
  []<>(\A p \in Pushes : pc[p] \in {"new", "committed", "failed"})

\* "Detect conflict within a transaction to prevent race conditions"
\* (server/services/SyncService.ts:41): of two committed pushes of different
\* devices from the same version, one row was flagged.
EveryConflictNoticed ==
  \A p, q \in Committed : Rivals(p, q) => Noticed(p) \/ Noticed(q)
=============================================================================
