-------------------------------- MODULE Entries --------------------------------
(***************************************************************************)
(* A vault entry and the requests that write it and then call              *)
(* recordChange() of SyncLog: PUT and DELETE (routes/entries.ts), a push   *)
(* of a device's own change and the resolution of a conflict               *)
(* (routes/sync.ts, SyncService.ts).  Call p of SyncLog belongs to         *)
(* request p, which writes before the transaction begins.                  *)
(*                                                                         *)
(* Of the entry's content only the order of the writes is kept.  A PUT may *)
(* bring a version of its own; the clients of the repository bring none.   *)
(* A request whose statement fails goes no further.                        *)
(***************************************************************************)
EXTENDS SyncLog

CONSTANT Uses   \* which request makes each call, from which device

\* "unheard" is a push whose client does not await the answer.
Kinds == {"push", "unheard", "put", "delete", "none"}

ASSUME UsesAssumption == Uses \subseteq [Pushes -> Kinds] \X Callers

VARIABLES
  kind,      \* what request p is
  phase,     \* where it is before and after its transaction
  entry,     \* the row of vault_entries: local_version, is_deleted
  writers,   \* the requests that have written it
  seen,      \* the writers at the time request p read the entry
  over,      \* the writers at the time it wrote, over all of them
  resolving, \* resolutions whose later statements have not run
  told       \* the pushes whose answer reported a conflict

entryVars == <<kind, phase, entry, writers, seen, over, resolving, told>>
allVars == <<vars, entryVars>>

\* The version of a new entry; what was pushed was made from it.
FirstVersion == 1

EntriesInit ==
  /\ Init
  /\ \A p \in Pushes : base[p] = FirstVersion
  /\ \E use \in Uses : kind = use[1] /\ device = use[2]
  /\ phase = [p \in Pushes |-> "new"]
  /\ entry = [version |-> FirstVersion, deleted |-> FALSE]
  /\ writers = {}
  /\ seen = [p \in Pushes |-> {}] /\ over = [p \in Pushes |-> {}]
  /\ resolving = {} /\ told = {}

Moves(p, from, to) == phase[p] = from /\ phase' = [phase EXCEPT ![p] = to]

(***************************************************************************)
(* PUT and DELETE: getEntry(), then the write.                             *)
(***************************************************************************)
Reads(p) ==
  /\ kind[p] \in {"put", "delete"} /\ Moves(p, "new", "read")
  /\ ~entry.deleted
  /\ base' = [base EXCEPT ![p] = entry.version]
  /\ seen' = [seen EXCEPT ![p] = writers]
  /\ UNCHANGED <<device, txVars, row, early, resolutions,
                 kind, entry, writers, over, resolving, told>>

Overwrites(p) ==
  /\ over' = [over EXCEPT ![p] = writers]
  /\ writers' = writers \cup {p}
  /\ UNCHANGED <<vars, kind, seen, resolving, told>>

\* Mutant: the version grows with every write.
updateEntry_Counts(p) ==
  /\ kind[p] = "put" /\ Moves(p, "read", "written")
  /\ entry' = [entry EXCEPT !.version = @ + 1]
  /\ Overwrites(p)

\* Unconditional, and also of an entry deleted since; the version is the one read.
updateEntry(p) ==
  /\ kind[p] = "put" /\ Moves(p, "read", "written")
  /\ entry' = [entry EXCEPT !.version = base[p]]
  /\ Overwrites(p)

\* deleteEntry() looks again; what it does not find is left alone, and logged.
deleteEntryLooks(p) ==
  /\ kind[p] = "delete"
  /\ Moves(p, "read", IF entry.deleted THEN "written" ELSE "found")
  /\ UNCHANGED <<vars, kind, entry, writers, seen, over, resolving, told>>

deleteEntry(p) ==
  /\ Moves(p, "found", "written")
  /\ entry' = [entry EXCEPT !.deleted = TRUE]
  /\ Overwrites(p)

\* recordChange(), of a push at once.
Ready(p) ==
  \/ kind[p] \in {"push", "unheard"} /\ phase[p] = "new"
  \/ phase[p] = "written"

Records(p) ==
  /\ pc[p] = "new" => Ready(p)
  /\ RecordStep(p) \/ Rollback(p)
  /\ UNCHANGED entryVars

\* POST /sync answers with detectConflicts().
Answers(p) ==
  /\ kind[p] = "push" /\ pc[p] = "committed" /\ Moves(p, "new", "answered")
  /\ \E rank \in Bijection(Pushes, Pushes) :
       told' = IF DetectedPairs(rank) # {} THEN told \cup {p} ELSE told
  /\ UNCHANGED <<vars, kind, entry, writers, seen, over, resolving>>

(***************************************************************************)
(* resolveConflict(): the flags first, then the entry, by the strategy.    *)
(***************************************************************************)
NewVersion(p) == IF kind[p] = "put" THEN base[p] ELSE base[p] + 1

\* ORDER BY operation_timestamp, the time the transactions began.
Latest == {p \in Committed : \A q \in Committed : p \notin early[q]}

Resolves(strategy) ==
  /\ ResolveConflict
  /\ resolving' = CASE strategy = "remote" -> resolving
                    [] strategy = "merge" -> resolving \cup
                         {[id |-> resolutions', pc |-> "merge", version |-> 0]}
                    [] strategy = "last-write-wins" -> resolving \cup
                         {[id |-> resolutions', pc |-> "select", version |-> 0]}
  /\ UNCHANGED <<kind, phase, entry, writers, seen, over, told>>

\* Of an entry that has no row in the log it finds none.
SelectsLatest(r) ==
  /\ r.pc = "select"
  /\ \/ Latest = {} /\ resolving' = resolving \ {r}
     \/ \E p \in Latest :
          resolving' = (resolving \ {r}) \cup {[r EXCEPT !.pc = "update", !.version = NewVersion(p)]}
  /\ UNCHANGED <<vars, kind, phase, entry, writers, seen, over, told>>

WritesEntry(r) ==
  /\ r.pc \in {"update", "merge"}
  /\ resolving' = resolving \ {r}
  /\ entry' = [entry EXCEPT !.version = IF r.pc = "merge" THEN @ + 1 ELSE r.version]
  /\ UNCHANGED <<vars, kind, phase, writers, seen, over, told>>

EntriesNext ==
  \/ \E p \in Pushes : \/ Reads(p) \/ updateEntry(p)
                       \/ deleteEntryLooks(p) \/ deleteEntry(p)
                       \/ Records(p) \/ Answers(p)
  \/ \E strategy \in {"remote", "merge", "last-write-wins"} : Resolves(strategy)
  \/ \E r \in resolving : SelectsLatest(r) \/ WritesEntry(r)

EntriesSpec == EntriesInit /\ [][EntriesNext]_allVars

\* As in SyncLog: the database runs what was begun and breaks deadlocks.
EntriesFairSpec ==
  /\ EntriesSpec
  /\ WF_allVars(\E p \in Pushes : pc[p] # "new" /\ RecordStep(p) /\ UNCHANGED entryVars)
  /\ WF_allVars(\E p \in Pushes : Deadlocked(p) /\ Rollback(p) /\ UNCHANGED entryVars)

-----------------------------------------------------------------------------
\* Every variable of the requests stays within its domain.
EntriesTypeOK ==
  /\ TypeOK
  /\ kind \in [Pushes -> Kinds]
  /\ phase \in [Pushes -> {"new", "read", "found", "written", "answered"}]
  /\ entry \in [version : Nat \ {0}, deleted : BOOLEAN]
  /\ writers \subseteq Pushes /\ told \subseteq Pushes
  /\ seen \in [Pushes -> SUBSET Pushes] /\ over \in [Pushes -> SUBSET Pushes]
  /\ resolving \subseteq [id : 1..MaxResolutions, pc : {"select", "update", "merge"}, version : Nat]

\* A write that another device had not seen when it wrote over it does not go
\* unnoticed, as long as the transactions that log the two did not overlap: one
\* of them was flagged.  Once a conflict was resolved the version has moved and
\* nothing of the kind holds.
UnseenWritesNoticed ==
  resolutions = 0 =>
    \A q \in Committed : \A p \in (over[q] \ seen[q]) \cap Committed :
      device[p] # device[q] /\ (p \in early[q] \/ q \in early[p]) => Noticed(p) \/ Noticed(q)

\* A device whose push was flagged is told so in the answer, unless the conflict
\* was resolved meanwhile.
PusherIsTold ==
  \A p \in Pushes : phase[p] = "answered" /\ rival[p] # None => p \in told \/ row[p].resolved

\* SyncService.ts:105 "two different devices both modified from the same base
\* version": that a flagged write had not seen its rival.  It does not hold: a
\* PUT leaves the version as it is, so that the next device's is flagged too.
FlagMeansUnseen ==
  \A p, q \in writers \cap Committed :
    Rivals(p, q) /\ row[q].with = device[p] /\ row[q].hasConflict
      => p \in over[q] \ seen[q] \/ q \in over[p] \ seen[p]
=============================================================================
