---------------------------- MODULE ConflictLedger ----------------------------
(***************************************************************************)
(* What the server's log of changes promises to the devices that push to   *)
(* it: a change enters the log in one step, together with its flag and the *)
(* flags of the rivals it names, all of one device; it may enter without a *)
(* flag only if every rival that was there when it began has been noticed; *)
(* and a flag, once set, is only ever cleared by resolving the conflict.   *)
(***************************************************************************)
CONSTANTS Pushes, Devices, None

VARIABLES ledger,   \* the changes in the log: from whom and what, their flag
          known     \* the changes in the log when each push began

ledgerVars == <<ledger, known>>

Logged == DOMAIN ledger
Rival(x, y) == x.device # y.device /\ x.base = y.base

Marked(flag, by) == [flag EXCEPT !.hasConflict = TRUE, !.with = by]
Cleared(flag) == [flag EXCEPT !.hasConflict = FALSE, !.resolved = TRUE]

LedgerInit == Logged = {} /\ known = [p \in Pushes |-> {}]

Admit(p) == /\ p \notin Logged
            /\ known' = [known EXCEPT ![p] = Logged]
            /\ UNCHANGED ledger

\* A change of device d made from version v enters, naming the rivals "marked".
Enter(p, d, v, marked, rival) ==
  LET change == [device |-> d, base |-> v,
                 flag |-> [hasConflict |-> marked # {}, with |-> rival, resolved |-> FALSE]]
  IN /\ \A r \in marked : /\ Rival(change, ledger[r])
                          /\ ~ledger[r].flag.hasConflict
                          /\ ledger[r].device = rival
     /\ marked = {} => /\ rival = None
                       /\ \A r \in known[p] : Rival(change, ledger[r]) =>
                            ledger[r].flag.hasConflict \/ ledger[r].flag.resolved
     /\ ledger' = [r \in Logged \cup {p} |->
                     IF r = p THEN change
                     ELSE IF r \in marked
                     THEN [device |-> ledger[r].device, base |-> ledger[r].base,
                           flag |-> Marked(ledger[r].flag, d)]
                     ELSE ledger[r]]
     /\ UNCHANGED known

Settle ==
  /\ \E r \in Logged : ledger[r].flag.hasConflict
  /\ ledger' = [r \in Logged |->
                  IF ledger[r].flag.hasConflict
                  THEN [device |-> ledger[r].device, base |-> ledger[r].base,
                        flag |-> Cleared(ledger[r].flag)]
                  ELSE ledger[r]]
  /\ UNCHANGED known

\* From which device and version a change comes is up to the push.
LedgerNext ==
  \/ \E p \in Pushes : Admit(p)
  \/ \E p \in (DOMAIN ledger') \ Logged :
       \E marked \in SUBSET Logged, rival \in Devices \cup {None} :
         Enter(p, ledger'[p].device, ledger'[p].base, marked, rival)
  \/ Settle

LedgerSpec == LedgerInit /\ [][LedgerNext]_ledgerVars
=============================================================================
