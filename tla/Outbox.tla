-------------------------------- MODULE Outbox --------------------------------
(***************************************************************************)
(* What offline work promises its user: a change waits on the device until *)
(* the server has it.  The server may be given a change more than once;    *)
(* the device drops none the server was not given.                         *)
(***************************************************************************)
EXTENDS Naturals

CONSTANT MaxChanges

VARIABLES count,       \* changes recorded so far
          waiting,     \* those the device still has to deliver
          delivered    \* those the server was given

outboxVars == <<count, waiting, delivered>>

OutboxInit == count = 0 /\ waiting = {} /\ delivered = {}

Put == /\ count < MaxChanges
       /\ count' = count + 1
       /\ waiting' = waiting \cup {count + 1}
       /\ UNCHANGED delivered

Deliver == \E c \in 1..count : /\ delivered' = delivered \cup {c}
                               /\ UNCHANGED <<count, waiting>>

Drop == \E c \in waiting \cap delivered : /\ waiting' = waiting \ {c}
                                          /\ UNCHANGED <<count, delivered>>

OutboxNext == Put \/ Deliver \/ Drop

OutboxSpec == OutboxInit /\ [][OutboxNext]_outboxVars
=============================================================================
