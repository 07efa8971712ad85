--------------------------- MODULE ConnectionLease ---------------------------
(***************************************************************************)
(* What one relay WebSocket promises about the SSH connections it opens    *)
(* on behalf of its user: at most one is held at a time, an attempt that   *)
(* was let go is never held again, and a closed socket holds none.         *)
(***************************************************************************)
EXTENDS Naturals

CONSTANT MaxAttempts   \* connect messages the user sends on the socket

VARIABLES used,        \* how many attempts were granted so far
          held,        \* the attempts whose SSH connection is still held
          open         \* the socket accepts messages

leaseVars == <<used, held, open>>

LeaseInit == used = 0 /\ held = {} /\ open = TRUE

Acquire == /\ open /\ held = {} /\ used < MaxAttempts
           /\ used' = used + 1
           /\ held' = {used + 1}
           /\ UNCHANGED open

\* An attempt that fails at once is used up and holds nothing.
Forfeit == /\ open /\ held = {} /\ used < MaxAttempts
           /\ used' = used + 1
           /\ UNCHANGED <<held, open>>

Release == held # {} /\ held' = {} /\ UNCHANGED <<used, open>>

Shut == open /\ open' = FALSE /\ held' = {} /\ UNCHANGED used

LeaseNext == Acquire \/ Forfeit \/ Release \/ Shut

LeaseSpec == LeaseInit /\ [][LeaseNext]_leaseVars
=============================================================================
