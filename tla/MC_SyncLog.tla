------------------------------ MODULE MC_SyncLog ------------------------------
(* Model-checking instances of SyncLog. *)
EXTENDS SyncLog, Sequences

CONSTANTS d1, d2, d3

\* Devices are interchangeable: they are named in the order of their first push.
Named == <<d1, d2, d3>>
NamedInOrder ==
  {f \in [Pushes -> Devices] :
    \A p \in Pushes, j \in 2..3 :
      f[p] = Named[j] => \E q \in 1..(p - 1) : f[q] = Named[j - 1]}
=============================================================================
