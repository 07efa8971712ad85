------------------------------ MODULE MC_Entries ------------------------------
(* Model-checking instances of Entries, with SyncLog below it. *)
EXTENDS Entries, MC_SyncLog

\* Four pushes, two of each of two devices (a push looks only at the rows of the
\* other one, so how the numbers of the two are mixed makes no difference); or three
\* requests of any devices, of which two write the entry; or three that write it,
\* the first and the last of one device.
Pushed == {[p \in Pushes |-> "unheard"]} \X {<<d1, d1, d2, d2>>}
Written == {<<"put", "put", "push", "none">>, <<"put", "delete", "push", "none">>} \X
  {f \in NamedInOrder : f[4] = d1}
Rewritten == {<<"put", "put", "put", "none">>} \X {<<d1, d2, d1, d1>>}
Requests == Pushed \cup Written \cup Rewritten
=============================================================================
