------------------------------ MODULE MC_Accounts ------------------------------
(* Model-checking instances of Accounts. *)
EXTENDS Accounts
CONSTANT u1
=============================================================================
