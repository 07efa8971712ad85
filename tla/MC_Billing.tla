------------------------------ MODULE MC_Billing ------------------------------
(* Model-checking instances of VaultQuota, with Billing below it. *)
EXTENDS VaultQuota

PlanNames == {"free", "pro"}
PlanOrder == [free |-> 0, pro |-> 1]
VaultLimits == [free |-> 1, pro |-> 2]
=============================================================================
