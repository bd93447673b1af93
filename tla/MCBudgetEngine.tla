--------------------------- MODULE MCBudgetEngine ---------------------------
(***************************************************************************)
(* Two buckets and two request ids, so that an id can be reused across     *)
(* buckets; estimates below, at and above a settlement, usage of zero.     *)
(***************************************************************************)
EXTENDS BudgetEngine

MCEstimate == {1, 2}
MCUsage == {0, 1, 3}
MCGrant == {0, 1, 3}
MCMaxFunds == 4
=============================================================================
