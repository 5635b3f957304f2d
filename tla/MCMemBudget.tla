----------------------------- MODULE MCMemBudget -----------------------------
(***************************************************************************)
(* Three statements over a budget of twenty units: top-ups stop at 18, so  *)
(* leases can fill the budget to it, a statement can start in the last     *)
(* tenth, and both Begin and Grow can be refused.                          *)
(***************************************************************************)
EXTENDS MemBudget, TLC
=============================================================================
