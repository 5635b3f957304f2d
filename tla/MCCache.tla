------------------------------- MODULE MCCache -------------------------------
(***************************************************************************)
(* A small cache used by any goroutine in any order.                       *)
(***************************************************************************)
EXTENDS Cache, TLC
=============================================================================
