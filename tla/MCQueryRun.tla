------------------------------ MODULE MCQueryRun ------------------------------
(***************************************************************************)
(* A file that is run twice.                                               *)
(***************************************************************************)
EXTENDS QueryRun, TLC
=============================================================================
