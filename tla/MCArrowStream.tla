---------------------------- MODULE MCArrowStream ----------------------------
(***************************************************************************)
(* Five rows in batches of at most three.                                  *)
(***************************************************************************)
EXTENDS ArrowStream, TLC
=============================================================================
