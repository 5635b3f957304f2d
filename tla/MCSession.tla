------------------------------ MODULE MCSession ------------------------------
(***************************************************************************)
(* One device with two requests at a time.                                 *)
(***************************************************************************)
EXTENDS Session
=============================================================================
