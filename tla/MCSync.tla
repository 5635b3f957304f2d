-------------------------------- MODULE MCSync --------------------------------
(***************************************************************************)
(* One or two rows and two edits, shared out over devices, rounds and      *)
(* permissions as the configurations say.                                  *)
(***************************************************************************)
EXTENDS Sync, TLC
=============================================================================
