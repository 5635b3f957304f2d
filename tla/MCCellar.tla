------------------------------- MODULE MCCellar -------------------------------
(***************************************************************************)
(* A small cellar: one database that statements are for, and one that can  *)
(* be a copy of it.                                                        *)
(***************************************************************************)
EXTENDS Cellar
=============================================================================
