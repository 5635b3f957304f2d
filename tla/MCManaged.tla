------------------------------ MODULE MCManaged ------------------------------
(***************************************************************************)
(* A workspace whose plan has room for one database.                       *)
(***************************************************************************)
EXTENDS Managed
=============================================================================
