------------------------------- MODULE MCAudit -------------------------------
(***************************************************************************)
(* Two instances; the second event of the outbox lane does not parse.      *)
(***************************************************************************)
EXTENDS Audit
=============================================================================
