------------------------------- MODULE PoolLife -------------------------------
(***************************************************************************)
(* What the connection cache promises of every database pool it opens: it  *)
(* serves, then it is dropped, then it is closed, once, and it is closed   *)
(* in the end.  ConnCache implements this, and TunnelCache does of the     *)
(* tunnels it dials.                                                       *)
(***************************************************************************)
CONSTANT Pool

VARIABLE life   \* life[p]: where pool p is in its life

Stage == {"new", "serving", "draining", "closed"}

Init == life = [p \in Pool |-> "new"]

Open(p) ==
  /\ life[p] = "new"
  /\ life' = [life EXCEPT ![p] = "serving"]

\* Expiry, eviction, a dead tunnel or a deleted workspace drop pools together.
Drop(P) ==
  /\ P # {} /\ \A p \in P : life[p] = "serving"
  /\ life' = [p \in Pool |-> IF p \in P THEN "draining" ELSE life[p]]

Close(p) ==
  /\ life[p] = "draining"
  /\ life' = [life EXCEPT ![p] = "closed"]

Next ==
  \/ \E p \in Pool : Open(p) \/ Close(p)
  \/ \E P \in SUBSET Pool : Drop(P)

Safety == Init /\ [][Next]_life

Spec == Safety /\ \A p \in Pool : WF_life(Close(p))
=============================================================================
