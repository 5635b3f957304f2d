-------------------------------- MODULE RowFeed --------------------------------
(***************************************************************************)
(* What a caller is promised of the result of a query it reads over the    *)
(* network: the rows one by one in the order of the query, then, once, how *)
(* it ended.  While the connection stands that is how the query ended, and *)
(* every row has come before it.  ArrowStream implements this.             *)
(***************************************************************************)
EXTENDS Naturals, Sequences

VARIABLES
  produced,   \* rows the query has given
  sent,       \* how it ended: "none", "done" or "error"
  cut,        \* the connection is lost
  delivered,  \* rows the caller has
  outcome     \* what it was told

feedVars == <<produced, sent, cut, delivered, outcome>>

Open == outcome.kind = "none"

Init ==
  /\ produced = 0 /\ sent = "none"
  /\ cut = FALSE
  /\ delivered = <<>>
  /\ outcome = [kind |-> "none", rows |-> 0]

Produce ==
  /\ sent = "none"
  /\ produced' = produced + 1
  /\ UNCHANGED <<sent, cut, delivered, outcome>>

Finish ==
  /\ sent = "none"
  /\ sent' \in {"done", "error"}
  /\ UNCHANGED <<produced, cut, delivered, outcome>>

Deliver ==
  /\ Open
  /\ Len(delivered) < produced
  /\ delivered' = Append(delivered, Len(delivered) + 1)
  /\ UNCHANGED <<produced, sent, cut, outcome>>

\* The end of the query arrives, after all its rows.
Tell ==
  /\ Open
  /\ sent # "none" /\ Len(delivered) = produced
  /\ outcome' = [kind |-> sent, rows |-> IF sent = "done" THEN produced ELSE 0]
  /\ UNCHANGED <<produced, sent, cut, delivered>>

Break ==
  /\ Open /\ ~cut
  /\ cut' = TRUE
  /\ UNCHANGED <<produced, sent, delivered, outcome>>

\* After it is lost anything may be taken for the end, and no count comes with it.
GiveUp ==
  /\ Open /\ cut
  /\ \E kind \in {"done", "error"} : outcome' = [kind |-> kind, rows |-> 0]
  /\ UNCHANGED <<produced, sent, cut, delivered>>

Next == Produce \/ Finish \/ Deliver \/ Tell \/ Break \/ GiveUp

Spec == Init /\ [][Next]_feedVars
=============================================================================
