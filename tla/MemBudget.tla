------------------------------ MODULE MemBudget ------------------------------
(***************************************************************************)
(* The memory budget of the cellar: dialect/engine/membudget/membudget.go, *)
(* driven by the query handler of backend/internal/cellar/query.go.        *)
(*                                                                         *)
(* A statement takes a lease (Begin), tops it up as its rows turn out wide *)
(* (Grow, called by query.Stream through Options.Reserve) and gives all of *)
(* it back when the handler returns (the deferred Release).  A statement   *)
(* refused by the budget ends at once with an error: nobody ever waits for *)
(* memory.  Each of Begin, Grow and Release is one critical section of     *)
(* Budget.mu, hence one action.  Memory is counted in abstract units.      *)
(***************************************************************************)
EXTENDS Integers, FiniteSets

CONSTANTS
  Statement,   \* the statements (requests) that ever run
  Total,       \* Budget.Total
  EntryCost,   \* what a statement reserves to start
  Step,        \* the granularity of a top-up
  MaxTarget    \* the widest footprint a row can ask for (bounds the model)

ASSUME TotalAssumption     == Total \in Nat
ASSUME CostAssumption      == EntryCost \in Nat \ {0} /\ Step \in Nat \ {0}
ASSUME TargetAssumption    == MaxTarget \in Nat

VARIABLES
  used,      \* Budget.used
  refused,   \* Budget.refused, as the set of statements counted in it
  held,      \* held[s] = Lease.held of the lease of s, 0 without a lease
  status     \* status[s]: how far the handler of s has come

vars == <<used, refused, held, status>>

\* "new": not started; "running": between Begin and the end of Stream;
\* "ending": Stream has reported its error, the deferred Release is due;
\* "done": the handler has returned.
Status == {"new", "running", "ending", "done"}

\* Mutation: top-ups reach the whole budget.
GrowCeiling_Whole == Total

\* Top-ups stop here: b.Total - b.Total/10.
GrowCeiling == Total - (Total \div 10)

RoundUp(target) == ((target + Step - 1) \div Step) * Step

TypeOK ==
  /\ used \in Nat
  /\ refused \in SUBSET Statement
  /\ held \in [Statement -> Nat]
  /\ status \in [Statement -> Status]

\* Mutation: the entry cost is left out of the check.
EntryFits_NoCost == used < Total

\* Begin's check.
EntryFits == used + EntryCost <= Total

\* Mutation: what the lease already holds is not taken off.
Growth_Whole(s, target) == RoundUp(target)

\* What a top-up to target adds to used.
Growth(s, target) == RoundUp(target) - held[s]

\* What Release gives back.
Returned(s) == held[s]

-----------------------------------------------------------------------------
Init ==
  /\ used = 0
  /\ refused = {}
  /\ held = [s \in Statement |-> 0]
  /\ status = [s \in Statement |-> "new"]

\* Begin grants EntryCost and the handler goes on to Stream.
Begin(s) ==
  /\ status[s] = "new"
  /\ EntryFits
  /\ used' = used + EntryCost
  /\ held' = [held EXCEPT ![s] = EntryCost]
  /\ status' = [status EXCEPT ![s] = "running"]
  /\ UNCHANGED refused

\* Begin answers ErrPressure: the handler reports it and returns, no lease.
BeginRefused(s) ==
  /\ status[s] = "new"
  /\ ~EntryFits
  /\ refused' = refused \cup {s}
  /\ status' = [status EXCEPT ![s] = "done"]
  /\ UNCHANGED <<used, held>>

\* Grow to a target beyond the lease: granted below the ceiling.
Grow(s, target) ==
  /\ status[s] = "running"
  /\ target > held[s]
  /\ used + Growth(s, target) <= GrowCeiling
  /\ used' = used + Growth(s, target)
  /\ held' = [held EXCEPT ![s] = RoundUp(target)]
  /\ UNCHANGED <<refused, status>>

\* Grow answers ErrPressure and keeps what the lease had; Stream reports the
\* error and ends the statement.
GrowRefused(s, target) ==
  /\ status[s] = "running"
  /\ target > held[s]
  /\ used + Growth(s, target) > GrowCeiling
  /\ refused' = refused \cup {s}
  /\ status' = [status EXCEPT ![s] = "ending"]
  /\ UNCHANGED <<used, held>>

\* Mutation: the handler returns without its deferred Release.
EndStream_NoRelease(s) ==
  /\ status[s] = "running"
  /\ status' = [status EXCEPT ![s] = "done"]
  /\ UNCHANGED <<used, refused, held>>

\* Stream returns for another reason: all rows sent, a cancelled request, a
\* wake, open or scan that failed.
EndStream(s) ==
  /\ status[s] = "running"
  /\ status' = [status EXCEPT ![s] = "ending"]
  /\ UNCHANGED <<used, refused, held>>

\* The deferred Release.
Release(s) ==
  /\ status[s] = "ending"
  /\ used' = used - Returned(s)
  /\ held' = [held EXCEPT ![s] = 0]
  /\ status' = [status EXCEPT ![s] = "done"]
  /\ UNCHANGED refused

Next ==
  \E s \in Statement :
    \/ Begin(s)
    \/ BeginRefused(s)
    \/ \E target \in 1..MaxTarget : Grow(s, target) \/ GrowRefused(s, target)
    \/ EndStream(s)
    \/ Release(s)

\* A stream comes to an end (its request has a deadline and its client a
\* socket) and a deferred call is always made.
Fairness == \A s \in Statement : WF_vars(EndStream(s)) /\ WF_vars(Release(s))

Spec == Init /\ [][Next]_vars /\ Fairness

-----------------------------------------------------------------------------
(***************************************************************************)
(* The bytes the leases hold, one element per unit, so that the total held *)
(* is a cardinality.                                                       *)
(***************************************************************************)
UnitsOf(h) == UNION {{s} \X (1..h[s]) : s \in Statement}

HeldUnits == UnitsOf(held)

\* The budget counts exactly what the running statements hold: no path of
\* Begin, Grow, a refused Grow and Release (membudget.go) leaks a unit or
\* gives one back twice.
UsedIsHeld == used = Cardinality(HeldUnits)

\* "Package membudget bounds the memory": what is reserved never exceeds the
\* budget, in whatever order statements start, grow, fail and end.
WithinTotal == used <= Total

\* Only a statement that has begun and not ended holds memory.
OnlyRunningHold == \A s \in Statement : held[s] > 0 => status[s] \in {"running", "ending"}

\* "Top-ups stop at 90% of it, so the last tenth is left for statements to
\* start in" (membudget.go:22): a step that takes the budget above the ceiling
\* is the start of a statement, never a top-up of one.
LastTenthForStarts ==
  [][used' > used /\ used' > Total - (Total \div 10) =>
       \E s \in Statement : status[s] = "new" /\ status'[s] = "running"]_vars

\* A statement that got memory gives it all back: nothing waits while holding.
AllReleased == \A s \in Statement : held[s] > 0 ~> held[s] = 0
=============================================================================
