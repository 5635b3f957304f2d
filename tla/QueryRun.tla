------------------------------- MODULE QueryRun -------------------------------
(***************************************************************************)
(* The runs of one SQL file on one datasource in the desktop app: each run *)
(* has a buffer its rows are appended to and a context that can be         *)
(* cancelled, and all of them share one key, so one slot of the result     *)
(* cache (dialect/engine/results) and one entry of the cancel registry     *)
(* (dialect/engine/query).  The table of a run reads its pages through the *)
(* slot while rows still arrive.                                           *)
(*                                                                         *)
(* StartQuery runs on a goroutine of its own and starts another that       *)
(* streams, so the steps of two runs interleave.  A step is what happens   *)
(* under one lock, with the events the streaming goroutine emits after it. *)
(*                                                                         *)
(* Data.  Rows are counted.  The edit metadata of a result is the run      *)
(* whose statement it was computed for.                                    *)
(***************************************************************************)
EXTENDS Integers

CONSTANTS
  Run,       \* executions
  None,      \* no run
  PageSize,
  MaxPages,  \* pages the table asks for (bounds the model)
  MaxRows    \* rows a run can have (bounds the model)

ASSUME NoneAssumption == None \notin Run
ASSUME SizeAssumption == PageSize \in Nat \ {0} /\ MaxPages \in Nat /\ MaxRows \in Nat

VARIABLES
  slot,        \* the run whose buffer resultCache has under the key
  registered,  \* the run whose entry cancelRegistry has under the key
  previous,    \* previous[r]: the entry r displaced and has yet to cancel
  asked,       \* runs Cancel took out of the registry
  cancelled,   \* runs whose context is cancelled
  at,          \* where a run is
  rows,        \* rows in its buffer
  done,        \* its buffer is finished
  meta,        \* the edit metadata in its buffer
  told,        \* the last of the events started, done and error
  settled      \* history: settled[r][p]: rows on p when it was first "ready"

vars == <<slot, registered, previous, asked, cancelled, at, rows, done, meta, told, settled>>

MaybeRun == Run \cup {None}
Page == 0..(MaxPages - 1)
Unsettled == -1

Place == {"idle", "stored", "registered", "started", "columns", "rows", "ended", "gone"}

\* Every variable has its shape, and a page that is ready is not over-full.
TypeOK ==
  /\ slot \in MaybeRun /\ registered \in MaybeRun
  /\ previous \in [Run -> MaybeRun]
  /\ asked \in SUBSET Run /\ cancelled \in SUBSET Run
  /\ at \in [Run -> Place]
  /\ rows \in [Run -> 0..MaxRows]
  /\ done \in [Run -> BOOLEAN]
  /\ meta \in [Run -> MaybeRun]
  /\ told \in [Run -> {"nothing", "started", "done", "error"}]
  /\ settled \in [Run -> [Page -> Unsettled..PageSize]]

Init ==
  /\ slot = None /\ registered = None
  /\ previous = [r \in Run |-> None]
  /\ asked = {} /\ cancelled = {}
  /\ at = [r \in Run |-> "idle"]
  /\ rows = [r \in Run |-> 0]
  /\ done = [r \in Run |-> FALSE]
  /\ meta = [r \in Run |-> None]
  /\ told = [r \in Run |-> "nothing"]
  /\ settled = [r \in Run |-> [p \in Page |-> Unsettled]]

Go(r, from, to) == at[r] = from /\ at' = [at EXCEPT ![r] = to]

-----------------------------------------------------------------------------
(* StartQuery.                                                             *)

\* The new buffer takes the slot (results.Set).
StoreResult(r) ==
  /\ Go(r, "idle", "stored")
  /\ slot' = r
  /\ UNCHANGED <<registered, previous, asked, cancelled, rows, done, meta, told, settled>>

\* RegisterCancel, under its lock.
RegisterCancel(r) ==
  /\ Go(r, "stored", "registered")
  /\ previous' = [previous EXCEPT ![r] = registered]
  /\ registered' = r
  /\ UNCHANGED <<slot, asked, cancelled, rows, done, meta, told, settled>>

\* Mutation: the run that was there goes on.
Displaced_None(r) == {}
\* The run RegisterCancel displaced.
Displaced(r) == {previous[r]} \ {None}

\* ... and after the lock, before the goroutine of the run is started.
CancelPrevious(r) ==
  /\ Go(r, "registered", "started")
  /\ cancelled' = cancelled \cup Displaced(r)
  /\ previous' = [previous EXCEPT ![r] = None]
  /\ UNCHANGED <<slot, registered, asked, rows, done, meta, told, settled>>

-----------------------------------------------------------------------------
(* The goroutine of a run.                                                 *)

\* The columns are known, and the listener has no metadata for them yet.
\* computeColumnEditMeta may have to load the schema first.
Columns(r) ==
  /\ meta[r] = None
  /\ Go(r, "started", "columns")
  /\ UNCHANGED <<slot, registered, previous, asked, cancelled, rows, done, meta, told, settled>>

\* The started event, for a result that needs no metadata: it has some, or the
\* statement returns no columns.
StartEvent(r) ==
  /\ Go(r, "started", "rows")
  /\ told' = [told EXCEPT ![r] = "started"]
  /\ UNCHANGED <<slot, registered, previous, asked, cancelled, rows, done, meta, settled>>

\* OnStart puts the metadata on the buffer it finds under the key, if there is
\* metadata and a buffer.
StashMeta(r) ==
  /\ Go(r, "columns", "rows")
  /\ \/ slot # None /\ meta' = [meta EXCEPT ![slot] = r]
     \/ UNCHANGED meta
  /\ told' = [told EXCEPT ![r] = "started"]
  /\ UNCHANGED <<slot, registered, previous, asked, cancelled, rows, done, settled>>

AppendRow(r) ==
  /\ at[r] = "rows"
  /\ rows[r] < MaxRows
  /\ rows' = [rows EXCEPT ![r] = @ + 1]
  /\ UNCHANGED <<slot, registered, previous, asked, cancelled, at, done, meta, told, settled>>

End(r, event) ==
  /\ done' = [done EXCEPT ![r] = TRUE]
  /\ told' = [told EXCEPT ![r] = event]
  /\ UNCHANGED <<slot, registered, previous, asked, cancelled, rows, meta, settled>>

\* OnDone, and OnError for any failure, the cancelled context's among them.
Finalize(r) == Go(r, "rows", "ended") /\ End(r, "done")
Fail(r)     == (Go(r, "started", "ended") \/ Go(r, "rows", "ended")) /\ End(r, "error")

\* Mutation: whatever is registered is removed.
Unregistered_Any(r) == None
\* The registry once r removed its own registration.
Unregistered(r) == IF registered = r THEN None ELSE registered

Unregister(r) ==
  /\ Go(r, "ended", "gone")
  /\ registered' = Unregistered(r)
  /\ UNCHANGED <<slot, previous, asked, cancelled, rows, done, meta, told, settled>>

Stream(r) ==
  Columns(r) \/ StartEvent(r) \/ StashMeta(r) \/ AppendRow(r) \/ Finalize(r) \/ Fail(r) \/ Unregister(r)

-----------------------------------------------------------------------------
(* The user, and the clock.                                                *)

\* CancelQuery takes the entry out, and then cancels it.
Cancel ==
  /\ registered # None
  /\ asked' = asked \cup {registered}
  /\ registered' = None
  /\ UNCHANGED <<slot, previous, cancelled, at, rows, done, meta, told, settled>>

CancelAsked(r) ==
  /\ r \in asked \ cancelled
  /\ cancelled' = cancelled \cup {r}
  /\ UNCHANGED <<slot, registered, previous, asked, at, rows, done, meta, told, settled>>

\* The cache drops the buffer: it is full of other files' results, or this one
\* has not been read for its TTL.
Evict ==
  /\ slot # None
  /\ slot' = None
  /\ UNCHANGED <<registered, previous, asked, cancelled, at, rows, done, meta, told, settled>>

Least(m, n) == IF m <= n THEN m ELSE n

\* The rows a page has now.
RowsOn(r, p) == IF rows[r] <= p * PageSize THEN 0 ELSE Least(rows[r] - p * PageSize, PageSize)

\* Mutation: a page with rows on it is ready.
Ready_Partial(r, p) == done[r] \/ RowsOn(r, p) > 0
\* StreamingResult.Page says PageReady.
Ready(r, p) == done[r] \/ RowsOn(r, p) = PageSize

\* GetResultPage for r, in whose place another run's buffer is refused.  Ready is
\* when the table stops asking.
GetResultPage(r, p) ==
  /\ told[r] # "nothing"
  /\ slot = r
  /\ Ready(r, p) /\ settled[r][p] = Unsettled
  /\ settled' = [settled EXCEPT ![r][p] = RowsOn(r, p)]
  /\ UNCHANGED <<slot, registered, previous, asked, cancelled, at, rows, done, meta, told>>

-----------------------------------------------------------------------------
Next ==
  \/ \E r \in Run :
       \/ StoreResult(r) \/ RegisterCancel(r) \/ CancelPrevious(r)
       \/ Stream(r)
       \/ CancelAsked(r)
       \/ \E p \in Page : GetResultPage(r, p)
  \/ Cancel
  \/ Evict

\* Go code goes on; a query comes back once its context is cancelled.
Fairness ==
  \A r \in Run :
    /\ WF_vars(RegisterCancel(r)) /\ WF_vars(CancelPrevious(r)) /\ WF_vars(CancelAsked(r))
    /\ WF_vars(r \in cancelled /\ Stream(r))
    /\ WF_vars(Unregister(r))

Spec == Init /\ [][Next]_vars /\ Fairness

-----------------------------------------------------------------------------
(* Properties.                                                             *)

\* The goroutine of r runs, or is about to be started.
Live(r) == at[r] \in {"registered", "started", "columns", "rows"}

\* The runs somebody has taken out of the registry to cancel them.
Doomed == cancelled \cup asked \cup {previous[r] : r \in Run}

\* No run is out of reach: one that runs can be cancelled through the registry
\* unless it is cancelled already, "so an earlier run finishing late cannot drop
\* the cancel of the one that replaced it" (query/cancel.go:20).
Cancellable == \A r \in Run : Live(r) => r = registered \/ r \in Doomed

\* A page the table was given as ready is complete: it does not change any more
\* (results/streaming_result.go, Page).
SettledPages ==
  \A r \in Run, p \in Page : settled[r][p] # Unsettled => RowsOn(r, p) = settled[r][p]

\* A run that was cancelled, or that another one displaced, ends and leaves the
\* registry (RegisterCancel, Cancel).
DisplacedEnds == \A r \in Run : Live(r) /\ registered # r ~> at[r] = "gone"

\* "stashing it on the StreamingResult so subsequent Page() calls expose it"
\* (query_events.go:65): the metadata a result is edited by is its own.
\* The code does not keep this: README.md, section 6.
MetaIsOwn == \A r \in Run : meta[r] \in {None, r}

\* "running it again supersedes the earlier run" (query/cancel.go:18): the run
\* whose buffer has the slot is not the one that is cancelled, unless it was
\* cancelled by hand.
\* The code does not keep this: README.md, section 6.
NewestRuns == slot \in cancelled => slot \in asked
=============================================================================
