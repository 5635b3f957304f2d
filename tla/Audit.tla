-------------------------------- MODULE Audit --------------------------------
(***************************************************************************)
(* backend/internal/audit: every instance of the backend writes the audit  *)
(* log along two lanes.  Query and sign-in events pass through a bounded   *)
(* channel to a writer that inserts them in batches; events of IAM and of  *)
(* datasources are rows of audit.outbox, which the drainers of all the     *)
(* instances move into audit.event.                                        *)
(*                                                                         *)
(* A transaction is two steps: the rows it takes or the batch it holds,    *)
(* and its end.  A commit whose answer is lost has still committed, and    *)
(* neither lane tries again on its own, so it is no case of its own.       *)
(***************************************************************************)
EXTENDS Integers, FiniteSets, Sequences, SequencesExt

CONSTANTS
  Instance,     \* of the backend, on one database
  Async,        \* events of LaneAsync
  Durable,      \* events of LaneOutbox
  Poison,       \* those of Durable whose row does not parse
  BufferSize,   \* of the channel
  BatchSize,    \* rows the writer inserts at once
  OutboxBatch,  \* rows a drainer takes at once
  MaxFaults,    \* statements and transactions that fail (bounds the model)
  MaxEnds       \* shutdowns and crashes (bounds the model)

ASSUME SizesAssumption ==
  /\ BufferSize \in Nat \ {0} /\ BatchSize \in Nat \ {0} /\ OutboxBatch \in Nat \ {0}
  /\ MaxFaults \in Nat /\ MaxEnds \in Nat
ASSUME InstanceAssumption == Instance # {}
ASSUME LanesAssumption ==
  Async \cap Durable = {} /\ Poison \subseteq Durable /\ IsFiniteSet(Durable)

Event == Async \cup Durable

VARIABLES
  life,      \* life[i]: where the process of i is
  request,   \* request[e]: the request that records e
  ch,        \* ch[i]: the channel
  buf,       \* buf[i]: the writer's batch
  writer,    \* writer[i]: where writeLoop is
  held,      \* held[i]: the outbox rows the drainer's transaction has locked
  drainer,   \* drainer[i]: where outboxLoop, then Stop, is
  outbox,    \* outbox[e]: the id of the row of e in audit.outbox, 0 when it has none
  table,     \* table[e]: the rows of e in audit.event
  lost,      \* history: events dropped, of a failed batch, or of a dead process
  panicked,  \* history: an event was sent on a closed channel
  faults, ends

process == <<life, ch, buf, writer, held, drainer>>
vars == <<life, request, ch, buf, writer, held, drainer, outbox, table, lost, panicked,
          faults, ends>>

\* Every variable has its shape; no channel and no batch outgrows its size.
TypeOK ==
  /\ life \in [Instance -> {"up", "shutting", "stopping", "draining", "down"}]
  /\ request \in [Event -> [at : {"new", "open", "sent", "failed", "cut"}, on : Instance]]
  /\ ch \in [Instance -> Seq(Async)] /\ buf \in [Instance -> Seq(Async)]
  /\ \A i \in Instance : Len(ch[i]) <= BufferSize /\ Len(buf[i]) <= BatchSize
  /\ writer \in [Instance -> {"waiting", "writing", "last", "gone"}]
  /\ held \in [Instance -> SUBSET Durable]
  /\ drainer \in [Instance -> {"waiting", "again", "moving", "gone"}]
  /\ outbox \in [Durable -> Nat]
  /\ table \in [Event -> Nat]
  /\ lost \in SUBSET Async
  /\ panicked \in BOOLEAN
  /\ faults \in 0..MaxFaults /\ ends \in 0..MaxEnds

Init ==
  /\ life = [i \in Instance |-> "up"]
  /\ request = [e \in Event |-> [at |-> "new", on |-> CHOOSE i \in Instance : TRUE]]
  /\ ch = [i \in Instance |-> <<>>] /\ buf = [i \in Instance |-> <<>>]
  /\ writer = [i \in Instance |-> "waiting"]
  /\ held = [i \in Instance |-> {}]
  /\ drainer = [i \in Instance |-> "waiting"]
  /\ outbox = [e \in Durable |-> 0]
  /\ table = [e \in Event |-> 0]
  /\ lost = {}
  /\ panicked = FALSE
  /\ faults = 0 /\ ends = 0

Fault == faults < MaxFaults /\ faults' = faults + 1

(* The handlers: Emit picks the lane.                                      *)

\* A request reaches i; what it records it has done already.
Arrive(i, e) ==
  /\ life[i] = "up" /\ request[e].at = "new"
  /\ request' = [request EXCEPT ![e] = [at |-> "open", on |-> i]]
  /\ UNCHANGED <<process, outbox, table, lost, panicked, faults, ends>>

Answer(e, how) == request' = [request EXCEPT ![e].at = how]

Full(i) == Len(ch[i]) >= BufferSize

\* Log: the send never waits, and a full channel drops the event.
Log(i, e) ==
  /\ e \in Async /\ request[e] = [at |-> "open", on |-> i]
  /\ Answer(e, "sent")
  /\ LET closed == life[i] \in {"stopping", "draining"}
         full == Full(i)
     IN /\ ch' = IF closed \/ full THEN ch ELSE [ch EXCEPT ![i] = Append(@, e)]
        /\ lost' = IF closed \/ full THEN lost \cup {e} ELSE lost
        /\ panicked' = (panicked \/ closed)
  /\ UNCHANGED <<life, buf, writer, held, drainer, outbox, table, faults, ends>>

\* The ids of audit.outbox count up.
NextId == 1 + Cardinality({e \in Durable : request[e].at = "sent"})

\* LogOutbox: one INSERT, whose failure EmitAction only logs.
LogOutbox(i, e) ==
  /\ e \in Durable /\ request[e] = [at |-> "open", on |-> i]
  /\ \/ Answer(e, "sent") /\ outbox' = [outbox EXCEPT ![e] = NextId] /\ UNCHANGED faults
     \/ Answer(e, "failed") /\ Fault /\ UNCHANGED outbox
  /\ UNCHANGED <<process, table, lost, panicked, ends>>

(* writeLoop.                                                              *)

\* It takes an event, and writes as soon as the batch is full.
Receive(i) ==
  /\ writer[i] = "waiting" /\ ch[i] # <<>>
  /\ ch' = [ch EXCEPT ![i] = Tail(@)]
  /\ buf' = [buf EXCEPT ![i] = Append(@, Head(ch[i]))]
  /\ writer' = [writer EXCEPT ![i] = IF Len(buf'[i]) >= BatchSize THEN "writing" ELSE @]
  /\ UNCHANGED <<life, request, held, drainer, outbox, table, lost, panicked, faults, ends>>

\* Mutation: only a full batch is written.
Due_WhenFull(i) == writer[i] = "waiting" /\ Len(buf[i]) >= BatchSize
\* The ticker writes what there is.
Due(i) == writer[i] = "waiting" /\ buf[i] # <<>>

Tick(i) ==
  /\ Due(i)
  /\ writer' = [writer EXCEPT ![i] = "writing"]
  /\ UNCHANGED <<life, request, ch, buf, held, drainer, outbox, table, lost, panicked,
                 faults, ends>>

\* The channel is closed and empty: the batch at hand is the last one.
LastWrite(i) == IF buf[i] = <<>> THEN "gone" ELSE "last"

Drained(i) ==
  /\ writer[i] = "waiting" /\ life[i] = "stopping" /\ ch[i] = <<>>
  /\ writer' = [writer EXCEPT ![i] = LastWrite(i)]
  /\ UNCHANGED <<life, request, ch, buf, held, drainer, outbox, table, lost, panicked,
                 faults, ends>>

\* writeBatch: all of the batch or nothing of it; either way it is done with.
Write(i) ==
  /\ writer[i] \in {"writing", "last"}
  /\ writer' = [writer EXCEPT ![i] = IF @ = "last" THEN "gone" ELSE "waiting"]
  /\ buf' = [buf EXCEPT ![i] = <<>>]
  /\ LET batch == ToSet(buf[i])
     IN \/ /\ table' = [e \in Event |-> table[e] + IF e \in batch THEN 1 ELSE 0]
           /\ UNCHANGED <<lost, faults>>
        \/ lost' = lost \cup batch /\ Fault /\ UNCHANGED table
  /\ UNCHANGED <<life, request, ch, held, drainer, outbox, panicked, ends>>

(* drainOutbox.                                                            *)

\* Mutation: the rows are selected without locks.
Locked_Nothing == {}
\* The rows of transactions under way: FOR UPDATE SKIP LOCKED passes them over.
Locked == UNION {held[i] : i \in Instance}

Rows == {e \in Durable : outbox[e] # 0}

\* The first rows nobody has locked.
Batch ==
  LET free == Rows \ Locked
  IN {e \in free : Cardinality({f \in free : outbox[f] < outbox[e]}) < OutboxBatch}

\* Where a drain that is over leaves its caller: the loop, or Stop, which returns.
Done(i) ==
  /\ drainer' = [drainer EXCEPT ![i] = IF life[i] = "draining" THEN "gone" ELSE "waiting"]
  /\ life' = [life EXCEPT ![i] = IF @ = "draining" THEN "down" ELSE @]

\* The poll, or the next turn of a drain whose batch was full.  Between a tick and the
\* stop channel the loop takes either.
Select(i) ==
  /\ \/ drainer[i] = "waiting" /\ life[i] \in {"up", "shutting", "stopping"} /\ Batch # {}
     \/ drainer[i] = "again"
  /\ IF Batch = {}
     THEN Done(i) /\ UNCHANGED held
     ELSE /\ held' = [held EXCEPT ![i] = Batch]
          /\ drainer' = [drainer EXCEPT ![i] = "moving"]
          /\ UNCHANGED life
  /\ UNCHANGED <<request, ch, buf, writer, outbox, table, lost, panicked, faults, ends>>

\* A row that does not parse is deleted with the others.
Removed(i) == held[i]

\* The end of the transaction: the rows are moved, or all of them stay.
Move(i) ==
  /\ drainer[i] = "moving"
  /\ held' = [held EXCEPT ![i] = {}]
  /\ \/ /\ table' = [e \in Event |-> table[e] + IF e \in held[i] \ Poison THEN 1 ELSE 0]
        /\ outbox' = [e \in Durable |-> IF e \in Removed(i) THEN 0 ELSE outbox[e]]
        /\ IF Cardinality(held[i]) < OutboxBatch
           THEN Done(i)
           ELSE drainer' = [drainer EXCEPT ![i] = "again"] /\ UNCHANGED life
        /\ UNCHANGED faults
     \/ Done(i) /\ Fault /\ UNCHANGED <<outbox, table>>
  /\ UNCHANGED <<request, ch, buf, writer, lost, panicked, ends>>

(* main: Shutdown, then Stop; or the process just ends.                    *)

End == ends < MaxEnds /\ ends' = ends + 1

Shutdown(i) ==
  /\ life[i] = "up" /\ End
  /\ life' = [life EXCEPT ![i] = "shutting"]
  /\ UNCHANGED <<request, ch, buf, writer, held, drainer, outbox, table, lost, panicked,
                 faults>>

Open(i) == {e \in Event : request[e] = [at |-> "open", on |-> i]}

\* Mutation: Stop does not wait for the requests.
Quiesced_Anyway(i) == TRUE
\* srv.Shutdown returns when no request is open.
Quiesced(i) == Open(i) = {}

\* Stop closes the stop channel, then the events' channel.
Stop(i) ==
  /\ life[i] = "shutting" /\ Quiesced(i)
  /\ life' = [life EXCEPT ![i] = "stopping"]
  /\ UNCHANGED <<request, ch, buf, writer, held, drainer, outbox, table, lost, panicked,
                 faults, ends>>

\* outboxLoop sees the stop channel between two drains.
LeaveLoop(i) ==
  /\ life[i] = "stopping" /\ drainer[i] = "waiting"
  /\ drainer' = [drainer EXCEPT ![i] = "gone"]
  /\ UNCHANGED <<life, request, ch, buf, writer, held, outbox, table, lost, panicked,
                 faults, ends>>

\* Mutation: Stop does not wait for the writer.
Joined_Drainer(i) == drainer[i] = "gone"
\* Stop waits for both loops.
Joined(i) == writer[i] = "gone" /\ drainer[i] = "gone"

\* It then drains the outbox once more.
Join(i) ==
  /\ life[i] = "stopping" /\ Joined(i)
  /\ life' = [life EXCEPT ![i] = "draining"]
  /\ drainer' = [drainer EXCEPT ![i] = "again"]
  /\ UNCHANGED <<request, ch, buf, writer, held, outbox, table, lost, panicked, faults, ends>>

\* The process ends with its work at hand: a crash, the Fatalf of a Shutdown that took
\* too long, or a Stop out of time.  PostgreSQL rolls its transactions back.
Crash(i) ==
  /\ life[i] # "down" /\ End
  /\ life' = [life EXCEPT ![i] = "down"]
  /\ request' = [e \in Event |-> IF e \in Open(i) THEN [request[e] EXCEPT !.at = "cut"]
                                                  ELSE request[e]]
  /\ lost' = lost \cup ToSet(ch[i] \o buf[i])
  /\ ch' = [ch EXCEPT ![i] = <<>>] /\ buf' = [buf EXCEPT ![i] = <<>>]
  /\ held' = [held EXCEPT ![i] = {}]
  /\ writer' = [writer EXCEPT ![i] = "gone"] /\ drainer' = [drainer EXCEPT ![i] = "gone"]
  /\ UNCHANGED <<outbox, table, panicked, faults>>

Start(i) ==
  /\ life[i] = "down"
  /\ life' = [life EXCEPT ![i] = "up"]
  /\ ch' = [ch EXCEPT ![i] = <<>>] /\ buf' = [buf EXCEPT ![i] = <<>>]
  /\ writer' = [writer EXCEPT ![i] = "waiting"]
  /\ drainer' = [drainer EXCEPT ![i] = "waiting"]
  /\ UNCHANGED <<request, held, outbox, table, lost, panicked, faults, ends>>

Handler(i) == \E e \in Event : Log(i, e) \/ LogOutbox(i, e)
Writer(i) == Receive(i) \/ Tick(i) \/ Drained(i) \/ Write(i)
Drainer(i) == Select(i) \/ Move(i) \/ LeaveLoop(i)
Main(i) == Stop(i) \/ Join(i) \/ Start(i)
Step(i) == Handler(i) \/ Writer(i) \/ Drainer(i) \/ Main(i)

\* Every event is recorded and nobody has work left.
Over ==
  /\ \A e \in Event : request[e].at \notin {"new", "open"}
  /\ Rows = {}
  /\ \A i \in Instance : life[i] = "up" /\ ch[i] = <<>> /\ buf[i] = <<>>
  /\ UNCHANGED vars

Next ==
  \/ \E i \in Instance : Step(i) \/ Shutdown(i) \/ Crash(i)
  \/ \E i \in Instance, e \in Event : Arrive(i, e)
  \/ Over

Spec == Init /\ [][Next]_vars /\ \A i \in Instance : WF_vars(Step(i))

(* What the log promises.                                                  *)

\* An event of the outbox lane that was enqueued has one row from then on, in the outbox
\* or in audit.event, whatever the drainers of several instances, failed transactions
\* and crashes do (outbox.go:52-54: "each row is moved exactly once and concurrent
\* drainers don't collide"); a row that does not parse is never inserted.
MovedOnce ==
  \A e \in Durable :
    LET rows == table[e] + IF e \in Rows THEN 1 ELSE 0
    IN /\ request[e].at = "sent" /\ e \notin Poison => rows = 1
       /\ request[e].at # "sent" => rows = 0
       /\ e \in Poison => table[e] = 0

\* An event of the other lane is in one place: the channel, the batch, audit.event, or
\* among those a full channel, a failed batch or the end of a process has lost.
Accounted ==
  \A e \in Async : request[e].at = "sent" =>
    table[e] + (IF e \in lost THEN 1 ELSE 0)
      + (IF \E i \in Instance : e \in ToSet(ch[i] \o buf[i]) THEN 1 ELSE 0) = 1

\* When Stop returns in time the channel and the batch are empty: what they held was
\* written (logger.go:111: "Stop flushes the remaining batch and drains the outbox").
StopFlushes == \A i \in Instance : life[i] = "down" => ch[i] = <<>> /\ buf[i] = <<>>

\* No event is sent on the closed channel (logger.go:30-31: "Call Stop only after the
\* HTTP server has drained, so no Log call races the channel close").
NeverOnClosed == ~panicked

\* Rows of the outbox, poisoned ones included, and the events at hand do not stay: the
\* pollers, the ticker and restarted processes get to them (outbox.go:90).
Settles == []<>(Rows = {} /\ \A i \in Instance : ch[i] = <<>> /\ buf[i] = <<>>)

=============================================================================
