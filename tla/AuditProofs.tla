---------------------------- MODULE AuditProofs ----------------------------
(***************************************************************************)
(* Proofs about Audit, for any instances, events and sizes: an enqueued    *)
(* event is moved exactly once, one of the other lane is accounted for,    *)
(* Stop leaves nothing behind, and nothing is sent on a closed channel.    *)
(***************************************************************************)
EXTENDS Audit, SequenceTheorems, FiniteSetTheorems, TLAPS

\* MovedOnce, without its sum.
EachOnce ==
  \A e \in Durable :
    /\ request[e].at = "sent" /\ e \notin Poison =>
         (table[e] = 0 /\ outbox[e] # 0) \/ (table[e] = 1 /\ outbox[e] = 0)
    /\ request[e].at # "sent" => table[e] = 0 /\ outbox[e] = 0
    /\ e \in Poison => table[e] = 0

\* The rows of the open transactions: in the outbox, each in one of them.
RowsHeld ==
  /\ \A i \in Instance : held[i] \subseteq Rows /\ (held[i] # {} => drainer[i] = "moving")
  /\ \A i, j \in Instance : i # j => held[i] \cap held[j] = {}
  /\ \A i \in Instance : life[i] = "down" => drainer[i] = "gone"

Closed(i) == life[i] \in {"stopping", "draining", "down"}

\* Once the channel is closed nobody is left to send on it.
NobodyLeft ==
  \A i \in Instance : Closed(i) =>
    \A e \in Event : ~(request[e].at = "open" /\ request[e].on = i)

\* The writer goes when it has written everything, and Stop waits for it.
WriterLast ==
  \A i \in Instance :
    /\ writer[i] = "waiting" => Len(buf[i]) < BatchSize
    /\ writer[i] \in {"last", "gone"} => ch[i] = <<>> /\ Closed(i)
    /\ writer[i] = "gone" => buf[i] = <<>>
    /\ life[i] \in {"draining", "down"} => writer[i] = "gone"

IInv ==
  TypeOK /\ EachOnce /\ RowsHeld /\ NobodyLeft /\ WriterLast /\ NeverOnClosed

-----------------------------------------------------------------------------
LEMMA InitIInv == Init => IInv
<1> SUFFICES ASSUME Init PROVE IInv
  OBVIOUS
<1> USE SizesAssumption, LanesAssumption, InstanceAssumption DEF Init
<1>1. (CHOOSE i \in Instance : TRUE) \in Instance
  OBVIOUS
<1>2. TypeOK
  <2>1. <<>> \in Seq(Async) /\ Len(<<>>) = 0
    OBVIOUS
  <2>2. /\ \A i \in Instance : ch[i] = <<>> /\ buf[i] = <<>>
        /\ request \in [Event -> [at : {"new"}, on : Instance]]
    BY <1>1
  <2>3. /\ life \in [Instance -> {"up"}] /\ writer \in [Instance -> {"waiting"}]
        /\ drainer \in [Instance -> {"waiting"}] /\ held \in [Instance -> {{}}]
        /\ outbox \in [Durable -> {0}] /\ table \in [Event -> {0}]
    OBVIOUS
  <2>4. /\ held \in [Instance -> SUBSET Durable]
        /\ outbox \in [Durable -> Nat] /\ table \in [Event -> Nat]
        /\ life \in [Instance -> {"up", "shutting", "stopping", "draining", "down"}]
        /\ writer \in [Instance -> {"waiting", "writing", "last", "gone"}]
        /\ drainer \in [Instance -> {"waiting", "again", "moving", "gone"}]
        /\ request \in [Event -> [at : {"new", "open", "sent", "failed", "cut"}, on : Instance]]
    BY <2>2, <2>3
  <2>5. /\ ch \in [Instance -> Seq(Async)] /\ buf \in [Instance -> Seq(Async)]
        /\ \A i \in Instance : Len(ch[i]) <= BufferSize /\ Len(buf[i]) <= BatchSize
    BY <2>1, <2>2
  <2>6. panicked \in BOOLEAN
    BY Zenon
  <2> QED BY <2>4, <2>5, <2>6 DEF TypeOK
<1>3. EachOnce
  BY DEF EachOnce, Event
<1>4. RowsHeld
  BY DEF RowsHeld, Rows
<1>5. NobodyLeft /\ NeverOnClosed
  BY DEF NobodyLeft, NeverOnClosed, Closed
<1>6. WriterLast
  BY DEF WriterLast
<1> QED BY <1>2, <1>3, <1>4, <1>5, <1>6 DEF IInv

(* What a step leaves alone.                                               *)

LEMMA OnceStays ==
  ASSUME EachOnce, UNCHANGED outbox, \A e \in Durable : table'[e] = table[e],
         \A e \in Durable : request'[e].at = "sent" <=> request[e].at = "sent"
  PROVE  EachOnce'
BY DEF EachOnce

LEMMA RowsStay ==
  ASSUME RowsHeld, UNCHANGED <<held, outbox>>,
         \A i \in Instance :
           /\ drainer[i] = "moving" => drainer'[i] = "moving"
           /\ life'[i] = "down" => life[i] = "down"
           /\ drainer[i] = "gone" => drainer'[i] = "gone" \/ life'[i] # "down"
  PROVE  RowsHeld'
BY DEF RowsHeld, Rows

LEMMA NobodyComes ==
  ASSUME NobodyLeft, \A i \in Instance : Closed(i)' => Closed(i),
         \A e \in Event : request'[e].at = "open" => request'[e] = request[e]
  PROVE  NobodyLeft'
BY DEF NobodyLeft

LEMMA WriterStays ==
  ASSUME WriterLast, UNCHANGED <<life, ch, buf, writer>>
  PROVE  WriterLast'
BY DEF WriterLast, Closed

-----------------------------------------------------------------------------
(* The handlers.                                                           *)

LEMMA ArriveKeeps ==
  ASSUME IInv, NEW i \in Instance, NEW e \in Event, Arrive(i, e)
  PROVE  IInv'
<1>1. /\ request' \in [Event -> [at : {"new", "open", "sent", "failed", "cut"}, on : Instance]]
      /\ \A f \in Event : request'[f] = IF f = e THEN [at |-> "open", on |-> i] ELSE request[f]
      /\ request[e].at = "new" /\ life[i] = "up"
  BY DEF IInv, TypeOK, Arrive
<1>2. UNCHANGED <<life, ch, buf, writer, held, drainer, outbox, table, lost, panicked, faults, ends>>
  BY DEF Arrive, process
<1>3. TypeOK'
  BY <1>1, <1>2 DEF IInv, TypeOK
<1>4. EachOnce'
  BY <1>1, <1>2, OnceStays DEF IInv, Event
<1>5. RowsHeld' /\ WriterLast'
  BY <1>2, RowsStay, WriterStays DEF IInv
<1>6. NobodyLeft' /\ NeverOnClosed'
  BY <1>1, <1>2 DEF IInv, NobodyLeft, Closed, NeverOnClosed
<1> QED BY <1>3, <1>4, <1>5, <1>6 DEF IInv

LEMMA LogKeeps ==
  ASSUME IInv, NEW i \in Instance, NEW e \in Event, Log(i, e)
  PROVE  IInv'
<1>1. /\ e \in Async /\ request[e].at = "open" /\ request[e].on = i
      /\ request' \in [Event -> [at : {"new", "open", "sent", "failed", "cut"}, on : Instance]]
      /\ \A f \in Event : f # e => request'[f] = request[f]
      /\ request'[e].at = "sent"
  <2>1. e \in Async /\ request[e] = [at |-> "open", on |-> i] /\ Answer(e, "sent")
    BY DEF Log
  <2>2. request \in [Event -> [at : {"new", "open", "sent", "failed", "cut"}, on : Instance]]
    BY DEF IInv, TypeOK
  <2> QED BY <2>1, <2>2 DEF Answer
<1>2. ~Closed(i)
  BY <1>1 DEF IInv, NobodyLeft
<1>3. /\ panicked' = panicked
      /\ \/ ch' = ch
         \/ ~Full(i) /\ ch' = [ch EXCEPT ![i] = Append(@, e)]
      /\ lost' \in SUBSET Async
  BY <1>1, <1>2 DEF IInv, TypeOK, Log, Closed
<1>4. UNCHANGED <<life, buf, writer, held, drainer, outbox, table, faults, ends>>
  BY DEF Log
<1>5. ch' \in [Instance -> Seq(Async)] /\ \A j \in Instance : Len(ch'[j]) <= BufferSize
  <2>1. CASE ch' = ch
    BY <2>1 DEF IInv, TypeOK
  <2>2. CASE ~Full(i) /\ ch' = [ch EXCEPT ![i] = Append(@, e)]
    BY <1>1, <2>2, SizesAssumption DEF IInv, TypeOK, Full
  <2> QED BY <1>3, <2>1, <2>2
<1>6. TypeOK'
  BY <1>1, <1>3, <1>4, <1>5 DEF IInv, TypeOK
<1>7. EachOnce'
  BY <1>1, <1>4, OnceStays, LanesAssumption DEF IInv, Event
<1>8. RowsHeld'
  BY <1>4, RowsStay DEF IInv
<1>9. NobodyLeft' /\ NeverOnClosed'
  BY <1>1, <1>3, <1>4, NobodyComes DEF IInv, NeverOnClosed, Closed
<1>10. WriterLast'
  <2>1. \A j \in Instance : ch'[j] = ch[j] \/ ~Closed(j)
    BY <1>2, <1>3 DEF IInv, TypeOK
  <2> QED BY <1>4, <2>1 DEF IInv, WriterLast, Closed
<1> QED BY <1>6, <1>7, <1>8, <1>9, <1>10 DEF IInv

LEMMA LogOutboxKeeps ==
  ASSUME IInv, NEW i \in Instance, NEW e \in Event, LogOutbox(i, e)
  PROVE  IInv'
<1>1. /\ e \in Durable /\ request[e].at = "open"
      /\ request' \in [Event -> [at : {"new", "open", "sent", "failed", "cut"}, on : Instance]]
      /\ \A f \in Event : f # e => request'[f] = request[f]
      /\ \/ request'[e].at = "sent" /\ outbox' = [outbox EXCEPT ![e] = NextId] /\ UNCHANGED faults
         \/ request'[e].at = "failed" /\ outbox' = outbox /\ Fault
  <2>1. e \in Durable /\ request[e].at = "open" /\ request \in [Event -> [at : {"new", "open", "sent", "failed", "cut"}, on : Instance]]
    BY DEF IInv, TypeOK, LogOutbox
  <2>2. CASE Answer(e, "sent") /\ outbox' = [outbox EXCEPT ![e] = NextId] /\ UNCHANGED faults
    BY <2>1, <2>2 DEF Answer
  <2>3. CASE Answer(e, "failed") /\ Fault /\ UNCHANGED outbox
    BY <2>1, <2>3 DEF Answer
  <2> QED BY <2>2, <2>3 DEF LogOutbox
<1>2. UNCHANGED <<life, ch, buf, writer, held, drainer, table, lost, panicked, ends>>
  BY DEF LogOutbox, process
<1>3. NextId \in Nat \ {0}
  <2> DEFINE sent == {f \in Durable : request[f].at = "sent"}
  <2>1. sent \subseteq Durable
    OBVIOUS
  <2> HIDE DEF sent
  <2>2. Cardinality(sent) \in Nat
    BY <2>1, FS_Subset, FS_CardinalityType, LanesAssumption
  <2> QED BY <2>2 DEF NextId, sent
<1>4. /\ outbox' \in [Durable -> Nat]
      /\ \A f \in Durable : f # e => outbox'[f] = outbox[f]
      /\ request'[e].at = "sent" => outbox'[e] # 0
      /\ request'[e].at # "sent" => outbox'[e] = outbox[e]
      /\ table[e] = 0 /\ outbox[e] = 0
  <2>1. outbox \in [Durable -> Nat] /\ table[e] = 0 /\ outbox[e] = 0
    BY <1>1 DEF IInv, TypeOK, EachOnce
  <2> QED BY <1>1, <1>3, <2>1
<1>5. faults' \in 0..MaxFaults
  BY <1>1, SizesAssumption DEF IInv, TypeOK, Fault
<1>6. TypeOK'
  BY <1>1, <1>2, <1>4, <1>5 DEF IInv, TypeOK
<1>7. EachOnce'
  <2>1. \A f \in Durable : f # e => request'[f] = request[f] /\ outbox'[f] = outbox[f]
    BY <1>1, <1>4 DEF Event
  <2>2. request'[e].at \in {"sent", "failed"}
    BY <1>1
  <2>3. table' = table /\ EachOnce
    BY <1>2 DEF IInv
  <2> SUFFICES ASSUME NEW f \in Durable
               PROVE  /\ request'[f].at = "sent" /\ f \notin Poison =>
                           (table'[f] = 0 /\ outbox'[f] # 0) \/ (table'[f] = 1 /\ outbox'[f] = 0)
                      /\ request'[f].at # "sent" => table'[f] = 0 /\ outbox'[f] = 0
                      /\ f \in Poison => table'[f] = 0
    BY DEF EachOnce
  <2>4. CASE f = e
    BY <1>4, <2>2, <2>3, <2>4
  <2>5. CASE f # e
    BY <2>1, <2>3, <2>5 DEF EachOnce
  <2> QED BY <2>4, <2>5
<1>8. RowsHeld'
  BY <1>2, <1>4 DEF IInv, RowsHeld, Rows
<1>9. NobodyLeft' /\ WriterLast' /\ NeverOnClosed'
  BY <1>1, <1>2, NobodyComes, WriterStays DEF IInv, NeverOnClosed, Closed
<1> QED BY <1>6, <1>7, <1>8, <1>9 DEF IInv

-----------------------------------------------------------------------------
(* The writer.                                                             *)

LEMMA WriterStep ==
  ASSUME IInv, TypeOK', WriterLast', \A e \in Durable : table'[e] = table[e],
         UNCHANGED <<life, request, held, drainer, outbox, panicked>>
  PROVE  IInv'
<1>1. EachOnce' /\ RowsHeld'
  BY OnceStays, RowsStay DEF IInv
<1>2. NobodyLeft' /\ NeverOnClosed'
  BY NobodyComes DEF IInv, NeverOnClosed, Closed
<1> QED BY <1>1, <1>2 DEF IInv

LEMMA ReceiveKeeps ==
  ASSUME IInv, NEW i \in Instance, Receive(i)
  PROVE  IInv'
<1>1. /\ ch[i] \in Seq(Async) /\ ch[i] # <<>> /\ Len(ch[i]) <= BufferSize
      /\ buf[i] \in Seq(Async) /\ Len(buf[i]) < BatchSize /\ writer[i] = "waiting"
  BY DEF IInv, TypeOK, WriterLast, Receive
<1>2. /\ Tail(ch[i]) \in Seq(Async) /\ Len(Tail(ch[i])) <= BufferSize
      /\ Append(buf[i], Head(ch[i])) \in Seq(Async)
      /\ Len(Append(buf[i], Head(ch[i]))) = Len(buf[i]) + 1
      /\ Len(buf[i]) + 1 <= BatchSize
  BY <1>1, SizesAssumption
<1>3. /\ ch' \in [Instance -> Seq(Async)] /\ buf' \in [Instance -> Seq(Async)]
      /\ \A j \in Instance : j # i => ch'[j] = ch[j] /\ buf'[j] = buf[j] /\ writer'[j] = writer[j]
      /\ ch'[i] = Tail(ch[i]) /\ buf'[i] = Append(buf[i], Head(ch[i]))
      /\ writer' \in [Instance -> {"waiting", "writing", "last", "gone"}]
      /\ writer'[i] = IF Len(buf'[i]) >= BatchSize THEN "writing" ELSE "waiting"
  BY <1>1, <1>2 DEF IInv, TypeOK, Receive
<1>4. UNCHANGED <<life, request, held, drainer, outbox, table, lost, panicked, faults, ends>>
  BY DEF Receive
<1>5. TypeOK'
  BY <1>2, <1>3, <1>4 DEF IInv, TypeOK
<1>6. WriterLast'
  <2>1. writer'[i] = "waiting" => Len(buf'[i]) < BatchSize
    BY <1>1, <1>2, <1>3, SizesAssumption
  <2>2. ~(life[i] \in {"draining", "down"}) /\ writer'[i] \in {"waiting", "writing"}
    BY <1>1, <1>3 DEF IInv, WriterLast
  <2> QED BY <1>3, <1>4, <2>1, <2>2 DEF IInv, WriterLast, Closed
<1> QED BY <1>4, <1>5, <1>6, WriterStep

LEMMA TickKeeps ==
  ASSUME IInv, NEW i \in Instance, Tick(i) \/ Drained(i)
  PROVE  IInv'
<1>1. /\ writer[i] = "waiting"
      /\ writer' \in [Instance -> {"waiting", "writing", "last", "gone"}]
      /\ \A j \in Instance : j # i => writer'[j] = writer[j]
      /\ \/ writer'[i] = "writing"
         \/ /\ life[i] = "stopping" /\ ch[i] = <<>>
            /\ writer'[i] \in {"last", "gone"}
            /\ writer'[i] = "gone" => buf[i] = <<>>
  BY DEF IInv, TypeOK, Tick, Due, Drained, LastWrite
<1>2. UNCHANGED <<life, request, ch, buf, held, drainer, outbox, table, lost, panicked, faults, ends>>
  BY DEF Tick, Drained
<1>3. TypeOK'
  BY <1>1, <1>2 DEF IInv, TypeOK
<1>4. WriterLast'
  BY <1>1, <1>2 DEF IInv, WriterLast, Closed
<1> QED BY <1>2, <1>3, <1>4, WriterStep

LEMMA WriteKeeps ==
  ASSUME IInv, NEW i \in Instance, Write(i)
  PROVE  IInv'
<1>1. /\ writer[i] \in {"writing", "last"}
      /\ writer' \in [Instance -> {"waiting", "writing", "last", "gone"}]
      /\ \A j \in Instance : j # i => writer'[j] = writer[j] /\ buf'[j] = buf[j]
      /\ writer'[i] = IF writer[i] = "last" THEN "gone" ELSE "waiting"
      /\ buf' \in [Instance -> Seq(Async)] /\ buf'[i] = <<>> /\ Len(buf'[i]) = 0
  <2>1. <<>> \in Seq(Async) /\ Len(<<>>) = 0
    OBVIOUS
  <2> QED BY <2>1 DEF IInv, TypeOK, Write
<1>2. UNCHANGED <<life, request, ch, held, drainer, outbox, panicked, ends>>
  BY DEF Write
<1>3. ToSet(buf[i]) \subseteq Async
  BY DEF IInv, TypeOK, ToSet
<1>4. /\ table' \in [Event -> Nat]
      /\ \A e \in Durable : table'[e] = table[e]
      /\ lost' \in SUBSET Async /\ faults' \in 0..MaxFaults
  <2>1. table \in [Event -> Nat] /\ lost \in SUBSET Async /\ faults \in 0..MaxFaults
    BY DEF IInv, TypeOK
  <2>2. CASE /\ table' = [e \in Event |-> table[e] + IF e \in ToSet(buf[i]) THEN 1 ELSE 0]
             /\ UNCHANGED <<lost, faults>>
    BY <1>3, <2>1, <2>2, LanesAssumption DEF Event
  <2>3. CASE lost' = lost \cup ToSet(buf[i]) /\ Fault /\ UNCHANGED table
    BY <1>3, <2>1, <2>3, SizesAssumption DEF Fault
  <2> QED BY <2>2, <2>3 DEF Write
<1>5. TypeOK'
  BY <1>1, <1>2, <1>4, SizesAssumption DEF IInv, TypeOK
<1>6. WriterLast'
  BY <1>1, <1>2, SizesAssumption DEF IInv, WriterLast, Closed
<1> QED BY <1>2, <1>4, <1>5, <1>6, WriterStep

-----------------------------------------------------------------------------
(* The drainers.                                                           *)

LEMMA DoneType ==
  ASSUME IInv, NEW i \in Instance, Done(i)
  PROVE  /\ life' \in [Instance -> {"up", "shutting", "stopping", "draining", "down"}]
         /\ drainer' \in [Instance -> {"waiting", "again", "moving", "gone"}]
         /\ \A j \in Instance : j # i => drainer'[j] = drainer[j]
         /\ \A j \in Instance : life'[j] = life[j] \/ (life[j] = "draining" /\ life'[j] = "down")
         /\ \A j \in Instance : life'[j] # life[j] => drainer'[j] = "gone"
         /\ drainer'[i] = "gone" \/ life'[i] = life[i]
BY DEF IInv, TypeOK, Done

\* The life of an instance moves on, but not past its writer.
LEMMA LifeMoves ==
  ASSUME IInv, UNCHANGED <<request, ch, buf, writer>>,
         \A j \in Instance : life'[j] = life[j] \/ (life[j] = "draining" /\ life'[j] = "down")
  PROVE  NobodyLeft' /\ WriterLast'
<1>1. \A j \in Instance : /\ Closed(j)' <=> Closed(j)
                          /\ life'[j] \in {"draining", "down"} => life[j] \in {"draining", "down"}
  BY DEF Closed
<1>2. NobodyLeft'
  BY <1>1, NobodyComes DEF IInv
<1>3. WriterLast'
  BY <1>1 DEF IInv, WriterLast
<1> QED BY <1>2, <1>3

LEMMA SelectKeeps ==
  ASSUME IInv, NEW i \in Instance, Select(i)
  PROVE  IInv'
<1>1. UNCHANGED <<request, ch, buf, writer, outbox, table, lost, panicked, faults, ends>>
  BY DEF Select
<1>2. held[i] = {} /\ life[i] # "down"
  BY DEF IInv, RowsHeld, Select
<1>3. CASE Batch = {}
  <2>1. Done(i) /\ UNCHANGED held
    BY <1>3 DEF Select
  <2>2. TypeOK'
    BY <1>1, <2>1, DoneType DEF IInv, TypeOK
  <2>3. RowsHeld'
    BY <1>1, <1>2, <2>1, DoneType DEF IInv, RowsHeld, Rows
  <2>4. EachOnce' /\ NobodyLeft' /\ WriterLast' /\ NeverOnClosed'
    BY <1>1, <2>1, DoneType, OnceStays, LifeMoves DEF IInv, NeverOnClosed
  <2> QED BY <2>2, <2>3, <2>4 DEF IInv
<1>4. CASE Batch # {}
  <2>1. /\ held' = [held EXCEPT ![i] = Batch]
        /\ drainer' = [drainer EXCEPT ![i] = "moving"] /\ UNCHANGED life
    BY <1>4 DEF Select
  <2>2. Batch \subseteq Rows \ Locked /\ Rows \subseteq Durable
    BY DEF Batch, Rows
  <2>3. TypeOK'
    <3>1. held \in [Instance -> SUBSET Durable] /\ drainer \in [Instance -> {"waiting", "again", "moving", "gone"}]
      BY DEF IInv, TypeOK
    <3>2. held' \in [Instance -> SUBSET Durable] /\ drainer' \in [Instance -> {"waiting", "again", "moving", "gone"}]
      BY <2>1, <2>2, <3>1
    <3> QED BY <1>1, <2>1, <3>2 DEF IInv, TypeOK
  <2>4. RowsHeld'
    <3>1. /\ \A j \in Instance : j # i => held'[j] = held[j] /\ drainer'[j] = drainer[j]
          /\ held'[i] = Batch /\ drainer'[i] = "moving"
      BY <2>1 DEF IInv, TypeOK
    <3>2. \A j \in Instance : held[j] \cap Batch = {}
      BY <2>2 DEF Locked
    <3>3. Rows' = Rows
      BY <1>1 DEF Rows
    <3> QED BY <1>2, <2>1, <2>2, <3>1, <3>2, <3>3 DEF IInv, RowsHeld
  <2>5. EachOnce' /\ NobodyLeft' /\ WriterLast' /\ NeverOnClosed'
    BY <1>1, <2>1, OnceStays, LifeMoves DEF IInv, NeverOnClosed
  <2> QED BY <2>3, <2>4, <2>5 DEF IInv
<1> QED BY <1>3, <1>4

LEMMA MoveKeeps ==
  ASSUME IInv, NEW i \in Instance, Move(i)
  PROVE  IInv'
<1>1. /\ UNCHANGED <<request, ch, buf, writer, lost, panicked, ends>>
      /\ drainer[i] = "moving" /\ held' = [held EXCEPT ![i] = {}]
  BY DEF Move
<1>2. /\ held' \in [Instance -> SUBSET Durable]
      /\ \A j \in Instance : held'[j] = IF j = i THEN {} ELSE held[j]
  BY <1>1 DEF IInv, TypeOK
<1>3. /\ held[i] \subseteq Rows /\ Rows \subseteq Durable
      /\ outbox \in [Durable -> Nat] /\ table \in [Event -> Nat] /\ faults \in 0..MaxFaults
      /\ \A j \in Instance : j # i => held[j] \cap held[i] = {} /\ held[j] \subseteq Rows
      /\ life \in [Instance -> {"up", "shutting", "stopping", "draining", "down"}]
      /\ drainer \in [Instance -> {"waiting", "again", "moving", "gone"}]
  BY DEF IInv, TypeOK, RowsHeld, Rows
<1>4. /\ life' \in [Instance -> {"up", "shutting", "stopping", "draining", "down"}]
      /\ drainer' \in [Instance -> {"waiting", "again", "moving", "gone"}]
      /\ \A j \in Instance : j # i => drainer'[j] = drainer[j]
      /\ \A j \in Instance : life'[j] = life[j] \/ (life[j] = "draining" /\ life'[j] = "down")
      /\ \A j \in Instance : life'[j] # life[j] => drainer'[j] = "gone"
  <2>1. Done(i) \/ (drainer' = [drainer EXCEPT ![i] = "again"] /\ UNCHANGED life)
    BY DEF Move
  <2>2. CASE Done(i)
    BY <2>2, DoneType
  <2>3. CASE drainer' = [drainer EXCEPT ![i] = "again"] /\ UNCHANGED life
    BY <1>3, <2>3
  <2> QED BY <2>1, <2>2, <2>3
<1>5. NobodyLeft' /\ WriterLast' /\ NeverOnClosed'
  BY <1>1, <1>4, LifeMoves DEF IInv, NeverOnClosed
<1>0. life[i] # "down"
  BY <1>1 DEF IInv, RowsHeld
<1>6. CASE /\ table' = [e \in Event |-> table[e] + IF e \in held[i] \ Poison THEN 1 ELSE 0]
           /\ outbox' = [e \in Durable |-> IF e \in Removed(i) THEN 0 ELSE outbox[e]]
           /\ UNCHANGED faults
  <2>1. /\ table' \in [Event -> Nat] /\ outbox' \in [Durable -> Nat]
        /\ \A e \in Durable :
             /\ outbox'[e] = IF e \in held[i] THEN 0 ELSE outbox[e]
             /\ table'[e] = table[e] + IF e \in held[i] \ Poison THEN 1 ELSE 0
             /\ e \in held[i] => outbox[e] # 0
    BY <1>3, <1>6 DEF Removed, Event, Rows
  <2>2. TypeOK'
    BY <1>1, <1>2, <1>4, <1>6, <2>1 DEF IInv, TypeOK
  <2>3. EachOnce'
    <3> SUFFICES ASSUME NEW e \in Durable
                 PROVE  /\ request[e].at = "sent" /\ e \notin Poison =>
                             (table'[e] = 0 /\ outbox'[e] # 0) \/ (table'[e] = 1 /\ outbox'[e] = 0)
                        /\ request[e].at # "sent" => table'[e] = 0 /\ outbox'[e] = 0
                        /\ e \in Poison => table'[e] = 0
      BY <1>1 DEF EachOnce
    <3>1. CASE e \in held[i]
      BY <2>1, <3>1 DEF IInv, EachOnce
    <3>2. CASE e \notin held[i]
      <4>1. table'[e] = table[e] /\ outbox'[e] = outbox[e]
        BY <1>3, <2>1, <3>2 DEF Event
      <4> QED BY <4>1 DEF IInv, EachOnce
    <3> QED BY <3>1, <3>2
  <2>4. RowsHeld'
    <3>1. \A j \in Instance : held'[j] \subseteq Rows'
      BY <1>2, <1>3, <2>1 DEF Rows
    <3> QED BY <1>0, <1>2, <1>4, <3>1 DEF IInv, RowsHeld
  <2> QED BY <1>5, <2>2, <2>3, <2>4 DEF IInv
<1>7. CASE Done(i) /\ Fault /\ UNCHANGED <<outbox, table>>
  <2>1. TypeOK'
    BY <1>1, <1>2, <1>4, <1>7, SizesAssumption DEF IInv, TypeOK, Fault
  <2>2. EachOnce'
    BY <1>1, <1>7, OnceStays DEF IInv
  <2>3. RowsHeld'
    BY <1>0, <1>2, <1>3, <1>4, <1>7 DEF IInv, RowsHeld, Rows
  <2> QED BY <1>5, <2>1, <2>2, <2>3 DEF IInv
<1> QED BY <1>6, <1>7 DEF Move

LEMMA LeaveLoopKeeps ==
  ASSUME IInv, NEW i \in Instance, LeaveLoop(i)
  PROVE  IInv'
<1>1. UNCHANGED <<life, request, ch, buf, writer, held, outbox, table, lost, panicked, faults, ends>>
  BY DEF LeaveLoop
<1>2. drainer[i] = "waiting" /\ \A j \in Instance : j # i => drainer'[j] = drainer[j]
  BY DEF IInv, TypeOK, LeaveLoop
<1>3. TypeOK'
  BY <1>1 DEF IInv, TypeOK, LeaveLoop
<1>4. RowsHeld'
  BY <1>1, <1>2, RowsStay DEF IInv
<1>5. EachOnce' /\ NobodyLeft' /\ WriterLast' /\ NeverOnClosed'
  BY <1>1, OnceStays, LifeMoves DEF IInv, NeverOnClosed
<1> QED BY <1>3, <1>4, <1>5 DEF IInv

-----------------------------------------------------------------------------
(* Shutdown, Stop and crashes.                                             *)

LEMMA StopKeeps ==
  ASSUME IInv, NEW i \in Instance, Shutdown(i) \/ Stop(i)
  PROVE  IInv'
<1>1. UNCHANGED <<request, ch, buf, writer, held, drainer, outbox, table, lost, panicked, faults>>
  BY DEF Shutdown, Stop
<1>2. /\ life' \in [Instance -> {"up", "shutting", "stopping", "draining", "down"}]
      /\ \A j \in Instance : j # i => life'[j] = life[j]
      /\ life[i] \in {"up", "shutting"}
      /\ life'[i] = "shutting" \/ (life'[i] = "stopping" /\ Open(i) = {})
  BY DEF IInv, TypeOK, Shutdown, Stop, Quiesced
<1>3. ends' \in 0..MaxEnds
  BY SizesAssumption DEF IInv, TypeOK, Shutdown, Stop, End
<1>4. TypeOK'
  BY <1>1, <1>2, <1>3 DEF IInv, TypeOK
<1>5. EachOnce' /\ RowsHeld' /\ NeverOnClosed'
  BY <1>1, <1>2, OnceStays, RowsStay DEF IInv, NeverOnClosed
<1>6. NobodyLeft'
  <2>1. Open(i) = {} => \A e \in Event : ~(request[e].at = "open" /\ request[e].on = i)
    <3> SUFFICES ASSUME NEW e \in Event, request[e].at = "open", request[e].on = i
                 PROVE  request[e] = [at |-> "open", on |-> i]
      BY DEF Open
    <3> QED BY DEF IInv, TypeOK
  <2> QED BY <1>1, <1>2, <2>1 DEF IInv, NobodyLeft, Closed
<1>7. WriterLast'
  BY <1>1, <1>2 DEF IInv, WriterLast, Closed
<1> QED BY <1>4, <1>5, <1>6, <1>7 DEF IInv

LEMMA JoinKeeps ==
  ASSUME IInv, NEW i \in Instance, Join(i)
  PROVE  IInv'
<1>1. UNCHANGED <<request, ch, buf, writer, held, outbox, table, lost, panicked, faults, ends>>
  BY DEF Join
<1>2. /\ life[i] = "stopping" /\ writer[i] = "gone" /\ drainer[i] = "gone"
      /\ \A j \in Instance : j # i => life'[j] = life[j] /\ drainer'[j] = drainer[j]
      /\ life'[i] = "draining"
  BY DEF IInv, TypeOK, Join, Joined
<1>3. TypeOK'
  BY <1>1 DEF IInv, TypeOK, Join
<1>4. EachOnce' /\ RowsHeld' /\ NeverOnClosed'
  BY <1>1, <1>2, OnceStays, RowsStay DEF IInv, NeverOnClosed
<1>5. NobodyLeft' /\ WriterLast'
  BY <1>1, <1>2 DEF IInv, NobodyLeft, WriterLast, Closed
<1> QED BY <1>3, <1>4, <1>5 DEF IInv

LEMMA StartKeeps ==
  ASSUME IInv, NEW i \in Instance, Start(i)
  PROVE  IInv'
<1>1. UNCHANGED <<request, held, outbox, table, lost, panicked, faults, ends>> /\ life[i] = "down"
  BY DEF Start
<1>2. /\ life' \in [Instance -> {"up", "shutting", "stopping", "draining", "down"}]
      /\ drainer' \in [Instance -> {"waiting", "again", "moving", "gone"}]
      /\ writer' \in [Instance -> {"waiting", "writing", "last", "gone"}]
      /\ \A j \in Instance : j # i => /\ life'[j] = life[j] /\ drainer'[j] = drainer[j]
                                     /\ writer'[j] = writer[j] /\ ch'[j] = ch[j] /\ buf'[j] = buf[j]
      /\ life'[i] = "up" /\ writer'[i] = "waiting" /\ drainer'[i] = "waiting"
  BY DEF IInv, TypeOK, Start
<1>3. /\ ch' \in [Instance -> Seq(Async)] /\ buf' \in [Instance -> Seq(Async)]
      /\ ch'[i] = <<>> /\ buf'[i] = <<>> /\ Len(ch'[i]) = 0 /\ Len(buf'[i]) = 0
  <2>1. <<>> \in Seq(Async) /\ Len(<<>>) = 0
    OBVIOUS
  <2> QED BY <2>1 DEF IInv, TypeOK, Start
<1>4. TypeOK'
  <2>1. \A j \in Instance : Len(ch'[j]) <= BufferSize /\ Len(buf'[j]) <= BatchSize
    <3>1. \A j \in Instance : Len(ch[j]) <= BufferSize /\ Len(buf[j]) <= BatchSize
      BY DEF IInv, TypeOK
    <3>2. 0 <= BufferSize /\ 0 <= BatchSize
      BY SizesAssumption
    <3> QED BY <1>2, <1>3, <3>1, <3>2
  <2> QED BY <1>1, <1>2, <1>3, <2>1 DEF IInv, TypeOK
<1>5. held[i] = {} /\ held' = held /\ Rows' = Rows
  BY <1>1 DEF IInv, RowsHeld, Rows
<1>6. RowsHeld'
  BY <1>2, <1>5 DEF IInv, RowsHeld
<1>7. EachOnce' /\ NeverOnClosed'
  BY <1>1, OnceStays DEF IInv, NeverOnClosed
<1>8. NobodyLeft'
  BY <1>1, <1>2 DEF IInv, NobodyLeft, Closed
<1>9. WriterLast'
  <2> SUFFICES ASSUME NEW j \in Instance
               PROVE  /\ writer'[j] = "waiting" => Len(buf'[j]) < BatchSize
                      /\ writer'[j] \in {"last", "gone"} => ch'[j] = <<>> /\ Closed(j)'
                      /\ writer'[j] = "gone" => buf'[j] = <<>>
                      /\ life'[j] \in {"draining", "down"} => writer'[j] = "gone"
    BY DEF WriterLast
  <2>1. CASE j = i
    BY <1>2, <1>3, <2>1, SizesAssumption
  <2>2. CASE j # i
    BY <1>2, <2>2 DEF IInv, WriterLast, Closed
  <2> QED BY <2>1, <2>2
<1> QED BY <1>4, <1>6, <1>7, <1>8, <1>9 DEF IInv

LEMMA CrashKeeps ==
  ASSUME IInv, NEW i \in Instance, Crash(i)
  PROVE  IInv'
<1>1. UNCHANGED <<outbox, table, panicked, faults>> /\ life[i] # "down"
  BY DEF Crash
<1>2. /\ life' \in [Instance -> {"up", "shutting", "stopping", "draining", "down"}]
      /\ drainer' \in [Instance -> {"waiting", "again", "moving", "gone"}]
      /\ writer' \in [Instance -> {"waiting", "writing", "last", "gone"}]
      /\ held' \in [Instance -> SUBSET Durable]
      /\ \A j \in Instance : j # i => /\ life'[j] = life[j] /\ drainer'[j] = drainer[j]
                                     /\ writer'[j] = writer[j] /\ held'[j] = held[j]
                                     /\ ch'[j] = ch[j] /\ buf'[j] = buf[j]
      /\ life'[i] = "down" /\ writer'[i] = "gone" /\ drainer'[i] = "gone" /\ held'[i] = {}
  BY DEF IInv, TypeOK, Crash
<1>3. /\ ch' \in [Instance -> Seq(Async)] /\ buf' \in [Instance -> Seq(Async)]
      /\ ch'[i] = <<>> /\ buf'[i] = <<>> /\ Len(ch'[i]) = 0 /\ Len(buf'[i]) = 0
  <2>1. <<>> \in Seq(Async) /\ Len(<<>>) = 0
    OBVIOUS
  <2> QED BY <2>1 DEF IInv, TypeOK, Crash
<1>4. /\ request' \in [Event -> [at : {"new", "open", "sent", "failed", "cut"}, on : Instance]]
      /\ \A e \in Event : /\ request'[e] = request[e]
                             \/ (request[e].at = "open" /\ request'[e].at = "cut")
                          /\ request'[e].at = "open" => e \notin Open(i)
  <2>1. request \in [Event -> [at : {"new", "open", "sent", "failed", "cut"}, on : Instance]]
    BY DEF IInv, TypeOK
  <2>2. \A e \in Event : request'[e] = IF e \in Open(i) THEN [request[e] EXCEPT !.at = "cut"]
                                                        ELSE request[e]
    BY DEF Crash
  <2>3. \A e \in Open(i) : e \in Event /\ request[e].at = "open"
    BY DEF Open
  <2>4. request' = [e \in Event |-> IF e \in Open(i) THEN [request[e] EXCEPT !.at = "cut"]
                                                    ELSE request[e]]
    BY DEF Crash
  <2>5. \A e \in Open(i) : request'[e] \in [at : {"cut"}, on : Instance]
    BY <2>1, <2>2, <2>3
  <2>6. \A e \in Event \ Open(i) : request'[e] = request[e]
    BY <2>2
  <2> QED BY <2>1, <2>3, <2>4, <2>5, <2>6
<1>5. lost' \in SUBSET Async
  <2>1. ch[i] \o buf[i] \in Seq(Async)
    BY DEF IInv, TypeOK
  <2> QED BY <2>1 DEF IInv, TypeOK, Crash, ToSet
<1>6. TypeOK'
  <2>1. \A j \in Instance : Len(ch'[j]) <= BufferSize /\ Len(buf'[j]) <= BatchSize
    <3>1. \A j \in Instance : Len(ch[j]) <= BufferSize /\ Len(buf[j]) <= BatchSize
      BY DEF IInv, TypeOK
    <3>2. 0 <= BufferSize /\ 0 <= BatchSize
      BY SizesAssumption
    <3> QED BY <1>2, <1>3, <3>1, <3>2
  <2>2. ends' \in 0..MaxEnds
    <3>1. End /\ ends \in 0..MaxEnds
      BY DEF Crash, IInv, TypeOK
    <3> QED BY <3>1, SizesAssumption DEF End
  <2> QED BY <1>1, <1>2, <1>3, <1>4, <1>5, <2>1, <2>2 DEF IInv, TypeOK
<1>7. EachOnce' /\ NeverOnClosed'
  BY <1>1, <1>4, OnceStays DEF IInv, NeverOnClosed, Event
<1>8. RowsHeld'
  <2>1. Rows' = Rows
    BY <1>1 DEF Rows
  <2> QED BY <1>2, <2>1 DEF IInv, RowsHeld
<1>9. NobodyLeft'
  <2> SUFFICES ASSUME NEW j \in Instance, Closed(j)', NEW e \in Event,
                      request'[e].at = "open", request'[e].on = j
               PROVE  FALSE
    BY DEF NobodyLeft
  <2>1. request'[e] = request[e] /\ e \notin Open(i)
    BY <1>4
  <2>2. CASE j = i
    <3>1. request[e] = [at |-> "open", on |-> i]
      BY <2>1, <2>2 DEF IInv, TypeOK
    <3> QED BY <2>1, <3>1 DEF Open
  <2>3. CASE j # i
    BY <1>2, <2>1, <2>3 DEF IInv, NobodyLeft, Closed
  <2> QED BY <2>2, <2>3
<1>10. WriterLast'
  <2> SUFFICES ASSUME NEW j \in Instance
               PROVE  /\ writer'[j] = "waiting" => Len(buf'[j]) < BatchSize
                      /\ writer'[j] \in {"last", "gone"} => ch'[j] = <<>> /\ Closed(j)'
                      /\ writer'[j] = "gone" => buf'[j] = <<>>
                      /\ life'[j] \in {"draining", "down"} => writer'[j] = "gone"
    BY DEF WriterLast
  <2>1. CASE j = i
    BY <1>2, <1>3, <2>1 DEF Closed
  <2>2. CASE j # i
    BY <1>2, <2>2 DEF IInv, WriterLast, Closed
  <2> QED BY <2>1, <2>2
<1> QED BY <1>6, <1>7, <1>8, <1>9, <1>10 DEF IInv

-----------------------------------------------------------------------------
LEMMA NextKeeps == IInv /\ [Next]_vars => IInv'
<1> SUFFICES ASSUME IInv, [Next]_vars PROVE IInv'
  OBVIOUS
<1>1. ASSUME NEW i \in Instance, Step(i) PROVE IInv'
  <2>1. CASE Handler(i)
    BY <2>1, LogKeeps, LogOutboxKeeps DEF Handler
  <2>2. CASE Writer(i)
    BY <2>2, ReceiveKeeps, TickKeeps, WriteKeeps DEF Writer
  <2>3. CASE Drainer(i)
    BY <2>3, SelectKeeps, MoveKeeps, LeaveLoopKeeps DEF Drainer
  <2>4. CASE Main(i)
    BY <2>4, StopKeeps, JoinKeeps, StartKeeps DEF Main
  <2> QED BY <1>1, <2>1, <2>2, <2>3, <2>4 DEF Step
<1>2. ASSUME NEW i \in Instance, Shutdown(i) \/ Crash(i) PROVE IInv'
  BY <1>2, StopKeeps, CrashKeeps
<1>3. ASSUME NEW i \in Instance, NEW e \in Event, Arrive(i, e) PROVE IInv'
  BY <1>3, ArriveKeeps
<1>4. CASE UNCHANGED vars
  <2>1. TypeOK'
    BY <1>4 DEF vars, IInv, TypeOK
  <2>2. WriterLast' /\ \A e \in Durable : table'[e] = table[e]
    BY <1>4, WriterStays DEF vars, IInv
  <2> QED BY <1>4, <2>1, <2>2, WriterStep DEF vars
<1> QED BY <1>1, <1>2, <1>3, <1>4 DEF Next, Over

LEMMA Invariance == Spec => []IInv
BY InitIInv, NextKeeps, PTL DEF Spec

\* Every variable keeps its shape; no channel or batch outgrows its size.
THEOREM TypeCorrect == Spec => []TypeOK
BY Invariance, PTL DEF IInv

\* Whatever drainers, failures and crashes do, an enqueued event has one row.
THEOREM EachMovedOnce == Spec => []MovedOnce
<1>1. IInv => MovedOnce
  <2> SUFFICES ASSUME IInv, NEW e \in Durable
               PROVE  LET rows == table[e] + IF e \in Rows THEN 1 ELSE 0
                      IN /\ request[e].at = "sent" /\ e \notin Poison => rows = 1
                         /\ request[e].at # "sent" => rows = 0
                         /\ e \in Poison => table[e] = 0
    BY DEF MovedOnce
  <2>1. e \in Rows <=> outbox[e] # 0
    BY DEF Rows
  <2> QED BY <2>1 DEF IInv, EachOnce
<1> QED BY <1>1, Invariance, PTL

\* A process that is down has left nothing in its channel or its batch.
THEOREM NothingLeft == Spec => []StopFlushes
<1>1. IInv => StopFlushes
  BY DEF IInv, WriterLast, StopFlushes
<1> QED BY <1>1, Invariance, PTL

\* No request logs once the channel is closed.
THEOREM ClosedIsQuiet == Spec => []NeverOnClosed
BY Invariance, PTL DEF IInv

-----------------------------------------------------------------------------
(* The other lane: where its events are.                                   *)

\* The batch and then the channel are one queue.
Place(i) == {k \in Nat \ {0} : k <= Len(buf[i]) + Len(ch[i])}
EventAt(i, k) == IF k <= Len(buf[i]) THEN buf[i][k] ELSE ch[i][k - Len(buf[i])]

Waiting(e) == \E i \in Instance : \E k \in Place(i) : EventAt(i, k) = e

\* No event is at two places of the queues.
OnePlace ==
  \A i, j \in Instance : \A k \in Place(i), l \in Place(j) :
    EventAt(i, k) = EventAt(j, l) => i = j /\ k = l

\* An event that was sent is written once, lost or waiting; another one is nowhere.
Ledger ==
  \A e \in Async :
    /\ table[e] \in {0, 1}
    /\ request[e].at # "sent" => table[e] = 0 /\ e \notin lost /\ ~Waiting(e)
    /\ request[e].at = "sent" => table[e] = 1 \/ e \in lost \/ Waiting(e)
    /\ Waiting(e) => table[e] = 0 /\ e \notin lost
    /\ e \in lost => table[e] = 0

\* The places of i are those of its batch and those of its channel.
LEMMA Places ==
  ASSUME IInv, NEW i \in Instance
  PROVE  /\ ch[i] \in Seq(Async) /\ buf[i] \in Seq(Async)
         /\ Len(ch[i]) \in Nat /\ Len(buf[i]) \in Nat
         /\ \A k \in 1..Len(buf[i]) : k \in Place(i) /\ EventAt(i, k) = buf[i][k]
         /\ \A k \in 1..Len(ch[i]) : /\ Len(buf[i]) + k \in Place(i)
                                     /\ EventAt(i, Len(buf[i]) + k) = ch[i][k]
         /\ \A k \in Place(i) : \/ k \in 1..Len(buf[i])
                                \/ /\ k - Len(buf[i]) \in 1..Len(ch[i])
                                   /\ EventAt(i, k) = ch[i][k - Len(buf[i])]
<1>1. ch[i] \in Seq(Async) /\ buf[i] \in Seq(Async) /\ Len(ch[i]) \in Nat /\ Len(buf[i]) \in Nat
  BY DEF IInv, TypeOK
<1> DEFINE n == Len(buf[i])
           o == Len(ch[i])
<1>2. n \in Nat /\ o \in Nat /\ Place(i) = {k \in Nat \ {0} : k <= n + o}
  BY <1>1 DEF Place
<1>3. \A k : EventAt(i, k) = IF k <= n THEN buf[i][k] ELSE ch[i][k - n]
  BY DEF EventAt
<1> HIDE DEF n, o
<1>4. \A k \in 1..n : k \in Place(i) /\ EventAt(i, k) = buf[i][k]
  BY <1>2, <1>3
<1>5. \A k \in 1..o : n + k \in Place(i) /\ EventAt(i, n + k) = ch[i][k]
  <2>1. TAKE k \in 1..o
  <2>2. n + k \in Place(i) /\ ~(n + k <= n) /\ (n + k) - n = k
    BY <1>2
  <2>3. QED
    BY <2>2, <1>3
<1>6. \A k \in Place(i) : \/ k \in 1..n
                          \/ k - n \in 1..o /\ EventAt(i, k) = ch[i][k - n]
  <2>1. TAKE k \in Place(i)
  <2>2. k \in Nat \ {0} /\ k <= n + o
    BY <1>2
  <2>3. CASE k <= n
    <3>1. k \in 1..n
      BY <1>2, <2>2, <2>3
    <3>2. QED
      BY <3>1
  <2>4. CASE ~(k <= n)
    <3>1. k - n \in 1..o
      BY <1>2, <2>2, <2>4
    <3>2. QED
      BY <1>3, <2>4, <3>1
  <2>5. QED
    BY <2>3, <2>4
<1>7. QED
  BY <1>1, <1>4, <1>5, <1>6 DEF n, o

\* The first m events of the queue of i leave it, and nothing else moves.
LEMMA Leave ==
  ASSUME OnePlace, NEW i \in Instance, NEW m \in Nat,
         \A j \in Instance : j # i => ch'[j] = ch[j] /\ buf'[j] = buf[j],
         \A k \in Int : k \in Place(i)' <=> k \in Nat \ {0} /\ k + m \in Place(i),
         \A k \in Place(i)' : EventAt(i, k)' = EventAt(i, k + m)
  PROVE  /\ OnePlace'
         /\ \A e : Waiting(e)' <=> Waiting(e) /\ ~\E k \in Place(i) : k <= m /\ EventAt(i, k) = e
<1> DEFINE old(j, k) == IF j = i THEN k + m ELSE k
<1>1. \A j \in Instance : /\ \A k \in Place(j) : k \in Nat
                          /\ \A k \in Place(j)' : k \in Nat
  BY DEF Place
<1>2. ASSUME NEW j \in Instance, NEW k \in Place(j)'
      PROVE  old(j, k) \in Place(j) /\ EventAt(j, k)' = EventAt(j, old(j, k))
  <2>1. CASE j = i
    BY <1>1, <1>2, <2>1
  <2>2. CASE j # i
    BY <1>2, <2>2 DEF Place, EventAt
  <2>3. QED
    BY <2>1, <2>2
<1>3. OnePlace'
  <2>1. SUFFICES ASSUME NEW a \in Instance, NEW b \in Instance,
                        NEW k \in Place(a)', NEW l \in Place(b)',
                        EventAt(a, k)' = EventAt(b, l)'
                 PROVE  a = b /\ k = l
    BY DEF OnePlace
  <2>2. /\ old(a, k) \in Place(a) /\ old(b, l) \in Place(b)
        /\ EventAt(a, old(a, k)) = EventAt(b, old(b, l))
    BY <1>2, <2>1
  <2> HIDE DEF old
  <2>3. a = b /\ old(a, k) = old(b, l)
    BY <2>2 DEF OnePlace
  <2>4. k \in Int /\ l \in Int
    BY <1>1
  <2>5. QED
    BY <2>3, <2>4 DEF old
<1>4. ASSUME NEW e, Waiting(e)'
      PROVE  Waiting(e) /\ ~\E k \in Place(i) : k <= m /\ EventAt(i, k) = e
  <2>1. PICK j \in Instance : \E k \in Place(j)' : EventAt(j, k)' = e
    BY <1>4 DEF Waiting
  <2>2. PICK k \in Place(j)' : EventAt(j, k)' = e
    BY <2>1
  <2>3. old(j, k) \in Place(j) /\ EventAt(j, old(j, k)) = e
    BY <1>2, <2>2
  <2>4. ASSUME NEW l \in Place(i), l <= m, EventAt(i, l) = e PROVE FALSE
    <3>1. j = i /\ old(j, k) = l
      BY <2>3, <2>4 DEF OnePlace
    <3>2. k \in Nat \ {0} /\ k + m = l /\ l \in Int
      BY <1>1, <2>2, <3>1
    <3>3. QED
      BY <2>4, <3>2
  <2>5. QED
    BY <2>3, <2>4 DEF Waiting
<1>5. ASSUME NEW e, Waiting(e), ~\E k \in Place(i) : k <= m /\ EventAt(i, k) = e
      PROVE  Waiting(e)'
  <2>1. PICK j \in Instance : \E k \in Place(j) : EventAt(j, k) = e
    BY <1>5 DEF Waiting
  <2>2. PICK k \in Place(j) : EventAt(j, k) = e
    BY <2>1
  <2>3. CASE j = i
    <3>1. k \in Nat /\ ~(k <= m)
      BY <1>5, <2>2, <2>3 DEF Place
    <3>2. k - m \in Nat \ {0} /\ (k - m) + m = k /\ k - m \in Int
      BY <3>1
    <3>3. k - m \in Place(i)'
      BY <2>2, <2>3, <3>2
    <3>4. EventAt(i, k - m)' = e
      BY <2>2, <2>3, <3>2, <3>3
    <3>5. QED
      BY <3>3, <3>4 DEF Waiting
  <2>4. CASE j # i
    <3>1. k \in Place(j)' /\ EventAt(j, k)' = e
      BY <2>2, <2>4 DEF Place, EventAt
    <3>2. QED
      BY <3>1 DEF Waiting
  <2>5. QED
    BY <2>3, <2>4
<1>6. QED
  BY <1>3, <1>4, <1>5

LEMMA LedgerStays ==
  ASSUME OnePlace, Ledger, UNCHANGED <<ch, buf, lost>>,
         \A e \in Async : table'[e] = table[e],
         \A e \in Async : request'[e].at = "sent" <=> request[e].at = "sent"
  PROVE  OnePlace' /\ Ledger'
<1>1. /\ \A j : Place(j)' = Place(j)
      /\ \A j, k : EventAt(j, k)' = EventAt(j, k)
  BY DEF Place, EventAt
<1>2. OnePlace' /\ \A e : Waiting(e)' <=> Waiting(e)
  BY <1>1 DEF OnePlace, Waiting
<1>3. QED
  BY <1>2 DEF Ledger

\* The handlers of the other lane, and whatever touches no queue.
LEMMA QuietKeepsLedger ==
  ASSUME IInv, OnePlace, Ledger, NEW i \in Instance, NEW e,
         \/ e \in Event /\ (Arrive(i, e) \/ LogOutbox(i, e))
         \/ Tick(i) \/ Drained(i) \/ Select(i) \/ Move(i) \/ LeaveLoop(i)
         \/ Shutdown(i) \/ Stop(i) \/ Join(i)
  PROVE  OnePlace' /\ Ledger'
<1> USE DEF Event
<1>1. UNCHANGED <<ch, buf, lost>>
  BY DEF Arrive, LogOutbox, Tick, Drained, Select, Move, LeaveLoop, Shutdown, Stop, Join, process
<1>2. \A f \in Async : table'[f] = table[f]
  <2>1. CASE Move(i)
    <3>1. held[i] \cap Async = {} /\ table \in [Event -> Nat]
      BY LanesAssumption DEF IInv, TypeOK
    <3>2. \/ UNCHANGED table
          \/ table' = [f \in Event |-> table[f] + IF f \in held[i] \ Poison THEN 1 ELSE 0]
      BY <2>1 DEF Move
    <3>3. QED
      BY <3>1, <3>2
  <2>2. CASE ~Move(i)
    BY <2>2 DEF Arrive, LogOutbox, Tick, Drained, Select, LeaveLoop, Shutdown, Stop, Join
  <2>3. QED
    BY <2>1, <2>2
<1>3. \A f \in Async : request'[f].at = "sent" <=> request[f].at = "sent"
  <2>1. request \in [Event -> [at : {"new", "open", "sent", "failed", "cut"}, on : Instance]]
    BY DEF IInv, TypeOK
  <2>2. CASE e \in Event /\ Arrive(i, e)
    BY <2>1, <2>2 DEF Arrive
  <2>3. CASE e \in Event /\ LogOutbox(i, e)
    <3>1. e \notin Async /\ \A f \in Event : f # e => request'[f] = request[f]
      BY <2>1, <2>3, LanesAssumption DEF LogOutbox, Answer
    <3>2. QED
      BY <3>1
  <2>4. CASE ~(e \in Event /\ (Arrive(i, e) \/ LogOutbox(i, e)))
    BY <2>4 DEF Tick, Drained, Select, Move, LeaveLoop, Shutdown, Stop, Join
  <2>5. QED
    BY <2>2, <2>3, <2>4
<1>4. QED
  BY <1>1, <1>2, <1>3, LedgerStays

\* What is logged goes behind what waits, or is lost.
LEMMA LogKeepsLedger ==
  ASSUME IInv, OnePlace, Ledger, NEW i \in Instance, NEW e \in Event, Log(i, e)
  PROVE  OnePlace' /\ Ledger'
<1>1. /\ e \in Async /\ request[e].at = "open"
      /\ request'[e].at = "sent" /\ \A f \in Event : f # e => request'[f] = request[f]
      /\ UNCHANGED <<buf, table>>
      /\ \/ ch' = ch /\ lost' = lost \cup {e}
         \/ ch' = [ch EXCEPT ![i] = Append(@, e)] /\ lost' = lost
  BY DEF IInv, TypeOK, Log, Answer
<1>2. table[e] = 0 /\ e \notin lost /\ ~Waiting(e)
  BY <1>1 DEF Ledger
<1>3. \A f \in Async : f # e => request'[f] = request[f]
  BY <1>1 DEF Event
<1>4. CASE ch' = ch /\ lost' = lost \cup {e}
  <2>1. /\ \A j : Place(j)' = Place(j)
        /\ \A j, k : EventAt(j, k)' = EventAt(j, k)
    BY <1>1, <1>4 DEF Place, EventAt
  <2>2. OnePlace' /\ \A f : Waiting(f)' <=> Waiting(f)
    BY <2>1 DEF OnePlace, Waiting
  <2>3. QED
    BY <1>1, <1>2, <1>3, <1>4, <2>2 DEF Ledger
<1>5. CASE ch' = [ch EXCEPT ![i] = Append(@, e)] /\ lost' = lost
  <2> DEFINE b == Len(buf[i])
             c == Len(ch[i])
             n == b + c
             new == ch'[i]
  <2>1. /\ ch[i] \in Seq(Async) /\ b \in Nat /\ c \in Nat /\ new = Append(ch[i], e)
        /\ \A j \in Instance : j # i => ch'[j] = ch[j]
    BY <1>5, Places DEF IInv, TypeOK
  <2>2. Len(new) = c + 1 /\ (\A k \in 1..c : new[k] = ch[i][k]) /\ new[c + 1] = e
    <3> HIDE DEF new
    <3>1. QED
      BY <1>1, <2>1, AppendProperties
  <2>3. \A j \in Instance : j # i => /\ Place(j)' = Place(j)
                                     /\ \A k : EventAt(j, k)' = EventAt(j, k)
    BY <1>1, <2>1 DEF Place, EventAt
  <2>4. /\ Place(i) = {k \in Nat \ {0} : k <= n}
        /\ Place(i)' = {k \in Nat \ {0} : k <= b + (c + 1)}
        /\ \A k : EventAt(i, k) = IF k <= b THEN buf[i][k] ELSE ch[i][k - b]
        /\ \A k : EventAt(i, k)' = IF k <= b THEN buf[i][k] ELSE new[k - b]
    BY <1>1, <2>2 DEF Place, EventAt
  <2> HIDE DEF b, c, new
  <2>5. \A k : k = n + 1 => k \in Place(i)' /\ EventAt(i, k)' = e /\ k \notin Place(i)
    <3>1. TAKE k
    <3>2. HAVE k = n + 1
    <3>3. ~(k <= b) /\ k - b = c + 1 /\ k \in Nat \ {0} /\ k <= b + (c + 1) /\ ~(k <= n)
      BY <2>1, <3>2
    <3>4. QED
      BY <2>2, <2>4, <3>3
  <2>6. \A k \in Place(i) : k \in Place(i)' /\ EventAt(i, k)' = EventAt(i, k)
    <3>1. TAKE k \in Place(i)
    <3>2. k \in Nat \ {0} /\ k <= b + c /\ k \in Place(i)'
      BY <2>1, <2>4
    <3>3. CASE k <= b
      BY <2>4, <3>2, <3>3
    <3>4. CASE ~(k <= b)
      <4>1. k - b \in 1..c
        BY <2>1, <3>2, <3>4
      <4>2. QED
        BY <2>2, <2>4, <3>2, <3>4, <4>1
    <3>5. QED
      BY <3>3, <3>4
  <2>7. \A k \in Place(i)' : k \in Place(i) \/ k = n + 1
    BY <2>1, <2>4
  <2> HIDE DEF n
  <2>8. \A j \in Instance : \A k \in Place(j)' :
          \/ k \in Place(j) /\ EventAt(j, k)' = EventAt(j, k)
          \/ j = i /\ k = n + 1 /\ EventAt(j, k)' = e
    <3>1. TAKE j \in Instance
    <3>2. TAKE k \in Place(j)'
    <3>3. CASE j = i
      <4>1. k \in Place(i)'
        BY <3>3
      <4>2. CASE k \in Place(i)
        BY <2>6, <3>3, <4>2
      <4>3. CASE k = n + 1
        BY <2>5, <3>3, <4>3
      <4>4. QED
        BY <2>7, <4>1, <4>2, <4>3
    <3>4. CASE j # i
      BY <2>3, <3>4
    <3>5. QED
      BY <3>3, <3>4
  <2>9. OnePlace'
    BY <1>2, <2>8 DEF OnePlace, Waiting
  <2>10. \A f : Waiting(f)' <=> Waiting(f) \/ f = e
    <3>1. ASSUME NEW f, Waiting(f)' PROVE Waiting(f) \/ f = e
      BY <2>8, <3>1 DEF Waiting
    <3>2. ASSUME NEW f, Waiting(f) PROVE Waiting(f)'
      <4>1. \A j \in Instance : \A k \in Place(j) : k \in Place(j)' /\ EventAt(j, k)' = EventAt(j, k)
        BY <2>3, <2>6
      <4>2. QED
        BY <3>2, <4>1 DEF Waiting
    <3>3. Waiting(e)'
      <4>1. \E k \in Place(i)' : EventAt(i, k)' = e
        BY <2>5
      <4>2. QED
        BY <4>1 DEF Waiting
    <3>4. QED
      BY <3>1, <3>2, <3>3
  <2>11. QED
    BY <1>1, <1>2, <1>3, <1>5, <2>9, <2>10 DEF Ledger
<1>6. QED
  BY <1>1, <1>4, <1>5

\* What the writer receives keeps its place in the queue.
LEMMA ReceiveKeepsLedger ==
  ASSUME IInv, OnePlace, Ledger, NEW i \in Instance, Receive(i)
  PROVE  OnePlace' /\ Ledger'
<1> DEFINE b == Len(buf[i])
           c == Len(ch[i])
           batch == buf'[i]
           rest == ch'[i]
<1>1. /\ ch[i] \in Seq(Async) /\ buf[i] \in Seq(Async) /\ b \in Nat /\ c \in Nat
      /\ ch[i] # <<>> /\ rest = Tail(ch[i]) /\ batch = Append(buf[i], Head(ch[i]))
      /\ \A j \in Instance : j # i => ch'[j] = ch[j] /\ buf'[j] = buf[j]
      /\ UNCHANGED <<request, table, lost>>
  BY Places DEF IInv, TypeOK, Receive
<1>2. /\ Head(ch[i]) = ch[i][1] /\ Head(ch[i]) \in Async
      /\ c # 0 /\ Len(rest) = c - 1 /\ \A k \in 1..Len(rest) : rest[k] = ch[i][k+1]
  <2> HIDE DEF rest
  <2>1. QED
    BY <1>1, HeadTailProperties, EmptySeq
<1>3. /\ Len(batch) = b + 1
      /\ \A k \in 1..b : batch[k] = buf[i][k]
      /\ batch[b + 1] = ch[i][1]
  <2> HIDE DEF batch
  <2>1. QED
    BY <1>1, <1>2, AppendProperties
<1>4. /\ Place(i) = {k \in Nat \ {0} : k <= b + c}
      /\ Place(i)' = {k \in Nat \ {0} : k <= (b + 1) + (c - 1)}
      /\ \A k : EventAt(i, k) = IF k <= b THEN buf[i][k] ELSE ch[i][k - b]
      /\ \A k : EventAt(i, k)' = IF k <= b + 1 THEN batch[k] ELSE rest[k - (b + 1)]
  BY <1>2, <1>3 DEF Place, EventAt
<1> HIDE DEF b, c, batch, rest
<1>5. Place(i)' = Place(i) /\ \A k \in Place(i) : k \in Nat
  BY <1>1, <1>4
<1>6. \A k \in Place(i)' : EventAt(i, k)' = EventAt(i, k + 0)
  <2>1. TAKE k \in Place(i)'
  <2>2. k \in Nat \ {0} /\ k <= b + c /\ k + 0 = k
    BY <1>1, <1>4, <1>5
  <2>3. CASE k <= b
    <3>1. k \in 1..b /\ k <= b + 1
      BY <1>1, <2>2, <2>3
    <3>2. QED
      BY <1>3, <1>4, <2>2, <2>3, <3>1
  <2>4. CASE k = b + 1
    <3>1. k - b = 1 /\ ~(k <= b) /\ k <= b + 1
      BY <1>1, <2>4
    <3>2. QED
      BY <1>3, <1>4, <2>2, <2>4, <3>1
  <2>5. CASE ~(k <= b + 1)
    <3>1. k - (b + 1) \in 1..Len(rest) /\ (k - (b + 1)) + 1 = k - b /\ ~(k <= b)
      BY <1>1, <1>2, <2>2, <2>5
    <3>2. QED
      BY <1>2, <1>4, <2>2, <2>5, <3>1
  <2>6. QED
    BY <1>1, <2>2, <2>3, <2>4, <2>5
<1>7. \A k \in Int : k \in Place(i)' <=> k \in Nat \ {0} /\ k + 0 \in Place(i)
  BY <1>4, <1>5
<1>8. /\ OnePlace'
      /\ \A e : Waiting(e)' <=> Waiting(e) /\ ~\E k \in Place(i) : k <= 0 /\ EventAt(i, k) = e
  BY <1>1, <1>6, <1>7, Leave
<1>9. \A k \in Place(i) : ~(k <= 0)
  BY <1>4
<1>10. QED
  BY <1>1, <1>8, <1>9 DEF Ledger

\* What is in the batch, or in the queue, waits.
LEMMA BatchWaits ==
  ASSUME IInv, NEW i \in Instance
  PROVE  /\ \A e : e \in ToSet(buf[i]) <=> \E k \in Place(i) : k <= Len(buf[i]) /\ EventAt(i, k) = e
         /\ \A e : e \in ToSet(ch[i] \o buf[i]) <=> \E k \in Place(i) : EventAt(i, k) = e
<1>1. /\ ch[i] \in Seq(Async) /\ buf[i] \in Seq(Async)
      /\ Len(ch[i]) \in Nat /\ Len(buf[i]) \in Nat
      /\ DOMAIN ch[i] = 1..Len(ch[i]) /\ DOMAIN buf[i] = 1..Len(buf[i])
  BY Places, LenProperties
<1>2. \A e : e \in ToSet(buf[i]) <=> \E k \in 1..Len(buf[i]) : buf[i][k] = e
  BY <1>1 DEF ToSet
<1>3. \A e : e \in ToSet(ch[i]) <=> \E k \in 1..Len(ch[i]) : ch[i][k] = e
  BY <1>1 DEF ToSet
<1>4. ToSet(ch[i] \o buf[i]) = ToSet(ch[i]) \cup ToSet(buf[i])
  <2>1. \A s \in Seq(Async) : ToSet(s) = Range(s)
    BY DEF ToSet, Range
  <2>2. ch[i] \o buf[i] \in Seq(Async) /\ Range(ch[i] \o buf[i]) = Range(ch[i]) \cup Range(buf[i])
    BY <1>1, ConcatProperties, RangeConcatenation
  <2>3. QED
    BY <1>1, <2>1, <2>2
<1>5. \A e : e \in ToSet(buf[i]) <=> \E k \in Place(i) : k <= Len(buf[i]) /\ EventAt(i, k) = e
  <2>1. \A k \in Place(i) : k <= Len(buf[i]) => k \in 1..Len(buf[i])
    BY <1>1 DEF Place
  <2>2. \A k \in 1..Len(buf[i]) : k \in Place(i) /\ EventAt(i, k) = buf[i][k] /\ k <= Len(buf[i])
    BY <1>1, Places
  <2>3. QED
    BY <1>2, <2>1, <2>2
<1>6. ASSUME NEW e, e \in ToSet(ch[i] \o buf[i]) PROVE \E k \in Place(i) : EventAt(i, k) = e
  <2>1. CASE e \in ToSet(buf[i])
    BY <1>5, <2>1
  <2>2. CASE e \in ToSet(ch[i])
    BY <1>3, <2>2, Places
  <2>3. QED
    BY <1>4, <1>6, <2>1, <2>2
<1>7. ASSUME NEW e, NEW k \in Place(i), EventAt(i, k) = e PROVE e \in ToSet(ch[i] \o buf[i])
  <2>1. \/ k \in 1..Len(buf[i])
        \/ k - Len(buf[i]) \in 1..Len(ch[i]) /\ EventAt(i, k) = ch[i][k - Len(buf[i])]
    BY Places
  <2>2. CASE k \in 1..Len(buf[i])
    BY <1>2, <1>4, <1>7, <2>2, Places
  <2>3. CASE k - Len(buf[i]) \in 1..Len(ch[i]) /\ EventAt(i, k) = ch[i][k - Len(buf[i])]
    BY <1>3, <1>4, <1>7, <2>3
  <2>4. QED
    BY <2>1, <2>2, <2>3
<1>8. QED
  BY <1>5, <1>6, <1>7

\* The batch leaves the queue: into the table, or lost.
LEMMA WriteKeepsLedger ==
  ASSUME IInv, OnePlace, Ledger, NEW i \in Instance, Write(i)
  PROVE  OnePlace' /\ Ledger'
<1> DEFINE b == Len(buf[i])
           c == Len(ch[i])
           batch == buf'[i]
<1>1. /\ b \in Nat /\ c \in Nat /\ batch = <<>> /\ Len(batch) = 0
      /\ ch' = ch /\ (\A j \in Instance : j # i => buf'[j] = buf[j])
      /\ UNCHANGED request
      /\ table \in [Event -> Nat]
  BY Places DEF IInv, TypeOK, Write
<1>2. /\ Place(i) = {k \in Nat \ {0} : k <= b + c}
      /\ Place(i)' = {k \in Nat \ {0} : k <= 0 + c}
      /\ \A k : EventAt(i, k) = IF k <= b THEN buf[i][k] ELSE ch[i][k - b]
      /\ \A k : EventAt(i, k)' = IF k <= 0 THEN batch[k] ELSE ch[i][k - 0]
  BY <1>1 DEF Place, EventAt
<1>3. \A e : e \in ToSet(buf[i]) <=> \E k \in Place(i) : k <= b /\ EventAt(i, k) = e
  BY BatchWaits
<1> HIDE DEF b, c, batch
<1>4. \A k \in Int : k \in Place(i)' <=> k \in Nat \ {0} /\ k + b \in Place(i)
  BY <1>1, <1>2
<1>5. \A k \in Place(i)' : EventAt(i, k)' = EventAt(i, k + b)
  <2>1. TAKE k \in Place(i)'
  <2>2. ~(k <= 0) /\ k - 0 = k /\ ~(k + b <= b) /\ (k + b) - b = k
    BY <1>1, <1>2
  <2>3. QED
    BY <1>2, <2>2
<1>6. OnePlace' /\ \A e : Waiting(e)' <=> Waiting(e) /\ e \notin ToSet(buf[i])
  BY <1>1, <1>3, <1>4, <1>5, Leave
<1>7. \A e : e \in ToSet(buf[i]) => Waiting(e)
  BY <1>3 DEF Waiting
<1>8. CASE /\ table' = [e \in Event |-> table[e] + IF e \in ToSet(buf[i]) THEN 1 ELSE 0]
           /\ UNCHANGED lost
  <2>1. \A e \in Async : table'[e] = IF e \in ToSet(buf[i]) THEN 1 ELSE table[e]
    <3>1. \A e \in Async : e \in Event /\ table[e] \in Nat /\ (e \in ToSet(buf[i]) => table[e] = 0)
      BY <1>1, <1>7 DEF Event, Ledger
    <3>2. QED
      BY <1>8, <3>1
  <2>2. QED
    BY <1>1, <1>6, <1>7, <1>8, <2>1 DEF Ledger
<1>9. CASE lost' = lost \cup ToSet(buf[i]) /\ UNCHANGED table
  BY <1>1, <1>6, <1>7, <1>9 DEF Ledger
<1>10. QED
  BY <1>6, <1>8, <1>9 DEF Write

\* A process that ends loses its queue.
LEMMA CrashKeepsLedger ==
  ASSUME IInv, OnePlace, Ledger, NEW i \in Instance, Crash(i)
  PROVE  OnePlace' /\ Ledger'
<1> DEFINE m == Len(buf[i]) + Len(ch[i])
<1>1. /\ m \in Nat
      /\ ch'[i] = <<>> /\ buf'[i] = <<>> /\ Len(ch'[i]) = 0 /\ Len(buf'[i]) = 0
      /\ \A j \in Instance : j # i => ch'[j] = ch[j] /\ buf'[j] = buf[j]
      /\ lost' = lost \cup ToSet(ch[i] \o buf[i])
      /\ UNCHANGED table
  <2>1. Len(buf[i]) \in Nat /\ Len(ch[i]) \in Nat
    BY Places
  <2>2. QED
    BY <2>1 DEF IInv, TypeOK, Crash
<1>2. Place(i) = {k \in Nat \ {0} : k <= m} /\ Place(i)' = {}
  BY <1>1 DEF Place
<1> HIDE DEF m
<1>3. \A k \in Int : k \in Place(i)' <=> k \in Nat \ {0} /\ k + m \in Place(i)
  BY <1>1, <1>2
<1>4. \A k \in Place(i)' : EventAt(i, k)' = EventAt(i, k + m)
  BY <1>2
<1>5. /\ OnePlace'
      /\ \A e : Waiting(e)' <=> Waiting(e) /\ ~\E k \in Place(i) : k <= m /\ EventAt(i, k) = e
  BY <1>1, <1>3, <1>4, Leave
<1>6. \A e : e \in ToSet(ch[i] \o buf[i]) <=> \E k \in Place(i) : k <= m /\ EventAt(i, k) = e
  BY <1>2, BatchWaits
<1>7. \A e : e \in ToSet(ch[i] \o buf[i]) => Waiting(e)
  BY <1>6 DEF Waiting
<1>8. \A e \in Async : request'[e].at = "sent" <=> request[e].at = "sent"
  <2>1. TAKE e \in Async
  <2>2. /\ request \in [Event -> [at : {"new", "open", "sent", "failed", "cut"}, on : Instance]]
        /\ e \in Event
        /\ request'[e] = IF e \in Open(i) THEN [request[e] EXCEPT !.at = "cut"] ELSE request[e]
    BY DEF IInv, TypeOK, Crash, Event
  <2>3. e \in Open(i) => request[e].at = "open" /\ request'[e].at = "cut"
    BY <2>2 DEF Open
  <2>4. QED
    BY <2>2, <2>3
<1>9. QED
  BY <1>1, <1>5, <1>6, <1>7, <1>8 DEF Ledger

\* It comes back with empty queues, as it had when it was down.
LEMMA StartKeepsLedger ==
  ASSUME IInv, OnePlace, Ledger, NEW i \in Instance, Start(i)
  PROVE  OnePlace' /\ Ledger'
<1>1. ch[i] = <<>> /\ buf[i] = <<>>
  BY DEF IInv, WriterLast, Start
<1>2. UNCHANGED <<ch, buf, lost, table, request>>
  BY <1>1 DEF IInv, TypeOK, Start
<1>3. QED
  BY <1>2, LedgerStays

LEMMA NextKeepsLedger == IInv /\ OnePlace /\ Ledger /\ [Next]_vars => OnePlace' /\ Ledger'
<1> SUFFICES ASSUME IInv, OnePlace, Ledger, [Next]_vars PROVE OnePlace' /\ Ledger'
  OBVIOUS
<1>1. ASSUME NEW i \in Instance, Step(i) \/ Shutdown(i) \/ Crash(i) PROVE OnePlace' /\ Ledger'
  <2>1. CASE Handler(i)
    BY <2>1, LogKeepsLedger, QuietKeepsLedger DEF Handler
  <2>2. CASE Receive(i) \/ Write(i) \/ Start(i) \/ Crash(i)
    BY <2>2, ReceiveKeepsLedger, WriteKeepsLedger, StartKeepsLedger, CrashKeepsLedger
  <2>3. CASE \/ Tick(i) \/ Drained(i) \/ Drainer(i) \/ Stop(i) \/ Join(i) \/ Shutdown(i)
    BY <2>3, QuietKeepsLedger DEF Drainer
  <2>4. QED
    BY <1>1, <2>1, <2>2, <2>3 DEF Step, Writer, Main
<1>2. ASSUME NEW i \in Instance, NEW e \in Event, Arrive(i, e) PROVE OnePlace' /\ Ledger'
  BY <1>2, QuietKeepsLedger
<1>3. CASE UNCHANGED vars
  BY <1>3, LedgerStays DEF vars
<1>4. QED
  BY <1>1, <1>2, <1>3 DEF Next, Over

\* Every event of the lane of queries and sign-ins that was logged is accounted for: it
\* waits in one queue, or is in the table once, or was lost to a full channel, a failed
\* batch or the end of a process, and never two of these.
THEOREM EachAccounted == Spec => []Accounted
<1>1. Init => OnePlace /\ Ledger
  <2>1. SUFFICES ASSUME Init PROVE OnePlace /\ Ledger
    OBVIOUS
  <2>2. \A i \in Instance : Place(i) = {}
    <3>1. TAKE i \in Instance
    <3>2. ch[i] = <<>> /\ buf[i] = <<>>
      BY <2>1 DEF Init
    <3>3. Place(i) = {k \in Nat \ {0} : k <= 0 + 0}
      <4>1. Len(ch[i]) = 0 /\ Len(buf[i]) = 0
        BY <3>2
      <4>2. QED
        BY <4>1, Zenon DEF Place
    <3>4. QED
      BY <3>3
  <2>3. \A e \in Async : table[e] = 0 /\ request[e].at = "new" /\ lost = {}
    BY <2>1 DEF Init, Event
  <2>4. QED
    BY <2>2, <2>3 DEF OnePlace, Ledger, Waiting
<1>2. IInv /\ Ledger => Accounted
  <2>1. SUFFICES ASSUME IInv, Ledger, NEW e \in Async, request[e].at = "sent"
                 PROVE  table[e] + (IF e \in lost THEN 1 ELSE 0)
                          + (IF \E i \in Instance : e \in ToSet(ch[i] \o buf[i]) THEN 1 ELSE 0) = 1
    BY DEF Accounted
  <2>2. Waiting(e) <=> \E i \in Instance : e \in ToSet(ch[i] \o buf[i])
    BY <2>1, BatchWaits DEF Waiting
  <2>3. /\ table[e] \in {0, 1}
        /\ table[e] = 1 \/ e \in lost \/ Waiting(e)
        /\ Waiting(e) => table[e] = 0 /\ e \notin lost
        /\ e \in lost => table[e] = 0
    BY <2>1 DEF Ledger
  <2>4. QED
    BY <2>2, <2>3
<1>3. QED
  BY <1>1, <1>2, Invariance, NextKeepsLedger, PTL DEF Spec

=============================================================================
