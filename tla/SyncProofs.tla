----------------------------- MODULE SyncProofs -----------------------------
(***************************************************************************)
(* Proofs about Sync, for every set of devices, rounds, rows and fields    *)
(* and every bound, whatever overlaps: the type invariant, that only       *)
(* handled commits leave a queue, that no edit of a denied device spreads, *)
(* that a write is undone only by a request that had fetched the row       *)
(* before it, and that a device shows the rows its watermark covers as the *)
(* server has them, apart from those that PulledExact names.               *)
(*                                                                         *)
(* The first inductive invariant, IInv, follows a value on its way: what a *)
(* device edits and queues is its own; what the server's rows hold, and so *)
(* what it answers, comes from devices that may write; what a device shows *)
(* is one or the other.  The others rest on it.                            *)
(***************************************************************************)
EXTENDS Sync, FiniteSetTheorems, TLAPS

\* Every value of val is an edit of device c.
By(auth, c, val) ==
  \A f \in Field : val[f] # 0 => val[f] \in 1..Len(auth) /\ auth[val[f]] = c

\* Every value of val is an edit of a device that may write.
Clean(auth, val) ==
  \A f \in Field : val[f] # 0 => val[f] \in 1..Len(auth) /\ auth[val[f]] \notin Denied

\* Every value of val is an edit device c may show.
Shown(auth, c, val) ==
  \A f \in Field :
    val[f] # 0 => /\ val[f] \in 1..Len(auth)
                  /\ auth[val[f]] \in Denied => auth[val[f]] = c

GoodRow(auth, r) == r \in Row /\ Clean(auth, r.val)
GoodLocal(auth, c, l) == l \in LocalRow /\ Shown(auth, c, l.val)
GoodEdit(auth, c, e) == e \in Edit /\ By(auth, c, e.payload)
GoodQueue(auth, c, queue) ==
  /\ queue \subseteq Commit
  /\ IsFiniteSet(queue)
  /\ \A m \in queue : By(auth, c, m.payload)
GoodRound(auth, done, c, r) ==
  /\ r \in Round
  /\ GoodQueue(auth, c, r.todo)
  /\ Cardinality(r.todo) <= BatchSize
  /\ r.phase = "fetched" => c \notin Denied
  /\ r.confirmed \subseteq {h[1] : h \in done}
  /\ GoodRow(auth, r.fetched)
  /\ \A o \in Object : GoodRow(auth, r.restored[o]) /\ GoodRow(auth, r.changes[o])

PlainInv ==
  /\ clock \in Time
  /\ author \in Seq(Client)
  /\ born \in SUBSET Object
  /\ lastPulled \in [Client -> Time \cup {NeverPulled}]
  /\ losses \in 0..MaxLosses
  /\ handled \in SUBSET (EditId \X Time)
  /\ refused \in SUBSET Refusal
  /\ touched \in [Client -> SUBSET Object]
  /\ crossed \in [Client -> SUBSET Object]
RowsInv   == row \in [Object -> Row] /\ \A o \in Object : GoodRow(author, row[o])
LocalsInv == /\ local \in [Client -> [Object -> LocalRow]]
             /\ \A c \in Client, o \in Object : GoodLocal(author, c, local[c][o])
QueuesInv == /\ pending \in [Client -> SUBSET Commit]
             /\ \A c \in Client : GoodQueue(author, c, pending[c])
EditsInv  == /\ editing \in [Client -> Edit]
             /\ \A c \in Client : GoodEdit(author, c, editing[c])
RoundsInv == /\ round \in [Client -> [Slot -> Round]]
             /\ \A c \in Client, s \in Slot : GoodRound(author, handled, c, round[c][s])

IInv == PlainInv /\ RowsInv /\ LocalsInv /\ QueuesInv /\ EditsInv /\ RoundsInv

-----------------------------------------------------------------------------
(* Values on their way.                                                    *)

\* A value keeps its author when another edit is made.
LEMMA EarlierEditsStay ==
  ASSUME NEW auth \in Seq(Client), NEW d \in Client,
         NEW v \in 1..Len(auth)
  PROVE  /\ v \in 1..Len(Append(auth, d))
         /\ Append(auth, d)[v] = auth[v]
  OBVIOUS

\* The predicates on values survive another edit.
LEMMA ValuesStay ==
  ASSUME NEW auth \in Seq(Client), NEW d \in Client, NEW c \in Client, NEW val
  PROVE  /\ By(auth, c, val) => By(Append(auth, d), c, val)
         /\ Clean(auth, val) => Clean(Append(auth, d), val)
         /\ Shown(auth, c, val) => Shown(Append(auth, d), c, val)
  BY EarlierEditsStay DEF By, Clean, Shown

\* Merge takes every value from one of the two payloads.
LEMMA MergeValues ==
  ASSUME NEW auth, NEW c \in Client, NEW old \in Fields, NEW new \in Fields
  PROVE  /\ Merge(old, new) \in Fields
         /\ By(auth, c, old) /\ By(auth, c, new) => By(auth, c, Merge(old, new))
         /\ Clean(auth, old) /\ Clean(auth, new) => Clean(auth, Merge(old, new))
  BY DEF Merge, Fields, Value, By, Clean

\* What a device that may write edits is clean, and it may show its own edits.
LEMMA OwnValues ==
  ASSUME NEW auth, NEW c \in Client, NEW val, By(auth, c, val)
  PROVE  /\ c \notin Denied => Clean(auth, val)
         /\ Shown(auth, c, val)
  BY DEF By, Clean, Shown

\* A row the server holds can be shown by every device.
LEMMA ReceivedIsGood ==
  ASSUME NEW auth, NEW c \in Client, NEW r, GoodRow(auth, r)
  PROVE  GoodLocal(auth, c, Received(r))
  BY DEF GoodRow, GoodLocal, Received, Row, LocalRow, NoLocal, Blank, Fields, Value,
         Clean, Shown

LEMMA BlankIsGood ==
  ASSUME NEW auth, NEW c \in Client
  PROVE  /\ Blank \in Fields
         /\ By(auth, c, Blank) /\ Clean(auth, Blank) /\ Shown(auth, c, Blank)
  BY DEF Blank, Fields, Value, By, Clean, Shown

LEMMA NoRowIsGood == ASSUME NEW auth PROVE GoodRow(auth, NoRow)
  BY DEF GoodRow, NoRow, Row, Blank, Fields, Value, Time, Clean

LEMMA IdleRoundIsGood ==
  ASSUME NEW auth, NEW done, NEW c \in Client
  PROVE  GoodRound(auth, done, c, IdleRound)
<1>1. IdleRound \in Round
  BY NoRowIsGood DEF IdleRound, Round, Phase, GoodRow, Time, NeverPulled
<1>2. GoodQueue(auth, c, {}) /\ Cardinality({}) <= BatchSize
  BY FS_EmptySet, BoundAssumption DEF GoodQueue
<1> QED BY <1>1, <1>2, NoRowIsGood DEF GoodRound, IdleRound

\* A batch, and what is left of it, is a good queue no larger than BatchSize.
LEMMA BatchIsGood ==
  ASSUME NEW auth, NEW c \in Client, NEW queue, GoodQueue(auth, c, queue),
         NEW batch, IsBatch(batch, queue)
  PROVE  GoodQueue(auth, c, batch) /\ Cardinality(batch) <= BatchSize
<1>1. GoodQueue(auth, c, batch)
  BY FS_Subset DEF GoodQueue, IsBatch
<1>2. Cardinality(queue) \in Nat
  BY FS_CardinalityType DEF GoodQueue
<1>3. Cardinality(batch) <= BatchSize
  BY <1>2, BoundAssumption DEF IsBatch
<1> QED BY <1>1, <1>3

LEMMA RestIsGood ==
  ASSUME NEW auth, NEW c \in Client, NEW queue, GoodQueue(auth, c, queue),
         Cardinality(queue) <= BatchSize, NEW m
  PROVE  GoodQueue(auth, c, queue \ {m}) /\ Cardinality(queue \ {m}) <= BatchSize
<1>1. IsFiniteSet(queue)
  BY DEF GoodQueue
<1>2. IsFiniteSet(queue \ {m}) /\ Cardinality(queue \ {m}) <= Cardinality(queue)
  BY <1>1, FS_Subset, queue \ {m} \subseteq queue
<1>3. Cardinality(queue) \in Nat /\ Cardinality(queue \ {m}) \in Nat
  BY <1>1, <1>2, FS_CardinalityType
<1>4. Cardinality(queue \ {m}) <= BatchSize
  BY <1>2, <1>3, BoundAssumption
<1> QED BY <1>2, <1>4 DEF GoodQueue

-----------------------------------------------------------------------------
(* The round of one slot.                                                  *)

\* Replacing one round by a good one keeps every round good.
LEMMA SetRoundKeeps ==
  ASSUME RoundsInv, NEW c \in Client, NEW s \in Slot, NEW r,
         GoodRound(author, handled', c, r), SetRound(c, s, r),
         author' = author, handled \subseteq handled'
  PROVE  RoundsInv'
<1>1. round' \in [Client -> [Slot -> Round]]
  BY DEF RoundsInv, SetRound, GoodRound
<1>2. ASSUME NEW d \in Client, NEW t \in Slot
      PROVE  GoodRound(author', handled', d, round'[d][t])
  <2>1. CASE d = c /\ t = s
    <3>1. round'[d][t] = r
      BY <2>1 DEF RoundsInv, SetRound
    <3> QED BY <2>1, <3>1
  <2>2. CASE ~(d = c /\ t = s)
    <3>1. round'[d][t] = round[d][t]
      BY <2>2 DEF RoundsInv, SetRound
    <3>2. GoodRound(author, handled, d, round[d][t])
      BY DEF RoundsInv
    <3>3. {h[1] : h \in handled} \subseteq {h[1] : h \in handled'}
      OBVIOUS
    <3> QED BY <3>1, <3>2, <3>3 DEF GoodRound
  <2> QED BY <2>1, <2>2
<1> QED BY <1>1, <1>2 DEF RoundsInv

\* A commit taken from a request and refused.
LEMMA RestoreIsGood ==
  ASSUME NEW auth, NEW done, NEW c \in Client, NEW r, GoodRound(auth, done, c, r),
         NEW m \in r.todo, NEW current, GoodRow(auth, current)
  PROVE  GoodRound(auth, done, c, Restore(r, m, current))
<1>1. m \in Commit /\ m.obj \in Object
  BY DEF GoodRound, GoodQueue, Commit
<1>2. GoodQueue(auth, c, r.todo \ {m}) /\ Cardinality(r.todo \ {m}) <= BatchSize
  BY RestIsGood DEF GoodRound
<1>3. r.todo \ {m} \subseteq Commit /\ current \in Row
  BY <1>2 DEF GoodQueue, GoodRow
<1>4. r.restored \in [Object -> Row]
  BY DEF GoodRound, Round
<1>5. Restore(r, m, current) \in Round
  BY <1>1, <1>3, <1>4 DEF Restore, GoodRound, Round
<1>6. ASSUME NEW o \in Object
      PROVE  GoodRow(auth, Restore(r, m, current).restored[o])
  BY <1>1, <1>4 DEF Restore, GoodRound, Round
<1> QED BY <1>2, <1>5, <1>6 DEF Restore, GoodRound, Round

\* A commit taken from a request and confirmed, with or without a write.
LEMMA ConfirmIsGood ==
  ASSUME NEW auth, NEW done, NEW c \in Client, NEW r, GoodRound(auth, done, c, r),
         NEW m \in r.todo
  PROVE  LET done2 == done \cup {<<m.id, m.at>>}
         IN  /\ GoodRound(auth, done2, c, Confirm(r, m))
             /\ GoodRound(auth, done2, c, Drop(r, m))
<1> DEFINE done2 == done \cup {<<m.id, m.at>>}
<1>1. m \in Commit /\ m.obj \in Object /\ m.id \in EditId
  BY DEF GoodRound, GoodQueue, Commit
<1>2. GoodQueue(auth, c, r.todo \ {m}) /\ Cardinality(r.todo \ {m}) <= BatchSize
  BY RestIsGood DEF GoodRound
<1>3. r.todo \ {m} \subseteq Commit
  BY <1>2 DEF GoodQueue
<1>4. Confirm(r, m) \in Round /\ Drop(r, m) \in Round
  BY <1>1, <1>3, NoRowIsGood DEF Confirm, Drop, GoodRound, GoodRow, Round, Phase
<1>5. <<m.id, m.at>>[1] \in {h[1] : h \in done2}
  OBVIOUS
<1>6. r.confirmed \cup {m.id} \subseteq {h[1] : h \in done2}
  BY <1>5 DEF GoodRound
<1>7. GoodRound(auth, done2, c, Confirm(r, m))
  BY <1>2, <1>4, <1>6, NoRowIsGood DEF Confirm, GoodRound, Round
<1>8. GoodRound(auth, done2, c, Drop(r, m))
  BY <1>2, <1>4, <1>6 DEF Drop, GoodRound, Round
<1> QED BY <1>7, <1>8

\* A round that has just been sent.
LEMMA SentIsGood ==
  ASSUME NEW auth, NEW done, NEW c \in Client,
         NEW batch, GoodQueue(auth, c, batch), Cardinality(batch) <= BatchSize,
         NEW since \in Time \cup {NeverPulled}, NEW full \in BOOLEAN
  PROVE  GoodRound(auth, done, c,
           [IdleRound EXCEPT !.phase = "sent", !.todo = batch, !.since = since, !.full = full])
<1>1. IdleRound \in Round /\ GoodRound(auth, done, c, IdleRound)
  BY IdleRoundIsGood DEF GoodRound
<1> QED BY <1>1 DEF GoodRound, GoodQueue, IdleRound, Round, Phase

-----------------------------------------------------------------------------
(* Every action keeps the invariant.                                       *)

LEMMA InitGood == Init => IInv
<1> SUFFICES ASSUME Init PROVE IInv
  OBVIOUS
<1> USE DEF Init
<1>1. FirstRow \in Row /\ \A auth : GoodRow(auth, FirstRow) /\ GoodRow(auth, NoRow)
  BY NoRowIsGood DEF FirstRow, NoRow, GoodRow, Row
<1>2. \A c \in Client : GoodLocal(author, c, NoLocal) /\ GoodLocal(author, c, Received(FirstRow))
  BY <1>1, ReceivedIsGood, BlankIsGood DEF NoLocal, GoodLocal, LocalRow
<1>3. PlainInv
  BY ExistingAssumption, BoundAssumption DEF PlainInv, Time, NeverPulled
<1>4. RowsInv
  BY <1>1, NoRowIsGood DEF RowsInv, GoodRow
<1>5. LocalsInv
  BY <1>2 DEF LocalsInv, GoodLocal
<1>6. QueuesInv
  BY FS_EmptySet DEF QueuesInv, GoodQueue
<1>7. NoEdit \in Edit
  <2>1. (CHOOSE o \in Object : TRUE) \in Object
    BY ObjectAssumption
  <2>2. Blank \in Fields
    BY DEF Blank, Fields, Value
  <2> QED BY <2>1, <2>2 DEF NoEdit, Edit, EditId
<1>8. EditsInv
  BY <1>7, BlankIsGood DEF EditsInv, GoodEdit, NoEdit
<1>9. RoundsInv
  BY IdleRoundIsGood DEF RoundsInv, GoodRound
<1> QED BY <1>3, <1>4, <1>5, <1>6, <1>8, <1>9 DEF IInv

\* An edit adds itself to author and leaves every earlier value as it is.
LEMMA EditKeeps ==
  ASSUME IInv, NEW c \in Client, NEW op \in {"insert", "update", "delete"},
         NEW o \in Object, NEW payload \in Fields, NEW new \in LocalRow,
         StartEdit(c, op, o, payload, new), born' \in SUBSET Object,
         By(author', c, payload), Shown(author', c, new.val)
  PROVE  IInv'
<1> USE DEF IInv
<1>1. author \in Seq(Client) /\ author' = Append(author, c) /\ author' \in Seq(Client)
  BY DEF PlainInv, StartEdit
<1>2. \A d \in Client : \A val :
        /\ By(author, d, val) => By(author', d, val)
        /\ Clean(author, val) => Clean(author', val)
        /\ Shown(author, d, val) => Shown(author', d, val)
  BY <1>1, ValuesStay
<1>3. PlainInv'
  BY <1>1 DEF PlainInv, StartEdit
<1>4. \A r : GoodRow(author, r) => GoodRow(author', r)
  BY <1>2 DEF GoodRow
<1>5. \A d \in Client : \A queue : GoodQueue(author, d, queue) => GoodQueue(author', d, queue)
  BY <1>2 DEF GoodQueue
<1>6. RowsInv'
  BY <1>4 DEF RowsInv, StartEdit
<1>7. LocalsInv'
  <2>1. local' \in [Client -> [Object -> LocalRow]]
    BY DEF LocalsInv, StartEdit
  <2>2. ASSUME NEW d \in Client, NEW p \in Object
        PROVE  GoodLocal(author', d, local'[d][p])
    <3>1. CASE d = c /\ p = o
      BY <3>1 DEF LocalsInv, StartEdit, GoodLocal
    <3>2. CASE ~(d = c /\ p = o)
      <4>1. local'[d][p] = local[d][p]
        BY <3>2 DEF LocalsInv, StartEdit
      <4> QED BY <4>1, <1>2 DEF LocalsInv, GoodLocal
    <3> QED BY <3>1, <3>2
  <2> QED BY <2>1, <2>2 DEF LocalsInv
<1>8. QueuesInv'
  BY <1>5 DEF QueuesInv, StartEdit
<1>9. EditsInv'
  <2>1. NextEdit \in EditId
    BY <1>1 DEF NextEdit, EditId
  <2>2. \A m \in pending[c] : m.id \in EditId
    BY DEF QueuesInv, Commit
  <2>3. PICK prev \in {m.id : m \in {q \in pending[c] : q.op = op /\ q.obj = o}} \cup {0} :
          editing' = [editing EXCEPT ![c] =
                        [active |-> TRUE, op |-> op, obj |-> o, payload |-> payload,
                         id |-> NextEdit, prev |-> prev]]
    BY DEF StartEdit
  <2>4. prev \in EditId
    BY <2>2, <2>3 DEF EditId
  <2>5. GoodEdit(author', c, [active |-> TRUE, op |-> op, obj |-> o, payload |-> payload,
                              id |-> NextEdit, prev |-> prev])
    BY <2>1, <2>4 DEF GoodEdit, Edit
  <2>6. \A d \in Client : GoodEdit(author', d, editing[d])
    BY <1>2 DEF EditsInv, GoodEdit
  <2> QED BY <2>3, <2>5, <2>6 DEF EditsInv, GoodEdit
<1>10. RoundsInv'
  BY <1>4, <1>5 DEF RoundsInv, StartEdit, GoodRound
<1> QED BY <1>3, <1>6, <1>7, <1>8, <1>9, <1>10

LEMMA InsertKeeps ==
  ASSUME IInv, NEW c \in Client, NEW o \in Object, Insert(c, o)
  PROVE  IInv'
<1> DEFINE val == [f \in Field |-> NextEdit]
<1>1. author \in Seq(Client) /\ author' = Append(author, c)
  BY DEF Insert, StartEdit, IInv, PlainInv
<1>2. val \in Fields /\ [exists |-> TRUE, val |-> val] \in LocalRow
  BY <1>1 DEF NextEdit, Fields, Value, LocalRow
<1>3. By(author', c, val)
  BY <1>1 DEF By, NextEdit
<1>4. Shown(author', c, val)
  BY <1>3, OwnValues
<1>5. born' \in SUBSET Object
  BY DEF Insert, IInv, PlainInv
<1>6. StartEdit(c, "insert", o, val, [exists |-> TRUE, val |-> val])
  BY DEF Insert
<1> HIDE DEF val
<1> QED BY <1>2, <1>3, <1>4, <1>5, <1>6, EditKeeps

LEMMA UpdateKeeps ==
  ASSUME IInv, NEW c \in Client, NEW o \in Object, NEW f \in Field, Update(c, o, f)
  PROVE  IInv'
<1> DEFINE set == [Blank EXCEPT ![f] = NextEdit]
           new == [local[c][o] EXCEPT !.val[f] = NextEdit]
<1>1. author \in Seq(Client) /\ author' = Append(author, c)
  BY DEF Update, StartEdit, IInv, PlainInv
<1>2. local[c][o] \in LocalRow /\ Shown(author, c, local[c][o].val)
  BY DEF IInv, LocalsInv, GoodLocal
<1>3. set \in Fields /\ new \in LocalRow
  <2>1. NextEdit \in Value
    BY <1>1 DEF NextEdit, Value
  <2>2. local[c][o].val \in Fields
    BY <1>2 DEF LocalRow
  <2>3. [local[c][o].val EXCEPT ![f] = NextEdit] \in Fields /\ set \in Fields
    BY <2>1, <2>2, BlankIsGood DEF Fields
  <2> QED BY <1>2, <2>3 DEF LocalRow
<1>4. By(author', c, set)
  BY <1>1 DEF By, NextEdit, Blank
<1>5. Shown(author', c, new.val)
  <2>1. Shown(author', c, local[c][o].val)
    BY <1>1, <1>2, ValuesStay
  <2>2. NextEdit \in 1..Len(author') /\ author'[NextEdit] = c
    BY <1>1 DEF NextEdit
  <2> QED BY <1>2, <2>1, <2>2 DEF Shown, LocalRow, Fields
<1>6. born' \in SUBSET Object
  BY DEF Update, IInv, PlainInv
<1>7. StartEdit(c, "update", o, set, new)
  BY DEF Update
<1> HIDE DEF set, new
<1> QED BY <1>3, <1>4, <1>5, <1>6, <1>7, EditKeeps

LEMMA DeleteKeeps ==
  ASSUME IInv, NEW c \in Client, NEW o \in Object, Delete(c, o)
  PROVE  IInv'
<1>1. NoLocal \in LocalRow /\ NoLocal.val = Blank
  BY BlankIsGood DEF NoLocal, LocalRow
<1>2. born' \in SUBSET Object
  BY DEF Delete, IInv, PlainInv
<1>3. StartEdit(c, "delete", o, Blank, NoLocal)
  BY DEF Delete
<1> QED BY <1>1, <1>2, <1>3, BlankIsGood, EditKeeps

\* QueueCommit: the edit is a commit of its own, or joins the one found for it.
LEMMA QueueKeeps ==
  ASSUME IInv, NEW c \in Client, QueueCommit(c)
  PROVE  IInv'
<1> USE DEF IInv
<1> DEFINE e == editing[c]
           fresh == [id |-> e.id, op |-> e.op, obj |-> e.obj, payload |-> e.payload,
                     at |-> clock + 1]
           merged(m) == [m EXCEPT !.payload = Merge(m.payload, e.payload), !.at = clock + 1]
           queue == IF e.prev = 0 THEN pending[c] \cup {fresh}
                    ELSE {IF m.id = e.prev THEN merged(m) ELSE m : m \in pending[c]}
<1>1. e \in Edit /\ By(author, c, e.payload) /\ clock + 1 \in Time
  BY DEF EditsInv, GoodEdit, PlainInv, Time
<1>2. GoodQueue(author, c, pending[c])
  BY DEF QueuesInv
<1>3. GoodQueue(author, c, queue)
  <2>1. CASE e.prev = 0
    <3>1. fresh \in Commit /\ By(author, c, fresh.payload)
      BY <1>1 DEF Edit, Commit
    <3>2. IsFiniteSet(pending[c] \cup {fresh})
      BY <1>2, FS_AddElement DEF GoodQueue
    <3> QED BY <1>2, <2>1, <3>1, <3>2 DEF GoodQueue
  <2>2. CASE e.prev # 0
    <3>1. ASSUME NEW m \in pending[c]
          PROVE  merged(m) \in Commit /\ By(author, c, merged(m).payload)
      <4>1. m \in Commit /\ m.payload \in Fields /\ e.payload \in Fields /\ By(author, c, m.payload)
        BY <1>1, <1>2 DEF GoodQueue, Commit, Edit
      <4>2. Merge(m.payload, e.payload) \in Fields /\ By(author, c, Merge(m.payload, e.payload))
        BY <1>1, <4>1, MergeValues
      <4> QED BY <1>1, <4>1, <4>2 DEF Commit
    <3>2. queue = {IF m.id = e.prev THEN merged(m) ELSE m : m \in pending[c]}
      BY <2>2
    <3>3. IsFiniteSet(queue)
      <4> DEFINE g == [m \in pending[c] |-> IF m.id = e.prev THEN merged(m) ELSE m]
      <4>1. g \in Surjection(pending[c], queue)
        <5> HIDE DEF e, merged, queue
        <5>1. \A m \in pending[c] : g[m] = IF m.id = e.prev THEN merged(m) ELSE m
          OBVIOUS
        <5>2. queue = {g[m] : m \in pending[c]}
          BY <3>2, <5>1
        <5> QED BY <5>2 DEF Surjection
      <4>2. IsFiniteSet(pending[c])
        BY <1>2 DEF GoodQueue
      <4> HIDE DEF g, queue
      <4> QED BY <4>1, <4>2, FS_Surjection
    <3>4. ASSUME NEW n \in queue PROVE n \in Commit /\ By(author, c, n.payload)
      <4>1. PICK m \in pending[c] : n = IF m.id = e.prev THEN merged(m) ELSE m
        BY <3>2
      <4> QED BY <1>2, <3>1, <4>1 DEF GoodQueue
    <3> QED BY <3>3, <3>4 DEF GoodQueue
  <2> QED BY <2>1, <2>2
<1>4. pending' = [pending EXCEPT ![c] = queue] /\ author' = author /\ clock' = clock + 1
  BY DEF QueueCommit
<1> HIDE DEF e, fresh, merged, queue
<1>5. QueuesInv'
  <2>1. pending' \in [Client -> SUBSET Commit]
    BY <1>3, <1>4 DEF QueuesInv, GoodQueue
  <2>2. ASSUME NEW d \in Client PROVE GoodQueue(author', d, pending'[d])
    BY <1>3, <1>4 DEF QueuesInv
  <2> QED BY <2>1, <2>2 DEF QueuesInv
<1>6. EditsInv'
  <2>1. GoodEdit(author, c, NoEdit)
    <3>1. (CHOOSE o \in Object : TRUE) \in Object
      BY ObjectAssumption
    <3> QED BY <3>1, BlankIsGood DEF GoodEdit, NoEdit, Edit, EditId
  <2> QED BY <1>4, <2>1 DEF EditsInv, QueueCommit, GoodEdit
<1>7. PlainInv'
  BY <1>1, <1>4 DEF PlainInv, QueueCommit, historyVars
<1>8. RowsInv' /\ LocalsInv' /\ RoundsInv'
  <2>1. UNCHANGED <<author, row, local, round, handled>>
    BY DEF QueueCommit, historyVars
  <2>2. RowsInv'
    BY <2>1 DEF RowsInv
  <2>3. LocalsInv'
    BY <2>1 DEF LocalsInv
  <2>4. RoundsInv'
    BY <2>1 DEF RoundsInv
  <2> QED BY <2>2, <2>3, <2>4
<1> QED BY <1>5, <1>6, <1>7, <1>8

\* The invariant after a step that changes a round and nothing a device keeps.
LEMMA RoundStepKeeps ==
  ASSUME IInv, RoundsInv', author' = author, UNCHANGED <<born, clientVars, touched>>,
         clock' \in Time, losses' \in 0..MaxLosses, RowsInv',
         handled' \in SUBSET (EditId \X Time), refused' \in SUBSET Refusal,
         crossed' \in [Client -> SUBSET Object]
  PROVE  IInv'
<1>1. PlainInv'
  BY DEF IInv, PlainInv, clientVars
<1>2. LocalsInv' /\ QueuesInv' /\ EditsInv'
  BY DEF IInv, LocalsInv, QueuesInv, EditsInv, clientVars
<1> QED BY <1>1, <1>2 DEF IInv

\* The same when nothing but the round changes.
LEMMA PlainRoundStep ==
  ASSUME IInv, NEW c \in Client, NEW s \in Slot, NEW r, GoodRound(author, handled, c, r),
         SetRound(c, s, r),
         UNCHANGED <<clock, author, born, row, clientVars, losses, historyVars>>
  PROVE  IInv'
<1>1. RoundsInv'
  BY SetRoundKeeps DEF IInv, historyVars
<1>2. RowsInv'
  BY DEF IInv, RowsInv
<1> QED BY <1>1, <1>2, RoundStepKeeps DEF IInv, PlainInv, historyVars

LEMMA StartSyncKeeps ==
  ASSUME IInv, NEW c \in Client, NEW s \in Slot, StartSync(c, s)
  PROVE  IInv'
<1>1. PICK batch \in SUBSET pending[c] :
        IsBatch(batch, pending[c]) /\ Send(c, s, batch, lastPulled[c])
  BY DEF StartSync
<1>2. GoodQueue(author, c, batch) /\ Cardinality(batch) <= BatchSize
  BY <1>1, BatchIsGood DEF IInv, QueuesInv
<1>3. lastPulled[c] \in Time \cup {NeverPulled}
  BY DEF IInv, PlainInv
<1> QED BY <1>1, <1>2, <1>3, SentIsGood, PlainRoundStep DEF Send, StartSync

LEMMA StartPullKeeps ==
  ASSUME IInv, NEW c \in Client, NEW s \in Slot, StartPull(c, s)
  PROVE  IInv'
<1>1. GoodRound(author, handled, c, IdleRound) /\ lastPulled[c] \in Time \cup {NeverPulled}
  BY IdleRoundIsGood DEF IInv, PlainInv
<1>2. GoodRound(author, handled, c,
        [IdleRound EXCEPT !.phase = "sent", !.since = lastPulled[c]])
  BY <1>1 DEF GoodRound, Round, Phase, IdleRound
<1> QED BY <1>2, PlainRoundStep DEF StartPull

LEMMA ReceiveKeeps ==
  ASSUME IInv, NEW c \in Client, NEW s \in Slot, Receive(c, s)
  PROVE  IInv'
<1>1. GoodRound(author, handled, c, round[c][s])
  BY DEF IInv, RoundsInv
<1>2. GoodRound(author, handled, c, [round[c][s] EXCEPT !.phase = "serving"])
  BY <1>1 DEF GoodRound, Round, Phase
<1> QED BY <1>2, PlainRoundStep DEF Receive

LEMMA ReplyKeeps ==
  ASSUME IInv, NEW c \in Client, NEW s \in Slot, Reply(c, s)
  PROVE  IInv'
<1>1. GoodRound(author, handled, c, round[c][s]) /\ clock \in Time
  BY DEF IInv, RoundsInv, PlainInv
<1>2. GoodRound(author, handled, c, [round[c][s] EXCEPT !.phase = "replied", !.time = clock])
  BY <1>1 DEF GoodRound, Round, Phase
<1> QED BY <1>2, PlainRoundStep DEF Reply

LEMMA QueryKeeps ==
  ASSUME IInv, NEW c \in Client, NEW s \in Slot, QueryChanges(c, s)
  PROVE  IInv'
<1> DEFINE r == round[c][s]
           changes == [o \in Object |->
             IF Changed(row[o], r.since) /\ o \notin r.applied THEN row[o] ELSE NoRow]
<1>1. GoodRound(author, handled, c, r)
  BY DEF IInv, RoundsInv
<1>2. \A o \in Object : GoodRow(author, changes[o])
  BY NoRowIsGood DEF IInv, RowsInv
<1>3. changes \in [Object -> Row]
  BY <1>2 DEF GoodRow
<1>4. SetRound(c, s, [r EXCEPT !.phase = "queried", !.changes = changes])
  BY DEF QueryChanges
<1> HIDE DEF changes
<1>5. GoodRound(author, handled, c, [r EXCEPT !.phase = "queried", !.changes = changes])
  BY <1>1, <1>2, <1>3 DEF GoodRound, Round, Phase
<1> QED BY <1>4, <1>5, PlainRoundStep DEF QueryChanges

LEMMA RefuseUnauthorizedKeeps ==
  ASSUME IInv, NEW c \in Client, NEW s \in Slot, NEW m \in round[c][s].todo,
         RefuseUnauthorized(c, s, m)
  PROVE  IInv'
<1>1. GoodRound(author, handled, c, round[c][s]) /\ m \in Commit /\ m.obj \in Object
  BY DEF IInv, RoundsInv, GoodRound, GoodQueue, Commit
<1>2. GoodRow(author, row[m.obj])
  BY <1>1 DEF IInv, RowsInv
<1>3. CASE row[m.obj].exists
  <2>1. GoodRound(author, handled, c, Restore(round[c][s], m, row[m.obj]))
    BY <1>1, <1>2, RestoreIsGood
  <2>2. SetRound(c, s, Restore(round[c][s], m, row[m.obj]))
    BY <1>3 DEF RefuseUnauthorized
  <2> QED BY <1>3, <2>1, <2>2, PlainRoundStep DEF RefuseUnauthorized, historyVars
<1>4. CASE ~row[m.obj].exists
  <2>1. handled' = handled \cup {<<m.id, m.at>>} /\ SetRound(c, s, Drop(round[c][s], m))
    BY <1>4 DEF RefuseUnauthorized
  <2>2. GoodRound(author, handled', c, Drop(round[c][s], m))
    BY <1>1, <2>1, ConfirmIsGood
  <2>3. RoundsInv' /\ RowsInv'
    BY <2>1, <2>2, SetRoundKeeps DEF IInv, RowsInv, RefuseUnauthorized
  <2>4. handled' \in SUBSET (EditId \X Time)
    BY <1>1, <2>1 DEF IInv, PlainInv, Commit
  <2> QED BY <2>3, <2>4, RoundStepKeeps DEF RefuseUnauthorized, IInv, PlainInv
<1> QED BY <1>3, <1>4

\* A write of one row, confirmed to the device that asked for it.
LEMMA WriteKeeps ==
  ASSUME IInv, NEW c \in Client, NEW s \in Slot, NEW m \in round[c][s].todo,
         NEW written, GoodRow(author, written),
         row' = [row EXCEPT ![m.obj] = written], clock' = clock + 1,
         SetRound(c, s, Confirm(round[c][s], m)),
         handled' = handled \cup {<<m.id, m.at>>},
         UNCHANGED <<author, born, clientVars, losses, refused, touched>>, Cross(m.obj)
  PROVE  IInv'
<1>1. GoodRound(author, handled, c, round[c][s]) /\ m \in Commit /\ m.obj \in Object
  BY DEF IInv, RoundsInv, GoodRound, GoodQueue, Commit
<1>2. RoundsInv'
  BY <1>1, ConfirmIsGood, SetRoundKeeps DEF IInv
<1>3. RowsInv'
  BY <1>1 DEF IInv, RowsInv, GoodRow
<1>4. handled' \in SUBSET (EditId \X Time) /\ clock' \in Time
  BY <1>1 DEF IInv, PlainInv, Commit, Time
<1>5. crossed' \in [Client -> SUBSET Object]
  BY <1>1 DEF IInv, PlainInv, Cross
<1> QED BY <1>2, <1>3, <1>4, <1>5, RoundStepKeeps DEF IInv, PlainInv

LEMMA ApplyDeleteKeeps ==
  ASSUME IInv, NEW c \in Client, NEW s \in Slot, NEW m \in round[c][s].todo,
         ApplyDelete(c, s, m)
  PROVE  IInv'
<1> DEFINE written == IF row[m.obj].exists
                        THEN [row[m.obj] EXCEPT !.deleted = TRUE, !.updated = clock + 1]
                        ELSE row[m.obj]
<1>1. m.obj \in Object /\ clock + 1 \in Time
  BY DEF IInv, PlainInv, RoundsInv, GoodRound, GoodQueue, Commit, Time
<1>2. GoodRow(author, row[m.obj]) /\ row \in [Object -> Row]
  BY <1>1 DEF IInv, RowsInv
<1>3. GoodRow(author, written)
  BY <1>1, <1>2 DEF GoodRow, Row
<1>4. row' = [row EXCEPT ![m.obj] = written]
  BY <1>1, <1>2 DEF ApplyDelete
<1> HIDE DEF written
<1> QED BY <1>3, <1>4, WriteKeeps DEF ApplyDelete

LEMMA UpsertKeeps ==
  ASSUME IInv, NEW c \in Client, NEW s \in Slot, NEW m \in round[c][s].todo,
         UpsertRow(c, s, m)
  PROVE  IInv'
<1> DEFINE r == round[c][s]
           written == [exists |-> TRUE, val |-> Merge(r.fetched.val, m.payload),
                       updated |-> clock + 1, deleted |-> FALSE]
<1>1. GoodRound(author, handled, c, r) /\ r.phase = "fetched" /\ clock + 1 \in Time
  BY DEF IInv, PlainInv, RoundsInv, UpsertRow, Time
<1>2. m.payload \in Fields /\ By(author, c, m.payload) /\ c \notin Denied
  BY <1>1 DEF GoodRound, GoodQueue, Commit
<1>3. r.fetched.val \in Fields /\ Clean(author, r.fetched.val)
  BY <1>1 DEF GoodRound, GoodRow, Row
<1>4. Merge(r.fetched.val, m.payload) \in Fields /\ Clean(author, Merge(r.fetched.val, m.payload))
  BY <1>2, <1>3, MergeValues, OwnValues
<1>5. GoodRow(author, written)
  BY <1>1, <1>4 DEF GoodRow, Row
<1>6. row' = [row EXCEPT ![m.obj] = written]
  BY DEF UpsertRow
<1> HIDE DEF written
<1> QED BY <1>5, <1>6, WriteKeeps DEF UpsertRow

LEMMA FetchKeeps ==
  ASSUME IInv, NEW c \in Client, NEW s \in Slot, NEW m \in round[c][s].todo,
         FetchRow(c, s, m)
  PROVE  IInv'
<1>1. GoodRound(author, handled, c, round[c][s]) /\ m \in Commit
  BY DEF IInv, RoundsInv, GoodRound, GoodQueue
<1>2. m.obj \in Object /\ m.payload \in Fields
  BY <1>1 DEF Commit
<1>3. GoodRow(author, row[m.obj])
  BY <1>2 DEF IInv, RowsInv
<1>4. CASE ServerWins(m, row[m.obj])
  <2>1. GoodRound(author, handled, c, Restore(round[c][s], m, row[m.obj]))
    BY <1>1, <1>3, RestoreIsGood
  <2>2. /\ SetRound(c, s, Restore(round[c][s], m, row[m.obj]))
        /\ refused' = refused \cup Losing(m, row[m.obj])
    BY <1>4 DEF FetchRow
  <2>3. Losing(m, row[m.obj]) \subseteq Refusal
    BY <1>2, <1>3 DEF Losing, Refusal, GoodRow, Row, Fields
  <2>4. refused' \in SUBSET Refusal
    BY <2>2, <2>3 DEF IInv, PlainInv
  <2>5. RoundsInv' /\ RowsInv'
    BY <2>1, <2>2, SetRoundKeeps DEF IInv, RowsInv, FetchRow
  <2> QED BY <2>4, <2>5, RoundStepKeeps DEF IInv, PlainInv, FetchRow
<1>5. CASE ~ServerWins(m, row[m.obj])
  <2> DEFINE r == [round[c][s] EXCEPT !.phase = "fetched", !.fetched = row[m.obj]]
  <2>1. GoodRound(author, handled, c, r)
    BY <1>1, <1>3 DEF GoodRound, GoodRow, Round, Phase, FetchRow, Authorized
  <2>2. SetRound(c, s, r)
    BY <1>5 DEF FetchRow
  <2> HIDE DEF r
  <2> QED BY <1>5, <2>1, <2>2, PlainRoundStep DEF FetchRow, historyVars
<1> QED BY <1>4, <1>5

-----------------------------------------------------------------------------

LEMMA DeleteConfirmedKeeps ==
  ASSUME IInv, NEW c \in Client, NEW s \in Slot, DeleteConfirmed(c, s)
  PROVE  IInv'
<1> DEFINE rest == {m \in pending[c] : m.id \notin round[c][s].confirmed}
<1>1. pending' = [pending EXCEPT ![c] = rest]
  BY DEF DeleteConfirmed, IInv, QueuesInv
<1>2. GoodQueue(author, c, rest)
  BY FS_Subset DEF IInv, QueuesInv, GoodQueue
<1> HIDE DEF rest
<1>3. QueuesInv'
  BY <1>1, <1>2 DEF IInv, QueuesInv, DeleteConfirmed, GoodQueue
<1>4. GoodRound(author, handled, c, round[c][s])
  BY DEF IInv, RoundsInv
<1>5. GoodRound(author, handled, c, [round[c][s] EXCEPT !.phase = "confirmed"])
  <2> DEFINE r == round[c][s]
             next == [r EXCEPT !.phase = "confirmed"]
  <2>1. GoodRound(author, handled, c, r)
    BY <1>4
  <2> HIDE DEF r
  <2>2. /\ next \in Round
        /\ next.phase = "confirmed"
        /\ next.todo = r.todo
        /\ next.confirmed = r.confirmed
        /\ next.fetched = r.fetched
        /\ next.restored = r.restored
        /\ next.changes = r.changes
    BY <2>1 DEF GoodRound, Round, Phase
  <2> HIDE DEF next
  <2>3. GoodRound(author, handled, c, next)
    BY <2>1, <2>2 DEF GoodRound
  <2> QED BY <2>3 DEF r, next
<1>6. RoundsInv'
  BY <1>5, SetRoundKeeps DEF IInv, DeleteConfirmed, historyVars
<1>7. PlainInv' /\ RowsInv' /\ LocalsInv' /\ EditsInv'
  BY DEF IInv, PlainInv, RowsInv, LocalsInv, EditsInv, DeleteConfirmed, historyVars
<1> QED BY <1>3, <1>6, <1>7 DEF IInv

\* One row of the answer stored, whatever it leaves of the answer.
LEMMA StoreRowKeeps ==
  ASSUME IInv, NEW c \in Client, NEW s \in Slot, NEW o \in Object,
         NEW stored, GoodRow(author, stored), StoreRow(c, o, stored),
         NEW r, GoodRound(author, handled, c, r), SetRound(c, s, r),
         UNCHANGED <<clock, author, born, row, pending, editing, lastPulled, losses, handled,
                     refused, touched>>,
         crossed' \in [Client -> SUBSET Object]
  PROVE  IInv'
<1>1. GoodLocal(author, c, Received(stored))
  BY ReceivedIsGood
<1>2. LocalsInv'
  BY <1>1 DEF IInv, LocalsInv, StoreRow, GoodLocal
<1>3. RoundsInv'
  BY SetRoundKeeps DEF IInv
<1>4. PlainInv' /\ RowsInv' /\ QueuesInv' /\ EditsInv'
  BY DEF IInv, PlainInv, RowsInv, QueuesInv, EditsInv
<1> QED BY <1>2, <1>3, <1>4 DEF IInv

LEMMA ApplyRestoredKeeps ==
  ASSUME IInv, NEW c \in Client, NEW s \in Slot, NEW o \in Object, ApplyRestored(c, s, o)
  PROVE  IInv'
<1> DEFINE r == round[c][s]
<1>1. GoodRound(author, handled, c, r)
  BY DEF IInv, RoundsInv
<1>2. GoodRow(author, r.restored[o]) /\ GoodRow(author, NoRow)
  BY <1>1, NoRowIsGood DEF GoodRound
<1>3. GoodRound(author, handled, c, [r EXCEPT !.restored[o] = NoRow])
  BY <1>1, <1>2 DEF GoodRound, GoodRow, Round
<1> QED BY <1>2, <1>3, StoreRowKeeps DEF ApplyRestored, historyVars, IInv, PlainInv

LEMMA ApplyChangeKeeps ==
  ASSUME IInv, NEW c \in Client, NEW s \in Slot, NEW o \in Object, ApplyChange(c, s, o)
  PROVE  IInv'
<1> DEFINE r == round[c][s]
<1>1. GoodRound(author, handled, c, r)
  BY DEF IInv, RoundsInv
<1>2. GoodRow(author, r.changes[o]) /\ GoodRow(author, NoRow)
  BY <1>1, NoRowIsGood DEF GoodRound
<1>3. GoodRound(author, handled, c, [r EXCEPT !.changes[o] = NoRow])
  BY <1>1, <1>2 DEF GoodRound, GoodRow, Round
<1>4. crossed' \in [Client -> SUBSET Object]
  BY DEF ApplyChange, IInv, PlainInv
<1> QED BY <1>2, <1>3, <1>4, StoreRowKeeps DEF ApplyChange

LEMMA FinishRoundKeeps ==
  ASSUME IInv, NEW c \in Client, NEW s \in Slot, FinishRound(c, s)
  PROVE  IInv'
<1>1. GoodRound(author, handled, c, round[c][s])
  BY DEF IInv, RoundsInv
<1>2. round[c][s].time \in Time /\ round[c][s].since \in Time \cup {NeverPulled}
  BY <1>1 DEF GoodRound, Round
<1>3. PlainInv'
  BY <1>2 DEF IInv, PlainInv, FinishRound, PulledTo, historyVars
<1>4. RoundsInv'
  <2>1. CASE round[c][s].full /\ pending[c] # {}
    <3>1. PICK batch \in SUBSET pending[c] :
            IsBatch(batch, pending[c]) /\ Send(c, s, batch, round[c][s].since)
      BY <2>1 DEF FinishRound
    <3>2. GoodQueue(author, c, batch) /\ Cardinality(batch) <= BatchSize
      BY <3>1, BatchIsGood DEF IInv, QueuesInv
    <3> QED BY <1>2, <3>1, <3>2, SentIsGood, SetRoundKeeps DEF Send, IInv, FinishRound, historyVars
  <2>2. CASE ~(round[c][s].full /\ pending[c] # {})
    BY <2>2, IdleRoundIsGood, SetRoundKeeps DEF IInv, FinishRound, historyVars
  <2> QED BY <2>1, <2>2
<1>5. RowsInv' /\ LocalsInv' /\ QueuesInv' /\ EditsInv'
  BY DEF IInv, RowsInv, LocalsInv, QueuesInv, EditsInv, FinishRound
<1> QED BY <1>3, <1>4, <1>5 DEF IInv

LEMMA LoseKeeps ==
  ASSUME IInv, NEW c \in Client, NEW s \in Slot, Lose(c, s)
  PROVE  IInv'
<1>1. losses' \in 0..MaxLosses
  BY BoundAssumption DEF IInv, PlainInv, Lose
<1>2. RoundsInv' /\ RowsInv'
  BY IdleRoundIsGood, SetRoundKeeps DEF IInv, RowsInv, Lose, historyVars
<1> QED BY <1>1, <1>2, RoundStepKeeps DEF IInv, PlainInv, Lose, historyVars

-----------------------------------------------------------------------------
(* The theorems.                                                           *)

LEMMA NextKeeps == IInv /\ [Next]_vars => IInv'
<1> SUFFICES ASSUME IInv, [Next]_vars PROVE IInv'
  OBVIOUS
<1>1. CASE UNCHANGED vars
  <2>1. PlainInv' /\ RowsInv' /\ LocalsInv' /\ QueuesInv' /\ EditsInv' /\ RoundsInv'
    BY <1>1 DEF vars, IInv, PlainInv, RowsInv, LocalsInv, QueuesInv, EditsInv, RoundsInv
  <2> QED BY <2>1 DEF IInv
<1>2. ASSUME NEW c \in Client, Edits(c) PROVE IInv'
  BY <1>2, InsertKeeps, UpdateKeeps, DeleteKeeps, QueueKeeps DEF Edits
<1>3. ASSUME NEW c \in Client, NEW s \in Slot, Serve(c, s) PROVE IInv'
  BY <1>3, ReceiveKeeps, RefuseUnauthorizedKeeps, ApplyDeleteKeeps, FetchKeeps, UpsertKeeps,
     QueryKeeps, ReplyKeeps DEF Serve
<1>4. ASSUME NEW c \in Client, NEW s \in Slot, Store(c, s) PROVE IInv'
  BY <1>4, DeleteConfirmedKeeps, ApplyRestoredKeeps, ApplyChangeKeeps, FinishRoundKeeps
     DEF Store
<1> QED BY <1>1, <1>2, <1>3, <1>4, StartSyncKeeps, StartPullKeeps, LoseKeeps DEF Next

\* Every reachable state satisfies the inductive invariant.
THEOREM SyncIInv == Spec => []IInv
  BY InitGood, NextKeeps, PTL DEF Spec

\* Type correctness: every variable keeps its shape and no request carries more
\* than pendingCommitsBatchSize commits.
THEOREM SyncTypeOK == Spec => []TypeOK
<1>1. IInv => TypeOK
  BY DEF IInv, PlainInv, RowsInv, LocalsInv, QueuesInv, EditsInv, RoundsInv, GoodRound, TypeOK
<1> QED BY <1>1, SyncIInv, PTL

\* Whatever the devices do and however rounds overlap, no edit of a device that
\* may not write reaches the server's rows or another device.
THEOREM SyncDeniedNeverSpreads == Spec => []DeniedNeverSpreads
<1>1. IInv => DeniedNeverSpreads
  BY DEF IInv, RowsInv, LocalsInv, GoodRow, GoodLocal, Clean, Shown, DeniedNeverSpreads
<1> QED BY <1>1, SyncIInv, PTL

\* A commit leaves a device's queue only when the server applied it or found no
\* row to apply it to, for any number of overlapping, lost and repeated rounds.
THEOREM SyncConfirmedWasHandled == Spec => ConfirmedWasHandled
<1> DEFINE Dropped == \A c \in Client : Ids(pending[c]) \ Ids(pending'[c]) \subseteq HandledIds
<1>1. ASSUME IInv, [Next]_vars PROVE [Dropped]_vars
  <2>1. CASE pending' = pending
    BY <2>1
  <2>2. ASSUME NEW c \in Client, NEW s \in Slot, DeleteConfirmed(c, s) PROVE Dropped
    <3>1. round[c][s].confirmed \subseteq HandledIds
      BY <1>1 DEF IInv, RoundsInv, GoodRound, HandledIds
    <3>2. ASSUME NEW d \in Client, NEW m \in pending[d], m.id \notin HandledIds
          PROVE  m \in pending'[d]
      BY <1>1, <2>2, <3>1, <3>2 DEF DeleteConfirmed, IInv, QueuesInv
    <3> QED BY <3>2 DEF Ids
  <2>3. ASSUME NEW c \in Client, QueueCommit(c) PROVE Dropped
    <3>1. ASSUME NEW d \in Client, NEW m \in pending[d]
          PROVE  \E n \in pending'[d] : n.id = m.id
      <4>1. CASE d = c
        <5>1. CASE editing[c].prev = 0
          BY <1>1, <2>3, <4>1, <5>1 DEF QueueCommit, IInv, QueuesInv
        <5>2. CASE editing[c].prev # 0
          <6> DEFINE merged(q) == [q EXCEPT !.payload = Merge(q.payload, editing[c].payload),
                                            !.at = clock + 1]
                     after(q) == IF q.id = editing[c].prev THEN merged(q) ELSE q
          <6>1. pending'[c] = {after(q) : q \in pending[c]}
            BY <1>1, <2>3, <5>2 DEF QueueCommit, IInv, QueuesInv
          <6>2. after(m).id = m.id
            BY <1>1, <4>1 DEF IInv, QueuesInv, Commit
          <6> QED BY <4>1, <6>1, <6>2
        <5> QED BY <5>1, <5>2
      <4>2. CASE d # c
        BY <1>1, <2>3, <4>2 DEF QueueCommit, IInv, QueuesInv
      <4> QED BY <4>1, <4>2
    <3> QED BY <3>1 DEF Ids
  <2>4. \/ pending' = pending
        \/ \E c \in Client : QueueCommit(c)
        \/ \E c \in Client, s \in Slot : DeleteConfirmed(c, s)
    <3>1. CASE UNCHANGED vars
      BY <3>1 DEF vars
    <3>2. ASSUME NEW c \in Client, Edits(c), ~QueueCommit(c) PROVE pending' = pending
      BY <3>2 DEF Edits, Insert, Update, Delete, StartEdit
    <3>3. ASSUME NEW c \in Client, NEW s \in Slot, Serve(c, s) PROVE pending' = pending
      BY <3>3 DEF Serve, Receive, RefuseUnauthorized, ApplyDelete, FetchRow, UpsertRow,
         QueryChanges, Reply, clientVars
    <3>4. ASSUME NEW c \in Client, NEW s \in Slot, Store(c, s), ~DeleteConfirmed(c, s)
          PROVE  pending' = pending
      BY <3>4 DEF Store, ApplyRestored, ApplyChange, FinishRound
    <3>5. ASSUME NEW c \in Client, NEW s \in Slot,
                 StartSync(c, s) \/ StartPull(c, s) \/ Lose(c, s)
          PROVE  pending' = pending
      BY <3>5 DEF StartSync, StartPull, Lose, clientVars
    <3> QED BY <1>1, <3>1, <3>2, <3>3, <3>4, <3>5 DEF Next
  <2> QED BY <2>1, <2>2, <2>3, <2>4
<1>2. Spec => [][Dropped]_vars
  BY <1>1, SyncIInv, PTL DEF Spec
<1> QED BY <1>2 DEF ConfirmedWasHandled

-----------------------------------------------------------------------------
(***************************************************************************)
(* Writes undone and rows pulled, for any number of requests and rounds    *)
(* that overlap in any way.  A write is undone only by a request that had  *)
(* fetched the row before it: what such a request holds is the row as it   *)
(* is, or is stamped earlier.  A device shows a row it has not edited as   *)
(* the server has it, or has the row still to store, or will be told of it *)
(* under the since of a later query: only a write between a query and the  *)
(* clock reading after it, or an older answer that is stored last, escapes.*)
(***************************************************************************)
\* The commits of a device are its own, and no two have an id or a time in common.
Told(c) ==
  /\ \A m \in pending[c] : m.id \in 1..Len(author) /\ author[m.id] = c /\ m.at <= clock
  /\ \A m, n \in pending[c] : m.id = n.id \/ m.at = n.at => m = n
  /\ editing[c].active => /\ editing[c].id \in 1..Len(author) /\ author[editing[c].id] = c
                          /\ \A m \in pending[c] : m.id # editing[c].id
  /\ \A s \in Slot : \A m, n \in round[c][s].todo : m.at = n.at => m = n
ToldInv == \A c \in Client : Told(c)

\* No write is later than the clock, and only rows that exist are deleted.
StampedInv == \A o \in Object : row[o].updated <= clock /\ (row[o].deleted => row[o].exists)

\* Between the two statements of patch.Apply the request has the row as it is, or as it
\* was before a later write; and it has not found it deleted.
FetchedInv ==
  \A c \in Client, s \in Slot : round[c][s].phase = "fetched" =>
    /\ ~round[c][s].fetched.deleted
    /\ \A m \in round[c][s].todo : IsNext(m, round[c][s].todo) =>
         \/ round[c][s].fetched = row[m.obj]
         \/ round[c][s].fetched.updated < row[m.obj].updated

\* What a device has queued, and what its rounds carry, have applied or restore, is about
\* rows it has edited.
OwnRows(mine, r) ==
  /\ \A m \in r.todo : m.obj \in mine
  /\ r.applied \subseteq mine
  /\ \A o \in Object : r.restored[o].exists => o \in mine
OwnInv == \A c \in Client :
  /\ \A m \in pending[c] : m.obj \in touched[c]
  /\ editing[c].active => editing[c].obj \in touched[c]
  /\ \A s \in Slot : OwnRows(touched[c], round[c][s])

\* No watermark is ahead of the clock.
PastInv == \A c \in Client :
  /\ lastPulled[c] <= clock
  /\ \A s \in Slot : round[c][s].since <= clock /\ round[c][s].time <= clock

\* The row o that the server has as current is shown by the device, or is still to be
\* brought by every round whose watermark is about to cover it.
Brings(current, shown, o, r) ==
  /\ r.phase # "idle" /\ current.updated <= r.since => shown = Received(current)
  /\ r.phase \in {"queried", "replied", "confirmed"} =>
       /\ r.changes[o].exists => current.updated > r.since
       /\ r.phase = "queried" \/ current.updated <= r.time =>
            /\ r.changes[o] \in {current, NoRow}
            /\ ~r.changes[o].exists => shown = Received(current)
Known(c, o) == row[o].exists /\ o \notin touched[c] \cup crossed[c]
SeenInv ==
  \A c \in Client, o \in Object : Known(c, o) =>
    /\ Shows(c, o)
    /\ \A s \in Slot : Brings(row[o], local[c][o], o, round[c][s])

-----------------------------------------------------------------------------
(* What a step of a round does.                                            *)

Rounds(c, s) == StartSync(c, s) \/ StartPull(c, s) \/ Serve(c, s) \/ Store(c, s) \/ Lose(c, s)

\* SetRound is about one round.
LEMMA RoundAfter ==
  ASSUME IInv, NEW c \in Client, NEW s \in Slot, NEW r, SetRound(c, s, r)
  PROVE  \A d \in Client, t \in Slot : round'[d][t] = IF d = c /\ t = s THEN r ELSE round[d][t]
BY DEF SetRound, IInv, RoundsInv

\* What a round is when it is sent.
LEMMA SentRound ==
  ASSUME IInv, NEW c \in Client, NEW s \in Slot, NEW batch, NEW since, Send(c, s, batch, since)
  PROVE  LET r == round'[c][s]
         IN  /\ r.phase = "sent" /\ r.todo = batch /\ r.since = since
             /\ r.full = (Cardinality(batch) = BatchSize) /\ r.applied = {}
             /\ r.restored = [o \in Object |-> NoRow]
<1> DEFINE full == (Cardinality(batch) = BatchSize)
           r == [IdleRound EXCEPT !.phase = "sent", !.todo = batch, !.since = since, !.full = full]
<1>1. SetRound(c, s, r)
  BY DEF Send
<1> HIDE DEF full
<1>2. /\ r.phase = "sent" /\ r.todo = batch /\ r.since = since /\ r.full = full /\ r.applied = {}
      /\ r.restored = [o \in Object |-> NoRow]
  BY DEF IdleRound
<1> HIDE DEF r
<1>3. round'[c][s] = r
  BY <1>1, RoundAfter
<1> QED BY <1>2, <1>3 DEF full

\* A step of a round leaves the other rounds alone, and its commits were carried before
\* or are queued.
LEMMA RoundMoves ==
  ASSUME IInv, NEW c \in Client, NEW s \in Slot, Rounds(c, s)
  PROVE  /\ \A d \in Client, t \in Slot : d # c \/ t # s => round'[d][t] = round[d][t]
         /\ round'[c][s].todo \subseteq round[c][s].todo \/ round'[c][s].todo \subseteq pending[c]
         /\ author' = author /\ editing' = editing
         /\ \A d \in Client : pending'[d] \subseteq pending[d]
         /\ clock' \in {clock, clock + 1}
<1> DEFINE Goal == /\ \A d \in Client, t \in Slot : d # c \/ t # s => round'[d][t] = round[d][t]
                   /\ \/ round'[c][s].todo \subseteq round[c][s].todo
                      \/ round'[c][s].todo \subseteq pending[c]
<1>1. ASSUME NEW r, SetRound(c, s, r), r.todo \subseteq round[c][s].todo \/ r.todo \subseteq pending[c]
      PROVE  Goal
  BY <1>1, RoundAfter
<1>2. IdleRound.todo = {} /\ \A batch, since : SetRound(c, s, [IdleRound EXCEPT !.phase = "sent", !.todo = batch, !.since = since,
                                   !.full = (Cardinality(batch) = BatchSize)]) /\ batch \subseteq pending[c] => Goal
  BY <1>1 DEF IdleRound
<1>3. round[c][s] \in Round
  BY DEF IInv, RoundsInv
<1>4. ASSUME StartSync(c, s) PROVE Goal
  BY <1>2, <1>4 DEF StartSync, Send
<1>5. ASSUME StartPull(c, s) PROVE Goal
  BY <1>1, <1>5 DEF StartPull, IdleRound
<1>6. ASSUME Serve(c, s) PROVE Goal
  <2>1. CASE Receive(c, s)
    BY <1>1, <1>3, <2>1 DEF Receive, Round
  <2>2. ASSUME NEW m, RefuseUnauthorized(c, s, m) \/ FetchRow(c, s, m) PROVE Goal
    <3>1. \A x : Restore(round[c][s], m, x).todo \subseteq round[c][s].todo
      BY <1>3 DEF Restore, Round
    <3>2. Drop(round[c][s], m).todo \subseteq round[c][s].todo
      BY <1>3 DEF Drop, Round
    <3>3. \A x : [round[c][s] EXCEPT !.phase = "fetched", !.fetched = x].todo = round[c][s].todo
      BY <1>3 DEF Round
    <3> QED BY <1>1, <2>2, <3>1, <3>2, <3>3 DEF RefuseUnauthorized, FetchRow
  <2>3. ASSUME NEW m, ApplyDelete(c, s, m) \/ UpsertRow(c, s, m) PROVE Goal
    <3>1. Confirm(round[c][s], m).todo \subseteq round[c][s].todo
      BY <1>3 DEF Confirm, Round
    <3> QED BY <1>1, <2>3, <3>1 DEF ApplyDelete, UpsertRow
  <2>4. CASE QueryChanges(c, s)
    BY <1>1, <1>3, <2>4 DEF QueryChanges, Round
  <2>5. CASE Reply(c, s)
    BY <1>1, <1>3, <2>5 DEF Reply, Round
  <2> QED BY <1>6, <2>1, <2>2, <2>3, <2>4, <2>5 DEF Serve
<1>7. ASSUME Store(c, s) PROVE Goal
  <2>1. CASE DeleteConfirmed(c, s)
    BY <1>1, <1>3, <2>1 DEF DeleteConfirmed, Round
  <2>2. ASSUME NEW o, ApplyRestored(c, s, o) \/ ApplyChange(c, s, o) PROVE Goal
    BY <1>1, <1>3, <2>2 DEF ApplyRestored, ApplyChange, Round
  <2>3. CASE FinishRound(c, s)
    BY <1>1, <1>2, <2>3 DEF FinishRound, Send
  <2> QED BY <1>7, <2>1, <2>2, <2>3 DEF Store
<1>8. ASSUME Lose(c, s) PROVE Goal
  BY <1>1, <1>2, <1>8 DEF Lose
<1>9. Goal
  BY <1>4, <1>5, <1>6, <1>7, <1>8 DEF Rounds
<1>10. author' = author /\ editing' = editing /\ clock' \in {clock, clock + 1}
  BY DEF Rounds, StartSync, StartPull, Serve, Receive, RefuseUnauthorized, ApplyDelete, FetchRow,
     UpsertRow, QueryChanges, Reply, Store, DeleteConfirmed, ApplyRestored, ApplyChange,
     FinishRound, Lose, clientVars
<1>11. \A d \in Client : pending'[d] \subseteq pending[d]
  <2>1. CASE DeleteConfirmed(c, s)
    BY <2>1 DEF DeleteConfirmed, IInv, QueuesInv
  <2>2. CASE ~DeleteConfirmed(c, s)
    <3>1. pending' = pending
      BY <2>2 DEF Rounds, StartSync, StartPull, Serve, Receive, RefuseUnauthorized, ApplyDelete,
         FetchRow, UpsertRow, QueryChanges, Reply, Store, ApplyRestored, ApplyChange, FinishRound, Lose,
         clientVars
    <3> QED BY <3>1
  <2> QED BY <2>1, <2>2
<1> QED BY <1>9, <1>10, <1>11

-----------------------------------------------------------------------------
(* Commits have a time and an id of their own.                             *)

LEMMA InitTold == Init => ToldInv /\ StampedInv
<1> SUFFICES ASSUME Init PROVE ToldInv /\ StampedInv
  OBVIOUS
<1>1. \A c \in Client : pending[c] = {} /\ ~editing[c].active /\ \A s \in Slot : round[c][s].todo = {}
  BY DEF Init, NoEdit, IdleRound
<1>2. \A o \in Object : row[o].updated = 0 /\ ~row[o].deleted
  BY DEF Init, NoRow, FirstRow
<1> QED BY <1>1, <1>2 DEF ToldInv, Told, StampedInv, Init

LEMMA EditTold ==
  ASSUME IInv, ToldInv, NEW c \in Client, NEW op, NEW o, NEW payload, NEW new,
         StartEdit(c, op, o, payload, new)
  PROVE  ToldInv'
<1>1. author \in Seq(Client) /\ author' = Append(author, c) /\ NextEdit = Len(author) + 1
  BY DEF StartEdit, IInv, PlainInv, NextEdit
<1>2. /\ pending' = pending /\ round' = round /\ clock' = clock
      /\ \A d \in Client : d # c => editing'[d] = editing[d]
      /\ editing'[c].active /\ editing'[c].id = NextEdit
  BY DEF StartEdit, IInv, EditsInv
<1>3. /\ \A n \in 1..Len(author) : n \in 1..Len(author') /\ author'[n] = author[n] /\ n # NextEdit
      /\ NextEdit \in 1..Len(author') /\ author'[NextEdit] = c
  BY <1>1
<1> HIDE DEF NextEdit
<1>4. ASSUME NEW d \in Client PROVE Told(d)'
  <2>1. /\ \A m \in pending[d] : m.id \in 1..Len(author) /\ author[m.id] = d /\ m.at <= clock
        /\ \A m, n \in pending[d] : m.id = n.id \/ m.at = n.at => m = n
        /\ editing[d].active => /\ editing[d].id \in 1..Len(author) /\ author[editing[d].id] = d
                                /\ \A m \in pending[d] : m.id # editing[d].id
        /\ \A s \in Slot : \A m, n \in round[d][s].todo : m.at = n.at => m = n
    BY DEF ToldInv, Told
  <2>2. \A m \in pending'[d] : m.id \in 1..Len(author') /\ author'[m.id] = d /\ m.at <= clock'
    BY <1>2, <1>3, <2>1
  <2>3. editing'[d].active => /\ editing'[d].id \in 1..Len(author') /\ author'[editing'[d].id] = d
                              /\ \A m \in pending'[d] : m.id # editing'[d].id
    <3>1. CASE d = c
      BY <1>2, <1>3, <2>1, <3>1
    <3>2. CASE d # c
      BY <1>2, <1>3, <2>1, <3>2
    <3> QED BY <3>1, <3>2
  <2> QED BY <1>2, <2>1, <2>2, <2>3 DEF Told
<1> QED BY <1>4 DEF ToldInv

LEMMA QueueTold ==
  ASSUME IInv, ToldInv, NEW c \in Client, QueueCommit(c)
  PROVE  ToldInv'
<1> DEFINE e == editing[c]
           fresh == [id |-> e.id, op |-> e.op, obj |-> e.obj, payload |-> e.payload, at |-> clock + 1]
           after(m) == IF m.id = e.prev
                         THEN [m EXCEPT !.payload = Merge(m.payload, e.payload), !.at = clock + 1]
                         ELSE m
<1>0. clock' = clock + 1 /\ clock \in Nat
  BY DEF QueueCommit, IInv, PlainInv, Time
<1>1. /\ author' = author /\ round' = round
      /\ \A d \in Client : d # c => editing'[d] = editing[d] /\ pending'[d] = pending[d]
      /\ ~editing'[c].active /\ e.active
      /\ pending'[c] = IF e.prev = 0 THEN pending[c] \cup {fresh} ELSE {after(m) : m \in pending[c]}
  BY DEF QueueCommit, IInv, PlainInv, QueuesInv, EditsInv, NoEdit, Time
<1>2. /\ \A m, n \in pending[c] : m.id = n.id \/ m.at = n.at => m = n
      /\ e.id \in 1..Len(author) /\ author[e.id] = c /\ \A m \in pending[c] : m.id # e.id
      /\ \A s \in Slot : \A m, n \in round[c][s].todo : m.at = n.at => m = n
  BY <1>1 DEF ToldInv, Told
<1>3. \A m \in pending[c] : /\ m \in Commit /\ m.at \in Nat /\ m.at <= clock
                             /\ m.id \in 1..Len(author) /\ author[m.id] = c
  BY DEF IInv, QueuesInv, Commit, Time, ToldInv, Told
<1>4. ASSUME NEW d \in Client, d # c PROVE Told(d)'
  <2>1. Told(d) /\ \A m \in pending[d] : m.at \in Nat
    BY DEF ToldInv, IInv, QueuesInv, Commit, Time
  <2>2. \A m \in pending[d] : m.id \in 1..Len(author) /\ author[m.id] = d /\ m.at <= clock
    BY <2>1 DEF Told
  <2> HIDE DEF e
  <2>3. \A m \in pending[d] : m.at <= clock + 1
    BY <1>0, <2>1, <2>2
  <2>4. \A m \in pending'[d] : m.id \in 1..Len(author') /\ author'[m.id] = d /\ m.at <= clock'
    BY <1>0, <1>1, <1>4, <2>2, <2>3
  <2> QED BY <1>1, <1>4, <2>1, <2>4 DEF Told
<1>5. \A m, n \in pending'[c] : m.id = n.id \/ m.at = n.at => m = n
  <2>1. CASE e.prev = 0
    <3>1. fresh.id = e.id /\ fresh.at = clock + 1
      OBVIOUS
    <3>2. pending'[c] = pending[c] \cup {fresh}
      BY <1>1, <2>1
    <3> HIDE DEF fresh
    <3>3. \A m \in pending[c] : m.id # fresh.id /\ m.at # fresh.at
      <4> HIDE DEF e
      <4> QED BY <1>0, <1>2, <1>3, <3>1
    <3> QED BY <1>2, <3>2, <3>3
  <2>2. CASE e.prev # 0
    <3>1. \A m \in pending[c] : /\ after(m).id = m.id
                                /\ after(m).at = IF m.id = e.prev THEN clock + 1 ELSE m.at
      BY <1>3 DEF Commit
    <3>2. pending'[c] = {after(m) : m \in pending[c]}
      BY <1>1, <2>2
    <3> HIDE DEF after
    <3>3. \A m, n \in pending[c] : after(m).id = after(n).id \/ after(m).at = after(n).at => m = n
      BY <1>0, <1>2, <1>3, <3>1
    <3> QED BY <3>2, <3>3
  <2> QED BY <2>1, <2>2
<1>6. \A m \in pending'[c] : m.id \in 1..Len(author') /\ author'[m.id] = c /\ m.at <= clock'
  <2>1. CASE e.prev = 0
    <3>1. fresh.id = e.id /\ fresh.at = clock + 1
      OBVIOUS
    <3>2. pending'[c] = pending[c] \cup {fresh}
      BY <1>1, <2>1
    <3> HIDE DEF fresh
    <3>3. fresh.id \in 1..Len(author) /\ author[fresh.id] = c
      BY <1>2, <3>1
    <3> HIDE DEF e
    <3>4. \A m \in pending[c] : m.at <= clock + 1
      BY <1>0, <1>3
    <3>5. fresh.at <= clock + 1
      BY <1>0, <3>1
    <3> QED BY <1>0, <1>1, <1>3, <3>2, <3>3, <3>4, <3>5
  <2>2. CASE e.prev # 0
    <3>1. \A m \in pending[c] : /\ after(m).id = m.id
                                /\ after(m).at = IF m.id = e.prev THEN clock + 1 ELSE m.at
      BY <1>3 DEF Commit
    <3>2. pending'[c] = {after(m) : m \in pending[c]}
      BY <1>1, <2>2
    <3> HIDE DEF after
    <3>3. \A m \in pending[c] : after(m).id = m.id /\ after(m).at <= clock + 1
      BY <1>0, <1>3, <3>1
    <3>4. \A n \in pending'[c] : \E m \in pending[c] : n.id = m.id /\ n.at <= clock + 1
      BY <3>2, <3>3
    <3>5. author' = author /\ clock' = clock + 1
      BY <1>0, <1>1
    <3> HIDE DEF e
    <3> QED BY <1>3, <3>4, <3>5
  <2> QED BY <2>1, <2>2
<1>7. \A s \in Slot : \A m, n \in round'[c][s].todo : m.at = n.at => m = n
  BY <1>1, <1>2
<1>8. Told(c)'
  BY <1>1, <1>5, <1>6, <1>7 DEF Told
<1> QED BY <1>4, <1>8 DEF ToldInv

LEMMA RoundTold ==
  ASSUME IInv, ToldInv, NEW c \in Client, NEW s \in Slot, Rounds(c, s)
  PROVE  ToldInv'
<1>1. /\ \A d \in Client, t \in Slot : d # c \/ t # s => round'[d][t] = round[d][t]
      /\ round'[c][s].todo \subseteq round[c][s].todo \/ round'[c][s].todo \subseteq pending[c]
      /\ author' = author /\ editing' = editing
      /\ \A d \in Client : pending'[d] \subseteq pending[d]
      /\ clock' \in {clock, clock + 1}
  BY RoundMoves
<1>2. ASSUME NEW d \in Client PROVE Told(d)'
  <2>1. Told(d)
    BY DEF ToldInv
  <2>2. \A m \in pending[d] : m.at \in Nat /\ clock \in Nat
    BY DEF IInv, PlainInv, QueuesInv, Commit, Time
  <2>3. \A m \in pending'[d] : m.id \in 1..Len(author') /\ author'[m.id] = d /\ m.at <= clock'
    BY <1>1, <2>1, <2>2 DEF Told
  <2>4. \A t \in Slot : round'[d][t].todo \subseteq round[d][t].todo \/ round'[d][t].todo \subseteq pending[d]
    BY <1>1
  <2>5. \A t \in Slot : \A m, n \in round'[d][t].todo : m.at = n.at => m = n
    BY <2>1, <2>4 DEF Told
  <2> QED BY <1>1, <2>1, <2>3, <2>5 DEF Told
<1> QED BY <1>2 DEF ToldInv

\* A row is written by a delete or an upsert, and with a new time.
LEMMA RowMoves ==
  ASSUME IInv, NEW c \in Client, NEW s \in Slot, Rounds(c, s)
  PROVE  \/ row' = row
         \/ \E m \in round[c][s].todo :
              /\ ApplyDelete(c, s, m) \/ UpsertRow(c, s, m)
              /\ m.obj \in Object /\ clock' = clock + 1
              /\ \A o \in Object \ {m.obj} : row'[o] = row[o]
              /\ \/ row'[m.obj] = row[m.obj]
                 \/ row'[m.obj].exists /\ row'[m.obj].updated = clock + 1
<1>1. ASSUME NEW m \in round[c][s].todo, ApplyDelete(c, s, m) \/ UpsertRow(c, s, m)
      PROVE  /\ m.obj \in Object /\ clock' = clock + 1
             /\ \A o \in Object \ {m.obj} : row'[o] = row[o]
             /\ \/ row'[m.obj] = row[m.obj]
                \/ row'[m.obj].exists /\ row'[m.obj].updated = clock + 1
  <2>1. m.obj \in Object
    BY DEF IInv, RoundsInv, GoodRound, GoodQueue, Commit
  <2>2. row \in [Object -> Row] /\ row[m.obj] \in Row
    BY <2>1 DEF IInv, RowsInv
  <2>3. CASE ApplyDelete(c, s, m)
    <3>1. /\ row' = [row EXCEPT ![m.obj] = IF row[m.obj].exists
                                  THEN [row[m.obj] EXCEPT !.deleted = TRUE, !.updated = clock + 1]
                                  ELSE row[m.obj]]
          /\ clock' = clock + 1
      BY <2>3 DEF ApplyDelete
    <3> QED BY <2>1, <2>2, <3>1 DEF Row
  <2>4. CASE UpsertRow(c, s, m)
    BY <2>1, <2>2, <2>4 DEF UpsertRow
  <2> QED BY <1>1, <2>3, <2>4
<1>2. ASSUME ~ \E m \in round[c][s].todo : ApplyDelete(c, s, m) \/ UpsertRow(c, s, m)
      PROVE  row' = row
  BY <1>2 DEF Rounds, StartSync, StartPull, Serve, Receive, RefuseUnauthorized, FetchRow,
     QueryChanges, Reply, Store, DeleteConfirmed, ApplyRestored, ApplyChange, FinishRound, Lose
<1> QED BY <1>1, <1>2

LEMMA StampedKept ==
  ASSUME IInv, StampedInv, [Next]_vars
  PROVE  StampedInv'
<1>1. clock \in Nat /\ \A o \in Object : row[o] \in Row /\ row[o].updated \in Nat
  BY DEF IInv, PlainInv, RowsInv, Row, Time
<1>2. ASSUME row' = row, clock' \in {clock, clock + 1} PROVE StampedInv'
  BY <1>1, <1>2 DEF StampedInv
<1>3. CASE UNCHANGED vars
  BY <1>2, <1>3 DEF vars
<1>4. ASSUME NEW c \in Client, Edits(c) PROVE StampedInv'
  BY <1>2, <1>4 DEF Edits, Insert, Update, Delete, StartEdit, QueueCommit
<1>5. ASSUME NEW c \in Client, NEW s \in Slot, Rounds(c, s) PROVE StampedInv'
  <2>1. CASE row' = row
    BY <1>2, <1>5, <2>1, RoundMoves
  <2>2. ASSUME NEW m \in round[c][s].todo, m.obj \in Object, clock' = clock + 1,
               \A o \in Object \ {m.obj} : row'[o] = row[o],
               \/ row'[m.obj] = row[m.obj]
               \/ row'[m.obj].exists /\ row'[m.obj].updated = clock + 1
        PROVE  StampedInv'
    BY <1>1, <2>2 DEF StampedInv
  <2> QED BY <1>5, <2>1, <2>2, RowMoves
<1> QED BY <1>3, <1>4, <1>5 DEF Next, Rounds

LEMMA ToldKept ==
  ASSUME IInv, ToldInv, [Next]_vars
  PROVE  ToldInv'
<1>1. CASE UNCHANGED vars
  BY <1>1 DEF vars, ToldInv, Told
<1>2. ASSUME NEW c \in Client, Edits(c) PROVE ToldInv'
  BY <1>2, EditTold, QueueTold DEF Edits, Insert, Update, Delete
<1>3. ASSUME NEW c \in Client, NEW s \in Slot, Rounds(c, s) PROVE ToldInv'
  BY <1>3, RoundTold
<1> QED BY <1>1, <1>2, <1>3 DEF Next, Rounds

\* The commits of a device are its own, each with an id and a time that none of its others
\* has, and no row is stamped later than the clock.
THEOREM SyncStamped == Spec => [](ToldInv /\ StampedInv)
<1>1. IInv /\ ToldInv /\ StampedInv /\ [Next]_vars => (ToldInv /\ StampedInv)'
  BY ToldKept, StampedKept
<1> QED BY <1>1, InitTold, SyncIInv, PTL DEF Spec

-----------------------------------------------------------------------------
(* What a request has fetched.                                             *)

\* A round that a step leaves at "fetched" has just fetched the row of its next commit.
LEMMA FetchedFrom ==
  ASSUME IInv, NEW c \in Client, NEW s \in Slot, Rounds(c, s), round'[c][s].phase = "fetched"
  PROVE  /\ row' = row /\ round'[c][s].todo = round[c][s].todo
         /\ \E m \in round[c][s].todo :
              /\ IsNext(m, round[c][s].todo) /\ ~ServerWins(m, row[m.obj])
              /\ round'[c][s].fetched = row[m.obj]
<1> DEFINE r == round[c][s]
<1>1. r \in Round
  BY DEF IInv, RoundsInv
<1>2. \A x : SetRound(c, s, x) => round'[c][s] = x
  BY RoundAfter
<1>3. ASSUME NEW m \in r.todo, FetchRow(c, s, m), ~ServerWins(m, row[m.obj])
      PROVE  /\ row' = row /\ round'[c][s].todo = r.todo /\ IsNext(m, r.todo)
             /\ round'[c][s].fetched = row[m.obj]
  <2>1. SetRound(c, s, [r EXCEPT !.phase = "fetched", !.fetched = row[m.obj]])
    BY <1>3 DEF FetchRow
  <2>2. round'[c][s].todo = r.todo /\ round'[c][s].fetched = row[m.obj]
    BY <1>1, <1>2, <2>1 DEF Round
  <2> QED BY <1>3, <2>2 DEF FetchRow
<1>4. ASSUME NEW m \in r.todo, FetchRow(c, s, m) PROVE ~ServerWins(m, row[m.obj])
  <2>1. SUFFICES ASSUME ServerWins(m, row[m.obj]) PROVE FALSE
    OBVIOUS
  <2>2. round'[c][s] = Restore(r, m, row[m.obj]) /\ r.phase = "serving"
    BY <1>2, <1>4, <2>1 DEF FetchRow
  <2>3. round'[c][s].phase = "serving"
    BY <1>1, <2>2 DEF Restore, Round
  <2> QED BY <2>3
<1>5. ASSUME NEW m \in r.todo, RefuseUnauthorized(c, s, m) PROVE FALSE
  <2>1. round'[c][s] \in {Restore(r, m, row[m.obj]), Drop(r, m)} /\ r.phase = "serving"
    BY <1>2, <1>5 DEF RefuseUnauthorized
  <2>2. round'[c][s].phase = "serving"
    BY <1>1, <2>1 DEF Restore, Drop, Round
  <2> QED BY <2>2
<1>6. ASSUME NEW m \in r.todo, ApplyDelete(c, s, m) \/ UpsertRow(c, s, m) PROVE FALSE
  <2>1. round'[c][s] = Confirm(r, m)
    BY <1>2, <1>6 DEF ApplyDelete, UpsertRow
  <2>2. round'[c][s].phase = "serving"
    BY <1>1, <2>1 DEF Confirm, Round
  <2> QED BY <2>2
<1>7. ASSUME Receive(c, s) \/ QueryChanges(c, s) \/ Reply(c, s) \/ DeleteConfirmed(c, s)
             \/ \E o \in Object : ApplyRestored(c, s, o) \/ ApplyChange(c, s, o)
      PROVE  FALSE
  <2>1. round'[c][s].phase \in {"serving", "queried", "replied", "confirmed"}
    BY <1>1, <1>2, <1>7 DEF Receive, QueryChanges, Reply, DeleteConfirmed, ApplyRestored,
       ApplyChange, Round
  <2> QED BY <2>1
<1>8. ASSUME StartSync(c, s) \/ StartPull(c, s) \/ FinishRound(c, s) \/ Lose(c, s) PROVE FALSE
  <2>1. CASE StartSync(c, s)
    BY <2>1, SentRound DEF StartSync
  <2>2. CASE StartPull(c, s)
    BY <1>2, <2>2 DEF StartPull, IdleRound
  <2>3. CASE FinishRound(c, s)
    <3>1. round'[c][s].phase = "sent" \/ round'[c][s] = IdleRound
      BY <1>2, <2>3, SentRound DEF FinishRound
    <3> QED BY <3>1 DEF IdleRound
  <2>4. CASE Lose(c, s)
    <3>1. round'[c][s] = IdleRound
      BY <1>2, <2>4 DEF Lose
    <3> QED BY <3>1 DEF IdleRound
  <2> QED BY <1>8, <2>1, <2>2, <2>3, <2>4
<1> QED BY <1>3, <1>4, <1>5, <1>6, <1>7, <1>8 DEF Rounds, Serve, Store

\* A request has one next commit.
LEMMA NextIsOne ==
  ASSUME IInv, ToldInv, NEW c \in Client, NEW s \in Slot,
         NEW m, NEW n, IsNext(m, round[c][s].todo), IsNext(n, round[c][s].todo)
  PROVE  m = n
<1>1. m.at \in Nat /\ n.at \in Nat
  BY DEF IInv, RoundsInv, GoodRound, GoodQueue, Commit, Time, IsNext
<1>2. m.at = n.at
  BY <1>1 DEF IsNext
<1> QED BY <1>2 DEF ToldInv, Told, IsNext

\* What a request fetched is the row, or was stamped before the write that replaced it.
LEMMA FetchedStays ==
  ASSUME IInv, StampedInv, NEW c \in Client, NEW s \in Slot, Rounds(c, s),
         NEW old \in Row, NEW o \in Object, old = row[o] \/ old.updated < row[o].updated
  PROVE  old = row'[o] \/ old.updated < row'[o].updated
<1>1. old.updated \in Nat /\ row[o].updated \in Nat /\ clock \in Nat
  BY DEF IInv, PlainInv, RowsInv, Row, Time
<1>2. row[o].updated <= clock
  BY DEF StampedInv
<1>3. row'[o] = row[o] \/ row'[o].updated = clock + 1
  BY RowMoves
<1> QED BY <1>1, <1>2, <1>3

LEMMA FetchedKept ==
  ASSUME IInv, ToldInv, StampedInv, FetchedInv, [Next]_vars
  PROVE  FetchedInv'
<1>1. CASE UNCHANGED vars
  BY <1>1 DEF vars, FetchedInv
<1>2. ASSUME NEW c \in Client, Edits(c) PROVE FetchedInv'
  <2>1. UNCHANGED <<row, round>>
    BY <1>2 DEF Edits, Insert, Update, Delete, StartEdit, QueueCommit
  <2> QED BY <2>1 DEF FetchedInv
<1>3. ASSUME NEW c \in Client, NEW s \in Slot, Rounds(c, s) PROVE FetchedInv'
  <2> SUFFICES ASSUME NEW d \in Client, NEW t \in Slot, round'[d][t].phase = "fetched"
               PROVE  /\ ~round'[d][t].fetched.deleted
                      /\ \A m \in round'[d][t].todo : IsNext(m, round'[d][t].todo) =>
                           \/ round'[d][t].fetched = row'[m.obj]
                           \/ round'[d][t].fetched.updated < row'[m.obj].updated
    BY DEF FetchedInv
  <2>1. CASE d = c /\ t = s
    <3>1. PICK m \in round[c][s].todo :
            /\ IsNext(m, round[c][s].todo) /\ ~ServerWins(m, row[m.obj])
            /\ round'[c][s].fetched = row[m.obj]
      BY <1>3, <2>1, FetchedFrom
    <3>2. row' = row /\ round'[c][s].todo = round[c][s].todo
      BY <1>3, <2>1, FetchedFrom
    <3>3. m.obj \in Object
      BY DEF IInv, RoundsInv, GoodRound, GoodQueue, Commit
    <3>4. ~row[m.obj].deleted
      BY <3>1, <3>3 DEF StampedInv, ServerWins
    <3>5. \A n : IsNext(n, round[c][s].todo) => n = m
      BY <3>1, NextIsOne
    <3> QED BY <2>1, <3>1, <3>2, <3>4, <3>5
  <2>2. CASE ~(d = c /\ t = s)
    <3>1. round'[d][t] = round[d][t]
      BY <1>3, <2>2, RoundMoves
    <3>2. round[d][t].fetched \in Row /\ \A m \in round[d][t].todo : m.obj \in Object
      BY DEF IInv, RoundsInv, GoodRound, GoodQueue, GoodRow, Commit
    <3>3. /\ ~round[d][t].fetched.deleted
          /\ \A m \in round[d][t].todo : IsNext(m, round[d][t].todo) =>
               \/ round[d][t].fetched = row[m.obj]
               \/ round[d][t].fetched.updated < row[m.obj].updated
      BY <3>1 DEF FetchedInv
    <3> QED BY <1>3, <3>1, <3>2, <3>3, FetchedStays
  <2> QED BY <2>1, <2>2
<1> QED BY <1>1, <1>2, <1>3 DEF Next, Rounds

\* An upsert undoes an earlier write only when it had fetched the row before that write.
LEMMA UpsertUndoes ==
  ASSUME IInv, FetchedInv, NEW c \in Client, NEW s \in Slot, NEW m \in round[c][s].todo,
         UpsertRow(c, s, m), NEW o \in Object, Undone(o)
  PROVE  Overtaken(o)
<1> DEFINE r == round[c][s]
<1>1. m.obj \in Object /\ m.payload \in Fields /\ row \in [Object -> Row]
  BY DEF IInv, RowsInv, RoundsInv, GoodRound, GoodQueue, Commit
<1>2. /\ r.phase = "fetched" /\ IsNext(m, r.todo)
      /\ row' = [row EXCEPT ![m.obj] =
           [exists |-> TRUE, val |-> Merge(r.fetched.val, m.payload),
            updated |-> clock + 1, deleted |-> FALSE]]
  BY DEF UpsertRow
<1>3. o = m.obj
  BY <1>1, <1>2 DEF Undone
<1>4. r.fetched # row[o]
  <2> SUFFICES ASSUME r.fetched = row[o] PROVE FALSE
    OBVIOUS
  <2>1. ~row[o].deleted
    BY <1>2 DEF FetchedInv
  <2>2. PICK f \in Field :
          /\ row'[o].val[f] # row[o].val[f]
          /\ \A d \in Client, t \in Slot : \A n \in round[d][t].todo :
               IsNext(n, round[d][t].todo) => n.payload[f] # row'[o].val[f]
    BY <2>1 DEF Undone
  <2>3. row'[o].val = Merge(row[o].val, m.payload)
    BY <1>1, <1>2, <1>3
  <2>4. row'[o].val[f] = m.payload[f]
    BY <1>1, <2>2, <2>3 DEF Merge
  <2> QED BY <1>2, <2>2, <2>4
<1>5. r.fetched.updated < row[o].updated
  BY <1>2, <1>3, <1>4 DEF FetchedInv
<1> QED BY <1>2, <1>3, <1>5 DEF Overtaken

\* A delete undoes nothing.
LEMMA DeleteUndoesNothing ==
  ASSUME IInv, NEW c \in Client, NEW s \in Slot, NEW m \in round[c][s].todo,
         ApplyDelete(c, s, m), NEW o \in Object
  PROVE  ~Undone(o)
<1>1. m.obj \in Object /\ row \in [Object -> Row] /\ row[o] \in Row
  BY DEF IInv, RowsInv, RoundsInv, GoodRound, GoodQueue, Commit
<1>2. row' = [row EXCEPT ![m.obj] = IF row[m.obj].exists
                THEN [row[m.obj] EXCEPT !.deleted = TRUE, !.updated = clock + 1]
                ELSE row[m.obj]]
  BY DEF ApplyDelete
<1>3. row'[o].val = row[o].val /\ (row[o].deleted => row'[o].deleted)
  BY <1>1, <1>2 DEF Row
<1> QED BY <1>3 DEF Undone

\* However many requests are served at a time, and whatever answers are lost and commits
\* sent again: a deleted row comes back, or a field changes to something no commit at hand
\* says, only by a request that fetched the row before the write it undoes.
THEOREM SyncUndoneOnlyIfOvertaken == Spec => UndoneOnlyIfOvertaken
<1> DEFINE Covered == \A o \in Object : Undone(o) => Overtaken(o)
<1>1. ASSUME IInv, FetchedInv, [Next]_vars PROVE [Covered]_vars
  <2>1. CASE row' = row
    BY <2>1 DEF Undone
  <2>2. ASSUME NEW c \in Client, NEW s \in Slot, Rounds(c, s), row' # row PROVE Covered
    <3>1. PICK m \in round[c][s].todo : ApplyDelete(c, s, m) \/ UpsertRow(c, s, m)
      BY <1>1, <2>2, RowMoves
    <3>2. CASE ApplyDelete(c, s, m)
      BY <1>1, <3>2, DeleteUndoesNothing
    <3>3. CASE UpsertRow(c, s, m)
      BY <1>1, <3>3, UpsertUndoes
    <3> QED BY <3>1, <3>2, <3>3
  <2>3. ASSUME NEW c \in Client, Edits(c) PROVE row' = row
    BY <2>3 DEF Edits, Insert, Update, Delete, StartEdit, QueueCommit
  <2> QED BY <1>1, <2>1, <2>2, <2>3 DEF Next, Rounds, vars
<1>2. Init => FetchedInv
  BY DEF Init, IdleRound, FetchedInv
<1>3. IInv /\ ToldInv /\ StampedInv /\ FetchedInv /\ [Next]_vars => FetchedInv'
  BY FetchedKept
<1>4. Spec => []FetchedInv
  BY <1>2, <1>3, SyncIInv, SyncStamped, PTL DEF Spec
<1>5. Spec => [][Covered]_vars
  BY <1>1, <1>4, SyncIInv, PTL DEF Spec
<1> QED BY <1>5 DEF UndoneOnlyIfOvertaken

-----------------------------------------------------------------------------
(* What a round has of the rows a device watches.                          *)

\* A round that begins or has ended.
Started(r, n, pulled) ==
  /\ n.phase \in {"idle", "sent"} /\ n.applied = {} /\ n.time = 0
  /\ \A o \in Object : ~n.restored[o].exists
  /\ n.phase = "idle" => n.since = NeverPulled
  /\ n.phase = "sent" => n.since = pulled \/ (r.phase # "idle" /\ n.since = r.since)

\* A request the server takes up or works on.
Served(r, n) ==
  /\ r.phase # "idle" /\ n.phase \in {"serving", "fetched"}
  /\ n.since = r.since /\ n.time = r.time
  /\ \A o \in n.applied : o \in r.applied \/ \E m \in r.todo : m.obj = o
  /\ \A o \in Object : n.restored[o].exists =>
       r.restored[o].exists \/ \E m \in r.todo : m.obj = o

Later(c, s) ==
  \/ QueryChanges(c, s) \/ Reply(c, s) \/ DeleteConfirmed(c, s)
  \/ \E o \in Object : ApplyRestored(c, s, o) \/ ApplyChange(c, s, o)

LEMMA IdleIsStarted == ASSUME NEW r, NEW pulled PROVE Started(r, IdleRound, pulled)
BY DEF Started, IdleRound, NoRow

LEMMA SentIsStarted ==
  ASSUME IInv, NEW c \in Client, NEW s \in Slot, NEW batch, NEW since, Send(c, s, batch, since),
         since = lastPulled[c] \/ (round[c][s].phase # "idle" /\ since = round[c][s].since)
  PROVE  Started(round[c][s], round'[c][s], lastPulled[c])
<1> DEFINE full == (Cardinality(batch) = BatchSize)
           n == [IdleRound EXCEPT !.phase = "sent", !.todo = batch, !.since = since, !.full = full]
<1>1. SetRound(c, s, n)
  BY DEF Send
<1> HIDE DEF full
<1>2. Started(round[c][s], n, lastPulled[c])
  BY DEF Started, IdleRound, NoRow
<1> HIDE DEF n
<1> QED BY <1>1, <1>2, RoundAfter

\* A commit taken, refused or confirmed leaves a request being served.
LEMMA TakenIsServed ==
  ASSUME NEW r \in Round, NEW m \in r.todo, r.phase \in {"serving", "fetched"}, NEW current
  PROVE  /\ Served(r, Restore(r, m, current))
         /\ Served(r, Drop(r, m))
         /\ Served(r, Confirm(r, m))
<1>1. /\ Restore(r, m, current).phase = r.phase /\ Restore(r, m, current).since = r.since
      /\ Restore(r, m, current).time = r.time /\ Restore(r, m, current).applied = r.applied
      /\ \A o \in Object \ {m.obj} : Restore(r, m, current).restored[o] = r.restored[o]
  BY DEF Restore, Round
<1>2. /\ Drop(r, m).phase = r.phase /\ Drop(r, m).since = r.since /\ Drop(r, m).time = r.time
      /\ Drop(r, m).applied = r.applied /\ Drop(r, m).restored = r.restored
  BY DEF Drop, Round
<1>3. /\ Confirm(r, m).phase = "serving" /\ Confirm(r, m).since = r.since
      /\ Confirm(r, m).time = r.time /\ Confirm(r, m).applied = r.applied \cup {m.obj}
      /\ Confirm(r, m).restored = r.restored
  BY DEF Confirm, Round
<1>4. Served(r, Restore(r, m, current))
  BY <1>1 DEF Served
<1>5. Served(r, Drop(r, m))
  BY <1>2 DEF Served
<1>6. Served(r, Confirm(r, m))
  BY <1>3 DEF Served
<1> QED BY <1>4, <1>5, <1>6

\* The steps of a round, as far as what it knows of the rows is concerned.
LEMMA RoundKinds ==
  ASSUME IInv, NEW c \in Client, NEW s \in Slot, Rounds(c, s)
  PROVE  \/ Started(round[c][s], round'[c][s], lastPulled[c])
         \/ Served(round[c][s], round'[c][s])
         \/ Later(c, s)
<1> DEFINE r == round[c][s]
           Goal == Started(r, round'[c][s], lastPulled[c]) \/ Served(r, round'[c][s]) \/ Later(c, s)
<1>1. r \in Round
  BY DEF IInv, RoundsInv
<1>2. \A x : SetRound(c, s, x) => round'[c][s] = x
  BY RoundAfter
<1>3. CASE StartSync(c, s)
  BY <1>3, SentIsStarted DEF StartSync
<1>4. CASE StartPull(c, s)
  <2> DEFINE n == [IdleRound EXCEPT !.phase = "sent", !.since = lastPulled[c]]
  <2>1. Started(r, n, lastPulled[c])
    BY DEF Started, IdleRound, NoRow
  <2>2. round'[c][s] = n
    BY <1>2, <1>4 DEF StartPull
  <2> QED BY <2>1, <2>2
<1>5. CASE Receive(c, s)
  BY <1>1, <1>2, <1>5 DEF Receive, Served, Round
<1>6. ASSUME NEW m \in r.todo, RefuseUnauthorized(c, s, m) PROVE Goal
  <2>1. r.phase = "serving" /\ round'[c][s] \in {Restore(r, m, row[m.obj]), Drop(r, m)}
    BY <1>2, <1>6 DEF RefuseUnauthorized
  <2> QED BY <1>1, <2>1, TakenIsServed
<1>7. ASSUME NEW m \in r.todo, FetchRow(c, s, m) PROVE Goal
  <2>1. r.phase = "serving"
    BY <1>7 DEF FetchRow
  <2>2. CASE ServerWins(m, row[m.obj])
    <3>1. round'[c][s] = Restore(r, m, row[m.obj])
      BY <1>2, <1>7, <2>2 DEF FetchRow
    <3> QED BY <1>1, <2>1, <3>1, TakenIsServed
  <2>3. CASE ~ServerWins(m, row[m.obj])
    <3>1. round'[c][s] = [r EXCEPT !.phase = "fetched", !.fetched = row[m.obj]]
      BY <1>2, <1>7, <2>3 DEF FetchRow
    <3> QED BY <1>1, <2>1, <3>1 DEF Served, Round
  <2> QED BY <2>2, <2>3
<1>8. ASSUME NEW m \in r.todo, ApplyDelete(c, s, m) \/ UpsertRow(c, s, m) PROVE Goal
  <2>1. r.phase \in {"serving", "fetched"} /\ round'[c][s] = Confirm(r, m)
    BY <1>2, <1>8 DEF ApplyDelete, UpsertRow
  <2> QED BY <1>1, <2>1, TakenIsServed
<1>9. CASE FinishRound(c, s)
  <2>1. CASE r.full /\ pending[c] # {}
    <3>1. PICK batch : Send(c, s, batch, r.since)
      BY <1>9, <2>1 DEF FinishRound
    <3> QED BY <1>9, <3>1, SentIsStarted DEF FinishRound
  <2>2. CASE ~(r.full /\ pending[c] # {})
    <3>1. round'[c][s] = IdleRound
      BY <1>2, <1>9, <2>2 DEF FinishRound
    <3> QED BY <3>1, IdleIsStarted
  <2> QED BY <2>1, <2>2
<1>10. CASE Lose(c, s)
  <2>1. round'[c][s] = IdleRound
    BY <1>2, <1>10 DEF Lose
  <2> QED BY <2>1, IdleIsStarted
<1> QED BY <1>3, <1>4, <1>5, <1>6, <1>7, <1>8, <1>9, <1>10 DEF Rounds, Serve, Store, Later

\* The steps that come after the writes: what they do to the round and to the rows the
\* device shows.
Tells(r, n) ==
  /\ n.since = r.since /\ n.applied = r.applied
  /\ n.phase \in {"queried", "replied", "confirmed"}
  /\ n.time = r.time \/ n.time = clock
  /\ \A o \in Object : n.restored[o].exists => r.restored[o].exists
Onward(r, n) ==
  /\ r.phase \in {"queried", "replied", "confirmed"}
  /\ r.phase = "queried" \/ (n.time = r.time /\ n.phase # "queried")
Stores(r, n, shown, showing, o) ==
  \/ n.changes[o] = r.changes[o] /\ showing = shown
  \/ n.changes[o] = r.changes[o] /\ r.restored[o].exists
  \/ r.changes[o].exists /\ n.changes[o] = NoRow /\ showing = Received(r.changes[o])
LEMMA LaterMoves ==
  ASSUME IInv, NEW c \in Client, NEW s \in Slot, Later(c, s)
  PROVE  /\ Tells(round[c][s], round'[c][s])
         /\ \/ /\ round[c][s].phase = "serving" /\ local' = local
               /\ \A o \in Object : round'[c][s].changes[o] =
                    IF Changed(row[o], round[c][s].since) /\ o \notin round[c][s].applied
                      THEN row[o] ELSE NoRow
            \/ /\ Onward(round[c][s], round'[c][s])
               /\ \A o \in Object : Stores(round[c][s], round'[c][s], local[c][o], local'[c][o], o)
<1> DEFINE r == round[c][s]
           n == round'[c][s]
           Goal == Tells(r, n) /\ Onward(r, n)
                   /\ \A o \in Object : Stores(r, n, local[c][o], local'[c][o], o)
<1>1. r \in Round /\ r.restored \in [Object -> Row] /\ r.changes \in [Object -> Row]
  BY DEF IInv, RoundsInv, Round
<1>2. \A x : SetRound(c, s, x) => round'[c][s] = x
  BY RoundAfter
<1>3. local \in [Client -> [Object -> LocalRow]]
  BY DEF IInv, LocalsInv
<1>4. ~NoRow.exists
  BY DEF NoRow
<1>5. CASE QueryChanges(c, s)
  <2> DEFINE changes == [o \in Object |->
                IF Changed(row[o], r.since) /\ o \notin r.applied THEN row[o] ELSE NoRow]
  <2>1. round'[c][s] = [r EXCEPT !.phase = "queried", !.changes = changes] /\ r.phase = "serving"
    BY <1>2, <1>5 DEF QueryChanges
  <2>2. local' = local
    BY <1>5 DEF QueryChanges, clientVars
  <2> HIDE DEF changes
  <2>3. /\ round'[c][s].since = r.since /\ round'[c][s].applied = r.applied
        /\ round'[c][s].phase = "queried" /\ round'[c][s].time = r.time
        /\ round'[c][s].restored = r.restored /\ round'[c][s].changes = changes
    BY <1>1, <2>1 DEF Round
  <2> QED BY <2>1, <2>2, <2>3 DEF changes, Tells
<1>6. CASE Reply(c, s)
  <2>1. n = [r EXCEPT !.phase = "replied", !.time = clock] /\ r.phase = "queried" /\ local' = local
    BY <1>2, <1>6 DEF Reply, clientVars
  <2>2. Goal
    BY <1>1, <2>1 DEF Round, Tells, Onward, Stores
  <2> QED BY <2>2
<1>7. CASE DeleteConfirmed(c, s)
  <2>1. n = [r EXCEPT !.phase = "confirmed"] /\ r.phase = "replied" /\ local' = local
    BY <1>2, <1>7 DEF DeleteConfirmed
  <2>2. Goal
    BY <1>1, <2>1 DEF Round, Tells, Onward, Stores
  <2> QED BY <2>2
<1>8. ASSUME NEW p \in Object, ApplyRestored(c, s, p) PROVE Goal
  <2>1. /\ r.phase = "confirmed" /\ n = [r EXCEPT !.restored[p] = NoRow]
        /\ r.restored[p].exists
        /\ \A o \in Object \ {p} : local'[c][o] = local[c][o]
    BY <1>2, <1>3, <1>8 DEF ApplyRestored, StoreRow
  <2>2. /\ n.since = r.since /\ n.applied = r.applied /\ n.phase = "confirmed" /\ n.time = r.time
        /\ n.changes = r.changes /\ \A o \in Object \ {p} : n.restored[o] = r.restored[o]
    BY <1>1, <2>1 DEF Round
  <2> QED BY <2>1, <2>2 DEF Tells, Onward, Stores
<1>9. ASSUME NEW p \in Object, ApplyChange(c, s, p) PROVE Goal
  <2>1. /\ r.phase = "confirmed" /\ n = [r EXCEPT !.changes[p] = NoRow]
        /\ r.changes[p].exists /\ local'[c][p] = Received(r.changes[p])
        /\ \A o \in Object \ {p} : local'[c][o] = local[c][o]
    BY <1>2, <1>3, <1>9 DEF ApplyChange, StoreRow
  <2>2. /\ n.since = r.since /\ n.applied = r.applied /\ n.phase = "confirmed" /\ n.time = r.time
        /\ n.restored = r.restored /\ n.changes[p] = NoRow
        /\ \A o \in Object \ {p} : n.changes[o] = r.changes[o]
    BY <1>1, <2>1 DEF Round
  <2> QED BY <2>1, <2>2 DEF Tells, Onward, Stores
<1> QED BY <1>5, <1>6, <1>7, <1>8, <1>9 DEF Later

-----------------------------------------------------------------------------
(* Watermarks and own rows.                                                *)

\* Only the end of a round moves last_pulled_at.
LEMMA PullMoves ==
  ASSUME IInv, NEW c \in Client, NEW s \in Slot, Rounds(c, s)
  PROVE  \A d \in Client :
           \/ lastPulled'[d] = lastPulled[d]
           \/ d = c /\ lastPulled'[d] = round[c][s].time /\ round[c][s].phase = "confirmed"
              /\ NoneLeft(round[c][s].changes)
<1>1. CASE FinishRound(c, s)
  BY <1>1 DEF FinishRound, PulledTo, IInv, PlainInv
<1>2. CASE ~FinishRound(c, s)
  BY <1>2 DEF Rounds, StartSync, StartPull, Serve, Receive, RefuseUnauthorized, ApplyDelete,
     FetchRow, UpsertRow, QueryChanges, Reply, Store, DeleteConfirmed, ApplyRestored, ApplyChange,
     Lose, clientVars
<1> QED BY <1>1, <1>2

LEMMA PastKept ==
  ASSUME IInv, PastInv, [Next]_vars
  PROVE  PastInv'
<1>1. /\ clock \in Nat
      /\ \A c \in Client : lastPulled[c] \in Nat \cup {-1}
      /\ \A c \in Client, s \in Slot : round[c][s].since \in Nat \cup {-1} /\ round[c][s].time \in Nat
  BY DEF IInv, PlainInv, RoundsInv, Round, Time, NeverPulled
<1>2. CASE UNCHANGED vars
  BY <1>2 DEF vars, PastInv
<1>3. ASSUME NEW c \in Client, Edits(c) PROVE PastInv'
  <2>1. UNCHANGED <<lastPulled, round>> /\ clock' \in {clock, clock + 1}
    BY <1>3 DEF Edits, Insert, Update, Delete, StartEdit, QueueCommit
  <2> QED BY <1>1, <2>1 DEF PastInv
<1>4. ASSUME NEW c \in Client, NEW s \in Slot, Rounds(c, s) PROVE PastInv'
  <2>1. clock' \in {clock, clock + 1}
    BY <1>4, RoundMoves
  <2>2. \A d \in Client : lastPulled'[d] <= clock'
    BY <1>1, <1>4, <2>1, PullMoves DEF PastInv
  <2>3. round'[c][s].since <= clock' /\ round'[c][s].time <= clock'
    <3>1. CASE Started(round[c][s], round'[c][s], lastPulled[c])
      BY <1>1, <2>1, <3>1 DEF Started, PastInv, NeverPulled
    <3>2. CASE Served(round[c][s], round'[c][s])
      BY <1>1, <2>1, <3>2 DEF Served, PastInv
    <3>3. CASE Later(c, s)
      <4>1. /\ round'[c][s].since = round[c][s].since
            /\ round'[c][s].time = round[c][s].time \/ round'[c][s].time = clock
        BY <3>3, LaterMoves DEF Tells
      <4> QED BY <1>1, <2>1, <4>1 DEF PastInv
    <3> QED BY <1>4, <3>1, <3>2, <3>3, RoundKinds
  <2>4. \A d \in Client, t \in Slot : d # c \/ t # s =>
          round'[d][t].since <= clock' /\ round'[d][t].time <= clock'
    BY <1>1, <1>4, <2>1, RoundMoves DEF PastInv
  <2> QED BY <2>2, <2>3, <2>4 DEF PastInv
<1> QED BY <1>2, <1>3, <1>4 DEF Next, Rounds

LEMMA EditOwn ==
  ASSUME IInv, OwnInv, NEW c \in Client, NEW op, NEW o \in Object, NEW payload, NEW new,
         StartEdit(c, op, o, payload, new)
  PROVE  OwnInv'
<1>1. /\ UNCHANGED <<pending, round>>
      /\ touched' = [touched EXCEPT ![c] = @ \cup {o}]
      /\ editing'[c].obj = o /\ \A d \in Client \ {c} : editing'[d] = editing[d]
  BY DEF StartEdit, IInv, EditsInv
<1>2. o \in touched'[c] /\ \A d \in Client : touched[d] \subseteq touched'[d]
  BY <1>1 DEF IInv, PlainInv
<1> QED BY <1>1, <1>2 DEF OwnInv, OwnRows

LEMMA QueueOwn ==
  ASSUME IInv, OwnInv, NEW c \in Client, QueueCommit(c)
  PROVE  OwnInv'
<1> DEFINE e == editing[c]
           after(m) == IF m.id = e.prev
                         THEN [m EXCEPT !.payload = Merge(m.payload, e.payload), !.at = clock + 1]
                         ELSE m
           fresh == [id |-> e.id, op |-> e.op, obj |-> e.obj, payload |-> e.payload, at |-> clock + 1]
<1>1. /\ UNCHANGED <<round, touched>>
      /\ ~editing'[c].active /\ \A d \in Client \ {c} : editing'[d] = editing[d]
      /\ \A d \in Client \ {c} : pending'[d] = pending[d]
      /\ pending'[c] = IF e.prev = 0 THEN pending[c] \cup {fresh} ELSE {after(m) : m \in pending[c]}
  BY DEF QueueCommit, historyVars, IInv, EditsInv, QueuesInv, NoEdit
<1>2. fresh.obj \in touched[c]
  BY DEF OwnInv, QueueCommit
<1>3. \A m \in pending[c] : after(m).obj = m.obj
  BY DEF IInv, QueuesInv, Commit
<1> HIDE DEF fresh, after, e
<1>4. \A m \in pending'[c] : m.obj \in touched[c]
  BY <1>1, <1>2, <1>3 DEF OwnInv
<1> QED BY <1>1, <1>4 DEF OwnInv

LEMMA RoundOwn ==
  ASSUME IInv, OwnInv, NEW c \in Client, NEW s \in Slot, Rounds(c, s)
  PROVE  OwnInv' /\ touched' = touched
<1>1. touched' = touched
  BY DEF Rounds, StartSync, StartPull, Serve, Receive, RefuseUnauthorized, ApplyDelete, FetchRow,
     UpsertRow, QueryChanges, Reply, Store, DeleteConfirmed, ApplyRestored, ApplyChange,
     FinishRound, Lose, historyVars
<1>2. /\ \A d \in Client, t \in Slot : d # c \/ t # s => round'[d][t] = round[d][t]
      /\ round'[c][s].todo \subseteq round[c][s].todo \/ round'[c][s].todo \subseteq pending[c]
      /\ editing' = editing /\ \A d \in Client : pending'[d] \subseteq pending[d]
  BY RoundMoves
<1>3. OwnRows(touched[c], round[c][s]) /\ \A m \in pending[c] : m.obj \in touched[c]
  BY DEF OwnInv
<1>4. \A m \in round'[c][s].todo : m.obj \in touched[c]
  BY <1>2, <1>3 DEF OwnRows
<1>5. /\ round'[c][s].applied \subseteq touched[c]
      /\ \A o \in Object : round'[c][s].restored[o].exists => o \in touched[c]
  <2>1. CASE Started(round[c][s], round'[c][s], lastPulled[c])
    BY <2>1 DEF Started
  <2>2. CASE Served(round[c][s], round'[c][s])
    BY <1>3, <2>2 DEF Served, OwnRows
  <2>3. CASE Later(c, s)
    BY <1>3, <2>3, LaterMoves DEF Tells, OwnRows
  <2> QED BY <2>1, <2>2, <2>3, RoundKinds
<1>6. OwnRows(touched[c], round'[c][s])
  BY <1>4, <1>5 DEF OwnRows
<1>7. \A d \in Client, t \in Slot : OwnRows(touched[d], round'[d][t])
  BY <1>2, <1>6 DEF OwnInv
<1> QED BY <1>1, <1>2, <1>7 DEF OwnInv

LEMMA OwnKept ==
  ASSUME IInv, OwnInv, [Next]_vars
  PROVE  OwnInv'
<1>1. CASE UNCHANGED vars
  BY <1>1 DEF vars, OwnInv
<1>2. ASSUME NEW c \in Client, Edits(c) PROVE OwnInv'
  BY <1>2, EditOwn, QueueOwn DEF Edits, Insert, Update, Delete
<1>3. ASSUME NEW c \in Client, NEW s \in Slot, Rounds(c, s) PROVE OwnInv'
  BY <1>3, RoundOwn
<1> QED BY <1>1, <1>2, <1>3 DEF Next, Rounds

-----------------------------------------------------------------------------
(* What a device has seen.                                                 *)

LEMMA EditSeen ==
  ASSUME IInv, SeenInv, NEW c \in Client, NEW op, NEW o \in Object, NEW payload, NEW new,
         StartEdit(c, op, o, payload, new)
  PROVE  SeenInv'
<1>1. /\ UNCHANGED <<row, lastPulled, round, crossed>>
      /\ touched' = [touched EXCEPT ![c] = @ \cup {o}]
      /\ local' = [local EXCEPT ![c][o] = new]
  BY DEF StartEdit
<1>2. ASSUME NEW d \in Client, NEW p \in Object, Known(d, p)'
      PROVE  Known(d, p) /\ local'[d][p] = local[d][p]
  <2>1. touched[d] \subseteq touched'[d] /\ o \in touched'[c]
    BY <1>1 DEF IInv, PlainInv
  <2>2. d # c \/ p # o
    BY <1>2, <2>1 DEF Known
  <2> QED BY <1>1, <1>2, <2>1, <2>2 DEF Known, IInv, LocalsInv
<1> QED BY <1>1, <1>2 DEF SeenInv, Shows

\* A write is later than every watermark, and the devices it finds past their query are
\* those it crosses.
LEMMA WriteSeen ==
  ASSUME IInv, PastInv, SeenInv, NEW c \in Client, NEW s \in Slot, Rounds(c, s),
         NEW m \in round[c][s].todo, ApplyDelete(c, s, m) \/ UpsertRow(c, s, m)
  PROVE  SeenInv'
<1> DEFINE r == round[c][s]
<1>1. /\ m.obj \in Object /\ r \in Round /\ row \in [Object -> Row] /\ clock \in Nat
      /\ crossed \in [Client -> SUBSET Object]
      /\ \A d \in Client : lastPulled[d] \in Nat \cup {-1}
      /\ \A d \in Client, t \in Slot :
           round[d][t].since \in Nat \cup {-1} /\ round[d][t].time \in Nat
  BY DEF IInv, PlainInv, RowsInv, RoundsInv, GoodRound, GoodQueue, Commit, Round, Time, NeverPulled
<1>2. UNCHANGED <<local, lastPulled, touched>> /\ Cross(m.obj) /\ r.phase # "idle"
  BY DEF ApplyDelete, UpsertRow, clientVars
<1>3. round'[c][s].phase = "serving" /\ round'[c][s].since = r.since /\ round'[c][s].time = r.time
  <2>1. round'[c][s] = Confirm(r, m)
    BY RoundAfter DEF ApplyDelete, UpsertRow
  <2> QED BY <1>1, <2>1 DEF Confirm, Round
<1>4. \A d \in Client, t \in Slot : d # c \/ t # s => round'[d][t] = round[d][t]
  BY RoundMoves
<1>5. row'[m.obj].exists => row'[m.obj].updated = clock + 1
  <2>1. CASE ApplyDelete(c, s, m)
    <3>1. row' = [row EXCEPT ![m.obj] = IF row[m.obj].exists
                    THEN [row[m.obj] EXCEPT !.deleted = TRUE, !.updated = clock + 1]
                    ELSE row[m.obj]]
      BY <2>1 DEF ApplyDelete
    <3>2. row[m.obj] \in Row
      BY <1>1
    <3> QED BY <1>1, <3>1, <3>2 DEF Row
  <2>2. CASE UpsertRow(c, s, m)
    BY <1>1, <2>2 DEF UpsertRow
  <2> QED BY <2>1, <2>2
<1>6. \A o \in Object \ {m.obj} : row'[o] = row[o]
  BY <1>1 DEF ApplyDelete, UpsertRow
<1>7. ASSUME NEW d \in Client, NEW o \in Object, Known(d, o)'
      PROVE  Shows(d, o)' /\ \A t \in Slot : Brings(row'[o], local'[d][o], o, round'[d][t])
  <2>1. CASE o = m.obj
    <3>1. row'[o].updated = clock + 1
      BY <1>5, <1>7, <2>1 DEF Known
    <3>2. ~Queried(d)
      BY <1>1, <1>2, <1>7, <2>1 DEF Known, Cross
    <3>3. Shows(d, o)'
      BY <1>1, <1>2, <3>1 DEF Shows, PastInv
    <3>4. ASSUME NEW t \in Slot PROVE Brings(row'[o], local'[d][o], o, round'[d][t])
      <4>1. round'[d][t].phase # "queried"
        BY <1>3, <1>4, <3>2 DEF Queried
      <4>2. round'[d][t].since < row'[o].updated /\ round'[d][t].time < row'[o].updated
        BY <1>1, <1>3, <1>4, <3>1 DEF PastInv
      <4>3. row'[o].updated \in Nat /\ round'[d][t].since \in Nat \cup {-1} /\ round'[d][t].time \in Nat
        BY <1>1, <1>3, <1>4, <3>1
      <4> QED BY <4>1, <4>2, <4>3 DEF Brings
    <3> QED BY <3>3, <3>4
  <2>2. CASE o # m.obj
    <3>1. row'[o] = row[o] /\ Known(d, o)
      BY <1>1, <1>2, <1>6, <1>7, <2>2 DEF Known, Cross
    <3>2. Shows(d, o) /\ \A t \in Slot : Brings(row[o], local[d][o], o, round[d][t])
      BY <3>1 DEF SeenInv
    <3>3. \A t \in Slot : Brings(row[o], local[d][o], o, round'[d][t])
      BY <1>2, <1>3, <1>4, <3>2 DEF Brings
    <3> QED BY <1>2, <3>1, <3>2, <3>3 DEF Shows
  <2> QED BY <2>1, <2>2
<1> QED BY <1>7 DEF SeenInv

\* A step of a round that writes no row.
LEMMA QuietStep ==
  ASSUME IInv, NEW c \in Client, NEW s \in Slot, Rounds(c, s),
         ~ \E m \in round[c][s].todo : ApplyDelete(c, s, m) \/ UpsertRow(c, s, m)
  PROVE  /\ row' = row
         /\ \A d \in Client : crossed[d] \subseteq crossed'[d]
         /\ \A d \in Client \ {c} : local'[d] = local[d]
         /\ Later(c, s) \/ local' = local
<1>1. ASSUME NEW o \in Object, NEW x, StoreRow(c, o, x)
      PROVE  \A d \in Client \ {c} : local'[d] = local[d]
  BY <1>1 DEF StoreRow, IInv, LocalsInv
<1>2. CASE \E o \in Object : ApplyRestored(c, s, o)
  BY <1>1, <1>2 DEF ApplyRestored, Later, historyVars
<1>3. CASE \E o \in Object : ApplyChange(c, s, o)
  <2>1. \A d \in Client : crossed[d] \subseteq crossed'[d]
    BY <1>3 DEF ApplyChange, IInv, PlainInv
  <2> QED BY <1>1, <1>3, <2>1 DEF ApplyChange, Later
<1>4. CASE ~ \E o \in Object : ApplyRestored(c, s, o) \/ ApplyChange(c, s, o)
  BY <1>4 DEF Rounds, StartSync, StartPull, Serve, Receive, RefuseUnauthorized, FetchRow,
     QueryChanges, Reply, Store, DeleteConfirmed, FinishRound, Lose, clientVars, historyVars
<1> QED BY <1>2, <1>3, <1>4

\* A step that leaves what a device shows of a row, or brings it what the server has.
LEMMA FreshSeen ==
  ASSUME IInv, OwnInv, SeenInv, NEW c \in Client, NEW s \in Slot, Rounds(c, s),
         ~ \E m \in round[c][s].todo : ApplyDelete(c, s, m) \/ UpsertRow(c, s, m),
         NEW d \in Client, NEW o \in Object, Known(d, o),
         local[d][o] = Received(row[o]) => local'[d][o] = Received(row[o])
  PROVE  Shows(d, o)' /\ \A t \in Slot : Brings(row[o], local'[d][o], o, round'[d][t])
<1> DEFINE r == round[c][s]
           n == round'[c][s]
           Fresh == local[d][o] = Received(row[o])
<1>1. row' = row
  BY QuietStep
<1>2. Shows(d, o) /\ \A t \in Slot : Brings(row[o], local[d][o], o, round[d][t])
  BY DEF SeenInv
<1>3. row[o].exists /\ o \notin touched[d]
  BY DEF Known
<1>4. ASSUME d = c PROVE ~r.restored[o].exists /\ o \notin r.applied
  BY <1>3, <1>4 DEF OwnInv, OwnRows
<1>5. row[o].updated \in Nat /\ r.time \in Nat /\ r.since \in Nat \cup {-1}
  BY DEF IInv, RowsInv, RoundsInv, Row, Round, Time, NeverPulled
<1>6. Shows(d, o)'
  <2>1. CASE lastPulled'[d] = lastPulled[d]
    BY <1>1, <1>2, <2>1 DEF Shows
  <2>2. CASE d = c /\ lastPulled'[d] = r.time /\ r.phase = "confirmed" /\ NoneLeft(r.changes)
    BY <1>1, <1>2, <2>2 DEF Brings, NoneLeft, Shows
  <2> QED BY <2>1, <2>2, PullMoves
<1>7. ASSUME NEW t \in Slot PROVE Brings(row[o], local'[d][o], o, round'[d][t])
  <2>1. CASE ~(d = c /\ t = s)
    <3>1. round'[d][t] = round[d][t]
      BY <2>1, RoundMoves
    <3> QED BY <1>2, <3>1 DEF Brings
  <2>2. CASE d = c /\ t = s
    <3>1. CASE Started(r, n, lastPulled[c])
      BY <1>2, <2>2, <3>1 DEF Started, Brings, Shows
    <3>2. CASE Served(r, n)
      BY <1>2, <2>2, <3>2 DEF Served, Brings
    <3>3. CASE Later(c, s)
      <4>1. n.since = r.since
        BY <3>3, LaterMoves DEF Tells
      <4>2. CASE /\ r.phase = "serving" /\ local' = local
                 /\ n.changes[o] = IF Changed(row[o], r.since) /\ o \notin r.applied
                                     THEN row[o] ELSE NoRow
        <5>1. n.changes[o] = IF row[o].updated > r.since THEN row[o] ELSE NoRow
          BY <1>3, <1>4, <2>2, <4>2 DEF Changed
        <5>2. row[o].updated <= r.since => Fresh
          BY <1>2, <2>2, <4>2 DEF Brings
        <5> QED BY <1>3, <1>5, <2>2, <4>1, <4>2, <5>1, <5>2 DEF Brings, NoRow
      <4>3. CASE Onward(r, n) /\ Stores(r, n, local[c][o], local'[c][o], o)
        <5>1. /\ row[o].updated <= r.since => Fresh
              /\ r.changes[o].exists => row[o].updated > r.since
              /\ r.phase = "queried" \/ row[o].updated <= r.time =>
                   r.changes[o] \in {row[o], NoRow} /\ (~r.changes[o].exists => Fresh)
          BY <1>2, <2>2, <4>3 DEF Brings, Onward
        <5>2. n.phase = "queried" \/ row[o].updated <= n.time =>
                r.phase = "queried" \/ row[o].updated <= r.time
          BY <4>3 DEF Onward
        <5>3. n.changes[o].exists => r.changes[o].exists
          BY <4>3 DEF Stores, NoRow
        <5>4. r.changes[o] \in {row[o], NoRow} => n.changes[o] \in {row[o], NoRow}
          BY <4>3 DEF Stores
        <5>5. r.changes[o] \in {row[o], NoRow} /\ (~r.changes[o].exists => Fresh) /\ ~n.changes[o].exists
                => local'[d][o] = Received(row[o])
          BY <1>4, <2>2, <4>3 DEF Stores, NoRow
        <5> QED BY <2>2, <4>1, <5>1, <5>2, <5>3, <5>4, <5>5 DEF Brings
      <4> QED BY <3>3, <4>2, <4>3, LaterMoves
    <3> QED BY <3>1, <3>2, <3>3, RoundKinds
  <2> QED BY <2>1, <2>2
<1> QED BY <1>6, <1>7

\* A row of an older answer, stored last and before any watermark covers the write it
\* does not have: that write is still to come.
LEMMA OlderSeen ==
  ASSUME IInv, SeenInv, NEW c \in Client, NEW s \in Slot, NEW o \in Object,
         ApplyChange(c, s, o), round[c][s].changes[o] # row[o], Known(c, o), Known(c, o)'
  PROVE  Shows(c, o)' /\ \A t \in Slot : Brings(row[o], local'[c][o], o, round'[c][t])
<1> DEFINE r == round[c][s]
           n == round'[c][s]
<1>1. row' = row /\ lastPulled' = lastPulled /\ r.phase = "confirmed" /\ r.changes[o].exists
  BY DEF ApplyChange
<1>2. ~SetsBack(c, s, o)
  BY DEF ApplyChange, Known, IInv, PlainInv
<1>3. row[o].updated \in Nat /\ lastPulled[c] \in Nat \cup {-1} /\ r.since \in Nat \cup {-1}
  BY DEF IInv, PlainInv, RowsInv, RoundsInv, Row, Round, Time, NeverPulled
<1>4. Shows(c, o)'
  BY <1>1, <1>2 DEF SetsBack, Shows
<1>5. ASSUME NEW t \in Slot, t # s PROVE Brings(row[o], local'[c][o], o, round'[c][t])
  <2>1. round'[c][t] = round[c][t] /\ round[c][t].phase = "idle"
    BY <1>2, <1>5, RoundMoves DEF SetsBack, Rounds, Store
  <2> QED BY <2>1 DEF Brings
<1>6. Brings(row[o], local'[c][o], o, n)
  <2>1. n = [r EXCEPT !.changes[o] = NoRow]
    BY RoundAfter DEF ApplyChange
  <2>2. n.since = r.since /\ n.time = r.time /\ n.phase = "confirmed" /\ n.changes[o] = NoRow
    BY <1>1, <2>1 DEF IInv, RoundsInv, Round
  <2>3. Brings(row[o], local[c][o], o, r)
    BY DEF SeenInv
  <2>4. ~(row[o].updated <= r.since) /\ ~(row[o].updated <= r.time)
    BY <1>1, <1>3, <2>3 DEF Brings, NoRow
  <2> QED BY <2>2, <2>4 DEF Brings, NoRow
<1> QED BY <1>4, <1>5, <1>6

LEMMA QuietSeen ==
  ASSUME IInv, OwnInv, SeenInv, NEW c \in Client, NEW s \in Slot, Rounds(c, s),
         ~ \E m \in round[c][s].todo : ApplyDelete(c, s, m) \/ UpsertRow(c, s, m)
  PROVE  SeenInv'
<1>1. /\ row' = row /\ touched' = touched
      /\ \A d \in Client : crossed[d] \subseteq crossed'[d]
      /\ \A d \in Client \ {c} : local'[d] = local[d]
      /\ Later(c, s) \/ local' = local
  BY QuietStep, RoundOwn
<1>2. ASSUME NEW d \in Client, NEW o \in Object, Known(d, o)'
      PROVE  Shows(d, o)' /\ \A t \in Slot : Brings(row'[o], local'[d][o], o, round'[d][t])
  <2>1. Known(d, o)
    BY <1>1, <1>2 DEF Known
  <2>2. CASE local'[d][o] = local[d][o]
    BY <1>1, <2>1, <2>2, FreshSeen
  <2>3. CASE d = c /\ ApplyRestored(c, s, o)
    BY <2>1, <2>3 DEF ApplyRestored, Known, OwnInv, OwnRows
  <2>4. CASE d = c /\ ApplyChange(c, s, o)
    <3>1. CASE round[c][s].changes[o] = row[o]
      <4>1. local'[d][o] = Received(row[o])
        BY <2>4, <3>1 DEF ApplyChange, StoreRow, IInv, LocalsInv
      <4> QED BY <1>1, <2>1, <4>1, FreshSeen
    <3>2. CASE round[c][s].changes[o] # row[o]
      BY <1>1, <1>2, <2>1, <2>4, <3>2, OlderSeen
    <3> QED BY <3>1, <3>2
  <2>5. ASSUME d = c, NEW p \in Object \ {o}, ApplyRestored(c, s, p) \/ ApplyChange(c, s, p)
        PROVE  local'[d][o] = local[d][o]
    BY <2>5 DEF ApplyRestored, ApplyChange, StoreRow, IInv, LocalsInv
  <2>6. ASSUME QueryChanges(c, s) \/ Reply(c, s) \/ DeleteConfirmed(c, s) PROVE local' = local
    BY <2>6 DEF QueryChanges, Reply, DeleteConfirmed, clientVars
  <2> QED BY <1>1, <2>2, <2>3, <2>4, <2>5, <2>6 DEF Later
<1> QED BY <1>2 DEF SeenInv

LEMMA SeenKept ==
  ASSUME IInv, OwnInv, PastInv, SeenInv, [Next]_vars
  PROVE  SeenInv'
<1>1. CASE UNCHANGED vars
  BY <1>1 DEF vars, SeenInv, Known, Shows
<1>2. ASSUME NEW c \in Client, QueueCommit(c) PROVE SeenInv'
  <2>1. UNCHANGED <<row, local, lastPulled, round, touched, crossed>>
    BY <1>2 DEF QueueCommit, historyVars
  <2> QED BY <2>1 DEF SeenInv, Known, Shows
<1>3. ASSUME NEW c \in Client, Edits(c) PROVE SeenInv'
  BY <1>2, <1>3, EditSeen DEF Edits, Insert, Update, Delete
<1>4. ASSUME NEW c \in Client, NEW s \in Slot, Rounds(c, s) PROVE SeenInv'
  BY <1>4, WriteSeen, QuietSeen
<1> QED BY <1>1, <1>3, <1>4 DEF Next, Rounds

LEMMA InitSeen == Init => OwnInv /\ PastInv /\ SeenInv
<1> SUFFICES ASSUME Init PROVE OwnInv /\ PastInv /\ SeenInv
  OBVIOUS
<1>1. /\ clock = 0
      /\ \A c \in Client : pending[c] = {} /\ ~editing[c].active /\ lastPulled[c] \in {-1, 0}
      /\ \A c \in Client, s \in Slot : round[c][s] = IdleRound
  BY DEF Init, NoEdit, NeverPulled
<1>2. OwnInv
  BY <1>1 DEF OwnInv, OwnRows, IdleRound, NoRow
<1>3. PastInv
  BY <1>1 DEF PastInv, IdleRound, NeverPulled
<1>4. ASSUME NEW c \in Client, NEW o \in Object, row[o].exists
      PROVE  Shows(c, o)
  <2>1. o \in Existing /\ row[o].updated = 0 /\ row[o] = FirstRow
    BY <1>4 DEF Init, NoRow, FirstRow
  <2>2. lastPulled[c] = -1 \/ local[c][o] = Received(FirstRow)
    BY <2>1 DEF Init, NeverPulled
  <2> QED BY <2>1, <2>2 DEF Shows
<1>5. SeenInv
  BY <1>1, <1>4 DEF SeenInv, Known, Brings, IdleRound
<1> QED BY <1>2, <1>3, <1>5

\* However rounds and requests overlap, die or go on with another batch: a row not younger
\* than a device's last_pulled_at, which the device has not edited, is on the device as it
\* is on the server, unless its last write fell between getChangesSince and serverTime of
\* one of the device's rounds, or an overlapping round's older answer has set it back.
THEOREM SyncPulledExact == Spec => []PulledExact
<1>1. IInv /\ OwnInv /\ PastInv /\ SeenInv /\ [Next]_vars => (OwnInv /\ PastInv /\ SeenInv)'
  BY OwnKept, PastKept, SeenKept
<1>2. SeenInv => PulledExact
  BY DEF SeenInv, Known, PulledExact
<1> QED BY <1>1, <1>2, InitSeen, SyncIInv, PTL DEF Spec
=============================================================================
