-------------------------------- MODULE Sync --------------------------------
(***************************************************************************)
(* The sync protocol between the desktop client's queue of mutations       *)
(* (app/internal/db/syncer) and the backend (backend/internal/syncer), for *)
(* one workspace and one generated table.                                  *)
(*                                                                         *)
(* A device edits its local row and queues the edit as a commit.  A sync   *)
(* round sends the oldest commits with last_pulled_at; the server merges   *)
(* or refuses each of them and answers the confirmed ids, the rows of the  *)
(* refused commits (restored) and the rows changed since last_pulled_at;   *)
(* the device then drops the confirmed commits, applies the rows and moves *)
(* last_pulled_at.  Every statement on either database is a step of its    *)
(* own: nothing in the code runs them in one transaction, and the server   *)
(* works on any number of requests at a time.                              *)
(*                                                                         *)
(* Data.  The n-th edit of a behaviour writes the value n, so that a value *)
(* tells who wrote it and when; 0 is the value of a field nobody edited,   *)
(* and in a payload it means that the field is absent.  One clock stamps   *)
(* commits and server writes; each stamped event advances it.              *)
(***************************************************************************)
EXTENDS Integers, FiniteSets, Sequences

CONSTANTS
  Client,      \* devices; each keeps its own local database
  Slot,        \* sync rounds a device may have under way at a time (bounds the model)
  Object,      \* ids of rows
  Existing,    \* the rows that exist, everywhere, before the first edit
  Field,       \* the mutable columns of a row
  Denied,      \* devices whose user may not write the table
  BatchSize,   \* pendingCommitsBatchSize
  MaxEdits,    \* edits in a behaviour (bounds the model)
  MaxLosses    \* rounds that die in a behaviour (bounds the model)

ASSUME ObjectAssumption   == Object # {}
ASSUME ExistingAssumption == Existing \subseteq Object
ASSUME DeniedAssumption   == Denied \subseteq Client
ASSUME BoundAssumption    == /\ BatchSize \in Nat \ {0}
                             /\ MaxEdits \in Nat
                             /\ MaxLosses \in Nat

VARIABLES
  clock,       \* the time of the last stamped event
  author,      \* author[n]: the device of the n-th edit
  born,        \* ids an insert has used up
  row,         \* row[o]: the server's row
  local,       \* local[c][o]: the row of device c
  pending,     \* pending[c]: mutation_commit of device c
  editing,     \* editing[c]: the CommitMutation call under way on device c
  lastPulled,  \* lastPulled[c]: workspace.last_pulled_at of device c
  round,       \* round[c][s]: the sync round in slot s of device c
  losses,      \* rounds that died so far
  handled,     \* history: <<id, at>> of commits applied, or answered as absent
  refused,     \* history: the values the server refused to write, and why
  touched,     \* history: touched[c]: the rows device c has edited
  crossed      \* history: crossed[c]: the rows whose last write fell between the query
               \* for c and the time c was told, or that c has set back to an older answer

clientVars == <<local, pending, editing, lastPulled>>
historyVars == <<handled, refused, touched, crossed>>
vars == <<clock, author, born, row, local, pending, editing, lastPulled, round,
          losses, handled, refused, touched, crossed>>

-----------------------------------------------------------------------------
(* Data. *)

Time    == Nat
Value   == Nat
EditId  == Nat
Fields  == [Field -> Value]
Blank   == [f \in Field |-> 0]
NeverPulled == -1

Row      == [exists : BOOLEAN, val : Fields, updated : Time, deleted : BOOLEAN]
NoRow    == [exists |-> FALSE, val |-> Blank, updated |-> 0, deleted |-> FALSE]
FirstRow == [NoRow EXCEPT !.exists = TRUE]

LocalRow == [exists : BOOLEAN, val : Fields]
NoLocal  == [exists |-> FALSE, val |-> Blank]

Commit == [id : EditId, op : {"insert", "update", "delete"}, obj : Object,
           payload : Fields, at : Time]

\* A mutation between its local write and its row in mutation_commit; prev is
\* the id GetPreviousCommit found, 0 for none.
NoEdit == [active |-> FALSE, op |-> "update", obj |-> CHOOSE o \in Object : TRUE,
           payload |-> Blank, id |-> 0, prev |-> 0]
Edit   == [active : BOOLEAN, op : {"insert", "update", "delete"}, obj : Object,
           payload : Fields, id : EditId, prev : EditId]

Phase == {"idle", "sent", "serving", "fetched", "queried", "replied", "confirmed"}

IdleRound ==
  [phase |-> "idle", todo |-> {}, full |-> FALSE, since |-> NeverPulled,
   fetched |-> NoRow, confirmed |-> {}, restored |-> [o \in Object |-> NoRow],
   applied |-> {}, changes |-> [o \in Object |-> NoRow], time |-> 0]

Round ==
  [phase : Phase, todo : SUBSET Commit, full : BOOLEAN, since : Time \cup {NeverPulled},
   fetched : Row, confirmed : SUBSET EditId, restored : [Object -> Row],
   applied : SUBSET Object, changes : [Object -> Row], time : Time]

\* A value kept out of a row, the values the row has instead, and whether the
\* row was deleted.
Refusal == [obj : Object, field : Field, val : Value, over : Fields, deleted : BOOLEAN]

\* Every variable has its shape, and no request carries more than a batch.
TypeOK ==
  /\ clock \in Time
  /\ author \in Seq(Client)
  /\ born \in SUBSET Object
  /\ row \in [Object -> Row]
  /\ local \in [Client -> [Object -> LocalRow]]
  /\ pending \in [Client -> SUBSET Commit]
  /\ editing \in [Client -> Edit]
  /\ lastPulled \in [Client -> Time \cup {NeverPulled}]
  /\ round \in [Client -> [Slot -> Round]]
  /\ losses \in 0..MaxLosses
  /\ handled \in SUBSET (EditId \X Time)
  /\ refused \in SUBSET Refusal
  /\ touched \in [Client -> SUBSET Object]
  /\ crossed \in [Client -> SUBSET Object]
  /\ \A c \in Client, s \in Slot : Cardinality(round[c][s].todo) <= BatchSize

\* buildAndMergeArgs and PatchValue: a field present in the new payload wins.
Merge(old, new) == [f \in Field |-> IF new[f] # 0 THEN new[f] ELSE old[f]]

\* What a device stores of a server row: a deleted row is a local delete.
Received(r) == IF r.deleted THEN NoLocal ELSE [exists |-> TRUE, val |-> r.val]

NextEdit == Len(author) + 1

SetRound(c, s, r) == round' = [round EXCEPT ![c][s] = r]

-----------------------------------------------------------------------------
(* Initially every device has pulled the existing rows, or is fresh.       *)
Init ==
  /\ clock = 0
  /\ author = <<>>
  /\ born = Existing
  /\ row = [o \in Object |-> IF o \in Existing THEN FirstRow ELSE NoRow]
  /\ pending = [c \in Client |-> {}]
  /\ editing = [c \in Client |-> NoEdit]
  /\ round = [c \in Client |-> [s \in Slot |-> IdleRound]]
  /\ losses = 0
  /\ handled = {}
  /\ refused = {}
  /\ touched = [c \in Client |-> {}]
  /\ crossed = [c \in Client |-> {}]
  /\ \E fresh \in SUBSET Client :
       /\ lastPulled = [c \in Client |-> IF c \in fresh THEN NeverPulled ELSE 0]
       /\ local = [c \in Client |-> [o \in Object |->
                     IF c \notin fresh /\ o \in Existing THEN Received(FirstRow)
                     ELSE NoLocal]]

-----------------------------------------------------------------------------
(* A device edits (interceptor.go, commit.go).                             *)

\* Init of CommitMutation: the statement has changed the local row, and
\* GetPreviousCommit has looked for a queued commit of the same kind.
StartEdit(c, op, o, payload, new) ==
  /\ Len(author) < MaxEdits
  /\ ~editing[c].active
  /\ author' = Append(author, c)
  /\ local' = [local EXCEPT ![c][o] = new]
  /\ \E prev \in {m.id : m \in {q \in pending[c] : q.op = op /\ q.obj = o}} \cup {0} :
       /\ prev = 0 => \A m \in pending[c] : ~(m.op = op /\ m.obj = o)
       /\ editing' = [editing EXCEPT ![c] =
                        [active |-> TRUE, op |-> op, obj |-> o, payload |-> payload,
                         id |-> NextEdit, prev |-> prev]]
  /\ touched' = [touched EXCEPT ![c] = @ \cup {o}]
  /\ UNCHANGED <<clock, row, pending, lastPulled, round, losses, handled, refused, crossed>>

\* An INSERT carries every column, under a new UUID.
Insert(c, o) ==
  /\ o \notin born
  /\ born' = born \cup {o}
  /\ LET val == [f \in Field |-> NextEdit]
     IN  StartEdit(c, "insert", o, val, [exists |-> TRUE, val |-> val])

\* An UPDATE carries the columns it sets.
Update(c, o, f) ==
  /\ local[c][o].exists
  /\ UNCHANGED born
  /\ LET set == [Blank EXCEPT ![f] = NextEdit]
     IN  StartEdit(c, "update", o, set, [local[c][o] EXCEPT !.val[f] = NextEdit])

\* A DELETE carries the id alone.
Delete(c, o) ==
  /\ local[c][o].exists
  /\ UNCHANGED born
  /\ StartEdit(c, "delete", o, Blank, NoLocal)

\* SaveCommit, or UpdateCommit of the commit GetPreviousCommit found.  A sync
\* may have dropped that commit in between: UpdateCommit then returns no row,
\* CommitMutation fails and the edit is not queued.
QueueCommit(c) ==
  LET e == editing[c]
      fresh == [id |-> e.id, op |-> e.op, obj |-> e.obj, payload |-> e.payload,
                at |-> clock + 1]
      merged(m) == [m EXCEPT !.payload = Merge(m.payload, e.payload), !.at = clock + 1]
  IN  /\ e.active
      /\ editing' = [editing EXCEPT ![c] = NoEdit]
      /\ clock' = clock + 1
      /\ pending' = [pending EXCEPT ![c] =
           IF e.prev = 0
             THEN pending[c] \cup {fresh}
             ELSE {IF m.id = e.prev THEN merged(m) ELSE m : m \in pending[c]}]
      /\ UNCHANGED <<author, born, row, local, lastPulled, round, losses, historyVars>>

-----------------------------------------------------------------------------
(* A round leaves the device (Sync, Pull, syncWith).                       *)

\* GetPendingCommitsByUserAndWorkspace: ORDER BY created_at LIMIT BatchSize.
IsBatch(batch, queue) ==
  /\ batch \subseteq queue
  /\ Cardinality(batch) = IF Cardinality(queue) < BatchSize THEN Cardinality(queue)
                                                           ELSE BatchSize
  /\ \A m \in batch, n \in queue \ batch : m.at <= n.at

Send(c, s, batch, since) ==
  SetRound(c, s, [IdleRound EXCEPT !.phase = "sent", !.todo = batch, !.since = since,
                                   !.full = (Cardinality(batch) = BatchSize)])

\* Sync: nothing happens without a pending commit.
StartSync(c, s) ==
  /\ round[c][s].phase = "idle"
  /\ pending[c] # {}
  /\ \E batch \in SUBSET pending[c] :
       IsBatch(batch, pending[c]) /\ Send(c, s, batch, lastPulled[c])
  /\ UNCHANGED <<clock, author, born, row, clientVars, losses, historyVars>>

\* Pull: the same round without commits.
StartPull(c, s) ==
  /\ round[c][s].phase = "idle"
  /\ SetRound(c, s, [IdleRound EXCEPT !.phase = "sent", !.since = lastPulled[c]])
  /\ UNCHANGED <<clock, author, born, row, clientVars, losses, historyVars>>

-----------------------------------------------------------------------------
(* The server works on a request (backend Sync, patch.Apply, ApplyDelete). *)

Receive(c, s) ==
  /\ round[c][s].phase = "sent"
  /\ SetRound(c, s, [round[c][s] EXCEPT !.phase = "serving"])
  /\ UNCHANGED <<clock, author, born, row, clientVars, losses, historyVars>>

\* The request's commits are taken in the order they were sent.
IsNext(m, todo) == m \in todo /\ \A n \in todo : m.at <= n.at

\* authorizeCommit.  Mutation: everyone may write.
Authorized_Anyone(c) == c \in Client
Authorized(c) == c \notin Denied

\* Confirmed without a write.
Drop(r, m) == [r EXCEPT !.todo = r.todo \ {m}, !.confirmed = @ \cup {m.id}]

\* recordResult.
Confirm(r, m) == [r EXCEPT !.todo = r.todo \ {m}, !.confirmed = @ \cup {m.id},
                           !.applied = @ \cup {m.obj}, !.phase = "serving",
                           !.fetched = NoRow]
\* Mutation: a refused commit is confirmed too.
Restore_Confirms(r, m, current) ==
  [r EXCEPT !.todo = r.todo \ {m}, !.restored[m.obj] = current, !.confirmed = @ \cup {m.id}]
Restore(r, m, current) == [r EXCEPT !.todo = r.todo \ {m}, !.restored[m.obj] = current]

\* The server has looked for the changes of device c, and not yet at its clock.
Queried(c) == \E s \in Slot : round[c][s].phase = "queried"

\* Row o is written.
Cross(o) == crossed' = [c \in Client |-> IF Queried(c) THEN crossed[c] \cup {o}
                                                      ELSE crossed[c] \ {o}]

\* An unauthorized commit is answered with the current row, or confirmed when
\* there is none.
RefuseUnauthorized(c, s, m) ==
  /\ round[c][s].phase = "serving"
  /\ IsNext(m, round[c][s].todo)
  /\ ~Authorized(c)
  /\ SetRound(c, s,
       IF row[m.obj].exists THEN Restore(round[c][s], m, row[m.obj])
       ELSE Drop(round[c][s], m))
  /\ handled' = IF row[m.obj].exists THEN handled ELSE handled \cup {<<m.id, m.at>>}
  /\ UNCHANGED <<clock, author, born, row, clientVars, losses, refused, touched, crossed>>

\* SetRoleDeletedAt and its likes: no last-write-wins check for a delete.
ApplyDelete(c, s, m) ==
  /\ round[c][s].phase = "serving"
  /\ IsNext(m, round[c][s].todo)
  /\ Authorized(c)
  /\ m.op = "delete"
  /\ clock' = clock + 1
  /\ row' = [row EXCEPT ![m.obj] =
       IF @.exists THEN [@ EXCEPT !.deleted = TRUE, !.updated = clock + 1] ELSE @]
  /\ Cross(m.obj)
  /\ SetRound(c, s, Confirm(round[c][s], m))
  /\ handled' = handled \cup {<<m.id, m.at>>}
  /\ UNCHANGED <<author, born, clientVars, losses, refused, touched>>

\* The client's time, clamped to the server's.
ClientTime(m) == IF m.at > clock THEN clock ELSE m.at

\* patch.Apply refuses a commit on a deleted row, and one older than the row.
\* Mutation: a deletion does not count.
ServerWins_Undelete(m, current) == current.exists /\ ClientTime(m) < current.updated
ServerWins(m, current) ==
  /\ current.exists
  /\ current.deleted \/ ClientTime(m) < current.updated

\* What the refusal of m keeps out of the row.
Losing(m, current) ==
  {[obj |-> m.obj, field |-> f, val |-> m.payload[f], over |-> current.val,
    deleted |-> current.deleted] :
     f \in {g \in Field : m.payload[g] \notin {0, current.val[g]}}}

\* patch.Apply fetches the row and decides.
FetchRow(c, s, m) ==
  /\ round[c][s].phase = "serving"
  /\ IsNext(m, round[c][s].todo)
  /\ Authorized(c)
  /\ m.op # "delete"
  /\ IF ServerWins(m, row[m.obj])
       THEN /\ SetRound(c, s, Restore(round[c][s], m, row[m.obj]))
            /\ refused' = refused \cup Losing(m, row[m.obj])
       ELSE /\ SetRound(c, s, [round[c][s] EXCEPT !.phase = "fetched",
                                                   !.fetched = row[m.obj]])
            /\ UNCHANGED refused
  /\ UNCHANGED <<clock, author, born, row, clientVars, losses, handled, touched, crossed>>

\* patch.Apply merges the payload into the row it fetched and upserts it,
\* with updated_at = now() and deleted_at = NULL.
UpsertRow(c, s, m) ==
  /\ round[c][s].phase = "fetched"
  /\ IsNext(m, round[c][s].todo)
  /\ clock' = clock + 1
  /\ row' = [row EXCEPT ![m.obj] =
       [exists |-> TRUE, val |-> Merge(round[c][s].fetched.val, m.payload),
        updated |-> clock + 1, deleted |-> FALSE]]
  /\ Cross(m.obj)
  /\ SetRound(c, s, Confirm(round[c][s], m))
  /\ handled' = handled \cup {<<m.id, m.at>>}
  /\ UNCHANGED <<author, born, clientVars, losses, refused, touched>>

\* The rows of getChangesSince, the deleted ones included.
Changed(current, since) == current.exists /\ current.updated > since

\* getChangesSince, less the objects this request wrote (gen.FilterApplied).
QueryChanges(c, s) ==
  LET r == round[c][s]
  IN  /\ r.phase = "serving"
      /\ r.todo = {}
      /\ SetRound(c, s, [r EXCEPT !.phase = "queried", !.changes = [o \in Object |->
           IF Changed(row[o], r.since) /\ o \notin r.applied THEN row[o] ELSE NoRow]])
      /\ UNCHANGED <<clock, author, born, row, clientVars, losses, historyVars>>

\* serverTime is read after the changes.
Reply(c, s) ==
  /\ round[c][s].phase = "queried"
  /\ SetRound(c, s, [round[c][s] EXCEPT !.phase = "replied", !.time = clock])
  /\ UNCHANGED <<clock, author, born, row, clientVars, losses, historyVars>>

-----------------------------------------------------------------------------
(* The answer reaches the device (syncWith).                               *)

DeleteConfirmed(c, s) ==
  /\ round[c][s].phase = "replied"
  /\ pending' = [pending EXCEPT ![c] = {m \in @ : m.id \notin round[c][s].confirmed}]
  /\ SetRound(c, s, [round[c][s] EXCEPT !.phase = "confirmed"])
  /\ UNCHANGED <<clock, author, born, row, local, editing, lastPulled, losses, historyVars>>

\* applyRestored and applyChanges: one statement for each row.  Of two refusals for
\* one row the answer has the later.
StoreRow(c, o, r) == local' = [local EXCEPT ![c][o] = Received(r)]

ApplyRestored(c, s, o) ==
  LET r == round[c][s]
  IN  /\ r.phase = "confirmed"
      /\ r.restored[o].exists
      /\ StoreRow(c, o, r.restored[o])
      /\ SetRound(c, s, [r EXCEPT !.restored[o] = NoRow])
      /\ UNCHANGED <<clock, author, born, row, pending, editing, lastPulled, losses, historyVars>>

NoneLeft(rows) == \A o \in Object : ~rows[o].exists

\* Another round of the device is under way, or has brought last_pulled_at past the
\* write of o that the row at hand does not have.
SetsBack(c, s, o) ==
  /\ round[c][s].changes[o] # row[o]
  /\ \/ row[o].updated <= lastPulled[c]
     \/ \E t \in Slot \ {s} : round[c][t].phase # "idle"

ApplyChange(c, s, o) ==
  LET r == round[c][s]
  IN  /\ r.phase = "confirmed"
      /\ NoneLeft(r.restored)
      /\ r.changes[o].exists
      /\ StoreRow(c, o, r.changes[o])
      /\ SetRound(c, s, [r EXCEPT !.changes[o] = NoRow])
      /\ crossed' = [crossed EXCEPT ![c] = IF SetsBack(c, s, o) THEN @ \cup {o} ELSE @]
      /\ UNCHANGED <<clock, author, born, row, pending, editing, lastPulled, losses, handled,
                     refused, touched>>

\* Mutation: last_pulled_at is when the device is done.
PulledTo_OwnClock(r) == clock
\* serverTime of the answer.
PulledTo(r) == r.time

\* updateLastPulledAt; after a full batch Sync goes on with the next one, under
\* the last_pulled_at it read at its start.
FinishRound(c, s) ==
  LET r == round[c][s]
  IN  /\ r.phase = "confirmed"
      /\ NoneLeft(r.restored) /\ NoneLeft(r.changes)
      /\ lastPulled' = [lastPulled EXCEPT ![c] = PulledTo(r)]
      /\ IF r.full /\ pending[c] # {}
           THEN \E batch \in SUBSET pending[c] :
                  IsBatch(batch, pending[c]) /\ Send(c, s, batch, r.since)
           ELSE SetRound(c, s, IdleRound)
      /\ UNCHANGED <<clock, author, born, row, local, pending, editing, losses, historyVars>>

\* The request or its answer is lost, the server fails, or the app quits in the
\* middle: what was done stays done, and the queue is sent again later.
Lose(c, s) ==
  /\ round[c][s].phase # "idle"
  /\ losses < MaxLosses
  /\ losses' = losses + 1
  /\ SetRound(c, s, IdleRound)
  /\ UNCHANGED <<clock, author, born, row, clientVars, historyVars>>

-----------------------------------------------------------------------------
Edits(c) ==
  \/ \E o \in Object : Insert(c, o) \/ Delete(c, o)
  \/ \E o \in Object, f \in Field : Update(c, o, f)
  \/ QueueCommit(c)

Serve(c, s) ==
  \/ Receive(c, s)
  \/ \E m \in round[c][s].todo : RefuseUnauthorized(c, s, m)
  \/ \E m \in round[c][s].todo : ApplyDelete(c, s, m)
  \/ \E m \in round[c][s].todo : FetchRow(c, s, m)
  \/ \E m \in round[c][s].todo : UpsertRow(c, s, m)
  \/ QueryChanges(c, s)
  \/ Reply(c, s)

Store(c, s) ==
  \/ DeleteConfirmed(c, s)
  \/ \E o \in Object : ApplyRestored(c, s, o)
  \/ \E o \in Object : ApplyChange(c, s, o)
  \/ FinishRound(c, s)

Next ==
  \E c \in Client :
    \/ Edits(c)
    \/ \E s \in Slot : StartSync(c, s) \/ StartPull(c, s) \/ Serve(c, s) \/ Store(c, s) \/ Lose(c, s)

Spec == Init /\ [][Next]_vars

-----------------------------------------------------------------------------
(* Properties.                                                             *)

Ids(queue) == {m.id : m \in queue}
HandledIds == {h[1] : h \in handled}

\* A commit leaves the queue only when the server applied it, or said that the
\* row it is about does not exist (backend sync.go, recordResult): no loss,
\* retry or overlap of rounds drops a commit the server never took.
ConfirmedWasHandled ==
  [][\A c \in Client : Ids(pending[c]) \ Ids(pending'[c]) \subseteq HandledIds]_vars

\* Nothing a device without write permission edits reaches the server's rows,
\* and so no other device ever shows it (authorizeCommit).
DeniedNeverSpreads ==
  \A o \in Object, f \in Field :
    /\ row[o].val[f] # 0 => author[row[o].val[f]] \notin Denied
    /\ \A c \in Client :
         local[c][o].val[f] # 0 /\ author[local[c][o].val[f]] \in Denied
           => author[local[c][o].val[f]] = c

\* A write of a row undoes an earlier one: it brings a deleted row back, or changes a
\* field to something the commit at hand does not say.
Undone(o) ==
  \/ row[o].deleted /\ ~row'[o].deleted
  \/ \E f \in Field :
       /\ row'[o].val[f] # row[o].val[f]
       /\ \A c \in Client, s \in Slot : \A m \in round[c][s].todo :
            IsNext(m, round[c][s].todo) => m.payload[f] # row'[o].val[f]

\* Somebody is about to write row o as it was before the last write.
Overtaken(o) ==
  \E c \in Client, s \in Slot :
    /\ round[c][s].phase = "fetched"
    /\ round[c][s].fetched.updated < row[o].updated
    /\ \E m \in round[c][s].todo : m.obj = o

\* Nothing undoes a write but a request that fetched the row before it (patch.go has
\* Fetch and Upsert apart): no lost answer, no commit that is sent again or was
\* queued before the delete, no overlap of rounds, no merge.
UndoneOnlyIfOvertaken == [][\A o \in Object : Undone(o) => Overtaken(o)]_vars

\* "Server win: row is deleted; reject update" (patch.go): no sync brings a deleted
\* row back to life.  The code does not keep this: README.md, section 6.
DeletedStaysDeleted ==
  [][\A o \in Object : row[o].deleted => row'[o].deleted]_vars

\* Of the rows that are not younger than its last_pulled_at, a device shows exactly
\* what the server has, apart from those it has edited itself, those whose last write
\* fell between getChangesSince and serverTime of one of its rounds, and those that the
\* older answer of an overlapping round has set back: the watermark skips nothing else,
\* whatever is written while an answer is on its way or being stored, and whatever
\* rounds overlap, die or go on with another batch.
Shows(c, o) == row[o].updated <= lastPulled[c] => local[c][o] = Received(row[o])
PulledExact ==
  \A c \in Client, o \in Object :
    row[o].exists /\ o \notin touched[c] \cup crossed[c] => Shows(c, o)

\* A device that only pulls shows, of every row not younger than its last_pulled_at,
\* exactly what the server has: "then return changes since last_pulled_at" (sync.go).
\* The code does not keep this: README.md, section 6.
Agrees(c) == \A o \in Object : row[o].exists => Shows(c, o)
Reader(c) == \A n \in DOMAIN author : author[n] # c
ObserverExact == \A c \in Client : Reader(c) => Agrees(c)

\* The same of a device that has made one edit, whenever it has nothing queued
\* and no round under way: "then return changes since last_pulled_at" (sync.go).
\* The code does not keep this: README.md, section 6.
Settled(c) == /\ pending[c] = {}
              /\ ~editing[c].active
              /\ \A s \in Slot : round[c][s].phase = "idle"
OneEdit(c) == Cardinality({n \in DOMAIN author : author[n] = c}) = 1
WriterExact == \A c \in Client : Settled(c) /\ OneEdit(c) => Agrees(c)

\* "Apply commits with last-write-wins" (sync.go): the server refuses a value
\* only for a deleted row, or for a row that holds a later edit.
\* The code does not keep this: README.md, section 6.
LastWriteWins ==
  \A x \in refused : x.deleted \/ \E f \in Field : x.over[f] > x.val

\* "Server win: send the authoritative row back so the client reverts"
\* (patch.go): a refused value does not turn up in the row later.
\* The code does not keep this: README.md, section 6.
RefusedStaysRefused == \A x \in refused : row[x.obj].val[x.field] # x.val

\* What leaves the queue left it in the form the server handled, the edits
\* merged into it (CommitMutation) included.
\* The code does not keep this: README.md, section 6.
ConfirmedAsSent ==
  [][\A c \in Client : \A m \in pending[c] :
       m.id \notin Ids(pending'[c]) => <<m.id, m.at>> \in handled]_vars

\* "CommitMutation queues or merges a mutation into the sync queue" (commit.go):
\* when it returns, the queue holds the edit.
\* The code does not keep this: README.md, section 6.
EditQueued ==
  [][\A c \in Client :
       editing[c].active /\ ~editing'[c].active =>
         \E m \in pending'[c] :
           /\ m.op = editing[c].op
           /\ m.obj = editing[c].obj
           /\ Merge(m.payload, editing[c].payload) = m.payload]_vars
=============================================================================
