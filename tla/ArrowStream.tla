----------------------------- MODULE ArrowStream -----------------------------
(***************************************************************************)
(* A query result on the wire: query.Stream runs the statement on the      *)
(* server and writes into an arrowstream.Sink, the bytes travel as the     *)
(* body of an HTTP response, and on the other side drainStreamInto pulls   *)
(* an arrowstream.Stream into the sink of the caller.                      *)
(*                                                                         *)
(* The body is a sequence of Arrow IPC segments: maybe one that carries    *)
(* the execution time, the data (a header, batches of rows, an end mark),  *)
(* and one whose header says done or error.  A cut loses what has not      *)
(* arrived and everything after it: the connection broke, the server died, *)
(* or the reader's own context was cancelled or timed out.                 *)
(*                                                                         *)
(* Data.  Rows are numbered.  The end mark of a segment without rows is    *)
(* part of its header.                                                     *)
(***************************************************************************)
EXTENDS Integers, Sequences

CONSTANTS
  MaxRows,    \* rows of the result (bounds the model)
  BatchRows,  \* defaultBatchSize
  MaxCuts     \* 1 if the body may be cut, 0 if not

ASSUME SizeAssumption ==
  MaxRows \in Nat /\ BatchRows \in Nat \ {0} /\ MaxCuts \in {0, 1}

VARIABLES
  sender,     \* where query.Stream is
  sent,       \* how it ended: "done" or "error"
  produced,   \* rows handed to Sink.OnRow
  batch,      \* rows in the record builder
  started,    \* the data header has been written
  types,      \* SetColumnTypes has been called
  schema,     \* the Arrow schema: "none", "untyped" or "typed"
  wire,       \* what has been written and not read
  cut,        \* nothing more arrives
  reader,     \* where drainStreamInto is: "columns", "open", "between", "ended"
  record,     \* rows of the record batch that are still to be returned
  delivered,  \* rows handed to the caller's sink
  outcome     \* what the caller's sink was told: its kind, its row count

senderVars == <<sender, sent, produced, batch, started, types, schema>>
readerVars == <<reader, record, delivered, outcome>>
streamVars == <<senderVars, wire, cut, readerVars>>

Message ==
  [kind : {"executed", "header", "batch", "eos", "done", "error"}, rows : Seq(Nat), count : Nat]
Mark(kind)     == [kind |-> kind, rows |-> <<>>, count |-> 0]
Batch(rows)    == [Mark("batch") EXCEPT !.rows = rows]
Summary(count) == [Mark("done") EXCEPT !.count = count]

\* Every variable has its shape, and the builder never holds a full batch.
StreamTypeOK ==
  /\ sender \in {"start", "columns", "rows", "ended"}
  /\ sent \in {"none", "done", "error"}
  /\ produced \in 0..MaxRows
  /\ batch \in Seq(Nat) /\ Len(batch) < BatchRows
  /\ started \in BOOLEAN /\ types \in BOOLEAN
  /\ schema \in {"none", "untyped", "typed"}
  /\ wire \in Seq(Message)
  /\ cut \in BOOLEAN
  /\ reader \in {"columns", "open", "between", "ended"}
  /\ record \in Seq(Nat)
  /\ delivered \in Seq(Nat)
  /\ outcome \in [kind : {"none", "done", "error"}, rows : Nat]

StreamInit ==
  /\ sender = "start" /\ sent = "none"
  /\ produced = 0 /\ batch = <<>> /\ started = FALSE
  /\ types = FALSE /\ schema = "none"
  /\ wire = <<>> /\ cut = FALSE
  /\ reader = "columns" /\ record = <<>> /\ delivered = <<>>
  /\ outcome = [kind |-> "none", rows |-> 0]

-----------------------------------------------------------------------------
(* The server: query.Stream into Sink.                                     *)

\* What is written after a cut goes nowhere.
Write(messages) == wire' = IF cut THEN wire ELSE wire \o messages

\* The writer writes the data header before its first batch or its end mark.
Header == IF started THEN <<>> ELSE <<Mark("header")>>

Flush(rows) == IF rows = <<>> THEN <<>> ELSE <<Batch(rows)>>

\* The rows in the builder, then the end of the data.
\* Mutation: a partial batch stays in the builder.
Closing_NoFlush == Header \o <<Mark("eos")>>
Closing == Header \o Flush(batch) \o <<Mark("eos")>>

\* The statement is refused, or fails: an error before any column.
Refuse ==
  /\ sender = "start"
  /\ Write(<<Mark("error")>>)
  /\ sender' = "ended" /\ sent' = "error"
  /\ UNCHANGED <<produced, batch, started, types, schema, cut, readerVars>>

\* A write or DDL run as an exec: no columns, and done at once.
AnswerExec ==
  /\ sender = "start"
  /\ Write(<<Mark("header"), Mark("eos"), Mark("done")>>)
  /\ sender' = "ended" /\ sent' = "done"
  /\ started' = TRUE /\ schema' = "untyped"
  /\ UNCHANGED <<produced, batch, types, cut, readerVars>>

\* OnColumns: the schema, with the column types known by then.
OnColumns ==
  /\ sender = "start"
  /\ schema' = IF types THEN "typed" ELSE "untyped"
  /\ sender' = "columns"
  /\ UNCHANGED <<sent, produced, batch, started, types, wire, cut, readerVars>>

\* OnExecuted, a segment of its own, then SetColumnTypes.
OnExecuted ==
  /\ sender = "columns"
  /\ Write(<<Mark("executed")>>)
  /\ types' = TRUE
  /\ sender' = "rows"
  /\ UNCHANGED <<sent, produced, batch, started, schema, cut, readerVars>>

\* The batch has room for a row and one more.
Room == Len(batch) + 1 < BatchRows

\* A row joins the batch.
OnRow ==
  /\ sender = "rows"
  /\ produced < MaxRows
  /\ Room
  /\ produced' = produced + 1
  /\ batch' = Append(batch, produced + 1)
  /\ UNCHANGED <<sender, sent, started, types, schema, wire, cut, readerVars>>

\* The builder once a batch is out.
\* Mutation: flushBatch does not start a new batch.
NewBatch_Kept == batch
NewBatch == <<>>

\* A row fills the batch, with its number or with its bytes: flushBatch.
OnRowFlush ==
  /\ sender = "rows"
  /\ produced < MaxRows
  /\ produced' = produced + 1
  /\ Write(Header \o Flush(Append(batch, produced + 1)))
  /\ started' = TRUE
  /\ batch' = NewBatch
  /\ UNCHANGED <<sender, sent, types, schema, cut, readerVars>>

\* OnDone: what is left of the rows, the end of the data, the summary.
OnDone ==
  /\ sender = "rows"
  /\ Write(Closing \o <<Summary(produced)>>)
  /\ sender' = "ended" /\ sent' = "done"
  /\ started' = TRUE /\ batch' = <<>>
  /\ UNCHANGED <<produced, types, schema, cut, readerVars>>

\* OnError: the query fails between two rows, is over a limit, or a write of the
\* sink failed.
OnError ==
  /\ sender = "rows"
  /\ Write(Closing \o <<Mark("error")>>)
  /\ sender' = "ended" /\ sent' = "error"
  /\ started' = TRUE /\ batch' = <<>>
  /\ UNCHANGED <<produced, types, schema, cut, readerVars>>

Sender == Refuse \/ AnswerExec \/ OnColumns \/ OnExecuted \/ OnRow \/ OnRowFlush \/ OnDone \/ OnError

-----------------------------------------------------------------------------
(* The network.                                                            *)

\* The body ends here for the reader.
Cut ==
  /\ MaxCuts = 1 /\ ~cut
  /\ reader # "ended"
  /\ cut' = TRUE
  /\ \E n \in 0..Len(wire) : wire' = SubSeq(wire, 1, n)
  /\ UNCHANGED <<senderVars, readerVars>>

-----------------------------------------------------------------------------
(* The client: Stream into drainStreamInto.                                *)

Arrived(kind) == wire # <<>> /\ Head(wire).kind = kind

\* Mutation: a body that has nothing to read yet is taken for one that has ended.
Lost_Early == wire = <<>>
Lost == cut /\ wire = <<>>

Take == wire' = Tail(wire) /\ UNCHANGED <<senderVars, cut>>

Tell(kind, rows) ==
  /\ outcome' = [kind |-> kind, rows |-> rows]
  /\ reader' = "ended"

\* Columns: the execution time, if it comes first.
ReadExecuted ==
  /\ reader = "columns" /\ Arrived("executed")
  /\ Take
  /\ UNCHANGED readerVars

ReadHeader ==
  /\ reader = "columns" /\ Arrived("header")
  /\ Take
  /\ reader' = "open"
  /\ UNCHANGED <<record, delivered, outcome>>

\* Columns fails: an error instead of the data, or no segment to read.
ReadRefusal ==
  /\ reader = "columns" /\ Arrived("error")
  /\ Take
  /\ Tell("error", 0)
  /\ UNCHANGED <<record, delivered>>

ColumnsCut ==
  /\ reader = "columns" /\ Lost
  /\ Tell("error", 0)
  /\ UNCHANGED <<record, delivered, senderVars, wire, cut>>

\* Next returns a row of the record it holds.
NextRow ==
  /\ reader = "open" /\ record # <<>>
  /\ delivered' = Append(delivered, Head(record))
  /\ record' = Tail(record)
  /\ UNCHANGED <<senderVars, wire, cut, reader, outcome>>

\* Next reads the next record, or the end of the data.
NextBatch ==
  /\ reader = "open" /\ record = <<>> /\ Arrived("batch")
  /\ record' = Head(wire).rows
  /\ Take
  /\ UNCHANGED <<reader, delivered, outcome>>

NextSegment ==
  /\ reader = "open" /\ record = <<>> /\ Arrived("eos")
  /\ Take
  /\ reader' = "between"
  /\ UNCHANGED <<record, delivered, outcome>>

\* The segment after the data.
ReadDone ==
  /\ reader = "between" /\ Arrived("done")
  /\ Take
  /\ Tell("done", Head(wire).count)
  /\ UNCHANGED <<record, delivered>>

ReadError ==
  /\ reader = "between" /\ Arrived("error")
  /\ Take
  /\ Tell("error", 0)
  /\ UNCHANGED <<record, delivered>>

\* No segment to read: Next takes any failure of ipc.NewReader for the end of
\* the result, and nobody asks the reader it had for its error.
\* Mutation: the reader waits for the segment that does not come.
NextLost_Waits == FALSE
NextLost == reader \in {"open", "between"} /\ record = <<>> /\ Lost

NextCut ==
  /\ NextLost
  /\ Tell("done", 0)
  /\ UNCHANGED <<record, delivered, senderVars, wire, cut>>

Reader ==
  \/ ReadExecuted \/ ReadHeader \/ ReadRefusal \/ ColumnsCut
  \/ NextRow \/ NextBatch \/ NextSegment \/ ReadDone \/ ReadError \/ NextCut

StreamNext == Sender \/ Cut \/ Reader

\* The reader goes on while there is something to read.  The statement timeout
\* ends every query, and the context of the request every wait for the body.
StreamFairness == WF_streamVars(Sender) /\ WF_streamVars(Reader)

StreamSafety == StreamInit /\ [][StreamNext]_streamVars

StreamSpec == StreamSafety /\ StreamFairness

-----------------------------------------------------------------------------
(* Properties.                                                             *)

\* Rows reach the caller in the order of the query, none twice and none skipped,
\* whatever the batches and wherever the body ends (Sink.OnRow, Stream.Next).
RowsInOrder ==
  /\ Len(delivered) <= produced
  /\ \A i \in 1..Len(delivered) : delivered[i] = i

\* "A failed stream leaves its error and no rows: a truncated result is worse
\* than none" (query/execute.go:201): what ends as done is the whole result.
\* The code does not keep this: README.md, section 6.
DoneIsWhole ==
  outcome.kind = "done" =>
    /\ sent = "done"
    /\ Len(delivered) = produced
    /\ outcome.rows = produced

\* The same for a body that arrives whole: success and failure come through the
\* terminal segment, and the summary counts the rows that came before it.
UncutIsWhole ==
  ~cut /\ outcome.kind # "none" =>
    /\ outcome.kind = sent
    /\ Len(delivered) = produced
    /\ sent = "done" => outcome.rows = produced

\* The caller gets what RowFeed promises: nothing comes after the outcome, the outcome
\* comes once, and only a lost connection makes it differ from the query's.
Feed == INSTANCE RowFeed

ImplementsFeed == Feed!Spec

\* Every stream ends for the caller, with OnDone or OnError (engine/client.go,
\* drainStreamInto), also when the body is cut.
StreamEnds == <>(outcome.kind # "none")

\* "Must be called before OnColumns" (arrowstream/sink.go:103): the schema is
\* made with the column types the query reports.
\* The code does not keep this: README.md, section 6.
ColumnsTyped == types => schema = "typed"
=============================================================================
