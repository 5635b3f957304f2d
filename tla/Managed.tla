------------------------------- MODULE Managed -------------------------------
(***************************************************************************)
(* backend/internal/datasource: the managed databases of a workspace.  A   *)
(* database is a row in PostgreSQL and a file on the cellar, written one   *)
(* after the other; every backend keeps the DSN of the databases it serves *)
(* in a cache of its own; a reconciler removes from the cellar what no row *)
(* wants.                                                                  *)
(*                                                                         *)
(* The cellar is seen from here: it holds a database, or is removing it    *)
(* (disk first, then bucket), or does not know it.  Cellar.tla is its      *)
(* inside.  Age is one bit: a database no older than orphanAge is young.   *)
(***************************************************************************)
EXTENDS Integers, FiniteSets

CONSTANTS
  Db,            \* ids; each is used once
  Creator,       \* the requests that create or fork
  Backend,       \* the instances of the backend
  MaxDatabases,  \* the plan's limit
  MaxPurges,     \* in one run of the reconciler
  MaxFaults      \* purges and runs that fail (bounds the model)

ASSUME DbAssumption == Db # {}
ASSUME LimitAssumption ==
  MaxDatabases \in Nat /\ MaxPurges \in Nat \ {0} /\ MaxFaults \in Nat

VARIABLES
  row,        \* row[d]: the state of d's row
  workspace,  \* the workspace is live, or deleted
  cellar,     \* cellar[d]: what the cellar holds of d
  young,      \* databases written less than orphanAge ago
  born,       \* ids that were given out
  creator,    \* creator[c]: where the request is, and its database
  dsn,        \* dsn[b]: the databases whose DSN b has cached
  load,       \* load[b]: those whose row b has read to cache their DSN
  forget,     \* forget[b]: the sets of them that b has marked and not yet invalidated
  told,       \* history: told[b]: those b has invalidated
  raced,      \* history: raced[b]: those b was loading as it invalidated them
  run,        \* the reconciler's run
  faults      \* history: purges and runs that failed

rows == <<row, workspace, born, creator>>
caches == <<dsn, load, forget, told, raced>>
vars == <<row, workspace, cellar, young, born, creator, dsn, load, forget, told, raced, run, faults>>

Nothing == [at |-> "idle", db |-> CHOOSE d \in Db : TRUE]
Asleep == [at |-> "asleep", todo |-> {}, held |-> {}, old |-> {}, doomed |-> {},
           purged |-> 0]

\* Every variable has its shape; a run ends at its limits.
TypeOK ==
  /\ row \in [Db -> {"none", "hot", "deleting"}]
  /\ workspace \in {"live", "deleted"}
  /\ cellar \in [Db -> {"no", "whole", "emptying"}]
  /\ young \in SUBSET Db /\ born \in SUBSET Db
  /\ creator \in [Creator -> [at : {"idle", "counted", "made"}, db : Db]]
  /\ dsn \in [Backend -> SUBSET Db] /\ load \in [Backend -> SUBSET Db]
  /\ forget \in [Backend -> SUBSET SUBSET Db]
  /\ told \in [Backend -> SUBSET Db] /\ raced \in [Backend -> SUBSET Db]
  /\ run \in [at : {"asleep", "judging", "removing", "emptying", "dropping"},
              todo : SUBSET Db, held : SUBSET Db, old : SUBSET Db, doomed : SUBSET Db,
              purged : 0..MaxPurges]
  /\ Cardinality(run.doomed) <= 1
  /\ faults \in 0..MaxFaults

Served(d) == row[d] = "hot" /\ workspace = "live"

Init ==
  /\ row = [d \in Db |-> "none"]
  /\ workspace = "live"
  /\ cellar = [d \in Db |-> "no"]
  /\ young = {} /\ born = {}
  /\ creator = [c \in Creator |-> Nothing]
  /\ dsn = [b \in Backend |-> {}] /\ load = [b \in Backend |-> {}]
  /\ forget = [b \in Backend |-> {}]
  /\ told = [b \in Backend |-> {}] /\ raced = [b \in Backend |-> {}]
  /\ run = Asleep
  /\ faults = 0

(* Create and fork: provision.                                             *)

\* Mutation: the workspace row is read without FOR UPDATE.
Unlocked_Always == {creator} # {}
\* LockManagedWorkspace: the row is locked to the end of the transaction.
Unlocked == \A c \in Creator : creator[c].at = "idle"

Hot == {d \in Db : row[d] = "hot"}

\* The transaction takes the workspace's row, and ManagedUsage counts: at the
\* limit the request is refused.
Begin(c, d) ==
  /\ creator[c].at = "idle"
  /\ workspace = "live" /\ Unlocked
  /\ d \notin born
  /\ Cardinality(Hot) < MaxDatabases
  /\ born' = born \cup {d}
  /\ creator' = [creator EXCEPT ![c] = [at |-> "counted", db |-> d]]
  /\ UNCHANGED <<row, workspace, cellar, young, run, caches, faults>>

\* cellarclient.Create: the file is written, and the answer may be lost.
CreateFile(c) ==
  /\ creator[c].at = "counted"
  /\ cellar' = [cellar EXCEPT ![creator[c].db] = "whole"]
  /\ young' = young \cup {creator[c].db}
  /\ \/ creator' = [creator EXCEPT ![c].at = "made"]
     \/ creator' = [creator EXCEPT ![c] = Nothing]
  /\ UNCHANGED <<row, workspace, born, run, caches, faults>>

\* The request fails before its commit: the transaction is rolled back, the file
\* stays where it is.
Abort(c) ==
  /\ creator[c].at # "idle"
  /\ creator' = [creator EXCEPT ![c] = Nothing]
  /\ UNCHANGED <<row, workspace, cellar, young, born, run, caches, faults>>

\* The row is inserted and the transaction commits.
Commit(c) ==
  /\ creator[c].at = "made"
  /\ row' = [row EXCEPT ![creator[c].db] = "hot"]
  /\ creator' = [creator EXCEPT ![c] = Nothing]
  /\ UNCHANGED <<workspace, cellar, young, born, run, caches, faults>>

(* Delete.                                                                 *)

\* DeleteDatasource on backend b: the row is marked, then the cache is told.  On
\* another instance, whose cache is not modelled, only the row is marked.
Mark(b, d) ==
  /\ Served(d)
  /\ row' = [row EXCEPT ![d] = "deleting"]
  /\ \/ forget' = [forget EXCEPT ![b] = @ \cup {{d}}]
     \/ UNCHANGED forget
  /\ UNCHANGED <<workspace, cellar, young, born, creator, dsn, load, told, raced, run, faults>>

\* SoftDelete of the workspace, once no create holds its row.
MarkWorkspace(b) ==
  /\ workspace = "live" /\ Unlocked
  /\ workspace' = "deleted"
  /\ forget' = [forget EXCEPT ![b] = @ \cup {Db}]
  /\ UNCHANGED <<row, cellar, young, born, creator, dsn, load, told, raced, run, faults>>

\* Mutation: the cache is told before the row is marked.
Forgettable_Early(b) == {{d} : d \in Db}
\* The cache is told of what is marked.
Forgettable(b) == forget[b]

\* InvalidateCache or InvalidateWorkspaceCache, on the backend that handled the
\* request only.
Invalidate(b, s) ==
  /\ s \in Forgettable(b)
  /\ forget' = [forget EXCEPT ![b] = @ \ {s}]
  /\ dsn' = [dsn EXCEPT ![b] = @ \ s]
  /\ told' = [told EXCEPT ![b] = @ \cup s]
  /\ raced' = [raced EXCEPT ![b] = @ \cup (load[b] \cap s)]
  /\ UNCHANGED <<row, workspace, cellar, young, born, creator, load, run, faults>>

(* Statements: GetOrLoadDatasource, then the cellar.                       *)

\* A miss: b reads the row.
Load(b, d) ==
  /\ d \notin dsn[b] /\ d \notin load[b]
  /\ Served(d)
  /\ load' = [load EXCEPT ![b] = @ \cup {d}]
  /\ UNCHANGED <<rows, cellar, young, run, dsn, forget, told, raced, faults>>

\* b caches the DSN it made of the row, whatever happened since.
Store(b, d) ==
  /\ d \in load[b]
  /\ load' = [load EXCEPT ![b] = @ \ {d}]
  /\ dsn' = [dsn EXCEPT ![b] = @ \cup {d}]
  /\ UNCHANGED <<rows, cellar, young, run, forget, told, raced, faults>>

\* The entry expires.  (Each Get restarts its TTL: it may never.)
Expire(b, d) ==
  /\ d \in dsn[b]
  /\ dsn' = [dsn EXCEPT ![b] = @ \ {d}]
  /\ UNCHANGED <<rows, cellar, young, run, load, forget, told, raced, faults>>

\* A write through a cached DSN: the cellar uses the database it holds, and
\* restores one whose bucket it is still emptying.
Write(b, d) ==
  /\ d \in dsn[b]
  /\ cellar[d] # "no"
  /\ cellar' = [cellar EXCEPT ![d] = "whole"]
  /\ young' = young \cup {d}
  /\ UNCHANGED <<rows, run, caches, faults>>

\* A day passes since the last write of d.  No create takes that long.
Age(d) ==
  /\ d \in young
  /\ ~\E c \in Creator : creator[c].at # "idle" /\ creator[c].db = d
  /\ young' = young \ {d}
  /\ UNCHANGED <<rows, cellar, run, caches, faults>>

(* The reconciler.  One run at a time: an advisory lock.                   *)

\* The run begins with the list of what the cellar holds.
List ==
  /\ run = Asleep
  /\ LET held == {d \in Db : cellar[d] # "no"}
     IN run' = [Asleep EXCEPT !.at = "judging", !.todo = held, !.held = held, !.old = held \ young]
  /\ UNCHANGED <<rows, cellar, young, caches, faults>>

\* Mutation: a database with no row is purged at any age.
Purgeable_AnyAge(d) == ~Served(d)
\* Mutation: a database of a deleted workspace is kept.
Purgeable_Row(d) == IF row[d] = "none" THEN d \in run.old ELSE row[d] = "deleting"
\* decide: with no row the database goes at orphanAge, with a row when that or its
\* workspace is being deleted.
Purgeable(d) == IF row[d] = "none" THEN d \in run.old ELSE ~Served(d)

\* A run that wants to purge more than maxPurges stops.
CapHit == run.purged >= MaxPurges

\* decide, on the row as it is now.  A purge over the limit ends the run.
Decide(d) ==
  /\ run.at = "judging" /\ d \in run.todo
  /\ run' = IF ~Purgeable(d) THEN [run EXCEPT !.todo = @ \ {d}]
            ELSE IF CapHit THEN Asleep
            ELSE [run EXCEPT !.todo = @ \ {d}, !.doomed = {d}, !.at = "removing"]
  /\ UNCHANGED <<rows, cellar, young, caches, faults>>

\* The cellar removes the file, if it has one.
RemoveFile(d) ==
  /\ run.at = "removing" /\ d \in run.doomed
  /\ cellar' = [cellar EXCEPT ![d] = IF @ = "whole" THEN "emptying" ELSE @]
  /\ run' = [run EXCEPT !.at = "emptying"]
  /\ UNCHANGED <<rows, young, caches, faults>>

\* The cellar empties the bucket.  A file that was restored meanwhile stays.
RemoveCopy(d) ==
  /\ run.at = "emptying" /\ d \in run.doomed
  /\ cellar' = [cellar EXCEPT ![d] = IF @ = "emptying" THEN "no" ELSE @]
  /\ run' = [run EXCEPT !.at = "dropping"]
  /\ UNCHANGED <<rows, young, caches, faults>>

\* The purge fails, before or after the file is removed; the run goes on to the
\* next database.
PurgeFails ==
  /\ run.at \in {"removing", "emptying"}
  /\ faults < MaxFaults /\ faults' = faults + 1
  /\ run' = [run EXCEPT !.at = "judging", !.doomed = {}]
  /\ UNCHANGED <<rows, cellar, young, caches>>

\* DeleteManagedDatasourceRow, after the purge.
DropRow(d) ==
  /\ run.at = "dropping" /\ d \in run.doomed
  /\ row' = [row EXCEPT ![d] = "none"]
  /\ run' = [run EXCEPT !.at = "judging", !.doomed = {}, !.purged = @ + 1]
  /\ UNCHANGED <<workspace, born, creator, cellar, young, caches, faults>>

\* Rows that are being deleted and were not in the list are dropped.
Sweep ==
  /\ run.at = "judging" /\ run.todo = {}
  /\ row' = [d \in Db |-> IF row[d] = "deleting" /\ d \notin run.held THEN "none" ELSE row[d]]
  /\ run' = Asleep
  /\ UNCHANGED <<workspace, born, creator, cellar, young, caches, faults>>

\* The run's time is up, PostgreSQL fails, purges have failed maxFailuresInARow
\* times, or its backend goes down.
RunEnds ==
  /\ run.at # "asleep"
  /\ faults < MaxFaults /\ faults' = faults + 1
  /\ run' = Asleep
  /\ UNCHANGED <<rows, cellar, young, caches>>

-----------------------------------------------------------------------------
Create(c) == (\E d \in Db : Begin(c, d)) \/ CreateFile(c) \/ Abort(c) \/ Commit(c)

Delete(b) ==
  \/ \E d \in Db : Mark(b, d)
  \/ MarkWorkspace(b)
  \/ \E s \in SUBSET Db : Invalidate(b, s)

Statement(b, d) == Load(b, d) \/ Store(b, d) \/ Expire(b, d) \/ Write(b, d)

Purge(d) == Decide(d) \/ RemoveFile(d) \/ RemoveCopy(d) \/ DropRow(d)

Progress == List \/ (\E d \in Db : Purge(d)) \/ Sweep

Next ==
  \/ \E c \in Creator : Create(c)
  \/ \E b \in Backend : Delete(b) \/ \E d \in Db : Statement(b, d)
  \/ \E d \in Db : Age(d)
  \/ Progress \/ PurgeFails \/ RunEnds

\* The reconciler runs every ten minutes for ever, and days pass.
Fairness == WF_vars(Progress) /\ \A d \in Db : WF_vars(Age(d))

Spec == Init /\ [][Next]_vars /\ Fairness

-----------------------------------------------------------------------------
\* A database whose row serves it is on the cellar, whole: the reconciler never
\* takes a database that is being created for an orphan.
LiveKept == \A d \in Db : Served(d) => cellar[d] = "whole"

\* The workspace never has more databases than its plan, however creates overlap.
QuotaHeld == Cardinality(Hot) <= MaxDatabases

\* A backend that has invalidated a database has its DSN again only from a load
\* that was under way at that moment.
ForgottenUnlessRaced ==
  \A b \in Backend : dsn[b] \cap told[b] \subseteq raced[b]

Holders(d) == {b \in Backend : d \in dsn[b] \cup load[b]}

Creating(d) == \E c \in Creator : creator[c].at # "idle" /\ creator[c].db = d

\* Nothing serves d, but its file is there, or its row waits for the purge.  (A hot
\* row of a deleted workspace may stay for ever: if it outlives the purge of its
\* file, neither the listing nor the sweep finds it again.)
Unwanted(d) == ~Served(d) /\ ~Creating(d) /\ (row[d] = "deleting" \/ cellar[d] # "no")

\* Again and again nothing unwanted is left, once no backend keeps a stale DSN
\* for good: whatever the order of creates that fail, deletes, runs that fail
\* half way and rows that are dropped before their file.
UnwantedGoes ==
  <>[](\A d \in Db : Served(d) \/ Holders(d) = {}) => []<>(\A d \in Db : ~Unwanted(d))
=============================================================================
