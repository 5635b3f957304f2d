-------------------------------- MODULE Cellar --------------------------------
(***************************************************************************)
(* backend/internal/cellar: the managed SQLite databases of one cellar.    *)
(* Each has a file on the cellar's disk, a copy in the bucket that         *)
(* Litestream keeps up to date while the database replicates, or both.     *)
(* Statements wake a cold database; the tidy loop rests idle databases and *)
(* evicts resting ones; the reconciler's purge removes a database.         *)
(*                                                                         *)
(* One step is one critical section of Databases.mu, or a call that runs   *)
(* without it: a sync to the bucket, a restore, a statement.               *)
(*                                                                         *)
(* Data.  The content of a database is the number of writes in it.  Time   *)
(* is reduced to idle: what the tick under way found idle for restAfter, and *)
(* nothing has used since.                                                 *)
(***************************************************************************)
EXTENDS Integers, FiniteSets

CONSTANTS
  Db,
  Request,     \* the handlers of the statements that are under way
  Served,      \* those that get statements and are removed (bounds the model)
  MaxWrites,   \* writes in a database (bounds the model)
  MaxStarts    \* runs of the process after the first (bounds the model)

ASSUME DbAssumption    == Db # {} /\ IsFiniteSet(Db) /\ Served \subseteq Db
ASSUME BoundAssumption == MaxWrites \in Nat /\ MaxStarts \in Nat

VARIABLES
  file,      \* file[d]: the writes in the file at d's path
  bucket,    \* bucket[d]: the writes in the copy of d the bucket holds
  record,    \* record[d]: d's entry in onDisk
  idle,      \* databases collected by the tick and not used since
  pool,      \* pool[d]: the file the pooled connections of d are on
  restore,   \* restore[d]: where the restore of d is
  request,   \* request[r]: where r is, and its database
  tidy,      \* where the tidy loop is, the idle databases it has to rest, the
             \* one it has synced
  life,      \* life[d]: what the backend has asked for d
  acked,     \* history: acked[d]: the writes of d that were acknowledged
  up,        \* the process runs
  starts,    \* history: times it was started again
  half       \* history: databases whose eviction failed, their file left behind

vars  == <<file, bucket, record, idle, pool, restore, request, tidy, life, acked,
           up, starts, half>>

Absent == -1
Content == Absent..MaxWrites

Asleep == [at |-> "asleep", todo |-> {}, synced |-> {}]
Nobody == [at |-> "none", db |-> CHOOSE d \in Db : TRUE]

\* Every variable has its shape, and a database with a record has a file, but for
\* one that a wake brought back while its file was being removed.
TypeOK ==
  /\ file \in [Db -> Content] /\ bucket \in [Db -> Content] /\ acked \in [Db -> Content]
  /\ record \in [Db -> {"none", "replicating", "resting"}]
  /\ idle \in SUBSET Db
  /\ pool \in [Db -> {"none", "current", "stale"}]
  /\ restore \in [Db -> {"no", "reading", "written"}]
  /\ request \in [Request -> [at : {"none", "sent", "cold", "waiting", "awake", "used"}, db : Db]]
  /\ tidy \in [at : {"asleep", "rest", "evict"}, todo : SUBSET Db, synced : SUBSET Db]
  /\ life \in [Db -> {"unborn", "live", "stopped", "emptying", "gone", "raced"}]
  /\ up \in BOOLEAN
  /\ starts \in 0..MaxStarts /\ half \in SUBSET Db
  /\ \A d \in Db : record[d] # "none" => file[d] # Absent \/ life[d] = "raced"

At(r, place) == request[r].at = place
Is(r, place, d) == request[r] = [at |-> place, db |-> d]
Move(r, place) == request' = [request EXCEPT ![r].at = place]
End(r) == request' = [request EXCEPT ![r] = Nobody]

-----------------------------------------------------------------------------
Init ==
  /\ file = [d \in Db |-> Absent] /\ bucket = [d \in Db |-> Absent]
  /\ acked = [d \in Db |-> Absent]
  /\ record = [d \in Db |-> "none"]
  /\ idle = {}
  /\ pool = [d \in Db |-> "none"]
  /\ restore = [d \in Db |-> "no"]
  /\ request = [r \in Request |-> Nobody]
  /\ tidy = Asleep
  /\ life = [d \in Db |-> "unborn"]
  /\ up = TRUE /\ starts = 0 /\ half = {}

(* Statements.                                                             *)

\* The backend sends a statement for a database it serves.
Send(r, d) ==
  /\ up
  /\ At(r, "none")
  /\ life[d] = "live" /\ d \in Served
  /\ request' = [request EXCEPT ![r] = [at |-> "sent", db |-> d]]
  /\ UNCHANGED <<file, bucket, record, idle, pool, restore, tidy, life, acked, up, starts, half>>

\* wake: the database is on the disk.
WakeHit(r, d) ==
  /\ Is(r, "sent", d)
  /\ record[d] # "none"
  /\ Move(r, "awake")
  /\ UNCHANGED <<file, bucket, record, idle, pool, restore, tidy, life, acked, up, starts, half>>

\* wake: the database is cold.
WakeCold(r, d) ==
  /\ Is(r, "sent", d)
  /\ record[d] = "none"
  /\ Move(r, "cold")
  /\ UNCHANGED <<file, bucket, record, idle, pool, restore, tidy, life, acked, up, starts, half>>

\* Mutation: restoreLatest does not look again.
RestoreNeeded_Always(d) == d \in Db
\* restoreLatest looks again: an earlier restore may have ended since the caller
\* saw the database cold.
RestoreNeeded(d) == record[d] = "none"

\* The caller joins the restore that runs, or starts one unless none is needed.
JoinRestore(r, d) ==
  /\ Is(r, "cold", d)
  /\ IF restore[d] = "no" /\ ~RestoreNeeded(d)
     THEN Move(r, "awake") /\ UNCHANGED restore
     ELSE /\ Move(r, "waiting")
          /\ restore' = [restore EXCEPT ![d] = IF @ = "no" THEN "reading" ELSE @]
  /\ UNCHANGED <<file, bucket, record, idle, pool, tidy, life, acked, up, starts, half>>

\* The statement is answered with an error: wakeWait or its context ran out, or
\* what it asked failed.  A restore it waited for goes on.
GiveUp(r) ==
  /\ ~At(r, "none")
  /\ End(r)
  /\ UNCHANGED <<file, bucket, record, idle, pool, restore, tidy, life, acked, up, starts, half>>

\* The restore of d ends: its callers take the result.
RestoreEnds(d, ok) ==
  /\ restore' = [restore EXCEPT ![d] = "no"]
  /\ request' = [r \in Request |->
       IF Is(r, "waiting", d)
       THEN IF ok THEN [at |-> "awake", db |-> d] ELSE Nobody
       ELSE request[r]]

\* Litestream writes the file from the copy in the bucket.  It refuses a path
\* where a file is (wake_test.go:27), and there may be no copy.
RestoreRead(d) ==
  /\ restore[d] = "reading"
  /\ IF bucket[d] # Absent /\ file[d] = Absent
     THEN /\ file' = [file EXCEPT ![d] = bucket[d]]
          /\ restore' = [restore EXCEPT ![d] = "written"]
          /\ UNCHANGED request
     ELSE RestoreEnds(d, FALSE) /\ UNCHANGED file
  /\ UNCHANGED <<bucket, record, idle, pool, tidy, life, acked, up, starts, half>>

\* The bucket fails while the restore reads: no file is written.
RestoreFail(d) ==
  /\ restore[d] = "reading"
  /\ RestoreEnds(d, FALSE)
  /\ UNCHANGED <<file, bucket, record, idle, pool, tidy, life, acked, up, starts, half>>

\* The restored database gets its record, at rest.
RestoreRegister(d) ==
  /\ restore[d] = "written"
  /\ record' = [record EXCEPT ![d] = "resting"]
  /\ idle' = idle \ {d}
  /\ RestoreEnds(d, TRUE)
  /\ UNCHANGED <<file, bucket, pool, tidy, life, acked, up, starts, half>>

\* use, after the wake: the database replicates and its idle time is reset.
Use(r, d) ==
  /\ Is(r, "awake", d)
  /\ IF record[d] # "none"
     THEN /\ record' = [record EXCEPT ![d] = "replicating"]
          /\ idle' = idle \ {d}
          /\ Move(r, "used")
     ELSE End(r) /\ UNCHANGED <<record, idle>>
  /\ UNCHANGED <<file, bucket, pool, restore, tidy, life, acked, up, starts, half>>

\* query.Stream on the database's pooled connections, which GetOrOpenTrusted
\* opens if there are none: mode=rw fails when there is no file.  A write is
\* acknowledged; on connections to a deleted file nobody will read it.
Execute(r, d) ==
  /\ Is(r, "used", d)
  /\ pool[d] # "none" \/ file[d] # Absent
  /\ pool' = [pool EXCEPT ![d] = IF @ = "none" THEN "current" ELSE @]
  /\ \/ UNCHANGED <<file, acked>>
     \/ /\ acked[d] < MaxWrites
        /\ acked' = [acked EXCEPT ![d] = @ + 1]
        /\ file' = IF pool[d] = "stale" THEN file ELSE [file EXCEPT ![d] = @ + 1]
  /\ End(r)
  /\ UNCHANGED <<bucket, record, idle, restore, tidy, life, up, starts, half>>

(* Replication and the tidy loop.                                          *)

\* What the bucket holds after a sync: there is nothing to send without a file.
Shipped(d) == IF file[d] = Absent THEN bucket[d] ELSE file[d]

\* Litestream sends the writes of a replicating database to the bucket.
Sync(d) ==
  /\ up
  /\ record[d] = "replicating"
  /\ bucket' = [bucket EXCEPT ![d] = Shipped(d)]
  /\ UNCHANGED <<file, record, idle, pool, restore, request, tidy, life, acked, up, starts, half>>

\* Nobody has used d for restAfter: a statement ends long before that.
Unused(d) == ~\E r \in Request : Is(r, "used", d)

\* The ticker fires and rest collects the replicating databases that are idle.
Tick ==
  /\ up
  /\ tidy = Asleep
  /\ \E old \in SUBSET {d \in Db : record[d] = "replicating" /\ Unused(d)} :
       /\ idle' = old
       /\ tidy' = [at |-> "rest", todo |-> old, synced |-> {}]
  /\ UNCHANGED <<file, bucket, record, pool, restore, request, life, acked, up, starts, half>>

\* restOne, without the lock: the bucket is brought up to date, or the database
\* waits for the next tick.  Its record may be gone by now.
RestSync(d) ==
  /\ tidy.at = "rest" /\ tidy.synced = {}
  /\ d \in tidy.todo
  /\ \/ /\ record[d] = "replicating"
        /\ bucket' = [bucket EXCEPT ![d] = Shipped(d)]
        /\ tidy' = [tidy EXCEPT !.todo = @ \ {d}, !.synced = {d}]
     \/ tidy' = [tidy EXCEPT !.todo = @ \ {d}] /\ UNCHANGED bucket
  /\ UNCHANGED <<file, record, idle, pool, restore, request, life, acked, up, starts, half>>

\* Mutation: the record was removed meanwhile and is put to rest all the same.
Restable_Removed(d) == d \in idle \/ record[d] = "none"
\* restOne, with the lock again: the record is still there, and still idle.
Restable(d) == record[d] = "replicating" /\ d \in idle

\* Mutation: the pool stays open.
Closed_Not(d) == [pool EXCEPT ![d] = @]
\* DeleteConnsByAddr: the pooled connections of d are closed.
Closed(d) == [pool EXCEPT ![d] = "none"]

\* restOne: the connections are closed and the database rests.  Unregistering
\* syncs it once more; when that fails it replicates again, and when that fails,
\* too, it rests all the same: nobody looks at the error.
RestOne(d) ==
  /\ tidy.at = "rest" /\ d \in tidy.synced
  /\ tidy' = [tidy EXCEPT !.synced = {}]
  /\ IF Restable(d)
     THEN /\ pool' = Closed(d)
          /\ record' \in {record, [record EXCEPT ![d] = "resting"]}
          /\ bucket' \in {bucket, [bucket EXCEPT ![d] = Shipped(d)]}
     ELSE UNCHANGED <<pool, record, bucket>>
  /\ UNCHANGED <<file, idle, restore, request, life, acked, up, starts, half>>

Resting == {d \in Db : record[d] = "resting"}

\* Mutation: the databases that still replicate are evicted too.
Evictable_Any == {d \in Db : record[d] # "none"}
\* evict takes the resting databases only.
Evictable == Resting

\* evict, all of it under the lock: while the disk is short the resting
\* databases go, and it stops at one whose files cannot be removed.  (Which goes
\* first is left open.)
Evict ==
  /\ tidy.at = "rest" /\ tidy.todo = {} /\ tidy.synced = {}
  /\ tidy' = Asleep
  /\ idle' = {}
  /\ \E out \in SUBSET Evictable : \E bad \in SUBSET out :
       /\ Cardinality(bad) <= 1
       /\ record' = [d \in Db |-> IF d \in out THEN "none" ELSE record[d]]
       /\ file' = [d \in Db |-> IF d \in out \ bad THEN Absent ELSE file[d]]
       /\ pool' = [d \in Db |-> IF d \in out \ bad /\ pool[d] = "current" THEN "stale" ELSE pool[d]]
       /\ half' = half \cup bad
  /\ UNCHANGED <<bucket, restore, request, life, acked, up, starts>>

(* The life of a database.                                                 *)

\* A database the backend asked for gets its file and replicates.
Add(d, n) ==
  /\ file' = [file EXCEPT ![d] = n]
  /\ acked' = [acked EXCEPT ![d] = n]
  /\ record' = [record EXCEPT ![d] = "replicating"]
  /\ idle' = idle \ {d}
  /\ life' = [life EXCEPT ![d] = "live"]
  /\ UNCHANGED <<bucket, pool, restore, tidy, up, starts, half>>

\* createDatabase: an empty database, or a copy of another one as the bucket
\* holds it at some time.  Its id is new, so nobody else asks for it.
Create(d) ==
  /\ up
  /\ life[d] = "unborn"
  /\ \/ Add(d, 0)
     \/ \E s \in Db : \E n \in 0..bucket[s] : life[s] = "live" /\ Add(d, n)
  /\ UNCHANGED request

\* createDatabase: a copy of a database in use, with VACUUM INTO.
Fork(r, s, d) ==
  /\ Is(r, "used", s)
  /\ life[s] = "live" /\ life[d] = "unborn"
  /\ file[s] # Absent
  /\ Add(d, file[s])
  /\ End(r)

\* The backend stops sending statements for d; it will be removed.
StopServing(d) ==
  /\ life[d] = "live" /\ d \in Served
  /\ life' = [life EXCEPT ![d] = "stopped"]
  /\ UNCHANGED <<file, bucket, record, idle, pool, restore, request, tidy, acked, up, starts, half>>

\* Somebody is still using d, or waking it.
Busy(d) == restore[d] # "no" \/ \E r \in Request : request[r].at # "none" /\ request[r].db = d

\* remove, under the lock: the record, the connections and the files go.  The
\* backend repeats a removal that failed, and one that a wake undid.
Remove(d) ==
  /\ up
  /\ life[d] \in {"stopped", "emptying", "raced"}
  /\ record' = [record EXCEPT ![d] = "none"]
  /\ pool' = Closed(d)
  /\ \/ /\ file' = [file EXCEPT ![d] = Absent]
        /\ half' = half \ {d}
        /\ life' = [life EXCEPT ![d] = IF Busy(d) THEN "raced" ELSE "emptying"]
     \/ /\ file[d] # Absent
        /\ half' = half \cup {d}
        /\ UNCHANGED <<file, life>>
  /\ UNCHANGED <<bucket, idle, restore, request, tidy, acked, up, starts>>

\* remove, after the unlock: DeleteAll in the bucket.
EmptyBucket(d) ==
  /\ up
  /\ life[d] \in {"emptying", "raced"}
  /\ bucket' = [bucket EXCEPT ![d] = Absent]
  /\ life' = [life EXCEPT ![d] = IF @ = "emptying" THEN "gone" ELSE @]
  /\ UNCHANGED <<file, record, idle, pool, restore, request, tidy, acked, up, starts, half>>

(* The process.                                                            *)

\* The process ends; what is on the disk and in the bucket stays.
Down ==
  /\ starts < MaxStarts
  /\ up' = FALSE
  /\ record' = [d \in Db |-> "none"]
  /\ pool' = [d \in Db |-> "none"]
  /\ restore' = [d \in Db |-> "no"]
  /\ request' = [r \in Request |-> Nobody]
  /\ tidy' = Asleep
  /\ idle' = {}
  /\ half' = {}
  /\ UNCHANGED <<file, life, acked, starts>>

\* It is killed.
Crash ==
  /\ up
  /\ Down
  /\ UNCHANGED bucket

\* CloseDatabases, after the server's Shutdown: a last sync of what replicates.
Close ==
  /\ up
  /\ \A r \in Request : At(r, "none")
  /\ bucket' = [d \in Db |-> IF record[d] = "replicating" THEN Shipped(d) ELSE bucket[d]]
  /\ Down

\* Mutation: the databases found on the disk are taken for resting ones.
Found_Resting(d) == IF file[d] = Absent THEN "none" ELSE "resting"
\* OpenDatabases replicates every database it finds.
Found(d) == IF file[d] = Absent THEN "none" ELSE "replicating"

Start ==
  /\ ~up
  /\ up' = TRUE
  /\ starts' = starts + 1
  /\ record' = [d \in Db |-> Found(d)]
  /\ UNCHANGED <<file, bucket, idle, pool, restore, request, tidy, life, acked, half>>

-----------------------------------------------------------------------------
Handler(r) ==
  \/ \E d \in Db : Send(r, d) \/ WakeHit(r, d) \/ WakeCold(r, d) \/ JoinRestore(r, d) \/ Use(r, d) \/ Execute(r, d)
  \/ \E s, d \in Db : Fork(r, s, d)
  \/ GiveUp(r)

Restorer(d) == RestoreRead(d) \/ RestoreFail(d) \/ RestoreRegister(d)

TidyLoop == Tick \/ (\E d \in Db : RestSync(d) \/ RestOne(d)) \/ Evict

Lifecycle(d) == Create(d) \/ StopServing(d) \/ Remove(d) \/ EmptyBucket(d)

Process == Crash \/ Close \/ Start

Next ==
  \/ \E r \in Request : Handler(r)
  \/ \E d \in Db : Restorer(d) \/ Sync(d) \/ Lifecycle(d)
  \/ TidyLoop
  \/ Process

\* Litestream syncs at its interval until it succeeds; whatever supervises the
\* process starts it again.
Fairness == (\A d \in Db : WF_vars(Sync(d))) /\ WF_vars(Start)

Spec == Init /\ [][Next]_vars /\ Fairness

-----------------------------------------------------------------------------
Kept(d) == life[d] \in {"live", "stopped"}

\* Where the database is: its file, or the copy in the bucket when there is none.
Stored(d) == IF file[d] # Absent THEN file[d] ELSE bucket[d]

\* A database holds every write that was acknowledged, on disk or, with no file
\* there, in the bucket: however statements, restores, rests, evictions, crashes
\* and restarts interleave.  (databases.go: a resting database is whole in the
\* bucket.)
NoAckedLost == \A d \in Db : Kept(d) => Stored(d) = acked[d]

\* A restore never finds a file in its way, but for one an eviction or a removal
\* left half done.
RestoreHasRoom == \A d \in Db : restore[d] = "reading" /\ d \notin half => file[d] = Absent

\* "Forgotten first: a half-removed database must be restored, not used" (tidy.go,
\* at the eviction's delete): the restore of a database the backend serves finds
\* room for its file.
HalfRemovedIsRestored ==
  \A d \in Db : life[d] = "live" /\ restore[d] = "reading" => file[d] = Absent

\* A removed database that nobody was using or waking when it was removed leaves
\* nothing behind, and nothing brings it back.
GoneStaysGone ==
  \A d \in Db : life[d] = "gone" =>
    record[d] = "none" /\ file[d] = Absent /\ bucket[d] = Absent /\ pool[d] = "none"

\* What a reader of the abstract store sees.
Content_(d) == IF Kept(d) THEN Stored(d) ELSE Absent
Promise == INSTANCE DbStore WITH content <- [d \in Db |-> Content_(d)]

\* The cellar is such a store: only a create, an acknowledged write and a removal
\* change what a database holds.
ImplementsStore == Promise!StoreSpec

\* Again and again the bucket holds every acknowledged write of a database.
WritesReachBucket == \A d \in Db : []<>(life[d] = "live" => bucket[d] = acked[d])
=============================================================================
