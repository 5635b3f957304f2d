------------------------------ MODULE ConnCache ------------------------------
(***************************************************************************)
(* dialect/engine/connect: the pools of the engine, kept in a Cache and    *)
(* found again through connHashToDSN, the index from cache key to DSN.     *)
(*                                                                         *)
(* The index has a mutex of its own, so opening a pool, indexing it and    *)
(* storing it are three steps, and so are taking it out of the cache,      *)
(* pruning the index and closing it poolCloseGrace later.                  *)
(*                                                                         *)
(* A key stands for a workspace and a DSN; those of Workspace belong to    *)
(* one workspace.  TunnelCache adds the SSH tunnels some DSNs go through.  *)
(***************************************************************************)
EXTENDS Cache

CONSTANT Workspace   \* keys of the workspace that may be deleted

ASSUME PlaceAssumption == Workspace \subseteq Key

VARIABLES
  indexed,   \* the keys connHashToDSN has an entry for
  opened,    \* pools that have been opened
  closing,   \* pools whose close is scheduled
  closed,    \* pools that are closed
  walk       \* walk[t]: DeleteConnsByAddr's toDelete, what is left of it

connVars == <<indexed, opened, closing, closed, walk>>
connCacheVars == <<cacheVars, connVars>>

\* Every variable of this module has its shape.
ConnTypeOK ==
  /\ indexed \in SUBSET Key
  /\ opened \in SUBSET Nat
  /\ closing \in SUBSET Nat
  /\ closed \in SUBSET Nat
  /\ walk \in [Thread -> SUBSET Key]

ConnInit ==
  /\ Init
  /\ indexed = {} /\ opened = {} /\ closing = {} /\ closed = {}
  /\ walk = [t \in Thread |-> {}]

\* t is not in the middle of DeleteConnsByAddr.
Idling(t) == walk[t] = {}

\* getOrOpen: the pool of an earlier query, a wait for one, or a new one.
GetOrOpen(t, k) ==
  /\ Idling(t)
  /\ GetOrCreateHit(t, k) \/ GetOrCreateWait(t, k) \/ GetOrCreateMiss(t, k)
  /\ UNCHANGED connVars

\* Inside create: open has a pool, and indexConn records it.
OpenPool(t) ==
  /\ thread[t].at = "create"
  /\ Quiet(t)
  /\ thread[t].call \notin opened
  /\ opened' = opened \cup {thread[t].call}
  /\ indexed' = indexed \cup {thread[t].key}
  /\ UNCHANGED <<cacheVars, closing, closed, walk>>

\* create returns the pool, or the error open had.
StorePool(t) ==
  /\ thread[t].at = "create"
  /\ thread[t].call \in opened
  /\ CreateReturns(t)
  /\ UNCHANGED connVars

OpenFails(t) ==
  /\ thread[t].at = "create"
  /\ thread[t].call \notin opened
  /\ CreateFails(t)
  /\ UNCHANGED connVars

EndGetOrOpen(t) ==
  /\ Release(t) \/ CloseDone(t) \/ Wake(t)
  /\ UNCHANGED connVars

\* A pool expires, and gc sweeps the expired ones.
Age(k) == Expire(k) /\ UNCHANGED connVars

GC(t) == Idling(t) /\ Sweep(t) /\ UNCHANGED connVars

\* Mutation: a pool is scheduled to close and then stays open.
ScheduleClose_Never(v) == closing
ScheduleClose(v) == closing \cup {v}

\* closeDeletedPool, the cache's OnDelete.
CloseDeletedPool(t, k, v) ==
  /\ Notify(t, k, v)
  /\ indexed' = indexed \ {k}
  /\ closing' = ScheduleClose(v)
  /\ UNCHANGED <<opened, closed, walk>>

\* poolCloseGrace has passed.
ClosePool(v) ==
  /\ v \in closing
  /\ closing' = closing \ {v}
  /\ closed' = closed \cup {v}
  /\ UNCHANGED <<cacheVars, indexed, opened, walk>>

\* DeleteConnsByAddr walks the index for the keys K whose DSN has the address, then
\* deletes what it found key by key.
FindConns(t, K) ==
  /\ Free(t) /\ Idling(t)
  /\ walk' = [walk EXCEPT ![t] = indexed \cap K]
  /\ UNCHANGED <<cacheVars, indexed, opened, closing, closed>>

DeleteFound(t, k) ==
  /\ k \in walk[t]
  /\ Quiet(t)
  /\ walk' = [walk EXCEPT ![t] = @ \ {k}]
  /\ IF k \in Cached THEN Delete(t, {k}) ELSE UNCHANGED cacheVars
  /\ UNCHANGED <<indexed, opened, closing, closed>>

\* CloseWorkspaceConns, once the workspace is deleted.
CloseWorkspaceConns(t) ==
  /\ Free(t) /\ Idling(t)
  /\ IF Workspace \cap Cached = {} THEN UNCHANGED cacheVars
                                   ELSE Delete(t, Workspace \cap Cached)
  /\ UNCHANGED connVars

RunOnDelete(t) == \E d \in due : d[1] = t /\ CloseDeletedPool(t, d[2], d[3])

ConnFinish(t) == OpenPool(t) \/ StorePool(t) \/ OpenFails(t) \/ EndGetOrOpen(t)

\* What a goroutine that is in a call goes on with.
ConnWork(t) == ConnFinish(t) \/ RunOnDelete(t) \/ \E k \in Key : DeleteFound(t, k)

ConnNext ==
  \/ \E k \in Key : Age(k)
  \/ \E v \in closing : ClosePool(v)
  \/ \E t \in Thread :
       \/ \E k \in Key : GetOrOpen(t, k)
       \/ OpenPool(t)
       \/ StorePool(t)
       \/ OpenFails(t)
       \/ EndGetOrOpen(t)
       \/ GC(t)
       \/ RunOnDelete(t)
       \/ \E K \in SUBSET Key : FindConns(t, K)
       \/ \E k \in Key : DeleteFound(t, k)
       \/ CloseWorkspaceConns(t)

ConnSafety == ConnInit /\ [][ConnNext]_connCacheVars

-----------------------------------------------------------------------------
(* Properties.                                                             *)

\* The pool of a creator that has opened it and not stored it yet.
InHand == {thread[t].call : t \in {u \in Thread : thread[u].at = "create"}} \cap opened

\* No pool leaks and none is closed twice: an opened pool is in the hands of its
\* creator, in the cache, owed to closeDeletedPool, waiting out its grace or
\* closed, and only one of these.
PoolsAccounted ==
  /\ opened = InHand \cup Held \cup Owed \cup closing \cup closed
  /\ (InHand \cup Held) \cap (Owed \cup closing \cup closed) = {}
  /\ Owed \cap (closing \cup closed) = {}
  /\ closing \cap closed = {}

\* Every pool lives the life PoolLife describes: dropped pools stop serving for
\* good, are closed once, and are all closed in the end (closeDeletedPool).
Life == INSTANCE PoolLife WITH
  Pool <- 1..MaxMade,
  life <- [v \in 1..MaxMade |->
            IF v \notin opened THEN "new"
            ELSE IF v \in closed THEN "closed"
            ELSE IF v \in InHand \cup Held THEN "serving"
            ELSE "draining"]

ImplementsPoolLife == Life!Spec

\* "create runs only on a miss, so nothing under this key is displaced"
\* (conn_cache.go:211): whatever is in the cache is in the index, where
\* DeleteConnsByAddr looks for it.
\* The code does not keep this: README.md, section 6.
IndexCovers == Cached \subseteq indexed
=============================================================================
