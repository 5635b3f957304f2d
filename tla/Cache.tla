-------------------------------- MODULE Cache --------------------------------
(***************************************************************************)
(* toolkit/cache: the map with a TTL, an LRU limit and single-flight       *)
(* creation that the engine's caches are built on (connection pools, SSH   *)
(* tunnels, schemas, datasources, results).                                *)
(*                                                                         *)
(* One step is one critical section of Cache.mu.  What runs with the lock  *)
(* released is a step of its own: create, the OnDelete calls a thread owes *)
(* for what it took out, the release of the key, the wake-up of waiters.   *)
(*                                                                         *)
(* Data.  Values are numbers: the n-th value made in a behaviour is n, and *)
(* a GetOrCreate in progress has the number of the value it may make.      *)
(* The LRU list is age, the position of a cached key from the front.       *)
(***************************************************************************)
EXTENDS Integers, FiniteSets

CONSTANTS
  Thread,      \* goroutines that call the cache, the gc among them
  Key,
  MaxEntries,  \* Options.MaxEntries; 0 for no limit
  MaxMade      \* values made in a behaviour (bounds the model)

ASSUME KeyAssumption   == Key # {} /\ IsFiniteSet(Key)
ASSUME LimitAssumption == MaxEntries \in Nat /\ MaxMade \in Nat

VARIABLES
  items,     \* items[k]: the value under k, None for none
  age,       \* age[k]: how many cached keys were used after k
  expired,   \* cached keys past their expiry
  creating,  \* creating[k]: the call in progress for k, None for none
  open,      \* calls whose done channel is not closed
  thread,    \* thread[t]: where t is in GetOrCreate
  due,       \* <<t, k, v>>: thread t took v out and owes OnDelete(k, v)
  made,      \* values made so far
  stored,    \* history: values that have been in the cache
  left       \* history: values OnDelete was called with

cacheVars == <<items, age, expired, creating, open, thread, due, made, stored, left>>

None == 0

At == {"idle", "create", "publish", "close", "wait"}
Idle == [at |-> "idle", key |-> CHOOSE k \in Key : TRUE, call |-> None]

Cached == {k \in Key : items[k] # None}

\* Every variable has its shape, and age ranks the cached keys, from the front of
\* the list to its back.
TypeOK ==
  /\ items \in [Key -> Nat]
  /\ age \in [Key -> Nat]
  /\ {age[k] : k \in Cached} = 0..Cardinality(Cached) - 1
  /\ expired \in SUBSET Key
  /\ creating \in [Key -> Nat]
  /\ open \in SUBSET Nat
  /\ thread \in [Thread -> [at : At, key : Key, call : Nat]]
  /\ due \in SUBSET (Thread \X Key \X Nat)
  /\ made \in Nat
  /\ stored \in SUBSET Nat
  /\ left \in SUBSET Nat

Held   == {items[k] : k \in Cached}
Owed   == {d[3] : d \in due}

\* t holds no deletion it has yet to report.
Quiet(t) == \A d \in due : d[1] # t
Free(t)  == thread[t].at = "idle" /\ Quiet(t)

-----------------------------------------------------------------------------
(* The helpers that run under the lock.                                    *)

\* markUsedLocked, and PushFront for a new key: the age of every key.
Used(k) ==
  [j \in Key |->
    IF j = k THEN 0
    ELSE IF items[j] # None /\ (items[k] = None \/ age[j] < age[k]) THEN age[j] + 1
    ELSE age[j]]

\* The ages once the keys of K have left the list.
\* Mutation: every other key moves up.
AgeWithout_All(K) ==
  [j \in Key |-> IF j \in K \/ items[j] = None THEN 0 ELSE age[j] - Cardinality(K)]
AgeWithout(K) ==
  [j \in Key |->
    IF j \in K \/ items[j] = None THEN 0
    ELSE age[j] - Cardinality({i \in K : age[i] < age[j]})]

\* A hit moves the key to the front and restarts its TTL.
Touch(k) ==
  /\ age' = Used(k)
  /\ UNCHANGED <<items, expired, due, stored>>

\* What OnDelete is owed for when t takes the keys of K out.
\* Mutation: an expired entry is taken out without a word.
Debts_Live(t, K) == {<<t, k, items[k]>> : k \in K \ expired}
Debts(t, K) == {<<t, k, items[k]>> : k \in K}

\* deleteLocked, for cached keys K.
Remove(t, K) ==
  /\ items' = [k \in Key |-> IF k \in K THEN None ELSE items[k]]
  /\ age' = AgeWithout(K)
  /\ expired' = expired \ K
  /\ due' = due \cup Debts(t, K)
  /\ UNCHANGED stored

\* Mutation: one entry too many.
Full_Late == MaxEntries > 0 /\ Cardinality(Cached) > MaxEntries
Full == MaxEntries > 0 /\ Cardinality(Cached) >= MaxEntries

\* Set of a key that is there: the value it displaces is reported unless it is
\* the same.
Replace(t, k, v) ==
  /\ k \in Cached
  /\ items' = [items EXCEPT ![k] = v]
  /\ age' = Used(k)
  /\ due' = due \cup (IF items[k] = v THEN {} ELSE Debts(t, {k}))

\* Set of a new key: at the limit the least recently used entry makes room.
Insert(t, k, v) ==
  /\ k \notin Cached
  /\ ~Full
  /\ items' = [items EXCEPT ![k] = v]
  /\ age' = Used(k)
  /\ UNCHANGED due

InsertEvicting(t, k, v) ==
  /\ k \notin Cached
  /\ Full
  /\ \E victim \in Cached :
       /\ \A j \in Cached : age[j] <= age[victim]
       /\ items' = [items EXCEPT ![k] = v, ![victim] = None]
       /\ age' = [Used(k) EXCEPT ![victim] = 0]
       /\ due' = due \cup Debts(t, {victim})

Put(t, k, v) ==
  /\ Replace(t, k, v) \/ Insert(t, k, v) \/ InsertEvicting(t, k, v)
  /\ expired' = {j \in expired \ {k} : items'[j] # None}
  /\ stored' = stored \cup {v}

-----------------------------------------------------------------------------
Init ==
  /\ items = [k \in Key |-> None]
  /\ age = [k \in Key |-> 0]
  /\ expired = {}
  /\ creating = [k \in Key |-> None]
  /\ open = {}
  /\ thread = [t \in Thread |-> Idle]
  /\ due = {}
  /\ made = 0
  /\ stored = {}
  /\ left = {}

\* The TTL of an entry runs out.
Expire(k) ==
  /\ k \in Cached \ expired
  /\ expired' = expired \cup {k}
  /\ UNCHANGED <<items, age, creating, open, thread, due, made, stored, left>>

Hit(k) == k \in Cached \ expired

\* Get, of a key that is there: an expired entry is taken out.
Get(t, k) ==
  /\ Free(t)
  /\ k \in Cached
  /\ IF Hit(k) THEN Touch(k) ELSE Remove(t, {k})
  /\ UNCHANGED <<creating, open, thread, made, left>>

\* GetOrCreate finds a value.
GetOrCreateHit(t, k) ==
  /\ Free(t)
  /\ Hit(k)
  /\ Touch(k)
  /\ UNCHANGED <<creating, open, thread, made, left>>

TakeExpired(t, k) ==
  IF k \in Cached THEN Remove(t, {k}) ELSE UNCHANGED <<items, age, expired, due, stored>>

\* Mutation: callers that miss do not see each other.
Busy_Never(k) == k \notin Key
\* Somebody is creating k already.
Busy(k) == creating[k] # None

\* GetOrCreate misses and waits for the call in progress.
GetOrCreateWait(t, k) ==
  /\ Free(t)
  /\ ~Hit(k)
  /\ Busy(k)
  /\ TakeExpired(t, k)
  /\ thread' = [thread EXCEPT ![t] = [at |-> "wait", key |-> k, call |-> creating[k]]]
  /\ UNCHANGED <<creating, open, made, left>>

\* GetOrCreate misses and goes on to call create.
GetOrCreateMiss(t, k) ==
  /\ Free(t)
  /\ ~Hit(k)
  /\ ~Busy(k)
  /\ made < MaxMade
  /\ TakeExpired(t, k)
  /\ made' = made + 1
  /\ creating' = [creating EXCEPT ![k] = made + 1]
  /\ open' = open \cup {made + 1}
  /\ thread' = [thread EXCEPT ![t] = [at |-> "create", key |-> k, call |-> made + 1]]
  /\ UNCHANGED left

\* create returns a value, and Set stores it.
CreateReturns(t) ==
  /\ thread[t].at = "create"
  /\ Quiet(t)
  /\ Put(t, thread[t].key, thread[t].call)
  /\ thread' = [thread EXCEPT ![t].at = "publish"]
  /\ UNCHANGED <<creating, open, made, left>>

\* create returns an error, or panics: nothing is stored.
CreateFails(t) ==
  /\ thread[t].at = "create"
  /\ Quiet(t)
  /\ thread' = [thread EXCEPT ![t].at = "publish"]
  /\ UNCHANGED <<items, age, expired, creating, open, due, made, stored, left>>

\* The deferred functions: the key is released, then done is closed.
Release(t) ==
  /\ thread[t].at = "publish"
  /\ Quiet(t)
  /\ creating' = [creating EXCEPT ![thread[t].key] = None]
  /\ thread' = [thread EXCEPT ![t].at = "close"]
  /\ UNCHANGED <<items, age, expired, open, due, made, stored, left>>

\* Mutation: done is not closed.
Done_Never(call) == open
Done(call) == open \ {call}

CloseDone(t) ==
  /\ thread[t].at = "close"
  /\ open' = Done(thread[t].call)
  /\ thread' = [thread EXCEPT ![t] = Idle]
  /\ UNCHANGED <<items, age, expired, creating, due, made, stored, left>>

\* A waiter takes the result of the call it waited for.
Wake(t) ==
  /\ thread[t].at = "wait"
  /\ Quiet(t)
  /\ thread[t].call \notin open
  /\ thread' = [thread EXCEPT ![t] = Idle]
  /\ UNCHANGED <<items, age, expired, creating, open, due, made, stored, left>>

\* Set of a value of the caller's own.
Set(t, k) ==
  /\ Free(t)
  /\ made < MaxMade
  /\ Put(t, k, made + 1)
  /\ made' = made + 1
  /\ UNCHANGED <<creating, open, thread, left>>

\* Set of the value that is there already.
SetAgain(t, k) ==
  /\ Free(t)
  /\ k \in Cached
  /\ Put(t, k, items[k])
  /\ UNCHANGED <<creating, open, thread, made, left>>

\* DeleteFunc, and Delete and the sweep of gc, which are cases of it.
Delete(t, K) ==
  /\ Free(t)
  /\ K # {} /\ K \subseteq Cached
  /\ Remove(t, K)
  /\ UNCHANGED <<creating, open, thread, made, left>>

Sweep(t) == Delete(t, expired)

\* notifyDelete.
Notify(t, k, v) ==
  /\ <<t, k, v>> \in due
  /\ due' = due \ {<<t, k, v>>}
  /\ left' = left \cup {v}
  /\ UNCHANGED <<items, age, expired, creating, open, thread, made, stored>>

Finish(t) ==
  CreateReturns(t) \/ CreateFails(t) \/ Release(t) \/ CloseDone(t) \/ Wake(t)

NotifyOne(t) == \E d \in due : d[1] = t /\ Notify(t, d[2], d[3])

Next ==
  \/ \E k \in Key : Expire(k)
  \/ \E t \in Thread :
       \/ \E k \in Key : Get(t, k)
       \/ \E k \in Key : GetOrCreateHit(t, k)
       \/ \E k \in Key : GetOrCreateWait(t, k)
       \/ \E k \in Key : GetOrCreateMiss(t, k)
       \/ \E k \in Key : Set(t, k)
       \/ \E k \in Key : SetAgain(t, k)
       \/ \E K \in SUBSET Cached : Delete(t, K)
       \/ Sweep(t)
       \/ Finish(t)
       \/ NotifyOne(t)

Safety == Init /\ [][Next]_cacheVars

\* create and OnDelete return, and a goroutine that can go on does.
Fairness == \A t \in Thread : WF_cacheVars(Finish(t)) /\ WF_cacheVars(NotifyOne(t))

Spec == Safety /\ Fairness

-----------------------------------------------------------------------------
(* Properties.                                                             *)

\* "calling create at most once across concurrent callers that miss"
\* (cache.go:98): no two threads are in create for one key.
SingleFlight ==
  \A t, u \in Thread :
    thread[t].at = "create" /\ thread[u].at = "create" /\ thread[t].key = thread[u].key => t = u

\* "OnDelete is called once for every value that leaves the cache" (cache.go:36):
\* every value that has been stored is in the cache, or owed to OnDelete by one
\* thread, or was handed to it, and never two of these.
OnDeleteOnce ==
  /\ stored = Held \cup Owed \cup left
  /\ Held \cap Owed = {} /\ Held \cap left = {} /\ Owed \cap left = {}
  /\ \A d, e \in due : d[3] = e[3] => d = e

\* "deletes LRU entry on overflow" (cache.go:33): the limit holds after every
\* operation, however creations and deletions interleave.
WithinLimit == MaxEntries > 0 => Cardinality(Cached) <= MaxEntries

\* A caller that waits for somebody else's create gets an answer, also when
\* that create fails or panics (cache.go:139).
WaitersWake == \A t \in Thread : thread[t].at = "wait" ~> thread[t].at # "wait"
=============================================================================
