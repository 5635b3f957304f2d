----------------------------- MODULE CacheProofs -----------------------------
(***************************************************************************)
(* Proofs about Cache, ConnCache and TunnelCache, for every set of         *)
(* goroutines and keys and every limit.  Of the cache: create runs once at *)
(* a time for a key, OnDelete is called exactly once for every value that  *)
(* leaves, the limit is kept, and the ages rank the cached keys, the least *)
(* recently used last.  Of the pools in it, and of the tunnels in front of *)
(* them: each is in one place, and every step is one PoolLife allows.      *)
(***************************************************************************)
EXTENDS TunnelCache, FiniteSetTheorems, TLAPS

InFlight(t) == thread[t].at \in {"create", "publish"}

\* The creator of a key is the one its call is registered for.
FlightInv ==
  /\ \A t \in Thread : InFlight(t) =>
       /\ thread[t].call \in 1..made
       /\ creating[thread[t].key] = thread[t].call
  /\ \A t, u \in Thread : InFlight(t) /\ InFlight(u) =>
       /\ thread[t].key = thread[u].key => t = u
       /\ thread[t].call = thread[u].call => t = u

\* Where the values are: OnDeleteOnce of the given state, and no value under
\* two keys.
Account(its, debts, st, lf) ==
  LET held == {its[k] : k \in {j \in Key : its[j] # None}}
      owed == {d[3] : d \in debts}
  IN  /\ st = held \cup owed \cup lf
      /\ held \cap owed = {} /\ held \cap lf = {} /\ owed \cap lf = {}
      /\ \A d, e \in debts : d[3] = e[3] => d = e
      /\ \A j, k \in Key : its[j] # None /\ its[j] = its[k] => j = k

PlainInv ==
  /\ items \in [Key -> Nat]
  /\ creating \in [Key -> Nat]
  /\ thread \in [Thread -> [at : At, key : Key, call : Nat]]
  /\ due \in SUBSET (Thread \X Key \X Nat)
  /\ made \in Nat
  /\ stored \in SUBSET (1..made)

IInv ==
  /\ PlainInv
  /\ FlightInv
  /\ Account(items, due, stored, left)
  /\ \A t \in Thread : thread[t].at = "create" => thread[t].call \notin stored

-----------------------------------------------------------------------------
(* The bookkeeping of values.                                              *)

\* The debts of t for the keys of K, as Debts of any items.
DebtsOf(its, t, K) == {<<t, k, its[k]>> : k \in K}

\* Keys taken out: their values are owed to OnDelete by t.
LEMMA AccountTake ==
  ASSUME NEW its, NEW debts, NEW st, NEW lf, Account(its, debts, st, lf),
         NEW t \in Thread, NEW K \in SUBSET Key, \A k \in K : its[k] # None,
         NEW its2, \A k \in Key : its2[k] = IF k \in K THEN None ELSE its[k],
         NEW debts2, debts2 = debts \cup DebtsOf(its, t, K)
  PROVE  Account(its2, debts2, st, lf)
<1> DEFINE taken  == {<<t, k, its[k]>> : k \in K}
           held   == {its[k] : k \in {j \in Key : its[j] # None}}
           held2  == {its2[k] : k \in {j \in Key : its2[j] # None}}
           owed   == {d[3] : d \in debts}
           owed2  == {d[3] : d \in debts2}
           values == {its[k] : k \in K}
<1>1. /\ st = held \cup owed \cup lf
      /\ held \cap owed = {} /\ held \cap lf = {} /\ owed \cap lf = {}
      /\ \A d, e \in debts : d[3] = e[3] => d = e
      /\ \A j, k \in Key : its[j] # None /\ its[j] = its[k] => j = k
  BY DEF Account
<1>2. \A k \in Key : its2[k] = IF k \in K THEN None ELSE its[k]
  OBVIOUS
<1>3. owed2 = owed \cup values
  <2>0. debts2 = debts \cup taken
    BY DEF DebtsOf
  <2>1. taken \subseteq debts2 /\ \A k \in K : <<t, k, its[k]>> \in taken
    BY <2>0
  <2>2. \A k \in K : its[k] \in owed2
    <3> TAKE k \in K
    <3>1. <<t, k, its[k]>> \in debts2 /\ <<t, k, its[k]>>[3] = its[k]
      BY <2>1
    <3> HIDE DEF taken
    <3> QED BY <3>1
  <2>3. \A d \in taken : d[3] \in values
    OBVIOUS
  <2> HIDE DEF taken
  <2>4. owed2 \subseteq owed \cup values
    BY <2>0, <2>3
  <2>5. owed \cup values \subseteq owed2
    BY <2>0, <2>2
  <2> QED BY <2>4, <2>5
<1>4. held = held2 \cup values
  BY <1>2
<1>5. held2 \cap values = {}
  <2>1. ASSUME NEW j \in Key, its2[j] # None, NEW k \in K, its2[j] = its[k] PROVE FALSE
    <3>1. j \notin K /\ its2[j] = its[j] /\ k \in Key
      BY <2>1, <1>2
    <3> QED BY <1>1, <2>1, <3>1
  <2> QED BY <2>1
<1>6. values \subseteq held
  OBVIOUS
<1>7. st = held2 \cup owed2 \cup lf
  BY <1>1, <1>3, <1>4
<1>8. held2 \cap owed2 = {} /\ held2 \cap lf = {} /\ owed2 \cap lf = {}
  BY <1>1, <1>3, <1>4, <1>5, <1>6
<1>9. \A d, e \in debts2 : d[3] = e[3] => d = e
  <2>1. ASSUME NEW d \in debts, NEW e \in taken PROVE d[3] # e[3]
    BY <1>1, <1>6
  <2>2. ASSUME NEW d \in taken, NEW e \in taken, d[3] = e[3] PROVE d = e
    <3>1. PICK j \in K : d = <<t, j, its[j]>>
      OBVIOUS
    <3>2. PICK k \in K : e = <<t, k, its[k]>>
      OBVIOUS
    <3> QED BY <1>1, <2>2, <3>1, <3>2
  <2> QED BY <1>1, <2>1, <2>2 DEF DebtsOf
<1>10. \A j, k \in Key : its2[j] # None /\ its2[j] = its2[k] => j = k
  BY <1>1, <1>2
<1> HIDE DEF taken
<1> QED BY <1>7, <1>8, <1>9, <1>10 DEF Account

\* A new value under a free key.
LEMMA AccountAdd ==
  ASSUME NEW its \in [Key -> Nat], NEW debts, NEW st, NEW lf,
         Account(its, debts, st, lf),
         NEW k \in Key, its[k] = None, NEW v \in Nat, v # None, v \notin st
  PROVE  Account([its EXCEPT ![k] = v], debts, st \cup {v}, lf)
<1> DEFINE its2  == [its EXCEPT ![k] = v]
           held  == {its[j] : j \in {i \in Key : its[i] # None}}
           held2 == {its2[j] : j \in {i \in Key : its2[i] # None}}
           owed  == {d[3] : d \in debts}
<1>1. /\ st = held \cup owed \cup lf
      /\ held \cap owed = {} /\ held \cap lf = {} /\ owed \cap lf = {}
      /\ \A d, e \in debts : d[3] = e[3] => d = e
      /\ \A i, j \in Key : its[i] # None /\ its[i] = its[j] => i = j
  BY DEF Account
<1>2. \A j \in Key : its2[j] = IF j = k THEN v ELSE its[j]
  OBVIOUS
<1>3. held2 = held \cup {v}
  BY <1>2
<1>4. v \notin held /\ v \notin owed /\ v \notin lf
  BY <1>1
<1>5. \A i, j \in Key : its2[i] # None /\ its2[i] = its2[j] => i = j
  BY <1>1, <1>2, <1>4 DEF DebtsOf
<1>6. st \cup {v} = held2 \cup owed \cup lf
  BY <1>1, <1>3
<1>7. held2 \cap owed = {} /\ held2 \cap lf = {}
  BY <1>1, <1>3, <1>4
<1> HIDE DEF its2
<1>8. Account(its2, debts, st \cup {v}, lf)
  BY <1>1, <1>5, <1>6, <1>7 DEF Account
<1> QED BY <1>8 DEF its2

\* OnDelete called for one debt.
LEMMA AccountPaid ==
  ASSUME NEW its \in [Key -> Nat], NEW debts, NEW st, NEW lf,
         Account(its, debts, st, lf), NEW d \in debts
  PROVE  Account(its, debts \ {d}, st, lf \cup {d[3]})
<1> DEFINE owed  == {e[3] : e \in debts}
           owed2 == {e[3] : e \in debts \ {d}}
<1>1. owed = owed2 \cup {d[3]}
  OBVIOUS
<1>2. d[3] \notin owed2
  BY DEF Account
<1> QED BY <1>1, <1>2 DEF Account

\* deleteLocked, of any cached keys.
LEMMA RemoveAccount ==
  ASSUME IInv, NEW t \in Thread, NEW K \in SUBSET Cached, Remove(t, K)
  PROVE  /\ items' \in [Key -> Nat] /\ due' \in SUBSET (Thread \X Key \X Nat)
         /\ stored' = stored
         /\ Account(items', due', stored, left)
<1>1. /\ items \in [Key -> Nat] /\ due \in SUBSET (Thread \X Key \X Nat)
      /\ Account(items, due, stored, left)
  BY DEF IInv, PlainInv
<1>2. K \in SUBSET Key /\ \A k \in K : items[k] # None
  BY DEF Cached
<1>3. /\ items' \in [Key -> Nat]
      /\ \A k \in Key : items'[k] = IF k \in K THEN None ELSE items[k]
      /\ stored' = stored
  BY <1>1 DEF Remove, None
<1>4. due' = due \cup DebtsOf(items, t, K)
  BY DEF Remove, Debts, DebtsOf
<1>5. due' \in SUBSET (Thread \X Key \X Nat)
  BY <1>1, <1>2, <1>4 DEF DebtsOf
<1>6. Account(items', due', stored, left)
  BY <1>1, <1>2, <1>3, <1>4, AccountTake
<1> QED BY <1>3, <1>5, <1>6

\* Set of a value that has not been in the cache.
LEMMA PutAccount ==
  ASSUME IInv, NEW t \in Thread, NEW k \in Key, NEW v \in Nat, v # None, v \notin stored,
         Put(t, k, v)
  PROVE  /\ items' \in [Key -> Nat] /\ due' \in SUBSET (Thread \X Key \X Nat)
         /\ stored' = stored \cup {v}
         /\ Account(items', due', stored', left)
<1>1. /\ items \in [Key -> Nat] /\ due \in SUBSET (Thread \X Key \X Nat)
      /\ Account(items, due, stored, left)
  BY DEF IInv, PlainInv
<1>2. stored' = stored \cup {v}
  BY DEF Put
<1>3. ASSUME NEW j \in Cached, j = k \/ items[k] = None,
             items' = [[i \in Key |-> IF i \in {j} THEN None ELSE items[i]] EXCEPT ![k] = v],
             due' = due \cup Debts(t, {j})
      PROVE  /\ items' \in [Key -> Nat] /\ due' \in SUBSET (Thread \X Key \X Nat)
             /\ Account(items', due', stored', left)
  <2> DEFINE its == [i \in Key |-> IF i \in {j} THEN None ELSE items[i]]
             debts == due \cup {<<t, i, items[i]>> : i \in {j}}
  <2>1. j \in Key /\ items[j] # None
    BY DEF Cached
  <2>2. Account(its, debts, stored, left)
    <3>1. /\ {j} \in SUBSET Key /\ \A i \in {j} : items[i] # None
          /\ \A i \in Key : its[i] = IF i \in {j} THEN None ELSE items[i]
      BY <2>1
    <3>2. debts = due \cup DebtsOf(items, t, {j})
      BY DEF DebtsOf
    <3> HIDE DEF its, debts
    <3> QED BY <1>1, <3>1, <3>2, AccountTake
  <2>3. its \in [Key -> Nat] /\ its[k] = None
    BY <1>1, <1>3 DEF None
  <2>4. Account([its EXCEPT ![k] = v], debts, stored \cup {v}, left)
    BY <2>2, <2>3, AccountAdd
  <2>5. due' = debts
    BY <1>3 DEF Debts
  <2>6. debts \in SUBSET (Thread \X Key \X Nat)
    BY <1>1, <2>1
  <2> QED BY <1>2, <1>3, <2>3, <2>4, <2>5, <2>6
<1>4. CASE Replace(t, k, v)
  <2>1. k \in Cached /\ items[k] # v
    <3>1. k \in Cached
      BY <1>4 DEF Replace
    <3>2. items[k] \in stored
      BY <1>1, <3>1 DEF Account, Cached
    <3> QED BY <3>1, <3>2
  <2>2. items' = [[i \in Key |-> IF i \in {k} THEN None ELSE items[i]] EXCEPT ![k] = v]
    BY <1>1, <1>4 DEF Replace
  <2>3. due' = due \cup Debts(t, {k})
    BY <1>4, <2>1 DEF Replace
  <2> QED BY <1>2, <1>3, <2>1, <2>2, <2>3
<1>5. CASE Insert(t, k, v)
  <2>1. items[k] = None /\ items' = [items EXCEPT ![k] = v] /\ due' = due
    BY <1>5 DEF Insert, Cached
  <2> QED BY <1>1, <1>2, <2>1, AccountAdd
<1>6. CASE InsertEvicting(t, k, v)
  <2>1. PICK victim \in Cached :
          /\ items' = [items EXCEPT ![k] = v, ![victim] = None]
          /\ due' = due \cup Debts(t, {victim})
    BY <1>6 DEF InsertEvicting
  <2>2. items[k] = None /\ victim # k
    BY <1>6 DEF InsertEvicting, Cached
  <2>3. items' = [[i \in Key |-> IF i \in {victim} THEN None ELSE items[i]] EXCEPT ![k] = v]
    BY <1>1, <2>1, <2>2
  <2> QED BY <1>2, <1>3, <2>1, <2>2, <2>3
<1> QED BY <1>2, <1>4, <1>5, <1>6 DEF Put

\* Set of the value that is there.
LEMMA PutAgain ==
  ASSUME IInv, NEW t \in Thread, NEW k \in Cached, Put(t, k, items[k])
  PROVE  items' = items /\ due' = due /\ stored' = stored
<1>1. items \in [Key -> Nat] /\ Account(items, due, stored, left)
  BY DEF IInv, PlainInv
<1>2. items[k] \in stored
  BY <1>1 DEF Account, Cached
<1>3. Replace(t, k, items[k])
  BY DEF Put, Insert, InsertEvicting
<1> QED BY <1>1, <1>2, <1>3 DEF Put, Replace, Cached

-----------------------------------------------------------------------------
(* The invariant.                                                          *)

LEMMA InitIInv == Init => IInv
<1> SUFFICES ASSUME Init PROVE IInv
  OBVIOUS
<1>1. thread = [t \in Thread |-> Idle] /\ Idle \in [at : At, key : Key, call : Nat]
      /\ Idle.at = "idle"
  BY KeyAssumption DEF Init, Idle, At, None
<1>2. PlainInv
  BY <1>1 DEF Init, PlainInv, None
<1>3. FlightInv
  BY <1>1 DEF FlightInv, InFlight
<1>4. Account(items, due, stored, left)
  BY DEF Account, Init, None
<1>5. \A t \in Thread : thread[t].at # "create"
  BY <1>1
<1> QED BY <1>2, <1>3, <1>4, <1>5 DEF IInv

\* Steps that only move values.
LEMMA Moved ==
  ASSUME IInv, UNCHANGED <<creating, thread, made>>,
         items' \in [Key -> Nat], due' \in SUBSET (Thread \X Key \X Nat), stored' = stored,
         Account(items', due', stored', left')
  PROVE  IInv'
BY DEF IInv, PlainInv, FlightInv, InFlight

\* Steps that only move threads on, none of them into create.
LEMMA Advanced ==
  ASSUME IInv, UNCHANGED <<items, creating, due, made, stored, left>>,
         NEW t \in Thread, NEW r \in [at : At, key : Key, call : Nat],
         thread' = [thread EXCEPT ![t] = r],
         r.at # "create",
         r.at = "publish" => InFlight(t) /\ r.key = thread[t].key /\ r.call = thread[t].call
  PROVE  IInv'
<1>1. PlainInv' /\ Account(items', due', stored', left')
  BY DEF IInv, PlainInv
<1>2. \A u \in Thread : thread'[u] = IF u = t THEN r ELSE thread[u]
  BY DEF IInv, PlainInv
<1>3. \A u \in Thread : InFlight(u)' =>
        InFlight(u) /\ thread'[u].key = thread[u].key /\ thread'[u].call = thread[u].call
  BY <1>2 DEF InFlight
<1>4. FlightInv'
  BY <1>3 DEF IInv, FlightInv
<1>5. \A u \in Thread : thread'[u].at = "create" => thread'[u].call \notin stored'
  BY <1>2 DEF IInv
<1> QED BY <1>1, <1>4, <1>5 DEF IInv

\* TakeExpired, in either of its cases.
LEMMA TakeExpiredAccount ==
  ASSUME IInv, NEW t \in Thread, NEW k \in Key, TakeExpired(t, k)
  PROVE  /\ items' \in [Key -> Nat] /\ due' \in SUBSET (Thread \X Key \X Nat)
         /\ stored' = stored
         /\ Account(items', due', stored', left)
<1>1. CASE k \in Cached
  <2>1. Remove(t, {k}) /\ {k} \in SUBSET Cached
    BY <1>1 DEF TakeExpired
  <2> QED BY <2>1, RemoveAccount
<1>2. CASE k \notin Cached
  BY <1>2 DEF TakeExpired, IInv, PlainInv
<1> QED BY <1>1, <1>2

LEMMA RemoveKeeps ==
  ASSUME IInv, NEW t \in Thread, NEW K \in SUBSET Cached, Remove(t, K),
         UNCHANGED <<creating, thread, made, left>>
  PROVE  IInv'
BY RemoveAccount, Moved

LEMMA TouchKeeps ==
  ASSUME IInv, NEW k \in Key, Touch(k), UNCHANGED <<creating, thread, made, left>>
  PROVE  IInv'
BY Moved DEF Touch, IInv, PlainInv

LEMMA WaitKeeps ==
  ASSUME IInv, NEW t \in Thread, NEW k \in Key, GetOrCreateWait(t, k)
  PROVE  IInv'
<1> DEFINE r == [at |-> "wait", key |-> k, call |-> creating[k]]
<1>1. /\ items' \in [Key -> Nat] /\ due' \in SUBSET (Thread \X Key \X Nat)
      /\ stored' = stored
      /\ Account(items', due', stored', left')
  BY TakeExpiredAccount DEF GetOrCreateWait
<1>2. /\ thread' = [thread EXCEPT ![t] = r] /\ creating' = creating /\ made' = made
      /\ r \in [at : At, key : Key, call : Nat]
  BY DEF GetOrCreateWait, IInv, PlainInv, At
<1>3. \A u \in Thread : thread'[u] = IF u = t THEN r ELSE thread[u]
  BY <1>2 DEF IInv, PlainInv
<1>4. PlainInv'
  BY <1>1, <1>2 DEF IInv, PlainInv
<1>5. \A u \in Thread : InFlight(u)' => u # t /\ InFlight(u) /\ thread'[u] = thread[u]
  BY <1>3 DEF InFlight
<1>6. FlightInv'
  BY <1>2, <1>5 DEF IInv, FlightInv
<1>7. \A u \in Thread : thread'[u].at = "create" => thread'[u].call \notin stored'
  BY <1>1, <1>3 DEF IInv
<1> QED BY <1>1, <1>4, <1>6, <1>7 DEF IInv

LEMMA MissKeeps ==
  ASSUME IInv, NEW t \in Thread, NEW k \in Key, GetOrCreateMiss(t, k)
  PROVE  IInv'
<1> DEFINE r == [at |-> "create", key |-> k, call |-> made + 1]
<1>1. /\ items' \in [Key -> Nat] /\ due' \in SUBSET (Thread \X Key \X Nat)
      /\ stored' = stored
      /\ Account(items', due', stored', left')
  BY TakeExpiredAccount DEF GetOrCreateMiss
<1>2. /\ thread' = [thread EXCEPT ![t] = r] /\ creating' = [creating EXCEPT ![k] = made + 1]
      /\ made' = made + 1 /\ made \in Nat /\ creating[k] = None
      /\ r \in [at : At, key : Key, call : Nat]
  BY DEF GetOrCreateMiss, Busy, IInv, PlainInv, At
<1>3. \A u \in Thread : thread'[u] = IF u = t THEN r ELSE thread[u]
  BY <1>2 DEF IInv, PlainInv
<1>4. PlainInv'
  BY <1>1, <1>2 DEF IInv, PlainInv
<1>5. \A u \in Thread : u # t /\ InFlight(u)' =>
        /\ InFlight(u) /\ thread'[u] = thread[u]
        /\ thread[u].call \in 1..made
        /\ creating[thread[u].key] = thread[u].call
        /\ thread[u].key # k /\ thread[u].key \in Key
  <2> SUFFICES ASSUME NEW u \in Thread, u # t, InFlight(u)'
               PROVE  /\ InFlight(u) /\ thread'[u] = thread[u]
                      /\ thread[u].call \in 1..made
                      /\ creating[thread[u].key] = thread[u].call
                      /\ thread[u].key # k /\ thread[u].key \in Key
    OBVIOUS
  <2>1. InFlight(u) /\ thread'[u] = thread[u]
    BY <1>3 DEF InFlight
  <2>2. thread[u].call \in 1..made /\ creating[thread[u].key] = thread[u].call
    BY <2>1 DEF IInv, FlightInv
  <2>3. thread[u].key # k
    BY <1>2, <2>2 DEF None
  <2>4. thread[u].key \in Key
    BY DEF IInv, PlainInv
  <2> QED BY <2>1, <2>2, <2>3, <2>4
<1>6. thread'[t] = r /\ creating'[k] = made + 1
      /\ \A j \in Key \ {k} : creating'[j] = creating[j]
  BY <1>2, <1>3 DEF IInv, PlainInv
<1>7. \A u \in Thread : InFlight(u)' =>
        thread'[u].call \in 1..made' /\ creating'[thread'[u].key] = thread'[u].call
  BY <1>2, <1>5, <1>6
<1>8. \A u, w \in Thread : InFlight(u)' /\ InFlight(w)' =>
        /\ thread'[u].key = thread'[w].key => u = w
        /\ thread'[u].call = thread'[w].call => u = w
  <2> SUFFICES ASSUME NEW u \in Thread, NEW w \in Thread, InFlight(u)', InFlight(w)', u # w
               PROVE  thread'[u].key # thread'[w].key /\ thread'[u].call # thread'[w].call
    OBVIOUS
  <2>1. CASE u = t
    BY <1>2, <1>5, <1>6, <2>1
  <2>2. CASE w = t
    BY <1>2, <1>5, <1>6, <2>2
  <2>3. CASE u # t /\ w # t
    BY <1>5, <2>3 DEF IInv, FlightInv
  <2> QED BY <2>1, <2>2, <2>3
<1>9. FlightInv'
  BY <1>7, <1>8 DEF FlightInv
<1>10. \A u \in Thread : thread'[u].at = "create" => thread'[u].call \notin stored'
  BY <1>1, <1>2, <1>3 DEF IInv, PlainInv
<1> QED BY <1>1, <1>4, <1>9, <1>10 DEF IInv

LEMMA CreateReturnsKeeps ==
  ASSUME IInv, NEW t \in Thread, CreateReturns(t)
  PROVE  IInv'
<1> DEFINE v == thread[t].call
           k == thread[t].key
           r == [thread[t] EXCEPT !.at = "publish"]
<1>1. /\ k \in Key /\ v \in Nat /\ v # None /\ v \notin stored /\ v \in 1..made
      /\ thread[t].at = "create" /\ Put(t, k, v)
      /\ creating' = creating /\ made' = made /\ left' = left
  <2>1. thread[t].at = "create" /\ thread[t] \in [at : At, key : Key, call : Nat]
    BY DEF CreateReturns, IInv, PlainInv
  <2>2. v \in 1..made
    BY <2>1 DEF IInv, FlightInv, InFlight
  <2> QED BY <2>1, <2>2 DEF CreateReturns, IInv, PlainInv, None
<1>2. /\ items' \in [Key -> Nat] /\ due' \in SUBSET (Thread \X Key \X Nat)
      /\ stored' = stored \cup {v}
      /\ Account(items', due', stored', left')
  <2> HIDE DEF k, v
  <2> QED BY <1>1, PutAccount
<1>3. thread' = [thread EXCEPT ![t] = r] /\ r \in [at : At, key : Key, call : Nat]
      /\ r.at = "publish" /\ r.key = k /\ r.call = v
  BY DEF CreateReturns, IInv, PlainInv, At
<1> HIDE DEF r
<1>4. \A u \in Thread : thread'[u] = IF u = t THEN r ELSE thread[u]
  BY <1>3 DEF IInv, PlainInv
<1>5. PlainInv'
  BY <1>1, <1>2, <1>3 DEF IInv, PlainInv
<1>6. \A u \in Thread : InFlight(u)' =>
        InFlight(u) /\ thread'[u].key = thread[u].key /\ thread'[u].call = thread[u].call
  BY <1>1, <1>3, <1>4 DEF InFlight
<1>7. FlightInv'
  BY <1>1, <1>6 DEF IInv, FlightInv
<1>8. \A u \in Thread : thread'[u].at = "create" => thread'[u].call \notin stored'
  <2> SUFFICES ASSUME NEW u \in Thread, thread'[u].at = "create"
               PROVE  thread'[u].call \notin stored'
    OBVIOUS
  <2>1. u # t /\ thread'[u] = thread[u]
    BY <1>3, <1>4
  <2>2. thread[u].call \notin stored /\ thread[u].call # v
    BY <1>1, <2>1 DEF IInv, FlightInv, InFlight
  <2> QED BY <1>2, <2>1, <2>2
<1> QED BY <1>2, <1>5, <1>7, <1>8 DEF IInv

LEMMA ReleaseKeeps ==
  ASSUME IInv, NEW t \in Thread, Release(t)
  PROVE  IInv'
<1> DEFINE r == [thread[t] EXCEPT !.at = "close"]
<1>1. /\ thread' = [thread EXCEPT ![t] = r] /\ r \in [at : At, key : Key, call : Nat]
      /\ r.at = "close" /\ InFlight(t)
      /\ creating' = [creating EXCEPT ![thread[t].key] = None]
      /\ UNCHANGED <<items, due, made, stored, left>>
  BY DEF Release, IInv, PlainInv, At, InFlight
<1> HIDE DEF r
<1>2. \A u \in Thread : thread'[u] = IF u = t THEN r ELSE thread[u]
  BY <1>1 DEF IInv, PlainInv
<1>3. PlainInv' /\ Account(items', due', stored', left')
  BY <1>1 DEF IInv, PlainInv, None
<1>4. \A u \in Thread : InFlight(u)' =>
        InFlight(u) /\ thread'[u] = thread[u] /\ thread[u].key # thread[t].key /\ thread[u].key \in Key
  BY <1>1, <1>2 DEF InFlight, IInv, FlightInv, PlainInv
<1>5. \A j \in Key : j # thread[t].key => creating'[j] = creating[j]
  BY <1>1 DEF IInv, PlainInv
<1>6. FlightInv'
  BY <1>1, <1>4, <1>5 DEF IInv, FlightInv
<1>7. \A u \in Thread : thread'[u].at = "create" => thread'[u].call \notin stored'
  BY <1>1, <1>2 DEF IInv
<1> QED BY <1>3, <1>6, <1>7 DEF IInv

LEMMA SetKeeps ==
  ASSUME IInv, NEW t \in Thread, NEW k \in Key, Set(t, k)
  PROVE  IInv'
<1> DEFINE v == made + 1
<1>1. v \in Nat /\ v # None /\ v \notin stored /\ Put(t, k, v) /\ made \in Nat
      /\ UNCHANGED <<creating, thread, left>> /\ made' = v
  BY DEF Set, IInv, PlainInv, None
<1>2. /\ items' \in [Key -> Nat] /\ due' \in SUBSET (Thread \X Key \X Nat)
      /\ stored' = stored \cup {v}
      /\ Account(items', due', stored', left')
  <2> HIDE DEF v
  <2> QED BY <1>1, PutAccount
<1>3. PlainInv'
  BY <1>1, <1>2 DEF IInv, PlainInv
<1>4. FlightInv'
  BY <1>1 DEF IInv, PlainInv, FlightInv, InFlight
<1>5. \A u \in Thread : thread'[u].at = "create" => thread'[u].call \notin stored'
  <2> SUFFICES ASSUME NEW u \in Thread, thread[u].at = "create"
               PROVE  thread[u].call \notin stored'
    BY <1>1
  <2>1. thread[u].call \notin stored /\ thread[u].call \in 1..made
    BY DEF IInv, FlightInv, InFlight
  <2> QED BY <1>1, <1>2, <2>1
<1> QED BY <1>2, <1>3, <1>4, <1>5 DEF IInv

LEMMA NotifyKeeps ==
  ASSUME IInv, NEW t, NEW k, NEW v, Notify(t, k, v)
  PROVE  IInv'
<1> DEFINE d == <<t, k, v>>
<1>1. d \in due /\ due' = due \ {d} /\ left' = left \cup {d[3]}
      /\ UNCHANGED <<items, creating, thread, made, stored>>
  BY DEF Notify
<1>2. Account(items, due \ {d}, stored, left \cup {d[3]})
  <2> HIDE DEF d
  <2> QED BY <1>1, AccountPaid DEF IInv, PlainInv
<1> HIDE DEF d
<1>3. /\ items' \in [Key -> Nat] /\ due' \in SUBSET (Thread \X Key \X Nat)
      /\ Account(items', due', stored', left')
  BY <1>1, <1>2 DEF IInv, PlainInv
<1> QED BY <1>1, <1>3, Moved

LEMMA FinishKeeps ==
  ASSUME IInv, NEW t \in Thread, Finish(t)
  PROVE  IInv'
<1>1. thread[t] \in [at : At, key : Key, call : Nat] /\ Idle \in [at : At, key : Key, call : Nat]
      /\ Idle.at = "idle"
  BY KeyAssumption DEF IInv, PlainInv, Idle, At, None
<1>2. CASE CreateReturns(t)
  BY <1>2, CreateReturnsKeeps
<1>3. CASE CreateFails(t)
  <2> DEFINE r == [thread[t] EXCEPT !.at = "publish"]
  <2>1. /\ r \in [at : At, key : Key, call : Nat] /\ r.at = "publish"
        /\ r.key = thread[t].key /\ r.call = thread[t].call
        /\ InFlight(t) /\ thread' = [thread EXCEPT ![t] = r]
        /\ UNCHANGED <<items, creating, due, made, stored, left>>
    BY <1>1, <1>3 DEF CreateFails, At, InFlight
  <2> HIDE DEF r
  <2> QED BY <2>1, Advanced
<1>4. CASE Release(t)
  BY <1>4, ReleaseKeeps
<1>5. CASE CloseDone(t)
  BY <1>1, <1>5, Advanced DEF CloseDone
<1>6. CASE Wake(t)
  BY <1>1, <1>6, Advanced DEF Wake
<1> QED BY <1>2, <1>3, <1>4, <1>5, <1>6 DEF Finish

LEMMA NextKeeps == IInv /\ [Next]_cacheVars => IInv'
<1> SUFFICES ASSUME IInv, [Next]_cacheVars PROVE IInv'
  OBVIOUS
<1>1. ASSUME NEW k \in Key, Expire(k) PROVE IInv'
  BY <1>1, Moved DEF Expire, IInv, PlainInv
<1>2. ASSUME NEW t \in Thread, NEW k \in Key, Get(t, k) PROVE IInv'
  <2>1. CASE Hit(k)
    BY <1>2, <2>1, TouchKeeps DEF Get
  <2>2. CASE ~Hit(k)
    <3>1. {k} \in SUBSET Cached /\ Remove(t, {k}) /\ UNCHANGED <<creating, thread, made, left>>
      BY <1>2, <2>2 DEF Get
    <3> QED BY <3>1, RemoveKeeps
  <2> QED BY <2>1, <2>2
<1>3. ASSUME NEW t \in Thread, NEW k \in Key, GetOrCreateHit(t, k) PROVE IInv'
  BY <1>3, TouchKeeps DEF GetOrCreateHit
<1>4. ASSUME NEW t \in Thread, NEW k \in Key, GetOrCreateWait(t, k) PROVE IInv'
  BY <1>4, WaitKeeps
<1>5. ASSUME NEW t \in Thread, NEW k \in Key, GetOrCreateMiss(t, k) PROVE IInv'
  BY <1>5, MissKeeps
<1>6. ASSUME NEW t \in Thread, NEW k \in Key, Set(t, k) PROVE IInv'
  BY <1>6, SetKeeps
<1>7. ASSUME NEW t \in Thread, NEW k \in Key, SetAgain(t, k) PROVE IInv'
  BY <1>7, PutAgain, Moved DEF SetAgain, IInv, PlainInv
<1>8. ASSUME NEW t \in Thread, NEW K \in SUBSET Cached, Delete(t, K) PROVE IInv'
  BY <1>8, RemoveKeeps DEF Delete
<1>9. ASSUME NEW t \in Thread, Sweep(t) PROVE IInv'
  <2>1. expired \in SUBSET Cached
    BY <1>9 DEF Sweep, Delete
  <2> QED BY <1>9, <2>1, RemoveKeeps DEF Sweep, Delete
<1>10. ASSUME NEW t \in Thread, Finish(t) PROVE IInv'
  BY <1>10, FinishKeeps
<1>11. ASSUME NEW t \in Thread, NotifyOne(t) PROVE IInv'
  BY <1>11, NotifyKeeps DEF NotifyOne
<1>12. CASE UNCHANGED cacheVars
  BY <1>12, Moved DEF cacheVars, IInv, PlainInv
<1> QED
  BY <1>1, <1>2, <1>3, <1>4, <1>5, <1>6, <1>7, <1>8, <1>9, <1>10, <1>11, <1>12 DEF Next

-----------------------------------------------------------------------------
(* The limit.                                                              *)

LEMMA CachedFinite == IsFiniteSet(Cached)
<1>1. Cached \subseteq Key
  BY DEF Cached
<1> QED BY <1>1, KeyAssumption, FS_Subset

\* What takes entries out keeps the limit.
LEMMA FewerWithin ==
  ASSUME WithinLimit, Cached' \subseteq Cached
  PROVE  WithinLimit'
<1>1. Cardinality(Cached') <= Cardinality(Cached)
  BY CachedFinite, FS_Subset
<1>2. IsFiniteSet(Cached')
  BY CachedFinite, FS_Subset
<1>3. Cardinality(Cached) \in Nat /\ Cardinality(Cached') \in Nat
  BY <1>2, CachedFinite, FS_CardinalityType
<1> QED BY <1>1, <1>3, LimitAssumption DEF WithinLimit

LEMMA RemoveWithin ==
  ASSUME WithinLimit, NEW t \in Thread, NEW K, Remove(t, K)
  PROVE  WithinLimit'
<1>1. Cached' \subseteq Cached
  BY DEF Remove, Cached
<1> QED BY <1>1, FewerWithin

\* Set makes room before it adds.
LEMMA PutWithin ==
  ASSUME IInv, WithinLimit, NEW t \in Thread, NEW k \in Key, NEW v \in Nat, Put(t, k, v)
  PROVE  WithinLimit'
<1>1. items \in [Key -> Nat]
  BY DEF IInv, PlainInv
<1>2. CASE Replace(t, k, v)
  <2>1. Cached' \subseteq Cached
    BY <1>1, <1>2 DEF Replace, Cached
  <2> QED BY <2>1, FewerWithin
<1>3. CASE Insert(t, k, v)
  <2>1. Cached' \subseteq Cached \cup {k} /\ k \notin Cached
    BY <1>1, <1>3 DEF Insert, Cached
  <2>2. IsFiniteSet(Cached \cup {k}) /\ Cardinality(Cached \cup {k}) = Cardinality(Cached) + 1
    BY <2>1, CachedFinite, FS_AddElement
  <2>3. Cardinality(Cached') <= Cardinality(Cached) + 1 /\ IsFiniteSet(Cached')
    BY <2>1, <2>2, FS_Subset
  <2>4. Cardinality(Cached) \in Nat /\ Cardinality(Cached') \in Nat
    BY <2>3, CachedFinite, FS_CardinalityType
  <2>5. MaxEntries > 0 => ~(Cardinality(Cached) >= MaxEntries)
    BY <1>3 DEF Insert, Full
  <2> QED BY <2>3, <2>4, <2>5, LimitAssumption DEF WithinLimit
<1>4. CASE InsertEvicting(t, k, v)
  <2>1. PICK victim \in Cached : items' = [items EXCEPT ![k] = v, ![victim] = None]
    BY <1>4 DEF InsertEvicting
  <2> DEFINE rest == Cached \ {victim}
  <2>2. k \notin Cached /\ MaxEntries > 0
    BY <1>4 DEF InsertEvicting, Full
  <2>3. Cached' \subseteq rest \cup {k}
    BY <1>1, <2>1, <2>2 DEF Cached
  <2>4. IsFiniteSet(rest) /\ Cardinality(rest) = Cardinality(Cached) - 1
    BY CachedFinite, FS_RemoveElement
  <2>5. k \notin rest
    BY <2>2
  <2> HIDE DEF rest
  <2>6. IsFiniteSet(rest \cup {k}) /\ Cardinality(rest \cup {k}) = Cardinality(rest) + 1
    BY <2>4, <2>5, FS_AddElement
  <2>7. Cardinality(Cached') <= Cardinality(rest) + 1 /\ IsFiniteSet(Cached')
    BY <2>3, <2>6, FS_Subset
  <2>8. Cardinality(Cached) \in Nat /\ Cardinality(Cached') \in Nat
    BY <2>7, CachedFinite, FS_CardinalityType
  <2> QED BY <2>2, <2>4, <2>7, <2>8, LimitAssumption DEF WithinLimit
<1> QED BY <1>2, <1>3, <1>4 DEF Put

LEMMA WithinKept == IInv /\ WithinLimit /\ [Next]_cacheVars => WithinLimit'
<1> SUFFICES ASSUME IInv, WithinLimit, [Next]_cacheVars PROVE WithinLimit'
  OBVIOUS
<1>1. ASSUME items' = items PROVE WithinLimit'
  <2>1. Cached' = Cached
    BY <1>1 DEF Cached
  <2> QED BY <2>1 DEF WithinLimit
<1>2. ASSUME NEW t \in Thread, NEW k \in Key, TakeExpired(t, k) PROVE WithinLimit'
  BY <1>1, <1>2, RemoveWithin DEF TakeExpired
<1>3. ASSUME NEW k \in Key, Expire(k) PROVE WithinLimit'
  BY <1>1, <1>3 DEF Expire
<1>4. ASSUME NEW t \in Thread, NEW k \in Key, Get(t, k) \/ GetOrCreateHit(t, k) PROVE WithinLimit'
  BY <1>1, <1>4, RemoveWithin DEF Get, GetOrCreateHit, Touch
<1>5. ASSUME NEW t \in Thread, NEW k \in Key, GetOrCreateWait(t, k) \/ GetOrCreateMiss(t, k)
      PROVE  WithinLimit'
  BY <1>2, <1>5 DEF GetOrCreateWait, GetOrCreateMiss
<1>6. ASSUME NEW t \in Thread, NEW k \in Key, Set(t, k) PROVE WithinLimit'
  <2>1. Put(t, k, made + 1) /\ made + 1 \in Nat
    BY <1>6 DEF Set, IInv, PlainInv
  <2> QED BY <2>1, PutWithin
<1>7. ASSUME NEW t \in Thread, NEW k \in Key, SetAgain(t, k) PROVE WithinLimit'
  BY <1>1, <1>7, PutAgain DEF SetAgain
<1>8. ASSUME NEW t \in Thread, (\E K \in SUBSET Cached : Delete(t, K)) \/ Sweep(t)
      PROVE  WithinLimit'
  BY <1>8, RemoveWithin DEF Delete, Sweep
<1>9. ASSUME NEW t \in Thread, CreateReturns(t) PROVE WithinLimit'
  <2>1. thread[t].key \in Key /\ thread[t].call \in Nat
    BY DEF IInv, PlainInv
  <2>2. Put(t, thread[t].key, thread[t].call)
    BY <1>9 DEF CreateReturns
  <2> QED BY <2>1, <2>2, PutWithin
<1>10. ASSUME NEW t \in Thread, CreateFails(t) \/ Release(t) \/ CloseDone(t) \/ Wake(t)
       PROVE  WithinLimit'
  BY <1>1, <1>10 DEF CreateFails, Release, CloseDone, Wake
<1>11. ASSUME NEW t \in Thread, NotifyOne(t) PROVE WithinLimit'
  BY <1>1, <1>11 DEF NotifyOne, Notify
<1>12. CASE UNCHANGED cacheVars
  BY <1>1, <1>12 DEF cacheVars
<1> QED
  BY <1>3, <1>4, <1>5, <1>6, <1>7, <1>8, <1>9, <1>10, <1>11, <1>12 DEF Next, Finish

-----------------------------------------------------------------------------
(* The order of use.                                                       *)

\* The ages of the cached keys: no two are the same, and all are below their number.
Ranked ==
  /\ age \in [Key -> Nat]
  /\ \A j, k \in Cached : age[j] = age[k] => j = k
  /\ \A k \in Cached : age[k] < Cardinality(Cached)

\* So every place from the front to the back of the list has its key.
LEMMA EveryPlace == Ranked => {age[k] : k \in Cached} = 0..Cardinality(Cached) - 1
<1> SUFFICES ASSUME Ranked PROVE {age[k] : k \in Cached} = 0..Cardinality(Cached) - 1
  OBVIOUS
<1> DEFINE n == Cardinality(Cached)
           f == [k \in Cached |-> age[k]]
<1>1. n \in Nat /\ IsFiniteSet(Cached)
  BY CachedFinite, FS_CardinalityType
<1> HIDE DEF n
<1>2. \A k \in Cached : k \in Key /\ age[k] \in Nat /\ age[k] < n
  BY DEF Ranked, Cached, n
<1>3. f \in [Cached -> 0..n - 1]
  BY <1>1, <1>2
<1>4. \A j, k \in Cached : f[j] = f[k] => j = k
  BY DEF Ranked
<1>5. f \in Injection(Cached, 0..n - 1)
  BY <1>3, <1>4 DEF Injection, IsInjective
<1>6. IsFiniteSet(0..n - 1) /\ Cardinality(0..n - 1) = n
  BY <1>1, FS_Interval
<1>7. f \in Surjection(Cached, 0..n - 1)
  BY <1>5, <1>6, FS_Injection DEF n
<1>8. \A i \in 0..n - 1 : \E k \in Cached : f[k] = i
  BY <1>7 DEF Surjection
<1>9. {age[k] : k \in Cached} = 0..n - 1
  BY <1>2, <1>1, <1>8
<1> QED BY <1>9 DEF n

\* The keys between two places are no more than the places.
LEMMA Between ==
  ASSUME Ranked, NEW a \in Nat, NEW b \in Nat, a <= b,
         NEW S \in SUBSET Cached, \A k \in S : a <= age[k] /\ age[k] < b
  PROVE  IsFiniteSet(S) /\ Cardinality(S) \in Nat /\ Cardinality(S) <= b - a
<1> DEFINE f == [k \in S |-> age[k]]
           T == a..b - 1
<1>1. \A k \in S : k \in Cached /\ k \in Key /\ age[k] \in Nat
  BY DEF Ranked, Cached
<1>2. f \in [S -> T]
  BY <1>1
<1>3. \A j, k \in S : f[j] = f[k] => j = k
  BY <1>1 DEF Ranked
<1>4. IsFiniteSet(T) /\ Cardinality(T) = b - a
  BY FS_Interval
<1> HIDE DEF f, T
<1>5. f \in Injection(S, T)
  BY <1>2, <1>3 DEF Injection, IsInjective
<1>6. IsFiniteSet(S) /\ Cardinality(S) <= b - a
  BY <1>4, <1>5, FS_Injection
<1> QED BY <1>6, FS_CardinalityType

\* A hit, or a value for a key that is there.
LEMMA UsedAgain ==
  ASSUME Ranked, NEW k \in Cached, age' = Used(k), Cached' = Cached
  PROVE  Ranked'
<1> DEFINE n == Cardinality(Cached)
<1>1. n \in Nat
  BY CachedFinite, FS_CardinalityType
<1>2. /\ \A j \in Cached : j \in Key /\ age[j] \in Nat /\ age[j] < n
      /\ \A i, j \in Cached : age[i] = age[j] => i = j
  BY DEF Ranked, Cached
<1> HIDE DEF n
<1>3. age' \in [Key -> Nat]
  BY DEF Used, Ranked
<1>4. \A j \in Cached : age'[j] = IF j = k THEN 0 ELSE IF age[j] < age[k] THEN age[j] + 1 ELSE age[j]
  BY DEF Used, Cached
<1>5. \A j \in Cached : age'[j] < n
  BY <1>1, <1>2, <1>4
<1>6. \A i, j \in Cached : age'[i] = age'[j] => i = j
  BY <1>2, <1>4
<1> QED BY <1>3, <1>5, <1>6 DEF Ranked, n

\* A value for a key that is not there, with room for it.
LEMMA UsedFirst ==
  ASSUME Ranked, NEW k \in Key, k \notin Cached, age' = Used(k), Cached' = Cached \cup {k}
  PROVE  Ranked'
<1> DEFINE n == Cardinality(Cached)
<1>1. n \in Nat
  BY CachedFinite, FS_CardinalityType
<1>2. Cardinality(Cached') = n + 1
  BY CachedFinite, FS_AddElement
<1>3. /\ \A j \in Cached : j \in Key /\ age[j] \in Nat /\ age[j] < n
      /\ \A i, j \in Cached : age[i] = age[j] => i = j
  BY DEF Ranked, Cached
<1> HIDE DEF n
<1>4. age' \in [Key -> Nat]
  BY DEF Used, Ranked
<1>5. age'[k] = 0 /\ \A j \in Cached : age'[j] = age[j] + 1
  BY DEF Used, Cached
<1>6. \A j \in Cached' : age'[j] < n + 1
  BY <1>1, <1>3, <1>5
<1>7. \A i, j \in Cached' : age'[i] = age'[j] => i = j
  BY <1>3, <1>5
<1> QED BY <1>2, <1>4, <1>6, <1>7 DEF Ranked

\* At the limit, where the last of the list makes room.
LEMMA UsedInPlaceOf ==
  ASSUME Ranked, NEW k \in Key, k \notin Cached,
         NEW victim \in Cached, \A j \in Cached : age[j] <= age[victim],
         age' = [Used(k) EXCEPT ![victim] = 0], Cached' = (Cached \ {victim}) \cup {k}
  PROVE  Ranked'
<1> DEFINE n == Cardinality(Cached)
           rest == Cached \ {victim}
<1>1. n \in Nat
  BY CachedFinite, FS_CardinalityType
<1>2. Cardinality(Cached') = n
  <2>1. IsFiniteSet(rest) /\ Cardinality(rest) = n - 1
    BY CachedFinite, FS_RemoveElement
  <2>2. k \notin rest
    OBVIOUS
  <2> HIDE DEF rest, n
  <2>3. Cardinality(rest \cup {k}) = n - 1 + 1
    BY <2>1, <2>2, FS_AddElement
  <2> QED BY <1>1, <2>3 DEF rest
<1>3. /\ \A j \in Cached : j \in Key /\ age[j] \in Nat /\ age[j] < n
      /\ \A i, j \in Cached : age[i] = age[j] => i = j
  BY DEF Ranked, Cached
<1> HIDE DEF n
<1>4. Used(k) \in [Key -> Nat] /\ age' \in [Key -> Nat]
  <2>1. Used(k) \in [Key -> Nat]
    BY DEF Used, Ranked
  <2> QED BY <2>1
<1>5. age'[k] = 0 /\ \A j \in rest : age'[j] = age[j] + 1
  BY <1>4 DEF Used, Cached
<1>6. \A j \in rest : age[j] < age[victim] /\ age[victim] < n
  BY <1>3
<1>7. \A j \in Cached' : age'[j] < n
  BY <1>1, <1>3, <1>5, <1>6
<1>8. \A i, j \in Cached' : age'[i] = age'[j] => i = j
  BY <1>3, <1>5
<1> QED BY <1>2, <1>4, <1>7, <1>8 DEF Ranked

\* deleteLocked, of any keys: the others keep their order and move up.
LEMMA LeftInOrder ==
  ASSUME Ranked, NEW K \in SUBSET Cached, age' = AgeWithout(K), Cached' = Cached \ K
  PROVE  Ranked'
<1> DEFINE n == Cardinality(Cached)
           Before(j) == {i \in K : age[i] < age[j]}
           After(j) == {i \in K : ~ (age[i] < age[j])}
           rest == Cached \ K
<1>1. n \in Nat /\ IsFiniteSet(Cached) /\ IsFiniteSet(K) /\ Cardinality(K) \in Nat
  BY CachedFinite, FS_CardinalityType, FS_Subset
<1>2. /\ \A j \in Cached : j \in Key /\ age[j] \in Nat /\ age[j] < n
      /\ \A i, j \in Cached : age[i] = age[j] => i = j
  BY DEF Ranked, Cached
<1>3. Cardinality(Cached') = n - Cardinality(K)
  <2>1. Cached \cap K = K
    OBVIOUS
  <2> QED BY <1>1, <2>1, FS_Difference
<1> HIDE DEF n
<1>4. \A j \in rest : Cardinality(Before(j)) \in Nat /\ Cardinality(Before(j)) <= age[j]
  <2> TAKE j \in rest
  <2>1. \A k \in Before(j) : 0 <= age[k] /\ age[k] < age[j]
    BY <1>2
  <2>2. Before(j) \in SUBSET Cached /\ age[j] \in Nat
    BY <1>2
  <2> HIDE DEF Before
  <2> QED BY <2>1, <2>2, Between
<1>5. /\ \A j \in rest : age'[j] = age[j] - Cardinality(Before(j))
      /\ \A j \in Key \ rest : age'[j] = 0
  BY <1>2 DEF AgeWithout, Cached
<1>6. age' \in [Key -> Nat]
  <2> HIDE DEF Before
  <2>1. \A j \in Key : age'[j] \in Nat
    <3> TAKE j \in Key
    <3>1. CASE j \in rest
      BY <1>2, <1>4, <1>5, <3>1
    <3>2. CASE j \notin rest
      BY <1>5, <3>2
    <3> QED BY <3>1, <3>2
  <2>2. age' = [j \in Key |-> age'[j]]
    BY DEF AgeWithout
  <2> QED BY <2>1, <2>2
<1>7. \A j \in rest : age'[j] < n - Cardinality(K)
  <2> TAKE j \in rest
  <2>1. \A k \in After(j) : age[j] + 1 <= age[k] /\ age[k] < n
    BY <1>2
  <2>2. After(j) \in SUBSET Cached /\ age[j] + 1 \in Nat /\ age[j] + 1 <= n /\ age[j] \in Nat
    BY <1>1, <1>2
  <2>3. Before(j) \cap After(j) = {} /\ Before(j) \cup After(j) = K
    OBVIOUS
  <2>4. IsFiniteSet(Before(j))
    BY <1>1, FS_Subset
  <2>5. age'[j] = age[j] - Cardinality(Before(j)) /\ Cardinality(Before(j)) \in Nat
    BY <1>4, <1>5
  <2> HIDE DEF After, Before
  <2>6. IsFiniteSet(After(j)) /\ Cardinality(After(j)) \in Nat /\ Cardinality(After(j)) <= n - (age[j] + 1)
    BY <1>1, <2>1, <2>2, Between
  <2>7. Cardinality(K) = Cardinality(Before(j)) + Cardinality(After(j))
    <3>1. Cardinality(K) = Cardinality(Before(j)) + Cardinality(After(j)) - Cardinality({})
      BY <2>3, <2>4, <2>6, FS_Union
    <3> QED BY <2>5, <2>6, <3>1, FS_EmptySet
  <2> QED BY <1>1, <2>2, <2>5, <2>6, <2>7
<1>8. \A i, j \in rest : age[i] < age[j] => age'[i] < age'[j]
  <2> SUFFICES ASSUME NEW i \in rest, NEW j \in rest, age[i] < age[j] PROVE age'[i] < age'[j]
    OBVIOUS
  <2> DEFINE Mid == {k \in K : ~ (age[k] < age[i]) /\ age[k] < age[j]}
  <2>1. \A k \in Mid : age[i] + 1 <= age[k] /\ age[k] < age[j]
    BY <1>2
  <2>2. Mid \in SUBSET Cached /\ age[i] \in Nat /\ age[j] \in Nat /\ age[i] + 1 <= age[j] /\ age[i] + 1 \in Nat
    BY <1>2
  <2>3. Before(i) \cap Mid = {} /\ Before(i) \cup Mid = Before(j)
    BY <1>2
  <2>4. IsFiniteSet(Before(i))
    BY <1>1, FS_Subset
  <2>5. /\ age'[i] = age[i] - Cardinality(Before(i)) /\ Cardinality(Before(i)) \in Nat
        /\ age'[j] = age[j] - Cardinality(Before(j)) /\ Cardinality(Before(j)) \in Nat
    BY <1>4, <1>5
  <2> HIDE DEF Mid, Before
  <2>6. IsFiniteSet(Mid) /\ Cardinality(Mid) \in Nat /\ Cardinality(Mid) <= age[j] - (age[i] + 1)
    BY <2>1, <2>2, Between
  <2>7. Cardinality(Before(j)) = Cardinality(Before(i)) + Cardinality(Mid)
    <3>1. Cardinality(Before(j)) = Cardinality(Before(i)) + Cardinality(Mid) - Cardinality({})
      BY <2>3, <2>4, <2>6, FS_Union
    <3> QED BY <2>5, <2>6, <3>1, FS_EmptySet
  <2> QED BY <2>2, <2>5, <2>6, <2>7
<1>9. \A i, j \in rest : age'[i] = age'[j] => i = j
  <2> SUFFICES ASSUME NEW i \in rest, NEW j \in rest, i # j PROVE age'[i] # age'[j]
    OBVIOUS
  <2>1. age[i] \in Nat /\ age[j] \in Nat /\ age[i] # age[j]
    BY <1>2
  <2>2. age'[i] \in Nat /\ age'[j] \in Nat
    BY <1>2, <1>6
  <2>3. age[i] < age[j] \/ age[j] < age[i]
    BY <2>1
  <2> QED BY <1>8, <2>2, <2>3
<1> QED BY <1>3, <1>6, <1>7, <1>9 DEF Ranked

\* The same for the actions' parts, and for the actions.
LEMMA TouchRanks == ASSUME Ranked, NEW k \in Cached, Touch(k) PROVE Ranked'
<1>1. Cached' = Cached /\ age' = Used(k)
  BY DEF Touch, Cached
<1> QED BY <1>1, UsedAgain

LEMMA RemoveRanks == ASSUME Ranked, NEW t, NEW K \in SUBSET Cached, Remove(t, K) PROVE Ranked'
<1>1. Cached' = Cached \ K /\ age' = AgeWithout(K)
  BY DEF Remove, Cached
<1> QED BY <1>1, LeftInOrder

LEMMA PutRanks ==
  ASSUME IInv, Ranked, NEW t, NEW k \in Key, NEW v, v # None, Put(t, k, v)
  PROVE  Ranked'
<1>1. items \in [Key -> Nat]
  BY DEF IInv, PlainInv
<1>2. CASE Replace(t, k, v)
  <2>1. k \in Cached /\ age' = Used(k) /\ Cached' = Cached
    BY <1>1, <1>2 DEF Replace, Cached
  <2> QED BY <2>1, UsedAgain
<1>3. CASE Insert(t, k, v)
  <2>1. k \notin Cached /\ age' = Used(k) /\ Cached' = Cached \cup {k}
    BY <1>1, <1>3 DEF Insert, Cached
  <2> QED BY <2>1, UsedFirst
<1>4. CASE InsertEvicting(t, k, v)
  <2>1. PICK victim \in Cached :
          /\ \A j \in Cached : age[j] <= age[victim]
          /\ items' = [items EXCEPT ![k] = v, ![victim] = None]
          /\ age' = [Used(k) EXCEPT ![victim] = 0]
    BY <1>4 DEF InsertEvicting
  <2>2. k \notin Cached /\ k # victim
    BY <1>4 DEF InsertEvicting
  <2>3. Cached' = (Cached \ {victim}) \cup {k}
    BY <1>1, <2>1, <2>2 DEF Cached
  <2> QED BY <2>1, <2>2, <2>3, UsedInPlaceOf
<1> QED BY <1>2, <1>3, <1>4 DEF Put

LEMMA TakeRanks == ASSUME Ranked, NEW t, NEW k, TakeExpired(t, k) PROVE Ranked'
<1>1. CASE k \in Cached
  BY <1>1, RemoveRanks DEF TakeExpired
<1>2. CASE k \notin Cached
  BY <1>2 DEF TakeExpired, Ranked, Cached
<1> QED BY <1>1, <1>2

LEMMA RanksKept == IInv /\ Ranked /\ [Next]_cacheVars => Ranked'
<1> SUFFICES ASSUME IInv, Ranked, [Next]_cacheVars PROVE Ranked'
  OBVIOUS
<1>1. ASSUME items' = items, age' = age PROVE Ranked'
  BY <1>1 DEF Ranked, Cached
<1>2. ASSUME NEW k \in Key, Expire(k) PROVE Ranked'
  BY <1>1, <1>2 DEF Expire
<1>3. ASSUME NEW t \in Thread, NEW k \in Key, Get(t, k) PROVE Ranked'
  <2>1. k \in Cached /\ (Touch(k) \/ Remove(t, {k}))
    BY <1>3 DEF Get
  <2> QED BY <2>1, TouchRanks, RemoveRanks
<1>4. ASSUME NEW t \in Thread, NEW k \in Key, GetOrCreateHit(t, k) PROVE Ranked'
  BY <1>4, TouchRanks DEF GetOrCreateHit, Hit
<1>5. ASSUME NEW t \in Thread, NEW k \in Key, GetOrCreateWait(t, k) \/ GetOrCreateMiss(t, k)
      PROVE  Ranked'
  BY <1>5, TakeRanks DEF GetOrCreateWait, GetOrCreateMiss
<1>6. ASSUME NEW t \in Thread, NEW k \in Key, Set(t, k) PROVE Ranked'
  <2>1. Put(t, k, made + 1) /\ made + 1 # None
    BY <1>6 DEF Set, IInv, PlainInv, None
  <2> QED BY <2>1, PutRanks
<1>7. ASSUME NEW t \in Thread, NEW k \in Key, SetAgain(t, k) PROVE Ranked'
  <2>1. Put(t, k, items[k]) /\ items[k] # None
    BY <1>7 DEF SetAgain, Cached
  <2> QED BY <2>1, PutRanks
<1>8. ASSUME NEW t \in Thread, (\E K \in SUBSET Cached : Delete(t, K)) \/ Sweep(t)
      PROVE  Ranked'
  BY <1>8, RemoveRanks DEF Delete, Sweep
<1>9. ASSUME NEW t \in Thread, CreateReturns(t) PROVE Ranked'
  <2>1. /\ thread[t].key \in Key /\ thread[t].call # None
        /\ Put(t, thread[t].key, thread[t].call)
    BY <1>9 DEF CreateReturns, IInv, PlainInv, FlightInv, InFlight, None
  <2> QED BY <2>1, PutRanks
<1>10. ASSUME NEW t \in Thread, CreateFails(t) \/ Release(t) \/ CloseDone(t) \/ Wake(t)
       PROVE  Ranked'
  BY <1>1, <1>10 DEF CreateFails, Release, CloseDone, Wake
<1>11. ASSUME NEW t \in Thread, NotifyOne(t) PROVE Ranked'
  BY <1>1, <1>11 DEF NotifyOne, Notify
<1>12. CASE UNCHANGED cacheVars
  BY <1>1, <1>12 DEF cacheVars
<1> QED
  BY <1>2, <1>3, <1>4, <1>5, <1>6, <1>7, <1>8, <1>9, <1>10, <1>11, <1>12 DEF Next, Finish

\* What TypeOK says beside Ranked and IInv.
PlainRest == expired \in SUBSET Key /\ open \in SUBSET Nat

LEMMA ShapesKept == IInv /\ PlainRest /\ [Next]_cacheVars => PlainRest'
<1> SUFFICES ASSUME IInv, PlainRest, [Next]_cacheVars PROVE PlainRest'
  OBVIOUS
<1>1. expired' \subseteq expired \/ \E k \in Key : expired' = expired \cup {k}
  BY DEF Next, Expire, Get, GetOrCreateHit, GetOrCreateWait, GetOrCreateMiss, Set, SetAgain,
     Delete, Sweep, Finish, CreateReturns, CreateFails, Release, CloseDone, Wake, NotifyOne,
     Notify, Touch, Remove, TakeExpired, Put, cacheVars
<1>2. open' \subseteq open \cup {made + 1}
  BY DEF Next, Expire, Get, GetOrCreateHit, GetOrCreateWait, GetOrCreateMiss, Set, SetAgain,
     Delete, Sweep, Finish, CreateReturns, CreateFails, Release, CloseDone, Done, Wake,
     NotifyOne, Notify, cacheVars
<1>3. made + 1 \in Nat
  BY DEF IInv, PlainInv
<1> QED BY <1>1, <1>2, <1>3 DEF PlainRest

-----------------------------------------------------------------------------
(* The theorems.                                                           *)

\* Every reachable state has the inductive invariant: creators are registered
\* for their key, and every value of the cache is in one place.
THEOREM CacheIInv == Safety => []IInv
<1> QED BY InitIInv, NextKeeps, PTL DEF Safety

\* create runs at most once at a time for a key (GetOrCreate).
THEOREM CacheSingleFlight == Safety => []SingleFlight
<1>1. IInv => SingleFlight
  BY DEF IInv, FlightInv, InFlight, SingleFlight
<1> QED BY <1>1, CacheIInv, PTL

\* Every value that leaves the cache is handed to OnDelete, and once
\* (notifyDelete).
THEOREM CacheOnDeleteOnce == Safety => []OnDeleteOnce
<1>1. IInv => OnDeleteOnce
  BY DEF IInv, Account, OnDeleteOnce, Held, Owed, Cached
<1> QED BY <1>1, CacheIInv, PTL

\* The cache never holds more than MaxEntries (the eviction of Set).
THEOREM CacheWithinLimit == Safety => []WithinLimit
<1>1. Init => WithinLimit
  <2>1. ASSUME Init PROVE Cached = {}
    BY <2>1 DEF Init, Cached
  <2> QED BY <2>1, FS_EmptySet, LimitAssumption DEF WithinLimit
<1> QED BY <1>1, WithinKept, CacheIInv, PTL DEF Safety
\* The LRU list orders the cached keys, each at a place of its own, through every hit,
\* eviction, deletion and expiry (markUsedLocked, deleteLocked).
THEOREM CacheRanks == Safety => []Ranked
<1>1. Init => Ranked
  BY DEF Init, Ranked, Cached
<1> QED BY <1>1, RanksKept, CacheIInv, PTL DEF Safety

\* Every variable has its shape, and the list has as many places as there are cached
\* keys (Cache.items and Cache.lru agree).
THEOREM CacheTypeOK == Safety => []TypeOK
<1>1. Init => PlainRest
  BY DEF Init, PlainRest
<1>2. IInv /\ Ranked /\ PlainRest => TypeOK
  <2> SUFFICES ASSUME IInv, Ranked, PlainRest PROVE TypeOK
    OBVIOUS
  <2>1. stored \subseteq Nat /\ left \subseteq stored
    BY DEF IInv, PlainInv, Account
  <2>2. age \in [Key -> Nat] /\ {age[k] : k \in Cached} = 0..Cardinality(Cached) - 1
    BY EveryPlace DEF Ranked
  <2> QED BY <2>1, <2>2 DEF TypeOK, IInv, PlainInv, PlainRest
<1> QED BY <1>1, <1>2, ShapesKept, CacheIInv, CacheRanks, PTL DEF Safety

-----------------------------------------------------------------------------
(* The pools.                                                              *)

\* A pool that was stored, or that its creator holds, was opened; closeDeletedPool
\* has seen the pools that wait for their close or are closed, and no others.
PoolInv ==
  /\ made <= MaxMade
  /\ opened \subseteq 1..made
  /\ opened = InHand \cup stored
  /\ left = closing \cup closed
  /\ closing \cap closed = {}

ConnIInv == IInv /\ PoolInv

\* What the cache does without the pools' knowledge.
Calls == {thread[t].call : t \in {u \in Thread : thread[u].at = "create"}}

LEMMA ConnInitIInv == ConnInit => ConnIInv
<1> SUFFICES ASSUME ConnInit PROVE ConnIInv
  OBVIOUS
<1>1. Init /\ opened = {} /\ closing = {} /\ closed = {}
  BY DEF ConnInit
<1>2. InHand = {}
  BY <1>1 DEF InHand
<1>3. PoolInv
  BY <1>1, <1>2, LimitAssumption DEF Init, PoolInv
<1> QED BY <1>1, <1>3, InitIInv DEF ConnIInv

\* A step of the connection cache is one of the cache, or none.
LEMMA ConnStepIsCacheStep == [ConnNext]_connCacheVars => [Next]_cacheVars
<1> SUFFICES ASSUME [ConnNext]_connCacheVars PROVE [Next]_cacheVars
  OBVIOUS
<1>1. CASE UNCHANGED connCacheVars
  BY <1>1 DEF connCacheVars
<1>2. CASE \E k \in Key : Age(k)
  BY <1>2 DEF Age, Next
<1>3. CASE \E v \in closing : ClosePool(v)
  BY <1>3 DEF ClosePool
<1>4. ASSUME NEW t \in Thread, NEW k \in Key, GetOrOpen(t, k) PROVE [Next]_cacheVars
  BY <1>4 DEF GetOrOpen, Next
<1>5. ASSUME NEW t \in Thread, ConnFinish(t) PROVE [Next]_cacheVars
  BY <1>5 DEF ConnFinish, OpenPool, StorePool, OpenFails, EndGetOrOpen, Next, Finish
<1>6. ASSUME NEW t \in Thread, GC(t) \/ RunOnDelete(t) PROVE [Next]_cacheVars
  BY <1>6 DEF GC, RunOnDelete, CloseDeletedPool, Next, NotifyOne
<1>7. ASSUME NEW t \in Thread, NEW K \in SUBSET Key, FindConns(t, K) PROVE [Next]_cacheVars
  BY <1>7 DEF FindConns
<1>8. ASSUME NEW t \in Thread, NEW K \in SUBSET Cached, Delete(t, K) PROVE [Next]_cacheVars
  BY <1>8 DEF Next
<1>9. ASSUME NEW t \in Thread, NEW k \in Key, DeleteFound(t, k) PROVE [Next]_cacheVars
  BY <1>8, <1>9 DEF DeleteFound
<1>10. ASSUME NEW t \in Thread, CloseWorkspaceConns(t) PROVE [Next]_cacheVars
  BY <1>8, <1>10 DEF CloseWorkspaceConns
<1> QED BY <1>1, <1>2, <1>3, <1>4, <1>5, <1>6, <1>7, <1>9, <1>10 DEF ConnNext, ConnFinish

\* Steps that open, store and report nothing.
LEMMA PoolsAside ==
  ASSUME PoolInv, UNCHANGED <<opened, stored, left, closing, closed>>,
         made' \in made..MaxMade, made \in Nat, InHand' = InHand
  PROVE  PoolInv'
BY LimitAssumption DEF PoolInv

\* No thread begins or ends a create.
LEMMA SameHands ==
  ASSUME UNCHANGED opened,
         \A u \in Thread : thread'[u].at = "create" => thread'[u] = thread[u],
         \A u \in Thread : thread[u].at = "create" => thread'[u] = thread[u]
  PROVE  InHand' = InHand
BY DEF InHand

LEMMA TakeStores == ASSUME NEW t, NEW k, TakeExpired(t, k) PROVE stored' = stored
BY DEF TakeExpired, Remove

LEMMA PoolGet ==
  ASSUME ConnIInv, NEW t \in Thread, NEW k \in Key, GetOrOpen(t, k)
  PROVE  PoolInv'
<1>1. /\ made \in Nat /\ PoolInv /\ MaxMade \in Nat
      /\ thread \in [Thread -> [at : At, key : Key, call : Nat]]
  BY LimitAssumption DEF ConnIInv, IInv, PlainInv
<1>2. UNCHANGED connVars /\ Free(t)
  BY DEF GetOrOpen, GetOrCreateHit, GetOrCreateWait, GetOrCreateMiss
<1>3. UNCHANGED <<opened, closing, closed>> /\ thread[t].at = "idle"
  BY <1>2 DEF connVars, Free
<1>4. CASE GetOrCreateHit(t, k)
  <2>1. UNCHANGED <<thread, stored, left, made>>
    BY <1>4 DEF GetOrCreateHit, Touch
  <2>2. InHand' = InHand
    BY <1>3, <2>1 DEF InHand
  <2>3. made' \in made..MaxMade
    BY <1>1, <2>1 DEF PoolInv
  <2> QED BY <1>1, <1>3, <2>1, <2>2, <2>3, PoolsAside
<1>5. CASE GetOrCreateWait(t, k)
  <2>1. UNCHANGED <<left, made, stored>>
        /\ thread' = [thread EXCEPT ![t] = [at |-> "wait", key |-> k, call |-> creating[k]]]
    BY <1>5, TakeStores DEF GetOrCreateWait
  <2>2. InHand' = InHand
    BY <1>1, <1>3, <2>1, SameHands
  <2>3. made' \in made..MaxMade
    BY <1>1, <2>1 DEF PoolInv
  <2> QED BY <1>1, <1>3, <2>1, <2>2, <2>3, PoolsAside
<1>6. CASE GetOrCreateMiss(t, k)
  <2>1. /\ UNCHANGED <<left, stored>> /\ made' = made + 1 /\ made < MaxMade
        /\ thread' = [thread EXCEPT ![t] = [at |-> "create", key |-> k, call |-> made + 1]]
    BY <1>6, TakeStores DEF GetOrCreateMiss
  <2>2. \A u \in Thread :
          thread'[u] = IF u = t THEN [at |-> "create", key |-> k, call |-> made + 1]
                       ELSE thread[u]
    BY <1>1, <2>1
  <2>3. Calls' = Calls \cup {made + 1}
    BY <1>3, <2>2 DEF Calls
  <2>4. made + 1 \notin opened
    BY <1>1 DEF PoolInv
  <2>5. InHand' = InHand
    BY <1>3, <2>3, <2>4 DEF InHand, Calls
  <2>6. made' \in made..MaxMade
    BY <1>1, <2>1
  <2> QED BY <1>1, <1>3, <2>1, <2>5, <2>6, PoolsAside
<1> QED BY <1>4, <1>5, <1>6 DEF GetOrOpen

LEMMA PoolOpen ==
  ASSUME ConnIInv, NEW t \in Thread, OpenPool(t)
  PROVE  PoolInv'
<1> DEFINE v == thread[t].call
<1>1. /\ opened' = opened \cup {v} /\ thread[t].at = "create"
      /\ UNCHANGED <<cacheVars, closing, closed>>
  BY DEF OpenPool
<1>2. v \in 1..made
  BY <1>1 DEF ConnIInv, IInv, FlightInv, InFlight
<1>3. UNCHANGED <<thread, made, stored, left>>
  BY <1>1 DEF cacheVars
<1>4. Calls' = Calls /\ v \in Calls
  BY <1>1, <1>3 DEF Calls
<1>5. InHand' = InHand \cup {v}
  BY <1>1, <1>4 DEF InHand, Calls
<1> HIDE DEF v
<1> QED BY <1>1, <1>2, <1>3, <1>5 DEF ConnIInv, PoolInv

LEMMA PoolStore ==
  ASSUME ConnIInv, NEW t \in Thread, StorePool(t)
  PROVE  PoolInv'
<1> DEFINE v == thread[t].call
<1>1. /\ v \in opened /\ thread[t].at = "create" /\ CreateReturns(t)
      /\ UNCHANGED <<opened, closing, closed>>
  BY DEF StorePool, connVars
<1>2. /\ stored' = stored \cup {v} /\ UNCHANGED <<left, made>>
      /\ thread' = [thread EXCEPT ![t].at = "publish"]
  BY <1>1 DEF CreateReturns, Put
<1>3. \A u \in Thread : u # t => thread'[u] = thread[u]
  BY <1>2 DEF ConnIInv, IInv, PlainInv
<1>4. thread'[t].at = "publish"
  BY <1>2 DEF ConnIInv, IInv, PlainInv
<1>5. Calls = Calls' \cup {v}
  BY <1>1, <1>3, <1>4 DEF Calls
<1>6. InHand = InHand' \cup {v}
  BY <1>1, <1>5 DEF InHand, Calls
<1> HIDE DEF v
<1> QED BY <1>1, <1>2, <1>6 DEF ConnIInv, PoolInv

LEMMA PoolFails ==
  ASSUME ConnIInv, NEW t \in Thread, OpenFails(t)
  PROVE  PoolInv'
<1> DEFINE v == thread[t].call
<1>1. /\ v \notin opened /\ thread[t].at = "create"
      /\ thread' = [thread EXCEPT ![t].at = "publish"]
      /\ UNCHANGED <<opened, closing, closed, stored, left, made>>
  BY DEF OpenFails, CreateFails, connVars
<1>2. \A u \in Thread : u # t => thread'[u] = thread[u]
  BY <1>1 DEF ConnIInv, IInv, PlainInv
<1>3. thread'[t].at = "publish"
  BY <1>1 DEF ConnIInv, IInv, PlainInv
<1>4. Calls = Calls' \cup {v}
  BY <1>1, <1>2, <1>3 DEF Calls
<1>5. InHand' = InHand
  BY <1>1, <1>4 DEF InHand, Calls
<1>6. made' \in made..MaxMade /\ made \in Nat
  BY <1>1, LimitAssumption DEF ConnIInv, IInv, PlainInv, PoolInv
<1> HIDE DEF v
<1> QED BY <1>1, <1>5, <1>6, PoolsAside DEF ConnIInv

\* Steps of goroutines that are not in create, and of those that end one.
LEMMA PoolQuiet ==
  ASSUME ConnIInv, UNCHANGED <<opened, stored, left, made, closing, closed>>,
         thread' = thread \/ \E t \in Thread : EndGetOrOpen(t)
  PROVE  PoolInv'
<1>1. InHand' = InHand
  <2>1. CASE thread' = thread
    BY <2>1 DEF InHand
  <2>2. ASSUME NEW t \in Thread, EndGetOrOpen(t) PROVE InHand' = InHand
    <3>1. thread[t].at # "create"
      BY <2>2 DEF EndGetOrOpen, Release, CloseDone, Wake
    <3>2. thread' = [thread EXCEPT ![t].at = "close"] \/ thread' = [thread EXCEPT ![t] = Idle]
      BY <2>2 DEF EndGetOrOpen, Release, CloseDone, Wake
    <3>3. \A u \in Thread : u # t => thread'[u] = thread[u]
      BY <3>2 DEF ConnIInv, IInv, PlainInv
    <3>4. thread'[t].at # "create"
      BY <3>2 DEF ConnIInv, IInv, PlainInv, Idle
    <3> QED BY <3>1, <3>3, <3>4, SameHands
  <2> QED BY <2>1, <2>2
<1>2. made' \in made..MaxMade /\ made \in Nat
  BY LimitAssumption DEF ConnIInv, IInv, PlainInv, PoolInv
<1> QED BY <1>1, <1>2, PoolsAside DEF ConnIInv

LEMMA PoolDropped ==
  ASSUME ConnIInv, NEW t \in Thread, RunOnDelete(t)
  PROVE  PoolInv'
<1>1. PICK d \in due : CloseDeletedPool(t, d[2], d[3])
  BY DEF RunOnDelete
<1> DEFINE v == d[3]
<1>2. /\ left' = left \cup {v} /\ closing' = closing \cup {v}
      /\ UNCHANGED <<thread, made, stored, opened, closed>>
  BY <1>1 DEF CloseDeletedPool, Notify, ScheduleClose
<1>3. v \notin left
  BY DEF ConnIInv, IInv, Account
<1>4. InHand' = InHand
  BY <1>2 DEF InHand
<1> HIDE DEF v
<1> QED BY <1>2, <1>3, <1>4 DEF ConnIInv, PoolInv

LEMMA ConnNextKeeps == ConnIInv /\ [ConnNext]_connCacheVars => ConnIInv'
<1> SUFFICES ASSUME ConnIInv, [ConnNext]_connCacheVars PROVE ConnIInv'
  OBVIOUS
<1>1. IInv'
  BY ConnStepIsCacheStep, NextKeeps DEF ConnIInv
<1>2. ASSUME UNCHANGED connCacheVars PROVE PoolInv'
  BY <1>2, PoolQuiet DEF connCacheVars, connVars, cacheVars
<1>3. ASSUME NEW k \in Key, Age(k) PROVE PoolInv'
  BY <1>3, PoolQuiet DEF Age, Expire, connVars
<1>5. ASSUME NEW v \in closing, ClosePool(v) PROVE PoolInv'
  <2>1. /\ closing' = closing \ {v} /\ closed' = closed \cup {v}
        /\ UNCHANGED <<thread, opened, stored, left, made>>
    BY <1>5 DEF ClosePool, cacheVars
  <2>2. InHand' = InHand
    BY <2>1 DEF InHand
  <2> QED BY <2>1, <2>2 DEF ConnIInv, PoolInv
<1>6. ASSUME NEW t \in Thread, EndGetOrOpen(t) PROVE PoolInv'
  <2>1. UNCHANGED <<opened, stored, left, made, closing, closed>>
    BY <1>6 DEF EndGetOrOpen, Release, CloseDone, Wake, connVars
  <2> QED BY <1>6, <2>1, PoolQuiet
<1>7. ASSUME NEW t \in Thread, NEW K \in SUBSET Key, Delete(t, K) PROVE UNCHANGED <<thread, stored, left, made>>
  BY <1>7 DEF Delete, Remove
<1>8. ASSUME NEW t \in Thread, GC(t) PROVE PoolInv'
  BY <1>8, PoolQuiet DEF GC, Sweep, Delete, Remove, connVars
<1>9. ASSUME NEW t \in Thread, NEW K \in SUBSET Key, FindConns(t, K) PROVE PoolInv'
  BY <1>9, PoolQuiet DEF FindConns, cacheVars
<1>10. ASSUME NEW t \in Thread, NEW k \in Key, DeleteFound(t, k) PROVE PoolInv'
  BY <1>7, <1>10, PoolQuiet DEF DeleteFound, cacheVars
<1>11. ASSUME NEW t \in Thread, CloseWorkspaceConns(t) PROVE PoolInv'
  <2>1. Workspace \cap Cached \in SUBSET Key
    BY DEF Cached
  <2> QED BY <1>7, <1>11, <2>1, PoolQuiet DEF CloseWorkspaceConns, cacheVars, connVars
<1>12. PoolInv'
  BY <1>2, <1>3, <1>5, <1>6, <1>8, <1>9, <1>10, <1>11, PoolGet, PoolOpen, PoolStore,
     PoolFails, PoolDropped DEF ConnNext
<1> QED BY <1>1, <1>12 DEF ConnIInv

\* Every reachable state of the connection cache has the inductive invariant.
THEOREM ConnCacheIInv == ConnSafety => []ConnIInv
<1> QED BY ConnInitIInv, ConnNextKeeps, PTL DEF ConnSafety

LEMMA Accounted == ConnIInv => PoolsAccounted
<1> SUFFICES ASSUME ConnIInv PROVE PoolsAccounted
  OBVIOUS
<1>1. /\ stored = Held \cup Owed \cup left
      /\ Held \cap Owed = {} /\ Held \cap left = {} /\ Owed \cap left = {}
  BY DEF ConnIInv, IInv, Account, Held, Owed, Cached
<1>2. InHand \cap stored = {}
  BY DEF ConnIInv, IInv, InHand
<1> QED BY <1>1, <1>2 DEF ConnIInv, PoolInv, PoolsAccounted

\* No pool leaks and none is closed twice (conn_cache.go, closeDeletedPool).
THEOREM ConnCachePoolsAccounted == ConnSafety => []PoolsAccounted
<1> QED BY Accounted, ConnCacheIInv, PTL
-----------------------------------------------------------------------------
(* The life of a pool (PoolLife).                                          *)

Serving == InHand \cup Held

\* The life of every pool, as ConnCache states it.
Lives ==
  [v \in 1..MaxMade |->
    IF v \notin opened THEN "new"
    ELSE IF v \in closed THEN "closed"
    ELSE IF v \in InHand \cup Held THEN "serving"
    ELSE "draining"]

LEMMA InitLives == ConnInit => Lives = [v \in 1..MaxMade |-> "new"]
BY DEF ConnInit, Lives

\* The pools that do not serve any more grow in number.
LEMMA DueGrows ==
  ASSUME [Next]_cacheVars
  PROVE  Owed \cup left \subseteq Owed' \cup left'
<1>1. ASSUME due \subseteq due', left' = left PROVE Owed \cup left \subseteq Owed' \cup left'
  BY <1>1 DEF Owed
<1>2. ASSUME NEW t \in Thread, NEW K, Remove(t, K) PROVE due \subseteq due'
  BY <1>2 DEF Remove
<1>3. ASSUME NEW t \in Thread, NEW k \in Key, TakeExpired(t, k) PROVE due \subseteq due'
  BY <1>2, <1>3 DEF TakeExpired
<1>4. ASSUME NEW t \in Thread, NEW k \in Key, NEW v, Put(t, k, v) PROVE due \subseteq due'
  BY <1>4 DEF Put, Replace, Insert, InsertEvicting
<1>5. ASSUME NEW t \in Thread, NotifyOne(t) PROVE Owed \cup left \subseteq Owed' \cup left'
  <2>1. PICK d \in due : Notify(t, d[2], d[3]) /\ d[1] = t
    BY <1>5 DEF NotifyOne
  <2> DEFINE e == <<t, d[2], d[3]>>
  <2>2. due' = due \ {e} /\ left' = left \cup {e[3]}
    BY <2>1 DEF Notify
  <2> HIDE DEF e
  <2> QED BY <2>2 DEF Owed
<1>6. ASSUME NEW t \in Thread, NEW k \in Key, Get(t, k) \/ GetOrCreateHit(t, k)
      PROVE  due \subseteq due' /\ left' = left
  BY <1>2, <1>6 DEF Get, GetOrCreateHit, Touch
<1>7. ASSUME NEW t \in Thread, NEW k \in Key, GetOrCreateWait(t, k) \/ GetOrCreateMiss(t, k)
      PROVE  due \subseteq due' /\ left' = left
  BY <1>3, <1>7 DEF GetOrCreateWait, GetOrCreateMiss
<1>8. ASSUME NEW t \in Thread, NEW k \in Key, Set(t, k) \/ SetAgain(t, k)
      PROVE  due \subseteq due' /\ left' = left
  BY <1>4, <1>8 DEF Set, SetAgain
<1>9. ASSUME NEW t \in Thread, (\E K \in SUBSET Cached : Delete(t, K)) \/ Sweep(t)
      PROVE  due \subseteq due' /\ left' = left
  BY <1>2, <1>9 DEF Delete, Sweep
<1>10. ASSUME NEW t \in Thread, CreateFails(t) \/ Release(t) \/ CloseDone(t) \/ Wake(t)
       PROVE  due \subseteq due' /\ left' = left
  BY <1>10 DEF CreateFails, Release, CloseDone, Wake
<1>11. ASSUME NEW t \in Thread, CreateReturns(t) PROVE due \subseteq due' /\ left' = left
  BY <1>11 DEF CreateReturns, Put, Replace, Insert, InsertEvicting
<1>12. ASSUME (\E k \in Key : Expire(k)) \/ UNCHANGED cacheVars
       PROVE  due \subseteq due' /\ left' = left
  BY <1>12 DEF Expire, cacheVars
<1> QED BY <1>1, <1>5, <1>6, <1>7, <1>8, <1>9, <1>10, <1>11, <1>12 DEF Next, Finish

\* A step that opens and closes nothing drops the pools that stop serving.
LEMMA StepDrops ==
  ASSUME ConnIInv, ConnIInv', [Next]_cacheVars, opened' = opened, closed' = closed
  PROVE  Life!Next \/ Lives' = Lives
<1> DEFINE P == Serving \ Serving'
<1>1. /\ opened = Serving \cup Owed \cup left
      /\ Serving \cap (Owed \cup left) = {}
      /\ closed \subseteq left
      /\ opened \subseteq 1..MaxMade
  <2>1. opened \subseteq 1..MaxMade
    BY LimitAssumption DEF ConnIInv, IInv, PlainInv, PoolInv
  <2> QED BY <2>1, Accounted DEF PoolsAccounted, Serving, ConnIInv, PoolInv
<1>2. /\ opened' = Serving' \cup Owed' \cup left'
      /\ Serving' \cap (Owed' \cup left') = {}
  <2>1. PoolsAccounted'
    BY Accounted, PTL
  <2> QED BY <2>1 DEF PoolsAccounted, Serving, ConnIInv, PoolInv
<1>3. Serving' \subseteq Serving
  BY <1>1, <1>2, DueGrows
<1>4. \A v \in 1..MaxMade : Lives[v] = IF v \notin opened THEN "new"
                                    ELSE IF v \in closed THEN "closed"
                                    ELSE IF v \in Serving THEN "serving" ELSE "draining"
  BY DEF Lives, Serving
<1>5. \A v \in 1..MaxMade : Lives'[v] = IF v \notin opened THEN "new"
                                     ELSE IF v \in closed THEN "closed"
                                     ELSE IF v \in Serving' THEN "serving" ELSE "draining"
  BY DEF Lives, Serving
<1>6. Lives' = [v \in 1..MaxMade |-> IF v \in P THEN "draining" ELSE Lives[v]]
  <2>1. \A v \in 1..MaxMade : Lives'[v] = IF v \in P THEN "draining" ELSE Lives[v]
    BY <1>1, <1>3, <1>4, <1>5
  <2> HIDE DEF P
  <2> QED BY <2>1 DEF Lives
<1>7. \A v \in P : v \in 1..MaxMade /\ Lives[v] = "serving"
  BY <1>1, <1>4
<1> HIDE DEF P
<1>8. CASE P = {}
  <2>1. Lives' = [v \in 1..MaxMade |-> Lives[v]]
    BY <1>6, <1>8
  <2> QED BY <2>1 DEF Lives
<1>9. CASE P # {}
  <2>1. P \in SUBSET (1..MaxMade)
    BY <1>7
  <2>2. \E Q \in SUBSET (1..MaxMade) :
           /\ Q # {} /\ \A v \in Q : Lives[v] = "serving"
           /\ Lives' = [v \in 1..MaxMade |-> IF v \in Q THEN "draining" ELSE Lives[v]]
    BY <1>6, <1>7, <1>9, <2>1, Zenon
  <2> QED BY <2>2 DEF Life!Next, Life!Drop, Lives
<1> QED BY <1>8, <1>9

LEMMA StepLives ==
  ASSUME ConnIInv, ConnIInv', [ConnNext]_connCacheVars
  PROVE  Life!Next \/ Lives' = Lives
<1>1. [Next]_cacheVars
  BY ConnStepIsCacheStep
<1>2. ASSUME NEW t \in Thread, OpenPool(t) PROVE Life!Next
  <2> DEFINE v == thread[t].call
  <2>1. /\ v \notin opened /\ opened' = opened \cup {v} /\ closed' = closed
        /\ thread[t].at = "create" /\ UNCHANGED <<thread, items>>
    BY <1>2 DEF OpenPool, cacheVars
  <2>2. v \in 1..made /\ made <= MaxMade /\ made \in Nat
    BY <2>1 DEF ConnIInv, IInv, PlainInv, PoolInv, FlightInv, InFlight
  <2>3. v \in 1..MaxMade
    BY <2>2, LimitAssumption
  <2>4. v \in Calls
    BY <2>1 DEF Calls
  <2>5. Held' = Held
    BY <2>1 DEF Held, Cached
  <2>6. v \notin closed
    BY <2>1 DEF ConnIInv, PoolInv, IInv, Account
  <2>7. Calls' = Calls
    BY <2>1 DEF Calls
  <2> HIDE DEF v
  <2>8. InHand' = InHand \cup {v}
    BY <2>1, <2>4, <2>7 DEF InHand, Calls
  <2>9. Lives' = [Lives EXCEPT ![v] = "serving"] /\ Lives[v] = "new"
    BY <2>1, <2>3, <2>5, <2>6, <2>8 DEF Lives
  <2> QED BY <2>3, <2>9 DEF Life!Next, Life!Open, Lives
<1>3. ASSUME NEW v \in closing, ClosePool(v) PROVE Life!Next
  <2>1. closed' = closed \cup {v} /\ UNCHANGED <<opened, thread, items>>
    BY <1>3 DEF ClosePool, cacheVars
  <2>2. Held' = Held /\ InHand' = InHand
    BY <2>1 DEF Held, InHand, Cached
  <2>3. PoolsAccounted
    BY Accounted
  <2>4. v \in opened /\ v \notin closed /\ v \notin InHand \cup Held
    BY <2>3 DEF PoolsAccounted
  <2>5. v \in 1..MaxMade
    BY <2>4, LimitAssumption DEF ConnIInv, IInv, PlainInv, PoolInv
  <2>6. Lives' = [Lives EXCEPT ![v] = "closed"] /\ Lives[v] = "draining"
    BY <2>1, <2>2, <2>4, <2>5 DEF Lives
  <2> QED BY <2>5, <2>6 DEF Life!Next, Life!Close, Lives
<1>4. ASSUME ~ \E t \in Thread : OpenPool(t), ~ \E v \in closing : ClosePool(v)
      PROVE  opened' = opened /\ closed' = closed
  <2>1. ASSUME NEW t \in Thread, NEW k \in Key, GetOrOpen(t, k) PROVE UNCHANGED connVars
    BY <2>1 DEF GetOrOpen
  <2>2. ASSUME NEW t \in Thread, StorePool(t) \/ OpenFails(t) \/ EndGetOrOpen(t) \/ GC(t)
        PROVE  UNCHANGED connVars
    BY <2>2 DEF StorePool, OpenFails, EndGetOrOpen, GC
  <2>3. ASSUME NEW t \in Thread, RunOnDelete(t) PROVE opened' = opened /\ closed' = closed
    BY <2>3 DEF RunOnDelete, CloseDeletedPool
  <2>4. ASSUME NEW t \in Thread, NEW K \in SUBSET Key, FindConns(t, K)
        PROVE  opened' = opened /\ closed' = closed
    BY <2>4 DEF FindConns
  <2>6. ASSUME NEW t \in Thread, (\E k \in Key : DeleteFound(t, k)) \/ CloseWorkspaceConns(t)
        PROVE  opened' = opened /\ closed' = closed
    BY <2>6 DEF DeleteFound, CloseWorkspaceConns, connVars
  <2>5. ASSUME (\E k \in Key : Age(k)) \/ UNCHANGED connCacheVars
        PROVE  opened' = opened /\ closed' = closed
    BY <2>5 DEF Age, connCacheVars, connVars
  <2> QED BY <1>4, <2>1, <2>2, <2>3, <2>4, <2>5, <2>6 DEF ConnNext, connVars
<1> QED BY <1>1, <1>2, <1>3, <1>4, StepDrops

\* Every pool serves, is dropped and is closed, in this order, and nothing happens to
\* it that PoolLife does not allow (closeDeletedPool); that it is closed in the end is
\* left to the model checker.
THEOREM ConnCacheKeepsPoolLife == ConnSafety => Life!Safety
<1>1. ConnInit => Life!Init
  BY InitLives DEF Life!Init, Lives
<1>2. ConnIInv /\ ConnIInv' /\ [ConnNext]_connCacheVars => Life!Next \/ Lives' = Lives
  BY StepLives
<1>3. Life!Next \/ Lives' = Lives =>
        [Life!Next]_([v \in 1..MaxMade |->
            IF v \notin opened THEN "new"
            ELSE IF v \in closed THEN "closed"
            ELSE IF v \in InHand \cup Held THEN "serving"
            ELSE "draining"])
  BY DEF Lives
<1> QED BY <1>1, <1>2, <1>3, ConnCacheIInv, PTL DEF ConnSafety, Life!Safety
-----------------------------------------------------------------------------
(* The tunnels.                                                            *)

\* Who has a tunnel of its own that is not in the cache, and which it is.
Keepers == {t \in Thread : call[t].at \in {"again", "spare"}}

Shapes ==
  /\ cached \in [Host -> 0..dialled]
  /\ dialled \in 0..MaxTunnels
  /\ dead \in SUBSET (1..dialled)
  /\ shut \in SUBSET (1..dialled)
  /\ mutex \in SUBSET Thread
  /\ \A t, u \in mutex : t = u
  /\ call \in [Thread -> Resolving]
  /\ drop \in [Thread -> SUBSET (1..dialled)]

\* A tunnel in the cache, and one its caller keeps, is open, and nowhere else.
InCache ==
  /\ \A h, g \in Host : cached[h] # 0 /\ cached[h] = cached[g] => h = g
  /\ \A h \in Host : cached[h] # 0 => cached[h] \notin shut
  /\ \A h \in Host, t \in Thread : cached[h] # 0 => cached[h] \notin drop[t]
  /\ \A h \in Host, t \in Keepers : cached[h] # call[t].own
InKeep ==
  /\ \A t \in Keepers : call[t].own \in 1..dialled /\ call[t].own \notin shut
  /\ \A t \in Keepers, u \in Thread : call[t].own \notin drop[u]
  /\ \A t, u \in Keepers : call[t].own = call[u].own => t = u

\* Who looks for a tunnel knows for which host.
InLook == \A t \in Thread : call[t].at \in {"dial", "again"} => call[t].host \in Host

TunnelInv == Shapes /\ InCache /\ InKeep /\ InLook

LEMMA GoingShape ==
  ASSUME NEW at \in {"idle", "dial", "again", "spare", "use", "conns"},
         NEW h \in Host \cup {0}, NEW own \in 0..MaxTunnels, NEW n \in 0..MaxTunnels
  PROVE  /\ Going(at, h, own, n) \in Resolving
         /\ Going(at, h, own, n).at = at /\ Going(at, h, own, n).host = h
         /\ Going(at, h, own, n).own = own
BY DEF Going, Resolving

LEMMA RestShape == AtRest \in Resolving /\ AtRest.at = "idle"
BY TunnelAssumption, GoingShape DEF AtRest

LEMMA UseShape == ASSUME NEW n \in 0..MaxTunnels PROVE Use(n) \in Resolving /\ Use(n).at = "use"
BY TunnelAssumption, GoingShape DEF Use

LEMMA TunnelInitInv == TunnelInit => TunnelInv
<1> SUFFICES ASSUME TunnelInit PROVE TunnelInv
  OBVIOUS
<1>1. Keepers = {} /\ \A t \in Thread : call[t].at = "idle"
  BY RestShape DEF TunnelInit, Keepers
<1>2. Shapes
  BY RestShape, TunnelAssumption DEF TunnelInit, Shapes
<1> QED BY <1>1, <1>2 DEF TunnelInit, TunnelInv, InCache, InKeep, InLook

\* What a new call record of t does to who keeps a tunnel.
LEMMA Recorded ==
  ASSUME TunnelInv, NEW t \in Thread, NEW c, call' = [call EXCEPT ![t] = c]
  PROVE  /\ \A u \in Thread : call'[u] = IF u = t THEN c ELSE call[u]
         /\ Keepers' = (Keepers \ {t}) \cup (IF c.at \in {"again", "spare"} THEN {t} ELSE {})
<1>1. \A u \in Thread : call'[u] = IF u = t THEN c ELSE call[u]
  BY DEF TunnelInv, Shapes
<1> QED BY <1>1 DEF Keepers

\* A call that ends, or goes on without a tunnel of its own.
LEMMA CallMoves ==
  ASSUME TunnelInv, NEW t \in Thread, NEW c \in Resolving, c.at \notin {"again", "spare"},
         c.at = "dial" => c.host \in Host,
         call' = [call EXCEPT ![t] = c],
         UNCHANGED <<cached, dialled, dead, shut, mutex, drop>>
  PROVE  TunnelInv'
<1>1. /\ \A u \in Thread : call'[u] = IF u = t THEN c ELSE call[u]
      /\ Keepers' = Keepers \ {t}
  BY Recorded
<1>2. Shapes'
  BY DEF TunnelInv, Shapes
<1>3. InCache' /\ InKeep' /\ InLook'
  BY <1>1 DEF TunnelInv, InCache, InKeep, InLook
<1> QED BY <1>2, <1>3 DEF TunnelInv

\* Tunnels are taken out of the cache by t, which keeps none.
LEMMA TunnelsTaken ==
  ASSUME TunnelInv, NEW t \in Thread, NEW H \in SUBSET Host, NEW c \in Resolving,
         c.at \notin {"again", "spare"},
         c.at = "dial" => c.host \in Host, drop[t] = {},
         t \notin Keepers,
         cached' = [h \in Host |-> IF h \in H THEN 0 ELSE cached[h]],
         drop' = [drop EXCEPT ![t] = Taken(H)],
         mutex' \in {mutex, {}, {t}},
         call' = [call EXCEPT ![t] = c],
         UNCHANGED <<dialled, dead, shut>>
  PROVE  TunnelInv'
<1>1. /\ \A u \in Thread : call'[u] = IF u = t THEN c ELSE call[u]
      /\ Keepers' = Keepers
  <2>1. /\ \A u \in Thread : call'[u] = IF u = t THEN c ELSE call[u]
        /\ Keepers' = (Keepers \ {t}) \cup (IF c.at \in {"again", "spare"} THEN {t} ELSE {})
    BY Recorded
  <2> QED BY <2>1
<1> DEFINE T == Taken(H)
<1>2. T \in SUBSET (1..dialled)
  BY DEF TunnelInv, Shapes, Taken
<1>3. /\ \A n \in T : \E h \in H : n = cached[h] /\ n # 0
      /\ \A h \in H : cached[h] # 0 => cached[h] \in T
  BY DEF Taken
<1> HIDE DEF T
<1>4. /\ \A u \in Thread : drop'[u] = IF u = t THEN T ELSE drop[u]
      /\ \A h \in Host : cached'[h] = IF h \in H THEN 0 ELSE cached[h]
  BY DEF TunnelInv, Shapes, T
<1>5. Shapes'
  <2>1. drop' \in [Thread -> SUBSET (1..dialled)]
    BY <1>2 DEF TunnelInv, Shapes, T
  <2>2. cached' \in [Host -> 0..dialled]
    BY TunnelAssumption DEF TunnelInv, Shapes
  <2> QED BY <2>1, <2>2 DEF TunnelInv, Shapes
<1>6. InCache'
  <2>1. \A g, j \in Host : cached'[g] # 0 /\ cached'[g] = cached'[j] => g = j
    BY <1>4 DEF TunnelInv, InCache
  <2>2. \A g \in Host : cached'[g] # 0 => cached'[g] \notin shut'
    BY <1>4 DEF TunnelInv, InCache
  <2>3. \A g \in Host, u \in Thread : cached'[g] # 0 => cached'[g] \notin drop'[u]
    BY <1>3, <1>4 DEF TunnelInv, InCache
  <2>4. \A u \in Keepers : call'[u].own = call[u].own /\ call[u].own # 0
    BY <1>1 DEF TunnelInv, InKeep, Keepers
  <2>5. \A g \in Host, u \in Keepers' : cached'[g] # call'[u].own
    BY <1>1, <1>4, <2>4 DEF TunnelInv, InCache
  <2> QED BY <2>1, <2>2, <2>3, <2>5 DEF InCache
<1>7. InKeep'
  BY <1>1, <1>3, <1>4 DEF TunnelInv, InCache, InKeep
<1>8. InLook'
  BY <1>1 DEF TunnelInv, InLook
<1> QED BY <1>5, <1>6, <1>7, <1>8 DEF TunnelInv

LEMMA TunnelDialled ==
  ASSUME TunnelInv, NEW t \in Thread, Dial(t)
  PROVE  TunnelInv'
<1> DEFINE n == dialled + 1
           c == Going("again", call[t].host, n, 0)
<1>1. /\ call[t].at = "dial" /\ dialled < MaxTunnels /\ dialled' = n
      /\ call' = [call EXCEPT ![t] = c]
      /\ UNCHANGED <<cached, dead, shut, mutex, drop>>
  BY DEF Dial, TunnelInv, Shapes
<1>2. n \in 1..MaxTunnels /\ dialled \in Nat /\ MaxTunnels \in Nat /\ call[t].host \in Host
  BY <1>1, TunnelAssumption DEF TunnelInv, Shapes, InLook
<1>3. c \in Resolving /\ c.at = "again" /\ c.host \in Host /\ c.own = n
  <2>1. n \in 0..MaxTunnels /\ 0 \in 0..MaxTunnels
    BY <1>2
  <2> HIDE DEF n
  <2> QED BY <1>2, <2>1, GoingShape
<1>4. /\ \A h \in Host : cached[h] # n
      /\ n \notin shut /\ \A u \in Thread : n \notin drop[u]
      /\ \A u \in Keepers : call[u].own # n
      /\ 1..dialled \subseteq 1..n /\ 0..dialled \subseteq 0..n /\ n \in 1..n
  BY <1>2 DEF TunnelInv, Shapes, InKeep
<1> HIDE DEF n, c
<1>5. /\ \A u \in Thread : call'[u] = IF u = t THEN c ELSE call[u]
      /\ Keepers' = Keepers \cup {t} /\ Keepers \subseteq Thread
  BY <1>1, <1>3, Recorded DEF Keepers
<1>6. Shapes'
  <2>1. call' \in [Thread -> Resolving] /\ n \in 0..MaxTunnels
    BY <1>1, <1>2, <1>3 DEF TunnelInv, Shapes
  <2> QED BY <1>1, <1>4, <2>1 DEF TunnelInv, Shapes
<1>7. InCache'
  BY <1>1, <1>3, <1>4, <1>5 DEF TunnelInv, InCache
<1>8. InKeep'
  BY <1>1, <1>3, <1>4, <1>5 DEF TunnelInv, InKeep
<1>9. InLook'
  BY <1>3, <1>5 DEF TunnelInv, InLook
<1> QED BY <1>6, <1>7, <1>8, <1>9 DEF TunnelInv

LEMMA TunnelLooked ==
  ASSUME TunnelInv, NEW t \in Thread, SecondLookHit(t)
  PROVE  TunnelInv'
<1> DEFINE n == cached[call[t].host]
           c == Going("spare", 0, call[t].own, n)
<1>1. /\ call[t].at = "again" /\ t \in Keepers /\ call[t].host \in Host
      /\ call' = [call EXCEPT ![t] = c]
      /\ UNCHANGED <<cached, dialled, dead, shut, mutex, drop>>
  BY DEF SecondLookHit, TunnelInv, InLook, Keepers
<1>2. /\ n \in 0..MaxTunnels /\ call[t].own \in 0..MaxTunnels
  BY <1>1, TunnelAssumption DEF TunnelInv, Shapes, InKeep
<1> HIDE DEF n
<1>3. c \in Resolving /\ c.at = "spare" /\ c.own = call[t].own
  <2> DEFINE o == call[t].own
  <2>1. o \in 0..MaxTunnels
    BY <1>2
  <2> HIDE DEF o
  <2>2. \A h \in Host \cup {0} :
           /\ Going("spare", h, o, n) \in Resolving
           /\ Going("spare", h, o, n).at = "spare" /\ Going("spare", h, o, n).own = o
    BY <1>2, <2>1, GoingShape
  <2>3. /\ Going("spare", 0, o, n) \in Resolving
        /\ Going("spare", 0, o, n).at = "spare" /\ Going("spare", 0, o, n).own = o
    BY <2>2
  <2> QED BY <2>3 DEF o
<1> HIDE DEF c
<1>4. /\ \A u \in Thread : call'[u] = IF u = t THEN c ELSE call[u]
      /\ Keepers' = Keepers /\ Keepers \subseteq Thread
  BY <1>1, <1>3, Recorded DEF Keepers
<1>5. \A u \in Keepers : call'[u].own = call[u].own
  BY <1>3, <1>4
<1>6. Shapes'
  BY <1>1, <1>3 DEF TunnelInv, Shapes
<1>7. InCache' /\ InKeep'
  BY <1>1, <1>4, <1>5 DEF TunnelInv, InCache, InKeep
<1>8. InLook'
  BY <1>3, <1>4 DEF TunnelInv, InLook
<1> QED BY <1>6, <1>7, <1>8 DEF TunnelInv

LEMMA TunnelSpared ==
  ASSUME TunnelInv, NEW t \in Thread, CloseSpare(t)
  PROVE  TunnelInv'
<1> DEFINE n == call[t].own
           c == Use(call[t].tunnel)
<1>1. /\ t \in Keepers /\ shut' = shut \cup {n} /\ dead' = dead \ {n}
      /\ call' = [call EXCEPT ![t] = c]
      /\ UNCHANGED <<cached, dialled, mutex, drop>>
  BY DEF CloseSpare, Spared, Keepers
<1>2. call[t].tunnel \in 0..MaxTunnels /\ n \in 1..dialled
  BY <1>1 DEF TunnelInv, Shapes, InKeep, Resolving
<1>3. c \in Resolving /\ c.at = "use"
  BY <1>2, UseShape
<1> HIDE DEF c
<1>4. /\ \A u \in Thread : call'[u] = IF u = t THEN c ELSE call[u]
      /\ Keepers' = Keepers \ {t} /\ Keepers \subseteq Thread
  BY <1>1, <1>3, Recorded DEF Keepers
<1>5. \A u \in Keepers' : call[u].own # n /\ \A h \in Host : cached[h] # n
  BY <1>1, <1>4 DEF TunnelInv, InCache, InKeep
<1>6. \A h \in Host : cached[h] # n
  BY <1>1 DEF TunnelInv, InCache
<1> HIDE DEF n
<1>7. Shapes'
  BY <1>1, <1>2, <1>3 DEF TunnelInv, Shapes
<1>8. InCache' /\ InKeep'
  BY <1>1, <1>4, <1>5, <1>6 DEF TunnelInv, InCache, InKeep
<1>9. InLook'
  BY <1>3, <1>4 DEF TunnelInv, InLook
<1> QED BY <1>7, <1>8, <1>9 DEF TunnelInv

LEMMA TunnelStored ==
  ASSUME TunnelInv, NEW t \in Thread, SecondLookMiss(t)
  PROVE  TunnelInv'
<1> DEFINE n == call[t].own
           h == call[t].host
           c == Use(n)
           T == Taken({h})
<1>1. /\ call[t].at = "again" /\ t \in Keepers /\ drop[t] = {}
      /\ cached' = [cached EXCEPT ![h] = n]
      /\ drop' = [drop EXCEPT ![t] = T]
      /\ mutex' \in {{}, {t}}
      /\ call' = [call EXCEPT ![t] = c]
      /\ UNCHANGED <<dialled, dead, shut>>
  BY DEF SecondLookMiss, Ready, Keepers
<1>2. /\ n \in 1..dialled /\ n \notin shut /\ h \in Host /\ n # 0 /\ n \in 0..MaxTunnels
      /\ \A u \in Thread : n \notin drop[u]
      /\ \A u \in Keepers \ {t} : call[u].own # n
      /\ \A g \in Host : cached[g] # n
  BY <1>1, TunnelAssumption DEF TunnelInv, InCache, InKeep, InLook, Shapes
<1>3. c \in Resolving /\ c.at = "use"
  BY <1>2, UseShape
<1> HIDE DEF c
<1>4. /\ \A u \in Thread : call'[u] = IF u = t THEN c ELSE call[u]
      /\ Keepers' = Keepers \ {t} /\ Keepers \subseteq Thread
  BY <1>1, <1>3, Recorded DEF Keepers
<1>5. T \subseteq 1..dialled /\ \A m \in T : m = cached[h] /\ m # 0
  BY <1>2 DEF TunnelInv, Shapes, Taken
<1> HIDE DEF n, h, T
<1>6. /\ \A g \in Host : cached'[g] = IF g = h THEN n ELSE cached[g]
      /\ \A u \in Thread : drop'[u] = IF u = t THEN T ELSE drop[u]
  BY <1>1 DEF TunnelInv, Shapes
<1>7. Shapes'
  <2>1. drop' \in [Thread -> SUBSET (1..dialled)]
    BY <1>1, <1>5 DEF TunnelInv, Shapes
  <2>2. cached' \in [Host -> 0..dialled]
    BY <1>1, <1>2 DEF TunnelInv, Shapes
  <2>3. call' \in [Thread -> Resolving]
    BY <1>1, <1>3 DEF TunnelInv, Shapes
  <2>4. mutex' \in SUBSET Thread /\ \A u, w \in mutex' : u = w
    BY <1>1
  <2> QED BY <1>1, <2>1, <2>2, <2>3, <2>4 DEF TunnelInv, Shapes
<1>8. InCache'
  <2>1. \A g, j \in Host : cached'[g] # 0 /\ cached'[g] = cached'[j] => g = j
    BY <1>2, <1>6 DEF TunnelInv, InCache
  <2>2. \A g \in Host : cached'[g] # 0 => cached'[g] \notin shut'
    BY <1>1, <1>2, <1>6 DEF TunnelInv, InCache
  <2>3. \A g \in Host, u \in Thread : cached'[g] # 0 => cached'[g] \notin drop'[u]
    BY <1>2, <1>5, <1>6 DEF TunnelInv, InCache
  <2>4. \A g \in Host, u \in Keepers' : cached'[g] # call'[u].own
    BY <1>2, <1>4, <1>6 DEF TunnelInv, InCache
  <2> QED BY <2>1, <2>2, <2>3, <2>4 DEF InCache
<1>9. InKeep'
  <2>1. \A u \in Keepers', w \in Thread : call'[u].own \notin drop'[w]
    BY <1>2, <1>4, <1>5, <1>6 DEF TunnelInv, InCache, InKeep
  <2> QED BY <1>1, <1>4, <2>1 DEF TunnelInv, InKeep
<1>10. InLook'
  BY <1>3, <1>4 DEF TunnelInv, InLook
<1> QED BY <1>7, <1>8, <1>9, <1>10 DEF TunnelInv

\* A tunnel that is to be dropped is closed, and then flushed.
LEMMA TunnelClosed ==
  ASSUME TunnelInv, NEW t \in Thread, NEW n \in Tunnel, CloseTunnel(t, n) \/ Flush(t, n)
  PROVE  TunnelInv'
<1>1. CASE CloseTunnel(t, n)
  <2>1. /\ n \in drop[t] /\ shut' = shut \cup {n} /\ dead' = dead \ {n}
        /\ UNCHANGED <<cached, dialled, mutex, call, drop, Keepers>>
    BY <1>1 DEF CloseTunnel, Keepers
  <2>2. Shapes' /\ InLook'
    BY <2>1 DEF TunnelInv, Shapes, InLook
  <2>3. InCache'
    BY <2>1 DEF TunnelInv, InCache
  <2>4. InKeep'
    BY <2>1 DEF TunnelInv, InKeep
  <2> QED BY <2>2, <2>3, <2>4 DEF TunnelInv
<1>2. CASE Flush(t, n)
  <2>1. /\ drop' = [drop EXCEPT ![t] = @ \ {n}]
        /\ UNCHANGED <<cached, dialled, dead, shut, mutex, call, Keepers>>
    BY <1>2 DEF Flush, Keepers
  <2>2. Shapes' /\ InLook'
    BY <2>1 DEF TunnelInv, Shapes, InLook
  <2>3. \A u \in Thread : drop'[u] \subseteq drop[u]
    BY <2>1 DEF TunnelInv, Shapes
  <2>4. InCache' /\ InKeep'
    BY <2>1, <2>3 DEF TunnelInv, InCache, InKeep, Keepers
  <2> QED BY <2>2, <2>4 DEF TunnelInv
<1> QED BY <1>1, <1>2

LEMMA TunnelNextKeeps == TunnelInv /\ [TunnelNext]_vars => TunnelInv'
<1> SUFFICES ASSUME TunnelInv, [TunnelNext]_vars PROVE TunnelInv'
  OBVIOUS
<1> USE DEF Ready, Calm
<1>1. ASSUME UNCHANGED <<cached, dialled, shut, call, drop, Keepers>>,
             \/ UNCHANGED <<mutex, dead>>
             \/ dead' \in SUBSET (1..dialled) /\ mutex' = mutex
             \/ mutex' \subseteq mutex /\ dead' = dead
      PROVE  TunnelInv'
  BY <1>1 DEF TunnelInv, Shapes, InCache, InKeep, InLook
<1>2. ASSUME UNCHANGED tunnelVars PROVE TunnelInv'
  BY <1>1, <1>2 DEF tunnelVars, Keepers
<1>3. ASSUME NEW n \in Tunnel, Break(n) PROVE TunnelInv'
  <2>1. n \in 1..dialled
    BY <1>3, TunnelAssumption DEF Break, Owned, TunnelInv, Shapes, InKeep, Keepers, Tunnel
  <2> QED BY <1>1, <1>3, <2>1 DEF Break, Keepers, TunnelInv, Shapes
<1>4. ASSUME NEW t \in Thread, Unlock(t) PROVE TunnelInv'
  BY <1>1, <1>4 DEF Unlock, Unlocked, Keepers
<1>5. ASSUME NEW t \in Thread,
             \/ DialFails(t) \/ RewriteFails(t) \/ InvalidateConns(t)
             \/ \E k \in Key : OpenBehind(t, k)
      PROVE  TunnelInv'
  <2>1. /\ call' = [call EXCEPT ![t] = AtRest]
        /\ UNCHANGED <<cached, dialled, dead, shut, mutex, drop>>
    BY <1>5 DEF DialFails, RewriteFails, InvalidateConns, OpenBehind
  <2> QED BY <2>1, RestShape, CallMoves
<1>6. ASSUME NEW t \in Thread, NEW h \in Host, LookHit(t, h) PROVE TunnelInv'
  <2> DEFINE n == cached[h]
             c == Use(n)
  <2>1. /\ call' = [call EXCEPT ![t] = c]
        /\ UNCHANGED <<cached, dialled, dead, shut, mutex, drop>>
    BY <1>6 DEF LookHit
  <2>2. n \in 0..MaxTunnels
    BY TunnelAssumption DEF TunnelInv, Shapes
  <2> HIDE DEF n
  <2>3. c \in Resolving /\ c.at = "use"
    BY <2>2, UseShape
  <2> HIDE DEF c
  <2> QED BY <2>1, <2>3, CallMoves
<1>7. ASSUME NEW h \in Host
      PROVE  [cached EXCEPT ![h] = 0] = [g \in Host |-> IF g \in {h} THEN 0 ELSE cached[g]]
  BY DEF TunnelInv, Shapes
<1>8. ASSUME NEW t \in Thread, NEW h \in Host, LookMiss(t, h) PROVE TunnelInv'
  <2> DEFINE c == Going("dial", h, 0, 0)
             H == {h}
  <2>1. /\ call' = [call EXCEPT ![t] = c]
        /\ drop[t] = {} /\ t \notin Keepers
        /\ cached' = [g \in Host |-> IF g \in H THEN 0 ELSE cached[g]]
        /\ drop' = [drop EXCEPT ![t] = Taken(H)]
        /\ mutex' \in {mutex, {}, {t}}
        /\ UNCHANGED <<dialled, dead, shut>>
    BY <1>7, <1>8 DEF LookMiss, Keepers
  <2>2. 0 \in 0..MaxTunnels /\ h \in Host \cup {0}
    BY TunnelAssumption
  <2>3. c \in Resolving /\ c.at = "dial" /\ c.host = h
    BY <2>2, GoingShape
  <2>4. H \in SUBSET Host
    OBVIOUS
  <2> HIDE DEF c, H
  <2> QED BY <2>1, <2>3, <2>4, TunnelsTaken
<1>9. ASSUME NEW t \in Thread, NEW h \in Host, ExpireTunnel(t, h) PROVE TunnelInv'
  <2> DEFINE c == call[t]
             H == {h}
  <2>1. /\ c \in Resolving /\ c.at = "idle"
        /\ call' = [call EXCEPT ![t] = c]
        /\ drop[t] = {} /\ t \notin Keepers
        /\ cached' = [g \in Host |-> IF g \in H THEN 0 ELSE cached[g]]
        /\ drop' = [drop EXCEPT ![t] = Taken(H)]
        /\ mutex' \in {mutex, {}, {t}}
        /\ UNCHANGED <<dialled, dead, shut>>
    BY <1>7, <1>9 DEF ExpireTunnel, Keepers, TunnelInv, Shapes
  <2>2. H \in SUBSET Host
    OBVIOUS
  <2> HIDE DEF c, H
  <2> QED BY <2>1, <2>2, TunnelsTaken
<1>10. ASSUME NEW t \in Thread, CloseWorkspaceTunnels(t) PROVE TunnelInv'
  <2> DEFINE c == Going("conns", 0, 0, 0)
  <2>1. /\ call' = [call EXCEPT ![t] = c]
        /\ drop[t] = {} /\ t \notin Keepers
        /\ cached' = [g \in Host |-> IF g \in Host THEN 0 ELSE cached[g]]
        /\ drop' = [drop EXCEPT ![t] = Taken(Host)]
        /\ mutex' \in {mutex, {}, {t}}
        /\ UNCHANGED <<dialled, dead, shut>>
    BY <1>10 DEF CloseWorkspaceTunnels, Keepers
  <2>2. 0 \in 0..MaxTunnels /\ 0 \in Host \cup {0}
    BY TunnelAssumption
  <2>3. c \in Resolving /\ c.at = "conns"
    BY <2>2, GoingShape
  <2> HIDE DEF c
  <2> QED BY <2>1, <2>3, TunnelsTaken
<1>11. ASSUME NEW t \in Thread, GoOn(t) PROVE TunnelInv'
  BY <1>4, <1>5, <1>11, TunnelDialled, TunnelLooked, TunnelSpared, TunnelStored, TunnelClosed
     DEF GoOn, SecondLook
<1>12. ASSUME NEW t \in Thread, NEW k \in Key, OpenDirect(t, k) PROVE TunnelInv'
  BY <1>2, <1>12 DEF OpenDirect
<1> QED BY <1>2, <1>3, <1>6, <1>8, <1>9, <1>10, <1>11, <1>12 DEF TunnelNext, vars

\* Every reachable state has the tunnels' invariant: none is in two places, and none
\* that is closed, or owed a close, is in the cache or with a caller.
THEOREM TunnelCacheInv == TunnelSafety => []TunnelInv
<1> QED BY TunnelInitInv, TunnelNextKeeps, PTL DEF TunnelSafety

-----------------------------------------------------------------------------
(* The pools behind the tunnels.                                           *)

LEMMA TunnelStepIsConnStep == [TunnelNext]_vars => [ConnNext]_connCacheVars
<1> SUFFICES ASSUME TunnelNext PROVE ConnNext \/ UNCHANGED connCacheVars
  BY DEF vars
<1>1. CASE PoolStep
  BY <1>1 DEF PoolStep, ConnWork, ConnFinish, ConnNext
<1>2. ASSUME NEW t \in Thread, NEW k \in Key, OpenDirect(t, k) \/ OpenBehind(t, k) PROVE ConnNext
  BY <1>2 DEF OpenDirect, OpenBehind, ConnNext
<1>3. ASSUME NEW t \in Thread, NEW n \in Tunnel, Flush(t, n) PROVE ConnNext
  <2>1. Behind(n) \in SUBSET Key
    BY DEF Behind
  <2> QED BY <1>3, <2>1 DEF Flush, ConnNext
<1>4. ASSUME NEW t \in Thread, InvalidateConns(t) PROVE ConnNext
  BY <1>4 DEF InvalidateConns, ConnNext
<1>5. ASSUME NEW t \in Thread, NEW h \in Host, LookHit(t, h) \/ LookMiss(t, h) \/ ExpireTunnel(t, h)
      PROVE  UNCHANGED connCacheVars
  BY <1>5 DEF LookHit, LookMiss, ExpireTunnel
<1>6. ASSUME NEW t \in Thread,
             \/ Dial(t) \/ DialFails(t) \/ SecondLook(t) \/ CloseSpare(t) \/ RewriteFails(t)
             \/ Unlock(t) \/ CloseWorkspaceTunnels(t) \/ \E n \in Tunnel : CloseTunnel(t, n)
      PROVE  UNCHANGED connCacheVars
  BY <1>6 DEF Dial, DialFails, SecondLook, SecondLookHit, SecondLookMiss, CloseSpare,
     RewriteFails, Unlock, CloseWorkspaceTunnels, CloseTunnel
<1>7. ASSUME NEW n \in Tunnel, Break(n) PROVE UNCHANGED connCacheVars
  BY <1>7 DEF Break
<1> QED BY <1>1, <1>2, <1>3, <1>4, <1>5, <1>6, <1>7 DEF TunnelNext, GoOn

\* Whatever the tunnels do, the pools behave as those of ConnCache: what is proved of
\* ConnSafety holds with the tunnels in front.
THEOREM TunnelImplementsConn == TunnelSafety => ConnSafety
<1>1. TunnelInit => ConnInit
  BY DEF TunnelInit
<1> QED BY <1>1, TunnelStepIsConnStep, PTL DEF TunnelSafety, ConnSafety

\* So no pool leaks and none is closed twice behind a tunnel either, where a dead
\* tunnel and a deleted workspace flush pools too (DeleteConnsByAddr).
THEOREM TunnelPoolsAccounted == TunnelSafety => []PoolsAccounted
<1> QED BY TunnelImplementsConn, ConnCachePoolsAccounted, PTL

\* The shape of the index and of the walks over it.
IndexShape == indexed \in SUBSET Key /\ walk \in [Thread -> SUBSET Key]

LEMMA IndexShapeKept == ConnIInv /\ IndexShape /\ [ConnNext]_connCacheVars => IndexShape'
<1> SUFFICES ASSUME ConnIInv, IndexShape, [ConnNext]_connCacheVars PROVE IndexShape'
  OBVIOUS
<1> USE DEF IndexShape
<1>1. CASE UNCHANGED <<indexed, walk>>
  BY <1>1
<1>2. ASSUME NEW t \in Thread, OpenPool(t) PROVE IndexShape'
  BY <1>2 DEF OpenPool, ConnIInv, IInv, PlainInv
<1>3. ASSUME NEW t \in Thread, RunOnDelete(t) PROVE IndexShape'
  BY <1>3 DEF RunOnDelete, CloseDeletedPool
<1>4. ASSUME NEW t \in Thread, NEW K \in SUBSET Key, FindConns(t, K) PROVE IndexShape'
  BY <1>4 DEF FindConns
<1>5. ASSUME NEW t \in Thread, NEW k \in Key, DeleteFound(t, k) PROVE IndexShape'
  BY <1>5 DEF DeleteFound
<1> QED BY <1>1, <1>2, <1>3, <1>4, <1>5 DEF ConnNext, connCacheVars, connVars, Age, ClosePool,
    GetOrOpen, StorePool, OpenFails, EndGetOrOpen, GC, CloseWorkspaceConns

\* Every variable of the connection cache and of the tunnels has its shape, and one
\* goroutine at most holds tunnelCacheMu.
THEOREM TunnelCacheTypeOK == TunnelSafety => []TunnelTypeOK
<1>1. ConnInit => IndexShape
  BY DEF ConnInit, IndexShape
<1>2. ConnSafety => []IndexShape
  BY <1>1, IndexShapeKept, ConnCacheIInv, PTL DEF ConnSafety
<1>3. ConnIInv /\ IndexShape => ConnTypeOK
  <2> SUFFICES ASSUME ConnIInv, IndexShape PROVE ConnTypeOK
    OBVIOUS
  <2>1. closing \cup closed \subseteq opened
    BY Accounted DEF PoolsAccounted
  <2>2. opened \subseteq Nat
    BY DEF ConnIInv, PoolInv, IInv, PlainInv
  <2> QED BY <2>1, <2>2 DEF ConnTypeOK, IndexShape
<1>4. TunnelInit => gone \in BOOLEAN
  BY DEF TunnelInit
<1>5. gone \in BOOLEAN /\ [TunnelNext]_vars => (gone \in BOOLEAN)'
  <2> SUFFICES ASSUME gone \in BOOLEAN, [TunnelNext]_vars PROVE gone' \in BOOLEAN
    OBVIOUS
  <2>1. gone' = gone \/ gone' = TRUE
    BY DEF TunnelNext, vars, tunnelVars, Break, LookHit, LookMiss, ExpireTunnel, OpenDirect,
       GoOn, CloseWorkspaceTunnels, Dial, DialFails, SecondLook, SecondLookHit,
       SecondLookMiss, CloseSpare, OpenBehind, RewriteFails, CloseTunnel, Flush, Unlock,
       InvalidateConns, Zenon
  <2> QED BY <2>1, Zenon
<1>6. ConnTypeOK /\ TunnelInv /\ gone \in BOOLEAN => TunnelTypeOK
  BY DEF TunnelInv, Shapes, TunnelTypeOK
<1> QED BY <1>2, <1>3, <1>4, <1>5, <1>6, ConnCacheIInv, TunnelImplementsConn, TunnelCacheInv, PTL
    DEF TunnelSafety

-----------------------------------------------------------------------------
(* The tunnels' lives.                                                     *)

\* The tunnels that serve: those in the cache, and those to be looked for again.
Serves == {n \in Tunnel : Owned(n)}

TunnelLives ==
  [n \in Tunnel |->
    IF n > dialled THEN "new"
    ELSE IF n \in shut THEN "closed"
    ELSE IF Owned(n) THEN "serving" ELSE "draining"]

LEMMA LivesAt ==
  /\ \A n \in Tunnel : TunnelLives[n] = IF n > dialled THEN "new"
                                        ELSE IF n \in shut THEN "closed"
                                        ELSE IF n \in Serves THEN "serving" ELSE "draining"
  /\ TunnelLives = [n \in Tunnel |-> TunnelLives[n]]
BY DEF TunnelLives, Serves

LEMMA LivesAtNext ==
  /\ \A n \in Tunnel : TunnelLives'[n] = IF n > dialled' THEN "new"
                                         ELSE IF n \in shut' THEN "closed"
                                         ELSE IF n \in Serves' THEN "serving" ELSE "draining"
  /\ TunnelLives' = [n \in Tunnel |-> TunnelLives'[n]]
BY DEF TunnelLives, Serves

\* One that serves is dialled and open.
LEMMA ServesOpen == TunnelInv => \A n \in Serves : n \in 1..dialled /\ n \notin shut
BY DEF TunnelInv, Shapes, InCache, InKeep, Serves, Owned, Keepers, Tunnel

\* A step that dials and closes none drops those that stop serving.
LEMMA TunnelDrops ==
  ASSUME TunnelInv, dialled' = dialled, shut' = shut, Serves' \subseteq Serves
  PROVE  TunnelLife!Next \/ TunnelLives' = TunnelLives
<1> DEFINE P == Serves \ Serves'
<1>1. P \in SUBSET Tunnel /\ \A n \in P : TunnelLives[n] = "serving"
  BY LivesAt, ServesOpen, TunnelAssumption DEF Serves, TunnelInv, Shapes, Tunnel
<1>2. \A n \in Tunnel : TunnelLives'[n] = IF n \in P THEN "draining" ELSE TunnelLives[n]
  <2>1. \A n \in P : ~ (n > dialled) /\ n \notin shut
    BY ServesOpen, TunnelAssumption DEF TunnelInv, Shapes
  <2> QED BY <2>1, LivesAt, LivesAtNext
<1> HIDE DEF P
<1>3. TunnelLives' = [n \in Tunnel |-> IF n \in P THEN "draining" ELSE TunnelLives[n]]
  BY <1>2, LivesAtNext
<1>4. CASE P = {}
  BY <1>3, <1>4, LivesAt
<1>5. CASE P # {}
  BY <1>1, <1>3, <1>5 DEF TunnelLife!Next, TunnelLife!Drop, TunnelLives
<1> QED BY <1>4, <1>5

\* A step that closes one that does not serve.
LEMMA TunnelCloses ==
  ASSUME TunnelInv, NEW n \in 1..dialled, n \notin shut, n \notin Serves,
         shut' = shut \cup {n}, dialled' = dialled, Serves' = Serves
  PROVE  TunnelLife!Next
<1>1. n \in Tunnel /\ ~ (n > dialled)
  BY TunnelAssumption DEF TunnelInv, Shapes, Tunnel
<1>2. TunnelLives[n] = "draining"
  BY <1>1, LivesAt
<1>3. \A m \in Tunnel : TunnelLives'[m] = IF m = n THEN "closed" ELSE TunnelLives[m]
  BY <1>1, LivesAt, LivesAtNext
<1>4. TunnelLives' = [TunnelLives EXCEPT ![n] = "closed"]
  BY <1>3, LivesAt, LivesAtNext
<1> QED BY <1>1, <1>2, <1>4 DEF TunnelLife!Next, TunnelLife!Close, TunnelLives

\* The tunnel t has dialled and not looked again for serves, if there is one.
LEMMA ServesMoves ==
  ASSUME TunnelInv, NEW t \in Thread, NEW c, c.at # "again", call' = [call EXCEPT ![t] = c],
         \A h \in Host : cached'[h] \in {0, cached[h]} \/ (call[t].at = "again" /\ cached'[h] = call[t].own)
  PROVE  Serves' \subseteq Serves
<1>1. \A u \in Thread : call'[u] = IF u = t THEN c ELSE call[u]
  BY DEF TunnelInv, Shapes
<1>2. 0 \notin Tunnel
  BY TunnelAssumption DEF Tunnel
<1> QED BY <1>1, <1>2 DEF Serves, Owned

LEMMA TunnelStepLives ==
  ASSUME TunnelInv, [TunnelNext]_vars
  PROVE  TunnelLife!Next \/ TunnelLives' = TunnelLives
<1>1. ASSUME UNCHANGED <<cached, call>> PROVE Serves' = Serves
  BY <1>1 DEF Serves, Owned
<1>2. ASSUME UNCHANGED <<cached, call, dialled, shut>> PROVE TunnelLives' = TunnelLives
  BY <1>1, <1>2, LivesAt, LivesAtNext
<1>3. ASSUME UNCHANGED tunnelVars \/ \E n \in Tunnel : Break(n) PROVE TunnelLives' = TunnelLives
  BY <1>2, <1>3 DEF tunnelVars, Break
<1>4. ASSUME NEW t \in Thread, Unlock(t) \/ \E n \in Tunnel : Flush(t, n)
      PROVE  TunnelLives' = TunnelLives
  BY <1>2, <1>4 DEF Unlock, Flush
<1>5. ASSUME NEW t \in Thread,
             \/ DialFails(t) \/ RewriteFails(t) \/ InvalidateConns(t)
             \/ \E k \in Key : OpenBehind(t, k)
      PROVE  TunnelLife!Next \/ TunnelLives' = TunnelLives
  <2>1. call' = [call EXCEPT ![t] = AtRest] /\ UNCHANGED <<cached, dialled, shut>>
    BY <1>5 DEF DialFails, RewriteFails, InvalidateConns, OpenBehind
  <2> QED BY <2>1, RestShape, ServesMoves, TunnelDrops
<1>6. ASSUME NEW t \in Thread, NEW h \in Host, LookHit(t, h)
      PROVE  TunnelLife!Next \/ TunnelLives' = TunnelLives
  <2>1. call' = [call EXCEPT ![t] = Use(cached[h])] /\ UNCHANGED <<cached, dialled, shut>>
    BY <1>6 DEF LookHit
  <2>2. Use(cached[h]).at = "use"
    BY DEF Use, Going
  <2> QED BY <2>1, <2>2, ServesMoves, TunnelDrops
<1>7. ASSUME NEW t \in Thread, NEW h \in Host, LookMiss(t, h)
      PROVE  TunnelLife!Next \/ TunnelLives' = TunnelLives
  <2> DEFINE c == Going("dial", h, 0, 0)
  <2>1. /\ call' = [call EXCEPT ![t] = c] /\ UNCHANGED <<dialled, shut>>
        /\ \A g \in Host : cached'[g] \in {0, cached[g]}
    BY <1>7 DEF LookMiss, TunnelInv, Shapes
  <2>2. c.at = "dial"
    BY DEF Going
  <2> HIDE DEF c
  <2> QED BY <2>1, <2>2, ServesMoves, TunnelDrops
<1>8. ASSUME NEW t \in Thread, NEW h \in Host, ExpireTunnel(t, h)
      PROVE  TunnelLife!Next \/ TunnelLives' = TunnelLives
  <2>1. /\ call' = call /\ UNCHANGED <<dialled, shut>>
        /\ \A g \in Host : cached'[g] \in {0, cached[g]}
    BY <1>8 DEF ExpireTunnel, TunnelInv, Shapes
  <2>2. Serves' \subseteq Serves
    BY <2>1, TunnelAssumption DEF Serves, Owned, Tunnel
  <2> QED BY <2>1, <2>2, TunnelDrops
<1>9. ASSUME NEW t \in Thread, CloseWorkspaceTunnels(t)
      PROVE  TunnelLife!Next \/ TunnelLives' = TunnelLives
  <2> DEFINE c == Going("conns", 0, 0, 0)
  <2>1. /\ call' = [call EXCEPT ![t] = c] /\ UNCHANGED <<dialled, shut>>
        /\ \A g \in Host : cached'[g] \in {0, cached[g]}
    BY <1>9 DEF CloseWorkspaceTunnels
  <2>2. c.at = "conns"
    BY DEF Going
  <2> HIDE DEF c
  <2> QED BY <2>1, <2>2, ServesMoves, TunnelDrops
<1>10. ASSUME NEW t \in Thread, SecondLook(t)
       PROVE  TunnelLife!Next \/ TunnelLives' = TunnelLives
  <2>1. CASE SecondLookHit(t)
    <3> DEFINE c == Going("spare", 0, call[t].own, cached[call[t].host])
    <3>1. call' = [call EXCEPT ![t] = c] /\ UNCHANGED <<cached, dialled, shut>>
      BY <2>1 DEF SecondLookHit
    <3>2. c.at = "spare"
      BY DEF Going
    <3> HIDE DEF c
    <3> QED BY <3>1, <3>2, ServesMoves, TunnelDrops
  <2>2. CASE SecondLookMiss(t)
    <3> DEFINE c == Use(call[t].own)
    <3>1. /\ call[t].at = "again" /\ call' = [call EXCEPT ![t] = c] /\ UNCHANGED <<dialled, shut>>
          /\ \A g \in Host : cached'[g] \in {cached[g], call[t].own}
      BY <2>2 DEF SecondLookMiss, TunnelInv, Shapes
    <3>2. c.at = "use"
      BY DEF Use, Going
    <3> HIDE DEF c
    <3> QED BY <3>1, <3>2, ServesMoves, TunnelDrops
  <2> QED BY <1>10, <2>1, <2>2 DEF SecondLook
<1>11. ASSUME NEW t \in Thread, CloseSpare(t)
       PROVE  TunnelLife!Next
  <2> DEFINE n == call[t].own
             c == Use(call[t].tunnel)
  <2>1. /\ t \in Keepers /\ call[t].at = "spare" /\ shut' = shut \cup {n}
        /\ call' = [call EXCEPT ![t] = c] /\ UNCHANGED <<cached, dialled>>
    BY <1>11 DEF CloseSpare, Spared, Keepers
  <2>2. n \in 1..dialled /\ n \notin shut /\ n \notin Serves
    BY <2>1 DEF TunnelInv, InCache, InKeep, Serves, Owned, Keepers
  <2>3. c.at = "use"
    BY DEF Use, Going
  <2> HIDE DEF n, c
  <2>4. \A u \in Thread : call'[u] = IF u = t THEN c ELSE call[u]
    BY <2>1 DEF TunnelInv, Shapes
  <2>5. Serves' = Serves
    BY <2>1, <2>3, <2>4 DEF Serves, Owned
  <2> QED BY <2>1, <2>2, <2>5, TunnelCloses
<1>12. ASSUME NEW t \in Thread, NEW n \in Tunnel, CloseTunnel(t, n)
       PROVE  TunnelLife!Next
  <2>1. n \in drop[t] /\ n \notin shut /\ shut' = shut \cup {n} /\ UNCHANGED <<cached, dialled, call>>
    BY <1>12 DEF CloseTunnel
  <2>2. n \in 1..dialled
    BY <2>1 DEF TunnelInv, Shapes
  <2>3. n \notin Serves
    BY <2>1, TunnelAssumption DEF TunnelInv, InCache, InKeep, Serves, Owned, Keepers, Tunnel
  <2> QED BY <1>1, <2>1, <2>2, <2>3, TunnelCloses
<1>13. ASSUME NEW t \in Thread, Dial(t)
       PROVE  TunnelLife!Next
  <2> DEFINE n == dialled + 1
             c == Going("again", call[t].host, n, 0)
  <2>1. /\ call[t].at = "dial" /\ dialled < MaxTunnels /\ dialled' = n
        /\ call' = [call EXCEPT ![t] = c] /\ UNCHANGED <<cached, shut>>
    BY <1>13 DEF Dial, TunnelInv, Shapes
  <2>2. /\ n \in Tunnel /\ n > dialled /\ n \notin shut /\ ~ (n > n)
        /\ \A m \in Tunnel : m # n => (m > n <=> m > dialled)
    BY <2>1, TunnelAssumption DEF TunnelInv, Shapes, Tunnel
  <2>3. c.at = "again" /\ c.own = n
    BY DEF Going
  <2> HIDE DEF n, c
  <2>4. \A u \in Thread : call'[u] = IF u = t THEN c ELSE call[u]
    BY <2>1 DEF TunnelInv, Shapes
  <2>5. Serves' = Serves \cup {n}
    BY <2>1, <2>2, <2>3, <2>4 DEF Serves, Owned
  <2>6. \A m \in Tunnel : TunnelLives'[m] = IF m = n THEN "serving" ELSE TunnelLives[m]
    BY <2>1, <2>2, <2>5, LivesAt, LivesAtNext
  <2>7. TunnelLives' = [TunnelLives EXCEPT ![n] = "serving"]
    BY <2>6, LivesAt, LivesAtNext
  <2>8. TunnelLives[n] = "new"
    BY <2>2, LivesAt
  <2> QED BY <2>2, <2>7, <2>8 DEF TunnelLife!Next, TunnelLife!Open, TunnelLives
<1>14. ASSUME NEW t \in Thread, GoOn(t) PROVE TunnelLife!Next \/ TunnelLives' = TunnelLives
  BY <1>4, <1>5, <1>10, <1>11, <1>12, <1>13, <1>14 DEF GoOn
<1> QED BY <1>3, <1>6, <1>7, <1>8, <1>9, <1>14 DEF TunnelNext, vars, OpenDirect

\* A tunnel serves from its dial until it leaves the cache or loses the second look,
\* and is then closed, once (tunnel_cache.go, GetOrCreateTunnel and
\* closeDeletedTunnel); that it is closed in the end is left to the model checker.
THEOREM TunnelCacheKeepsLife == TunnelSafety => TunnelLife!Safety
<1>1. TunnelInit => TunnelLife!Init
  BY TunnelAssumption DEF TunnelInit, TunnelLife!Init, Tunnel
<1>2. TunnelInv /\ [TunnelNext]_vars => TunnelLife!Next \/ TunnelLives' = TunnelLives
  BY TunnelStepLives
<1>3. TunnelLife!Next \/ TunnelLives' = TunnelLives =>
        [TunnelLife!Next]_([n \in Tunnel |->
            IF n > dialled THEN "new"
            ELSE IF n \in shut THEN "closed"
            ELSE IF Owned(n) THEN "serving" ELSE "draining"])
  BY DEF TunnelLives
<1> QED BY <1>1, <1>2, <1>3, TunnelCacheInv, PTL DEF TunnelSafety, TunnelLife!Safety
=============================================================================
