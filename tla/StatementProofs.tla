--------------------------- MODULE StatementProofs ---------------------------
(***************************************************************************)
(* What holds of a statement on the server for every size of its result,   *)
(* of the batches and of the memory: the rows it holds are charged, and    *)
(* its budget's count is exactly what the leases hold; the rows it sends   *)
(* reach the caller in order, and how it ended after them.                 *)
(***************************************************************************)
EXTENDS MemBudget, ArrowStream, FiniteSetTheorems, SequenceTheorems, TLAPS

(***************************************************************************)
(* Columns of units.                                                       *)
(***************************************************************************)

\* The units of one statement between two levels number their difference.
LEMMA ColumnCardinality ==
  ASSUME NEW s, NEW a \in Nat, NEW b \in Nat, a <= b
  PROVE  /\ IsFiniteSet({s} \X (a+1..b))
         /\ Cardinality({s} \X (a+1..b)) = b - a
<1> DEFINE f == [i \in a+1..b |-> <<s, i>>]
<1>1. f \in Bijection(a+1..b, {s} \X (a+1..b))
  <2>1. f \in [a+1..b -> {s} \X (a+1..b)]
    OBVIOUS
  <2>2. \A i, j \in a+1..b : f[i] = f[j] => i = j
    OBVIOUS
  <2>3. \A u \in {s} \X (a+1..b) : \E i \in a+1..b : f[i] = u
    <3>1. TAKE u \in {s} \X (a+1..b)
    <3>2. u[2] \in a+1..b /\ u = <<s, u[2]>>
      OBVIOUS
    <3>3. f[u[2]] = u
      BY <3>2
    <3>4. QED
      BY <3>2, <3>3
  <2>4. QED
    BY <2>1, <2>2, <2>3 DEF Bijection, Injection, Surjection, IsInjective
<1>2. ExistsBijection(a+1..b, {s} \X (a+1..b))
  BY <1>1 DEF ExistsBijection
<1>3. IsFiniteSet(a+1..b) /\ Cardinality(a+1..b) = b - a
  <2>1. a+1 \in Int /\ b \in Int
    OBVIOUS
  <2>2. /\ IsFiniteSet(a+1..b)
        /\ Cardinality(a+1..b) = IF a+1 > b THEN 0 ELSE b - (a+1) + 1
    BY <2>1, FS_Interval, Zenon
  <2>3. QED
    BY <2>2
<1>4. QED
  BY <1>2, <1>3, FS_Bijection

\* Raising one lease adds its new units and touches no other.
LEMMA RaiseUnits ==
  ASSUME NEW h \in [Statement -> Nat], NEW s \in Statement, NEW t \in Nat,
         h[s] <= t, IsFiniteSet(UnitsOf(h))
  PROVE  LET g == [h EXCEPT ![s] = t]
         IN  /\ IsFiniteSet(UnitsOf(g))
             /\ Cardinality(UnitsOf(g)) = Cardinality(UnitsOf(h)) + (t - h[s])
<1> DEFINE g == [h EXCEPT ![s] = t]
           new == {s} \X (h[s]+1..t)
<1>1. UnitsOf(g) = UnitsOf(h) \cup new
  <2>1. ASSUME NEW u \in UnitsOf(g) PROVE u \in UnitsOf(h) \cup new
    BY <2>1 DEF UnitsOf
  <2>2. ASSUME NEW u \in UnitsOf(h) PROVE u \in UnitsOf(g)
    BY <2>2 DEF UnitsOf
  <2>3. ASSUME NEW u \in new PROVE u \in UnitsOf(g)
    BY <2>3 DEF UnitsOf
  <2>4. QED
    BY <2>1, <2>2, <2>3
<1>2. UnitsOf(h) \cap new = {}
  BY DEF UnitsOf
<1>3. IsFiniteSet(new) /\ Cardinality(new) = t - h[s]
  BY ColumnCardinality
<1>4. Cardinality(UnitsOf(h)) \in Nat
  BY FS_CardinalityType
<1>5. /\ IsFiniteSet(UnitsOf(h) \cup new)
      /\ Cardinality(UnitsOf(h) \cup new) =
           Cardinality(UnitsOf(h)) + Cardinality(new) - Cardinality(UnitsOf(h) \cap new)
  <2> HIDE DEF new
  <2>1. QED
    BY <1>3, FS_Union
<1>6. Cardinality(UnitsOf(h) \cap new) = 0
  BY <1>2, FS_EmptySet
<1>7. t - h[s] \in Nat
  OBVIOUS
<1>8. QED
  <2> HIDE DEF new, g
  <2>1. Cardinality(UnitsOf(g)) = Cardinality(UnitsOf(h)) + (t - h[s])
    BY <1>1, <1>3, <1>4, <1>5, <1>6, <1>7
  <2>2. QED
    BY <1>1, <1>5, <2>1 DEF g

\* Giving a lease back is its raise from nothing, read backwards.
LEMMA DropUnits ==
  ASSUME NEW h \in [Statement -> Nat], NEW s \in Statement,
         IsFiniteSet(UnitsOf(h))
  PROVE  LET g == [h EXCEPT ![s] = 0]
         IN  /\ IsFiniteSet(UnitsOf(g))
             /\ Cardinality(UnitsOf(g)) = Cardinality(UnitsOf(h)) - h[s]
             /\ Cardinality(UnitsOf(g)) \in Nat
<1> DEFINE g == [h EXCEPT ![s] = 0]
<1>1. UnitsOf(g) \subseteq UnitsOf(h)
  BY DEF UnitsOf
<1>2. IsFiniteSet(UnitsOf(g)) /\ Cardinality(UnitsOf(g)) \in Nat
  BY <1>1, FS_Subset, FS_CardinalityType
<1>3. g \in [Statement -> Nat] /\ g[s] = 0 /\ [g EXCEPT ![s] = h[s]] = h
  OBVIOUS
<1>4. Cardinality(UnitsOf(h)) = Cardinality(UnitsOf(g)) + (h[s] - 0)
  <2> HIDE DEF g
  <2>1. h[s] \in Nat /\ g[s] <= h[s]
    BY <1>3
  <2>2. QED
    BY <1>2, <1>3, <2>1, RaiseUnits
<1>5. QED
  BY <1>2, <1>4

(***************************************************************************)
(* The inductive invariant.  UsedIsHeld alone is not inductive: the set of *)
(* held units has to be finite for its cardinality to mean anything.       *)
(***************************************************************************)
IInv ==
  /\ TypeOK
  /\ IsFiniteSet(HeldUnits)
  /\ UsedIsHeld
  /\ used <= Total
  /\ OnlyRunningHold

LEMMA RoundUpBound ==
  ASSUME NEW target \in Nat
  PROVE  RoundUp(target) \in Nat /\ target <= RoundUp(target)
<1>1. Step \in Nat \ {0}
  BY CostAssumption
<1> DEFINE n == target + Step - 1
           q == n \div Step
<1>2. n \in Nat
  BY <1>1
<1>3. q \in Nat /\ n % Step \in 0..Step-1 /\ n = Step * q + (n % Step)
  BY <1>1, <1>2
<1>4. Step * q >= target
  BY <1>1, <1>3
<1>5. q * Step = Step * q /\ q * Step \in Nat
  BY <1>1, <1>3
<1>6. QED
  BY <1>4, <1>5 DEF RoundUp

LEMMA InitIInv == Init => IInv
<1> SUFFICES ASSUME Init PROVE IInv
  OBVIOUS
<1>1. HeldUnits = {}
  BY DEF Init, HeldUnits, UnitsOf
<1>2. IsFiniteSet(HeldUnits) /\ Cardinality(HeldUnits) = 0
  BY <1>1, FS_EmptySet
<1>3. TypeOK
  BY DEF Init, TypeOK, Status
<1>4. UsedIsHeld /\ used <= Total
  BY <1>2, TotalAssumption DEF Init, UsedIsHeld
<1>5. OnlyRunningHold
  BY DEF Init, OnlyRunningHold
<1>6. QED
  BY <1>2, <1>3, <1>4, <1>5 DEF IInv

LEMMA NextIInv == IInv /\ [Next]_vars => IInv'
<1> SUFFICES ASSUME IInv, [Next]_vars PROVE IInv'
  OBVIOUS
<1> USE DEF IInv
<1>1. ASSUME NEW s \in Statement, Begin(s) PROVE IInv'
  <2>1. EntryCost \in Nat /\ held[s] = 0
    BY <1>1, CostAssumption DEF Begin, OnlyRunningHold, TypeOK
  <2>2. TypeOK' /\ OnlyRunningHold'
    BY <1>1, <2>1 DEF Begin, TypeOK, Status, OnlyRunningHold
  <2>3. /\ IsFiniteSet(HeldUnits')
        /\ Cardinality(HeldUnits') = Cardinality(HeldUnits) + (EntryCost - held[s])
    <3>1. held \in [Statement -> Nat] /\ held[s] <= EntryCost
      BY <2>1 DEF TypeOK
    <3>2. held' = [held EXCEPT ![s] = EntryCost]
      BY <1>1 DEF Begin
    <3>3. QED
      BY <2>1, <3>1, <3>2, RaiseUnits DEF HeldUnits
  <2>4. UsedIsHeld' /\ (used <= Total)'
    BY <1>1, <2>1, <2>3 DEF Begin, EntryFits, UsedIsHeld
  <2>5. QED
    BY <2>2, <2>3, <2>4
<1>2. ASSUME NEW s \in Statement, NEW target \in 1..MaxTarget, Grow(s, target)
      PROVE  IInv'
  <2>1. target \in Nat /\ RoundUp(target) \in Nat /\ held[s] <= RoundUp(target)
    <3>1. target \in Nat
      BY TargetAssumption
    <3>2. QED
      BY <1>2, <3>1, RoundUpBound DEF Grow, TypeOK
  <2>2. TypeOK' /\ OnlyRunningHold'
    BY <1>2, <2>1 DEF Grow, Growth, TypeOK, OnlyRunningHold
  <2>3. /\ IsFiniteSet(HeldUnits')
        /\ Cardinality(HeldUnits') = Cardinality(HeldUnits) + (RoundUp(target) - held[s])
    <3>1. held \in [Statement -> Nat]
      BY DEF TypeOK
    <3>2. held' = [held EXCEPT ![s] = RoundUp(target)]
      BY <1>2 DEF Grow
    <3>3. QED
      BY <2>1, <3>1, <3>2, RaiseUnits DEF HeldUnits
  <2>4. GrowCeiling <= Total
    BY TotalAssumption DEF GrowCeiling
  <2>5. GrowCeiling \in Int
    BY TotalAssumption DEF GrowCeiling
  <2>6. UsedIsHeld' /\ (used <= Total)'
    BY <1>2, <2>1, <2>3, <2>4, <2>5, TotalAssumption DEF Grow, Growth, UsedIsHeld, TypeOK
  <2>7. QED
    BY <2>2, <2>3, <2>6
<1>3. ASSUME NEW s \in Statement, Release(s) PROVE IInv'
  <2>1. held \in [Statement -> Nat] /\ held' = [held EXCEPT ![s] = 0]
    BY <1>3 DEF Release, Returned, TypeOK
  <2>2. /\ IsFiniteSet(HeldUnits')
        /\ Cardinality(HeldUnits') = Cardinality(HeldUnits) - held[s]
        /\ Cardinality(HeldUnits') \in Nat
    BY <2>1, DropUnits DEF HeldUnits
  <2>3. UsedIsHeld'
    BY <1>3, <2>2 DEF Release, Returned, UsedIsHeld
  <2>4. TypeOK' /\ OnlyRunningHold'
    BY <1>3, <2>2, <2>3 DEF Release, TypeOK, Status, OnlyRunningHold, UsedIsHeld
  <2>5. (used <= Total)'
    BY <1>3, <2>1, TotalAssumption DEF Release, Returned, TypeOK
  <2>6. QED
    BY <2>2, <2>3, <2>4, <2>5
<1>4. ASSUME UNCHANGED <<used, held>>, TypeOK', OnlyRunningHold' PROVE IInv'
  BY <1>4 DEF UsedIsHeld, HeldUnits
<1>5. ASSUME NEW s \in Statement, BeginRefused(s) PROVE IInv'
  BY <1>4, <1>5 DEF BeginRefused, TypeOK, Status, OnlyRunningHold
<1>6. ASSUME NEW s \in Statement, NEW target \in 1..MaxTarget, GrowRefused(s, target)
      PROVE  IInv'
  BY <1>4, <1>6 DEF GrowRefused, TypeOK, Status, OnlyRunningHold
<1>7. ASSUME NEW s \in Statement, EndStream(s) PROVE IInv'
  BY <1>4, <1>7 DEF EndStream, TypeOK, Status, OnlyRunningHold
<1>8. CASE UNCHANGED vars
  BY <1>4, <1>8 DEF vars, TypeOK, OnlyRunningHold
<1>9. QED
  BY <1>1, <1>2, <1>3, <1>5, <1>6, <1>7, <1>8 DEF Next

\* The inductive invariant holds of every behaviour of the budget.
THEOREM BudgetIInv == Spec => []IInv
  BY InitIInv, NextIInv, PTL DEF Spec

\* Types: membudget.go's Budget and Lease keep their shape.
THEOREM BudgetTypeOK == Spec => []TypeOK
<1>1. IInv => TypeOK
  BY DEF IInv
<1>2. QED
  BY <1>1, BudgetIInv, PTL

\* The budget counts exactly the units its leases hold, for any number of
\* statements: nothing leaks and nothing is given back twice.
THEOREM BudgetExact == Spec => []UsedIsHeld
<1>1. IInv => UsedIsHeld
  BY DEF IInv
<1>2. QED
  BY <1>1, BudgetIInv, PTL

\* The reservation stays between nothing and Budget.Total.
THEOREM BudgetWithinTotal == Spec => []WithinTotal
<1>1. IInv => WithinTotal
  BY DEF IInv, WithinTotal
<1>2. QED
  BY <1>1, BudgetIInv, PTL

\* Top-ups stop at the ceiling: only the start of a statement goes above it.
THEOREM BudgetLastTenth == Spec => LastTenthForStarts
<1> DEFINE A == used' > used /\ used' > Total - (Total \div 10) =>
                  \E s \in Statement : status[s] = "new" /\ status'[s] = "running"
<1>1. IInv /\ [Next]_vars => A \/ UNCHANGED vars
  <2> SUFFICES ASSUME IInv, Next PROVE A
    BY DEF vars
  <2>1. ASSUME NEW s \in Statement, Begin(s) PROVE A
    BY <2>1 DEF Begin, IInv, TypeOK
  <2>2. ASSUME NEW s \in Statement, NEW target \in 1..MaxTarget, Grow(s, target)
        PROVE  A
    <3>1. used' <= GrowCeiling
      BY <2>2 DEF Grow
    <3>2. used' \in Int /\ GrowCeiling \in Int
      BY <2>2, TotalAssumption, NextIInv DEF IInv, TypeOK, GrowCeiling
    <3>3. QED
      BY <3>1, <3>2 DEF GrowCeiling
  <2>3. ASSUME NEW s \in Statement, Release(s) PROVE A
    BY <2>3 DEF Release, Returned, IInv, TypeOK
  <2>4. ASSUME UNCHANGED used PROVE A
    BY <2>4 DEF IInv, TypeOK
  <2>5. QED
    BY <2>1, <2>2, <2>3, <2>4 DEF Next, BeginRefused, GrowRefused, EndStream
<1>2. QED
  BY <1>1, BudgetIInv, PTL DEF Spec, LastTenthForStarts

-----------------------------------------------------------------------------
(***************************************************************************)
(* What a sequence of messages carries.                                    *)
(***************************************************************************)

\* The message takes the rows from a to b, of p that the query has given when it
\* ended as s.
Fits(m, a, b, p, s) ==
  /\ b <= p
  /\ m.kind \in {"executed", "header"} => b = a
  /\ m.kind = "batch" => b = a + Len(m.rows) /\ \A j \in 1..Len(m.rows) : m.rows[j] = a + j
  /\ m.kind \in {"eos", "done", "error"} => s # "none" /\ a = p /\ b = p
  /\ m.kind = "done" => s = "done" /\ m.count = p
  /\ m.kind = "error" => s = "error"

\* One message after the other takes them from a to b.
Carries(w, a, b, p, s) ==
  \E at \in [1..(Len(w) + 1) -> Nat] :
    /\ at[1] = a /\ at[Len(w) + 1] = b
    /\ \A i \in 1..Len(w) : Fits(w[i], at[i], at[i+1], p, s)

\* Nothing carries no row.
LEMMA CarriesNothing ==
  ASSUME NEW a \in Nat, NEW p, NEW s
  PROVE  Carries(<<>>, a, a, p, s)
<1> DEFINE at == [i \in 1..(Len(<<>>) + 1) |-> a]
<1>1. at \in [1..(Len(<<>>) + 1) -> Nat]
  OBVIOUS
<1>2. at[1] = a /\ at[Len(<<>>) + 1] = a
  OBVIOUS
<1>3. \A i \in 1..Len(<<>>) : Fits(<<>>[i], at[i], at[i+1], p, s)
  OBVIOUS
<1>4. QED
  BY <1>1, <1>2, <1>3 DEF Carries

\* A message on its own.
LEMMA CarriesOne ==
  ASSUME NEW m, NEW a \in Nat, NEW b \in Nat, NEW p, NEW s, Fits(m, a, b, p, s)
  PROVE  Carries(<<m>>, a, b, p, s)
<1> DEFINE at == [i \in 1..(Len(<<m>>) + 1) |-> IF i = 1 THEN a ELSE b]
<1>1. Len(<<m>>) = 1 /\ <<m>>[1] = m
  OBVIOUS
<1>2. at \in [1..(Len(<<m>>) + 1) -> Nat]
  OBVIOUS
<1>3. at[1] = a /\ at[2] = b /\ at[Len(<<m>>) + 1] = b
  BY <1>1
<1>4. \A i \in 1..Len(<<m>>) : Fits(<<m>>[i], at[i], at[i+1], p, s)
  <2>1. TAKE i \in 1..Len(<<m>>)
  <2>2. i = 1
    BY <1>1
  <2>3. QED
    BY <2>2, <1>1, <1>3
<1> HIDE DEF at
<1>5. QED
  BY <1>2, <1>3, <1>4 DEF Carries

\* One sequence after another.
LEMMA CarriesBoth ==
  ASSUME NEW v \in Seq(Message), NEW w \in Seq(Message),
         NEW a \in Nat, NEW b \in Nat, NEW c \in Nat, NEW p, NEW s,
         Carries(v, a, b, p, s), Carries(w, b, c, p, s)
  PROVE  Carries(v \o w, a, c, p, s)
<1>1. PICK f \in [1..(Len(v) + 1) -> Nat] :
        /\ f[1] = a /\ f[Len(v) + 1] = b
        /\ \A i \in 1..Len(v) : Fits(v[i], f[i], f[i+1], p, s)
  BY DEF Carries
<1>2. PICK g \in [1..(Len(w) + 1) -> Nat] :
        /\ g[1] = b /\ g[Len(w) + 1] = c
        /\ \A i \in 1..Len(w) : Fits(w[i], g[i], g[i+1], p, s)
  BY DEF Carries
<1> DEFINE at == [i \in 1..(Len(v \o w) + 1) |->
                   IF i <= Len(v) THEN f[i] ELSE g[i - Len(v)]]
<1>3. Len(v) \in Nat /\ Len(w) \in Nat
  BY LenProperties
<1>4. /\ Len(v \o w) = Len(v) + Len(w)
      /\ \A i \in 1..Len(v) : (v \o w)[i] = v[i]
      /\ \A i \in Len(v)+1..Len(v)+Len(w) : (v \o w)[i] = w[i - Len(v)]
  <2>1. /\ Len(v \o w) = Len(v) + Len(w)
        /\ \A i \in 1 .. Len(v) + Len(w) : (v \o w)[i] =
              IF i <= Len(v) THEN v[i] ELSE w[i - Len(v)]
    BY ConcatProperties, Zenon
  <2>2. QED
    BY <2>1, <1>3
<1>5. at \in [1..(Len(v \o w) + 1) -> Nat]
  BY <1>3, <1>4
<1>6. at[1] = a
  BY <1>1, <1>2, <1>3, <1>4
<1>7. at[Len(v \o w) + 1] = c
  BY <1>2, <1>3, <1>4
<1>8. \A i \in 1..Len(v \o w) : Fits((v \o w)[i], at[i], at[i+1], p, s)
  <2>1. TAKE i \in 1..Len(v \o w)
  <2>2. CASE i <= Len(v)
    <3>1. i \in 1..Len(v) /\ (v \o w)[i] = v[i] /\ at[i] = f[i]
      BY <2>2, <1>3, <1>4
    <3>2. at[i+1] = f[i+1]
      BY <2>2, <1>1, <1>2, <1>3, <1>4
    <3>3. QED
      BY <3>1, <3>2, <1>1
  <2>3. CASE ~(i <= Len(v))
    <3> DEFINE k == i - Len(v)
    <3>1. k \in 1..Len(w) /\ (v \o w)[i] = w[k] /\ at[i] = g[k] /\ at[i+1] = g[k+1]
      BY <2>3, <1>3, <1>4
    <3> HIDE DEF k
    <3>2. QED
      BY <3>1, <1>2
  <2>4. QED
    BY <2>2, <2>3
<1>9. QED
  BY <1>5, <1>6, <1>7, <1>8 DEF Carries

\* The first message takes its part, and the rest follows.
LEMMA CarriesTail ==
  ASSUME NEW w \in Seq(Message), w # <<>>,
         NEW a, NEW b, NEW p, NEW s, Carries(w, a, b, p, s)
  PROVE  \E c \in Nat : Fits(Head(w), a, c, p, s) /\ Carries(Tail(w), c, b, p, s)
<1>1. PICK f \in [1..(Len(w) + 1) -> Nat] :
        /\ f[1] = a /\ f[Len(w) + 1] = b
        /\ \A i \in 1..Len(w) : Fits(w[i], f[i], f[i+1], p, s)
  BY DEF Carries
<1>2. /\ Len(w) \in Nat \ {0}
      /\ Head(w) = w[1]
      /\ Len(Tail(w)) = Len(w) - 1
      /\ \A i \in 1..Len(Tail(w)) : Tail(w)[i] = w[i+1]
  BY HeadTailProperties, EmptySeq
<1> DEFINE at == [i \in 1..(Len(Tail(w)) + 1) |-> f[i+1]]
<1>3. at \in [1..(Len(Tail(w)) + 1) -> Nat]
  BY <1>2
<1>4. at[1] = f[2] /\ at[Len(Tail(w)) + 1] = b
  BY <1>1, <1>2
<1>5. \A i \in 1..Len(Tail(w)) : Fits(Tail(w)[i], at[i], at[i+1], p, s)
  <2>1. TAKE i \in 1..Len(Tail(w))
  <2>2. i+1 \in 1..Len(w) /\ Tail(w)[i] = w[i+1] /\ at[i] = f[i+1] /\ at[i+1] = f[(i+1)+1]
    BY <1>2
  <2>3. QED
    BY <2>2, <1>1
<1>6. Carries(Tail(w), f[2], b, p, s)
  BY <1>3, <1>4, <1>5 DEF Carries
<1>7. f[2] \in Nat /\ Fits(Head(w), a, f[2], p, s)
  <2>1. 1 \in 1..Len(w) /\ 1+1 = 2 /\ 2 \in 1..(Len(w) + 1)
    BY <1>2
  <2>2. QED
    BY <2>1, <1>1, <1>2
<1>8. QED
  BY <1>6, <1>7

\* So does a prefix.
LEMMA CarriesPrefix ==
  ASSUME NEW w \in Seq(Message), NEW n \in 0..Len(w),
         NEW a, NEW b, NEW p, NEW s, Carries(w, a, b, p, s)
  PROVE  \E c \in Nat : Carries(SubSeq(w, 1, n), a, c, p, s)
<1>1. PICK f \in [1..(Len(w) + 1) -> Nat] :
        /\ f[1] = a /\ f[Len(w) + 1] = b
        /\ \A i \in 1..Len(w) : Fits(w[i], f[i], f[i+1], p, s)
  BY DEF Carries
<1>2. Len(w) \in Nat
  BY LenProperties
<1> DEFINE v == SubSeq(w, 1, n)
           at == [i \in 1..(Len(v) + 1) |-> f[i]]
<1>3. Len(v) = n /\ \A i \in 1..n : v[i] = w[i]
  BY <1>2
<1> HIDE DEF v
<1>4. at \in [1..(Len(v) + 1) -> Nat] /\ at[1] = a /\ at[Len(v) + 1] = f[n+1]
  BY <1>1, <1>2, <1>3
<1>5. \A i \in 1..Len(v) : Fits(v[i], at[i], at[i+1], p, s)
  <2>1. TAKE i \in 1..Len(v)
  <2>2. i \in 1..Len(w) /\ v[i] = w[i] /\ at[i] = f[i] /\ at[i+1] = f[i+1]
    BY <1>2, <1>3
  <2>3. QED
    BY <2>2, <1>1
<1>6. Carries(v, a, f[n+1], p, s)
  BY <1>4, <1>5 DEF Carries
<1>7. QED
  BY <1>1, <1>2, <1>6 DEF v

\* More rows, or the end of the query, take nothing from what is on its way.
LEMMA CarriesOn ==
  ASSUME NEW w \in Seq(Message), NEW a, NEW b, NEW p \in Nat, NEW q \in Nat, NEW t, p <= q,
         Carries(w, a, b, p, "none")
  PROVE  Carries(w, a, b, q, t)
<1>1. PICK f \in [1..(Len(w) + 1) -> Nat] :
        /\ f[1] = a /\ f[Len(w) + 1] = b
        /\ \A i \in 1..Len(w) : Fits(w[i], f[i], f[i+1], p, "none")
  BY DEF Carries
<1>2. \A i \in 1..Len(w) : Fits(w[i], f[i], f[i+1], q, t)
  <2>1. TAKE i \in 1..Len(w)
  <2>2. Fits(w[i], f[i], f[i+1], p, "none")
    BY <1>1
  <2>3. f[i+1] \in Nat
    BY LenProperties
  <2>4. w[i].kind \notin {"eos", "done", "error"}
    BY <2>2 DEF Fits
  <2>5. QED
    BY <2>2, <2>3, <2>4 DEF Fits
<1>3. QED
  BY <1>1, <1>2 DEF Carries

(***************************************************************************)
(* The messages of the sink.                                               *)
(***************************************************************************)

LEMMA MessagesTyped ==
  /\ \A kind \in {"executed", "header", "eos", "done", "error"} :
       Mark(kind) \in Message /\ <<Mark(kind)>> \in Seq(Message)
  /\ \A n \in Nat : Summary(n) \in Message /\ <<Summary(n)>> \in Seq(Message)
  /\ \A rows \in Seq(Nat) : Batch(rows) \in Message /\ Flush(rows) \in Seq(Message)
  /\ Header \in Seq(Message)
  /\ <<Mark("header"), Mark("eos"), Mark("done")>> \in Seq(Message)
<1>1. \A kind \in {"executed", "header", "batch", "eos", "done", "error"} : Mark(kind) \in Message
  <2>1. <<>> \in Seq(Nat)
    OBVIOUS
  <2>2. QED
    BY <2>1 DEF Mark, Message
<1>2. \A n \in Nat : Summary(n) \in Message
  BY <1>1 DEF Summary, Mark, Message
<1>3. \A rows \in Seq(Nat) : Batch(rows) \in Message
  BY <1>1 DEF Batch, Mark, Message
<1>4. \A m \in Message : <<m>> \in Seq(Message)
  OBVIOUS
<1>5. <<>> \in Seq(Message)
  OBVIOUS
<1>6. \A rows \in Seq(Nat) : Flush(rows) \in Seq(Message)
  BY <1>3, <1>4, <1>5 DEF Flush
<1>7. Header \in Seq(Message)
  BY <1>1, <1>4, <1>5 DEF Header
<1>8. <<Mark("header"), Mark("eos"), Mark("done")>> \in Seq(Message)
  <2>1. Mark("header") \in Message /\ Mark("eos") \in Message /\ Mark("done") \in Message
    BY <1>1
  <2>2. \A m, n, o \in Message : <<m, n, o>> \in Seq(Message)
    OBVIOUS
  <2>3. QED
    BY <2>1, <2>2
<1>9. QED
  BY <1>1, <1>2, <1>3, <1>4, <1>6, <1>7, <1>8

LEMMA MessageParts ==
  /\ \A kind \in {"executed", "header", "eos", "done", "error"} : Mark(kind).kind = kind
  /\ \A n : Summary(n).kind = "done" /\ Summary(n).count = n
  /\ \A rows : Batch(rows).kind = "batch" /\ Batch(rows).rows = rows
BY DEF Mark, Summary, Batch

\* The end of the data is all it has left of the rows, and a terminal segment follows.
LEMMA ClosingTyped ==
  ASSUME batch \in Seq(Nat)
  PROVE  Closing \in Seq(Message)
<1>1. Header \in Seq(Message) /\ Flush(batch) \in Seq(Message) /\ <<Mark("eos")>> \in Seq(Message)
  BY MessagesTyped
<1>2. Header \o Flush(batch) \in Seq(Message)
  BY <1>1, ConcatProperties, Zenon
<1>3. QED
  BY <1>1, <1>2, ConcatProperties, Zenon DEF Closing

(***************************************************************************)
(* The shapes of the state.                                                *)
(***************************************************************************)

\* Whatever is written, the body stays a sequence of messages.
LEMMA WriteTyped ==
  ASSUME wire \in Seq(Message), NEW ms \in Seq(Message), Write(ms)
  PROVE  wire' \in Seq(Message)
BY ConcatProperties DEF Write

LEMMA TakeTyped ==
  ASSUME wire \in Seq(Message), wire # <<>>, Take
  PROVE  /\ wire' \in Seq(Message)
         /\ Head(wire).rows \in Seq(Nat) /\ Head(wire).count \in Nat
<1>1. Head(wire) \in Message /\ Tail(wire) \in Seq(Message)
  BY HeadTailProperties, Zenon
<1>2. QED
  BY <1>1 DEF Take, Message

\* Every step of the server keeps the shapes.
LEMMA SenderTyped ==
  ASSUME StreamTypeOK, Sender
  PROVE  StreamTypeOK'
<1> USE SizeAssumption
<1>1. CASE Refuse
  <2>1. wire' \in Seq(Message)
    BY <1>1, WriteTyped, MessagesTyped DEF Refuse, StreamTypeOK
  <2>2. QED
    BY <1>1, <2>1 DEF Refuse, StreamTypeOK, readerVars
<1>2. CASE AnswerExec
  <2>1. wire' \in Seq(Message)
    BY <1>2, WriteTyped, MessagesTyped DEF AnswerExec, StreamTypeOK
  <2>2. QED
    BY <1>2, <2>1 DEF AnswerExec, StreamTypeOK, readerVars
<1>3. CASE OnColumns
  BY <1>3 DEF OnColumns, StreamTypeOK, readerVars
<1>4. CASE OnExecuted
  <2>1. wire' \in Seq(Message)
    BY <1>4, WriteTyped, MessagesTyped DEF OnExecuted, StreamTypeOK
  <2>2. QED
    BY <1>4, <2>1 DEF OnExecuted, StreamTypeOK, readerVars
<1>5. CASE OnRow
  <2>1. batch' \in Seq(Nat) /\ Len(batch') = Len(batch) + 1 /\ produced' \in 0..MaxRows
    BY <1>5, AppendProperties DEF OnRow, StreamTypeOK
  <2>2. Len(batch') < BatchRows
    BY <1>5, <2>1 DEF OnRow, Room, StreamTypeOK
  <2>3. QED
    BY <1>5, <2>1, <2>2 DEF OnRow, StreamTypeOK, readerVars
<1>6. CASE OnRowFlush
  <2>1. Append(batch, produced + 1) \in Seq(Nat)
    BY AppendProperties DEF StreamTypeOK
  <2>2. Header \o Flush(Append(batch, produced + 1)) \in Seq(Message)
    BY <2>1, MessagesTyped, ConcatProperties, Zenon
  <2>3. wire' \in Seq(Message)
    BY <1>6, <2>2, WriteTyped DEF OnRowFlush, StreamTypeOK
  <2>4. batch' \in Seq(Nat) /\ Len(batch') < BatchRows /\ produced' \in 0..MaxRows
    BY <1>6 DEF OnRowFlush, NewBatch, StreamTypeOK
  <2>5. QED
    BY <1>6, <2>3, <2>4 DEF OnRowFlush, StreamTypeOK, readerVars
<1>7. CASE OnDone
  <2>1. Closing \o <<Summary(produced)>> \in Seq(Message)
    BY ClosingTyped, MessagesTyped, ConcatProperties DEF StreamTypeOK
  <2>2. wire' \in Seq(Message)
    BY <1>7, <2>1, WriteTyped DEF OnDone, StreamTypeOK
  <2>3. batch' \in Seq(Nat) /\ Len(batch') < BatchRows
    BY <1>7 DEF OnDone
  <2>4. QED
    BY <1>7, <2>2, <2>3 DEF OnDone, StreamTypeOK, readerVars
<1>8. CASE OnError
  <2>1. Closing \o <<Mark("error")>> \in Seq(Message)
    BY ClosingTyped, MessagesTyped, ConcatProperties DEF StreamTypeOK
  <2>2. wire' \in Seq(Message)
    BY <1>8, <2>1, WriteTyped DEF OnError, StreamTypeOK
  <2>3. batch' \in Seq(Nat) /\ Len(batch') < BatchRows
    BY <1>8 DEF OnError
  <2>4. QED
    BY <1>8, <2>2, <2>3 DEF OnError, StreamTypeOK, readerVars
<1>9. QED
  BY <1>1, <1>2, <1>3, <1>4, <1>5, <1>6, <1>7, <1>8 DEF Sender

LEMMA CutTyped ==
  ASSUME StreamTypeOK, Cut
  PROVE  StreamTypeOK'
<1>1. PICK n \in 0..Len(wire) : wire' = SubSeq(wire, 1, n)
  BY DEF Cut
<1>2. wire \in Seq(Message) /\ Len(wire) \in Nat
  BY LenProperties DEF StreamTypeOK
<1>3. \A i \in 1..n : wire[i] \in Message
  BY <1>2, ElementOfSeq
<1>4. SubSeq(wire, 1, n) \in Seq(Message)
  BY <1>2, <1>3, SubSeqProperties
<1>5. QED
  BY <1>1, <1>4 DEF Cut, StreamTypeOK, senderVars, readerVars

\* And every step of the client.
LEMMA ReaderTyped ==
  ASSUME StreamTypeOK, Reader
  PROVE  StreamTypeOK'
<1>1. ASSUME wire # <<>>, Take
      PROVE  /\ wire' \in Seq(Message)
             /\ Head(wire).rows \in Seq(Nat) /\ Head(wire).count \in Nat
             /\ UNCHANGED <<senderVars, cut>>
  BY <1>1, TakeTyped DEF StreamTypeOK, Take
<1>2. CASE ReadExecuted
  BY <1>1, <1>2 DEF ReadExecuted, Arrived, StreamTypeOK, senderVars, readerVars
<1>3. CASE ReadHeader
  BY <1>1, <1>3 DEF ReadHeader, Arrived, StreamTypeOK, senderVars
<1>4. CASE ReadRefusal
  BY <1>1, <1>4 DEF ReadRefusal, Arrived, Tell, StreamTypeOK, senderVars
<1>5. CASE ColumnsCut
  BY <1>5 DEF ColumnsCut, Tell, StreamTypeOK, senderVars
<1>6. CASE NextRow
  <2>1. record' \in Seq(Nat) /\ delivered' \in Seq(Nat)
    <3>1. Head(record) \in Nat /\ Tail(record) \in Seq(Nat)
      BY <1>6, HeadTailProperties DEF NextRow, StreamTypeOK
    <3>2. Append(delivered, Head(record)) \in Seq(Nat)
      BY <3>1, AppendProperties DEF StreamTypeOK
    <3>3. QED
      BY <1>6, <3>1, <3>2 DEF NextRow
  <2>2. QED
    BY <1>6, <2>1 DEF NextRow, StreamTypeOK, senderVars
<1>7. CASE NextBatch
  BY <1>1, <1>7 DEF NextBatch, Arrived, StreamTypeOK, senderVars
<1>8. CASE NextSegment
  BY <1>1, <1>8 DEF NextSegment, Arrived, StreamTypeOK, senderVars
<1>9. CASE ReadDone
  BY <1>1, <1>9 DEF ReadDone, Arrived, Tell, StreamTypeOK, senderVars
<1>10. CASE ReadError
  BY <1>1, <1>10 DEF ReadError, Arrived, Tell, StreamTypeOK, senderVars
<1>11. CASE NextCut
  BY <1>11 DEF NextCut, Tell, StreamTypeOK, senderVars
<1>12. QED
  BY <1>2, <1>3, <1>4, <1>5, <1>6, <1>7, <1>8, <1>9, <1>10, <1>11 DEF Reader

LEMMA StreamInitTyped ==
  ASSUME StreamInit
  PROVE  StreamTypeOK
<1>1. /\ batch \in Seq(Nat) /\ record \in Seq(Nat) /\ delivered \in Seq(Nat)
      /\ wire \in Seq(Message)
      /\ Len(batch) < BatchRows
  BY EmptySeq, SizeAssumption DEF StreamInit
<1>2. produced \in 0..MaxRows /\ outcome \in [kind : {"none", "done", "error"}, rows : Nat]
  BY SizeAssumption DEF StreamInit
<1>3. QED
  BY <1>1, <1>2 DEF StreamInit, StreamTypeOK

\* Every variable of the stream keeps its shape, and the builder of the sink never
\* holds a full batch.
THEOREM StreamTypes == StreamSafety => []StreamTypeOK
<1>1. StreamInit => StreamTypeOK
  BY StreamInitTyped
<1>2. StreamTypeOK /\ [StreamNext]_streamVars => StreamTypeOK'
  <2>1. SUFFICES ASSUME StreamTypeOK, [StreamNext]_streamVars
                 PROVE  StreamTypeOK'
    OBVIOUS
  <2>2. CASE UNCHANGED streamVars
    BY <2>1, <2>2 DEF StreamTypeOK, streamVars, senderVars, readerVars
  <2>3. QED
    BY <2>1, <2>2, SenderTyped, CutTyped, ReaderTyped DEF StreamNext
<1>3. QED
  BY <1>1, <1>2, PTL DEF StreamSafety

(***************************************************************************)
(* Where every row is.                                                     *)
(***************************************************************************)

\* Rows that have left the body.
Got == Len(delivered) + Len(record)

\* What is on its way follows what has arrived and, as long as the connection
\* stands, reaches up to the rows that are still in the builder.
WireGood ==
  \E b \in Nat :
    /\ Carries(wire, Got, b, produced, sent)
    /\ ~cut => b = produced - Len(batch)

\* The builder has the last rows of the query; it is empty before the first row
\* and after the end.
SenderGood ==
  /\ Len(batch) <= produced
  /\ \A j \in 1..Len(batch) : batch[j] = produced - Len(batch) + j
  /\ sender # "rows" => batch = <<>>
  /\ sender \in {"start", "columns"} => produced = 0
  /\ sender = "ended" <=> sent # "none"

\* The record holds the rows that come after the delivered ones.
ReaderGood ==
  /\ Got <= produced
  /\ \A i \in 1..Len(delivered) : delivered[i] = i
  /\ \A j \in 1..Len(record) : record[j] = Len(delivered) + j
  /\ reader # "open" => record = <<>>
  /\ reader = "ended" <=> outcome.kind # "none"

StreamInv == StreamTypeOK /\ WireGood /\ SenderGood /\ ReaderGood /\ UncutIsWhole

(***************************************************************************)
(* What the messages of the sink carry.                                    *)
(***************************************************************************)

LEMMA HeaderCarries ==
  ASSUME NEW a \in Nat, NEW p \in Nat, NEW s, a <= p
  PROVE  Carries(Header, a, a, p, s)
<1>1. Fits(Mark("header"), a, a, p, s)
  BY MessageParts DEF Fits
<1>2. Carries(<<Mark("header")>>, a, a, p, s)
  BY <1>1, CarriesOne
<1>3. Carries(<<>>, a, a, p, s)
  BY CarriesNothing
<1>4. QED
  BY <1>2, <1>3 DEF Header

LEMMA FlushCarries ==
  ASSUME NEW rows \in Seq(Nat), NEW a \in Nat, NEW p \in Nat, NEW s,
         a + Len(rows) <= p, \A j \in 1..Len(rows) : rows[j] = a + j
  PROVE  Carries(Flush(rows), a, a + Len(rows), p, s)
<1>1. CASE rows = <<>>
  <2>1. Flush(rows) = <<>> /\ a + Len(rows) = a
    BY <1>1 DEF Flush
  <2>2. QED
    BY <2>1, CarriesNothing
<1>2. CASE rows # <<>>
  <2>1. Flush(rows) = <<Batch(rows)>> /\ a + Len(rows) \in Nat
    BY <1>2, LenProperties DEF Flush
  <2>2. Fits(Batch(rows), a, a + Len(rows), p, s)
    BY MessageParts DEF Fits
  <2>3. QED
    BY <2>1, <2>2, CarriesOne
<1>3. QED
  BY <1>1, <1>2

\* The end of the data carries what the builder has, up to the last row.
LEMMA ClosingCarries ==
  ASSUME StreamTypeOK, SenderGood, NEW s, s # "none"
  PROVE  Carries(Closing, produced - Len(batch), produced, produced, s)
<1> DEFINE a == produced - Len(batch)
<1>1. /\ produced \in Nat /\ batch \in Seq(Nat) /\ Len(batch) \in Nat
      /\ a \in Nat /\ a <= produced /\ a + Len(batch) = produced
      /\ \A j \in 1..Len(batch) : batch[j] = a + j
  BY LenProperties, SizeAssumption DEF StreamTypeOK, SenderGood
<1> HIDE DEF a
<1>2. /\ Header \in Seq(Message) /\ Flush(batch) \in Seq(Message)
      /\ <<Mark("eos")>> \in Seq(Message)
  BY <1>1, MessagesTyped
<1>3. Carries(Header, a, a, produced, s)
  BY <1>1, HeaderCarries
<1>4. Carries(Flush(batch), a, produced, produced, s)
  BY <1>1, FlushCarries
<1>5. Carries(<<Mark("eos")>>, produced, produced, produced, s)
  <2>1. Fits(Mark("eos"), produced, produced, produced, s)
    BY <1>1, MessageParts DEF Fits
  <2>2. QED
    BY <1>1, <2>1, CarriesOne
<1>6. Carries(Header \o Flush(batch), a, produced, produced, s)
  BY <1>1, <1>2, <1>3, <1>4, CarriesBoth
<1>7. Header \o Flush(batch) \in Seq(Message)
  BY <1>2, ConcatProperties, Zenon
<1>8. Carries(Closing, a, produced, produced, s)
  BY <1>1, <1>2, <1>5, <1>6, <1>7, CarriesBoth DEF Closing
<1>9. QED
  BY <1>8 DEF a

(***************************************************************************)
(* Every step keeps the rows where they are known to be.                   *)
(***************************************************************************)

\* While the query runs the caller has no outcome of a body that still stands, and the
\* client's side of the invariant survives any step of the server that only adds rows.
LEMMA SenderKeepsReader ==
  ASSUME StreamInv, StreamTypeOK', sender # "ended",
         UNCHANGED <<readerVars, cut>>, produced <= produced'
  PROVE  ReaderGood' /\ UncutIsWhole' /\ sent = "none" /\ Got' = Got
<1>1. sent = "none" /\ Got' = Got /\ Got \in Nat
  BY LenProperties DEF StreamInv, StreamTypeOK, SenderGood, Got, readerVars
<1>2. ReaderGood'
  <2>1. Got' <= produced'
    BY <1>1, SizeAssumption DEF StreamInv, StreamTypeOK, ReaderGood
  <2>2. QED
    BY <2>1 DEF StreamInv, ReaderGood, readerVars
<1>3. UncutIsWhole'
  BY <1>1 DEF StreamInv, UncutIsWhole, readerVars
<1>4. QED
  BY <1>1, <1>2, <1>3

\* The same for what a step of the server writes.
LEMMA SenderKeepsWire ==
  ASSUME StreamInv, StreamTypeOK', sender # "ended",
         UNCHANGED <<readerVars, cut>>, produced <= produced',
         NEW ms \in Seq(Message), Write(ms),
         produced' - Len(batch') \in Nat,
         Carries(ms, produced - Len(batch), produced' - Len(batch'), produced', sent')
  PROVE  WireGood'
<1>1. sent = "none" /\ Got' = Got
  BY SenderKeepsReader
<1>2. /\ produced \in Nat /\ produced' \in Nat /\ Got \in Nat
      /\ Len(batch) \in Nat /\ produced - Len(batch) \in Nat
      /\ wire \in Seq(Message)
  BY LenProperties, SizeAssumption DEF StreamInv, StreamTypeOK, SenderGood, Got
<1>3. PICK c \in Nat : /\ Carries(wire, Got, c, produced, "none")
                       /\ ~cut => c = produced - Len(batch)
  BY <1>1 DEF StreamInv, WireGood
<1>4. Carries(wire, Got, c, produced', sent')
  BY <1>2, <1>3, CarriesOn
<1>5. CASE cut
  <2>1. wire' = wire /\ cut'
    BY <1>5 DEF Write
  <2>2. QED
    BY <1>1, <1>4, <2>1 DEF WireGood
<1>6. CASE ~cut
  <2>1. Carries(wire \o ms, Got, produced' - Len(batch'), produced', sent')
    BY <1>2, <1>3, <1>4, <1>6, CarriesBoth
  <2>2. wire' = wire \o ms
    BY <1>6 DEF Write
  <2>3. QED
    BY <1>1, <2>1, <2>2 DEF WireGood
<1>7. QED
  BY <1>5, <1>6

LEMMA SenderKeepsInv ==
  ASSUME StreamInv, Sender
  PROVE  StreamInv'
<1>1. StreamTypeOK'
  BY SenderTyped DEF StreamInv
<1>2. /\ produced \in Nat /\ produced' \in Nat
      /\ batch \in Seq(Nat) /\ Len(batch) \in Nat
      /\ produced - Len(batch) \in Nat
      /\ batch = <<>> => Len(batch) = 0
  BY LenProperties, SizeAssumption, <1>1 DEF StreamInv, StreamTypeOK, SenderGood
<1>3. CASE Refuse
  <2>1. /\ sender = "start" /\ produced = 0 /\ batch = <<>> /\ Len(batch) = 0
        /\ sent' = "error" /\ sender' = "ended"
        /\ UNCHANGED <<produced, batch, cut, readerVars>>
    BY <1>2, <1>3 DEF Refuse, StreamInv, SenderGood
  <2>2. SenderGood'
    BY <2>1 DEF SenderGood
  <2>3. Carries(<<Mark("error")>>, 0, 0, 0, "error")
    <3>1. Fits(Mark("error"), 0, 0, 0, "error")
      BY MessageParts DEF Fits
    <3>2. QED
      BY <3>1, CarriesOne
  <2>4. WireGood'
    <3>1. <<Mark("error")>> \in Seq(Message) /\ Write(<<Mark("error")>>)
      BY <1>3, MessagesTyped DEF Refuse
    <3>2. /\ produced - Len(batch) = 0 /\ produced' - Len(batch') = 0 /\ produced' = 0
          /\ produced <= produced' /\ sender # "ended" /\ sent' = "error"
      <4>1. produced' = 0 /\ Len(batch') = 0
        BY <2>1
      <4>2. produced = 0 /\ Len(batch) = 0
        BY <2>1, Zenon
      <4>3. sender # "ended" /\ sent' = "error"
        BY <2>1
      <4>4. QED
        BY <4>1, <4>2, <4>3
    <3>3. Carries(<<Mark("error")>>, produced - Len(batch), produced' - Len(batch'), produced', sent')
      BY <2>3, <3>2
    <3>4. produced' - Len(batch') \in Nat
      BY <3>2
    <3>5. QED
      BY <1>1, <2>1, <3>1, <3>2, <3>3, <3>4, SenderKeepsWire, Zenon
  <2>5. QED
    BY <1>1, <2>1, <2>2, <2>4, SenderKeepsReader DEF StreamInv
<1>4. CASE AnswerExec
  <2> DEFINE ms == <<Mark("header"), Mark("eos"), Mark("done")>>
  <2>1. /\ sender = "start" /\ produced = 0 /\ batch = <<>> /\ Len(batch) = 0
        /\ sent' = "done" /\ sender' = "ended"
        /\ UNCHANGED <<produced, batch, cut, readerVars>>
    BY <1>2, <1>4 DEF AnswerExec, StreamInv, SenderGood
  <2>2. SenderGood'
    BY <2>1 DEF SenderGood
  <2>3. Carries(ms, 0, 0, 0, "done")
    <3> DEFINE at == [i \in 1..(Len(ms) + 1) |-> 0]
    <3>0. 0 \in Nat /\ at \in [1..(Len(ms) + 1) -> Nat]
      OBVIOUS
    <3>1. Len(ms) = 3 /\ ms[1] = Mark("header") /\ ms[2] = Mark("eos") /\ ms[3] = Mark("done")
      OBVIOUS
    <3>2. Fits(ms[1], 0, 0, 0, "done") /\ Fits(ms[2], 0, 0, 0, "done") /\ Fits(ms[3], 0, 0, 0, "done")
      <4>1. Mark("done").count = 0
        BY DEF Mark
      <4>2. QED
        BY <3>1, <4>1, MessageParts DEF Fits
    <3> HIDE DEF ms
    <3>3. \A i \in 1..Len(ms) : Fits(ms[i], at[i], at[i+1], 0, "done")
      BY <3>1, <3>2
    <3>4. at[1] = 0 /\ at[Len(ms) + 1] = 0
      BY <3>1
    <3> HIDE DEF at
    <3>5. QED
      BY <3>0, <3>3, <3>4 DEF Carries
  <2>4. WireGood'
    <3>1. ms \in Seq(Message) /\ Write(ms)
      BY <1>4, MessagesTyped DEF AnswerExec
    <3> HIDE DEF ms
    <3>2. /\ produced - Len(batch) = 0 /\ produced' - Len(batch') = 0 /\ produced' = 0
          /\ produced <= produced' /\ sender # "ended" /\ sent' = "done"
      <4>1. produced' = 0 /\ Len(batch') = 0
        BY <2>1
      <4>2. produced = 0 /\ Len(batch) = 0
        BY <2>1, Zenon
      <4>3. sender # "ended" /\ sent' = "done"
        BY <2>1
      <4>4. QED
        BY <4>1, <4>2, <4>3
    <3>3. Carries(ms, produced - Len(batch), produced' - Len(batch'), produced', sent')
      BY <2>3, <3>2
    <3>4. produced' - Len(batch') \in Nat
      BY <3>2
    <3>5. QED
      BY <1>1, <2>1, <3>1, <3>2, <3>3, <3>4, SenderKeepsWire, Zenon
  <2>5. QED
    BY <1>1, <2>1, <2>2, <2>4, SenderKeepsReader DEF StreamInv
<1>5. CASE OnColumns
  <2>1. /\ sender # "ended" /\ sent = "none"
        /\ UNCHANGED <<sent, produced, batch, wire, cut, readerVars>>
    BY <1>5 DEF OnColumns, StreamInv, SenderGood
  <2>2. SenderGood'
    BY <1>5 DEF OnColumns, StreamInv, SenderGood
  <2>3. WireGood'
    BY <2>1 DEF StreamInv, WireGood, Got, readerVars
  <2>4. QED
    BY <1>1, <1>2, <2>1, <2>2, <2>3, SenderKeepsReader DEF StreamInv
<1>6. CASE OnExecuted
  <2>1. /\ sender = "columns" /\ sender' = "rows" /\ sent = "none" /\ produced = 0
        /\ batch = <<>> /\ Len(batch) = 0
        /\ UNCHANGED <<sent, produced, batch, cut, readerVars>>
    BY <1>2, <1>6 DEF OnExecuted, StreamInv, SenderGood
  <2>2. SenderGood'
    BY <2>1 DEF SenderGood
  <2>3. Carries(<<Mark("executed")>>, 0, 0, 0, "none")
    <3>1. Fits(Mark("executed"), 0, 0, 0, "none")
      BY MessageParts DEF Fits
    <3>2. QED
      BY <3>1, CarriesOne
  <2>4. WireGood'
    <3>1. <<Mark("executed")>> \in Seq(Message) /\ Write(<<Mark("executed")>>)
      BY <1>6, MessagesTyped DEF OnExecuted
    <3>2. /\ produced - Len(batch) = 0 /\ produced' - Len(batch') = 0 /\ produced' = 0
          /\ produced <= produced' /\ sender # "ended" /\ sent' = "none"
      <4>1. produced' = 0 /\ Len(batch') = 0
        BY <2>1
      <4>2. produced = 0 /\ Len(batch) = 0
        BY <2>1, Zenon
      <4>3. sender # "ended" /\ sent' = "none"
        BY <2>1
      <4>4. QED
        BY <4>1, <4>2, <4>3
    <3>3. Carries(<<Mark("executed")>>, produced - Len(batch), produced' - Len(batch'), produced', sent')
      BY <2>3, <3>2
    <3>4. produced' - Len(batch') \in Nat
      BY <3>2
    <3>5. QED
      BY <1>1, <2>1, <3>1, <3>2, <3>3, <3>4, SenderKeepsWire, Zenon
  <2>5. QED
    BY <1>1, <2>1, <2>2, <2>4, SenderKeepsReader DEF StreamInv
<1>7. CASE OnRow
  <2>1. /\ sender = "rows" /\ sent = "none" /\ produced' = produced + 1
        /\ UNCHANGED <<sender, sent, wire, cut, readerVars>>
    BY <1>7 DEF OnRow, StreamInv, SenderGood
  <2>2. /\ Len(batch') = Len(batch) + 1
        /\ \A j \in 1..Len(batch) : batch'[j] = batch[j]
        /\ batch'[Len(batch) + 1] = produced + 1
    BY <1>2, <1>7, AppendProperties DEF OnRow
  <2>3. produced' - Len(batch') = produced - Len(batch)
    BY <1>2, <2>1, <2>2
  <2>4. SenderGood'
    <3>1. \A j \in 1..Len(batch') : batch'[j] = produced' - Len(batch') + j
      BY <1>2, <2>1, <2>2, <2>3 DEF StreamInv, SenderGood
    <3>2. Len(batch') <= produced'
      BY <1>2, <2>1, <2>2
    <3>3. QED
      BY <2>1, <3>1, <3>2 DEF SenderGood
  <2>5. WireGood'
    <3>1. PICK c \in Nat : /\ Carries(wire, Got, c, produced, "none")
                           /\ ~cut => c = produced - Len(batch)
      BY <2>1 DEF StreamInv, WireGood
    <3>2. Carries(wire, Got, c, produced', "none")
      <4>1. wire \in Seq(Message) /\ produced <= produced + 1 /\ produced + 1 \in Nat
        BY <1>2 DEF StreamInv, StreamTypeOK
      <4>2. Carries(wire, Got, c, produced + 1, "none")
        BY <1>2, <3>1, <4>1, CarriesOn
      <4>3. QED
        BY <2>1, <4>2
    <3>3. Got' = Got
      BY <2>1 DEF Got, readerVars
    <3>4. QED
      BY <2>1, <2>3, <3>1, <3>2, <3>3 DEF WireGood
  <2>6. produced <= produced'
    BY <1>2, <2>1
  <2>7. QED
    BY <1>1, <2>1, <2>4, <2>5, <2>6, SenderKeepsReader DEF StreamInv
<1>8. CASE OnRowFlush
  <2> DEFINE rows == Append(batch, produced + 1)
             a == produced - Len(batch)
             p == produced + 1
             ms == Header \o Flush(rows)
  <2>1. /\ sender = "rows" /\ sent = "none" /\ produced' = p
        /\ batch' = <<>> /\ Len(batch') = 0 /\ produced' - Len(batch') = p
        /\ UNCHANGED <<sender, sent, cut, readerVars>>
        /\ Write(ms)
    BY <1>2, <1>8 DEF OnRowFlush, NewBatch, StreamInv, SenderGood
  <2>2. /\ rows \in Seq(Nat) /\ Len(rows) = Len(batch) + 1
        /\ \A j \in 1..Len(batch) : rows[j] = batch[j]
        /\ rows[Len(batch) + 1] = produced + 1
    BY <1>2, AppendProperties
  <2> HIDE DEF rows
  <2>3. \A j \in 1..Len(rows) : rows[j] = a + j
    <3>1. \A j \in 1..Len(batch) : rows[j] = a + j
      BY <2>2 DEF StreamInv, SenderGood
    <3>2. rows[Len(batch) + 1] = a + (Len(batch) + 1)
      BY <1>2, <2>2
    <3>3. \A j \in 1..Len(rows) : j \in 1..Len(batch) \/ j = Len(batch) + 1
      BY <1>2, <2>2
    <3>4. QED
      BY <3>1, <3>2, <3>3
  <2>4. a \in Nat /\ p \in Nat /\ a <= p /\ a + Len(rows) = p /\ produced <= p
    BY <1>2, <2>2
  <2> HIDE DEF a, p
  <2>5. Carries(ms, a, p, p, "none")
    <3>1. Carries(Header, a, a, p, "none")
      BY <2>4, HeaderCarries
    <3>2. Carries(Flush(rows), a, p, p, "none")
      <4>1. a + Len(rows) <= p
        BY <2>4
      <4>2. Carries(Flush(rows), a, a + Len(rows), p, "none")
        BY <2>2, <2>3, <2>4, <4>1, FlushCarries
      <4>3. QED
        BY <2>4, <4>2
    <3>3. Header \in Seq(Message) /\ Flush(rows) \in Seq(Message)
      BY <2>2, MessagesTyped
    <3>4. QED
      BY <2>4, <3>1, <3>2, <3>3, CarriesBoth
  <2>6. ms \in Seq(Message)
    BY <2>2, MessagesTyped, ConcatProperties, Zenon
  <2> HIDE DEF ms
  <2>7. WireGood'
    <3>1. Carries(ms, produced - Len(batch), p, p, "none")
      BY <2>5 DEF a
    <3>2. QED
      BY <1>1, <2>1, <2>4, <2>6, <3>1, SenderKeepsWire
  <2>8. SenderGood'
    BY <1>2, <2>1 DEF SenderGood
  <2>9. QED
    BY <1>1, <2>1, <2>4, <2>7, <2>8, SenderKeepsReader DEF StreamInv
<1>9. ASSUME sender = "rows", sender' = "ended", batch' = <<>>,
             NEW ending \in Message, Write(Closing \o <<ending>>),
             UNCHANGED <<produced, cut, readerVars>>,
             sent' # "none", Fits(ending, produced, produced, produced, sent')
      PROVE  StreamInv'
  <2>1. Len(batch') = 0 /\ produced' - Len(batch') = produced
    BY <1>2, <1>9
  <2>2. Closing \in Seq(Message) /\ <<ending>> \in Seq(Message)
    BY <1>2, ClosingTyped
  <2>3. Closing \o <<ending>> \in Seq(Message)
    BY <2>2, ConcatProperties, Zenon
  <2>4. Carries(Closing, produced - Len(batch), produced, produced, sent')
    <3> DEFINE s == sent'
    <3>1. s # "none"
      BY <1>9
    <3> HIDE DEF s
    <3>2. Carries(Closing, produced - Len(batch), produced, produced, s)
      BY <3>1, ClosingCarries DEF StreamInv
    <3>3. QED
      BY <3>2 DEF s
  <2>5. Carries(<<ending>>, produced, produced, produced, sent')
    BY <1>2, <1>9, CarriesOne
  <2>6. Carries(Closing \o <<ending>>, produced - Len(batch), produced, produced, sent')
    BY <1>2, <2>2, <2>4, <2>5, CarriesBoth
  <2>7. WireGood'
    <3>1. Carries(Closing \o <<ending>>, produced - Len(batch),
                  produced' - Len(batch'), produced', sent')
      BY <1>9, <2>1, <2>6
    <3>2. produced <= produced' /\ produced' - Len(batch') \in Nat /\ sender # "ended"
      BY <1>2, <1>9, <2>1
    <3>3. QED
      BY <1>1, <1>9, <2>3, <3>1, <3>2, SenderKeepsWire, Zenon
  <2>8. SenderGood'
    BY <1>2, <1>9, <2>1 DEF SenderGood
  <2>9. QED
    BY <1>1, <1>2, <1>9, <2>7, <2>8, SenderKeepsReader DEF StreamInv
<1>10. CASE OnDone
  <2>1. Summary(produced) \in Message
    BY <1>2, MessagesTyped
  <2>2. Fits(Summary(produced), produced, produced, produced, "done")
    BY <1>2, MessageParts DEF Fits
  <2>3. QED
    BY <1>9, <1>10, <2>1, <2>2 DEF OnDone
<1>11. CASE OnError
  <2>1. Mark("error") \in Message
    BY MessagesTyped
  <2>2. Fits(Mark("error"), produced, produced, produced, "error")
    BY <1>2, MessageParts DEF Fits
  <2>3. QED
    BY <1>9, <1>11, <2>1, <2>2 DEF OnError
<1>12. QED
  BY <1>3, <1>4, <1>5, <1>6, <1>7, <1>8, <1>10, <1>11 DEF Sender

\* A cut leaves a prefix of the body.
LEMMA CutKeepsInv ==
  ASSUME StreamInv, Cut
  PROVE  StreamInv'
<1>1. StreamTypeOK'
  BY CutTyped DEF StreamInv
<1>2. PICK n \in 0..Len(wire) : wire' = SubSeq(wire, 1, n)
  BY DEF Cut
<1>3. PICK b \in Nat : Carries(wire, Got, b, produced, sent)
  BY DEF StreamInv, WireGood
<1>4. PICK c \in Nat : Carries(SubSeq(wire, 1, n), Got, c, produced, sent)
  BY <1>3, CarriesPrefix DEF StreamInv, StreamTypeOK
<1>5. Got' = Got /\ produced' = produced /\ sent' = sent /\ cut'
  BY DEF Cut, senderVars, readerVars, Got
<1>6. WireGood'
  BY <1>2, <1>4, <1>5 DEF WireGood
<1>7. SenderGood' /\ ReaderGood'
  BY DEF Cut, senderVars, readerVars, StreamInv, SenderGood, ReaderGood, Got
<1>8. UncutIsWhole'
  BY <1>5 DEF UncutIsWhole
<1>9. QED
  BY <1>1, <1>6, <1>7, <1>8 DEF StreamInv

\* A message is read: what it carries goes where the reader puts it, and the rest of
\* the body follows.
LEMMA TakeCarries ==
  ASSUME StreamInv, wire # <<>>, Take
  PROVE  /\ Head(wire) \in Message
         /\ SenderGood' /\ UNCHANGED <<produced, sent, batch, cut>>
         /\ \E c \in Nat : /\ Fits(Head(wire), Got, c, produced, sent)
                           /\ Got' = c => WireGood'
<1>1. wire \in Seq(Message)
  BY DEF StreamInv, StreamTypeOK
<1>2. Head(wire) \in Message
  BY <1>1, HeadTailProperties
<1>3. UNCHANGED <<sender, produced, sent, batch, cut>> /\ wire' = Tail(wire)
  BY DEF Take, senderVars
<1>4. SenderGood'
  BY <1>3 DEF StreamInv, SenderGood
<1>5. PICK b \in Nat : /\ Carries(wire, Got, b, produced, sent)
                       /\ ~cut => b = produced - Len(batch)
  BY DEF StreamInv, WireGood
<1>6. PICK c \in Nat : /\ Fits(Head(wire), Got, c, produced, sent)
                       /\ Carries(Tail(wire), c, b, produced, sent)
  BY <1>1, <1>5, CarriesTail
<1>7. ASSUME Got' = c PROVE WireGood'
  BY <1>3, <1>5, <1>6, <1>7 DEF WireGood
<1>8. QED
  BY <1>2, <1>3, <1>4, <1>6, <1>7

\* A step of the reader that takes nothing from the body.
LEMMA ReaderKeepsWire ==
  ASSUME StreamInv, UNCHANGED <<senderVars, wire, cut>>, Got' = Got
  PROVE  WireGood' /\ SenderGood'
BY DEF StreamInv, WireGood, SenderGood, senderVars

\* The message with the outcome comes after every row, says how the query ended, and
\* counts its rows.
LEMMA OutcomeCarries ==
  ASSUME NEW m, NEW a, NEW b, NEW p, NEW s, m.kind \in {"eos", "done", "error"}, Fits(m, a, b, p, s)
  PROVE  /\ a = p /\ b = p
         /\ m.kind = "done" => s = "done" /\ m.count = p
         /\ m.kind = "error" => s = "error"
BY DEF Fits

LEMMA ReaderKeepsInv ==
  ASSUME StreamInv, Reader
  PROVE  StreamInv'
<1>1. StreamTypeOK'
  BY ReaderTyped DEF StreamInv
<1>2. /\ Got = Len(delivered) + Len(record) /\ Got \in Nat /\ produced \in Nat
      /\ Len(delivered) \in Nat /\ Len(record) \in Nat
      /\ delivered \in Seq(Nat) /\ record \in Seq(Nat)
      /\ outcome \in [kind : {"none", "done", "error"}, rows : Nat]
  BY LenProperties, SizeAssumption DEF StreamInv, StreamTypeOK, Got
<1>3. ASSUME wire # <<>>, Take, Head(wire).kind \in {"executed", "header", "eos"},
             UNCHANGED <<record, delivered, outcome>>,
             reader # "ended", reader' # "ended", reader' # "open" => record = <<>>
      PROVE  StreamInv'
  <2>1. Got' = Got
    BY <1>3 DEF Got
  <2>2. PICK c \in Nat : /\ Fits(Head(wire), Got, c, produced, sent)
                         /\ Got' = c => WireGood'
    BY <1>3, TakeCarries
  <2>3. c = Got
    BY <1>3, <2>2 DEF Fits
  <2>4. SenderGood' /\ UNCHANGED <<produced, sent, batch, cut>>
    BY <1>3, TakeCarries
  <2>5. ReaderGood'
    BY <1>3, <2>1, <2>4 DEF StreamInv, ReaderGood
  <2>6. UncutIsWhole'
    BY <1>3, <2>4 DEF StreamInv, UncutIsWhole
  <2>7. QED
    BY <1>1, <2>1, <2>2, <2>3, <2>4, <2>5, <2>6 DEF StreamInv
<1>4. ASSUME wire # <<>>, Take, record = <<>>, NEW kind \in {"done", "error"},
             Head(wire).kind = kind, NEW rows, Tell(kind, rows),
             kind = "done" => rows = Head(wire).count,
             UNCHANGED <<record, delivered>>
      PROVE  StreamInv'
  <2>1. Got' = Got /\ Got = Len(delivered)
    <3>1. Len(record) = 0
      BY <1>4
    <3>2. QED
      BY <1>2, <1>4, <3>1 DEF Got
  <2>2. PICK c \in Nat : /\ Fits(Head(wire), Got, c, produced, sent)
                         /\ Got' = c => WireGood'
    BY <1>4, TakeCarries
  <2>3. /\ Got = produced /\ c = produced /\ sent = kind
        /\ kind = "done" => rows = produced
    <3>1. Head(wire).kind \in {"eos", "done", "error"}
      BY <1>4
    <3>2. QED
      BY <1>4, <2>2, <3>1, OutcomeCarries
  <2>4. SenderGood' /\ UNCHANGED <<produced, sent, batch, cut>>
    BY <1>4, TakeCarries
  <2>5. outcome' = [kind |-> kind, rows |-> rows] /\ reader' = "ended"
    BY <1>4 DEF Tell
  <2>6. ReaderGood'
    BY <1>4, <2>1, <2>4, <2>5 DEF StreamInv, ReaderGood
  <2>7. UncutIsWhole'
    BY <1>4, <2>1, <2>3, <2>4, <2>5 DEF UncutIsWhole
  <2>8. QED
    BY <1>1, <2>1, <2>2, <2>3, <2>4, <2>6, <2>7 DEF StreamInv
<1>5. ASSUME Lost, record = <<>>, NEW kind \in {"done", "error"}, Tell(kind, 0),
             UNCHANGED <<record, delivered, senderVars, wire, cut>>
      PROVE  StreamInv'
  <2>1. outcome' = [kind |-> kind, rows |-> 0] /\ reader' = "ended" /\ cut' /\ Got' = Got
    BY <1>5 DEF Tell, Lost, Got
  <2>2. WireGood' /\ SenderGood'
    BY <1>5, <2>1, ReaderKeepsWire
  <2>3. ReaderGood'
    BY <1>5, <2>1 DEF StreamInv, ReaderGood, senderVars
  <2>4. UncutIsWhole'
    BY <2>1 DEF UncutIsWhole
  <2>5. QED
    BY <1>1, <2>2, <2>3, <2>4 DEF StreamInv
<1>6. CASE ReadExecuted
  BY <1>3, <1>6 DEF ReadExecuted, Arrived, readerVars, StreamInv, ReaderGood
<1>7. CASE ReadHeader
  BY <1>3, <1>7 DEF ReadHeader, Arrived
<1>8. CASE NextSegment
  BY <1>3, <1>8 DEF NextSegment, Arrived
<1>9. CASE ReadRefusal
  BY <1>4, <1>9 DEF ReadRefusal, Arrived, StreamInv, ReaderGood
<1>10. CASE ReadDone
  BY <1>4, <1>10 DEF ReadDone, Arrived, StreamInv, ReaderGood
<1>11. CASE ReadError
  BY <1>4, <1>11 DEF ReadError, Arrived, StreamInv, ReaderGood
<1>12. CASE ColumnsCut
  BY <1>5, <1>12 DEF ColumnsCut, StreamInv, ReaderGood
<1>13. CASE NextCut
  BY <1>5, <1>13 DEF NextCut, NextLost, StreamInv, ReaderGood
<1>14. CASE NextRow
  <2>1. /\ record # <<>> /\ Len(record) # 0 /\ reader = "open" /\ reader' = "open"
        /\ delivered' = Append(delivered, Head(record)) /\ record' = Tail(record)
        /\ UNCHANGED <<senderVars, wire, cut, outcome>>
    BY <1>2, <1>14, EmptySeq DEF NextRow
  <2>2. /\ Head(record) = record[1] /\ Head(record) \in Nat
        /\ Len(record') = Len(record) - 1
        /\ \A j \in 1..Len(record') : record'[j] = record[j+1]
    BY <1>2, <2>1, HeadTailProperties
  <2>3. Head(record) = Len(delivered) + 1
    BY <1>2, <2>1, <2>2 DEF StreamInv, ReaderGood
  <2>4. /\ Len(delivered') = Len(delivered) + 1
        /\ \A i \in 1..Len(delivered) : delivered'[i] = delivered[i]
        /\ delivered'[Len(delivered) + 1] = Len(delivered) + 1
    BY <1>2, <2>1, <2>2, <2>3, AppendProperties
  <2>5. Got' = Got
    BY <1>2, <2>2, <2>4 DEF Got
  <2>6. WireGood' /\ SenderGood'
    BY <2>1, <2>5, ReaderKeepsWire
  <2>7. \A i \in 1..Len(delivered') : delivered'[i] = i
    <3>1. \A i \in 1..Len(delivered) : delivered[i] = i
      BY DEF StreamInv, ReaderGood
    <3>2. QED
      BY <1>2, <2>4, <3>1
  <2>8. \A j \in 1..Len(record') : record'[j] = Len(delivered') + j
    <3>1. \A j \in 1..Len(record) : record[j] = Len(delivered) + j
      BY DEF StreamInv, ReaderGood
    <3>2. QED
      BY <1>2, <2>2, <2>4, <3>1
  <2>9. ReaderGood'
    <3>1. outcome.kind = "none" /\ Got' <= produced'
      BY <2>1, <2>5 DEF StreamInv, ReaderGood, senderVars
    <3>2. QED
      BY <2>1, <2>7, <2>8, <3>1 DEF ReaderGood
  <2>10. UncutIsWhole'
    BY <2>1 DEF StreamInv, ReaderGood, UncutIsWhole
  <2>11. QED
    BY <1>1, <2>6, <2>9, <2>10 DEF StreamInv
<1>15. CASE NextBatch
  <2>1. /\ wire # <<>> /\ Take /\ Head(wire).kind = "batch" /\ record = <<>> /\ Len(record) = 0
        /\ record' = Head(wire).rows /\ reader = "open" /\ reader' = "open"
        /\ UNCHANGED <<delivered, outcome>>
    BY <1>15 DEF NextBatch, Arrived
  <2>2. PICK c \in Nat : /\ Fits(Head(wire), Got, c, produced, sent)
                         /\ Got' = c => WireGood'
    BY <2>1, TakeCarries
  <2>3. /\ Got = Len(delivered) /\ c <= produced /\ c = Len(delivered) + Len(record')
        /\ \A j \in 1..Len(record') : record'[j] = Len(delivered) + j
    <3>1. Got = Len(delivered)
      BY <1>2, <2>1
    <3>2. QED
      BY <2>1, <2>2, <3>1 DEF Fits
  <2>4. SenderGood' /\ UNCHANGED <<produced, sent, batch, cut>>
    BY <2>1, TakeCarries
  <2>5. Got' = c
    BY <2>1, <2>3 DEF Got
  <2>6. ReaderGood'
    BY <2>1, <2>3, <2>4, <2>5 DEF StreamInv, ReaderGood
  <2>7. UncutIsWhole'
    BY <2>1 DEF StreamInv, ReaderGood, UncutIsWhole
  <2>8. QED
    BY <1>1, <2>2, <2>4, <2>5, <2>6, <2>7 DEF StreamInv
<1>16. QED
  BY <1>6, <1>7, <1>8, <1>9, <1>10, <1>11, <1>12, <1>13, <1>14, <1>15 DEF Reader

\* Every row of the query is in one place, in its order: with the caller, in the record
\* the reader holds, in the body, or in the builder, unless a cut has lost it.
THEOREM StreamInvariant == StreamSafety => []StreamInv
<1>1. StreamInit => StreamInv
  <2>1. SUFFICES ASSUME StreamInit
                 PROVE  StreamInv
    OBVIOUS
  <2>2. StreamTypeOK
    BY <2>1, StreamInitTyped
  <2>3. /\ wire = <<>> /\ Len(batch) = 0 /\ Len(delivered) = 0 /\ Len(record) = 0
        /\ produced = 0 /\ Got = 0
    BY <2>1 DEF StreamInit, Got
  <2>4. WireGood
    <3>1. Carries(<<>>, 0, 0, produced, sent)
      BY CarriesNothing
    <3>2. QED
      BY <2>3, <3>1 DEF WireGood
  <2>5. SenderGood /\ ReaderGood /\ UncutIsWhole
    BY <2>1, <2>3 DEF StreamInit, SenderGood, ReaderGood, UncutIsWhole
  <2>6. QED
    BY <2>2, <2>4, <2>5 DEF StreamInv
<1>2. StreamInv /\ [StreamNext]_streamVars => StreamInv'
  <2>1. SUFFICES ASSUME StreamInv, [StreamNext]_streamVars
                 PROVE  StreamInv'
    OBVIOUS
  <2>2. CASE UNCHANGED streamVars
    BY <2>1, <2>2 DEF StreamInv, StreamTypeOK, WireGood, SenderGood, ReaderGood,
                      UncutIsWhole, Got, streamVars, senderVars, readerVars
  <2>3. QED
    BY <2>1, <2>2, SenderKeepsInv, CutKeepsInv, ReaderKeepsInv DEF StreamNext
<1>3. QED
  BY <1>1, <1>2, PTL DEF StreamSafety

\* Rows reach the caller in the order of the query, none twice and none skipped,
\* wherever the body ends.
THEOREM StreamOrder == StreamSafety => []RowsInOrder
<1>1. StreamInv => RowsInOrder
  BY LenProperties, SizeAssumption DEF StreamInv, StreamTypeOK, ReaderGood, RowsInOrder, Got
<1>2. QED
  BY <1>1, StreamInvariant, PTL

\* A body that arrives whole ends for the caller as the query ended, after all its
\* rows, and the summary counts them.
THEOREM StreamWhole == StreamSafety => []UncutIsWhole
<1>1. StreamInv => UncutIsWhole
  BY DEF StreamInv
<1>2. QED
  BY <1>1, StreamInvariant, PTL

(***************************************************************************)
(* The stream implements the feed.                                         *)
(***************************************************************************)

\* A step of the server is a row of the query, its end, or nothing the caller is
\* promised anything about.
LEMMA SenderFeeds ==
  ASSUME StreamInv, Sender
  PROVE  [Feed!Next]_(Feed!feedVars)
<1>1. sent \in {"none", "done", "error"} /\ (sender = "ended" <=> sent # "none")
  BY DEF StreamInv, StreamTypeOK, SenderGood
<1>2. CASE Refuse \/ AnswerExec \/ OnDone \/ OnError
  <2>1. Feed!Finish
    BY <1>1, <1>2 DEF Refuse, AnswerExec, OnDone, OnError, Feed!Finish, readerVars
  <2>2. QED
    BY <2>1 DEF Feed!Next
<1>3. CASE OnRow \/ OnRowFlush
  <2>1. Feed!Produce
    BY <1>1, <1>3 DEF OnRow, OnRowFlush, Feed!Produce, readerVars
  <2>2. QED
    BY <2>1 DEF Feed!Next
<1>4. CASE OnColumns \/ OnExecuted
  BY <1>4 DEF OnColumns, OnExecuted, Feed!feedVars, readerVars
<1>5. QED
  BY <1>2, <1>3, <1>4 DEF Sender

LEMMA CutFeeds ==
  ASSUME StreamInv, Cut
  PROVE  Feed!Break
BY DEF Cut, Feed!Break, Feed!Open, StreamInv, ReaderGood, senderVars, readerVars

\* A step of the client hands out the next row, tells how the query ended after its
\* last row, gives up a lost connection, or shows the caller nothing.
LEMMA ReaderFeeds ==
  ASSUME StreamInv, Reader
  PROVE  [Feed!Next]_(Feed!feedVars)
<1>1. /\ Got = Len(delivered) + Len(record) /\ produced \in Nat
      /\ Len(delivered) \in Nat /\ Len(record) \in Nat
      /\ delivered \in Seq(Nat) /\ record \in Seq(Nat)
      /\ reader = "ended" <=> outcome.kind # "none"
      /\ reader # "open" => record = <<>>
  BY LenProperties, SizeAssumption DEF StreamInv, StreamTypeOK, ReaderGood, Got
<1>2. CASE ReadExecuted \/ ReadHeader \/ NextBatch \/ NextSegment
  BY <1>2 DEF ReadExecuted, ReadHeader, NextBatch, NextSegment, Take, Feed!feedVars, senderVars, readerVars
<1>3. CASE NextRow
  <2>1. /\ record # <<>> /\ Len(record) # 0 /\ reader = "open"
        /\ delivered' = Append(delivered, Head(record))
        /\ UNCHANGED <<senderVars, cut, outcome>>
    BY <1>1, <1>3, EmptySeq DEF NextRow
  <2>2. Head(record) = Len(delivered) + 1
    <3>1. Head(record) = record[1]
      BY <1>1, <2>1
    <3>2. QED
      BY <1>1, <2>1, <3>1 DEF StreamInv, ReaderGood
  <2>3. Len(delivered) < produced
    BY <1>1, <2>1 DEF StreamInv, ReaderGood
  <2>4. Feed!Deliver
    BY <1>1, <2>1, <2>2, <2>3 DEF Feed!Deliver, Feed!Open, senderVars
  <2>5. QED
    BY <2>4 DEF Feed!Next
<1>4. ASSUME reader # "ended", record = <<>>, wire # <<>>, Take,
             NEW kind \in {"done", "error"}, Head(wire).kind = kind,
             NEW rows, Tell(kind, rows),
             rows = IF kind = "done" THEN Head(wire).count ELSE 0,
             UNCHANGED delivered
      PROVE  Feed!Tell
  <2>1. PICK c \in Nat : Fits(Head(wire), Got, c, produced, sent)
    BY <1>4, TakeCarries
  <2>2. Got = Len(delivered)
    <3>1. Len(record) = 0
      BY <1>4
    <3>2. QED
      BY <1>1, <3>1
  <2>3. /\ Len(delivered) = produced /\ sent = kind
        /\ rows = IF sent = "done" THEN produced ELSE 0
    <3>1. Head(wire).kind \in {"eos", "done", "error"}
      BY <1>4
    <3>2. QED
      BY <1>4, <2>1, <2>2, <3>1, OutcomeCarries
  <2>4. outcome' = [kind |-> kind, rows |-> rows] /\ UNCHANGED <<produced, sent, cut>>
    BY <1>4 DEF Tell, Take, senderVars
  <2>5. QED
    BY <1>1, <1>4, <2>3, <2>4 DEF Feed!Tell, Feed!Open
<1>5. ASSUME reader # "ended", Lost, NEW kind \in {"done", "error"}, Tell(kind, 0),
             UNCHANGED <<delivered, senderVars, cut>>
      PROVE  Feed!GiveUp
  BY <1>1, <1>5 DEF Tell, Lost, Feed!GiveUp, Feed!Open, senderVars
<1>6. CASE ReadRefusal \/ ReadDone \/ ReadError
  <2>1. Feed!Tell
    BY <1>1, <1>4, <1>6 DEF ReadRefusal, ReadDone, ReadError, Arrived
  <2>2. QED
    BY <2>1 DEF Feed!Next
<1>7. CASE ColumnsCut \/ NextCut
  <2>1. Feed!GiveUp
    BY <1>5, <1>7 DEF ColumnsCut, NextCut, NextLost
  <2>2. QED
    BY <2>1 DEF Feed!Next
<1>8. QED
  BY <1>2, <1>3, <1>6, <1>7 DEF Reader

\* A result on the wire is what the caller is promised: its rows in order, then once
\* its outcome, the query's own while the connection stands and after every row.
THEOREM StreamImplementsFeed == StreamSafety => ImplementsFeed
<1>1. StreamInit => Feed!Init
  BY DEF StreamInit, Feed!Init
<1>2. StreamInv /\ [StreamNext]_streamVars => [Feed!Next]_(Feed!feedVars)
  <2>1. SUFFICES ASSUME StreamInv, [StreamNext]_streamVars
                 PROVE  [Feed!Next]_(Feed!feedVars)
    OBVIOUS
  <2>2. CASE Cut
    BY <2>1, <2>2, CutFeeds DEF Feed!Next
  <2>3. CASE UNCHANGED streamVars
    BY <2>3 DEF Feed!feedVars, streamVars, senderVars, readerVars
  <2>4. QED
    BY <2>1, <2>2, <2>3, SenderFeeds, ReaderFeeds DEF StreamNext
<1>3. QED
  BY <1>1, <1>2, StreamInvariant, PTL DEF StreamSafety, ImplementsFeed, Feed!Spec

=============================================================================
