---------------------------- MODULE QueryRunProofs ----------------------------
(***************************************************************************)
(* Proofs about QueryRun, for every number of runs, of rows and of pages:  *)
(* no run is out of reach of a cancel, and a page that was ready stays as  *)
(* it was.                                                                 *)
(***************************************************************************)
EXTENDS QueryRun, TLAPS

\* A run has a displaced entry in hand only between the two halves of
\* RegisterCancel, and its buffer is finished only once it has ended.
Orderly ==
  \A r \in Run :
    /\ previous[r] # None => at[r] = "registered"
    /\ done[r] => at[r] \in {"ended", "gone"}

\* A page is settled at the rows it has, and can get no more.
Final ==
  \A r \in Run, p \in Page :
    settled[r][p] # Unsettled => settled[r][p] = RowsOn(r, p) /\ (done[r] \/ RowsOn(r, p) = PageSize)

IInv == TypeOK /\ Orderly /\ Cancellable /\ Final

-----------------------------------------------------------------------------
\* A page has at most PageSize rows.
LEMMA RowsOnRange ==
  ASSUME rows \in [Run -> 0..MaxRows], NEW r \in Run, NEW p \in Page
  PROVE  RowsOn(r, p) \in 0..PageSize
<1> DEFINE start == p * PageSize
<1>1. start \in Nat
  <2>1. p \in Nat /\ PageSize \in Nat
    BY SizeAssumption DEF Page
  <2> QED BY <2>1
<1>2. rows[r] \in Nat /\ PageSize \in Nat
  BY SizeAssumption
<1> HIDE DEF start
<1>3. (IF rows[r] <= start THEN 0 ELSE Least(rows[r] - start, PageSize)) \in 0..PageSize
  BY <1>1, <1>2 DEF Least
<1> QED BY <1>3 DEF RowsOn, start

\* A full page stays full when a row is appended.
LEMMA FullStays ==
  ASSUME rows \in [Run -> 0..MaxRows], NEW r \in Run, NEW p \in Page,
         RowsOn(r, p) = PageSize, rows' \in [Run -> 0..MaxRows], rows'[r] >= rows[r]
  PROVE  RowsOn(r, p)' = PageSize
<1> DEFINE start == p * PageSize
<1>1. start \in Nat
  <2>1. p \in Nat /\ PageSize \in Nat
    BY SizeAssumption DEF Page
  <2> QED BY <2>1
<1>2. rows[r] \in Nat /\ rows'[r] \in Nat /\ PageSize \in Nat \ {0}
  BY SizeAssumption
<1>3. (IF rows[r] <= start THEN 0 ELSE Least(rows[r] - start, PageSize)) = PageSize
  BY DEF RowsOn
<1> HIDE DEF start
<1>4. (IF rows'[r] <= start THEN 0 ELSE Least(rows'[r] - start, PageSize)) = PageSize
  BY <1>1, <1>2, <1>3 DEF Least
<1> QED BY <1>4 DEF RowsOn, start

LEMMA InitIInv == Init => IInv
<1> SUFFICES ASSUME Init PROVE IInv
  OBVIOUS
<1>1. TypeOK
  BY SizeAssumption DEF Init, TypeOK, MaybeRun, Place, Unsettled, Page
<1>2. Orderly /\ Cancellable /\ Final
  BY DEF Init, Orderly, Cancellable, Live, Final
<1> QED BY <1>1, <1>2 DEF IInv

-----------------------------------------------------------------------------
(* What each part of the invariant needs of a step.                        *)

\* Steps that touch no buffer and no page.
LEMMA FinalKept ==
  ASSUME Final, UNCHANGED <<rows, done, settled>>
  PROVE  Final'
BY DEF Final, RowsOn

\* Steps that touch neither the registry nor the runs it has lost, and make no
\* run live.
LEMMA CancellableKept ==
  ASSUME Cancellable, UNCHANGED <<registered, previous, asked, cancelled>>,
         \A r \in Run : Live(r)' => Live(r)
  PROVE  Cancellable'
BY DEF Cancellable, Doomed

-----------------------------------------------------------------------------
(* One lemma per action.                                                   *)

LEMMA StoreResultKeeps ==
  ASSUME IInv, NEW r \in Run, StoreResult(r)
  PROVE  IInv'
<1>1. TypeOK'
  BY DEF IInv, TypeOK, StoreResult, Go, Place, MaybeRun
<1>2. \A q \in Run : at'[q] = IF q = r THEN "stored" ELSE at[q]
  BY DEF IInv, TypeOK, StoreResult, Go
<1>3. Orderly'
  BY <1>2 DEF IInv, Orderly, StoreResult, Go
<1>4. Cancellable'
  <2>1. \A q \in Run : Live(q)' => Live(q)
    BY <1>2 DEF Live
  <2> QED BY <2>1, CancellableKept DEF IInv, StoreResult
<1>5. Final'
  BY FinalKept DEF IInv, StoreResult
<1> QED BY <1>1, <1>3, <1>4, <1>5 DEF IInv

LEMMA RegisterCancelKeeps ==
  ASSUME IInv, NEW r \in Run, RegisterCancel(r)
  PROVE  IInv'
<1>1. TypeOK'
  BY DEF IInv, TypeOK, RegisterCancel, Go, Place, MaybeRun
<1>2. /\ \A q \in Run : at'[q] = IF q = r THEN "registered" ELSE at[q]
      /\ \A q \in Run : previous'[q] = IF q = r THEN registered ELSE previous[q]
      /\ previous[r] = None
  BY DEF IInv, TypeOK, Orderly, RegisterCancel, Go
<1>3. Orderly'
  BY <1>2 DEF IInv, Orderly, RegisterCancel, Go
<1>4. Cancellable'
  <2> SUFFICES ASSUME NEW q \in Run, Live(q)', q # r
               PROVE  q \in Doomed'
    BY DEF Cancellable, RegisterCancel
  <2>1. q = registered \/ q \in Doomed
    BY <1>2 DEF IInv, Cancellable, Live
  <2>2. CASE q = registered
    BY <1>2, <2>2 DEF Doomed
  <2>3. CASE q \in cancelled \cup asked
    BY <2>3 DEF Doomed, RegisterCancel
  <2>4. CASE \E s \in Run : q = previous[s]
    <3>1. PICK s \in Run : q = previous[s]
      BY <2>4
    <3>2. s # r
      BY <1>2, <3>1, NoneAssumption
    <3> QED BY <1>2, <3>1, <3>2 DEF Doomed
  <2> QED BY <2>1, <2>2, <2>3, <2>4 DEF Doomed
<1>5. Final'
  BY FinalKept DEF IInv, RegisterCancel
<1> QED BY <1>1, <1>3, <1>4, <1>5 DEF IInv

LEMMA CancelPreviousKeeps ==
  ASSUME IInv, NEW r \in Run, CancelPrevious(r)
  PROVE  IInv'
<1>1. TypeOK'
  BY DEF IInv, TypeOK, CancelPrevious, Displaced, Go, Place, MaybeRun
<1>2. /\ \A q \in Run : at'[q] = IF q = r THEN "started" ELSE at[q]
      /\ \A q \in Run : previous'[q] = IF q = r THEN None ELSE previous[q]
      /\ at[r] = "registered"
  BY DEF IInv, TypeOK, CancelPrevious, Go
<1>3. Orderly'
  BY <1>2 DEF IInv, Orderly, CancelPrevious
<1>4. Cancellable'
  <2> SUFFICES ASSUME NEW q \in Run, Live(q)', q # registered
               PROVE  q \in Doomed'
    BY DEF Cancellable, CancelPrevious
  <2>1. q \in Doomed
    BY <1>2 DEF IInv, Cancellable, Live
  <2>2. CASE q \in cancelled \cup asked
    BY <2>2 DEF Doomed, CancelPrevious
  <2>3. CASE \E s \in Run : q = previous[s]
    <3>1. PICK s \in Run : q = previous[s]
      BY <2>3
    <3>2. CASE s = r
      BY <3>1, <3>2, NoneAssumption DEF Doomed, CancelPrevious, Displaced
    <3>3. CASE s # r
      BY <1>2, <3>1, <3>3 DEF Doomed
    <3> QED BY <3>2, <3>3
  <2> QED BY <2>1, <2>2, <2>3 DEF Doomed
<1>5. Final'
  BY FinalKept DEF IInv, CancelPrevious
<1> QED BY <1>1, <1>3, <1>4, <1>5 DEF IInv

\* Columns, StartEvent and StashMeta: the run goes on.
LEMMA StartKeeps ==
  ASSUME IInv, NEW r \in Run, Columns(r) \/ StartEvent(r) \/ StashMeta(r)
  PROVE  IInv'
<1>1. TypeOK'
  <2>1. CASE Columns(r)
    BY <2>1 DEF IInv, TypeOK, Columns, Go, Place
  <2>2. CASE StartEvent(r)
    BY <2>2 DEF IInv, TypeOK, StartEvent, Go, Place
  <2>3. CASE StashMeta(r)
    <3>1. meta' \in [Run -> MaybeRun]
      BY <2>3 DEF IInv, TypeOK, StashMeta, MaybeRun
    <3>2. /\ at' \in [Run -> Place]
          /\ told' \in [Run -> {"nothing", "started", "done", "error"}]
      BY <2>3 DEF IInv, TypeOK, StashMeta, Go, Place
    <3> QED BY <2>3, <3>1, <3>2 DEF IInv, TypeOK, StashMeta
  <2> QED BY <2>1, <2>2, <2>3
<1>2. /\ \A q \in Run : q # r => at'[q] = at[q]
      /\ at[r] \in {"started", "columns"} /\ at'[r] \in {"columns", "rows"}
      /\ UNCHANGED <<registered, previous, asked, cancelled, rows, done, settled>>
  BY DEF IInv, TypeOK, Columns, StartEvent, StashMeta, Go
<1>3. Orderly'
  BY <1>2 DEF IInv, Orderly
<1>4. Cancellable'
  <2>1. \A q \in Run : Live(q)' => Live(q)
    BY <1>2 DEF Live
  <2> QED BY <1>2, <2>1, CancellableKept DEF IInv
<1>5. Final'
  BY <1>2, FinalKept DEF IInv
<1> QED BY <1>1, <1>3, <1>4, <1>5 DEF IInv

LEMMA AppendRowKeeps ==
  ASSUME IInv, NEW r \in Run, AppendRow(r)
  PROVE  IInv'
<1>1. TypeOK'
  BY SizeAssumption DEF IInv, TypeOK, AppendRow
<1>2. /\ \A q \in Run : rows'[q] = IF q = r THEN rows[q] + 1 ELSE rows[q]
      /\ ~done[r]
      /\ UNCHANGED <<registered, previous, asked, cancelled, at, done, settled>>
  BY DEF IInv, TypeOK, Orderly, AppendRow
<1>3. Orderly' /\ Cancellable'
  BY <1>2, CancellableKept DEF IInv, Orderly, Live
<1>4. Final'
  <2> SUFFICES ASSUME NEW q \in Run, NEW p \in Page, settled[q][p] # Unsettled
               PROVE  settled[q][p] = RowsOn(q, p)' /\ (done[q] \/ RowsOn(q, p)' = PageSize)
    BY <1>2 DEF Final
  <2>1. settled[q][p] = RowsOn(q, p) /\ (done[q] \/ RowsOn(q, p) = PageSize)
    BY DEF IInv, Final
  <2>2. CASE q # r
    BY <1>2, <2>1, <2>2 DEF RowsOn
  <2>3. CASE q = r
    <3>1. rows'[r] >= rows[r] /\ rows \in [Run -> 0..MaxRows] /\ rows' \in [Run -> 0..MaxRows]
      BY <1>1, <1>2, SizeAssumption DEF IInv, TypeOK
    <3>2. RowsOn(r, p) = PageSize
      BY <1>2, <2>1, <2>3
    <3>3. RowsOn(r, p)' = PageSize
      BY <3>1, <3>2, FullStays
    <3> QED BY <2>1, <2>3, <3>2, <3>3
  <2> QED BY <2>2, <2>3
<1> QED BY <1>1, <1>3, <1>4 DEF IInv

\* Finalize and Fail.
LEMMA EndKeeps ==
  ASSUME IInv, NEW r \in Run, Finalize(r) \/ Fail(r)
  PROVE  IInv'
<1>1. TypeOK'
  BY DEF IInv, TypeOK, Finalize, Fail, End, Go, Place
<1>2. /\ \A q \in Run : at'[q] = IF q = r THEN "ended" ELSE at[q]
      /\ \A q \in Run : done'[q] = IF q = r THEN TRUE ELSE done[q]
      /\ at[r] \in {"started", "rows"}
      /\ UNCHANGED <<registered, previous, asked, cancelled, rows, settled>>
  BY DEF IInv, TypeOK, Finalize, Fail, End, Go
<1>3. Orderly'
  BY <1>2 DEF IInv, Orderly
<1>4. Cancellable'
  <2>1. \A q \in Run : Live(q)' => Live(q)
    BY <1>2 DEF Live
  <2> QED BY <1>2, <2>1, CancellableKept DEF IInv
<1>5. Final'
  BY <1>2 DEF IInv, Final, RowsOn
<1> QED BY <1>1, <1>3, <1>4, <1>5 DEF IInv

LEMMA UnregisterKeeps ==
  ASSUME IInv, NEW r \in Run, Unregister(r)
  PROVE  IInv'
<1>1. TypeOK'
  BY DEF IInv, TypeOK, Unregister, Unregistered, Go, Place, MaybeRun
<1>2. \A q \in Run : at'[q] = IF q = r THEN "gone" ELSE at[q]
  BY DEF IInv, TypeOK, Unregister, Go
<1>3. Orderly'
  BY <1>2 DEF IInv, Orderly, Unregister, Go
<1>4. Cancellable'
  <2> SUFFICES ASSUME NEW q \in Run, Live(q)'
               PROVE  q = registered' \/ q \in Doomed'
    BY DEF Cancellable
  <2>1. q # r /\ Live(q)
    BY <1>2 DEF Live
  <2> QED BY <2>1 DEF IInv, Cancellable, Doomed, Unregister, Unregistered
<1>5. Final'
  BY FinalKept DEF IInv, Unregister
<1> QED BY <1>1, <1>3, <1>4, <1>5 DEF IInv

LEMMA CancelKeeps ==
  ASSUME IInv, Cancel \/ \E r \in Run : CancelAsked(r)
  PROVE  IInv'
<1>1. TypeOK'
  BY DEF IInv, TypeOK, Cancel, CancelAsked, MaybeRun
<1>2. UNCHANGED <<previous, at, rows, done, settled>>
  BY DEF Cancel, CancelAsked
<1>3. Orderly'
  BY <1>2 DEF IInv, Orderly
<1>4. Cancellable'
  BY <1>2 DEF IInv, Cancellable, Live, Doomed, Cancel, CancelAsked
<1>5. Final'
  BY <1>2, FinalKept DEF IInv
<1> QED BY <1>1, <1>3, <1>4, <1>5 DEF IInv

LEMMA EvictKeeps ==
  ASSUME IInv, Evict
  PROVE  IInv'
<1>1. TypeOK'
  BY DEF IInv, TypeOK, Evict, MaybeRun
<1>2. Orderly' /\ Cancellable' /\ Final'
  BY CancellableKept, FinalKept DEF IInv, Orderly, Evict, Live
<1> QED BY <1>1, <1>2 DEF IInv

LEMMA GetResultPageKeeps ==
  ASSUME IInv, NEW r \in Run, NEW p \in Page, GetResultPage(r, p)
  PROVE  IInv'
<1>1. RowsOn(r, p) \in 0..PageSize
  BY RowsOnRange DEF IInv, TypeOK
<1>2. /\ \A q \in Run, s \in Page :
           settled'[q][s] = IF q = r /\ s = p THEN RowsOn(r, p) ELSE settled[q][s]
      /\ settled' \in [Run -> [Page -> Unsettled..PageSize]]
  BY <1>1, SizeAssumption DEF IInv, TypeOK, GetResultPage, Unsettled
<1>3. TypeOK'
  BY <1>2 DEF IInv, TypeOK, GetResultPage
<1>4. Orderly' /\ Cancellable'
  BY CancellableKept DEF IInv, Orderly, GetResultPage, Live
<1>5. Final'
  BY <1>2 DEF IInv, Final, GetResultPage, Ready, RowsOn
<1> QED BY <1>3, <1>4, <1>5 DEF IInv

LEMMA NextKeeps == IInv /\ [Next]_vars => IInv'
<1> SUFFICES ASSUME IInv, [Next]_vars PROVE IInv'
  OBVIOUS
<1>1. ASSUME NEW r \in Run, Stream(r) PROVE IInv'
  BY <1>1, StartKeeps, AppendRowKeeps, EndKeeps, UnregisterKeeps DEF Stream
<1>2. ASSUME NEW r \in Run, StoreResult(r) \/ RegisterCancel(r) \/ CancelPrevious(r) PROVE IInv'
  BY <1>2, StoreResultKeeps, RegisterCancelKeeps, CancelPreviousKeeps
<1>3. ASSUME Cancel \/ \E r \in Run : CancelAsked(r) PROVE IInv'
  BY <1>3, CancelKeeps
<1>4. ASSUME NEW r \in Run, NEW p \in Page, GetResultPage(r, p) PROVE IInv'
  BY <1>4, GetResultPageKeeps
<1>5. CASE Evict
  BY <1>5, EvictKeeps
<1>6. CASE UNCHANGED vars
  <2>1. TypeOK' /\ Orderly'
    BY <1>6 DEF IInv, TypeOK, Orderly, vars
  <2>2. Cancellable' /\ Final'
    BY <1>6, CancellableKept, FinalKept DEF IInv, vars, Live
  <2> QED BY <2>1, <2>2 DEF IInv
<1> QED BY <1>1, <1>2, <1>3, <1>4, <1>5, <1>6 DEF Next

-----------------------------------------------------------------------------
(* The theorems.                                                           *)

\* Every reachable state has the inductive invariant.
THEOREM QueryRunIInv == Spec => []IInv
<1> QED BY InitIInv, NextKeeps, PTL DEF Spec

\* The state of the runs has its shape.
THEOREM QueryRunTypeOK == Spec => []TypeOK
<1>1. IInv => TypeOK
  BY DEF IInv
<1> QED BY <1>1, QueryRunIInv, PTL

\* Every run that goes on can be cancelled, or is (RegisterCancel and the
\* function it returns).
THEOREM QueryRunCancellable == Spec => []Cancellable
<1>1. IInv => Cancellable
  BY DEF IInv
<1> QED BY <1>1, QueryRunIInv, PTL

\* A page that was ready does not change (StreamingResult.Page).
THEOREM QueryRunSettledPages == Spec => []SettledPages
<1>1. IInv => SettledPages
  BY DEF IInv, Final, SettledPages
<1> QED BY <1>1, QueryRunIInv, PTL
=============================================================================
