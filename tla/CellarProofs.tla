----------------------------- MODULE CellarProofs -----------------------------
(***************************************************************************)
(* Proofs about Cellar, for every set of databases and of requests, every  *)
(* number of writes and of restarts: no acknowledged write is lost, a      *)
(* restore finds room, a removed database stays gone, and the cellar       *)
(* implements DbStore.                                                     *)
(***************************************************************************)
EXTENDS Cellar, TLAPS

InUse(d) == \E r \in Request : Is(r, "used", d)
Asked(d) == \E r \in Request : request[r].at # "none" /\ request[r].db = d

\* Neither the file nor the copy has writes that were not acknowledged.
NothingMadeUp == \A d \in Db : file[d] <= acked[d] /\ bucket[d] <= acked[d]

\* Nobody has anything to do with a database that is not born or was removed.
Untouched(d) ==
  /\ restore[d] = "no" /\ record[d] = "none" /\ file[d] = Absent /\ pool[d] = "none"
  /\ ~Asked(d)

OnlyKeptTouched ==
  \A d \in Db :
    /\ life[d] \in {"unborn", "emptying", "gone"} => Untouched(d)
    /\ life[d] \in {"unborn", "gone"} => bucket[d] = Absent

\* A process that does not run will be started again and has nothing in its memory.
DownIsEmpty ==
  ~up => /\ starts < MaxStarts /\ idle = {}
         /\ \A r \in Request : request[r].at = "none"
         /\ \A d \in Db : restore[d] = "no" /\ record[d] = "none" /\ pool[d] = "none"

\* Only what has no record is restored; connections are on a file; what is idle has
\* no statement; a file without a record is being registered or was left behind.
Apart ==
  \A d \in Db :
    /\ restore[d] # "no" => record[d] = "none"
    /\ pool[d] = "current" => file[d] # Absent
    /\ d \in idle => ~InUse(d)
    /\ up /\ record[d] = "none" /\ restore[d] # "written" /\ file[d] # Absent => d \in half

\* What a rested or restored database needs to lose its file: the bucket has all of
\* it and nobody can write.
Frozen(d) == bucket[d] = acked[d] /\ pool[d] = "none" /\ ~InUse(d)

Whole ==
  \A d \in Db : Kept(d) =>
    /\ acked[d] >= 0
    /\ file[d] # Absent => file[d] = acked[d]
    /\ file[d] = Absent => Frozen(d)
    /\ pool[d] # "stale"
    /\ record[d] = "resting" => Frozen(d)
    /\ restore[d] = "written" => Frozen(d) /\ file[d] # Absent
    /\ d \in tidy.synced \cap idle /\ record[d] = "replicating" => bucket[d] = acked[d]

IInv == TypeOK /\ NothingMadeUp /\ OnlyKeptTouched /\ DownIsEmpty /\ Apart /\ Whole

Place == {"none", "sent", "cold", "waiting", "awake", "used"}

-----------------------------------------------------------------------------
LEMMA NobodyType == Nobody \in [at : Place, db : Db] /\ Nobody.at = "none"
BY DbAssumption DEF Nobody, Place

LEMMA InitIInv == Init => IInv
<1> SUFFICES ASSUME Init PROVE IInv
  OBVIOUS
<1> USE BoundAssumption DEF Init
<1>1. \A r \in Request : request[r].at = "none"
  BY NobodyType
<1>2. TypeOK
  BY NobodyType DEF TypeOK, Content, Absent, Asleep, Place
<1>3. NothingMadeUp /\ OnlyKeptTouched /\ DownIsEmpty
  BY <1>1 DEF NothingMadeUp, OnlyKeptTouched, DownIsEmpty, Untouched, Asked, Absent
<1>4. Apart /\ Whole
  BY <1>1 DEF Apart, Whole, Kept
<1> QED BY <1>2, <1>3, <1>4 DEF IInv

-----------------------------------------------------------------------------
(* Statements.                                                             *)

\* The requests that are about d, and those that may write to it.
Fewer ==
  \A r \in Request, d \in Db :
    /\ request'[r].at # "none" /\ request'[r].db = d => Asked(d)
    /\ Is(r, "used", d)' => Is(r, "used", d)

\* A step that only moves requests on, to no new database and to no use of one.
LEMMA RequestsMoveOn ==
  ASSUME IInv, Fewer, request' \in [Request -> [at : Place, db : Db]],
         ~up => request' = request,
         UNCHANGED <<file, bucket, record, idle, pool, restore, tidy, life, acked, up,
                     starts, half>>
  PROVE  IInv'
<1>1. \A d \in Db : (InUse(d)' => InUse(d)) /\ (Asked(d)' => Asked(d))
  BY DEF Fewer, InUse, Asked
<1>2. TypeOK'
  BY DEF IInv, TypeOK, Place
<1>3. NothingMadeUp' /\ DownIsEmpty'
  BY DEF IInv, NothingMadeUp, DownIsEmpty
<1>4. OnlyKeptTouched'
  BY <1>1 DEF IInv, OnlyKeptTouched, Untouched
<1>5. Apart'
  BY <1>1 DEF IInv, Apart
<1>6. Whole'
  BY <1>1 DEF IInv, Whole, Frozen, Kept
<1> QED BY <1>2, <1>3, <1>4, <1>5, <1>6 DEF IInv

LEMMA SendKeeps ==
  ASSUME IInv, NEW r \in Request, NEW d \in Db, Send(r, d)
  PROVE  IInv'
<1>1. request' \in [Request -> [at : Place, db : Db]]
  BY DEF IInv, TypeOK, Send, Place
<1>2. /\ \A q \in Request : q # r => request'[q] = request[q]
      /\ request'[r] = [at |-> "sent", db |-> d]
  BY DEF IInv, TypeOK, Send
<1>3. \A e \in Db : (InUse(e)' => InUse(e)) /\ (e # d /\ Asked(e)' => Asked(e))
  BY <1>2 DEF InUse, Asked, Is
<1>4. TypeOK'
  BY <1>1 DEF IInv, TypeOK, Send, Place
<1>5. NothingMadeUp' /\ DownIsEmpty'
  BY DEF IInv, NothingMadeUp, DownIsEmpty, Send
<1>6. OnlyKeptTouched'
  BY <1>3 DEF IInv, OnlyKeptTouched, Untouched, Send
<1>7. Apart'
  BY <1>3 DEF IInv, Apart, Send
<1>8. Whole'
  BY <1>3 DEF IInv, Whole, Frozen, Kept, Send
<1> QED BY <1>4, <1>5, <1>6, <1>7, <1>8 DEF IInv

LEMMA MoveOn ==
  ASSUME IInv, NEW r \in Request, NEW to, to \in [at : Place, db : Db],
         to.at = "none" \/ (to.at # "used" /\ to.db = request[r].db /\ request[r].at # "none"),
         request' = [request EXCEPT ![r] = to]
  PROVE  /\ Fewer
         /\ request' \in [Request -> [at : Place, db : Db]]
<1>1. request \in [Request -> [at : Place, db : Db]]
  BY DEF IInv, TypeOK, Place
<1>2. /\ \A q \in Request : q # r => request'[q] = request[q]
      /\ request'[r] = to
  BY <1>1
<1>3. Fewer
  BY <1>2 DEF Fewer, Asked, Is
<1> QED BY <1>1, <1>3

LEMMA WakeKeeps ==
  ASSUME IInv, NEW r \in Request, NEW d \in Db, WakeHit(r, d) \/ WakeCold(r, d)
  PROVE  IInv'
<1>1. request \in [Request -> [at : Place, db : Db]] /\ request[r] = [at |-> "sent", db |-> d]
  BY DEF IInv, TypeOK, Place, WakeHit, WakeCold, Is
<1>2. PICK to \in [at : {"awake", "cold"}, db : {d}] : request' = [request EXCEPT ![r] = to]
  BY <1>1 DEF WakeHit, WakeCold, Move
<1>3. /\ to \in [at : Place, db : Db] /\ to.at # "used" /\ to.db = request[r].db
      /\ request[r].at # "none"
  BY <1>1, <1>2 DEF Place
<1>4. Fewer /\ request' \in [Request -> [at : Place, db : Db]]
  BY <1>2, <1>3, MoveOn
<1>5. up
  BY <1>3 DEF IInv, DownIsEmpty
<1> QED BY <1>4, <1>5, RequestsMoveOn DEF WakeHit, WakeCold

LEMMA GiveUpKeeps ==
  ASSUME IInv, NEW r \in Request, GiveUp(r)
  PROVE  IInv'
<1>1. request[r].at # "none"
  BY DEF GiveUp, At
<1>2. Fewer /\ request' \in [Request -> [at : Place, db : Db]]
  BY NobodyType, MoveOn DEF GiveUp, End
<1>3. up
  BY <1>1 DEF IInv, DownIsEmpty
<1> QED BY <1>2, <1>3, RequestsMoveOn DEF GiveUp

LEMMA JoinRestoreKeeps ==
  ASSUME IInv, NEW r \in Request, NEW d \in Db, JoinRestore(r, d)
  PROVE  IInv'
<1>1. request[r] = [at |-> "cold", db |-> d]
  BY DEF JoinRestore, Is
<1>2. up /\ Asked(d)
  BY <1>1 DEF IInv, DownIsEmpty, Asked
<1>3. PICK to \in [at : {"awake", "waiting"}, db : {d}] : request' = [request EXCEPT ![r] = to]
  BY <1>1 DEF IInv, TypeOK, JoinRestore, Move
<1>4. /\ to \in [at : Place, db : Db] /\ to.at # "used" /\ to.db = request[r].db
      /\ request[r].at # "none"
  BY <1>1, <1>3 DEF Place
<1>5. Fewer /\ request' \in [Request -> [at : Place, db : Db]]
  BY <1>3, <1>4, MoveOn
<1>6. \A e \in Db : (InUse(e)' => InUse(e)) /\ (Asked(e)' => Asked(e))
  BY <1>5 DEF Fewer, InUse, Asked
<1>7. /\ restore' \in [Db -> {"no", "reading", "written"}]
      /\ \A e \in Db : restore'[e] # restore[e] =>
           e = d /\ restore[e] = "no" /\ restore'[e] = "reading" /\ record[e] = "none"
  <2>1. CASE restore[d] = "no" /\ ~RestoreNeeded(d)
    BY <2>1 DEF IInv, TypeOK, JoinRestore
  <2>2. CASE ~(restore[d] = "no" /\ ~RestoreNeeded(d))
    BY <2>2 DEF IInv, TypeOK, JoinRestore, RestoreNeeded
  <2> QED BY <2>1, <2>2
<1>8. TypeOK'
  BY <1>5, <1>7 DEF IInv, TypeOK, JoinRestore, Place
<1>9. NothingMadeUp' /\ DownIsEmpty'
  BY <1>2 DEF IInv, NothingMadeUp, DownIsEmpty, JoinRestore
<1>10. OnlyKeptTouched'
  BY <1>2, <1>6, <1>7 DEF IInv, OnlyKeptTouched, Untouched, JoinRestore
<1>11. Apart'
  BY <1>6, <1>7 DEF IInv, Apart, JoinRestore
<1>12. Whole'
  BY <1>6, <1>7 DEF IInv, Whole, Frozen, Kept, JoinRestore
<1> QED BY <1>8, <1>9, <1>10, <1>11, <1>12 DEF IInv

\* The end of a restore moves its callers on.
LEMMA CallersMoveOn ==
  ASSUME IInv, NEW d \in Db, NEW ok \in BOOLEAN, RestoreEnds(d, ok)
  PROVE  /\ Fewer
         /\ request' \in [Request -> [at : Place, db : Db]]
         /\ restore' \in [Db -> {"no", "reading", "written"}]
         /\ \A e \in Db : restore'[e] = IF e = d THEN "no" ELSE restore[e]
<1>1. request \in [Request -> [at : Place, db : Db]]
  BY DEF IInv, TypeOK, Place
<1>2. \A r \in Request :
        request'[r] = IF Is(r, "waiting", d)
                      THEN IF ok THEN [at |-> "awake", db |-> d] ELSE Nobody
                      ELSE request[r]
  BY DEF RestoreEnds
<1>3. Fewer
  <2> SUFFICES ASSUME NEW r \in Request, NEW e \in Db
               PROVE  /\ request'[r].at # "none" /\ request'[r].db = e => Asked(e)
                      /\ Is(r, "used", e)' => Is(r, "used", e)
    BY DEF Fewer
  <2>1. CASE Is(r, "waiting", d) /\ ok
    <3>1. request[r] = [at |-> "waiting", db |-> d] /\ request'[r] = [at |-> "awake", db |-> d]
      BY <2>1, <1>2 DEF Is
    <3> QED BY <3>1 DEF Asked, Is
  <2>2. CASE Is(r, "waiting", d) /\ ~ok
    <3>1. request'[r] = Nobody
      BY <2>2, <1>2
    <3> QED BY <3>1, NobodyType DEF Is
  <2>3. CASE ~Is(r, "waiting", d)
    <3>1. request'[r] = request[r]
      BY <2>3, <1>2
    <3> QED BY <3>1 DEF Asked, Is
  <2> QED BY <2>1, <2>2, <2>3
<1>4. request' \in [Request -> [at : Place, db : Db]]
  <2> SUFFICES ASSUME NEW r \in Request PROVE request'[r] \in [at : Place, db : Db]
    BY DEF RestoreEnds
  <2> QED BY <1>1, <1>2, NobodyType DEF Place
<1> QED BY <1>3, <1>4 DEF IInv, TypeOK, RestoreEnds

\* A restore that ends without a file.
LEMMA RestoreFailKeeps ==
  ASSUME IInv, NEW d \in Db, restore[d] = "reading", RestoreEnds(d, FALSE),
         UNCHANGED <<file, bucket, record, idle, pool, tidy, life, acked, up, starts, half>>
  PROVE  IInv'
<1>1. /\ Fewer
      /\ request' \in [Request -> [at : Place, db : Db]]
      /\ restore' \in [Db -> {"no", "reading", "written"}]
      /\ \A e \in Db : restore'[e] = IF e = d THEN "no" ELSE restore[e]
  BY CallersMoveOn
<1>2. \A e \in Db : (InUse(e)' => InUse(e)) /\ (Asked(e)' => Asked(e))
  BY <1>1 DEF Fewer, InUse, Asked
<1>3. TypeOK'
  BY <1>1 DEF IInv, TypeOK, Place
<1>4. NothingMadeUp' /\ DownIsEmpty'
  BY DEF IInv, NothingMadeUp, DownIsEmpty
<1>5. OnlyKeptTouched'
  BY <1>1, <1>2 DEF IInv, OnlyKeptTouched, Untouched
<1>6. Apart'
  BY <1>1, <1>2 DEF IInv, Apart
<1>7. Whole'
  BY <1>1, <1>2 DEF IInv, Whole, Frozen, Kept
<1> QED BY <1>3, <1>4, <1>5, <1>6, <1>7 DEF IInv

LEMMA RestoreReadKeeps ==
  ASSUME IInv, NEW d \in Db, RestoreRead(d)
  PROVE  IInv'
<1>1. CASE bucket[d] # Absent /\ file[d] = Absent
  <2>1. /\ \A e \in Db : file'[e] = IF e = d THEN bucket[d] ELSE file[e]
        /\ \A e \in Db : restore'[e] = IF e = d THEN "written" ELSE restore[e]
        /\ file' \in [Db -> Content]
        /\ restore' \in [Db -> {"no", "reading", "written"}]
    BY <1>1 DEF IInv, TypeOK, RestoreRead
  <2>2. up /\ record[d] = "none" /\ life[d] \notin {"unborn", "emptying", "gone"}
    BY DEF IInv, DownIsEmpty, Apart, OnlyKeptTouched, Untouched, RestoreRead
  <2>3. \A e \in Db : InUse(e)' = InUse(e) /\ Asked(e)' = Asked(e)
    BY <1>1 DEF InUse, Is, Asked, RestoreRead
  <2> USE <1>1 DEF RestoreRead
  <2>4. TypeOK'
    BY <2>1, <2>2 DEF IInv, TypeOK
  <2>5. NothingMadeUp' /\ DownIsEmpty'
    BY <2>1, <2>2 DEF IInv, NothingMadeUp, DownIsEmpty
  <2>6. OnlyKeptTouched'
    BY <2>1, <2>2, <2>3 DEF IInv, OnlyKeptTouched, Untouched
  <2>7. Apart'
    BY <2>1, <2>2, <2>3 DEF IInv, Apart
  <2>8. Whole'
    BY <2>1, <2>2, <2>3 DEF IInv, Whole, Frozen, Kept
  <2> QED BY <2>4, <2>5, <2>6, <2>7, <2>8 DEF IInv
<1>2. CASE ~(bucket[d] # Absent /\ file[d] = Absent)
  BY <1>2, RestoreFailKeeps DEF RestoreRead
<1> QED BY <1>1, <1>2

LEMMA RestoreRegisterKeeps ==
  ASSUME IInv, NEW d \in Db, RestoreRegister(d)
  PROVE  IInv'
<1>1. /\ Fewer
      /\ request' \in [Request -> [at : Place, db : Db]]
      /\ restore' \in [Db -> {"no", "reading", "written"}]
      /\ \A e \in Db : restore'[e] = IF e = d THEN "no" ELSE restore[e]
  BY CallersMoveOn DEF RestoreRegister
<1>2. \A e \in Db : (InUse(e)' => InUse(e)) /\ (Asked(e)' => Asked(e))
  BY <1>1 DEF Fewer, InUse, Asked
<1>3. /\ \A e \in Db : record'[e] = IF e = d THEN "resting" ELSE record[e]
      /\ record' \in [Db -> {"none", "replicating", "resting"}]
  BY DEF IInv, TypeOK, RestoreRegister
<1>4. /\ up /\ life[d] \notin {"unborn", "emptying", "gone"}
      /\ Kept(d) => Frozen(d) /\ file[d] # Absent
  BY DEF IInv, DownIsEmpty, OnlyKeptTouched, Untouched, Whole, RestoreRegister
<1> USE DEF RestoreRegister
<1>5. TypeOK'
  BY <1>1, <1>3, <1>4 DEF IInv, TypeOK, Place, Kept
<1>6. NothingMadeUp' /\ DownIsEmpty'
  BY <1>4 DEF IInv, NothingMadeUp, DownIsEmpty
<1>7. OnlyKeptTouched'
  BY <1>1, <1>2, <1>3, <1>4 DEF IInv, OnlyKeptTouched, Untouched
<1>8. Apart'
  BY <1>1, <1>2, <1>3 DEF IInv, Apart
<1>9. Whole'
  BY <1>1, <1>2, <1>3, <1>4 DEF IInv, Whole, Frozen, Kept
<1> QED BY <1>5, <1>6, <1>7, <1>8, <1>9 DEF IInv

LEMMA UseKeeps ==
  ASSUME IInv, NEW r \in Request, NEW d \in Db, Use(r, d)
  PROVE  IInv'
<1>1. request[r] = [at |-> "awake", db |-> d] /\ request \in [Request -> [at : Place, db : Db]]
  BY DEF IInv, TypeOK, Place, Use, Is
<1>2. up /\ Asked(d)
  BY <1>1 DEF IInv, DownIsEmpty, Asked
<1>3. CASE record[d] # "none"
  <2>1. \A q \in Request : request'[q] = IF q = r THEN [at |-> "used", db |-> d] ELSE request[q]
    BY <1>1, <1>3 DEF Use, Move
  <2>2. \A e \in Db : (e # d /\ InUse(e)' => InUse(e)) /\ (Asked(e)' => Asked(e))
    BY <1>1, <1>2, <2>1 DEF InUse, Asked, Is
  <2>3. /\ \A e \in Db : record'[e] = IF e = d THEN "replicating" ELSE record[e]
        /\ idle' = idle \ {d}
        /\ record' \in [Db -> {"none", "replicating", "resting"}]
    BY <1>3 DEF IInv, TypeOK, Use
  <2>4. life[d] \notin {"unborn", "emptying", "gone"} /\ restore[d] = "no"
    BY <1>3, <1>2 DEF IInv, OnlyKeptTouched, Untouched, Apart, TypeOK
  <2>5. Kept(d) => file[d] # Absent
    BY <1>3 DEF IInv, TypeOK, Kept
  <2>6. request' \in [Request -> [at : Place, db : Db]]
    BY <1>1, <1>3 DEF Use, Move, Place
  <2> USE <1>3 DEF Use
  <2>7. TypeOK'
    BY <2>3, <2>6 DEF IInv, TypeOK, Place
  <2>8. NothingMadeUp' /\ DownIsEmpty'
    BY <1>2 DEF IInv, NothingMadeUp, DownIsEmpty
  <2>9. OnlyKeptTouched'
    BY <2>2, <2>3, <2>4 DEF IInv, OnlyKeptTouched, Untouched
  <2>10. Apart'
    BY <2>2, <2>3, <2>4 DEF IInv, Apart
  <2>11. Whole'
    BY <2>2, <2>3, <2>4, <2>5 DEF IInv, Whole, Frozen, Kept
  <2> QED BY <2>7, <2>8, <2>9, <2>10, <2>11 DEF IInv
<1>4. CASE record[d] = "none"
  <2>1. Fewer /\ request' \in [Request -> [at : Place, db : Db]]
    BY <1>1, <1>4, NobodyType, MoveOn DEF Use, End
  <2> QED BY <1>2, <1>4, <2>1, RequestsMoveOn DEF Use
<1> QED BY <1>3, <1>4

LEMMA ExecuteKeeps ==
  ASSUME IInv, NEW r \in Request, NEW d \in Db, Execute(r, d)
  PROVE  IInv'
<1>1. request[r] = [at |-> "used", db |-> d]
  BY DEF Execute, Is
<1>2. up /\ Asked(d) /\ InUse(d)
  BY <1>1 DEF IInv, DownIsEmpty, Asked, InUse, Is
<1>3. Fewer /\ request' \in [Request -> [at : Place, db : Db]]
  BY NobodyType, MoveOn DEF Execute, End
<1>4. \A e \in Db : (InUse(e)' => InUse(e)) /\ (Asked(e)' => Asked(e))
  BY <1>3 DEF Fewer, InUse, Asked
<1>5. /\ \A e \in Db : pool'[e] = IF e = d /\ pool[d] = "none" THEN "current" ELSE pool[e]
      /\ pool' \in [Db -> {"none", "current", "stale"}]
      /\ pool[d] # "stale" => file[d] # Absent
  BY DEF IInv, TypeOK, Apart, Execute
<1>6. life[d] \notin {"unborn", "emptying", "gone"}
  BY <1>2 DEF IInv, OnlyKeptTouched, Untouched
<1>7. Kept(d) => /\ file[d] = acked[d] /\ file[d] # Absent /\ pool[d] # "stale"
                 /\ record[d] # "resting" /\ restore[d] # "written"
  BY <1>2 DEF IInv, Whole, Frozen
<1>8. CASE UNCHANGED <<file, acked>>
  <2> USE <1>8 DEF Execute
  <2>1. TypeOK'
    BY <1>3, <1>5 DEF IInv, TypeOK, Place
  <2>2. NothingMadeUp' /\ DownIsEmpty'
    BY <1>2 DEF IInv, NothingMadeUp, DownIsEmpty
  <2>3. OnlyKeptTouched'
    BY <1>4, <1>5, <1>6 DEF IInv, OnlyKeptTouched, Untouched
  <2>4. Apart'
    BY <1>4, <1>5 DEF IInv, Apart
  <2>5. Whole'
    BY <1>4, <1>5, <1>7 DEF IInv, Whole, Frozen, Kept
  <2> QED BY <2>1, <2>2, <2>3, <2>4, <2>5 DEF IInv
<1>9. CASE /\ acked[d] < MaxWrites
           /\ acked' = [acked EXCEPT ![d] = @ + 1]
           /\ file' = IF pool[d] = "stale" THEN file ELSE [file EXCEPT ![d] = @ + 1]
  <2>1. /\ file \in [Db -> Content] /\ acked \in [Db -> Content] /\ bucket \in [Db -> Content]
        /\ \A e \in Db : file[e] <= acked[e] /\ bucket[e] <= acked[e]
    BY DEF IInv, TypeOK, NothingMadeUp
  <2>2. /\ acked' \in [Db -> Content] /\ file' \in [Db -> Content]
        /\ \A e \in Db : e # d => acked'[e] = acked[e] /\ file'[e] = file[e]
        /\ acked'[d] = acked[d] + 1
        /\ file'[d] = IF pool[d] = "stale" THEN file[d] ELSE file[d] + 1
    BY <1>9, <2>1, BoundAssumption DEF Content, Absent
  <2>3. /\ \A e \in Db : file'[e] <= acked'[e] /\ bucket[e] <= acked'[e]
        /\ \A e \in Db : file[e] # Absent => file'[e] # Absent
        /\ acked'[d] > Absent
    BY <1>9, <2>1, <2>2, BoundAssumption DEF Content, Absent
  <2> USE DEF Execute
  <2>4. TypeOK'
    BY <1>3, <1>5, <2>2, <2>3 DEF IInv, TypeOK, Place
  <2>5. NothingMadeUp' /\ DownIsEmpty'
    BY <1>2, <2>3 DEF IInv, NothingMadeUp, DownIsEmpty
  <2>6. OnlyKeptTouched'
    BY <1>4, <1>5, <1>6, <2>2 DEF IInv, OnlyKeptTouched, Untouched
  <2>7. Apart'
    <3> SUFFICES ASSUME NEW e \in Db
                 PROVE  /\ restore[e] # "no" => record[e] = "none"
                        /\ pool'[e] = "current" => file'[e] # Absent
                        /\ e \in idle => ~InUse(e)'
                        /\ up /\ record[e] = "none" /\ restore[e] # "written" /\ file'[e] # Absent
                             => e \in half
      BY DEF Apart
    <3>1. CASE e # d
      BY <1>4, <1>5, <2>2, <3>1 DEF IInv, Apart
    <3>2. CASE e = d
      <4>1. file'[d] # Absent => file[d] # Absent
        BY <1>5, <2>2
      <4> QED BY <1>4, <1>5, <2>3, <3>2, <4>1 DEF IInv, Apart
    <3> QED BY <3>1, <3>2
  <2>8. Whole'
    <3> SUFFICES ASSUME NEW e \in Db, Kept(e)
                 PROVE  /\ acked'[e] >= 0
                        /\ file'[e] # Absent => file'[e] = acked'[e]
                        /\ file'[e] = Absent => Frozen(e)'
                        /\ pool'[e] # "stale"
                        /\ record[e] = "resting" => Frozen(e)'
                        /\ restore[e] = "written" => Frozen(e)' /\ file'[e] # Absent
                        /\ e \in tidy.synced \cap idle /\ record[e] = "replicating" =>
                             bucket[e] = acked'[e]
      BY DEF Whole, Kept
    <3>1. CASE e # d
      BY <1>4, <1>5, <2>2, <3>1 DEF IInv, Whole, Frozen
    <3>2. CASE e = d
      <4>1. acked[d] >= 0
        BY <3>2 DEF IInv, Whole
      <4>2. file'[d] = acked'[d] /\ acked'[d] >= 0 /\ file'[d] # Absent
        BY <1>7, <2>1, <2>2, <2>3, <3>2, <4>1 DEF Content, Absent
      <4>3. d \notin idle
        BY <1>2 DEF IInv, Apart, InUse
      <4> QED BY <1>5, <1>7, <3>2, <4>2, <4>3
    <3> QED BY <3>1, <3>2
  <2> QED BY <2>4, <2>5, <2>6, <2>7, <2>8 DEF IInv
<1> QED BY <1>8, <1>9 DEF Execute

-----------------------------------------------------------------------------
(* Replication and the tidy loop.                                          *)

LEMMA SameRequests ==
  ASSUME request' = request, NEW d \in Db
  PROVE  InUse(d)' = InUse(d) /\ Asked(d)' = Asked(d)
BY DEF InUse, Asked, Is

\* The bucket gets what a replicating database has.
LEMMA ShipKeeps ==
  ASSUME IInv, NEW d \in Db, record[d] = "replicating",
         bucket' = [bucket EXCEPT ![d] = Shipped(d)],
         tidy' \in [at : {"asleep", "rest", "evict"}, todo : SUBSET Db, synced : SUBSET Db],
         tidy'.synced \subseteq tidy.synced \cup {d},
         UNCHANGED <<file, record, idle, pool, restore, request, life, acked, up, starts, half>>
  PROVE  IInv'
<1>1. \A e \in Db : bucket'[e] = IF e = d /\ file[d] # Absent THEN file[d] ELSE bucket[e]
  BY DEF IInv, TypeOK, Shipped
<1>2. bucket' \in [Db -> Content]
  BY DEF IInv, TypeOK, Shipped
<1>3. life[d] \notin {"unborn", "emptying", "gone"} /\ restore[d] = "no"
  BY DEF IInv, OnlyKeptTouched, Untouched, Apart, TypeOK
<1>4. \A e \in Db : InUse(e)' = InUse(e) /\ Asked(e)' = Asked(e)
  BY SameRequests
<1>5. TypeOK'
  BY <1>2 DEF IInv, TypeOK
<1>6. NothingMadeUp' /\ DownIsEmpty'
  BY <1>1 DEF IInv, NothingMadeUp, DownIsEmpty
<1>7. OnlyKeptTouched'
  BY <1>1, <1>3, <1>4 DEF IInv, OnlyKeptTouched, Untouched
<1>8. Apart'
  BY <1>4 DEF IInv, Apart
<1>9. Whole'
  BY <1>1, <1>3, <1>4 DEF IInv, Whole, Frozen, Kept
<1> QED BY <1>5, <1>6, <1>7, <1>8, <1>9 DEF IInv

\* The tidy loop moves on and looks at the clock.
LEMMA TidyKeeps ==
  ASSUME IInv,
         tidy' \in [at : {"asleep", "rest", "evict"}, todo : SUBSET Db, synced : SUBSET Db],
         idle' \in SUBSET Db, \A d \in idle' : d \in idle \/ ~InUse(d),
         tidy'.synced \cap idle' \subseteq tidy.synced \cap idle, up \/ idle' = {},
         UNCHANGED <<file, bucket, record, pool, restore, request, life, acked, up, starts, half>>
  PROVE  IInv'
<1>1. \A e \in Db : InUse(e)' = InUse(e) /\ Asked(e)' = Asked(e)
  BY SameRequests
<1>2. TypeOK'
  BY DEF IInv, TypeOK
<1>3. NothingMadeUp' /\ DownIsEmpty' /\ OnlyKeptTouched'
  BY <1>1 DEF IInv, NothingMadeUp, DownIsEmpty, OnlyKeptTouched, Untouched
<1>4. Apart'
  BY <1>1 DEF IInv, Apart
<1>5. Whole'
  BY <1>1 DEF IInv, Whole, Frozen, Kept
<1> QED BY <1>2, <1>3, <1>4, <1>5 DEF IInv

LEMMA SyncKeeps ==
  ASSUME IInv, NEW d \in Db, Sync(d)
  PROVE  IInv'
BY ShipKeeps DEF Sync, IInv, TypeOK

LEMMA TickKeeps ==
  ASSUME IInv, Tick
  PROVE  IInv'
<1>1. PICK old \in SUBSET {d \in Db : record[d] = "replicating" /\ Unused(d)} :
        idle' = old /\ tidy' = [at |-> "rest", todo |-> old, synced |-> {}]
  BY DEF Tick
<1>2. \A d \in idle' : d \in Db /\ ~InUse(d)
  BY <1>1 DEF Unused, InUse
<1>3. /\ tidy' \in [at : {"asleep", "rest", "evict"}, todo : SUBSET Db, synced : SUBSET Db]
      /\ tidy'.synced = {}
  BY <1>1
<1>4. idle' \in SUBSET Db
  BY <1>1
<1> QED BY <1>2, <1>3, <1>4, TidyKeeps DEF Tick

LEMMA RestSyncKeeps ==
  ASSUME IInv, NEW d \in Db, RestSync(d)
  PROVE  IInv'
<1>1. /\ tidy' \in [at : {"asleep", "rest", "evict"}, todo : SUBSET Db, synced : SUBSET Db]
      /\ tidy'.synced \subseteq tidy.synced \cup {d}
  <2>1. tidy \in [at : {"asleep", "rest", "evict"}, todo : SUBSET Db, synced : SUBSET Db]
    BY DEF IInv, TypeOK
  <2>2. CASE tidy' = [tidy EXCEPT !.todo = @ \ {d}, !.synced = {d}]
    BY <2>1, <2>2
  <2>3. CASE tidy' = [tidy EXCEPT !.todo = @ \ {d}]
    BY <2>1, <2>3
  <2> QED BY <2>2, <2>3 DEF RestSync
<1>2. CASE record[d] = "replicating" /\ bucket' = [bucket EXCEPT ![d] = Shipped(d)]
  BY <1>1, <1>2, ShipKeeps DEF RestSync
<1>3. CASE tidy' = [tidy EXCEPT !.todo = @ \ {d}] /\ UNCHANGED bucket
  <2>1. tidy'.synced = tidy.synced
    BY <1>3 DEF IInv, TypeOK
  <2>2. /\ idle' \in SUBSET Db /\ \A e \in idle' : e \in idle
        /\ up \/ idle' = {}
    BY DEF RestSync, IInv, TypeOK, DownIsEmpty
  <2> QED BY <1>1, <1>3, <2>1, <2>2, TidyKeeps DEF RestSync
<1> QED BY <1>2, <1>3 DEF RestSync

LEMMA RestOneKeeps ==
  ASSUME IInv, NEW d \in Db, RestOne(d)
  PROVE  IInv'
<1>1. tidy' \in [at : {"asleep", "rest", "evict"}, todo : SUBSET Db, synced : SUBSET Db]
  BY DEF IInv, TypeOK, RestOne
<1>2. CASE Restable(d)
  <2>1. \A e \in Db : InUse(e)' = InUse(e) /\ Asked(e)' = Asked(e)
    BY SameRequests DEF RestOne
  <2>2. /\ pool' \in [Db -> {"none", "current", "stale"}]
        /\ \A e \in Db : pool'[e] = IF e = d THEN "none" ELSE pool[e]
    BY <1>2 DEF IInv, TypeOK, RestOne, Closed
  <2>3. /\ record[d] = "replicating" /\ ~InUse(d) /\ restore[d] = "no" /\ up
        /\ life[d] \notin {"unborn", "emptying", "gone"}
    BY <1>2 DEF IInv, TypeOK, Restable, Apart, OnlyKeptTouched, Untouched, DownIsEmpty
  <2>4. Kept(d) => file[d] = acked[d] /\ file[d] # Absent
    BY <2>3 DEF IInv, TypeOK, Whole, Kept
  <2>5. /\ \A e \in Db : bucket'[e] = bucket[e] \/ (e = d /\ file[d] # Absent /\ bucket'[d] = file[d])
        /\ \A e \in Db : record'[e] = record[e] \/ (e = d /\ record'[e] = "resting")
        /\ bucket' \in [Db -> Content]
        /\ record' \in [Db -> {"none", "replicating", "resting"}]
    BY <1>2 DEF IInv, TypeOK, RestOne, Shipped
  <2>6. Kept(d) => bucket[d] = acked[d]
    BY <1>2, <2>3 DEF IInv, Whole, RestOne, Restable
  <2>7. tidy'.synced = {}
    BY DEF IInv, TypeOK, RestOne
  <2>8. UNCHANGED <<file, idle, restore, request, life, acked, up, starts, half>>
    BY DEF RestOne
  <2>9. TypeOK'
    BY <1>1, <2>2, <2>3, <2>5, <2>8 DEF IInv, TypeOK
  <2>10. NothingMadeUp' /\ DownIsEmpty'
    BY <2>3, <2>5, <2>8 DEF IInv, NothingMadeUp, DownIsEmpty
  <2>11. OnlyKeptTouched'
    BY <2>1, <2>2, <2>3, <2>5, <2>8 DEF IInv, OnlyKeptTouched, Untouched
  <2>12. Apart'
    BY <2>1, <2>2, <2>3, <2>5, <2>8 DEF IInv, Apart
  <2>13. Whole'
    BY <2>1, <2>2, <2>3, <2>4, <2>5, <2>6, <2>7, <2>8 DEF IInv, Whole, Frozen, Kept
  <2> QED BY <2>9, <2>10, <2>11, <2>12, <2>13 DEF IInv
<1>3. CASE ~Restable(d)
  <2>1. tidy'.synced = {}
    BY DEF RestOne, IInv, TypeOK
  <2>2. /\ idle' \in SUBSET Db /\ \A e \in idle' : e \in idle
        /\ up \/ idle' = {}
    BY DEF RestOne, IInv, TypeOK, DownIsEmpty
  <2> QED BY <1>1, <1>3, <2>1, <2>2, TidyKeeps DEF RestOne
<1> QED BY <1>2, <1>3

LEMMA EvictKeeps ==
  ASSUME IInv, Evict
  PROVE  IInv'
<1>1. PICK out \in SUBSET Evictable : \E bad \in SUBSET out :
        /\ Cardinality(bad) <= 1
        /\ record' = [d \in Db |-> IF d \in out THEN "none" ELSE record[d]]
        /\ file' = [d \in Db |-> IF d \in out \ bad THEN Absent ELSE file[d]]
        /\ pool' = [d \in Db |-> IF d \in out \ bad /\ pool[d] = "current"
                                 THEN "stale" ELSE pool[d]]
        /\ half' = half \cup bad
  BY DEF Evict
<1>2. PICK bad \in SUBSET out :
        /\ record' = [d \in Db |-> IF d \in out THEN "none" ELSE record[d]]
        /\ file' = [d \in Db |-> IF d \in out \ bad THEN Absent ELSE file[d]]
        /\ pool' = [d \in Db |-> IF d \in out \ bad /\ pool[d] = "current"
                                 THEN "stale" ELSE pool[d]]
        /\ half' = half \cup bad
  BY <1>1
<1>3. \A d \in out : d \in Db /\ record[d] = "resting"
  BY <1>1 DEF Evictable, Resting
<1>4. \A e \in Db : InUse(e)' = InUse(e) /\ Asked(e)' = Asked(e)
  BY SameRequests DEF Evict
<1>5. \A d \in out : /\ restore[d] = "no" /\ up
                     /\ life[d] \notin {"unborn", "emptying", "gone"}
                     /\ Kept(d) => Frozen(d)
  BY <1>3 DEF IInv, TypeOK, Apart, DownIsEmpty, OnlyKeptTouched, Untouched, Whole
<1>6. TypeOK'
  <2>1. file' \in [Db -> Content] /\ record' \in [Db -> {"none", "replicating", "resting"}]
        /\ pool' \in [Db -> {"none", "current", "stale"}] /\ half' \in SUBSET Db
    BY <1>2, <1>3, BoundAssumption DEF IInv, TypeOK, Content, Absent
  <2>2. \A d \in Db : record'[d] # "none" => file'[d] # Absent \/ life[d] = "raced"
    BY <1>2 DEF IInv, TypeOK
  <2>3. tidy' \in [at : {"asleep", "rest", "evict"}, todo : SUBSET Db, synced : SUBSET Db]
        /\ idle' \in SUBSET Db
    BY DEF Evict, Asleep
  <2>4. UNCHANGED <<bucket, restore, request, life, acked, up, starts>>
    BY DEF Evict
  <2> QED BY <2>1, <2>2, <2>3, <2>4 DEF IInv, TypeOK
<1> USE DEF Evict
<1>7. NothingMadeUp'
  BY <1>2, BoundAssumption DEF IInv, TypeOK, NothingMadeUp, Content, Absent
<1>8. DownIsEmpty'
  BY <1>2 DEF IInv, DownIsEmpty
<1>9. OnlyKeptTouched'
  BY <1>2, <1>4, <1>5 DEF IInv, OnlyKeptTouched, Untouched
<1>10. Apart'
  BY <1>2, <1>4, <1>5 DEF IInv, Apart
<1>11. Whole'
  BY <1>2, <1>4, <1>5 DEF IInv, Whole, Frozen, Kept
<1> QED BY <1>6, <1>7, <1>8, <1>9, <1>10, <1>11 DEF IInv

-----------------------------------------------------------------------------
(* The life of a database.                                                 *)

\* A new database; a request that asked for the copy may end with it.
LEMMA AddKeeps ==
  ASSUME IInv, NEW d \in Db, NEW n \in 0..MaxWrites, up, life[d] = "unborn", Add(d, n),
         Fewer, request' \in [Request -> [at : Place, db : Db]]
  PROVE  IInv'
<1>1. \A e \in Db : (InUse(e)' => InUse(e)) /\ (Asked(e)' => Asked(e))
  BY DEF Fewer, InUse, Asked
<1>2. /\ \A e \in Db : file'[e] = IF e = d THEN n ELSE file[e]
      /\ \A e \in Db : acked'[e] = IF e = d THEN n ELSE acked[e]
      /\ \A e \in Db : record'[e] = IF e = d THEN "replicating" ELSE record[e]
      /\ \A e \in Db : life'[e] = IF e = d THEN "live" ELSE life[e]
      /\ idle' = idle \ {d}
      /\ file' \in [Db -> Content] /\ acked' \in [Db -> Content]
      /\ record' \in [Db -> {"none", "replicating", "resting"}]
      /\ life' \in [Db -> {"unborn", "live", "stopped", "emptying", "gone", "raced"}]
      /\ n # Absent /\ n >= 0
  BY BoundAssumption DEF IInv, TypeOK, Add, Content, Absent
<1>3. Untouched(d) /\ bucket[d] = Absent
  BY DEF IInv, OnlyKeptTouched
<1>4. bucket[d] <= n
  BY <1>2, <1>3, BoundAssumption DEF Absent
<1> USE DEF Add
<1>5. TypeOK'
  BY <1>2 DEF IInv, TypeOK, Place
<1>6. NothingMadeUp' /\ DownIsEmpty'
  BY <1>2, <1>4 DEF IInv, NothingMadeUp, DownIsEmpty
<1>7. OnlyKeptTouched'
  BY <1>1, <1>2 DEF IInv, OnlyKeptTouched, Untouched
<1>8. Apart'
  BY <1>1, <1>2, <1>3 DEF IInv, Apart, Untouched
<1>9. Whole'
  BY <1>1, <1>2, <1>3 DEF IInv, Whole, Frozen, Kept, Untouched
<1> QED BY <1>5, <1>6, <1>7, <1>8, <1>9 DEF IInv

LEMMA CreateKeeps ==
  ASSUME IInv, NEW d \in Db, Create(d)
  PROVE  IInv'
<1>1. Fewer /\ request' \in [Request -> [at : Place, db : Db]]
  BY DEF IInv, TypeOK, Place, Create, Fewer, Asked, Is
<1>2. \A s \in Db : 0..bucket[s] \subseteq 0..MaxWrites
  BY BoundAssumption DEF IInv, TypeOK, Content, Absent
<1>3. PICK n \in 0..MaxWrites : Add(d, n)
  BY <1>2, BoundAssumption DEF Create
<1> QED BY <1>1, <1>3, AddKeeps DEF Create

LEMMA ForkKeeps ==
  ASSUME IInv, NEW r \in Request, NEW s \in Db, NEW d \in Db, Fork(r, s, d)
  PROVE  IInv'
<1>1. request[r].at = "used"
  BY DEF Fork, Is
<1>2. up
  BY <1>1 DEF IInv, DownIsEmpty
<1>3. Fewer /\ request' \in [Request -> [at : Place, db : Db]]
  BY NobodyType, MoveOn DEF Fork, End
<1>4. file[s] \in 0..MaxWrites
  BY BoundAssumption DEF IInv, TypeOK, Content, Absent, Fork
<1> QED BY <1>2, <1>3, <1>4, AddKeeps DEF Fork

LEMMA StopServingKeeps ==
  ASSUME IInv, NEW d \in Db, StopServing(d)
  PROVE  IInv'
<1>1. \A e \in Db : InUse(e)' = InUse(e) /\ Asked(e)' = Asked(e)
  BY SameRequests DEF StopServing
<1>2. /\ \A e \in Db : life'[e] = IF e = d THEN "stopped" ELSE life[e]
      /\ life' \in [Db -> {"unborn", "live", "stopped", "emptying", "gone", "raced"}]
      /\ \A e \in Db : Kept(e)' = Kept(e)
  BY DEF IInv, TypeOK, StopServing, Kept
<1> USE DEF StopServing
<1>3. TypeOK'
  BY <1>2 DEF IInv, TypeOK
<1>4. NothingMadeUp' /\ DownIsEmpty'
  BY DEF IInv, NothingMadeUp, DownIsEmpty
<1>5. OnlyKeptTouched'
  BY <1>1, <1>2 DEF IInv, OnlyKeptTouched, Untouched
<1>6. Apart'
  BY <1>1 DEF IInv, Apart
<1>7. Whole'
  BY <1>1, <1>2 DEF IInv, Whole, Frozen
<1> QED BY <1>3, <1>4, <1>5, <1>6, <1>7 DEF IInv

LEMMA RemoveKeeps ==
  ASSUME IInv, NEW d \in Db, Remove(d)
  PROVE  IInv'
<1>1. \A e \in Db : InUse(e)' = InUse(e) /\ Asked(e)' = Asked(e)
  BY SameRequests DEF Remove
<1>2. /\ \A e \in Db : record'[e] = IF e = d THEN "none" ELSE record[e]
      /\ \A e \in Db : pool'[e] = IF e = d THEN "none" ELSE pool[e]
      /\ record' \in [Db -> {"none", "replicating", "resting"}]
      /\ pool' \in [Db -> {"none", "current", "stale"}]
  BY DEF IInv, TypeOK, Remove, Closed
<1>3. CASE /\ file' = [file EXCEPT ![d] = Absent]
           /\ half' = half \ {d}
           /\ life' = [life EXCEPT ![d] = IF Busy(d) THEN "raced" ELSE "emptying"]
  <2>1. /\ \A e \in Db : file'[e] = IF e = d THEN Absent ELSE file[e]
        /\ \A e \in Db : e # d => life'[e] = life[e]
        /\ life'[d] = IF Busy(d) THEN "raced" ELSE "emptying"
        /\ file' \in [Db -> Content] /\ half' \in SUBSET Db
        /\ life' \in [Db -> {"unborn", "live", "stopped", "emptying", "gone", "raced"}]
    BY <1>3, BoundAssumption DEF IInv, TypeOK, Content, Absent
  <2>2. ~Busy(d) => restore[d] = "no" /\ ~Asked(d)
    BY DEF Busy, Asked
  <2>3. UNCHANGED <<bucket, idle, restore, request, tidy, acked, up, starts>>
    BY DEF Remove
  <2>4. TypeOK'
    BY <1>2, <2>1, <2>3 DEF IInv, TypeOK
  <2>5. NothingMadeUp'
    BY <2>1, <2>3, BoundAssumption DEF IInv, TypeOK, NothingMadeUp, Content, Absent
  <2>6. DownIsEmpty'
    BY <1>2, <2>3 DEF IInv, DownIsEmpty
  <2>7. OnlyKeptTouched'
    BY <1>1, <1>2, <2>1, <2>2, <2>3 DEF IInv, OnlyKeptTouched, Untouched
  <2>8. Apart'
    BY <1>1, <1>2, <1>3, <2>1, <2>3 DEF IInv, Apart
  <2>9. Whole'
    BY <1>1, <1>2, <2>1, <2>3 DEF IInv, Whole, Frozen, Kept
  <2> QED BY <2>4, <2>5, <2>6, <2>7, <2>8, <2>9 DEF IInv
<1>4. CASE /\ file[d] # Absent
           /\ half' = half \cup {d}
           /\ UNCHANGED <<file, life>>
  <2> USE <1>4 DEF Remove
  <2>1. TypeOK'
    BY <1>2 DEF IInv, TypeOK
  <2>2. NothingMadeUp' /\ DownIsEmpty'
    BY <1>2 DEF IInv, NothingMadeUp, DownIsEmpty
  <2>3. OnlyKeptTouched'
    BY <1>1, <1>2 DEF IInv, OnlyKeptTouched, Untouched
  <2>4. Apart'
    BY <1>1, <1>2 DEF IInv, Apart
  <2>5. Whole'
    BY <1>1, <1>2 DEF IInv, Whole, Frozen, Kept
  <2> QED BY <2>1, <2>2, <2>3, <2>4, <2>5 DEF IInv
<1> QED BY <1>3, <1>4 DEF Remove

LEMMA EmptyBucketKeeps ==
  ASSUME IInv, NEW d \in Db, EmptyBucket(d)
  PROVE  IInv'
<1>1. \A e \in Db : InUse(e)' = InUse(e) /\ Asked(e)' = Asked(e)
  BY SameRequests DEF EmptyBucket
<1>2. /\ \A e \in Db : bucket'[e] = IF e = d THEN Absent ELSE bucket[e]
      /\ \A e \in Db : life'[e] = IF e = d /\ life[d] = "emptying" THEN "gone" ELSE life[e]
      /\ bucket' \in [Db -> Content]
      /\ life' \in [Db -> {"unborn", "live", "stopped", "emptying", "gone", "raced"}]
  BY BoundAssumption DEF IInv, TypeOK, EmptyBucket, Content, Absent
<1> USE DEF EmptyBucket
<1>3. TypeOK'
  BY <1>2 DEF IInv, TypeOK
<1>4. NothingMadeUp' /\ DownIsEmpty'
  BY <1>2, BoundAssumption DEF IInv, TypeOK, NothingMadeUp, DownIsEmpty, Content, Absent
<1>5. OnlyKeptTouched'
  BY <1>1, <1>2 DEF IInv, OnlyKeptTouched, Untouched
<1>6. Apart'
  BY <1>1 DEF IInv, Apart
<1>7. Whole'
  BY <1>1, <1>2 DEF IInv, Whole, Frozen, Kept
<1> QED BY <1>3, <1>4, <1>5, <1>6, <1>7 DEF IInv

-----------------------------------------------------------------------------
(* The process.                                                            *)

\* It ends, and the bucket has at most gained the writes of a file.
LEMMA DownKeeps ==
  ASSUME IInv, Down,
         bucket' = bucket \/
           bucket' = [d \in Db |-> IF record[d] = "replicating" THEN Shipped(d) ELSE bucket[d]]
  PROVE  IInv'
<1>1. \A r \in Request : request'[r].at = "none"
  BY NobodyType DEF Down
<1>2. \A e \in Db : ~InUse(e)' /\ ~Asked(e)'
  BY <1>1 DEF InUse, Asked, Is
<1>3. /\ \A e \in Db : bucket'[e] \in {bucket[e], Shipped(e)}
      /\ \A e \in Db : record[e] = "none" => bucket'[e] = bucket[e]
      /\ \A e \in Db : file[e] = Absent => bucket'[e] = bucket[e]
      /\ bucket' \in [Db -> Content]
  BY DEF IInv, TypeOK, Shipped
<1> USE DEF Down
<1>4. TypeOK'
  BY <1>3, NobodyType DEF IInv, TypeOK, Asleep, Place
<1>5. NothingMadeUp'
  BY <1>3 DEF IInv, NothingMadeUp, Shipped
<1>6. DownIsEmpty'
  BY <1>1 DEF DownIsEmpty
<1>7. OnlyKeptTouched'
  BY <1>2, <1>3 DEF IInv, OnlyKeptTouched, Untouched
<1>8. Apart'
  BY <1>2 DEF Apart
<1>9. Whole'
  BY <1>2, <1>3 DEF IInv, Whole, Frozen, Kept
<1> QED BY <1>4, <1>5, <1>6, <1>7, <1>8, <1>9 DEF IInv

LEMMA StartKeeps ==
  ASSUME IInv, Start
  PROVE  IInv'
<1>1. \A e \in Db : InUse(e)' = InUse(e) /\ Asked(e)' = Asked(e)
  BY SameRequests DEF Start
<1>2. /\ \A e \in Db : record'[e] = IF file[e] = Absent THEN "none" ELSE "replicating"
      /\ record' \in [Db -> {"none", "replicating", "resting"}]
  BY DEF Start, Found
<1>3. \A e \in Db : restore[e] = "no" /\ pool[e] = "none" /\ ~Asked(e) /\ ~InUse(e)
  BY DEF IInv, DownIsEmpty, Start, Asked, InUse, Is
<1> USE DEF Start
<1>4. TypeOK'
  <2>1. starts' \in 0..MaxStarts
    BY BoundAssumption DEF IInv, TypeOK, DownIsEmpty
  <2> QED BY <1>2, <2>1 DEF IInv, TypeOK
<1>5. NothingMadeUp' /\ DownIsEmpty'
  BY DEF IInv, NothingMadeUp, DownIsEmpty
<1>6. OnlyKeptTouched'
  BY <1>1, <1>2 DEF IInv, OnlyKeptTouched, Untouched
<1>7. Apart'
  BY <1>1, <1>2, <1>3 DEF Apart, IInv
<1>8. Whole'
  <2>1. idle = {}
    BY DEF IInv, DownIsEmpty
  <2> QED BY <1>1, <1>2, <1>3, <2>1 DEF IInv, Whole, Frozen, Kept
<1> QED BY <1>4, <1>5, <1>6, <1>7, <1>8 DEF IInv

LEMMA NextKeeps ==
  ASSUME IInv, [Next]_vars
  PROVE  IInv'
<1>1. CASE \E r \in Request : Handler(r)
  <2> PICK r \in Request : Handler(r)
    BY <1>1
  <2>1. CASE GiveUp(r)
    BY <2>1, GiveUpKeeps
  <2>2. CASE \E d \in Db : \/ Send(r, d) \/ WakeHit(r, d) \/ WakeCold(r, d)
                           \/ JoinRestore(r, d) \/ Use(r, d) \/ Execute(r, d)
    BY <2>2, SendKeeps, WakeKeeps, JoinRestoreKeeps, UseKeeps, ExecuteKeeps
  <2>3. CASE \E s, d \in Db : Fork(r, s, d)
    BY <2>3, ForkKeeps
  <2> QED BY <2>1, <2>2, <2>3 DEF Handler
<1>2. ASSUME NEW d \in Db, Restorer(d) PROVE IInv'
  <2>1. CASE RestoreFail(d)
    BY <2>1, RestoreFailKeeps DEF RestoreFail
  <2> QED BY <1>2, <2>1, RestoreReadKeeps, RestoreRegisterKeeps DEF Restorer
<1>3. ASSUME NEW d \in Db, Lifecycle(d) PROVE IInv'
  BY <1>3, CreateKeeps, StopServingKeeps, RemoveKeeps, EmptyBucketKeeps DEF Lifecycle
<1>4. CASE TidyLoop
  BY <1>4, TickKeeps, RestSyncKeeps, RestOneKeeps, EvictKeeps DEF TidyLoop
<1>5. CASE Process
  BY <1>5, DownKeeps, StartKeeps DEF Process, Crash, Close
<1>6. CASE UNCHANGED vars
  <2> USE <1>6 DEF vars
  <2>1. \A e \in Db : InUse(e)' = InUse(e) /\ Asked(e)' = Asked(e)
    BY SameRequests
  <2>2. TypeOK' /\ NothingMadeUp' /\ DownIsEmpty'
    BY DEF IInv, TypeOK, NothingMadeUp, DownIsEmpty
  <2>3. OnlyKeptTouched' /\ Apart'
    BY <2>1 DEF IInv, OnlyKeptTouched, Untouched, Apart
  <2>4. Whole'
    BY <2>1 DEF IInv, Whole, Frozen, Kept
  <2> QED BY <2>2, <2>3, <2>4 DEF IInv
<1> QED BY <1>1, <1>2, <1>3, <1>4, <1>5, <1>6, SyncKeeps DEF Next

LEMMA Invariance == Spec => []IInv
<1>1. Init => IInv
  BY InitIInv
<1>2. IInv /\ [Next]_vars => IInv'
  BY NextKeeps
<1> QED BY <1>1, <1>2, PTL DEF Spec

-----------------------------------------------------------------------------
(* What it implies.                                                        *)

LEMMA IInvImplies ==
  ASSUME IInv
  PROVE  NoAckedLost /\ RestoreHasRoom /\ GoneStaysGone
<1>1. NoAckedLost
  BY DEF IInv, Whole, Frozen, NoAckedLost, Stored
<1>2. RestoreHasRoom
  <2> SUFFICES ASSUME NEW d \in Db, restore[d] = "reading", d \notin half
               PROVE  file[d] = Absent
    BY DEF RestoreHasRoom
  <2>1. up /\ record[d] = "none"
    BY DEF IInv, DownIsEmpty, Apart
  <2> QED BY <2>1 DEF IInv, Apart
<1>3. GoneStaysGone
  BY DEF IInv, OnlyKeptTouched, Untouched, GoneStaysGone
<1> QED BY <1>1, <1>2, <1>3

\* The types: the shape of the disk, the bucket, the records and of every request
\* (Databases, wake.go, tidy.go).
THEOREM TypeCorrect == Spec => []TypeOK
<1>1. IInv => TypeOK
  BY DEF IInv
<1> QED BY <1>1, Invariance, PTL

\* Every acknowledged write of a database is in its file or, where there is none, in
\* the bucket, with any number of databases, statements, evictions and crashes.
THEOREM AckedWritesSurvive == Spec => []NoAckedLost
<1> QED BY IInvImplies, Invariance, PTL

\* Litestream's restore finds its path free unless a removal of the file failed.
THEOREM RestoresFindRoom == Spec => []RestoreHasRoom
<1> QED BY IInvImplies, Invariance, PTL

\* What is removed with nobody on it leaves nothing and does not come back.
THEOREM RemovedStaysRemoved == Spec => []GoneStaysGone
<1> QED BY IInvImplies, Invariance, PTL

-----------------------------------------------------------------------------
(* The cellar implements DbStore.                                          *)

\* What a reader sees is what was acknowledged.
LEMMA SeenIsAcked ==
  ASSUME IInv
  PROVE  \A d \in Db : Content_(d) = IF Kept(d) THEN acked[d] ELSE Absent
BY IInvImplies DEF NoAckedLost, Content_

LEMMA SeenIsAckedNext ==
  ASSUME IInv'
  PROVE  \A d \in Db : Content_(d)' = IF Kept(d)' THEN acked'[d] ELSE Absent
BY DEF IInv, Whole, Frozen, Stored, Content_, Absent

StoreView == [d \in Db |-> Content_(d)]

\* Steps that acknowledge nothing and change no database's life.
LEMMA NothingSeen ==
  ASSUME IInv, IInv', UNCHANGED <<acked, life>>
  PROVE  StoreView' = StoreView
<1>1. \A d \in Db : Content_(d)' = Content_(d)
  BY SeenIsAcked, SeenIsAckedNext DEF Kept
<1> QED BY <1>1 DEF StoreView

LEMMA AddIsCreateDb ==
  ASSUME IInv, IInv', NEW d \in Db, NEW n \in Nat, life[d] = "unborn", Add(d, n),
         n = 0 \/ \E s \in Db : n \in 0..StoreView[s]
  PROVE  Promise!CreateDb(d)
<1>1. /\ \A e \in Db : Kept(e)' = (e = d \/ Kept(e))
      /\ \A e \in Db : acked'[e] = IF e = d THEN n ELSE acked[e]
      /\ ~Kept(d)
  BY DEF IInv, TypeOK, Add, Kept
<1>2. StoreView[d] = Absent
  BY <1>1, SeenIsAcked DEF StoreView
<1>3. StoreView' = [StoreView EXCEPT ![d] = n]
  <2>1. \A e \in Db : Content_(e)' = IF e = d THEN n ELSE Content_(e)
    BY <1>1, SeenIsAcked, SeenIsAckedNext
  <2> QED BY <2>1 DEF StoreView
<1> QED BY <1>2, <1>3 DEF Promise!CreateDb, Promise!Absent, Absent, StoreView

LEMMA CreateImplements ==
  ASSUME IInv, IInv', NEW d \in Db, Create(d)
  PROVE  Promise!CreateDb(d)
<1>1. CASE Add(d, 0)
  BY <1>1, AddIsCreateDb DEF Create
<1>2. ASSUME NEW s \in Db, NEW n \in 0..bucket[s], life[s] = "live", Add(d, n)
      PROVE  Promise!CreateDb(d)
  <2>1. StoreView[s] = acked[s] /\ bucket[s] <= acked[s] /\ bucket[s] \in Int /\ acked[s] \in Int
    BY <1>2, SeenIsAcked, BoundAssumption
       DEF StoreView, Kept, IInv, TypeOK, NothingMadeUp, Content, Absent
  <2>2. n \in 0..StoreView[s] /\ n \in Nat
    BY <2>1
  <2> QED BY <1>2, <2>2, AddIsCreateDb DEF Create
<1> QED BY <1>1, <1>2 DEF Create

LEMMA ForkImplements ==
  ASSUME IInv, IInv', NEW r \in Request, NEW s \in Db, NEW d \in Db, Fork(r, s, d)
  PROVE  Promise!CreateDb(d)
<1>1. StoreView[s] = acked[s] /\ file[s] = acked[s] /\ acked[s] \in Nat
  BY SeenIsAcked, BoundAssumption
     DEF StoreView, Kept, IInv, TypeOK, Whole, Content, Absent, Fork
<1> QED BY <1>1, AddIsCreateDb DEF Fork

LEMMA ExecuteImplements ==
  ASSUME IInv, IInv', NEW r \in Request, NEW d \in Db, Execute(r, d)
  PROVE  Promise!StoreNext \/ StoreView' = StoreView
<1>1. CASE UNCHANGED <<file, acked>>
  BY <1>1, NothingSeen DEF Execute
<1>2. CASE acked' = [acked EXCEPT ![d] = @ + 1]
  <2>1. /\ \A e \in Db : acked'[e] = IF e = d THEN acked[d] + 1 ELSE acked[e]
        /\ \A e \in Db : Kept(e)' = Kept(e)
    BY <1>2 DEF IInv, TypeOK, Execute, Kept
  <2>2. \A e \in Db : Content_(e)' = IF e = d /\ Kept(d) THEN Content_(d) + 1 ELSE Content_(e)
    BY <2>1, SeenIsAcked, SeenIsAckedNext
  <2>3. CASE Kept(d)
    <3>1. StoreView' = [StoreView EXCEPT ![d] = @ + 1]
      BY <2>2, <2>3 DEF StoreView
    <3>2. StoreView[d] # Absent
      BY <2>3, SeenIsAcked DEF StoreView, IInv, Whole, Absent
    <3> QED BY <3>1, <3>2 DEF Promise!StoreNext, Promise!WriteDb, Promise!Absent, Absent, StoreView
  <2>4. CASE ~Kept(d)
    BY <2>2, <2>4 DEF StoreView
  <2> QED BY <2>3, <2>4
<1> QED BY <1>1, <1>2 DEF Execute

LEMMA LifeImplements ==
  ASSUME IInv, IInv', NEW d \in Db, StopServing(d) \/ Remove(d) \/ EmptyBucket(d)
  PROVE  Promise!StoreNext \/ StoreView' = StoreView
<1>1. acked' = acked /\ \A e \in Db : e # d => (Kept(e)' = Kept(e))
  BY DEF IInv, TypeOK, StopServing, Remove, EmptyBucket, Kept
<1>2. CASE Kept(d)' = Kept(d)
  <2>1. \A e \in Db : Content_(e)' = Content_(e)
    BY <1>1, <1>2, SeenIsAcked, SeenIsAckedNext
  <2> QED BY <2>1 DEF StoreView
<1>3. CASE Kept(d)' # Kept(d)
  <2>1. Kept(d) /\ ~Kept(d)'
    BY <1>3 DEF IInv, TypeOK, StopServing, Remove, EmptyBucket, Kept
  <2>2. \A e \in Db : Content_(e)' = IF e = d THEN Absent ELSE Content_(e)
    BY <1>1, <2>1, SeenIsAcked, SeenIsAckedNext
  <2>3. StoreView' = [StoreView EXCEPT ![d] = Absent]
    BY <2>2 DEF StoreView
  <2>4. StoreView[d] # Absent
    BY <2>1, SeenIsAcked DEF StoreView, IInv, Whole, Absent
  <2> QED BY <2>3, <2>4 DEF Promise!StoreNext, Promise!RemoveDb, Promise!Absent, Absent, StoreView
<1> QED BY <1>2, <1>3

LEMMA StepImplements ==
  ASSUME IInv, IInv', [Next]_vars
  PROVE  Promise!StoreNext \/ StoreView' = StoreView
<1>1. CASE \E r \in Request : Handler(r)
  <2> PICK r \in Request : Handler(r)
    BY <1>1
  <2>1. CASE \E d \in Db : Execute(r, d)
    BY <2>1, ExecuteImplements
  <2>2. CASE \E s, d \in Db : Fork(r, s, d)
    BY <2>2, ForkImplements DEF Promise!StoreNext
  <2>3. CASE GiveUp(r) \/ \E d \in Db : \/ Send(r, d) \/ WakeHit(r, d) \/ WakeCold(r, d)
                                        \/ JoinRestore(r, d) \/ Use(r, d)
    <3>1. UNCHANGED <<acked, life>>
      BY <2>3 DEF GiveUp, Send, WakeHit, WakeCold, JoinRestore, Use
    <3> QED BY <3>1, NothingSeen
  <2> QED BY <2>1, <2>2, <2>3 DEF Handler
<1>2. ASSUME NEW d \in Db, Lifecycle(d)
      PROVE  Promise!StoreNext \/ StoreView' = StoreView
  <2>1. CASE Create(d)
    BY <2>1, CreateImplements DEF Promise!StoreNext
  <2> QED BY <1>2, <2>1, LifeImplements DEF Lifecycle
<1>3. CASE \/ \E d \in Db : Restorer(d) \/ Sync(d)
           \/ TidyLoop \/ Process \/ UNCHANGED vars
  <2>1. UNCHANGED <<acked, life>>
    BY <1>3 DEF Restorer, RestoreRead, RestoreFail, RestoreRegister, Sync, TidyLoop, Tick,
                RestSync, RestOne, Evict, Process, Crash, Close, Down, Start, vars
  <2> QED BY <2>1, NothingSeen
<1> QED BY <1>1, <1>2, <1>3 DEF Next

LEMMA InitImplements == Init => Promise!StoreInit
<1> SUFFICES ASSUME Init PROVE Promise!StoreInit
  OBVIOUS
<1>1. \A d \in Db : Content_(d) = Absent
  BY DEF Init, Content_, Kept
<1> QED BY <1>1 DEF Promise!StoreInit, Promise!Absent, Absent

\* The cellar keeps what DbStore promises: rests, evictions, restores, crashes and
\* restarts change no database anybody can see.
THEOREM CellarImplementsStore == Spec => ImplementsStore
<1>1. Init => Promise!StoreInit
  BY InitImplements
<1>2. IInv /\ IInv' /\ [Next]_vars => [Promise!StoreNext]_StoreView
  BY StepImplements
<1>3. [Promise!StoreNext]_StoreView => [Promise!StoreNext]_([d \in Db |-> Content_(d)])
  BY DEF StoreView
<1> QED BY <1>1, <1>2, <1>3, Invariance, PTL DEF Spec, ImplementsStore, Promise!StoreSpec
=============================================================================
