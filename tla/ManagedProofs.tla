---------------------------- MODULE ManagedProofs ----------------------------
(***************************************************************************)
(* Proofs about Managed, for any databases, requests and backends: what a  *)
(* row serves is on the cellar, the plan's limit holds, and a backend that *)
(* has invalidated a database does not serve it again unless it was        *)
(* loading it.                                                             *)
(***************************************************************************)
EXTENDS Managed, FiniteSetTheorems, TLAPS

Active == {c \in Creator : creator[c].at # "idle"}

\* d is not served and never will be.
Retired(d) == workspace = "deleted" \/ (d \in born /\ ~Creating(d) /\ row[d] # "hot")

Unseen(d) == \A b \in Backend : d \notin dsn[b] /\ d \notin load[b]

\* Creates come one at a time.  Nobody serves the database of one, and the reconciler
\* takes it for new.
CreatesAlone ==
  /\ \A b, c \in Active : b = c
  /\ \A c \in Active : workspace = "live" /\ creator[c].db \in born
  /\ \A d \in Db : Creating(d) =>
       row[d] = "none" /\ Unseen(d) /\ d \notin run.old
  /\ \A c \in Creator :
       /\ creator[c].at = "counted" => cellar[creator[c].db] = "no" /\ creator[c].db \notin run.held
       /\ creator[c].at = "made" => cellar[creator[c].db] = "whole" /\ creator[c].db \in young

\* An id that was not given out is nowhere.
UnbornNowhere ==
  \A d \in Db \ born : row[d] = "none" /\ cellar[d] = "no" /\ d \notin run.held /\ Unseen(d)

\* What is purged, and what the caches are told to forget, is served no more.
OnlyRetired ==
  /\ run.todo \subseteq run.held /\ run.old \subseteq run.held
  /\ \A d \in run.doomed : Retired(d)
  /\ run.doomed # {} => run.purged < MaxPurges
  /\ \A b \in Backend :
       /\ \A s \in forget[b] : \A d \in s : Retired(d)
       /\ \A d \in told[b] : Retired(d)
       /\ (dsn[b] \cup load[b]) \cap told[b] \subseteq raced[b]

\* A create has counted before it adds a row.
Counted ==
  /\ IsFiniteSet(Hot) /\ QuotaHeld
  /\ Active # {} => Cardinality(Hot) < MaxDatabases

IInv ==
  TypeOK /\ LiveKept /\ CreatesAlone /\ UnbornNowhere /\ OnlyRetired /\ Counted

\* The shape TypeOK gives the reconciler's run.
RunShape ==
  [at : {"asleep", "judging", "removing", "emptying", "dropping"},
   todo : SUBSET Db, held : SUBSET Db, old : SUBSET Db, doomed : SUBSET Db,
   purged : 0..MaxPurges]

USE DEF Unseen

-----------------------------------------------------------------------------
LEMMA NothingType == Nothing \in [at : {"idle"}, db : Db]
BY DbAssumption DEF Nothing

LEMMA AsleepType ==
  /\ Asleep \in [at : {"asleep"}, todo : {{}}, held : {{}}, old : {{}}, doomed : {{}}, purged : {0}]
  /\ Cardinality(Asleep.doomed) <= 1
BY FS_EmptySet DEF Asleep

LEMMA InitIInv == Init => IInv
<1> SUFFICES ASSUME Init PROVE IInv
  OBVIOUS
<1> USE LimitAssumption DEF Init
<1>1. Active = {} /\ Hot = {} /\ \A d \in Db : ~Creating(d)
  BY DEF Active, Hot, Creating, Nothing
<1>2. TypeOK
  BY NothingType, AsleepType DEF TypeOK
<1>3. LiveKept
  BY DEF LiveKept, Served
<1>4. CreatesAlone
  BY <1>1 DEF CreatesAlone, Nothing
<1>5. UnbornNowhere
  BY DEF UnbornNowhere, Asleep
<1>6. OnlyRetired
  BY DEF OnlyRetired, Asleep
<1>7. Counted
  BY <1>1, FS_EmptySet DEF Counted, QuotaHeld
<1> QED BY <1>2, <1>3, <1>4, <1>5, <1>6, <1>7 DEF IInv

LEMMA SameCreators ==
  ASSUME creator' = creator
  PROVE  Active' = Active /\ \A d \in Db : Creating(d)' = Creating(d)
BY DEF Active, Creating

\* A database stays retired while no row becomes hot but that of a create.
LEMMA RetiredStays ==
  ASSUME IInv, workspace = "deleted" => workspace' = "deleted", born \subseteq born',
         \A d \in born : ~Creating(d) => ~Creating(d)' /\ (row'[d] = "hot" => row[d] = "hot")
  PROVE  \A d \in Db : Retired(d) => Retired(d)'
BY DEF Retired

\* Steps of creates: the caches and the run stay as they are.
LEMMA OnlyRetiredStays ==
  ASSUME IInv, UNCHANGED <<run, caches>>, \A d \in Db : Retired(d) => Retired(d)'
  PROVE  OnlyRetired'
<1>1. /\ run.doomed \subseteq Db
      /\ \A b \in Backend : told[b] \subseteq Db /\ \A s \in forget[b] : s \subseteq Db
  BY DEF IInv, TypeOK
<1> QED BY <1>1 DEF IInv, OnlyRetired, caches

-----------------------------------------------------------------------------
(* Create.                                                                 *)

LEMMA BeginKeeps ==
  ASSUME IInv, NEW c \in Creator, NEW d \in Db, Begin(c, d)
  PROVE  IInv'
<1>1. \A b \in Creator : creator[b].at = "idle"
  BY DEF Begin, Unlocked
<1>2. /\ creator' \in [Creator -> [at : {"idle", "counted", "made"}, db : Db]]
      /\ \A b \in Creator : creator'[b] = IF b = c THEN [at |-> "counted", db |-> d] ELSE creator[b]
  BY DEF IInv, TypeOK, Begin
<1>3. Active' = {c} /\ creator'[c].db = d /\ \A e \in Db : Creating(e)' <=> e = d
  BY <1>1, <1>2 DEF Active, Creating
<1>4. row[d] = "none" /\ cellar[d] = "no" /\ d \notin run.held /\ Unseen(d) /\ d \notin run.old
  BY DEF IInv, UnbornNowhere, OnlyRetired, Begin
<1>5. \A e \in Db : ~Creating(e)
  BY <1>1 DEF Creating
<1>6. \A e \in Db : Retired(e) => Retired(e)'
  <2>1. \A e \in born : e # d /\ e \in Db
    BY DEF Begin, IInv, TypeOK
  <2> QED BY <1>3, <2>1, RetiredStays DEF Begin
<1> USE DEF Begin
<1>7. TypeOK' /\ LiveKept'
  BY <1>2 DEF IInv, TypeOK, LiveKept, Served, caches
<1>8. CreatesAlone'
  <2>1. \A b \in Creator : b # c => creator'[b].at = "idle"
    BY <1>1, <1>2
  <2>2. creator'[c].at = "counted" /\ creator'[c].db = d
    BY <1>2
  <2> QED BY <1>3, <1>4, <2>1, <2>2 DEF CreatesAlone, caches
<1>9. UnbornNowhere'
  BY DEF IInv, UnbornNowhere, caches
<1>10. OnlyRetired'
  BY <1>6, OnlyRetiredStays
<1>11. Counted'
  BY DEF IInv, Counted, Hot, QuotaHeld
<1> QED BY <1>7, <1>8, <1>9, <1>10, <1>11 DEF IInv

LEMMA CreateFileKeeps ==
  ASSUME IInv, NEW c \in Creator, CreateFile(c)
  PROVE  IInv'
<1> DEFINE d == creator[c].db
<1>1. d \in Db /\ creator[c].at = "counted" /\ c \in Active /\ Creating(d)
  BY DEF IInv, TypeOK, CreateFile, Active, Creating
<1>2. /\ workspace = "live" /\ d \in born /\ row[d] = "none" /\ cellar[d] = "no"
      /\ d \notin run.held /\ d \notin run.old /\ Unseen(d)
      /\ \A b \in Creator : b # c => creator[b].at = "idle"
  BY <1>1 DEF IInv, CreatesAlone, Active
<1>3. /\ creator' \in [Creator -> [at : {"idle", "counted", "made"}, db : Db]]
      /\ \A b \in Creator : b # c => creator'[b] = creator[b]
      /\ (creator'[c].at = "made" /\ creator'[c].db = d) \/ creator'[c] = Nothing
  <2>1. creator \in [Creator -> [at : {"idle", "counted", "made"}, db : Db]]
    BY DEF IInv, TypeOK
  <2>2. CASE creator' = [creator EXCEPT ![c].at = "made"]
    BY <2>1, <2>2
  <2>3. CASE creator' = [creator EXCEPT ![c] = Nothing]
    BY <2>1, <2>3, NothingType
  <2> QED BY <2>2, <2>3 DEF CreateFile
<1>4. /\ Active' \subseteq {c}
      /\ \A e \in Db : Creating(e)' => e = d
      /\ creator'[c].at = "made" => creator'[c].db = d
      /\ creator'[c].at \in {"idle", "made"}
  BY <1>2, <1>3, NothingType DEF Active, Creating
<1>5. \A e \in Db : Retired(e) => Retired(e)'
  <2>1. \A e \in born : e \in Db
    BY DEF IInv, TypeOK
  <2> QED BY <1>1, <1>4, <2>1, RetiredStays DEF CreateFile
<1>6. /\ \A e \in Db : cellar'[e] = IF e = d THEN "whole" ELSE cellar[e]
      /\ cellar' \in [Db -> {"no", "whole", "emptying"}]
      /\ young' = young \cup {d}
  BY <1>1 DEF IInv, TypeOK, CreateFile
<1> HIDE DEF d
<1> USE DEF CreateFile
<1>7. TypeOK'
  BY <1>1, <1>3, <1>6 DEF IInv, TypeOK, caches
<1>8. LiveKept'
  BY <1>6 DEF IInv, LiveKept, Served
<1>9. CreatesAlone'
  <2>1. \A b, e \in Active' : b = e
    BY <1>4
  <2>2. \A b \in Active' : b = c /\ creator'[b].db = d
    BY <1>4 DEF Active
  <2>3. \A b \in Creator : creator'[b].at # "idle" =>
          b = c /\ creator'[b].at = "made" /\ creator'[b].db = d
    BY <1>4, <2>2 DEF Active
  <2>4. \A e \in Db : Creating(e)' => row'[e] = "none" /\ Unseen(e)' /\ e \notin run'.old
    BY <1>2, <1>4 DEF caches
  <2>5. \A b \in Active' : workspace' = "live" /\ creator'[b].db \in born'
    BY <1>2, <2>2
  <2>6. \A b \in Creator :
          /\ creator'[b].at # "counted"
          /\ creator'[b].at = "made" => cellar'[creator'[b].db] = "whole" /\ creator'[b].db \in young'
    BY <1>1, <1>4, <1>6, <2>3
  <2> QED BY <2>1, <2>4, <2>5, <2>6 DEF CreatesAlone
<1>10. UnbornNowhere'
  BY <1>2, <1>6 DEF IInv, UnbornNowhere, caches
<1>11. OnlyRetired'
  BY <1>5, OnlyRetiredStays
<1>12. Counted'
  BY <1>1, <1>4 DEF IInv, Counted, Hot, QuotaHeld
<1> QED BY <1>7, <1>8, <1>9, <1>10, <1>11, <1>12 DEF IInv

LEMMA AbortKeeps ==
  ASSUME IInv, NEW c \in Creator, Abort(c)
  PROVE  IInv'
<1>1. /\ creator' \in [Creator -> [at : {"idle", "counted", "made"}, db : Db]]
      /\ \A b \in Creator : creator'[b] = IF b = c THEN Nothing ELSE creator[b]
  BY NothingType DEF IInv, TypeOK, Abort
<1>2. Active' \subseteq Active /\ \A b \in Active' : creator'[b] = creator[b]
  BY <1>1, NothingType DEF Active
<1>3. \A e \in Db : Creating(e)' => Creating(e)
  BY <1>1, <1>2, NothingType DEF Creating, Active
<1>4. \A e \in Db : Retired(e) => Retired(e)'
  BY <1>3, RetiredStays DEF Abort, IInv, TypeOK
<1> USE DEF Abort
<1>5. TypeOK' /\ LiveKept'
  BY <1>1 DEF IInv, TypeOK, LiveKept, Served, caches
<1>6. CreatesAlone'
  BY <1>1, <1>2, <1>3, NothingType DEF IInv, CreatesAlone, caches
<1>7. UnbornNowhere'
  BY DEF IInv, UnbornNowhere, caches
<1>8. OnlyRetired'
  BY <1>4, OnlyRetiredStays
<1>9. Counted'
  BY <1>2 DEF IInv, Counted, Hot, QuotaHeld
<1> QED BY <1>5, <1>6, <1>7, <1>8, <1>9 DEF IInv

LEMMA CommitKeeps ==
  ASSUME IInv, NEW c \in Creator, Commit(c)
  PROVE  IInv'
<1> DEFINE d == creator[c].db
<1>1. d \in Db /\ creator[c].at = "made" /\ c \in Active /\ Creating(d)
  BY DEF IInv, TypeOK, Commit, Active, Creating
<1>2. /\ workspace = "live" /\ d \in born /\ row[d] = "none" /\ cellar[d] = "whole"
      /\ \A b \in Creator : b # c => creator[b].at = "idle"
  BY <1>1 DEF IInv, CreatesAlone, Active
<1>3. /\ creator' \in [Creator -> [at : {"idle", "counted", "made"}, db : Db]]
      /\ \A b \in Creator : creator'[b].at = "idle"
  BY <1>2, NothingType DEF IInv, TypeOK, Commit
<1>4. Active' = {} /\ \A e \in Db : ~Creating(e)'
  BY <1>3 DEF Active, Creating
<1>5. /\ \A e \in Db : row'[e] = IF e = d THEN "hot" ELSE row[e]
      /\ row' \in [Db -> {"none", "hot", "deleting"}]
  BY <1>1 DEF IInv, TypeOK, Commit
<1>6. \A e \in Db : Retired(e) => Retired(e)'
  <2>1. \A e \in born : ~Creating(e) => (row'[e] = "hot" => row[e] = "hot")
    BY <1>1, <1>5 DEF IInv, TypeOK
  <2>2. \A e \in born : ~Creating(e)'
    BY <1>4 DEF IInv, TypeOK
  <2> QED BY <2>1, <2>2, RetiredStays DEF Commit
<1>7. Hot' = Hot \cup {d} /\ d \notin Hot
  BY <1>1, <1>2, <1>5 DEF Hot
<1> HIDE DEF d
<1> USE DEF Commit
<1>8. TypeOK'
  BY <1>3, <1>5 DEF IInv, TypeOK, caches
<1>9. LiveKept'
  BY <1>2, <1>5 DEF IInv, LiveKept, Served
<1>10. CreatesAlone'
  BY <1>3, <1>4 DEF CreatesAlone
<1>11. UnbornNowhere'
  BY <1>2, <1>5 DEF IInv, UnbornNowhere, caches
<1>12. OnlyRetired'
  BY <1>6, OnlyRetiredStays
<1>13. Counted'
  <2>1. IsFiniteSet(Hot) /\ Cardinality(Hot) < MaxDatabases
    BY <1>1 DEF IInv, Counted
  <2>2. IsFiniteSet(Hot') /\ Cardinality(Hot') = Cardinality(Hot) + 1
    BY <1>7, <2>1, FS_AddElement
  <2>3. Cardinality(Hot') <= MaxDatabases
    BY <2>1, <2>2, FS_CardinalityType, LimitAssumption
  <2> QED BY <1>4, <2>2, <2>3 DEF Counted, QuotaHeld
<1> QED BY <1>8, <1>9, <1>10, <1>11, <1>12, <1>13 DEF IInv

-----------------------------------------------------------------------------
(* Delete, and the backends' caches.                                       *)

\* What IInv says of the run.
LEMMA RunAsIs ==
  ASSUME IInv
  PROVE  /\ run \in [at : {"asleep", "judging", "removing", "emptying", "dropping"},
                     todo : SUBSET Db, held : SUBSET Db, old : SUBSET Db, doomed : SUBSET Db,
                     purged : 0..MaxPurges]
         /\ Cardinality(run.doomed) <= 1
         /\ run.todo \subseteq run.held /\ run.old \subseteq run.held
         /\ \A d \in run.doomed : Retired(d)
         /\ run.doomed # {} => run.purged < MaxPurges
         /\ \A d \in Db : /\ d \notin born => d \notin run.held
                          /\ Creating(d) => d \notin run.old
         /\ \A c \in Creator : creator[c].at = "counted" => creator[c].db \notin run.held
BY DEF IInv, TypeOK, OnlyRetired, UnbornNowhere, CreatesAlone

\* Rows and workspaces that stop being served.
LEMMA RetireKeeps ==
  ASSUME IInv,
         row' \in [Db -> {"none", "hot", "deleting"}],
         workspace' \in {"live", "deleted"},
         workspace' = workspace \/ (workspace' = "deleted" /\ Active = {}),
         \A d \in Db : row'[d] = row[d] \/ (row[d] # "none" /\ row'[d] # "hot"),
         \A b \in Backend : \A s \in forget'[b] : \A d \in s : d \in Db /\ Retired(d)',
         forget' \in [Backend -> SUBSET SUBSET Db],
         run' \in RunShape, run'.todo \subseteq run'.held, run'.old \subseteq run'.held,
         run'.held \subseteq run.held, run'.old \subseteq run.old,
         run'.doomed \subseteq run.doomed, Cardinality(run'.doomed) <= 1,
         run'.doomed # {} => run'.purged < MaxPurges,
         UNCHANGED <<cellar, young, born, creator, dsn, load, told, raced, faults>>
  PROVE  IInv'
<1>1. Active' = Active /\ \A d \in Db : Creating(d)' = Creating(d)
  BY SameCreators
<1>2. \A d \in Db : Retired(d) => Retired(d)'
  <2>1. born \subseteq Db
    BY DEF IInv, TypeOK
  <2> QED BY <1>1, <2>1, RetiredStays
<1>3. TypeOK'
  BY DEF IInv, TypeOK, RunShape
<1>4. LiveKept'
  BY DEF IInv, LiveKept, Served
<1>5. CreatesAlone'
  BY <1>1 DEF IInv, CreatesAlone, Active
<1>6. UnbornNowhere'
  BY DEF IInv, UnbornNowhere
<1>7. OnlyRetired'
  <2>1. run.doomed \subseteq Db /\ \A b \in Backend : told[b] \subseteq Db
    BY DEF IInv, TypeOK
  <2> QED BY <1>2, <2>1 DEF IInv, OnlyRetired
<1>8. Counted'
  <2>1. Hot' \subseteq Hot
    BY DEF Hot
  <2>2. IsFiniteSet(Hot') /\ Cardinality(Hot') <= Cardinality(Hot)
    BY <2>1, FS_Subset DEF IInv, Counted
  <2>3. Cardinality(Hot) \in Nat /\ Cardinality(Hot') \in Nat
    BY <2>2, FS_CardinalityType DEF IInv, Counted
  <2> QED BY <1>1, <2>2, <2>3, LimitAssumption DEF IInv, Counted, QuotaHeld
<1> QED BY <1>3, <1>4, <1>5, <1>6, <1>7, <1>8 DEF IInv

LEMMA MarkKeeps ==
  ASSUME IInv, NEW b \in Backend, NEW d \in Db, Mark(b, d)
  PROVE  IInv'
<1>1. /\ row' \in [Db -> {"none", "hot", "deleting"}]
      /\ \A e \in Db : row'[e] = IF e = d THEN "deleting" ELSE row[e]
      /\ row[d] = "hot"
  BY DEF IInv, TypeOK, Mark, Served
<1>2. /\ forget' \in [Backend -> SUBSET SUBSET Db]
      /\ \A e \in Backend : forget'[e] \subseteq forget[e] \cup {{d}}
  <2>1. forget \in [Backend -> SUBSET SUBSET Db]
    BY DEF IInv, TypeOK
  <2>2. forget' = [forget EXCEPT ![b] = @ \cup {{d}}] \/ forget' = forget
    BY DEF Mark
  <2> QED BY <2>1, <2>2
<1>3. d \in born /\ ~Creating(d)
  BY <1>1 DEF IInv, UnbornNowhere, CreatesAlone
<1>4. Retired(d)'
  BY <1>1, <1>3, SameCreators DEF Retired, Mark
<1>5. \A e \in Db : Retired(e) => Retired(e)'
  BY <1>1, SameCreators DEF Retired, Mark
<1>6. \A e \in Backend : \A s \in forget'[e] : \A x \in s : x \in Db /\ Retired(x)'
  BY <1>2, <1>4, <1>5 DEF IInv, OnlyRetired, TypeOK
<1>7. run' = run /\ run \in RunShape /\ workspace \in {"live", "deleted"}
  BY RunAsIs DEF Mark, RunShape, IInv, TypeOK
<1> QED BY <1>1, <1>2, <1>6, <1>7, RunAsIs, RetireKeeps DEF Mark

LEMMA MarkWorkspaceKeeps ==
  ASSUME IInv, NEW b \in Backend, MarkWorkspace(b)
  PROVE  IInv'
<1>1. Active = {}
  BY DEF MarkWorkspace, Unlocked, Active
<1>2. /\ forget' \in [Backend -> SUBSET SUBSET Db]
      /\ \A d \in Db : Retired(d)'
  BY DEF IInv, TypeOK, MarkWorkspace, Retired
<1>3. \A e \in Backend : \A s \in forget'[e] : \A x \in s : x \in Db /\ Retired(x)'
  BY <1>2
<1>4. run' = run /\ run \in RunShape /\ row' = row /\ row \in [Db -> {"none", "hot", "deleting"}]
  BY RunAsIs DEF MarkWorkspace, RunShape, IInv, TypeOK
<1> QED BY <1>1, <1>2, <1>3, <1>4, RunAsIs, RetireKeeps DEF MarkWorkspace

CachesType ==
  /\ dsn \in [Backend -> SUBSET Db] /\ load \in [Backend -> SUBSET Db]
  /\ forget \in [Backend -> SUBSET SUBSET Db]
  /\ told \in [Backend -> SUBSET Db] /\ raced \in [Backend -> SUBSET Db]

\* Steps of the caches: they come to know only what is served now.
LEMMA CachesKeep ==
  ASSUME IInv,
         CachesType',
         \A e \in Backend :
           /\ forget'[e] \subseteq forget[e]
           /\ \A d \in told'[e] : Retired(d)
           /\ (dsn'[e] \cup load'[e]) \cap told'[e] \subseteq raced'[e]
           /\ \A d \in (dsn'[e] \cup load'[e]) \ (dsn[e] \cup load[e]) : Served(d),
         UNCHANGED <<rows, cellar, young, run, faults>>
  PROVE  IInv'
<1>1. Active' = Active /\ \A d \in Db : (Creating(d)' = Creating(d)) /\ (Retired(d)' = Retired(d))
  BY SameCreators DEF rows, Retired
<1>2. \A d \in Db : Served(d) => d \in born /\ ~Creating(d)
  BY DEF IInv, CreatesAlone, UnbornNowhere, Served
<1> USE DEF rows
<1>3. TypeOK'
  BY DEF IInv, TypeOK, CachesType
<1>4. LiveKept'
  BY DEF IInv, LiveKept, Served
<1>5. \A e \in Backend : dsn'[e] \subseteq Db /\ load'[e] \subseteq Db
  BY DEF CachesType
<1>6. \A d \in Db : (Creating(d) \/ d \notin born) => (Unseen(d) => Unseen(d)')
  BY <1>2, <1>5
<1>7. CreatesAlone'
  BY <1>1, <1>6 DEF IInv, CreatesAlone
<1>8. UnbornNowhere'
  BY <1>6 DEF IInv, UnbornNowhere
<1>9. OnlyRetired'
  <2>1. run.doomed \subseteq Db
        /\ \A e \in Backend : told'[e] \subseteq Db /\ \A s \in forget'[e] : s \subseteq Db
    BY DEF IInv, TypeOK, CachesType
  <2> QED BY <1>1, <2>1 DEF IInv, OnlyRetired
<1>10. Counted'
  BY <1>1 DEF IInv, Counted, Hot, QuotaHeld
<1> QED BY <1>3, <1>4, <1>7, <1>8, <1>9, <1>10 DEF IInv

LEMMA InvalidateKeeps ==
  ASSUME IInv, NEW b \in Backend, NEW s \in SUBSET Db, Invalidate(b, s)
  PROVE  IInv'
<1>1. CachesType'
  BY DEF IInv, TypeOK, CachesType, Invalidate
<1>2. \A e \in Backend :
        /\ forget'[e] \subseteq forget[e] /\ load'[e] = load[e]
        /\ dsn'[e] = IF e = b THEN dsn[e] \ s ELSE dsn[e]
        /\ told'[e] = IF e = b THEN told[e] \cup s ELSE told[e]
        /\ raced'[e] = IF e = b THEN raced[e] \cup (load[e] \cap s) ELSE raced[e]
  BY DEF IInv, TypeOK, Invalidate
<1>3. \A d \in s : Retired(d)
  BY DEF Invalidate, Forgettable, IInv, OnlyRetired
<1>4. \A e \in Backend : (dsn'[e] \cup load'[e]) \cap told'[e] \subseteq raced'[e]
  BY <1>2 DEF IInv, OnlyRetired
<1>5. \A e \in Backend :
        /\ \A d \in told'[e] : Retired(d)
        /\ \A d \in (dsn'[e] \cup load'[e]) \ (dsn[e] \cup load[e]) : Served(d)
  BY <1>2, <1>3 DEF IInv, OnlyRetired
<1> QED BY <1>1, <1>2, <1>4, <1>5, CachesKeep DEF Invalidate, rows

LEMMA RetiredIsNotServed == \A d \in Db : Retired(d) => ~Served(d)
BY DEF Retired, Served

LEMMA LoadKeeps ==
  ASSUME IInv, NEW b \in Backend, NEW d \in Db, Load(b, d)
  PROVE  IInv'
<1>1. CachesType'
  BY DEF IInv, TypeOK, CachesType, Load
<1>2. \A e \in Backend : load'[e] = IF e = b THEN load[e] \cup {d} ELSE load[e]
  BY DEF IInv, TypeOK, Load
<1>3. \A e \in Backend : d \notin told[e]
  BY RetiredIsNotServed DEF IInv, OnlyRetired, Load
<1>4. \A e \in Backend : (dsn'[e] \cup load'[e]) \cap told'[e] \subseteq raced'[e]
  BY <1>2, <1>3 DEF IInv, OnlyRetired, Load
<1>5. \A e \in Backend :
        /\ \A x \in told'[e] : Retired(x)
        /\ \A x \in (dsn'[e] \cup load'[e]) \ (dsn[e] \cup load[e]) : Served(x)
  BY <1>2 DEF IInv, OnlyRetired, Load
<1> QED BY <1>1, <1>4, <1>5, CachesKeep DEF Load, rows

LEMMA StoreKeeps ==
  ASSUME IInv, NEW b \in Backend, NEW d \in Db, Store(b, d) \/ Expire(b, d)
  PROVE  IInv'
<1>1. CachesType'
  <2>1. CASE Store(b, d)
    BY <2>1 DEF IInv, TypeOK, CachesType, Store
  <2>2. CASE Expire(b, d)
    BY <2>2 DEF IInv, TypeOK, CachesType, Expire
  <2> QED BY <2>1, <2>2
<1>2. \A e \in Backend : dsn'[e] \cup load'[e] \subseteq dsn[e] \cup load[e]
  BY DEF IInv, TypeOK, Store, Expire
<1>3. UNCHANGED <<forget, told, raced, rows, cellar, young, run, faults>>
  BY DEF Store, Expire
<1>4. \A e \in Backend :
        /\ forget'[e] \subseteq forget[e]
        /\ \A x \in told'[e] : Retired(x)
        /\ (dsn'[e] \cup load'[e]) \cap told'[e] \subseteq raced'[e]
        /\ \A x \in (dsn'[e] \cup load'[e]) \ (dsn[e] \cup load[e]) : Served(x)
  BY <1>2, <1>3 DEF IInv, OnlyRetired
<1> QED BY <1>1, <1>3, <1>4, CachesKeep

\* Steps that touch no row and no cache.
LEMMA CellarKeeps ==
  ASSUME IInv,
         cellar' \in [Db -> {"no", "whole", "emptying"}], young' \in SUBSET Db,
         \A d \in Db : /\ Served(d) => cellar'[d] = cellar[d] \/ cellar'[d] = "whole"
                       /\ d \notin born => cellar'[d] = cellar[d]
                       /\ Creating(d) => cellar'[d] = cellar[d] /\ (d \in young => d \in young'),
         run' \in [at : {"asleep", "judging", "removing", "emptying", "dropping"},
                   todo : SUBSET Db, held : SUBSET Db, old : SUBSET Db, doomed : SUBSET Db,
                   purged : 0..MaxPurges],
         Cardinality(run'.doomed) <= 1,
         run'.todo \subseteq run'.held, run'.old \subseteq run'.held,
         \A d \in run'.doomed : Retired(d), run'.doomed # {} => run'.purged < MaxPurges,
         \A d \in Db : /\ d \notin born => d \notin run'.held
                       /\ Creating(d) => d \notin run'.old,
         \A c \in Creator : creator[c].at = "counted" => creator[c].db \notin run'.held,
         faults' \in 0..MaxFaults, UNCHANGED <<rows, caches>>
  PROVE  IInv'
<1>1. Active' = Active /\ \A d \in Db : (Creating(d)' = Creating(d)) /\ (Retired(d)' = Retired(d))
  BY SameCreators DEF rows, Retired
<1> USE DEF rows, caches
<1>2. TypeOK'
  BY DEF IInv, TypeOK
<1>3. LiveKept'
  BY DEF IInv, LiveKept, Served
<1>4. CreatesAlone'
  <2>1. \A c \in Creator : creator[c].db \in Db /\ (creator[c].at # "idle" => Creating(creator[c].db))
    BY DEF IInv, TypeOK, Creating
  <2>2. \A c \in Creator :
          /\ creator[c].at = "counted" => cellar'[creator[c].db] = "no"
          /\ creator[c].at = "made" => cellar'[creator[c].db] = "whole" /\ creator[c].db \in young'
    BY <2>1 DEF IInv, CreatesAlone
  <2> QED BY <1>1, <2>2 DEF IInv, CreatesAlone
<1>5. UnbornNowhere'
  BY DEF IInv, UnbornNowhere
<1>6. OnlyRetired'
  <2>1. run'.doomed \subseteq Db
        /\ \A e \in Backend : told[e] \subseteq Db /\ \A s \in forget[e] : s \subseteq Db
    BY DEF IInv, TypeOK
  <2> QED BY <1>1, <2>1 DEF IInv, OnlyRetired
<1>7. Counted'
  BY <1>1 DEF IInv, Counted, Hot, QuotaHeld
<1> QED BY <1>2, <1>3, <1>4, <1>5, <1>6, <1>7 DEF IInv

LEMMA WriteKeeps ==
  ASSUME IInv, NEW b \in Backend, NEW d \in Db, Write(b, d)
  PROVE  IInv'
<1>1. /\ cellar' \in [Db -> {"no", "whole", "emptying"}] /\ young' \in SUBSET Db
      /\ \A e \in Db : cellar'[e] = IF e = d THEN "whole" ELSE cellar[e]
      /\ young \subseteq young'
  BY DEF IInv, TypeOK, Write
<1>2. d \in born /\ ~Creating(d)
  BY DEF IInv, UnbornNowhere, CreatesAlone, Write
<1> QED BY <1>1, <1>2, RunAsIs, CellarKeeps DEF Write, IInv, TypeOK

LEMMA AgeKeeps ==
  ASSUME IInv, NEW d \in Db, Age(d)
  PROVE  IInv'
<1>1. ~Creating(d) /\ young' = young \ {d} /\ young' \in SUBSET Db
  BY DEF IInv, TypeOK, Age, Creating
<1> QED BY <1>1, RunAsIs, CellarKeeps DEF Age, IInv, TypeOK

-----------------------------------------------------------------------------
(* The reconciler.                                                         *)

LEMMA ListKeeps ==
  ASSUME IInv, List
  PROVE  IInv'
<1> DEFINE held == {d \in Db : cellar[d] # "no"}
<1>1. /\ run'.at = "judging" /\ run'.todo = held /\ run'.held = held /\ run'.old = held \ young
      /\ run'.doomed = {} /\ run'.purged = 0
      /\ run' \in [at : {"judging"}, todo : SUBSET Db, held : SUBSET Db, old : SUBSET Db,
                   doomed : {{}}, purged : {0}]
  BY AsleepType DEF List, Asleep
<1>2. Cardinality(run'.doomed) <= 1
  BY <1>1, FS_EmptySet
<1>3. \A d \in Db : /\ d \notin born => d \notin held
                    /\ Creating(d) => d \notin held \ young
  BY DEF IInv, UnbornNowhere, CreatesAlone, Creating, TypeOK
<1>4. \A c \in Creator : creator[c].at = "counted" => creator[c].db \notin held
  BY DEF IInv, CreatesAlone
<1>5. run' \in [at : {"asleep", "judging", "removing", "emptying", "dropping"},
                todo : SUBSET Db, held : SUBSET Db, old : SUBSET Db, doomed : SUBSET Db,
                purged : 0..MaxPurges]
  BY <1>1, LimitAssumption
<1> HIDE DEF held
<1> QED BY <1>1, <1>2, <1>3, <1>4, <1>5, CellarKeeps DEF List, IInv, TypeOK

\* A run that is over satisfies what CellarKeeps asks.
LEMMA AsleepIsSound ==
  ASSUME IInv, run' = Asleep, faults' \in 0..MaxFaults, UNCHANGED <<rows, cellar, young, caches>>
  PROVE  IInv'
<1>1. run' \in [at : {"asleep", "judging", "removing", "emptying", "dropping"},
                todo : SUBSET Db, held : SUBSET Db, old : SUBSET Db, doomed : SUBSET Db,
                purged : 0..MaxPurges]
  BY AsleepType, LimitAssumption
<1>2. run'.doomed = {} /\ run'.held = {} /\ run'.old = {} /\ run'.todo = {}
      /\ Cardinality(run'.doomed) <= 1
  BY AsleepType
<1> QED BY <1>1, <1>2, CellarKeeps DEF IInv, TypeOK

\* The run moves on with what it has listed.
LEMMA RunKeeps ==
  ASSUME IInv, run' \in RunShape,
         run'.todo \subseteq run.todo, run'.held = run.held, run'.old = run.old,
         \A d \in run'.doomed : Retired(d), Cardinality(run'.doomed) <= 1,
         run'.doomed # {} => run'.purged < MaxPurges,
         cellar' \in [Db -> {"no", "whole", "emptying"}],
         \A d \in Db : cellar'[d] = cellar[d] \/ (d \in run.doomed /\ cellar[d] # "no"),
         faults' \in 0..MaxFaults, UNCHANGED <<rows, young, caches>>
  PROVE  IInv'
<1>1. \A d \in Db : Retired(d) => ~Served(d) /\ ~Creating(d)
  BY DEF IInv, CreatesAlone, Active, Creating, Retired, Served
<1>2. \A d \in Db : /\ Served(d) => cellar'[d] = cellar[d] \/ cellar'[d] = "whole"
                    /\ d \notin born => cellar'[d] = cellar[d]
                    /\ Creating(d) => cellar'[d] = cellar[d] /\ (d \in young => d \in young')
  BY <1>1, RunAsIs DEF IInv, UnbornNowhere
<1>3. run'.todo \subseteq run'.held /\ run'.old \subseteq run'.held
  BY RunAsIs
<1>4. \A d \in Db : /\ d \notin born => d \notin run'.held
                    /\ Creating(d) => d \notin run'.old
  BY RunAsIs
<1>5. \A c \in Creator : creator[c].at = "counted" => creator[c].db \notin run'.held
  BY RunAsIs
<1>6. young' \in SUBSET Db
  BY DEF IInv, TypeOK
<1> QED BY <1>2, <1>3, <1>4, <1>5, <1>6, CellarKeeps DEF RunShape

LEMMA DecideKeeps ==
  ASSUME IInv, NEW d \in Db, Decide(d)
  PROVE  IInv'
<1>1. run \in RunShape
  BY RunAsIs DEF RunShape
<1>2. /\ \A e \in Db : cellar'[e] = cellar[e]
      /\ cellar' \in [Db -> {"no", "whole", "emptying"}] /\ faults' \in 0..MaxFaults
      /\ UNCHANGED <<rows, cellar, young, caches>>
  BY DEF IInv, TypeOK, Decide
<1>3. CASE ~Purgeable(d)
  <2>1. run' = [run EXCEPT !.todo = @ \ {d}]
    BY <1>3 DEF Decide
  <2>2. /\ run' \in RunShape /\ run'.todo \subseteq run.todo /\ run'.held = run.held
        /\ run'.old = run.old /\ run'.doomed = run.doomed /\ run'.purged = run.purged
    BY <1>1, <2>1 DEF RunShape
  <2> QED BY <1>2, <2>2, RunAsIs, RunKeeps
<1>4. CASE Purgeable(d) /\ CapHit
  BY <1>2, <1>4, AsleepIsSound DEF Decide
<1>5. CASE Purgeable(d) /\ ~CapHit
  <2>1. run' = [run EXCEPT !.todo = @ \ {d}, !.doomed = {d}, !.at = "removing"]
    BY <1>5 DEF Decide
  <2>2. /\ run' \in RunShape /\ run'.todo \subseteq run.todo /\ run'.held = run.held
        /\ run'.old = run.old /\ run'.doomed = {d} /\ run'.purged = run.purged
    BY <1>1, <2>1 DEF RunShape
  <2>3. d \in born
    BY RunAsIs DEF Decide
  <2>4. Retired(d)
    <3>1. CASE row[d] = "none"
      BY <1>5, <2>3, <3>1, RunAsIs DEF Purgeable, Retired
    <3>2. CASE row[d] # "none"
      BY <1>5, <2>3, <3>2 DEF Purgeable, Retired, Served, IInv, TypeOK, CreatesAlone
    <3> QED BY <3>1, <3>2
  <2>5. Cardinality({d}) <= 1 /\ run.purged < MaxPurges
    BY <1>1, <1>5, LimitAssumption, FS_Singleton DEF CapHit, RunShape
  <2> QED BY <1>2, <2>2, <2>4, <2>5, RunKeeps
<1> QED BY <1>3, <1>4, <1>5

LEMMA RemoveKeeps ==
  ASSUME IInv, NEW d \in Db, RemoveFile(d) \/ RemoveCopy(d)
  PROVE  IInv'
<1>1. run \in RunShape /\ cellar \in [Db -> {"no", "whole", "emptying"}]
  BY RunAsIs DEF RunShape, IInv, TypeOK
<1>2. /\ run' \in RunShape /\ run'.todo = run.todo /\ run'.held = run.held
      /\ run'.old = run.old /\ run'.doomed = run.doomed /\ run'.purged = run.purged
  <2>1. CASE RemoveFile(d)
    BY <1>1, <2>1 DEF RemoveFile, RunShape
  <2>2. CASE RemoveCopy(d)
    BY <1>1, <2>2 DEF RemoveCopy, RunShape
  <2> QED BY <2>1, <2>2
<1>3. /\ cellar' \in [Db -> {"no", "whole", "emptying"}]
      /\ \A e \in Db : cellar'[e] = cellar[e] \/ (e \in run.doomed /\ cellar[e] # "no")
  <2>1. CASE RemoveFile(d)
    BY <1>1, <2>1 DEF RemoveFile
  <2>2. CASE RemoveCopy(d)
    BY <1>1, <2>2 DEF RemoveCopy
  <2> QED BY <2>1, <2>2
<1>4. faults' \in 0..MaxFaults /\ UNCHANGED <<rows, young, caches>>
  BY DEF IInv, TypeOK, RemoveFile, RemoveCopy
<1> QED BY <1>2, <1>3, <1>4, RunAsIs, RunKeeps

LEMMA PurgeFailsKeeps ==
  ASSUME IInv, PurgeFails
  PROVE  IInv'
<1>1. run \in RunShape
  BY RunAsIs DEF RunShape
<1>2. /\ run' \in RunShape /\ run'.todo = run.todo /\ run'.held = run.held
      /\ run'.old = run.old /\ run'.doomed = {} /\ Cardinality(run'.doomed) <= 1
  <2>1. run' = [run EXCEPT !.at = "judging", !.doomed = {}] /\ Cardinality({}) <= 1
    BY FS_EmptySet DEF PurgeFails
  <2>2. run'.doomed = {}
    BY <1>1, <2>1 DEF RunShape
  <2> QED BY <1>1, <2>1, <2>2 DEF RunShape
<1>3. /\ \A e \in Db : cellar'[e] = cellar[e]
      /\ cellar' \in [Db -> {"no", "whole", "emptying"}] /\ faults' \in 0..MaxFaults
      /\ UNCHANGED <<rows, young, caches>>
  BY LimitAssumption, SMT DEF IInv, TypeOK, PurgeFails
<1> QED BY <1>2, <1>3, RunKeeps

LEMMA RunEndsKeeps ==
  ASSUME IInv, RunEnds
  PROVE  IInv'
<1>1. faults' \in 0..MaxFaults
  BY LimitAssumption DEF IInv, TypeOK, RunEnds
<1> QED BY <1>1, AsleepIsSound DEF RunEnds

LEMMA DropRowKeeps ==
  ASSUME IInv, NEW d \in Db, DropRow(d)
  PROVE  IInv'
<1>1. Retired(d) /\ d \in run.doomed /\ run.purged < MaxPurges /\ run \in RunShape
  BY RunAsIs DEF DropRow, RunShape
<1>2. /\ row' \in [Db -> {"none", "hot", "deleting"}]
      /\ \A e \in Db : row'[e] = IF e = d THEN "none" ELSE row[e]
  BY DEF IInv, TypeOK, DropRow
<1>3. /\ run' \in RunShape /\ run'.todo = run.todo /\ run'.held = run.held
      /\ run'.old = run.old /\ run'.doomed = {}
  <2>1. run' = [run EXCEPT !.at = "judging", !.doomed = {}, !.purged = @ + 1]
    BY DEF DropRow
  <2>2. run.purged + 1 \in 0..MaxPurges
    BY <1>1, LimitAssumption DEF RunShape
  <2> QED BY <1>1, <2>1, <2>2 DEF RunShape
<1>4. Cardinality(run'.doomed) <= 1
  BY <1>3, FS_EmptySet
<1>5. /\ workspace' = workspace /\ workspace' \in {"live", "deleted"}
      /\ forget' = forget /\ forget' \in [Backend -> SUBSET SUBSET Db]
      /\ UNCHANGED <<cellar, young, born, creator, dsn, load, told, raced, faults>>
  BY DEF IInv, TypeOK, DropRow, caches
<1>6. \A b \in Backend : \A s \in forget'[b] : \A e \in s : e \in Db /\ Retired(e)'
  BY <1>2, <1>5 DEF IInv, TypeOK, OnlyRetired, Retired, Creating
<1> QED BY <1>2, <1>3, <1>4, <1>5, <1>6, RunAsIs, RetireKeeps

LEMMA SweepKeeps ==
  ASSUME IInv, Sweep
  PROVE  IInv'
<1>1. /\ row' \in [Db -> {"none", "hot", "deleting"}]
      /\ \A e \in Db : row'[e] = row[e] \/ (row[e] # "none" /\ row'[e] # "hot")
  BY DEF IInv, TypeOK, Sweep
<1>2. /\ run' \in RunShape /\ run'.todo = {} /\ run'.held = {} /\ run'.old = {}
      /\ run'.doomed = {} /\ Cardinality(run'.doomed) <= 1
  BY AsleepType, LimitAssumption DEF Sweep, RunShape
<1>3. /\ workspace' = workspace /\ workspace' \in {"live", "deleted"}
      /\ forget' = forget /\ forget' \in [Backend -> SUBSET SUBSET Db]
      /\ UNCHANGED <<cellar, young, born, creator, dsn, load, told, raced, faults>>
  BY DEF IInv, TypeOK, Sweep, caches
<1>4. \A b \in Backend : \A s \in forget'[b] : \A e \in s : e \in Db /\ Retired(e)'
  BY <1>1, <1>3 DEF IInv, TypeOK, OnlyRetired, Retired, Creating
<1> QED BY <1>1, <1>2, <1>3, <1>4, RetireKeeps

-----------------------------------------------------------------------------
LEMMA StutterKeeps ==
  ASSUME IInv, UNCHANGED vars
  PROVE  IInv'
<1>1. \A e \in Db : cellar'[e] = cellar[e]
  BY DEF vars
<1>2. cellar' \in [Db -> {"no", "whole", "emptying"}] /\ faults' \in 0..MaxFaults
  BY DEF vars, IInv, TypeOK
<1>3. run' = run /\ run' \in RunShape
  BY RunAsIs DEF vars, RunShape
<1> QED BY <1>1, <1>2, <1>3, RunAsIs, RunKeeps DEF vars, rows, caches

LEMMA NextKeeps == IInv /\ [Next]_vars => IInv'
<1> SUFFICES ASSUME IInv, [Next]_vars PROVE IInv'
  OBVIOUS
<1>1. ASSUME NEW c \in Creator, Create(c) PROVE IInv'
  BY <1>1, BeginKeeps, CreateFileKeeps, AbortKeeps, CommitKeeps DEF Create
<1>2. ASSUME NEW b \in Backend, Delete(b) PROVE IInv'
  BY <1>2, MarkKeeps, MarkWorkspaceKeeps, InvalidateKeeps DEF Delete
<1>3. ASSUME NEW b \in Backend, NEW d \in Db, Statement(b, d) PROVE IInv'
  BY <1>3, LoadKeeps, StoreKeeps, WriteKeeps DEF Statement
<1>4. ASSUME NEW d \in Db, Age(d) PROVE IInv'
  BY <1>4, AgeKeeps
<1>5. ASSUME NEW d \in Db, Purge(d) PROVE IInv'
  BY <1>5, DecideKeeps, RemoveKeeps, DropRowKeeps DEF Purge
<1>6. CASE Progress
  BY <1>5, <1>6, ListKeeps, SweepKeeps DEF Progress
<1>7. CASE PurgeFails \/ RunEnds
  BY <1>7, PurgeFailsKeeps, RunEndsKeeps
<1>8. CASE UNCHANGED vars
  BY <1>8, StutterKeeps
<1> QED BY <1>1, <1>2, <1>3, <1>4, <1>6, <1>7, <1>8 DEF Next

LEMMA Invariance == Spec => []IInv
BY InitIInv, NextKeeps, PTL DEF Spec

\* Every variable keeps its shape, and a run stays within its limits.
THEOREM TypeCorrect == Spec => []TypeOK
BY Invariance, PTL DEF IInv

\* A database whose row is served is whole on the cellar, however many creates,
\* deletes, statements and failing runs of the reconciler overlap.
THEOREM ServedIsKept == Spec => []LiveKept
BY Invariance, PTL DEF IInv

\* Overlapping creates never exceed the plan's limit.
THEOREM LimitHolds == Spec => []QuotaHeld
BY Invariance, PTL DEF IInv, Counted

\* A deleted database is back in an instance's cache only by a load that the
\* invalidation overlapped.
THEOREM Forgotten == Spec => []ForgottenUnlessRaced
<1>1. IInv => ForgottenUnlessRaced
  BY DEF IInv, OnlyRetired, ForgottenUnlessRaced
<1> QED BY <1>1, Invariance, PTL
=============================================================================
