------------------------ MODULE StatsCollectionProofs ------------------------
(***************************************************************************)
(* Proofs about StatsCollection for any sets of DAOs and metrics, any       *)
(* number of days and values, and any bounds: its types, that days which    *)
(* are over stay as they are, that a run covers its list, that only a DAO   *)
(* the factory has removed is purged, or one that moved while the list was *)
(* read page by page, and that the two tables of a metric agree.           *)
(***************************************************************************)
EXTENDS StatsCollection, SequenceTheorems, FiniteSetTheorems, TLAPS

USE DEF NoRow, Rebuilt, Values, Rows, Days

\* The registry and the lists a run may work from: what was ever registered is
\* in any list of a later moment, or removed by the factory since, or moved while the
\* list was read page by page.  Of a list that is being read, it may also be on a page
\* that is still to come.
Known(ds) == ds \subseteq Listed \cup delisted
Kept(ds) == registry \subseteq ds \cup delisted \cup moved
OnPage(d) == d \in Listed /\ (Place(factory, d) - 1) \div ChunkSize \in unread[1]
ListsOK ==
    /\ Known(registry)
    /\ cached # <<>> => Known(cached[1]) /\ Kept(cached[1]) /\ unread = <<>>
    /\ unread # <<>> => /\ pc \in {"list", "factory"} /\ Known(found)
                       /\ \A d \in registry : d \in found \cup delisted \cup moved \/ OnPage(d)
    /\ pc = "daos" => /\ Known(list) /\ Kept(list) /\ todo \subseteq list
                      /\ cached # <<>> => cached[1] = list

\* Asking for the list, and what changes it.
Reads == \/ FetchList \/ FetchPages \/ JoinPages
         \/ unread # <<>> /\ \E page \in unread[1] : ReadPage(page)
Relisted == \/ \E d \in Daos : Enlist(d)
            \/ \E i \in DOMAIN factory : Delist(i)

\* The loops over the metrics: of the factory first, then of the DAOs.
Storing == pc \in {"stats", "history"}
FactoryPhase == pc = "factory" \/ (Storing /\ key \in FactoryKeys)
DaoPhase == pc = "metrics" \/ (Storing /\ key \notin FactoryKeys)
Target == IF FactoryPhase THEN FactoryKeys ELSE FactoryKeys \cup KeysOf(list)
HasRow(k) == \E d \in since .. today : history[d][k] # NoRow
Covered(k) == k \in todo \/ k \in skipped \/ (Storing /\ k = key) \/ HasRow(k)
LoopsOK ==
    /\ FactoryPhase => todo \subseteq FactoryKeys
    /\ DaoPhase => todo \cap FactoryKeys = {}
    /\ FactoryPhase \/ DaoPhase => \A k \in Target : Covered(k)

-----------------------------------------------------------------------------
(* Types                                                                   *)

\* Initially every variable has its type.
LEMMA InitType == Init => TypeOK
<1> SUFFICES ASSUME Init PROVE TypeOK
  OBVIOUS
<1>1. factory \in Seq(Daos)
  <2>1. PICK ds \in SUBSET Daos : factory \in SetToSeqs(ds)
    BY DEF Init
  <2>2. factory \in [1 .. Cardinality(ds) -> ds] /\ Cardinality(ds) \in Nat
    BY <2>1, ConstantsAssumption, FS_Subset, FS_CardinalityType DEF SetToSeqs
  <2>3. factory \in Seq(ds)
    BY <2>2, SeqDef
  <2> QED
    BY <2>3, SeqMonotonic
<1> QED
  BY <1>1, ConstantsAssumption DEF Init, TypeOK, PCs

\* What is written into the tables is a row.
LEMMA RowFacts == Values \subseteq Rows /\ Rebuilt \in Rows /\ NoRow \in Rows
BY ConstantsAssumption

\* A table of past days stays one when a row of it is written.
LEMMA RowWritten ==
    ASSUME NEW table \in [Days -> [Keys -> Rows]], NEW d \in Days, NEW k \in Keys, NEW v \in Rows
    PROVE  [table EXCEPT ![d] = [table[d] EXCEPT ![k] = v]] \in [Days -> [Keys -> Rows]]
OBVIOUS

\* The keys of the factory and those of the DAOs are keys, and differ.
LEMMA KeyFacts ==
    /\ FactoryKeys \subseteq Keys
    /\ \A ds \in SUBSET Daos : KeysOf(ds) \subseteq Keys /\ KeysOf(ds) \cap FactoryKeys = {}
BY ConstantsAssumption DEF Keys, FactoryKeys, KeysOf

\* The DAOs of the factory's list are those at its places.
LEMMA Places ==
    ASSUME NEW ds \in Seq(Daos)
    PROVE  /\ Range(ds) \subseteq Daos /\ Len(ds) \in Nat /\ DOMAIN ds = 1 .. Len(ds)
           /\ \A i \in DOMAIN ds : ds[i] \in Range(ds)
           /\ \A d \in Range(ds) : Place(ds, d) \in DOMAIN ds /\ ds[Place(ds, d)] = d
           /\ \A d : d \notin Range(ds) => Place(ds, d) = 0
<1>1. /\ Len(ds) \in Nat /\ DOMAIN ds = 1 .. Len(ds)
      /\ \A i \in 1 .. Len(ds) : ds[i] \in Daos
  BY LenProperties, ElementOfSeq
<1>2. Range(ds) = {ds[i] : i \in DOMAIN ds}
  BY DEF Range
<1>3. ASSUME NEW d \in Range(ds) PROVE Place(ds, d) \in DOMAIN ds /\ ds[Place(ds, d)] = d
  <2>1. Place(ds, d) = CHOOSE i \in DOMAIN ds : ds[i] = d
    BY <1>3 DEF Place
  <2>2. \E i \in DOMAIN ds : ds[i] = d
    BY <1>2, <1>3
  <2> HIDE DEF Range
  <2> QED
    BY <2>1, <2>2
<1>4. \A d : d \notin Range(ds) => Place(ds, d) = 0
  BY DEF Place
<1> QED
  BY <1>1, <1>2, <1>3, <1>4

\* The list without one of its DAOs is a list.
LEMMA StillDaos ==
    ASSUME NEW ds \in Seq(Daos), NEW i \in DOMAIN ds, NEW left \in Without(ds, i)
    PROVE  left \in Seq(Daos)
<1>1. Len(ds) \in Nat /\ DOMAIN ds = 1 .. Len(ds) /\ i \in 1 .. Len(ds)
  BY LenProperties
<1>2. \A j \in 1 .. Len(ds) : ds[j] \in Daos
  BY ElementOfSeq
<1>3. CASE left = RemoveAt(ds, i)
  <2>1. SubSeq(ds, 1, i - 1) \in Seq(Daos) /\ SubSeq(ds, i + 1, Len(ds)) \in Seq(Daos)
    <3>1. /\ 1 \in Int /\ i - 1 \in Int /\ i + 1 \in Int /\ Len(ds) \in Int
          /\ \A j \in 1 .. i - 1 : ds[j] \in Daos
          /\ \A j \in i + 1 .. Len(ds) : ds[j] \in Daos
      BY <1>1, <1>2
    <3> QED
      BY <3>1, SubSeqProperties
  <2> QED
    BY <1>3, <2>1, ConcatProperties DEF RemoveAt
<1>4. CASE left = SubSeq([ds EXCEPT ![i] = ds[Len(ds)]], 1, Len(ds) - 1)
  <2> DEFINE swapped == [ds EXCEPT ![i] = ds[Len(ds)]]
  <2>1. ds[Len(ds)] \in Daos
    BY <1>1, <1>2
  <2>2. \A j \in 1 .. Len(ds) - 1 : swapped[j] \in Daos
    BY <1>1, <1>2, <2>1
  <2>3. 1 \in Int /\ Len(ds) - 1 \in Int
    BY <1>1
  <2> HIDE DEF swapped
  <2> QED
    BY <1>4, <2>2, <2>3, SubSeqProperties DEF swapped
<1> QED
  BY <1>3, <1>4 DEF Without

\* When DAOs come or go there is another list of DAOs.
LEMMA RelistedTo ==
    ASSUME TypeOK, Relisted
    PROVE  \E ds \in Seq(Daos) : Relists(ds)
<1>1. factory \in Seq(Daos)
  BY DEF TypeOK
<1>2. ASSUME NEW d \in Daos, Enlist(d) PROVE \E ds \in Seq(Daos) : Relists(ds)
  <2>1. Append(factory, d) \in Seq(Daos)
    BY <1>1, AppendProperties
  <2> QED
    BY <1>2, <2>1 DEF Enlist
<1>3. ASSUME NEW i \in DOMAIN factory, Delist(i) PROVE \E ds \in Seq(Daos) : Relists(ds)
  <2>1. PICK ds \in Without(factory, i) : Relists(ds)
    BY <1>3 DEF Delist
  <2> QED
    BY <1>1, <2>1, StillDaos
<1> QED
  BY <1>2, <1>3 DEF Relisted

\* What asking for the list changes.
LEMMA ReadsOnly ==
    ASSUME TypeOK, Reads
    PROVE  /\ UNCHANGED <<world, tables, local, migration, runs, crashes, skipped, since>>
           /\ pc \in {"list", "factory"} \/ unread # <<>>
           /\ moved' \subseteq Daos /\ found' \subseteq Daos
           /\ cached' = <<>> \/ cached' \in {<<ds>> : ds \in SUBSET Daos}
           /\ unread' = <<>> \/ unread' \in {<<pages>> : pages \in SUBSET Nat}
<1>1. /\ factory \in Seq(Daos) /\ moved \subseteq Daos /\ found \subseteq Daos
      /\ cached = <<>> \/ cached \in {<<ds>> : ds \in SUBSET Daos}
      /\ unread = <<>> \/ unread \in {<<pages>> : pages \in SUBSET Nat}
  BY DEF TypeOK
<1>2. CASE FetchList
  BY <1>1, <1>2, Places DEF FetchList, ListMissing, Listed
<1>3. CASE FetchPages
  <2>1. unread' \in {<<pages>> : pages \in SUBSET Nat}
    <3>1. 0 .. Len(factory) \div ChunkSize \in SUBSET Nat
      OBVIOUS
    <3> QED
      BY <1>3, <3>1 DEF FetchPages
  <2> QED
    BY <1>1, <1>3, <2>1 DEF FetchPages, ListMissing
<1>4. CASE JoinPages
  BY <1>1, <1>4 DEF JoinPages
<1>5. ASSUME unread # <<>>, NEW page \in unread[1], ReadPage(page) PROVE
           /\ UNCHANGED <<world, tables, local, migration, runs, crashes, skipped, since>>
           /\ moved' \subseteq Daos /\ found' \subseteq Daos
           /\ cached' = <<>> \/ cached' \in {<<ds>> : ds \in SUBSET Daos}
           /\ unread' = <<>> \/ unread' \in {<<pages>> : pages \in SUBSET Nat}
  <2>1. \A i \in DOMAIN factory : factory[i] \in Daos
    BY <1>1, Places
  <2>2. PICK pages \in SUBSET Nat : unread = <<pages>>
    BY <1>1, <1>5
  <2>3. unread' = <<pages \ {page}>> /\ pages \ {page} \in SUBSET Nat
    BY <1>5, <2>2 DEF ReadPage
  <2> QED
    BY <1>1, <1>5, <2>1, <2>3 DEF ReadPage
<1> QED
  BY <1>2, <1>3, <1>4, <1>5 DEF Reads

\* What the aggregator and the migration write is of the type of the table.
LEMMA HistoryType ==
    ASSUME TypeOK
    PROVE  /\ SaveHistory => history' \in [Days -> [Keys -> Rows]]
           /\ \A d \in Days : InsertRebuilt(d) => history' \in [Days -> [Keys -> Rows]]
<1>1. /\ today \in Days /\ history \in [Days -> [Keys -> Rows]]
      /\ pc = "history" => key \in Keys /\ value \in Values
      /\ mdays # {} => mkey \in Keys
  BY DEF TypeOK
<1>2. ASSUME SaveHistory PROVE history' \in [Days -> [Keys -> Rows]]
  <2>1. history' = [history EXCEPT ![today] = [history[today] EXCEPT ![key] = value]]
    BY <1>2 DEF SaveHistory
  <2>2. key \in Keys /\ value \in Rows
    BY <1>1, <1>2, RowFacts DEF SaveHistory
  <2> QED
    BY <1>1, <2>1, <2>2, RowWritten
<1>3. ASSUME NEW d \in Days, InsertRebuilt(d) PROVE history' \in [Days -> [Keys -> Rows]]
  <2>1. mkey \in Keys /\ Rebuilt \in Rows
    BY <1>1, <1>3, RowFacts DEF InsertRebuilt
  <2>2. [history EXCEPT ![d] = [history[d] EXCEPT ![mkey] = Rebuilt]] \in [Days -> [Keys -> Rows]]
    BY <1>1, <2>1, RowWritten
  <2> QED
    BY <1>1, <1>3, <2>2 DEF InsertRebuilt
<1> QED
  BY <1>2, <1>3

\* A metric that changes has one of the values.
LEMMA TruthType ==
    ASSUME TypeOK, NEW k \in Keys, ValueChanges(k)
    PROVE  truth' \in [Keys -> Values]
<1>1. truth \in [Keys -> Values] /\ truth[k] \in Values /\ truth[k] < MaxValue
  BY DEF TypeOK, ValueChanges
<1>2. truth[k] + 1 \in Values
  BY <1>1, ConstantsAssumption
<1> QED
  BY <1>1, <1>2 DEF ValueChanges

\* Crashes are counted up to their bound.
LEMMA CrashType == ASSUME TypeOK, Crash PROVE crashes' \in 0 .. MaxCrashes
<1>1. crashes \in 0 .. MaxCrashes
  BY DEF TypeOK
<1> QED
  BY <1>1, ConstantsAssumption DEF Crash

\* Every step of a run keeps the types.
LEMMA RunType == ASSUME TypeOK, Run PROVE TypeOK'
<1> USE DEF TypeOK, PCs, world, tables, reading, migration
<1>1. CASE StartRun
  <2>1. runs' \in 0 .. MaxRuns /\ since' \in 1 .. today'
    BY <1>1, ConstantsAssumption DEF StartRun
  <2> QED
    BY <1>1, <2>1 DEF StartRun
<1>10. CASE StartDaos
  <2>1. list' \subseteq Daos /\ todo' \subseteq Daos /\ pc' = "daos"
    BY <1>10 DEF StartDaos
  <2> QED
    BY <1>10, <2>1 DEF StartDaos
<1>11. CASE Reads
  BY <1>11, ReadsOnly DEF local
<1>2. ASSUME NEW d \in Daos, SaveDao(d) PROVE TypeOK'
  BY <1>2 DEF SaveDao
<1>3. CASE Purge
  BY <1>3, KeyFacts DEF Purge
<1>4. ASSUME NEW k \in Keys, ReadMetric(k) PROVE TypeOK'
  BY <1>4 DEF ReadMetric
<1>5. ASSUME NEW k \in Keys, MetricFails(k) PROVE TypeOK'
  BY <1>5 DEF MetricFails
<1>6. CASE SaveStats
  <2>1. stats' \in [Keys -> Rows]
    BY <1>6, ConstantsAssumption DEF SaveStats
  <2> QED
    BY <1>6, <2>1 DEF SaveStats
<1>7. CASE SaveHistory
  <2>1. history' \in [Days -> [Keys -> Rows]]
    BY <1>7, HistoryType
  <2> QED
    BY <1>7, <2>1 DEF SaveHistory
<1>8. CASE StartMetrics
  <2>1. list' \subseteq Daos /\ todo' \subseteq Keys
    BY <1>8, KeyFacts DEF StartMetrics
  <2> QED
    BY <1>8, <2>1 DEF StartMetrics
<1>9. CASE FinishMetrics
  BY <1>9 DEF FinishMetrics
<1> QED
  BY <1>1, <1>2, <1>3, <1>4, <1>5, <1>6, <1>7, <1>8, <1>9, <1>10, <1>11 DEF Run, Reads

\* So do the other steps.
LEMMA OtherType == ASSUME TypeOK, [Next]_vars, ~ Run PROVE TypeOK'
<1> USE DEF TypeOK, PCs, world, tables, reading, local, migration
<1>1. CASE Crash
  <2>1. crashes' \in 0 .. MaxCrashes
    BY <1>1, CrashType
  <2> QED
    BY <1>1, <2>1 DEF Crash
<1>2. CASE ListExpires
  BY <1>2 DEF ListExpires
<1>3. ASSUME NEW k \in Keys, RebuildMetric(k) PROVE TypeOK'
  <2>1. mdays' \subseteq 1 .. today' /\ mkey' \in Keys /\ migrations' \in 0 .. MaxMigrations
    BY <1>3, ConstantsAssumption DEF RebuildMetric
  <2> QED
    BY <1>3, <2>1 DEF RebuildMetric
<1>4. ASSUME NEW d \in Days, InsertRebuilt(d) PROVE TypeOK'
  <2>1. history' \in [Days -> [Keys -> Rows]]
    BY <1>4, HistoryType
  <2>2. mdays' \subseteq 1 .. today' /\ (mdays' # {} => mkey' \in Keys)
    BY <1>4 DEF InsertRebuilt
  <2> QED
    BY <1>4, <2>1, <2>2 DEF InsertRebuilt
<1>5. CASE Midnight
  <2>1. today' \in Days /\ since' \in 1 .. today' /\ mdays' \subseteq 1 .. today'
    BY <1>5, ConstantsAssumption DEF Midnight
  <2> QED
    BY <1>5, <2>1 DEF Midnight
<1>6. CASE Relisted
  <2>1. PICK ds \in Seq(Daos) : Relists(ds)
    BY <1>6, RelistedTo
  <2>2. Listed \subseteq Daos
    BY Places DEF Listed
  <2>3. /\ factory' \in Seq(Daos) /\ delisted' \subseteq Daos /\ moved' \subseteq Daos
        /\ changes' \in 0 .. MaxFactoryChanges
    BY <2>1, <2>2, ConstantsAssumption DEF Relists
  <2> QED
    BY <2>1, <2>3 DEF Relists
<1>7. ASSUME NEW k \in Keys, ValueChanges(k) PROVE TypeOK'
  <2>1. truth' \in [Keys -> Values]
    BY <1>7, TruthType
  <2> QED
    BY <1>7, <2>1 DEF ValueChanges
<1>8. CASE UNCHANGED vars
  BY <1>8 DEF vars
<1> QED
  BY <1>1, <1>2, <1>3, <1>4, <1>5, <1>6, <1>7, <1>8 DEF Next, Relisted

\* Every variable keeps its type.
THEOREM TypeCorrect == Spec => []TypeOK
<1>1. TypeOK /\ [Next]_vars => TypeOK'
  BY RunType, OtherType
<1> QED
  BY <1>1, InitType, PTL DEF Spec

-----------------------------------------------------------------------------
(* The history table                                                       *)

\* A step leaves a row alone, stores the value in hand for today, or rebuilds
\* what has no row.
LEMMA HistoryStep ==
    ASSUME TypeOK, [Next]_vars, NEW d \in Days, NEW k \in Keys
    PROVE  \/ history'[d][k] = history[d][k]
           \/ SaveHistory /\ d = today /\ history'[d][k] = value /\ value \in Values
           \/ history[d][k] = NoRow /\ history'[d][k] = Rebuilt
<1>1. CASE SaveHistory
  <2>1. /\ history' = [history EXCEPT ![today][key] = value]
        /\ key \in Keys /\ value \in Values /\ today \in Days
    BY <1>1 DEF SaveHistory, TypeOK
  <2>2. history \in [Days -> [Keys -> Rows]]
    BY DEF TypeOK
  <2> QED
    BY <1>1, <2>1, <2>2
<1>2. ASSUME NEW e \in Days, InsertRebuilt(e)
      PROVE  \/ history'[d][k] = history[d][k]
             \/ history[d][k] = NoRow /\ history'[d][k] = Rebuilt
  <2>1. history \in [Days -> [Keys -> Rows]] /\ e \in Days
    BY DEF TypeOK
  <2> QED
    BY <1>2, <2>1 DEF InsertRebuilt
<1>3. CASE ~ SaveHistory /\ ~ \E e \in Days : InsertRebuilt(e)
  <2>1. history' = history
    BY <1>3, ReadsOnly, RelistedTo
       DEF Next, Run, Reads, Relisted, Relists, vars, world, tables, local, migration, StartRun,
           StartDaos, SaveDao, Purge, ReadMetric, MetricFails, SaveStats, StartMetrics,
           FinishMetrics, Crash, ListExpires, RebuildMetric, Midnight, ValueChanges
  <2> QED
    BY <2>1
<1> QED
  BY <1>1, <1>2, <1>3

\* A row is never deleted.
LEMMA RowsStay ==
    ASSUME TypeOK, [Next]_vars, NEW d \in Days, NEW k \in Keys, history[d][k] # NoRow
    PROVE  history'[d][k] # NoRow
BY HistoryStep, ConstantsAssumption

\* Days that are over stay as they are.
THEOREM DaysFinal == Spec => PastDaysFinal
<1>1. TypeOK /\ [Next]_vars =>
        [\A d \in Days, k \in Keys :
            d < today /\ history[d][k] # NoRow => history'[d][k] = history[d][k]]_vars
  <2> SUFFICES ASSUME TypeOK, [Next]_vars, NEW d \in Days, NEW k \in Keys,
                      d < today, history[d][k] # NoRow
               PROVE  history'[d][k] = history[d][k]
    OBVIOUS
  <2>1. d # today
    BY ConstantsAssumption DEF TypeOK
  <2> QED
    BY <2>1, HistoryStep
<1> QED
  BY <1>1, TypeCorrect, PTL DEF Spec, PastDaysFinal

\* What the aggregator recorded is never replaced by what the migration rebuilt.
THEOREM NotRebuilt == Spec => RecordedNotRebuilt
<1>1. TypeOK /\ [Next]_vars =>
        [\A d \in Days, k \in Keys : history[d][k] \in Values => history'[d][k] \in Values]_vars
  <2> SUFFICES ASSUME TypeOK, [Next]_vars, NEW d \in Days, NEW k \in Keys,
                      history[d][k] \in Values
               PROVE  history'[d][k] \in Values
    OBVIOUS
  <2>1. history[d][k] # NoRow
    BY ConstantsAssumption
  <2> QED
    BY <2>1, HistoryStep
<1> QED
  BY <1>1, TypeCorrect, PTL DEF Spec, RecordedNotRebuilt

-----------------------------------------------------------------------------
(* The registry                                                            *)

\* The invariant of the lists holds initially.
LEMMA InitLists == Init => ListsOK
BY DEF Init, ListsOK, Known

\* The pages that are asked for hold every place of the list.
LEMMA PlacesOnPages ==
    ASSUME NEW n \in Nat, NEW place \in 1 .. n
    PROVE  (place - 1) \div ChunkSize \in 0 .. n \div ChunkSize
<1>1. ChunkSize \in Nat /\ ChunkSize > 0 /\ place - 1 \in Nat /\ place - 1 <= n
  BY ConstantsAssumption
<1>2. /\ n \div ChunkSize \in Nat /\ (place - 1) \div ChunkSize \in Nat
      /\ ((place - 1) \div ChunkSize) <= (n \div ChunkSize)
  BY <1>1
<1> QED
  BY <1>2

\* Asking for the list keeps it: an answer at once holds all that is listed, and each page
\* holds those that have its places.
LEMMA ReadsLists == ASSUME TypeOK, ListsOK, Reads PROVE ListsOK'
<1> USE DEF world, tables, local
<1>1. /\ factory \in Seq(Daos) /\ Listed \subseteq Daos /\ registry \subseteq Listed \cup delisted
      /\ UNCHANGED <<Listed, factory, delisted, registry, pc, list, todo>>
  BY ReadsOnly, Places DEF ListsOK, Known, Listed, TypeOK
<1>2. \A d \in Listed : Place(factory, d) \in 1 .. Len(factory) /\ factory[Place(factory, d)] = d
  BY <1>1, Places DEF Listed
<1>3. CASE FetchList
  <2>1. /\ pc \in {"list", "factory"} /\ cached' = <<Listed>> /\ unread' = <<>>
    BY <1>3 DEF FetchList, ListMissing
  <2> QED
    BY <1>1, <2>1 DEF ListsOK, Known, Kept
<1>4. CASE FetchPages
  <2>1. /\ pc \in {"list", "factory"} /\ cached' = <<>> /\ found' = {}
        /\ unread' = <<0 .. Len(factory) \div ChunkSize>>
    BY <1>4 DEF FetchPages, ListMissing
  <2>2. ASSUME NEW d \in registry, d \notin delisted PROVE OnPage(d)'
    <3>1. d \in Listed
      BY <1>1, <2>2
    <3>2. (Place(factory, d) - 1) \div ChunkSize \in 0 .. Len(factory) \div ChunkSize
      BY <1>1, <1>2, <3>1, PlacesOnPages, LenProperties
    <3> QED
      BY <1>1, <2>1, <3>1, <3>2 DEF OnPage
  <2> QED
    BY <1>1, <2>1, <2>2 DEF ListsOK, Known, Kept
<1>5. CASE JoinPages
  <2>1. /\ unread = <<{}>> /\ unread' = <<>> /\ cached' = <<found>> /\ moved' = moved
    BY <1>5 DEF JoinPages
  <2>2. /\ pc \in {"list", "factory"} /\ Known(found) /\ Kept(found)
    BY <2>1 DEF ListsOK, OnPage, Kept
  <2> QED
    BY <1>1, <2>1, <2>2 DEF ListsOK, Known, Kept
<1>6. ASSUME unread # <<>>, NEW page \in unread[1], ReadPage(page) PROVE ListsOK'
  <2> DEFINE there == {factory[i] : i \in {j \in DOMAIN factory : (j - 1) \div ChunkSize = page}}
  <2>1. /\ unread' = <<unread[1] \ {page}>> /\ unread'[1] = unread[1] \ {page}
        /\ found' = found \cup there /\ UNCHANGED <<cached, moved>>
    BY <1>6 DEF ReadPage
  <2>2. there \subseteq Listed
    BY <1>1, Places DEF Listed
  <2>3. /\ pc \in {"list", "factory"} /\ cached = <<>> /\ Known(found)
        /\ \A d \in registry : d \in found \cup delisted \cup moved \/ OnPage(d)
    BY <1>6 DEF ListsOK
  <2>4. ASSUME NEW d \in registry, OnPage(d) PROVE d \in there \/ OnPage(d)'
    <3>1. /\ d \in Listed /\ (Place(factory, d) - 1) \div ChunkSize \in unread[1]
          /\ Place(factory, d) \in DOMAIN factory /\ factory[Place(factory, d)] = d
      BY <1>1, <2>4, Places DEF OnPage, Listed
    <3>2. (Place(factory, d) - 1) \div ChunkSize = page => d \in there
      BY <3>1
    <3>3. (Place(factory, d) - 1) \div ChunkSize # page => OnPage(d)'
      BY <1>1, <2>1, <3>1 DEF OnPage
    <3> QED
      BY <3>2, <3>3
  <2> HIDE DEF there
  <2>5. Known(found)'
    BY <1>1, <2>1, <2>2, <2>3 DEF Known
  <2>6. \A d \in registry' : d \in (found \cup delisted \cup moved)' \/ OnPage(d)'
    BY <1>1, <2>1, <2>3, <2>4
  <2> QED
    BY <1>1, <2>1, <2>3, <2>5, <2>6 DEF ListsOK, Known
<1> QED
  BY <1>3, <1>4, <1>5, <1>6 DEF Reads

\* What the factory drops is remembered as delisted, and what takes another place while
\* the list is read page by page as moved.
LEMMA RelistedLists == ASSUME TypeOK, ListsOK, Relisted PROVE ListsOK'
<1>1. PICK ds \in Seq(Daos) : Relists(ds)
  BY RelistedTo
<1>2. /\ Listed' = Range(ds) /\ factory' = ds /\ delisted' = delisted \cup (Listed \ Range(ds))
      /\ moved' = IF unread = <<>> THEN moved
                  ELSE moved \cup {d \in Listed : Place(ds, d) # Place(factory, d)}
      /\ UNCHANGED <<registry, cached, unread, found, pc, list, todo>>
  BY <1>1 DEF Relists, Listed, tables, reading, local
<1>3. /\ Listed \cup delisted \subseteq Listed' \cup delisted'
      /\ delisted \subseteq delisted' /\ moved \subseteq moved'
  BY <1>2
<1>4. \A S \in SUBSET Daos : Known(S) => Known(S)'
  BY <1>3 DEF Known
<1>5. \A S \in SUBSET Daos : Kept(S) => Kept(S)'
  BY <1>2, <1>3 DEF Kept
<1>6. ASSUME unread # <<>>, NEW d \in registry, OnPage(d)
      PROVE  d \in delisted' \cup moved' \/ OnPage(d)'
  BY <1>2, <1>6 DEF OnPage
<1>7. /\ registry \subseteq Daos /\ found \subseteq Daos /\ list \subseteq Daos
      /\ cached # <<>> => cached[1] \subseteq Daos
  BY DEF TypeOK
<1>8. /\ Known(registry)' /\ (cached # <<>> => Known(cached[1])' /\ Kept(cached[1])')
      /\ (unread # <<>> => Known(found)') /\ (pc = "daos" => Known(list)' /\ Kept(list)')
  <2>1. Known(registry)'
    BY <1>2, <1>4, <1>7 DEF ListsOK, Known
  <2>2. cached # <<>> => Known(cached[1])' /\ Kept(cached[1])'
    BY <1>2, <1>3, <1>7 DEF ListsOK, Known, Kept
  <2>3. unread # <<>> => Known(found)'
    BY <1>2, <1>3, <1>7 DEF ListsOK, Known
  <2>4. pc = "daos" => Known(list)' /\ Kept(list)'
    BY <1>2, <1>3, <1>7 DEF ListsOK, Known, Kept
  <2> QED
    BY <2>1, <2>2, <2>3, <2>4
<1>9. unread # <<>> => \A d \in registry : d \in (found \cup delisted \cup moved)' \/ OnPage(d)'
  BY <1>2, <1>3, <1>6 DEF ListsOK
<1> QED
  BY <1>2, <1>8, <1>9 DEF ListsOK

\* Every step keeps it.
LEMMA ListsStep == ASSUME TypeOK, ListsOK, [Next]_vars PROVE ListsOK'
<1> USE DEF ListsOK, Known, Kept, OnPage, Listed, world, tables, reading, local, migration
<1>1. CASE StartRun \/ StartDaos
  BY <1>1 DEF StartRun, StartDaos
<1>2. ASSUME NEW d \in Daos, SaveDao(d) PROVE ListsOK'
  BY <1>2 DEF SaveDao
<1>3. CASE Purge
  BY <1>3 DEF Purge
<1>4. ASSUME NEW k \in Keys, ReadMetric(k) \/ MetricFails(k) PROVE ListsOK'
  BY <1>4 DEF ReadMetric, MetricFails
<1>5. CASE SaveStats
  BY <1>5 DEF SaveStats
<1>6. CASE SaveHistory
  BY <1>6 DEF SaveHistory
<1>7. CASE StartMetrics
  BY <1>7 DEF StartMetrics
<1>8. CASE FinishMetrics
  BY <1>8 DEF FinishMetrics
<1>9. CASE Crash
  BY <1>9 DEF Crash
<1>10. CASE ListExpires
  BY <1>10 DEF ListExpires
<1>11. ASSUME NEW k \in Keys, RebuildMetric(k) \/ ValueChanges(k) PROVE ListsOK'
  BY <1>11 DEF RebuildMetric, ValueChanges
<1>12. ASSUME NEW d \in Days, InsertRebuilt(d) PROVE ListsOK'
  BY <1>12 DEF InsertRebuilt
<1>13. CASE Midnight
  BY <1>13 DEF Midnight
<1>14. CASE Relisted
  BY <1>14, RelistedLists
<1>15. CASE UNCHANGED vars
  BY <1>15 DEF vars
<1>16. CASE Reads
  BY <1>16, ReadsLists
<1> QED
  BY <1>1, <1>2, <1>3, <1>4, <1>5, <1>6, <1>7, <1>8, <1>9, <1>10, <1>11, <1>12, <1>13,
     <1>14, <1>15, <1>16 DEF Next, Run, Reads, Relisted

\* A DAO is purged only if the factory has removed it, or it took another place while the
\* list was read page by page.
THEOREM PurgeSound == Spec => OnlyDelistedPurged
<1>1. TypeOK /\ ListsOK /\ [Next]_vars => ListsOK'
  BY ListsStep
<1>2. TypeOK /\ ListsOK /\ [Next]_vars => [registry \ registry' \subseteq delisted \cup moved]_vars
  <2> SUFFICES ASSUME TypeOK, ListsOK, [Next]_vars PROVE registry \ registry' \subseteq delisted \cup moved
    OBVIOUS
  <2>1. CASE Purge
    BY <2>1 DEF Purge, ListsOK, Kept
  <2>2. CASE ~ Purge
    <3>1. registry \subseteq registry'
      BY <2>2, ReadsOnly, RelistedTo
         DEF Next, Run, Reads, Relisted, Relists, vars, world, tables, local, migration, StartRun,
             StartDaos, SaveDao, ReadMetric, MetricFails, SaveStats, SaveHistory, StartMetrics,
             FinishMetrics, Crash, ListExpires, RebuildMetric, InsertRebuilt, Midnight,
             ValueChanges
    <3> QED
      BY <3>1
  <2> QED
    BY <2>1, <2>2
<1> QED
  BY <1>1, <1>2, InitLists, TypeCorrect, PTL DEF Spec, OnlyDelistedPurged

-----------------------------------------------------------------------------
(* The loops                                                               *)

\* The invariant of the loops holds initially: none is under way.
LEMMA InitLoops == Init => LoopsOK
BY DEF Init, LoopsOK, FactoryPhase, DaoPhase, Storing

\* A row dated since the run began stays one.
LEMMA HasRowStays ==
    ASSUME TypeOK, [Next]_vars, since' = since, NEW k \in Keys, HasRow(k)
    PROVE  HasRow(k)'
<1>1. PICK d \in since .. today : history[d][k] # NoRow
  BY DEF HasRow
<1>2. d \in Days /\ today \in Nat /\ since \in Nat
  <2>1. today \in 1 .. MaxDay /\ since \in 1 .. today /\ MaxDay \in Nat
    BY ConstantsAssumption DEF TypeOK
  <2>2. today \in Nat /\ today <= MaxDay
    BY <2>1
  <2>3. since \in Nat /\ 1 <= since
    BY <2>1, <2>2
  <2> QED
    BY <2>1, <2>2, <2>3
<1>3. today' = today \/ today' = today + 1
  BY ReadsOnly, RelistedTo
     DEF Next, Run, Reads, Relisted, Relists, vars, world, tables, local, migration, StartRun,
         StartDaos, SaveDao, Purge, ReadMetric, MetricFails, SaveStats, SaveHistory, StartMetrics,
         FinishMetrics, Crash, ListExpires, RebuildMetric, InsertRebuilt, Midnight, ValueChanges
<1>4. history'[d][k] # NoRow
  BY <1>1, <1>2, RowsStay
<1>5. d \in since' .. today'
  BY <1>1, <1>2, <1>3
<1> QED
  BY <1>4, <1>5 DEF HasRow

\* Steps that leave the loop where it is keep the invariant.
LEMMA LoopsStay ==
    ASSUME TypeOK, LoopsOK, [Next]_vars,
           UNCHANGED <<pc, list, todo, key, skipped, since>>
    PROVE  LoopsOK'
<1>1. /\ UNCHANGED <<FactoryPhase, DaoPhase, Storing, Target>>
      /\ Target \subseteq Keys \/ ~ (FactoryPhase \/ DaoPhase)
  BY KeyFacts DEF FactoryPhase, DaoPhase, Storing, Target, TypeOK
<1>2. FactoryPhase \/ DaoPhase => \A k \in Target : Covered(k)'
  <2> SUFFICES ASSUME FactoryPhase \/ DaoPhase, NEW k \in Target PROVE Covered(k)'
    OBVIOUS
  <2>1. Covered(k) /\ k \in Keys
    BY <1>1 DEF LoopsOK
  <2> QED
    BY <2>1, HasRowStays DEF Covered, Storing
<1> QED
  BY <1>1, <1>2 DEF LoopsOK

\* A metric is taken from the list of those to do only to be stored or skipped.
LEMMA MetricLoops ==
    ASSUME TypeOK, LoopsOK, [Next]_vars, NEW k \in Keys, ReadMetric(k) \/ MetricFails(k)
    PROVE  LoopsOK'
<1>1. /\ k \in todo /\ todo' = todo \ {k} /\ pc \in {"factory", "metrics"}
      /\ list' = list /\ since' = since /\ skipped \subseteq skipped'
      /\ (pc' = pc /\ k \in skipped') \/ (pc' = "stats" /\ key' = k)
  BY DEF ReadMetric, MetricFails
<1>2. FactoryPhase' = FactoryPhase /\ DaoPhase' = DaoPhase
  BY <1>1 DEF LoopsOK, FactoryPhase, DaoPhase, Storing
<1>3. Target' = Target /\ Target \subseteq Keys
  BY <1>1, <1>2, KeyFacts DEF Target, TypeOK
<1>4. \A j \in Target : Covered(j)'
  <2> SUFFICES ASSUME NEW j \in Target PROVE Covered(j)'
    OBVIOUS
  <2>1. Covered(j) /\ ~ Storing /\ j \in Keys
    BY <1>1, <1>3 DEF LoopsOK, FactoryPhase, DaoPhase, Storing
  <2> QED
    BY <1>1, <2>1, HasRowStays DEF Covered, Storing
<1> QED
  BY <1>1, <1>2, <1>3, <1>4 DEF LoopsOK

\* The metric in hand gets its row.
LEMMA SaveHistoryLoops ==
    ASSUME TypeOK, LoopsOK, [Next]_vars, SaveHistory
    PROVE  LoopsOK'
<1>1. /\ pc = "history" /\ key \in Keys /\ value \in Values
      /\ pc' = IF key \in FactoryKeys THEN "factory" ELSE "metrics"
      /\ UNCHANGED <<list, todo, skipped, since, today>>
  BY DEF SaveHistory, TypeOK, world
<1>2. FactoryPhase' = FactoryPhase /\ DaoPhase' = DaoPhase
  BY <1>1 DEF FactoryPhase, DaoPhase, Storing
<1>3. Target' = Target /\ Target \subseteq Keys
  BY <1>1, <1>2, KeyFacts DEF Target, TypeOK
<1>4. \A k \in Keys : k = key => HasRow(k)'
  <2> SUFFICES ASSUME NEW k \in Keys, k = key PROVE HasRow(k)'
    OBVIOUS
  <2>1. today \in since' .. today' /\ today \in Days
    BY <1>1, ConstantsAssumption DEF TypeOK
  <2>2. history'[today][k] = value /\ value # NoRow
    BY <1>1, <2>1, ConstantsAssumption DEF SaveHistory, TypeOK
  <2> QED
    BY <2>1, <2>2 DEF HasRow
<1>5. \A j \in Target : Covered(j)'
  <2> SUFFICES ASSUME NEW j \in Target PROVE Covered(j)'
    OBVIOUS
  <2>1. Covered(j) /\ j \in Keys
    BY <1>1, <1>3 DEF LoopsOK, FactoryPhase, DaoPhase, Storing
  <2> QED
    BY <1>1, <1>4, <2>1, HasRowStays DEF Covered, Storing
<1> QED
  BY <1>1, <1>2, <1>3, <1>5 DEF LoopsOK

\* Every step keeps the invariant of the loops.
LEMMA LoopsStep == ASSUME TypeOK, LoopsOK, [Next]_vars PROVE LoopsOK'
<1> USE DEF world, tables, local, migration
<1>1. ASSUME NEW k \in Keys, ReadMetric(k) \/ MetricFails(k) PROVE LoopsOK'
  BY <1>1, MetricLoops
<1>2. CASE SaveHistory
  BY <1>2, SaveHistoryLoops
<1>3. CASE Purge
  BY <1>3 DEF Purge, LoopsOK, FactoryPhase, DaoPhase, Storing, Target, Covered
<1>4. CASE StartMetrics
  <2>1. /\ FactoryPhase /\ ~ Storing /\ todo = {} /\ ~ FactoryPhase' /\ DaoPhase'
        /\ todo' = KeysOf(list') /\ list' \subseteq Daos
        /\ UNCHANGED <<skipped, since>>
    <3>1. pc = "factory" /\ pc' = "metrics" /\ todo = {} /\ todo' = KeysOf(list')
      BY <1>4 DEF StartMetrics
    <3>2. list' \subseteq Daos
      BY <1>4 DEF StartMetrics, TypeOK
    <3> QED
      BY <1>4, <3>1, <3>2 DEF StartMetrics, FactoryPhase, DaoPhase, Storing
  <2>2. \A k \in FactoryKeys : Covered(k)'
    <3> SUFFICES ASSUME NEW k \in FactoryKeys PROVE Covered(k)'
      OBVIOUS
    <3>1. Covered(k) /\ k \in Keys
      BY <2>1, KeyFacts DEF LoopsOK, Target
    <3> QED
      BY <2>1, <3>1, HasRowStays DEF Covered
  <2>3. todo' \cap FactoryKeys = {}
    BY <2>1, KeyFacts
  <2>4. Target' = FactoryKeys \cup KeysOf(list')
    BY <2>1 DEF Target
  <2>5. \A k \in KeysOf(list') : Covered(k)'
    BY <2>1 DEF Covered
  <2> QED
    BY <2>1, <2>2, <2>3, <2>4, <2>5 DEF LoopsOK
<1>5. CASE StartRun \/ StartDaos \/ FinishMetrics \/ Crash \/ \E d \in Daos : SaveDao(d)
  <2>1. pc' \in {"idle", "list", "daos"}
    BY <1>5 DEF StartRun, StartDaos, FinishMetrics, Crash, SaveDao
  <2> QED
    BY <2>1 DEF LoopsOK, FactoryPhase, DaoPhase, Storing
<1>6. CASE SaveStats
  <2>1. /\ pc = "stats" /\ pc' = "history"
        /\ UNCHANGED <<list, todo, key, skipped, since, today, history>>
    BY <1>6 DEF SaveStats
  <2> QED
    BY <2>1 DEF LoopsOK, FactoryPhase, DaoPhase, Storing, Target, Covered, HasRow
<1>7. CASE \/ ListExpires \/ Midnight \/ UNCHANGED vars
           \/ \E k \in Keys : RebuildMetric(k) \/ ValueChanges(k)
           \/ \E d \in Days : InsertRebuilt(d)
           \/ Reads \/ Relisted
  <2>1. UNCHANGED <<pc, list, todo, key, skipped, since>>
    BY <1>7, ReadsOnly, RelistedTo
       DEF vars, ListExpires, Midnight, RebuildMetric, ValueChanges, InsertRebuilt, Relists
  <2> QED
    BY <2>1, LoopsStay
<1> QED
  BY <1>1, <1>2, <1>3, <1>4, <1>5, <1>6, <1>7 DEF Next, Run, Reads, Relisted

\* A run that reaches its end has a row for every metric that did not fail.
THEOREM RunComplete == Spec => []RunCoversList
<1>1. TypeOK /\ LoopsOK /\ [Next]_vars => LoopsOK'
  BY LoopsStep
<1>2. LoopsOK => RunCoversList
  BY DEF LoopsOK, RunCoversList, FactoryPhase, DaoPhase, Storing, Target, Covered, HasRow
<1> QED
  BY <1>1, <1>2, InitLoops, TypeCorrect, PTL DEF Spec

-----------------------------------------------------------------------------
(* The two tables                                                          *)

\* The keys whose tables may differ for the moment: that of the metric between its
\* two writes, and that of the metric the migration is inserting.
Apart == {k \in Keys : ~ Agree(k)}
Excused == (IF pc = "history" THEN {key} ELSE {}) \cup (IF mdays # {} THEN {mkey} ELSE {})
Migrated == IF mdays # {} THEN migrations - 1 ELSE migrations
AgreeOK ==
    /\ \A d \in Days, k \in Keys : d > today => history[d][k] = NoRow
    /\ pc = "history" => stats[key] = value
    /\ mdays # {} => migrations > 0
    /\ Cardinality(Apart \ Excused) <= crashes + Migrated

\* The keys are finitely many.
LEMMA KeysFinite == IsFiniteSet(Keys)
<1>1. IsFiniteSet(FactoryKeys)
  <2>1. IsFiniteSet({Factory})
    BY FS_Singleton
  <2> QED
    BY <2>1, ConstantsAssumption, FS_Product DEF FactoryKeys
<1>2. IsFiniteSet(KeysOf(Daos))
  BY ConstantsAssumption, FS_Product DEF KeysOf
<1> QED
  BY <1>1, <1>2, FS_Union DEF Keys

\* A set that is another one but for an element at most has at most one more.
LEMMA OneMore ==
    ASSUME NEW S \in SUBSET Keys, NEW T \in SUBSET Keys, NEW x, T \subseteq S \cup {x}
    PROVE  /\ Cardinality(S) \in Nat /\ Cardinality(T) \in Nat
           /\ Cardinality(T) <= Cardinality(S) + 1
           /\ T \subseteq S => Cardinality(T) <= Cardinality(S)
<1>1. IsFiniteSet(S) /\ IsFiniteSet(T)
  BY KeysFinite, FS_Subset
<1>2. /\ Cardinality(S) \in Nat /\ Cardinality(T) \in Nat
      /\ IsFiniteSet(S \cup {x}) /\ Cardinality(S \cup {x}) \in Nat
      /\ Cardinality(S \cup {x}) <= Cardinality(S) + 1
  BY <1>1, FS_CardinalityType, FS_AddElement
<1>3. Cardinality(T) <= Cardinality(S \cup {x})
  BY <1>2, FS_Subset
<1>4. T \subseteq S => Cardinality(T) <= Cardinality(S)
  BY <1>1, FS_Subset
<1> QED
  BY <1>2, <1>3, <1>4

\* Whether the tables agree about a key depends on its rows only.
LEMMA AgreeStays ==
    ASSUME NEW k \in Keys, stats'[k] = stats[k], \A d \in Days : history'[d][k] = history[d][k]
    PROVE  Agree(k)' <=> Agree(k)
<1>1. LastDay(k)' = LastDay(k)
  BY DEF LastDay
<1>2. LastDay(k) \subseteq Days
  BY DEF LastDay
<1> QED
  BY <1>1, <1>2 DEF Agree

\* Initially both tables are empty.
LEMMA InitAgree == Init => AgreeOK
<1> SUFFICES ASSUME Init PROVE AgreeOK
  OBVIOUS
<1>1. /\ \A d \in Days, k \in Keys : history[d][k] = NoRow
      /\ \A k \in Keys : stats[k] = NoRow
  BY DEF Init
<1>2. Apart = {}
  <2> SUFFICES ASSUME NEW k \in Keys PROVE Agree(k)
    BY DEF Apart
  <2>1. \A d \in Days : history[d][k] = NoRow
    BY <1>1
  <2>2. \A d \in LastDay(k) : d \in Days /\ history[d][k] # NoRow
    BY DEF LastDay
  <2>3. LastDay(k) = {}
    BY <2>1, <2>2
  <2>4. stats[k] = NoRow
    BY <1>1
  <2> QED
    BY <2>3, <2>4 DEF Agree
<1>3. Cardinality(Apart \ Excused) = 0
  BY <1>2, FS_EmptySet
<1> QED
  BY <1>1, <1>3 DEF Init, AgreeOK, Migrated

\* A step that leaves the two tables, and does not shrink the excuses.
LEMMA TablesStay ==
    ASSUME TypeOK, AgreeOK, UNCHANGED <<stats, history>>, today' >= today, today' \in Int,
           NEW x, Excused \subseteq Excused' \cup {x},
           pc' = "history" => pc = "history" /\ UNCHANGED <<key, value>>,
           mdays' # {} => migrations' > 0,
           crashes' \in Nat, migrations' \in Nat,
           \/ Excused \subseteq Excused' /\ crashes' + Migrated' >= crashes + Migrated
           \/ crashes' + Migrated' >= crashes + Migrated + 1
    PROVE  AgreeOK'
<1>1. Apart' = Apart
  BY AgreeStays DEF Apart
<1>2. /\ Apart \ Excused \in SUBSET Keys /\ Apart' \ Excused' \in SUBSET Keys
      /\ Apart' \ Excused' \subseteq (Apart \ Excused) \cup {x}
      /\ Excused \subseteq Excused' => Apart' \ Excused' \subseteq Apart \ Excused
  BY <1>1 DEF Apart
<1>3. /\ Cardinality(Apart \ Excused) \in Nat /\ Cardinality(Apart' \ Excused') \in Nat
      /\ Cardinality(Apart' \ Excused') <= Cardinality(Apart \ Excused) + 1
      /\ Excused \subseteq Excused' =>
            Cardinality(Apart' \ Excused') <= Cardinality(Apart \ Excused)
  BY <1>2, OneMore
<1>4. crashes + Migrated \in Int /\ crashes' + Migrated' \in Int
  BY DEF Migrated, TypeOK
<1>5. Cardinality(Apart \ Excused) <= crashes + Migrated
  BY DEF AgreeOK
<1>6. Cardinality(Apart' \ Excused') <= crashes' + Migrated'
  BY <1>3, <1>4, <1>5
<1>7. \A d \in Days, k \in Keys : d > today' => history'[d][k] = NoRow
  BY DEF AgreeOK, TypeOK
<1> QED
  BY <1>6, <1>7 DEF AgreeOK

\* What the counters and the migration under way can be.
LEMMA CounterFacts ==
    ASSUME TypeOK
    PROVE  /\ crashes \in Nat /\ migrations \in Nat /\ Migrated \in Int
           /\ \A d \in mdays : d \in Days /\ today \in Days /\ d <= today /\ mkey \in Keys
<1>1. crashes \in Nat /\ migrations \in Nat
  <2>1. crashes \in 0 .. MaxCrashes /\ migrations \in 0 .. MaxMigrations
    BY DEF TypeOK
  <2> QED
    BY <2>1, ConstantsAssumption
<1>2. today \in Days /\ mdays \subseteq 1 .. today /\ (mdays # {} => mkey \in Keys)
  BY DEF TypeOK
<1>3. \A d \in mdays : d \in Days /\ d <= today
  BY <1>2, ConstantsAssumption DEF Days
<1> QED
  BY <1>1, <1>2, <1>3 DEF Migrated

\* The first write parts the tables for its key only, which it excuses.
LEMMA SaveStatsAgree == ASSUME TypeOK, AgreeOK, SaveStats PROVE AgreeOK'
<1>1. /\ pc = "stats" /\ pc' = "history" /\ key' = key /\ value' = value
      /\ stats' = [stats EXCEPT ![key] = value] /\ stats \in [Keys -> Rows] /\ key \in Keys
      /\ UNCHANGED <<history, today, mdays, mkey, crashes, migrations>>
  BY DEF SaveStats, TypeOK, world, migration
<1>2. \A k \in Keys \ {key} : Agree(k)' <=> Agree(k)
  BY <1>1, AgreeStays
<1>3. Excused' = Excused \cup {key} /\ Migrated' = Migrated
  BY <1>1 DEF Excused, Migrated
<1>4. /\ Apart \ Excused \in SUBSET Keys /\ Apart' \ Excused' \in SUBSET Keys
      /\ Apart' \ Excused' \subseteq Apart \ Excused
  BY <1>2, <1>3 DEF Apart
<1>5. Cardinality(Apart' \ Excused') <= Cardinality(Apart \ Excused)
  BY <1>4, OneMore
<1>6. /\ Cardinality(Apart \ Excused) \in Nat /\ Cardinality(Apart' \ Excused') \in Nat
      /\ crashes + Migrated \in Int
  BY <1>4, OneMore, CounterFacts
<1>7. Cardinality(Apart' \ Excused') <= crashes' + Migrated'
  BY <1>1, <1>3, <1>5, <1>6 DEF AgreeOK
<1>8. stats'[key'] = value'
  BY <1>1
<1> QED
  BY <1>1, <1>7, <1>8 DEF AgreeOK

\* The second write heals its key: its row is the newest one.
LEMMA SaveHistoryAgree == ASSUME TypeOK, AgreeOK, SaveHistory PROVE AgreeOK'
<1>1. /\ pc = "history" /\ pc' # "history" /\ stats' = stats
      /\ history' = [history EXCEPT ![today][key] = value] /\ history \in [Days -> [Keys -> Rows]]
      /\ key \in Keys /\ today \in Days /\ value \in Values
      /\ UNCHANGED <<today, mdays, mkey, crashes, migrations>>
  BY DEF SaveHistory, TypeOK, world, migration
<1>2. /\ \A d \in Days, k \in Keys \ {key} : history'[d][k] = history[d][k]
      /\ \A d \in Days \ {today} : history'[d][key] = history[d][key]
      /\ history'[today][key] = value
  BY <1>1
<1>3. \A k \in Keys \ {key} : Agree(k)' <=> Agree(k)
  BY <1>1, <1>2, AgreeStays
<1>4. \A d \in Days, k \in Keys : d > today => history'[d][k] = NoRow
  BY <1>1, <1>2 DEF AgreeOK
<1>5. ASSUME NEW k \in Keys, k = key PROVE Agree(k)'
  <2>1. LastDay(k)' = {today}
    <3>1. today \in LastDay(k)'
      BY <1>1, <1>2, <1>4, <1>5, ConstantsAssumption DEF LastDay
    <3>2. ASSUME NEW d \in LastDay(k)' PROVE d = today
      <4>1. /\ d \in Days /\ history'[d][k] # NoRow
            /\ \A e \in Days : e > d => history'[e][k] = NoRow
        BY <3>2 DEF LastDay
      <4> QED
        BY <1>1, <1>2, <1>4, <1>5, <4>1, ConstantsAssumption
    <3> QED
      BY <3>1, <3>2
  <2>2. stats'[k] = history'[today][k]
    BY <1>1, <1>2, <1>5 DEF AgreeOK
  <2> QED
    BY <2>1, <2>2 DEF Agree
<1>6. Excused \subseteq Excused' \cup {key} /\ Migrated' = Migrated
  BY <1>1 DEF Excused, Migrated
<1>7. /\ Apart \ Excused \in SUBSET Keys /\ Apart' \ Excused' \in SUBSET Keys
      /\ Apart' \ Excused' \subseteq Apart \ Excused
  BY <1>3, <1>5, <1>6 DEF Apart
<1>8. /\ Cardinality(Apart' \ Excused') <= Cardinality(Apart \ Excused)
      /\ Cardinality(Apart \ Excused) \in Nat /\ Cardinality(Apart' \ Excused') \in Nat
      /\ crashes + Migrated \in Int
  <2>1. Apart' \ Excused' \subseteq (Apart \ Excused) \cup {key}
    BY <1>7
  <2>2. crashes + Migrated \in Int
    BY CounterFacts
  <2> QED
    BY <1>7, <2>1, <2>2, OneMore
<1>9. Cardinality(Apart' \ Excused') <= crashes' + Migrated'
  BY <1>1, <1>6, <1>8 DEF AgreeOK
<1> QED
  BY <1>1, <1>4, <1>9 DEF AgreeOK

\* The migration parts the tables for its metric only, which is excused until the
\* last day is inserted and counted from then on.
LEMMA InsertAgree ==
    ASSUME TypeOK, AgreeOK, NEW d \in Days, InsertRebuilt(d)
    PROVE  AgreeOK'
<1>1. /\ d \in mdays /\ d <= today /\ today \in Days /\ mkey \in Keys /\ Rebuilt \in Rows
      /\ history \in [Days -> [Keys -> Rows]] /\ mdays' = mdays \ {d}
      /\ history' = IF history[d][mkey] = NoRow THEN [history EXCEPT ![d][mkey] = Rebuilt]
                    ELSE history
      /\ mdays' # {} => mkey' = mkey
      /\ UNCHANGED <<today, stats, pc, key, value, crashes, migrations>>
  <2>1. history \in [Days -> [Keys -> Rows]]
    BY DEF TypeOK
  <2>2. /\ d \in mdays /\ mdays' = mdays \ {d}
        /\ history' = IF history[d][mkey] = NoRow THEN [history EXCEPT ![d][mkey] = Rebuilt]
                      ELSE history
        /\ mdays' # {} => mkey' = mkey
        /\ UNCHANGED <<today, stats, pc, key, value, crashes, migrations>>
    BY DEF InsertRebuilt, world, local
  <2> QED
    BY <2>1, <2>2, CounterFacts, RowFacts
<1>2. \A e \in Days, k \in Keys : (k # mkey \/ e # d) => history'[e][k] = history[e][k]
  BY <1>1
<1>3. \A k \in Keys \ {mkey} : Agree(k)' <=> Agree(k)
  BY <1>1, <1>2, AgreeStays
<1>4. \A e \in Days, k \in Keys : e > today' => history'[e][k] = NoRow
  BY <1>1, <1>2, ConstantsAssumption DEF AgreeOK
<1>5. /\ Apart \ Excused \in SUBSET Keys /\ Apart' \ Excused' \in SUBSET Keys
      /\ Apart' \ Excused' \subseteq (Apart \ Excused) \cup {mkey}
      /\ mdays' # {} => Apart' \ Excused' \subseteq Apart \ Excused
  BY <1>1, <1>3 DEF Apart, Excused
<1>6. /\ Cardinality(Apart \ Excused) \in Nat /\ Cardinality(Apart' \ Excused') \in Nat
      /\ Cardinality(Apart' \ Excused') <= Cardinality(Apart \ Excused) + 1
      /\ mdays' # {} => Cardinality(Apart' \ Excused') <= Cardinality(Apart \ Excused)
  BY <1>5, OneMore
<1>7. /\ crashes \in Nat /\ migrations \in Nat /\ Migrated = migrations - 1
      /\ Migrated' = IF mdays' = {} THEN migrations ELSE migrations - 1
  BY <1>1, CounterFacts DEF Migrated
<1>8. Cardinality(Apart' \ Excused') <= crashes' + Migrated'
  BY <1>1, <1>6, <1>7 DEF AgreeOK
<1>9. (pc' = "history" => stats'[key'] = value') /\ (mdays' # {} => migrations' > 0)
  BY <1>1 DEF AgreeOK
<1> QED
  BY <1>4, <1>8, <1>9 DEF AgreeOK

\* The other steps leave the tables as they are; a crash may leave them apart for
\* the key it was writing.
LEMMA OtherAgree ==
    ASSUME TypeOK, TypeOK', AgreeOK, [Next]_vars,
           ~ SaveStats, ~ SaveHistory, ~ \E d \in Days : InsertRebuilt(d)
    PROVE  AgreeOK'
<1> USE DEF world, tables, local, migration
<1>1. UNCHANGED <<stats, history>>
  BY ReadsOnly, RelistedTo
     DEF Next, Run, Reads, Relisted, Relists, vars, StartRun, StartDaos, SaveDao, Purge, ReadMetric,
         MetricFails, StartMetrics, FinishMetrics, Crash, ListExpires, RebuildMetric, Midnight,
         ValueChanges
<1>2. /\ today \in Int /\ today' \in Int /\ crashes \in Nat /\ migrations \in Nat
      /\ crashes' \in Nat /\ migrations' \in Nat
  BY ConstantsAssumption DEF TypeOK
<1>3. CASE Crash
  <2>1. /\ today' = today /\ pc' = "idle" /\ crashes' = crashes + 1
        /\ UNCHANGED <<mdays, mkey, migrations>>
    BY <1>3 DEF Crash
  <2>2. Excused \subseteq Excused' \cup {key} /\ Migrated' = Migrated
    BY <2>1 DEF Excused, Migrated
  <2>3. crashes' + Migrated' >= crashes + Migrated + 1
    BY <1>2, <2>1, <2>2 DEF Migrated
  <2> QED
    BY <1>1, <1>2, <2>1, <2>2, <2>3, TablesStay DEF AgreeOK
<1>4. ASSUME NEW k \in Keys, RebuildMetric(k) PROVE AgreeOK'
  <2>1. /\ today' = today /\ mdays = {} /\ mdays' # {} /\ migrations' = migrations + 1
        /\ UNCHANGED <<pc, key, value, crashes>>
    BY <1>4 DEF RebuildMetric
  <2>2. Excused \subseteq Excused' /\ Migrated' = Migrated
    BY <1>2, <2>1 DEF Excused, Migrated
  <2>3. crashes' + Migrated' >= crashes + Migrated /\ migrations' > 0
    BY <1>2, <2>1, <2>2 DEF Migrated
  <2> QED
    BY <1>1, <1>2, <2>1, <2>2, <2>3, TablesStay
<1>5. CASE ~ Crash /\ ~ \E k \in Keys : RebuildMetric(k)
  <2>1. /\ today' >= today
        /\ UNCHANGED <<mdays, mkey, migrations, crashes>>
        /\ pc = "history" \/ pc' = "history" => UNCHANGED <<pc, key, value>>
    BY <1>2, <1>5, ReadsOnly, RelistedTo
       DEF Next, Run, Reads, Relisted, Relists, vars, StartRun, StartDaos, SaveDao, Purge, ReadMetric,
           MetricFails, StartMetrics, FinishMetrics, ListExpires, Midnight, ValueChanges
  <2>2. Excused \subseteq Excused' /\ Migrated' = Migrated
    BY <2>1 DEF Excused, Migrated
  <2>3. crashes' + Migrated' >= crashes + Migrated
    BY <1>2, <2>1, <2>2 DEF Migrated
  <2> QED
    BY <1>1, <1>2, <2>1, <2>2, <2>3, TablesStay DEF AgreeOK
<1> QED
  BY <1>3, <1>4, <1>5

\* The two tables part only by a crash, a migration, or for the moment between the
\* two writes of a metric.
THEOREM TablesAgree == Spec => []StatsHistoryAgree
<1>1. TypeOK /\ TypeOK' /\ AgreeOK /\ [Next]_vars => AgreeOK'
  BY SaveStatsAgree, SaveHistoryAgree, InsertAgree, OtherAgree
<1>2. TypeOK /\ AgreeOK => StatsHistoryAgree
  <2> SUFFICES ASSUME TypeOK, AgreeOK PROVE StatsHistoryAgree
    OBVIOUS
  <2> DEFINE Part(x) == Apart \ x
             Now == IF pc = "history" THEN {key} ELSE {}
             Soon == IF mdays # {} THEN {mkey} ELSE {}
  <2>1. /\ Apart \in SUBSET Keys /\ Part(Now) \in SUBSET Keys /\ Part(Excused) \in SUBSET Keys
        /\ Part(Excused) \subseteq Part(Now)
        /\ Part(Now) \subseteq Part(Excused) \cup {mkey}
        /\ mdays = {} => Part(Now) \subseteq Part(Excused)
        /\ Apart \subseteq Part(Now) \cup {key} /\ (pc # "history" => Apart = Part(Now))
    BY DEF Apart, Excused
  <2>2. /\ Cardinality(Apart) \in Nat /\ Cardinality(Part(Now)) \in Nat
        /\ Cardinality(Part(Excused)) \in Nat
        /\ Cardinality(Part(Now)) <= Cardinality(Part(Excused)) + 1
        /\ mdays = {} => Cardinality(Part(Now)) <= Cardinality(Part(Excused))
    BY <2>1, OneMore
  <2>3. /\ Cardinality(Apart) <= Cardinality(Part(Now)) + 1
        /\ pc # "history" => Cardinality(Apart) = Cardinality(Part(Now))
    BY <2>1, OneMore
  <2>4. /\ Cardinality(Part(Excused)) <= crashes + Migrated
        /\ crashes \in Nat /\ migrations \in Nat
        /\ Migrated = IF mdays # {} THEN migrations - 1 ELSE migrations
    BY DEF AgreeOK, Migrated, TypeOK
  <2>5. Cardinality(Part(Now)) <= crashes + migrations
    BY <2>2, <2>4
  <2>6. Cardinality(Apart) <= crashes + migrations + (IF pc = "history" THEN 1 ELSE 0)
    BY <2>2, <2>3, <2>4, <2>5
  <2> QED
    BY <2>6 DEF StatsHistoryAgree, Apart
<1> QED
  BY <1>1, <1>2, InitAgree, TypeCorrect, PTL DEF Spec

=============================================================================
