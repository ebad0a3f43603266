------------------------------ MODULE ApiProofs ------------------------------
(***************************************************************************)
(* Proofs about what the API serves.                                       *)
(*                                                                         *)
(* Of its response cache, for any number of requests in flight, any time   *)
(* to live and any handling time: its types, how old a response may be,    *)
(* how long a purged DAO is answered for, and how an entry from before a   *)
(* clearing can be in the cache.                                           *)
(*                                                                         *)
(* Of its answers from dao_stats and dao_stats_history, for any DAOs and   *)
(* any number of days, changes and failures: what totals read during a     *)
(* sweep may say, what charts and leaderboards say of the same rows, and   *)
(* how far the chart of proposals is behind.                               *)
(***************************************************************************)
EXTENDS HttpCache, StatsQueries, SumTheorems

-----------------------------------------------------------------------------
(* The response cache                                                      *)

\* What has been read of the database by a request that is under way is no
\* older than a request may take, and not from before the DAO was purged; what
\* was read before the last clearing is marked.
RequestOK(q) ==
    /\ q.at = "check" => q.age = 0
    /\ q.at \in Begun => q.age <= MaxHandling /\ gone <= q.age
    /\ q.at \in {"respond", "store"} => (q.ver < cleared => q.overlap)

\* Likewise of an entry, which together with the time it has left is never
\* older than the bound.
EntryOK(e) ==
    /\ e.age + e.ttl <= MaxAge
    /\ gone <= e.age
    /\ e.ver < cleared => e.overlap

CacheOK ==
    /\ TypeOK
    /\ cleared <= db
    /\ known => gone = 0
    /\ \A r \in Requests : RequestOK(requests[r])
    /\ \A e \in cache : EntryOK(e)
    /\ served.gone <= served.age /\ served.age <= MaxAge

\* An empty cache and idle requests are in order.
LEMMA InitInv == CacheInit => CacheOK
<1> SUFFICES ASSUME CacheInit PROVE CacheOK
  OBVIOUS
<1>1. 0 \in Versions /\ 0 \in Ages /\ 0 <= MaxAge /\ MaxAge \in Nat
  BY CacheConstants DEF Versions, Ages, MaxAge
<1>2. Idle \in Request /\ Idle.at \notin Begun \cup {"check", "respond", "store"}
  BY <1>1 DEF Idle, Request, Steps, Begun
<1>3. requests \in [Requests -> Request]
  BY <1>2 DEF CacheInit
<1>4. served \in [age : Ages, gone : Ages] /\ served.age = 0 /\ served.gone = 0
  BY <1>1 DEF CacheInit
<1>5. TypeOK
  BY <1>1, <1>3, <1>4 DEF CacheInit, TypeOK
<1> QED
  BY <1>1, <1>2, <1>4, <1>5 DEF CacheInit, CacheOK, RequestOK

\* Serving an age within the bound, of what is no older than the purge.
LEMMA ServeOK ==
    ASSUME CacheOK, NEW a \in Ages, a <= MaxAge, gone <= a, Serve(a)
    PROVE  /\ served' \in [age : Ages, gone : Ages]
           /\ served'.gone <= served'.age /\ served'.age <= MaxAge
BY DEF CacheOK, TypeOK, Serve

\* A step that changes nothing but one request keeps the invariant if that
\* request is in order afterwards.
LEMMA RequestStep ==
    ASSUME CacheOK, NEW r \in Requests, NEW q \in Request,
           requests' = [requests EXCEPT ![r] = q],
           RequestOK(q)',
           UNCHANGED <<db, known, gone, writing, cache, cleared>>,
           served' = served
    PROVE  CacheOK'
<1>1. requests' \in [Requests -> Request]
  BY DEF CacheOK, TypeOK
<1>2. \A s \in Requests : RequestOK(requests[s])'
  BY DEF CacheOK, TypeOK, RequestOK
<1>3. \A e \in cache' : EntryOK(e)'
  BY DEF CacheOK, EntryOK
<1> QED
  BY <1>1, <1>2, <1>3 DEF CacheOK, TypeOK


-----------------------------------------------------------------------------
(* The steps                                                               *)

\* A hit serves an entry of the cache, whose age is bounded.
LEMMA HitInv == ASSUME CacheOK, NEW r \in Requests, Hit(r) PROVE CacheOK'
<1>1. PICK e \in cache : Serve(e.age)
  BY DEF Hit
<1>2. e \in Entry /\ EntryOK(e) /\ MaxAge \in Nat
  BY CacheConstants DEF CacheOK, TypeOK, MaxAge
<1>3. e.age \in Ages /\ e.age <= MaxAge /\ gone <= e.age
  BY <1>2, CacheConstants DEF Entry, EntryOK, Ages
<1>4. /\ served' \in [age : Ages, gone : Ages]
      /\ served'.gone <= served'.age /\ served'.age <= MaxAge
  BY <1>1, <1>3, ServeOK
<1> QED
  BY <1>4 DEF Hit, CacheOK, TypeOK, RequestOK, EntryOK

\* A miss only begins a request.
LEMMA MissInv == ASSUME CacheOK, NEW r \in Requests, Miss(r) PROVE CacheOK'
<1>1. PICK keep \in BOOLEAN :
        requests' = [requests EXCEPT ![r] = [Idle EXCEPT !.at = "check", !.keep = keep]]
  BY DEF Miss
<1> DEFINE q == [Idle EXCEPT !.at = "check", !.keep = keep]
<1>2. 0 \in Versions /\ 0 \in Ages
  BY CacheConstants DEF Versions, Ages, MaxAge
<1>3. q \in Request /\ q.at = "check" /\ q.age = 0
  BY <1>2 DEF Idle, Request, Steps
<1>4. RequestOK(q)'
  BY <1>3 DEF RequestOK, Begun
<1> HIDE DEF q
<1> QED
  BY <1>1, <1>3, <1>4, RequestStep DEF Miss, q

\* Past the check, the DAO is known and the age of the request is 0.
LEMMA CheckDaoInv == ASSUME CacheOK, NEW r \in Requests, CheckDao(r) PROVE CacheOK'
<1>1. 0 \in Versions /\ 0 \in Ages /\ MaxHandling \in Nat
  BY CacheConstants DEF Versions, Ages, MaxAge
<1>2. requests[r] \in Request /\ RequestOK(requests[r]) /\ (known => gone = 0)
  BY DEF CacheOK, TypeOK
<1>3. CASE known
  <2>1. PICK q \in Request : q = [requests[r] EXCEPT !.at = "read"]
    BY <1>2 DEF Request, Steps
  <2>2. q.at = "read" /\ q.age = 0 /\ gone = 0 /\ gone' = gone
    BY <2>1, <1>2, <1>3 DEF CheckDao, RequestOK, Request
  <2>3. RequestOK(q)'
    BY <2>2, <1>1 DEF RequestOK, Begun
  <2> QED
    BY <1>3, <2>1, <2>3, RequestStep DEF CheckDao
<1>4. CASE ~ known
  <2>1. Idle \in Request /\ Idle.at = "idle"
    BY <1>1 DEF Idle, Request, Steps
  <2>2. RequestOK(Idle)'
    BY <2>1 DEF RequestOK, Begun, Idle
  <2> QED
    BY <1>4, <2>1, <2>2, RequestStep DEF CheckDao
<1> QED
  BY <1>3, <1>4

\* What is read now is the newest version there is.
LEMMA ReadDbInv == ASSUME CacheOK, NEW r \in Requests, ReadDb(r) PROVE CacheOK'
<1>1. /\ requests[r] \in Request /\ RequestOK(requests[r])
      /\ db \in Versions /\ cleared \in Versions /\ cleared <= db
  BY DEF CacheOK, TypeOK
<1>2. PICK q \in Request : q = [requests[r] EXCEPT !.at = "respond", !.ver = db]
  BY <1>1 DEF Request, Steps
<1>3. q.at = "respond" /\ q.ver = db /\ q.age = requests[r].age /\ requests[r].at = "read"
  BY <1>1, <1>2 DEF Request, ReadDb
<1>4. requests' = [requests EXCEPT ![r] = q]
  BY <1>2 DEF ReadDb
<1>5. RequestOK(q)'
  BY <1>1, <1>3, CacheConstants DEF ReadDb, RequestOK, Begun, Versions
<1> QED
  BY <1>4, <1>5, RequestStep DEF ReadDb

\* A response is no older than a request takes.
LEMMA RespondInv == ASSUME CacheOK, NEW r \in Requests, Respond(r) PROVE CacheOK'
<1>1. requests[r] \in Request /\ RequestOK(requests[r]) /\ requests[r].at = "respond"
  BY DEF CacheOK, TypeOK, Respond
<1>2. MaxHandling <= MaxAge /\ 0 \in Versions /\ 0 \in Ages
  BY CacheConstants DEF MaxAge, Versions, Ages
<1>3. requests[r].age \in Ages /\ requests[r].age <= MaxAge /\ gone <= requests[r].age
  BY <1>1, <1>2, CacheConstants DEF Request, RequestOK, Begun, Ages, MaxAge
<1>4. /\ served' \in [age : Ages, gone : Ages]
      /\ served'.gone <= served'.age /\ served'.age <= MaxAge
  BY <1>3, ServeOK DEF Respond
<1>5. PICK q \in Request :
         q = IF requests[r].keep THEN [requests[r] EXCEPT !.at = "store"] ELSE Idle
  BY <1>1, <1>2 DEF Request, Steps, Idle
<1>6. RequestOK(q)'
  BY <1>1, <1>5 DEF Respond, RequestOK, Request, Begun, Idle
<1>7. requests' = [requests EXCEPT ![r] = q]
  BY <1>5 DEF Respond
<1>8. /\ requests' \in [Requests -> Request]
      /\ \A s \in Requests : RequestOK(requests[s])'
  BY <1>6, <1>7 DEF Respond, CacheOK, TypeOK, RequestOK
<1>9. \A e \in cache' : EntryOK(e)'
  BY DEF Respond, CacheOK, EntryOK
<1> QED
  BY <1>4, <1>8, <1>9 DEF Respond, CacheOK, TypeOK

\* What is stored has the whole time to live before it.
LEMMA StoreInv == ASSUME CacheOK, NEW r \in Requests, Store(r) PROVE CacheOK'
<1>1. requests[r] \in Request /\ RequestOK(requests[r]) /\ requests[r].at = "store"
  BY DEF CacheOK, TypeOK, Store
<1>2. 0 \in Versions /\ 0 \in Ages /\ TTL \in 1 .. TTL
  BY CacheConstants DEF MaxAge, Versions, Ages
<1>3. PICK e \in Entry : e = [ver |-> requests[r].ver, age |-> requests[r].age, ttl |-> TTL,
                              overlap |-> requests[r].overlap]
  BY <1>1, <1>2 DEF Request, Entry
<1>4. EntryOK(e)'
  BY <1>1, <1>3, CacheConstants DEF Store, EntryOK, RequestOK, Request, Begun, MaxAge, Ages
<1>5. cache' = {e}
  BY <1>3 DEF Store
<1>6. Idle \in Request /\ Idle.at = "idle"
  BY <1>2 DEF Idle, Request, Steps
<1>7. /\ requests' \in [Requests -> Request]
      /\ \A s \in Requests : RequestOK(requests[s])'
  BY <1>6 DEF Store, CacheOK, TypeOK, RequestOK, Begun
<1> QED
  BY <1>4, <1>5, <1>7 DEF Store, CacheOK, TypeOK

\* A request that ends without storing leaves the cache alone.
LEMMA StoreFailsInv == ASSUME CacheOK, NEW r \in Requests, StoreFails(r) PROVE CacheOK'
<1>1. 0 \in Versions /\ 0 \in Ages
  BY CacheConstants DEF Versions, Ages, MaxAge
<1>2. Idle \in Request /\ Idle.at = "idle"
  BY <1>1 DEF Idle, Request, Steps
<1>3. RequestOK(Idle)'
  BY <1>2 DEF RequestOK, Begun, Idle
<1> QED
  BY <1>2, <1>3, RequestStep DEF StoreFails

\* A run begins or dies.
LEMMA RunInv == ASSUME CacheOK, StartRun \/ CrashRun PROVE CacheOK'
<1>1. writing' \in BOOLEAN /\ UNCHANGED <<db, known, gone, cache, requests, served, cleared>>
  BY DEF StartRun, CrashRun
<1>2. TypeOK'
  BY <1>1 DEF CacheOK, TypeOK
<1>3. \A s \in Requests : RequestOK(requests[s])'
  BY <1>1 DEF CacheOK, RequestOK
<1>4. \A e \in cache' : EntryOK(e)'
  BY <1>1 DEF CacheOK, EntryOK
<1> QED
  BY <1>1, <1>2, <1>3, <1>4 DEF CacheOK

\* A write may register the DAO, which ends its absence, or begin it.
LEMMA WriteInv == ASSUME CacheOK, Write PROVE CacheOK'
<1>1. db' \in Versions /\ cleared' <= db' /\ 0 \in Ages
  BY CacheConstants DEF CacheOK, TypeOK, Write, Versions, Ages, MaxAge
<1>2. known' \in BOOLEAN /\ gone' \in Ages /\ gone' <= gone /\ (known' => gone' = 0)
  BY <1>1, CacheConstants DEF CacheOK, TypeOK, Write, Ages, MaxAge
<1>3. \A s \in Requests : RequestOK(requests[s])'
  BY <1>2, CacheConstants DEF CacheOK, TypeOK, Write, RequestOK, Request, Ages, MaxAge
<1>4. \A e \in cache' : EntryOK(e)'
  BY <1>2, CacheConstants DEF CacheOK, TypeOK, Write, EntryOK, Entry, Ages, MaxAge
<1> QED
  BY <1>1, <1>2, <1>3, <1>4 DEF CacheOK, TypeOK, Write

\* Clearing marks every request that has read and not stored.
LEMMA ClearCacheInv == ASSUME CacheOK, ClearCache PROVE CacheOK'
<1>1. \A s \in Requests :
         /\ requests'[s] \in Request
         /\ requests'[s].at = requests[s].at /\ requests'[s].age = requests[s].age
         /\ requests'[s].at \in {"respond", "store"} => requests'[s].overlap
  BY DEF CacheOK, TypeOK, ClearCache, Request
<1>2. requests' \in [Requests -> Request]
  BY <1>1 DEF ClearCache
<1>3. \A s \in Requests : RequestOK(requests[s])'
  BY <1>1 DEF CacheOK, RequestOK, ClearCache
<1>4. cache' = {} /\ db' \in Versions /\ cleared' = db' /\ cleared' <= db'
  BY CacheConstants DEF CacheOK, TypeOK, ClearCache, Versions
<1>5. TypeOK'
  BY <1>2, <1>4 DEF CacheOK, TypeOK, ClearCache
<1> QED
  BY <1>3, <1>4, <1>5 DEF CacheOK, ClearCache

\* Everything ages alike: what is no younger than the purge stays so.
LEMMA OlderFacts ==
    ASSUME NEW m \in Ages, NEW n \in Ages
    PROVE  /\ Older(n) \in Ages /\ n <= Older(n)
           /\ n <= MaxAge => Older(n) = n + 1
           /\ m <= n => Older(m) <= Older(n)
BY CacheConstants DEF Ages, Older, MaxAge

\* A tick ages what is read, kept and purged alike.
LEMMA TickInv == ASSUME CacheOK, Tick PROVE CacheOK'
<1>0. 0 \in Ages /\ MaxHandling \in Nat /\ MaxAge \in Nat /\ MaxHandling <= MaxAge
  BY CacheConstants DEF Ages, MaxAge
<1>1. gone \in Ages /\ gone' \in Ages /\ (known' => gone' = 0)
  BY <1>0, OlderFacts DEF CacheOK, TypeOK, Tick
<1>2. \A n \in Ages : gone <= n => gone' <= Older(n)
  <2> SUFFICES ASSUME NEW n \in Ages, gone <= n PROVE gone' <= Older(n)
    OBVIOUS
  <2>1. Older(n) \in Ages /\ Older(gone) <= Older(n)
    BY <1>1, OlderFacts
  <2>2. CASE known
    <3>1. 0 <= Older(n)
      BY <1>0, <2>1 DEF Ages
    <3> QED
      BY <2>2, <3>1 DEF Tick
  <2>3. CASE ~ known
    BY <2>1, <2>3 DEF Tick
  <2> QED
    BY <2>2, <2>3
<1>3. \A s \in Requests :
         /\ requests'[s] \in Request
         /\ requests'[s].at = requests[s].at /\ requests'[s].ver = requests[s].ver
         /\ requests'[s].overlap = requests[s].overlap
         /\ requests'[s].age = IF requests[s].at \in Begun THEN Older(requests[s].age)
                              ELSE requests[s].age
  <2> SUFFICES ASSUME NEW s \in Requests
               PROVE  /\ requests'[s] \in Request
                      /\ requests'[s].at = requests[s].at /\ requests'[s].ver = requests[s].ver
                      /\ requests'[s].overlap = requests[s].overlap
                      /\ requests'[s].age = IF requests[s].at \in Begun THEN Older(requests[s].age)
                                           ELSE requests[s].age
    OBVIOUS
  <2>1. requests[s] \in Request
    BY DEF CacheOK, TypeOK
  <2>2. Older(requests[s].age) \in Ages
    BY <2>1, OlderFacts DEF Request
  <2>3. requests'[s] = IF requests[s].at \in Begun THEN [requests[s] EXCEPT !.age = Older(@)]
                      ELSE requests[s]
    BY DEF Tick
  <2> QED
    BY <2>1, <2>2, <2>3 DEF Request
<1>4. \A s \in Requests : RequestOK(requests[s])'
  <2> SUFFICES ASSUME NEW s \in Requests PROVE RequestOK(requests[s])'
    OBVIOUS
  <2>1. requests[s] \in Request /\ RequestOK(requests[s]) /\ requests[s].age \in Ages
    BY DEF CacheOK, TypeOK, Request
  <2>2. CASE requests[s].at \in Begun
    <3>1. requests[s].age < MaxHandling /\ gone <= requests[s].age
      BY <2>1, <2>2 DEF Tick, RequestOK
    <3>2. requests'[s].age <= MaxHandling /\ gone' <= requests'[s].age
      BY <1>0, <1>2, <1>3, <2>1, <2>2, <3>1, OlderFacts DEF Ages
    <3> QED
      BY <1>3, <2>1, <2>2, <3>2 DEF RequestOK, Begun, Tick
  <2>3. CASE requests[s].at \notin Begun
    BY <1>3, <2>1, <2>3 DEF RequestOK, Begun, Tick
  <2> QED
    BY <2>2, <2>3
<1>5. requests' \in [Requests -> Request]
  BY <1>3 DEF Tick
<1>6. \A f \in cache' : f \in Entry /\ EntryOK(f)'
  <2> SUFFICES ASSUME NEW f \in cache' PROVE f \in Entry /\ EntryOK(f)'
    OBVIOUS
  <2>1. PICK e \in cache : e.ttl > 1 /\ f = [e EXCEPT !.age = Older(@), !.ttl = @ - 1]
    BY DEF Tick
  <2>2. e \in Entry /\ EntryOK(e)
    BY DEF CacheOK, TypeOK
  <2>3. e.age \in Ages /\ e.ttl \in 1 .. TTL /\ e.age + e.ttl <= MaxAge /\ gone <= e.age
    BY <2>2 DEF Entry, EntryOK
  <2>4. Older(e.age) = e.age + 1 /\ Older(e.age) \in Ages /\ e.ttl - 1 \in 1 .. TTL
    BY <1>0, <2>1, <2>3, CacheConstants, OlderFacts DEF Ages
  <2>5. f.age = Older(e.age) /\ f.ttl = e.ttl - 1 /\ f.ver = e.ver /\ f.overlap = e.overlap
    BY <2>1, <2>2 DEF Entry
  <2>6. f \in Entry
    BY <2>1, <2>2, <2>4 DEF Entry
  <2>7. f.age + f.ttl <= MaxAge /\ gone' <= f.age
    BY <1>2, <2>3, <2>4, <2>5, CacheConstants DEF Ages
  <2> QED
    BY <2>2, <2>5, <2>6, <2>7 DEF EntryOK, Tick
<1>7. \A d, e \in cache' : d = e
  BY DEF CacheOK, TypeOK, Tick
<1> QED
  BY <1>1, <1>4, <1>5, <1>6, <1>7 DEF CacheOK, TypeOK, Tick

\* The invariant holds of every behaviour.
THEOREM Invariance == CacheSpec => []CacheOK
<1>1. CacheInit => CacheOK
  BY InitInv
<1>2. CacheOK /\ [CacheNext]_cacheVars => CacheOK'
  <2> SUFFICES ASSUME CacheOK, [CacheNext]_cacheVars PROVE CacheOK'
    OBVIOUS
  <2>1. ASSUME NEW r \in Requests, Hit(r) PROVE CacheOK'
    BY <2>1, HitInv
  <2>2. ASSUME NEW r \in Requests, Miss(r) PROVE CacheOK'
    BY <2>2, MissInv
  <2>3. ASSUME NEW r \in Requests, Progress(r) PROVE CacheOK'
    BY <2>3, CheckDaoInv, ReadDbInv, RespondInv, StoreInv, StoreFailsInv DEF Progress
  <2>4. CASE StartRun \/ CrashRun
    BY <2>4, RunInv
  <2>5. CASE Write
    BY <2>5, WriteInv
  <2>6. CASE ClearCache
    BY <2>6, ClearCacheInv
  <2>7. CASE Tick
    BY <2>7, TickInv
  <2>8. CASE UNCHANGED cacheVars
    BY <2>8 DEF cacheVars, CacheOK, TypeOK, RequestOK, EntryOK
  <2> QED
    BY <2>1, <2>2, <2>3, <2>4, <2>5, <2>6, <2>7, <2>8 DEF CacheNext
<1> QED
  BY <1>1, <1>2, PTL DEF CacheSpec


(* What the invariant says of the properties                               *)

\* Every variable keeps its type.
THEOREM TypeCorrect == CacheSpec => []TypeOK
BY Invariance, PTL DEF CacheOK

\* No response is older than the time to live of an entry plus the time a
\* request takes.
THEOREM Staleness == CacheSpec => []BoundedStaleness
<1>1. CacheOK => BoundedStaleness
  BY DEF CacheOK, BoundedStaleness
<1> QED
  BY <1>1, Invariance, PTL

\* Nor is a DAO answered for that was purged longer ago.
THEOREM PurgeRefusal == CacheSpec => []PurgedSoonRefused
<1>1. CacheOK => PurgedSoonRefused
  BY CacheConstants DEF CacheOK, TypeOK, PurgedSoonRefused, Ages, MaxAge
<1> QED
  BY <1>1, Invariance, PTL

\* What is older than the last clearing comes from a request that overlapped it.
THEOREM ClearingOverlap == CacheSpec => []StaleOnlyByOverlap
<1>1. CacheOK => StaleOnlyByOverlap
  BY DEF CacheOK, EntryOK, StaleOnlyByOverlap
<1> QED
  BY <1>1, Invariance, PTL

-----------------------------------------------------------------------------
(* Metrics, rows and days                                                  *)

\* The metrics, by their place in the order of a sweep.
LEMMA OrderFacts ==
    /\ Metrics = {"BALANCE", "PROPOSALS", "TRANSFER", "APPROVED", "FTS_VL"}
    /\ Len(Order) = 5
    /\ Order[1] = "BALANCE" /\ Order[2] = "PROPOSALS" /\ Order[3] = "TRANSFER"
    /\ Order[4] = "APPROVED" /\ Order[5] = "FTS_VL"
<1>1. DOMAIN Order = 1 .. 5 /\ 1 .. 5 = {1, 2, 3, 4, 5}
  BY DEF Order
<1>2. /\ Order[1] = "BALANCE" /\ Order[2] = "PROPOSALS" /\ Order[3] = "TRANSFER"
      /\ Order[4] = "APPROVED" /\ Order[5] = "FTS_VL"
  BY DEF Order
<1>3. Metrics = {Order[i] : i \in {1, 2, 3, 4, 5}}
  BY <1>1 DEF Metrics, ToSet
<1>4. Metrics = {Order[1], Order[2], Order[3], Order[4], Order[5]}
  BY <1>3
<1> QED
  BY <1>2, <1>4 DEF Order

Cells == Nat \cup {NoRow}

\* The DAOs of a context.
LEMMA ContextFacts ==
    /\ IsFiniteSet(Daos) /\ DaosOf(NoDao) = Daos
    /\ \A d \in Daos : DaosOf(d) = {d}
    /\ \A ctx \in Daos \cup {NoDao} : DaosOf(ctx) \subseteq Daos /\ IsFiniteSet(DaosOf(ctx))
<1>1. IsFiniteSet(Daos) /\ NoDao \notin Daos
  BY ConstantsAssumption
<1>2. \A d \in Daos : DaosOf(d) = {d} /\ IsFiniteSet({d})
  BY <1>1, FS_Singleton DEF DaosOf
<1> QED
  BY <1>1, <1>2 DEF DaosOf

\* The members of the first part of a sequence of the members of a set.
LEMMA FirstOf ==
    ASSUME NEW S, IsFiniteSet(S), NEW s \in SetToSeqs(S), NEW m \in Nat, m <= Len(s)
    PROVE  \A i \in DOMAIN SubSeq(s, 1, m) : SubSeq(s, 1, m)[i] \in S
<1>1. s \in Seq(S) /\ DOMAIN s = 1 .. Len(s) /\ Len(s) \in Nat /\ \A i \in DOMAIN s : s[i] \in S
  BY SequenceOfSet
<1>2. /\ DOMAIN SubSeq(s, 1, m) = 1 .. m
      /\ \A i \in 1 .. m : i \in DOMAIN s /\ SubSeq(s, 1, m)[i] = s[i]
  BY <1>1
<1> QED
  BY <1>1, <1>2

-----------------------------------------------------------------------------
(* Leaderboards                                                            *)

\* The DAOs with a row.
LEMMA RowDaos ==
    ASSUME NEW ms
    PROVE  LET daos == {k[1] : k \in Rows(stats, NoDao, ms)}
           IN  daos \subseteq Daos /\ IsFiniteSet(daos)
<1>1. \A k \in Rows(stats, NoDao, ms) : k[1] \in Daos
  BY ContextFacts DEF Rows
<1> QED
  BY <1>1, ContextFacts, FS_Subset

\* An entry of a leaderboard is that of a DAO with its value.
LEMMA BoardEntries ==
    ASSUME NEW ms, NEW limit \in Nat, NEW entries \in GetLeaderboard(NoDao, ms, limit),
           NEW i \in DOMAIN entries
    PROVE  \E d \in Daos : entries[i] = [dao |-> d, value |-> GetValue(d, ms, FALSE)]
<1> DEFINE daos == {k[1] : k \in Rows(stats, NoDao, ms)}
           Entry_(d) == [dao |-> d, value |-> SumOf(stats, Rows(stats, d, ms), FALSE)]
           R == {Entry_(d) : d \in daos}
<1>1. PICK s \in SetToSeqs(R) :
         entries = SubSeq(s, 1, IF limit = 0 \/ Len(s) < limit THEN Len(s) ELSE limit)
  BY DEF GetLeaderboard
<1>2. daos \subseteq Daos /\ IsFiniteSet(daos)
  BY RowDaos
<1>3. IsFiniteSet(R)
  <2> DEFINE h == [d \in daos |-> Entry_(d)]
  <2>1. R = {h[d] : d \in daos}
    OBVIOUS
  <2> HIDE DEF h, daos, R
  <2> QED
    BY <1>2, <2>1, FiniteImages
<1> DEFINE m == IF limit = 0 \/ Len(s) < limit THEN Len(s) ELSE limit
<1>4. m \in Nat /\ m <= Len(s)
  <2>1. Len(s) \in Nat
    <3> HIDE DEF R
    <3> QED
      BY <1>3, SequenceOfSet
  <2> QED
    BY <2>1
<1>5. entries[i] \in R
  <2> HIDE DEF R, m
  <2> QED
    BY <1>1, <1>3, <1>4, FirstOf DEF m
<1> QED
  BY <1>2, <1>5 DEF GetValue

\* An entry of a leaderboard with growth says of its DAO what its totals are.
LEMMA LeaderboardTotals ==
    ASSUME NEW ms, NEW entries \in leaderboard(ms), NEW i \in DOMAIN entries
    PROVE  [count |-> entries[i].count, growth |-> entries[i].growth]
              = total(entries[i].dao, ms, FALSE)
<1>1. PICK rows \in GetLeaderboard(NoDao, ms, LeaderboardSize) :
         entries = [j \in DOMAIN rows |-> LeaderboardEntry(rows[j], ms)]
  BY DEF leaderboard
<1>2. i \in DOMAIN rows /\ entries[i] = LeaderboardEntry(rows[i], ms)
  BY <1>1
<1>3. PICK d \in Daos : rows[i] = [dao |-> d, value |-> GetValue(d, ms, FALSE)]
  BY <1>2, BoardEntries, ConstantsAssumption
<1>4. rows[i].dao = d /\ rows[i].value = GetValue(d, ms, FALSE)
  BY <1>3
<1>5. /\ entries[i].dao = d /\ entries[i].count = GetValue(d, ms, FALSE)
      /\ entries[i].growth = getGrowth(GetValue(d, ms, FALSE), GetLastValue(d, ms, FALSE, DayAgo))
  BY <1>2, <1>4 DEF LeaderboardEntry
<1> QED
  BY <1>5 DEF total

\* What the seven queries see at once.
LEMMA ReadsNow ==
    ASSUME NEW ctx
    PROVE  LET got == [query \in Reads |-> Read(query, ctx, today)]
           IN  /\ got["proposals"] = GetValue(ctx, {"PROPOSALS"}, FALSE)
               /\ got["approved"] = GetValue(ctx, {"APPROVED"}, FALSE)
               /\ got["transfer"] = GetValue(ctx, {"TRANSFER"}, FALSE)
               /\ got["bounty"] = GetValue(ctx, {"BOUNTY"}, FALSE)
               /\ got["member"] = GetValue(ctx, {"MEMBER"}, FALSE)
               /\ got["dayAgoProposals"] = GetLastValue(ctx, {"PROPOSALS"}, FALSE, DayAgo)
               /\ got["dayAgoApproved"] = GetLastValue(ctx, {"APPROVED"}, FALSE, DayAgo)
BY DEF Reads, Read, DayAgo

\* The totals of a context.
LEMMA TotalsNow ==
    ASSUME NEW ctx
    PROVE  LET Now(m) == GetValue(ctx, {m}, FALSE)
               Before(m) == GetLastValue(ctx, {m}, FALSE, DayAgo)
               rate == getRate(Now("APPROVED"), Now("PROPOSALS"))
           IN  /\ governanceTotals(ctx).proposals
                     = [count |-> Now("PROPOSALS"),
                        growth |-> getGrowth(Now("PROPOSALS"), Before("PROPOSALS"))]
               /\ governanceTotals(ctx).proposalsByType
                     = [governance |-> Now("PROPOSALS")
                                          - (Now("TRANSFER") + Now("BOUNTY") + Now("MEMBER")),
                        financial |-> Now("TRANSFER"), bounties |-> Now("BOUNTY"),
                        members |-> Now("MEMBER")]
               /\ governanceTotals(ctx).voteRate
                     = [count |-> rate,
                        growth |-> getGrowthIn(rate,
                                      getRate(Before("APPROVED"), Before("PROPOSALS")), 100)]
<1> DEFINE got == [query \in Reads |-> Read(query, ctx, today)]
<1>1. /\ got["proposals"] = GetValue(ctx, {"PROPOSALS"}, FALSE)
      /\ got["approved"] = GetValue(ctx, {"APPROVED"}, FALSE)
      /\ got["transfer"] = GetValue(ctx, {"TRANSFER"}, FALSE)
      /\ got["bounty"] = GetValue(ctx, {"BOUNTY"}, FALSE)
      /\ got["member"] = GetValue(ctx, {"MEMBER"}, FALSE)
      /\ got["dayAgoProposals"] = GetLastValue(ctx, {"PROPOSALS"}, FALSE, DayAgo)
      /\ got["dayAgoApproved"] = GetLastValue(ctx, {"APPROVED"}, FALSE, DayAgo)
  BY ReadsNow
<1> HIDE DEF got
<1>2. governanceTotals(ctx) = totals(got)
  BY DEF governanceTotals, got
<1> QED
  BY <1>1, <1>2 DEF totals

\* An entry of the leaderboard of shares.
LEMMA SharesEntries ==
    ASSUME NEW entries \in proposalsTypesLeaderboard, NEW i \in DOMAIN entries
    PROVE  entries[i].proposalsByType = governanceTotals(entries[i].dao).proposalsByType
<1>1. PICK rows \in GetLeaderboard(NoDao, {"PROPOSALS"}, LeaderboardSize) :
         entries = [j \in DOMAIN rows |->
            LET Part(m) == GetValue(rows[j].dao, {m}, FALSE)
                parts == Part("TRANSFER") + Part("BOUNTY") + Part("MEMBER")
            IN  [dao |-> rows[j].dao,
                 proposalsByType |->
                    [governance |-> rows[j].value - parts, financial |-> Part("TRANSFER"),
                     bounties |-> Part("BOUNTY"), members |-> Part("MEMBER")]]]
  BY DEF proposalsTypesLeaderboard
<1>2. i \in DOMAIN rows
  BY <1>1
<1>3. PICK d \in Daos : rows[i] = [dao |-> d, value |-> GetValue(d, {"PROPOSALS"}, FALSE)]
  BY <1>2, BoardEntries, ConstantsAssumption
<1>4. rows[i].dao = d /\ rows[i].value = GetValue(d, {"PROPOSALS"}, FALSE)
  BY <1>3
<1> DEFINE Part(m) == GetValue(d, {m}, FALSE)
<1>5. /\ entries[i].dao = d
      /\ entries[i].proposalsByType =
            [governance |-> Part("PROPOSALS") - (Part("TRANSFER") + Part("BOUNTY") + Part("MEMBER")),
             financial |-> Part("TRANSFER"), bounties |-> Part("BOUNTY"),
             members |-> Part("MEMBER")]
  BY <1>1, <1>2, <1>4
<1> QED
  BY <1>5, TotalsNow

\* An entry of the leaderboard of vote rates.
LEMMA RateEntries ==
    ASSUME NEW entries \in voteRateLeaderboard(NoDao), NEW i \in DOMAIN entries
    PROVE  /\ entries[i].voteRate = governanceTotals(entries[i].dao).voteRate
           /\ entries[i].proposals = governanceTotals(entries[i].dao).proposals
<1> DEFINE daos == {k[1] : k \in Rows(stats, NoDao, {"PROPOSALS"})}
           R == {VoteRateEntry(d) : d \in daos}
<1>1. PICK s \in SetToSeqs(R) :
         entries = SubSeq(s, 1, IF Len(s) < LeaderboardSize THEN Len(s) ELSE LeaderboardSize)
  BY DEF voteRateLeaderboard
<1>2. IsFiniteSet(R)
  <2>1. IsFiniteSet(daos)
    BY RowDaos
  <2> DEFINE h == [d \in daos |-> VoteRateEntry(d)]
  <2>2. R = {h[d] : d \in daos}
    OBVIOUS
  <2> HIDE DEF h, daos, R
  <2> QED
    BY <2>1, <2>2, FiniteImages
<1> DEFINE m == IF Len(s) < LeaderboardSize THEN Len(s) ELSE LeaderboardSize
<1>3. m \in Nat /\ m <= Len(s)
  <2>1. Len(s) \in Nat
    <3> HIDE DEF R
    <3> QED
      BY <1>2, SequenceOfSet
  <2> QED
    BY <2>1, ConstantsAssumption
<1>4. entries[i] \in R
  <2> HIDE DEF R, m
  <2> QED
    BY <1>1, <1>2, <1>3, FirstOf DEF m
<1>5. PICK d \in daos : entries[i] = VoteRateEntry(d)
  BY <1>4
<1> DEFINE Now(n) == GetValue(d, {n}, FALSE)
           Before(n) == GetLastValue(d, {n}, FALSE, DayAgo)
           rate == getRate(Now("APPROVED"), Now("PROPOSALS"))
<1>6. /\ entries[i].dao = d
      /\ entries[i].proposals = [count |-> Now("PROPOSALS"),
                                 growth |-> getGrowth(Now("PROPOSALS"), Before("PROPOSALS"))]
      /\ entries[i].voteRate = [count |-> rate,
            growth |-> getGrowthIn(rate, getRate(Before("APPROVED"), Before("PROPOSALS")), 100)]
  BY <1>5 DEF VoteRateEntry
<1> QED
  BY <1>6, TotalsNow

\* What leaderboards and pages say agrees in every state of the tables.
LEMMA LeaderboardsAgree == LeaderboardsMatchPages
<1>1. ASSUME NEW entries \in tvlLeaderboard, NEW i \in DOMAIN entries
      PROVE  LET told == [count |-> entries[i].count, growth |-> entries[i].growth]
             IN  /\ told = tvlTotals(entries[i].dao).tvl
                 /\ told = daoTotals(entries[i].dao).tvl
  <2>1. [count |-> entries[i].count, growth |-> entries[i].growth]
           = total(entries[i].dao, TotalValueLocked, FALSE)
    BY LeaderboardTotals DEF tvlLeaderboard
  <2> QED
    BY <2>1 DEF tvlTotals, daoTotals
<1>2. ASSUME NEW entries \in ftsVlLeaderboard, NEW i \in DOMAIN entries
      PROVE  [count |-> entries[i].count, growth |-> entries[i].growth]
                = tokensTotals(entries[i].dao).ftsVl
  BY LeaderboardTotals DEF ftsVlLeaderboard, tokensTotals
<1>3. ASSUME NEW entries \in proposalsLeaderboard, NEW i \in DOMAIN entries
      PROVE  [count |-> entries[i].count, growth |-> entries[i].growth]
                = governanceTotals(entries[i].dao).proposals
  <2>1. [count |-> entries[i].count, growth |-> entries[i].growth]
           = total(entries[i].dao, {"PROPOSALS"}, FALSE)
    BY LeaderboardTotals DEF proposalsLeaderboard
  <2> QED
    BY <2>1, TotalsNow DEF total
<1> QED
  BY <1>1, <1>2, <1>3, SharesEntries, RateEntries DEF LeaderboardsMatchPages

-----------------------------------------------------------------------------
(* The invariant                                                           *)

\* What a row counts for.
Value(table, k) == IF table[k] = NoRow THEN 0 ELSE table[k]

StatsTypes ==
    /\ today \in Days
    /\ chain \in [Keys -> Nat]
    /\ proposedOn \in [Days -> [Daos -> Nat]]
    /\ registry \subseteq Daos /\ todo \subseteq registry
    /\ stored \in [Days -> [Daos -> Nat]]
    /\ stats \in [Keys -> Cells]
    /\ history \in [Days -> [Keys -> Cells]]
    /\ swept \in BOOLEAN /\ failed \subseteq Keys /\ unreached \subseteq Keys
    /\ half \in BOOLEAN /\ (half => dao # NoDao)
    /\ ~ swept => todo = {} /\ dao = NoDao
    /\ dao # NoDao => dao \in registry \ todo /\ at \in 0 .. 4 /\ list \in [Metrics -> Nat]

\* What is approved or a transfer was proposed before.
Shares == {"APPROVED", "TRANSFER"}
OnChain ==
    \A d \in Daos :
        /\ \A m \in {"APPROVED", "PROPOSALS"} : \E n \in Nat : chain[<<d, m>>] = n * One
        /\ \A m \in Shares : chain[<<d, m>>] <= chain[<<d, "PROPOSALS">>]

\* The values of a DAO are recorded in the order of the metrics: the total of proposals
\* before its parts.  A total that failed may be exceeded by them, until it is recorded.
Recording ==
    /\ \A k \in Keys : Value(stats, k) <= chain[k]
    /\ \A d \in Daos : <<d, "PROPOSALS">> \notin failed =>
          \A m \in Shares : Value(stats, <<d, m>>) <= Value(stats, <<d, "PROPOSALS">>)
    /\ dao # NoDao =>
          /\ \A m \in Metrics : /\ Value(stats, <<dao, m>>) <= list[m]
                                /\ list[m] <= chain[<<dao, m>>]
          /\ \A m \in Shares : list[m] <= list["PROPOSALS"]
          /\ at > 1 => \/ <<dao, "PROPOSALS">> \in failed
                       \/ stats[<<dao, "PROPOSALS">>] = list["PROPOSALS"]
          /\ half => stats[Key] = list[Order[at + 1]]

\* A request that began with all metrics recorded saw, of each part, a value that no
\* total it sees, now or later, is below.
Count(m) == GetValue(NoDao, {m}, FALSE)
Answers ==
    request # <<>> =>
        /\ request = <<request[1]>>
        /\ request[1] \in [whole : BOOLEAN, seen : [CurrentReads -> SUBSET Int]]
        /\ \A query \in CurrentReads : LET S == request[1].seen[query] IN IsFiniteSet(S) /\ S # {}
        /\ request[1].whole =>
              \A query \in {"approved", "transfer"} : \E part \in request[1].seen[query] :
                  /\ part <= Count("PROPOSALS")
                  /\ \A total_ \in request[1].seen["proposals"] : part <= total_

\* What is recorded of a day that is not over is current, since a sweep records a metric
\* once: what it is still to record has no row of the day.  It has recorded the metrics it
\* is done with, except for those that failed and those that midnight separated from it.
OfTheDay ==
    /\ \A day \in Days : day > today => \A k \in Keys : history[day][k] = NoRow
    /\ \A k \in Keys : history[today][k] # NoRow => stats[k] = history[today][k]
    /\ ~ swept => \A k \in Keys : history[today][k] = NoRow
    /\ \A d \in Daos, i \in 1 .. 5 : d \in todo \/ (d = dao /\ i > at) =>
          history[today][<<d, Order[i]>>] = NoRow
    /\ swept => \A d \in registry \ todo, i \in 1 .. 5 : (d = dao => i <= at) =>
          \/ <<d, Order[i]>> \in failed \cup unreached
          \/ history[today][<<d, Order[i]>>] # NoRow

\* Proposals made up to a day.  What a sweep recorded of them is at most those made by its
\* end and, before trouble, at least those made before the day, of which the transactions
\* are stored by then.
MadeIn(made, d, day) == SumFunctionOnSet([e \in Days |-> made[e][d]], UpTo(day))
Made(d, day) == MadeIn(proposedOn, d, day)
RecordedOf(day, d) ==
    LET row == history[day][<<d, "PROPOSALS">>]
    IN  row # NoRow => row <= Made(d, day) /\ (troubles = 0 => Made(d, day - 1) <= row)
Proposed ==
    /\ \A day \in Days, d \in Daos : day > today => proposedOn[day][d] = 0
    /\ \A d \in Daos : chain[<<d, "PROPOSALS">>] = Made(d, today)
    /\ dao # NoDao => /\ list["PROPOSALS"] <= Made(dao, today)
                      /\ troubles = 0 => Made(dao, today - 1) <= list["PROPOSALS"]
    /\ \A day \in Days, d \in Daos : RecordedOf(day, d)
    /\ \A day \in Days, d \in Daos : stored[day][d] <= proposedOn[day][d]
    /\ (swept /\ troubles = 0) =>
          \A day \in Days, d \in Daos : day < today => stored[day][d] = proposedOn[day][d]

\* Without trouble a sweep records every metric.
NoTrouble ==
    troubles = 0 =>
        /\ registry = Daos /\ failed = {} /\ unreached = {}
        /\ \A day \in Days : (day < today /\ \E k \in Keys : history[day][k] # NoRow) =>
              \A k \in Keys : history[day][k] # NoRow

StatsOK ==
    /\ StatsTypes /\ OnChain /\ Recording /\ Answers /\ OfTheDay /\ Proposed
    /\ troubles \in Nat /\ NoTrouble

-----------------------------------------------------------------------------
(* Values and sums                                                         *)

\* A pair of a DAO and a metric.
LEMMA KeyFacts ==
    /\ \A d \in Daos, m \in Metrics : <<d, m>> \in Keys
    /\ \A k \in Keys : k[1] \in Daos /\ k[2] \in Metrics /\ k = <<k[1], k[2]>>
    /\ \A d \in Daos : /\ <<d, "PROPOSALS">> \in Keys /\ <<d, "APPROVED">> \in Keys
                       /\ <<d, "TRANSFER">> \in Keys
    /\ NoRow \in Int /\ NoRow \notin Nat /\ One \in Nat \ {0}
BY OrderFacts, MetricDaysAssumption DEF Keys, NoRow

\* Rows are finitely many keys with a value.
LEMMA RowFacts ==
    ASSUME NEW table \in [Keys -> Cells], NEW ctx \in Daos \cup {NoDao}, NEW ms
    PROVE  /\ Rows(table, ctx, ms) \subseteq Keys /\ IsFiniteSet(Rows(table, ctx, ms))
           /\ Naturals(table, Rows(table, ctx, ms)) /\ Numbers(table, Rows(table, ctx, ms))
           /\ SumOf(table, Rows(table, ctx, ms), FALSE) \in Nat
           /\ SumOf(table, Rows(table, ctx, ms), FALSE)
                 = SumFunctionOnSet(table, Rows(table, ctx, ms))
<1> DEFINE R == Rows(table, ctx, ms)
<1>1. R \subseteq Keys
  BY ContextFacts DEF Rows, Keys
<1>2. IsFiniteSet(Keys)
  <2>1. IsFiniteSet(Metrics)
    <3> DEFINE h == [i \in 1 .. 5 |-> Order[i]]
    <3>1. IsFiniteSet(1 .. 5)
      <4>1. PICK a \in Int, b \in Int : a = 1 /\ b = 5
        OBVIOUS
      <4>2. IsFiniteSet(a .. b)
        BY FS_Interval
      <4> QED
        BY <4>1, <4>2
    <3>2. Metrics = {h[i] : i \in 1 .. 5}
      BY DEF Metrics, ToSet, Order
    <3> HIDE DEF h
    <3> QED
      BY <3>1, <3>2, FiniteImages
  <2> QED
    BY <2>1, ContextFacts, FS_Product DEF Keys
<1>3. IsFiniteSet(R)
  BY <1>1, <1>2, FS_Subset
<1>4. \A k \in R : table[k] \in Nat
  BY <1>1 DEF Rows, Cells
<1> HIDE DEF R
<1>5. SumFunctionOnSet(table, R) \in Nat
  BY <1>3, <1>4, SumOfPart DEF Naturals
<1> QED
  BY <1>1, <1>3, <1>4, <1>5 DEF R, Naturals, Numbers, SumOf

\* The value of a metric over the DAOs counts each for what its row counts for.
LEMMA CountAsSum ==
    ASSUME NEW table \in [Keys -> Cells], NEW m \in Metrics
    PROVE  LET g == [d \in Daos |-> Value(table, <<d, m>>)]
           IN  /\ Naturals(g, Daos) /\ Numbers(g, Daos)
               /\ SumOf(table, Rows(table, NoDao, {m}), FALSE) = SumFunctionOnSet(g, Daos)
<1> DEFINE g == [d \in Daos |-> Value(table, <<d, m>>)]
           D == {d \in Daos : table[<<d, m>>] # NoRow}
           h == [d \in D |-> <<d, m>>]
           R == Rows(table, NoDao, {m})
<1>1. \A d \in Daos : g[d] \in Nat
  BY KeyFacts DEF Value, Cells
<1>2. R = {h[d] : d \in D}
  <2>1. R = {k \in Daos \X {m} : table[k] # NoRow}
    <3>1. {m} \cap Metrics = {m}
      OBVIOUS
    <3> QED
      BY <3>1, ContextFacts DEF Rows
  <2>2. ASSUME NEW k \in R PROVE \E d \in D : k = h[d]
    <3>1. k[1] \in Daos /\ k = <<k[1], m>> /\ table[k] # NoRow
      BY <2>1
    <3> QED
      BY <3>1
  <2>3. ASSUME NEW d \in D PROVE h[d] \in R
    BY <2>1
  <2> QED
    BY <2>2, <2>3
<1>3. /\ \A d \in D : table[h[d]] = g[d]
      /\ \A d, e \in D : d # e => h[d] # h[e]
      /\ \A d \in Daos \ D : g[d] = 0
  BY DEF Value
<1>4. IsFiniteSet(Daos) /\ IsFiniteSet(D) /\ D \subseteq Daos
  BY ContextFacts, FS_Subset
<1>5. Numbers(g, Daos) /\ Numbers(g, D)
  BY <1>1 DEF Numbers
<1>6. SumFunctionOnSet(table, R) = SumFunctionOnSet(g, D)
  <2> HIDE DEF g, h, D, R
  <2> QED
    BY <1>2, <1>3, <1>4, <1>5, SumOfImages
<1>7. SumFunctionOnSet(g, Daos) = SumFunctionOnSet(g, D)
  <2> HIDE DEF g, D
  <2> QED
    BY <1>3, <1>4, <1>5, SumOfOthers
<1>8. SumOf(table, R, FALSE) = SumFunctionOnSet(table, R)
  BY RowFacts
<1> QED
  BY <1>1, <1>5, <1>6, <1>7, <1>8 DEF Naturals

\* If each DAO counts for no more, so do all together.
LEMMA CountMonotone ==
    ASSUME NEW t \in [Keys -> Cells], NEW u \in [Keys -> Cells],
           NEW m \in Metrics, NEW n \in Metrics,
           \A d \in Daos : Value(t, <<d, m>>) <= Value(u, <<d, n>>)
    PROVE  SumOf(t, Rows(t, NoDao, {m}), FALSE) <= SumOf(u, Rows(u, NoDao, {n}), FALSE)
<1> DEFINE f == [d \in Daos |-> Value(t, <<d, m>>)]
           g == [d \in Daos |-> Value(u, <<d, n>>)]
<1>1. Numbers(f, Daos) /\ SumOf(t, Rows(t, NoDao, {m}), FALSE) = SumFunctionOnSet(f, Daos)
  BY CountAsSum
<1>2. Numbers(g, Daos) /\ SumOf(u, Rows(u, NoDao, {n}), FALSE) = SumFunctionOnSet(g, Daos)
  BY CountAsSum
<1>3. \A d \in Daos : f[d] <= g[d]
  OBVIOUS
<1> HIDE DEF f, g
<1>4. SumFunctionOnSet(f, Daos) <= SumFunctionOnSet(g, Daos)
  BY <1>1, <1>2, <1>3, ContextFacts, SumMonotone
<1> QED
  BY <1>1, <1>2, <1>4

\* The latest of some days, if there are any.
LEMMA LatestDay ==
    ASSUME NEW found \in SUBSET Days, found # {}
    PROVE  /\ IsFiniteSet(found) /\ found \in SUBSET Int
           /\ \E day \in found : \A other \in found : other <= day
           /\ \E day \in found : \A other \in found : day <= other
<1>1. IsFiniteSet(Days) /\ Days \in SUBSET Int
  BY ConstantsAssumption, FS_Interval DEF Days
<1>2. IsFiniteSet(found) /\ found \in SUBSET Int
  BY <1>1, FS_Subset
<1> QED
  BY <1>2, Extremes

\* The value of the latest day with a row.
LEMMA LastValueFacts ==
    ASSUME history \in [Days -> [Keys -> Cells]], NEW ms, NEW days
    PROVE  GetLastValue(NoDao, ms, FALSE, days) \in Nat
<1> DEFINE found == DaysWithRows(NoDao, ms, days)
           day == CHOOSE day \in found : \A other \in found : other <= day
<1>1. CASE found = {}
  BY <1>1 DEF GetLastValue
<1>2. CASE found # {}
  <2>1. found \in SUBSET Days
    BY DEF DaysWithRows
  <2>2. \E e \in found : \A other \in found : other <= e
    <3> HIDE DEF found
    <3> QED
      BY <1>2, <2>1, LatestDay
  <2>3. day \in Days
    <3> HIDE DEF found
    <3> QED
      BY <2>1, <2>2
  <2>4. SumOf(history[day], Rows(history[day], NoDao, ms), FALSE) \in Nat
    <3> HIDE DEF day
    <3> QED
      BY <2>3, RowFacts
  <2> QED
    BY <1>2, <2>4 DEF GetLastValue
<1> QED
  BY <1>1, <1>2

\* What a query sees is a number.
LEMMA ReadFacts ==
    ASSUME stats \in [Keys -> Cells], history \in [Days -> [Keys -> Cells]],
           NEW query \in Reads, NEW day
    PROVE  Read(query, NoDao, day) \in Int
<1> DEFINE Now(m) == GetValue(NoDao, {m}, FALSE)
           Before(m) == GetLastValue(NoDao, {m}, FALSE, UpTo(day - 1))
<1>1. \A m : Now(m) \in Nat
  BY RowFacts DEF GetValue
<1>2. \A m : Before(m) \in Nat
  BY LastValueFacts
<1>3. /\ Now("PROPOSALS") \in Int /\ Now("APPROVED") \in Int /\ Now("TRANSFER") \in Nat
      /\ Now("BOUNTY") \in Int /\ Now("MEMBER") \in Int
      /\ Before("PROPOSALS") \in Int /\ Before("APPROVED") \in Int
  <2> HIDE DEF Now, Before
  <2> QED
    BY <1>1, <1>2
<1>4. /\ Read("proposals", NoDao, day) = Now("PROPOSALS")
      /\ Read("approved", NoDao, day) = Now("APPROVED")
      /\ Read("transfer", NoDao, day) = Now("TRANSFER")
      /\ Read("bounty", NoDao, day) = Now("BOUNTY")
      /\ Read("member", NoDao, day) = Now("MEMBER")
      /\ Read("dayAgoProposals", NoDao, day) = Before("PROPOSALS")
      /\ Read("dayAgoApproved", NoDao, day) = Before("APPROVED")
  BY DEF Read
<1> HIDE DEF Now, Before
<1> QED
  BY <1>3, <1>4 DEF Reads

-----------------------------------------------------------------------------
(* The steps                                                               *)

\* What a change on chain adds.
LEMMA GrowFacts ==
    ASSUME StatsTypes, NEW d \in Daos, NEW ms, Grow(d, ms)
    PROVE  /\ chain' \in [Keys -> Nat]
           /\ \A k \in Keys : chain[k] <= chain'[k]
           /\ \A e \in Daos, m \in Metrics :
                 chain'[<<e, m>>] = IF e = d /\ m \in ms THEN chain[<<e, m>>] + One
                                    ELSE chain[<<e, m>>]
           /\ UNCHANGED <<today, registry, tables, sweep, missing, request, troubles>>
<1>1. chain' = [k \in Keys |-> IF k \in {d} \X ms THEN chain[k] + One ELSE chain[k]]
  BY DEF Grow
<1>2. \A k \in Keys : chain[k] \in Nat /\ chain[k] + One \in Nat /\ chain[k] <= chain[k] + One
  BY KeyFacts DEF StatsTypes
<1>3. \A k \in Keys : chain'[k] \in Nat /\ chain[k] <= chain'[k]
  BY <1>1, <1>2
<1>4. ASSUME NEW e \in Daos, NEW m \in Metrics
      PROVE  chain'[<<e, m>>] = IF e = d /\ m \in ms THEN chain[<<e, m>>] + One
                                ELSE chain[<<e, m>>]
  <2>1. <<e, m>> \in Keys /\ (<<e, m>> \in {d} \X ms <=> e = d /\ m \in ms)
    BY KeyFacts
  <2> QED
    BY <1>1, <2>1
<1> QED
  BY <1>1, <1>3, <1>4 DEF Grow

\* The metric a sweep is at.
LEMMA MetricFacts ==
    ASSUME StatsTypes, dao # NoDao
    PROVE  /\ dao \in Daos /\ dao \in registry /\ dao \notin todo /\ at \in 0 .. 4
           /\ Order[at + 1] \in Metrics /\ <<dao, Order[at + 1]>> \in Keys
           /\ KeysLeft \subseteq Keys
           /\ list \in [Metrics -> Nat] /\ swept
           /\ list[Order[at + 1]] \in Nat
           /\ (Order[at + 1] = "PROPOSALS" <=> at = 1)
           /\ (Order[at + 1] = "TRANSFER" <=> at = 2)
           /\ (Order[at + 1] = "APPROVED" <=> at = 3)
<1>1. /\ dao \in Daos /\ dao \in registry /\ dao \notin todo /\ at \in 0 .. 4
      /\ list \in [Metrics -> Nat] /\ swept
  BY DEF StatsTypes
<1>2. at \in {0, 1, 2, 3, 4}
  BY <1>1
<1>3. /\ Order[at + 1] \in Metrics
      /\ (Order[at + 1] = "PROPOSALS" <=> at = 1)
      /\ (Order[at + 1] = "TRANSFER" <=> at = 2)
      /\ (Order[at + 1] = "APPROVED" <=> at = 3)
  <2>1. CASE at = 0
    BY <2>1, OrderFacts
  <2>2. CASE at = 1
    BY <2>2, OrderFacts
  <2>3. CASE at = 2
    BY <2>3, OrderFacts
  <2>4. CASE at = 3
    BY <2>4, OrderFacts
  <2>5. CASE at = 4
    BY <2>5, OrderFacts
  <2> QED
    BY <1>2, <2>1, <2>2, <2>3, <2>4, <2>5
<1>4. KeysLeft \subseteq Keys
  <2> SUFFICES ASSUME NEW i \in at + 1 .. Len(Order) PROVE <<dao, Order[i]>> \in Keys
    BY DEF KeysLeft
  <2>1. i \in {1, 2, 3, 4, 5}
    BY <1>1, OrderFacts
  <2>2. Order[i] \in Metrics
    BY <2>1, OrderFacts
  <2> QED
    BY <1>1, <2>2, KeyFacts
<1> QED
  BY <1>1, <1>3, <1>4, KeyFacts

\* What recording a metric does to the table of current values.
LEMMA SaveStatsFacts ==
    ASSUME StatsTypes, SaveStats
    PROVE  LET k == <<dao, Order[at + 1]>>
               v == list[Order[at + 1]]
           IN  /\ k \in Keys /\ v \in Nat /\ v # NoRow /\ dao # NoDao /\ half'
               /\ stats' \in [Keys -> Cells] /\ stats'[k] = v
               /\ \A j \in Keys \ {k} : stats'[j] = stats[j]
               /\ UNCHANGED <<world, stored, history, swept, todo, dao, at, list, missing,
                              changes, troubles>>
<1> DEFINE m == Order[at + 1]
           k == <<dao, m>>
<1>1. /\ dao # NoDao /\ half'
      /\ stats' = [stats EXCEPT ![k] = list[m]]
      /\ UNCHANGED <<world, stored, history, swept, todo, dao, at, list, missing, changes, troubles>>
  BY DEF SaveStats, Key
<1>2. k \in Keys /\ list[m] \in Nat
  BY <1>1, MetricFacts
<1>3. stats \in [Keys -> Cells]
  BY DEF StatsTypes
<1> HIDE DEF k, m
<1>4. list[m] \in Cells /\ list[m] # NoRow
  BY <1>2, KeyFacts DEF Cells
<1>5. /\ stats' \in [Keys -> Cells] /\ stats'[k] = list[m]
      /\ \A j \in Keys \ {k} : stats'[j] = stats[j]
  BY <1>1, <1>2, <1>3, <1>4
<1> QED
  BY <1>1, <1>2, <1>4, <1>5 DEF k, m

\* What recording a metric does to the history.
LEMMA SaveHistoryFacts ==
    ASSUME StatsTypes, SaveHistory
    PROVE  LET k == <<dao, Order[at + 1]>>
               v == list[Order[at + 1]]
           IN  /\ k \in Keys /\ v \in Nat /\ v # NoRow /\ dao # NoDao /\ half /\ swept
               /\ history' \in [Days -> [Keys -> Cells]] /\ history'[today][k] = v
               /\ \A j \in Keys \ {k} : history'[today][j] = history[today][j]
               /\ \A day \in Days \ {today} : history'[day] = history[day]
               /\ failed' = failed \ {k} /\ unreached' = unreached \ {k} /\ Advance
               /\ UNCHANGED <<world, stored, stats, swept, todo, request, changes, troubles>>
<1> DEFINE m == Order[at + 1]
           k == <<dao, m>>
<1>1. /\ half /\ dao # NoDao
      /\ history' = [history EXCEPT ![today][k] = list[m]]
      /\ failed' = failed \ {k} /\ unreached' = unreached \ {k} /\ Advance
      /\ UNCHANGED <<world, stored, stats, swept, todo, request, changes, troubles>>
  BY DEF SaveHistory, Key, StatsTypes
<1>2. k \in Keys /\ list[m] \in Nat /\ swept
  BY <1>1, MetricFacts
<1>3. history \in [Days -> [Keys -> Cells]] /\ today \in Days
  BY DEF StatsTypes
<1> HIDE DEF k, m
<1>4. list[m] \in Cells /\ list[m] # NoRow
  BY <1>2, KeyFacts DEF Cells
<1>6. /\ history' \in [Days -> [Keys -> Cells]] /\ history'[today][k] = list[m]
      /\ \A j \in Keys \ {k} : history'[today][j] = history[today][j]
      /\ \A day \in Days \ {today} : history'[day] = history[day]
  <2>1. history[today] \in [Keys -> Cells]
    BY <1>3
  <2>2. history' = [history EXCEPT ![today] = [history[today] EXCEPT ![k] = list[m]]]
    BY <1>1, <1>2
  <2>3. PICK row \in [Keys -> Cells] : row = [history[today] EXCEPT ![k] = list[m]]
    BY <1>4, <2>1
  <2>4. row[k] = list[m] /\ \A j \in Keys \ {k} : row[j] = history[today][j]
    BY <1>2, <2>1, <2>3
  <2>5. history' = [history EXCEPT ![today] = row]
    BY <2>2, <2>3
  <2> QED
    BY <1>3, <2>4, <2>5
<1> QED
  BY <1>1, <1>2, <1>4, <1>6 DEF k, m

\* Whether a metric was the last one.
LEMMA AdvanceFacts ==
    ASSUME StatsTypes, dao # NoDao, Advance
    PROVE  /\ half' = FALSE
           /\ \/ at = 4 /\ dao' = NoDao
              \/ at \in 0 .. 3 /\ dao' = dao /\ at' = at + 1 /\ list' = list
<1>1. at \in 0 .. 4 /\ Len(Order) = 5
  BY MetricFacts, OrderFacts
<1> QED
  BY <1>1 DEF Advance

\* Every variable keeps its type.
LEMMA StatsTypesStep == ASSUME StatsTypes, [Next]_vars PROVE StatsTypes'
<1>1. CASE StartSweep
  BY <1>1 DEF StartSweep, StatsTypes, world, missing
<1>2. CASE SaveHistory \/ MetricFails
  <2>1. dao # NoDao /\ Advance /\ UNCHANGED <<world, stored, stats, swept, todo>>
    <3>1. CASE SaveHistory
      BY <3>1, SaveHistoryFacts
    <3>2. CASE MetricFails
      BY <3>2 DEF MetricFails, tables
    <3> QED
      BY <1>2, <3>1, <3>2
  <2>2. /\ history' \in [Days -> [Keys -> Cells]]
        /\ failed' \subseteq Keys /\ unreached' \subseteq Keys
    <3>1. CASE SaveHistory
      BY <3>1, SaveHistoryFacts DEF StatsTypes
    <3>2. CASE MetricFails
      <4>1. failed' = failed \cup {<<dao, Order[at + 1]>>} /\ UNCHANGED <<history, unreached>>
        BY <3>2 DEF MetricFails, tables, Key
      <4> QED
        BY <2>1, <4>1, MetricFacts DEF StatsTypes
    <3> QED
      BY <1>2, <3>1, <3>2
  <2>3. /\ dao' # NoDao => dao' \in registry \ todo /\ at' \in 0 .. 4 /\ list' \in [Metrics -> Nat]
        /\ half' = FALSE
    BY <2>1, MetricFacts, AdvanceFacts
  <2>4. swept
    BY <2>1, MetricFacts
  <2> QED
    BY <2>1, <2>2, <2>3, <2>4 DEF StatsTypes, world
<1>12. CASE SaveStats
  BY <1>12, SaveStatsFacts DEF StatsTypes, world, missing
<1>13. CASE Crash
  <2>1. /\ unreached' = unreached \cup (todo \X Metrics) \cup (IF dao = NoDao THEN {} ELSE KeysLeft)
        /\ todo' = {} /\ dao' = NoDao /\ half' = FALSE
        /\ UNCHANGED <<world, tables, swept, failed>>
    BY <1>13 DEF Crash
  <2>2. todo \X Metrics \subseteq Keys
    BY DEF StatsTypes, Keys
  <2>3. (IF dao = NoDao THEN {} ELSE KeysLeft) \subseteq Keys
    BY MetricFacts
  <2>4. unreached' \subseteq Keys
    BY <2>1, <2>2, <2>3 DEF StatsTypes
  <2> QED
    BY <2>1, <2>4 DEF StatsTypes, world, tables
<1>3. ASSUME NEW d \in Daos, NextDao(d) PROVE StatsTypes'
  <2>1. /\ d \in todo /\ todo' = todo \ {d} /\ dao' = d /\ at' = 0 /\ dao = NoDao
        /\ list' = [m \in Metrics |-> chain[<<d, m>>]]
        /\ UNCHANGED <<world, tables, swept, half, missing>>
    BY <1>3 DEF NextDao
  <2>2. list' \in [Metrics -> Nat]
    BY <2>1, KeyFacts DEF StatsTypes
  <2> QED
    BY <2>1, <2>2 DEF StatsTypes, world, tables, missing
<1>4. ASSUME NEW d \in Daos, Purge(d) PROVE StatsTypes'
  BY <1>4 DEF Purge, StatsTypes, tables, sweep, missing
<1>5. CASE StartRequest \/ EndRequest
  BY <1>5 DEF StartRequest, EndRequest, StatsTypes, world, tables, sweep, missing
<1>6. CASE Midnight
  <2>1. today' \in Days
    BY <1>6, ConstantsAssumption DEF Midnight, StatsTypes, Days
  <2>2. unreached' \subseteq Keys
    BY <1>6 DEF Midnight, StatsTypes
  <2>3. /\ swept' = Sweeping
        /\ UNCHANGED <<chain, proposedOn, registry, tables, todo, dao, at, list, half, failed>>
    BY <1>6 DEF Midnight
  <2> QED
    BY <2>1, <2>2, <2>3 DEF StatsTypes, tables, Sweeping
<1>7. ASSUME NEW d \in Daos, NEW ms, Grow(d, ms), proposedOn' \in [Days -> [Daos -> Nat]]
      PROVE  StatsTypes'
  BY <1>7, GrowFacts DEF StatsTypes, tables, sweep, missing
<1>8. ASSUME NEW d \in Daos, NEW ms, Propose(d, ms) PROVE StatsTypes'
  <2>1. proposedOn' = [proposedOn EXCEPT ![today][d] = @ + One] /\ Grow(d, ms)
    BY <1>8 DEF Propose
  <2>2. proposedOn' \in [Days -> [Daos -> Nat]]
    BY <2>1, KeyFacts DEF StatsTypes
  <2> QED
    BY <1>7, <2>1, <2>2
<1>9. ASSUME NEW d \in Daos, Approve(d) PROVE StatsTypes'
  <2>1. proposedOn' = proposedOn /\ Grow(d, {"APPROVED"})
    BY <1>9 DEF Approve
  <2> QED
    BY <1>7, <2>1 DEF StatsTypes
<1>10. ASSUME NEW d \in Daos, NEW m \in TotalValueLocked, ReceiveFunds(d, m) PROVE StatsTypes'
  <2>1. proposedOn' = proposedOn /\ Grow(d, {m})
    BY <1>10 DEF ReceiveFunds
  <2> QED
    BY <1>7, <2>1 DEF StatsTypes
<1>11. CASE UNCHANGED vars
  BY <1>11 DEF vars, world, tables, sweep, missing, StatsTypes
<1> QED
  BY <1>1, <1>2, <1>3, <1>4, <1>5, <1>6, <1>8, <1>9, <1>10, <1>11, <1>12, <1>13 DEF Next

\* What a query sees is a number, in every state.
LEMMA ReadNumbers == StatsTypes => \A query \in Reads : \A day : Read(query, NoDao, day) \in Int
BY ReadFacts DEF StatsTypes

\* A multiple below another one is so by a unit.
LEMMA UnitSteps ==
    ASSUME NEW a \in Nat, NEW b \in Nat, a * One < b * One
    PROVE  a * One + One <= b * One /\ a * One + One = (a + 1) * One
<1>1. One \in Nat \ {0}
  BY MetricDaysAssumption
<1>2. a < b
  <2> SUFFICES ASSUME b <= a PROVE FALSE
    OBVIOUS
  <2>1. b * One <= a * One
    BY <1>1
  <2> QED
    BY <1>1, <2>1
<1>3. a + 1 <= b /\ a * One + One = (a + 1) * One
  BY <1>1, <1>2
<1>4. (a + 1) * One <= b * One
  BY <1>1, <1>3
<1> QED
  BY <1>3, <1>4

\* What is approved stays a part of what was proposed.
LEMMA OnChainStep == ASSUME StatsTypes, OnChain, [Next]_vars PROVE OnChain'
<1>1. CASE chain' = chain
  BY <1>1 DEF OnChain
<1>2. /\ "PROPOSALS" \in Metrics /\ "APPROVED" \in Metrics /\ "TRANSFER" \in Metrics
      /\ \A d \in Daos, m \in Metrics : chain[<<d, m>>] \in Nat
  BY OrderFacts, KeyFacts DEF StatsTypes
<1>3. \A n \in Nat : n * One + One = (n + 1) * One /\ n + 1 \in Nat
  BY KeyFacts
<1>4. ASSUME NEW d \in Daos, NEW ms \in ProposalKinds, Propose(d, ms) PROVE OnChain'
  <2>1. Grow(d, ms) /\ ms \in {{"PROPOSALS"}, {"PROPOSALS", "TRANSFER"}}
    BY <1>4 DEF Propose, ProposalKinds
  <2> SUFFICES ASSUME NEW e \in Daos
               PROVE  /\ \A m \in {"APPROVED", "PROPOSALS"} : \E n \in Nat : chain'[<<e, m>>] = n * One
                      /\ \A m \in Shares : chain'[<<e, m>>] <= chain'[<<e, "PROPOSALS">>]
    BY DEF OnChain
  <2>2. PICK n \in Nat : chain[<<e, "PROPOSALS">>] = n * One
    BY DEF OnChain
  <2>3. PICK j \in Nat : chain[<<e, "APPROVED">>] = j * One
    BY DEF OnChain
  <2>4. \A m \in Shares : chain[<<e, m>>] <= chain[<<e, "PROPOSALS">>]
    BY DEF OnChain
  <2>5. \A m \in Metrics : chain'[<<e, m>>] = IF e = d /\ m \in ms THEN chain[<<e, m>>] + One
                                              ELSE chain[<<e, m>>]
    BY <2>1, GrowFacts
  <2>6. "PROPOSALS" \in ms /\ "APPROVED" \notin ms
    BY <2>1
  <2>7. chain'[<<e, "APPROVED">>] = j * One
    BY <1>2, <2>3, <2>5, <2>6
  <2>8. \E i \in Nat : chain'[<<e, "PROPOSALS">>] = i * One
    BY <1>2, <1>3, <2>2, <2>5
  <2>9. \A m \in Shares : chain'[<<e, m>>] <= chain'[<<e, "PROPOSALS">>]
    BY <1>2, <2>4, <2>5, <2>6, KeyFacts DEF Shares
  <2> QED
    BY <2>7, <2>8, <2>9
<1>5. ASSUME NEW d \in Daos, Approve(d) PROVE OnChain'
  <2>1. Grow(d, {"APPROVED"}) /\ chain[<<d, "APPROVED">>] < chain[<<d, "PROPOSALS">>]
    BY <1>5 DEF Approve
  <2> SUFFICES ASSUME NEW e \in Daos
               PROVE  /\ \A m \in {"APPROVED", "PROPOSALS"} : \E n \in Nat : chain'[<<e, m>>] = n * One
                      /\ \A m \in Shares : chain'[<<e, m>>] <= chain'[<<e, "PROPOSALS">>]
    BY DEF OnChain
  <2>2. PICK n \in Nat : chain[<<e, "PROPOSALS">>] = n * One
    BY DEF OnChain
  <2>3. PICK j \in Nat : chain[<<e, "APPROVED">>] = j * One
    BY DEF OnChain
  <2>4. \A m \in Shares : chain[<<e, m>>] <= chain[<<e, "PROPOSALS">>]
    BY DEF OnChain
  <2>5. \A m \in Metrics : chain'[<<e, m>>] = IF e = d /\ m = "APPROVED" THEN chain[<<e, m>>] + One
                                              ELSE chain[<<e, m>>]
    BY <2>1, GrowFacts
  <2>6. /\ chain'[<<e, "PROPOSALS">>] = n * One
        /\ chain'[<<e, "TRANSFER">>] = chain[<<e, "TRANSFER">>]
    BY <1>2, <2>2, <2>5
  <2>7. CASE e = d
    <3>1. j * One < n * One
      BY <2>1, <2>2, <2>3, <2>7
    <3>2. chain'[<<e, "APPROVED">>] = (j + 1) * One /\ (j + 1) * One <= n * One
      BY <1>2, <2>3, <2>5, <2>7, <3>1, UnitSteps
    <3> QED
      BY <2>2, <2>4, <2>6, <3>2 DEF Shares
  <2>8. CASE e # d
    <3>1. chain'[<<e, "APPROVED">>] = chain[<<e, "APPROVED">>]
      BY <1>2, <2>5, <2>8
    <3> QED
      BY <2>2, <2>3, <2>4, <2>6, <3>1 DEF Shares
  <2> QED
    BY <2>7, <2>8
<1>6. ASSUME NEW d \in Daos, NEW m \in TotalValueLocked, ReceiveFunds(d, m) PROVE OnChain'
  <2>1. Grow(d, {m}) /\ m \in {"BALANCE", "FTS_VL"}
    BY <1>6 DEF ReceiveFunds, TotalValueLocked
  <2> SUFFICES ASSUME NEW e \in Daos
               PROVE  /\ \A j \in {"APPROVED", "PROPOSALS"} : \E n \in Nat : chain'[<<e, j>>] = n * One
                      /\ \A j \in Shares : chain'[<<e, j>>] <= chain'[<<e, "PROPOSALS">>]
    BY DEF OnChain
  <2>2. /\ chain'[<<e, "PROPOSALS">>] = chain[<<e, "PROPOSALS">>]
        /\ chain'[<<e, "APPROVED">>] = chain[<<e, "APPROVED">>]
        /\ chain'[<<e, "TRANSFER">>] = chain[<<e, "TRANSFER">>]
    BY <1>2, <2>1, GrowFacts
  <2> QED
    BY <2>2 DEF OnChain, Shares
<1> QED
  BY <1>1, <1>4, <1>5, <1>6 DEF Next, StartSweep, SaveStats, SaveHistory, MetricFails, Crash,
     NextDao, Purge, StartRequest, EndRequest, Midnight, vars, world

\* The total of a DAO is recorded before its parts, or is marked as failed.
LEMMA RecordingStep == ASSUME StatsTypes, OnChain, Recording, [Next]_vars PROVE Recording'
<1>1. /\ "PROPOSALS" \in Metrics /\ "APPROVED" \in Metrics /\ "TRANSFER" \in Metrics
      /\ Shares \subseteq Metrics /\ "PROPOSALS" \notin Shares
      /\ \A d \in Daos, m \in Metrics : <<d, m>> \in Keys
      /\ \A k \in Keys : chain[k] \in Nat /\ Value(stats, k) \in Nat
  BY OrderFacts, KeyFacts DEF StatsTypes, Shares, Value, Cells
<1>2. ASSUME UNCHANGED <<stats, failed, dao, at, list, half>>, chain' \in [Keys -> Nat],
             \A k \in Keys : chain[k] <= chain'[k]
      PROVE  Recording'
  <2>1. \A k \in Keys : Value(stats', k) = Value(stats, k)
    BY <1>2 DEF Value
  <2>2. \A k \in Keys : Value(stats', k) <= chain'[k]
    BY <1>1, <1>2, <2>1 DEF Recording
  <2>3. \A d \in Daos : <<d, "PROPOSALS">> \notin failed' =>
           \A m \in Shares : Value(stats', <<d, m>>) <= Value(stats', <<d, "PROPOSALS">>)
    BY <1>1, <1>2, <2>1 DEF Recording
  <2>4. ASSUME dao # NoDao
        PROVE  /\ \A m \in Metrics : /\ Value(stats', <<dao, m>>) <= list[m]
                                     /\ list[m] <= chain'[<<dao, m>>]
               /\ \A m \in Shares : list[m] <= list["PROPOSALS"]
    <3>1. dao \in Daos /\ list \in [Metrics -> Nat]
      BY <2>4, MetricFacts
    <3>2. \A m \in Metrics : Value(stats, <<dao, m>>) <= list[m] /\ list[m] <= chain[<<dao, m>>]
      BY <2>4 DEF Recording
    <3>3. ASSUME NEW m \in Metrics
          PROVE  Value(stats', <<dao, m>>) <= list[m] /\ list[m] <= chain'[<<dao, m>>]
      <4>1. <<dao, m>> \in Keys /\ list[m] \in Nat
        BY <1>1, <3>1
      <4>2. chain[<<dao, m>>] \in Nat /\ chain'[<<dao, m>>] \in Nat
            /\ chain[<<dao, m>>] <= chain'[<<dao, m>>]
        BY <1>1, <1>2, <4>1
      <4> QED
        BY <1>2, <3>2, <4>1, <4>2 DEF Value
    <3> QED
      BY <2>4, <3>3 DEF Recording
  <2> QED
    BY <1>2, <2>2, <2>3, <2>4 DEF Recording, Value, Key
<1>3. ASSUME NEW d \in Daos, NEW ms, Grow(d, ms) PROVE Recording'
  BY <1>2, <1>3, GrowFacts DEF tables, sweep, missing
<1>4. CASE SaveStats
  <2> DEFINE n == Order[at + 1]
             k == <<dao, n>>
  <2>1. /\ dao # NoDao
        /\ dao \in Daos /\ at \in 0 .. 4 /\ n \in Metrics /\ k \in Keys /\ list \in [Metrics -> Nat]
        /\ (n = "PROPOSALS" <=> at = 1)
    BY <1>4, MetricFacts DEF SaveStats
  <2>2. /\ stats' \in [Keys -> Cells] /\ stats'[k] = list[n] /\ list[n] # NoRow
        /\ \A j \in Keys \ {k} : stats'[j] = stats[j]
        /\ failed' = failed /\ chain' = chain /\ dao' = dao /\ at' = at /\ list' = list
    BY <1>4, SaveStatsFacts DEF world, missing
  <2>9. (stats[Key] = list[Order[at + 1]])'
    BY <2>2 DEF Key, n
  <2> HIDE DEF n
  <2>3. /\ Value(stats', k) = list[n]
        /\ \A j \in Keys \ {k} : Value(stats', j) = Value(stats, j)
    BY <2>2 DEF Value
  <2>4. /\ \A m \in Metrics : Value(stats, <<dao, m>>) <= list[m] /\ list[m] <= chain[<<dao, m>>]
        /\ \A m \in Shares : list[m] <= list["PROPOSALS"]
        /\ at > 1 => <<dao, "PROPOSALS">> \in failed \/ stats[<<dao, "PROPOSALS">>] = list["PROPOSALS"]
    BY <2>1 DEF Recording
  <2>5. \A j \in Keys : Value(stats', j) <= chain'[j]
    <3> SUFFICES ASSUME NEW j \in Keys PROVE Value(stats', j) <= chain'[j]
      OBVIOUS
    <3>1. CASE j = k
      BY <2>1, <2>2, <2>3, <2>4, <3>1
    <3>2. CASE j # k
      BY <2>2, <2>3, <3>2 DEF Recording
    <3> QED
      BY <3>1, <3>2
  <2>6. \A m \in Metrics : Value(stats', <<dao, m>>) <= list[m]
    <3> SUFFICES ASSUME NEW m \in Metrics PROVE Value(stats', <<dao, m>>) <= list[m]
      OBVIOUS
    <3>1. CASE m = n
      BY <2>1, <2>3, <3>1
    <3>2. CASE m # n
      <4>1. <<dao, m>> \in Keys \ {k}
        BY <1>1, <2>1, <3>2
      <4> QED
        BY <2>3, <2>4, <4>1
    <3> QED
      BY <3>1, <3>2
  <2>7. ASSUME NEW d \in Daos, <<d, "PROPOSALS">> \notin failed', NEW m \in Shares
        PROVE  Value(stats', <<d, m>>) <= Value(stats', <<d, "PROPOSALS">>)
    <3>1. <<d, "PROPOSALS">> \in Keys /\ <<d, m>> \in Keys /\ m \in Metrics /\ m # "PROPOSALS"
      BY <1>1, <2>7
    <3>2. CASE d # dao
      <4>1. <<d, "PROPOSALS">> # k /\ <<d, m>> # k
        BY <3>2
      <4>2. Value(stats, <<d, m>>) <= Value(stats, <<d, "PROPOSALS">>)
        BY <2>2, <2>7, <4>1 DEF Recording
      <4> QED
        BY <2>3, <3>1, <4>1, <4>2
    <3>3. CASE d = dao /\ at = 1
      <4>1. Value(stats', <<d, "PROPOSALS">>) = list["PROPOSALS"]
        BY <2>1, <2>3, <3>3
      <4>2. Value(stats', <<d, m>>) <= list[m] /\ list[m] <= list["PROPOSALS"]
        BY <2>4, <2>6, <3>1, <3>3
      <4>3. Value(stats', <<d, m>>) \in Nat /\ list[m] \in Nat /\ list["PROPOSALS"] \in Nat
        BY <1>1, <2>1, <2>2, <3>1 DEF Value, Cells
      <4> QED
        BY <4>1, <4>2, <4>3
    <3>4. CASE d = dao /\ at # 1
      <4>1. <<d, "PROPOSALS">> # k /\ <<d, "PROPOSALS">> \notin failed
        BY <2>1, <2>2, <2>7, <3>4
      <4>2. Value(stats', <<d, "PROPOSALS">>) = Value(stats, <<d, "PROPOSALS">>)
        BY <2>3, <3>1, <4>1
      <4>3. CASE m = n
        <5>1. at > 1
          BY <2>1, <3>4, <4>3, MetricFacts DEF n, Shares
        <5>2. stats[<<d, "PROPOSALS">>] = list["PROPOSALS"]
          BY <2>4, <3>4, <4>1, <5>1
        <5>3. Value(stats, <<d, "PROPOSALS">>) = list["PROPOSALS"]
          BY <1>1, <2>1, <5>2, KeyFacts DEF Value
        <5> QED
          BY <2>3, <2>4, <3>4, <4>2, <4>3, <5>3
      <4>4. CASE m # n
        <5>1. <<d, m>> # k
          BY <4>4
        <5>2. Value(stats, <<d, m>>) <= Value(stats, <<d, "PROPOSALS">>)
          BY <4>1, <2>7 DEF Recording
        <5> QED
          BY <2>3, <3>1, <4>2, <5>1, <5>2
      <4> QED
        BY <4>3, <4>4
    <3> QED
      BY <3>2, <3>3, <3>4
  <2>8. at > 1 => \/ <<dao, "PROPOSALS">> \in failed
                  \/ stats'[<<dao, "PROPOSALS">>] = list["PROPOSALS"]
    <3> SUFFICES ASSUME at > 1
                 PROVE  \/ <<dao, "PROPOSALS">> \in failed
                        \/ stats'[<<dao, "PROPOSALS">>] = list["PROPOSALS"]
      OBVIOUS
    <3>1. <<dao, "PROPOSALS">> # k /\ <<dao, "PROPOSALS">> \in Keys
      BY <1>1, <2>1
    <3> QED
      BY <2>2, <2>4, <3>1
  <2> QED
    BY <2>2, <2>4, <2>5, <2>6, <2>7, <2>8, <2>9 DEF Recording, Value
<1>8. CASE SaveHistory
  <2> DEFINE n == Order[at + 1]
             k == <<dao, n>>
  <2>1. /\ dao # NoDao /\ Advance /\ half /\ dao \in Daos /\ at \in 0 .. 4
        /\ list \in [Metrics -> Nat] /\ (n = "PROPOSALS" <=> at = 1)
        /\ failed' = failed \ {k} /\ UNCHANGED <<chain, stats>>
    BY <1>8, MetricFacts, SaveHistoryFacts DEF world
  <2>2. stats[k] = list[n]
    BY <2>1 DEF Recording, Key
  <2> HIDE DEF n
  <2>3. /\ \A m \in Metrics : Value(stats, <<dao, m>>) <= list[m] /\ list[m] <= chain[<<dao, m>>]
        /\ \A m \in Shares : list[m] <= list["PROPOSALS"]
        /\ at > 1 => <<dao, "PROPOSALS">> \in failed \/ stats[<<dao, "PROPOSALS">>] = list["PROPOSALS"]
    BY <2>1 DEF Recording
  <2>4. ASSUME NEW d \in Daos, <<d, "PROPOSALS">> \notin failed', NEW m \in Shares
        PROVE  Value(stats, <<d, m>>) <= Value(stats, <<d, "PROPOSALS">>)
    <3>1. CASE <<d, "PROPOSALS">> \notin failed
      BY <2>4, <3>1 DEF Recording
    <3>2. CASE <<d, "PROPOSALS">> \in failed
      <4>1. <<d, "PROPOSALS">> = k
        BY <2>1, <2>4, <3>2
      <4>2. d = dao /\ n = "PROPOSALS"
        BY <4>1
      <4>3. list["PROPOSALS"] \in Nat /\ list[m] \in Nat /\ m \in Metrics
            /\ Value(stats, <<d, m>>) \in Nat
        BY <1>1, <2>1, <2>4
      <4>4. Value(stats, <<d, "PROPOSALS">>) = list["PROPOSALS"]
        BY <2>2, <4>2, <4>3, KeyFacts DEF Value
      <4>5. Value(stats, <<d, m>>) <= list[m] /\ list[m] <= list["PROPOSALS"]
        BY <2>3, <2>4, <4>2, <4>3
      <4> QED
        BY <4>3, <4>4, <4>5
    <3> QED
      BY <3>1, <3>2
  <2>5. ASSUME dao' # NoDao
        PROVE  /\ dao' = dao /\ list' = list
               /\ at' > 1 => \/ <<dao, "PROPOSALS">> \in failed'
                             \/ stats[<<dao, "PROPOSALS">>] = list["PROPOSALS"]
    <3>1. dao' = dao /\ list' = list /\ at' = at + 1
      BY <2>1, <2>5, AdvanceFacts
    <3>2. CASE at = 1
      BY <2>1, <2>2, <3>1, <3>2
    <3>3. CASE at # 1 /\ at' > 1
      <4>1. at > 1 /\ <<dao, "PROPOSALS">> # k
        BY <2>1, <3>1, <3>3
      <4> QED
        BY <2>1, <2>3, <3>1, <4>1
    <3> QED
      BY <3>1, <3>2, <3>3
  <2>6. half' = FALSE
    BY <2>1, AdvanceFacts
  <2> QED
    BY <2>1, <2>3, <2>4, <2>5, <2>6 DEF Recording, Value
<1>9. CASE Crash
  <2>1. dao' = NoDao /\ UNCHANGED <<chain, stats, failed>>
    BY <1>9 DEF Crash, world, tables
  <2> QED
    BY <2>1 DEF Recording, Value
<1>5. CASE MetricFails
  <2>1. /\ dao # NoDao /\ Advance /\ failed' = failed \cup {<<dao, Order[at + 1]>>}
        /\ UNCHANGED <<chain, stats>>
    BY <1>5 DEF MetricFails, world, tables, Key
  <2>2. \A k \in Keys : Value(stats', k) <= chain'[k]
    BY <2>1 DEF Recording, Value
  <2>3. ASSUME NEW d \in Daos, <<d, "PROPOSALS">> \notin failed', NEW m \in Shares
        PROVE  Value(stats', <<d, m>>) <= Value(stats', <<d, "PROPOSALS">>)
    <3>1. <<d, "PROPOSALS">> \notin failed
      BY <2>1, <2>3
    <3>2. Value(stats, <<d, m>>) <= Value(stats, <<d, "PROPOSALS">>)
      BY <3>1, <2>3 DEF Recording
    <3> QED
      BY <2>1, <3>2 DEF Value
  <2>4. ASSUME dao' # NoDao
        PROVE  /\ dao' = dao /\ list' = list
               /\ at' > 1 => \/ <<dao, "PROPOSALS">> \in failed'
                             \/ stats'[<<dao, "PROPOSALS">>] = list["PROPOSALS"]
    <3>1. dao' = dao /\ list' = list /\ at' = at + 1 /\ at \in 0 .. 4
      BY <2>1, <2>4, AdvanceFacts, MetricFacts
    <3>2. CASE at = 1
      <4>1. Order[at + 1] = "PROPOSALS"
        BY <2>1, <3>2, MetricFacts
      <4> QED
        BY <2>1, <3>1, <4>1
    <3>3. CASE at # 1 /\ at' > 1
      <4>1. at > 1
        BY <3>1, <3>3
      <4>2. <<dao, "PROPOSALS">> \in failed \/ stats[<<dao, "PROPOSALS">>] = list["PROPOSALS"]
        BY <2>1, <4>1 DEF Recording
      <4> QED
        BY <2>1, <3>1, <4>2
    <3> QED
      BY <3>1, <3>2, <3>3
  <2>5. dao # NoDao =>
           /\ \A m \in Metrics : Value(stats', <<dao, m>>) <= list[m] /\ list[m] <= chain[<<dao, m>>]
           /\ \A m \in Shares : list[m] <= list["PROPOSALS"]
    BY <2>1 DEF Recording, Value
  <2>6. half' = FALSE
    BY <2>1, AdvanceFacts
  <2> QED
    BY <2>1, <2>2, <2>3, <2>4, <2>5, <2>6 DEF Recording, Value
<1>6. ASSUME NEW d \in Daos, NextDao(d) PROVE Recording'
  <2>1. /\ dao' = d /\ at' = 0 /\ list' = [m \in Metrics |-> chain[<<d, m>>]]
        /\ UNCHANGED <<chain, stats, failed, half>> /\ dao = NoDao
    BY <1>6 DEF NextDao, world, tables, missing
  <2>2. \A m \in Metrics : list'[m] = chain[<<d, m>>]
    BY <2>1
  <2>3. \A m \in Shares : list'[m] <= list'["PROPOSALS"]
    BY <1>1, <2>2 DEF OnChain
  <2>4. \A m \in Metrics : Value(stats', <<d, m>>) <= list'[m] /\ list'[m] <= chain'[<<d, m>>]
    BY <1>1, <2>1, <2>2 DEF Recording, Value
  <2>5. /\ \A k \in Keys : Value(stats', k) <= chain'[k]
        /\ \A e \in Daos : <<e, "PROPOSALS">> \notin failed' =>
              \A m \in Shares : Value(stats', <<e, m>>) <= Value(stats', <<e, "PROPOSALS">>)
    BY <2>1 DEF Recording, Value
  <2>6. ~ (at' > 1) /\ ~ half'
    BY <2>1 DEF StatsTypes
  <2> QED
    BY <2>1, <2>3, <2>4, <2>5, <2>6 DEF Recording, Value
<1>7. CASE UNCHANGED <<stats, failed, dao, at, list, half, chain>>
  <2>1. chain' \in [Keys -> Nat] /\ \A k \in Keys : chain[k] <= chain'[k]
    BY <1>1, <1>7 DEF StatsTypes
  <2> QED
    BY <1>2, <1>7, <2>1
<1> QED
  BY <1>3, <1>4, <1>5, <1>6, <1>7, <1>8, <1>9 DEF Next, StartSweep, Purge, StartRequest,
     EndRequest, Midnight, Propose, Approve, ReceiveFunds, vars, world, tables, sweep, missing

\* What a query of a count sees.
LEMMA CountRead ==
    \A day : /\ Read("proposals", NoDao, day) = Count("PROPOSALS")
             /\ Read("approved", NoDao, day) = Count("APPROVED")
             /\ Read("transfer", NoDao, day) = Count("TRANSFER")
BY DEF Read, Count

\* A sweep lowers no value.
LEMMA CountGrows ==
    ASSUME StatsTypes, Recording, SaveStats
    PROVE  Count("PROPOSALS") <= Count("PROPOSALS")'
<1> DEFINE n == Order[at + 1]
           k == <<dao, n>>
<1>1. /\ dao # NoDao /\ n \in Metrics /\ k \in Keys /\ list \in [Metrics -> Nat]
      /\ stats' \in [Keys -> Cells] /\ stats'[k] = list[n] /\ list[n] # NoRow
      /\ \A j \in Keys \ {k} : stats'[j] = stats[j]
      /\ stats \in [Keys -> Cells]
  BY MetricFacts, SaveStatsFacts DEF SaveStats, StatsTypes
<1>2. Value(stats, k) <= list[n]
  BY <1>1 DEF Recording
<1> HIDE DEF n
<1>3. \A j \in Keys : Value(stats, j) <= Value(stats', j)
  <2> SUFFICES ASSUME NEW j \in Keys PROVE Value(stats, j) <= Value(stats', j)
    OBVIOUS
  <2>1. CASE j = k
    BY <1>1, <1>2, <2>1 DEF Value
  <2>2. CASE j # k
    <3>1. Value(stats', j) = Value(stats, j) /\ Value(stats, j) \in Nat
      BY <1>1, <2>2, KeyFacts DEF Value, Cells
    <3> QED
      BY <3>1
  <2> QED
    BY <2>1, <2>2
<1>4. \A d \in Daos : Value(stats, <<d, "PROPOSALS">>) <= Value(stats', <<d, "PROPOSALS">>)
  BY <1>3, KeyFacts
<1>5. SumOf(stats, Rows(stats, NoDao, {"PROPOSALS"}), FALSE)
         <= SumOf(stats', Rows(stats', NoDao, {"PROPOSALS"}), FALSE)
  BY <1>1, <1>4, OrderFacts, CountMonotone
<1> QED
  BY <1>5 DEF Count, GetValue, SumOf, Rows

\* The request under way keeps a part that no total is below.
LEMMA AnswersStep == ASSUME StatsTypes, Recording, Answers, [Next]_vars PROVE Answers'
<1>1. ASSUME UNCHANGED <<stats, request>> PROVE Answers'
  BY <1>1 DEF Answers, Count, GetValue
<1>2. CASE SaveStats
  <2>1. CASE request = <<>> /\ request' = <<>>
    BY <2>1 DEF Answers
  <2>2. CASE \E asked \in {request[i] : i \in DOMAIN request} :
               request' = <<[asked EXCEPT !.seen = [query \in CurrentReads |->
                               @[query] \cup {Read(query, NoDao, today)'}]]>>
    <3>1. PICK asked \in {request[i] : i \in DOMAIN request} :
             request' = <<[asked EXCEPT !.seen = [query \in CurrentReads |->
                             @[query] \cup {Read(query, NoDao, today)'}]]>>
      BY <2>2
    <3>2. request # <<>>
      BY <3>1
    <3>3. request = <<request[1]>> /\ asked = request[1]
      BY <3>1, <3>2 DEF Answers
    <3>4. /\ asked \in [whole : BOOLEAN, seen : [CurrentReads -> SUBSET Int]]
          /\ \A query \in CurrentReads : IsFiniteSet(asked.seen[query]) /\ asked.seen[query] # {}
          /\ asked.whole =>
                \A query \in {"approved", "transfer"} : \E part \in asked.seen[query] :
                    /\ part <= Count("PROPOSALS")
                    /\ \A total_ \in asked.seen["proposals"] : part <= total_
      BY <3>2, <3>3 DEF Answers
    <3> DEFINE R(query) == Read(query, NoDao, today)'
               now == [query \in CurrentReads |-> asked.seen[query] \cup {R(query)}]
               r == [asked EXCEPT !.seen = now]
    <3>5. \A query \in CurrentReads : R(query) \in Int
      <4>1. StatsTypes'
        BY StatsTypesStep
      <4>2. (\A query \in Reads : \A day : Read(query, NoDao, day) \in Int)'
        BY <4>1, ReadNumbers, PTL
      <4> QED
        BY <4>2 DEF CurrentReads
    <3>6. R("proposals") = Count("PROPOSALS")'
      <4>1. (\A day : /\ Read("proposals", NoDao, day) = Count("PROPOSALS")
                      /\ Read("approved", NoDao, day) = Count("APPROVED")
                      /\ Read("transfer", NoDao, day) = Count("TRANSFER"))'
        BY CountRead, PTL
      <4> QED
        BY <4>1
    <3>7. now \in [CurrentReads -> SUBSET Int] /\ \A query \in CurrentReads : now[query] # {} /\ IsFiniteSet(now[query])
      <4> HIDE DEF R
      <4>1. \A query \in CurrentReads : now[query] \in SUBSET Int
        BY <3>4, <3>5
      <4>2. \A query \in CurrentReads : IsFiniteSet(now[query])
        BY <3>4, FS_AddElement
      <4> QED
        BY <4>1, <4>2
    <3>8. request' = <<r>>
      BY <3>1
    <3> HIDE DEF now
    <3>9. r.whole = asked.whole /\ r.seen = now
          /\ r \in [whole : BOOLEAN, seen : [CurrentReads -> SUBSET Int]]
      BY <3>4, <3>7
    <3>10. Count("PROPOSALS") <= Count("PROPOSALS")' /\ Count("PROPOSALS") \in Int /\ Count("PROPOSALS")' \in Int
      <4>1. "proposals" \in CurrentReads /\ "proposals" \in Reads
        BY DEF Reads, CurrentReads
      <4>2. Read("proposals", NoDao, today) \in Int
        BY <4>1, ReadNumbers
      <4> QED
        BY <1>2, <3>5, <3>6, <4>1, <4>2, CountRead, CountGrows
    <3>11. ASSUME asked.whole, NEW query \in {"approved", "transfer"}
           PROVE  \E part \in now[query] :
                     /\ part <= Count("PROPOSALS")'
                     /\ \A total_ \in now["proposals"] : part <= total_
      <4>1. PICK part \in asked.seen[query] :
               /\ part <= Count("PROPOSALS")
               /\ \A total_ \in asked.seen["proposals"] : part <= total_
        BY <3>4, <3>11
      <4>2. query \in CurrentReads /\ "proposals" \in CurrentReads
        BY DEF Reads, CurrentReads
      <4>3. part \in Int /\ part \in now[query]
        BY <3>4, <4>1, <4>2 DEF now
      <4>4. part <= Count("PROPOSALS")'
        BY <3>10, <4>1, <4>3
      <4>5. now["proposals"] = asked.seen["proposals"] \cup {Count("PROPOSALS")'}
        BY <3>6, <4>2 DEF now
      <4> QED
        BY <4>1, <4>3, <4>4, <4>5
    <3> HIDE DEF r
    <3>12. request'[1] = r /\ request' = <<request'[1]>>
      BY <3>8
    <3> QED
      BY <3>7, <3>9, <3>11, <3>12 DEF Answers
  <2> QED
    BY <1>2, <2>1, <2>2 DEF SaveStats, Observe
<1>3. CASE StartRequest
  <2> DEFINE now == [query \in CurrentReads |-> {Read(query, NoDao, today)}]
             r == [whole |-> failed = {}, seen |-> now]
  <2>1. request' = <<r>> /\ UNCHANGED stats
    BY <1>3 DEF StartRequest, tables
  <2>2. now \in [CurrentReads -> SUBSET Int] /\ \A query \in CurrentReads : now[query] # {} /\ IsFiniteSet(now[query])
    <3>1. \A query \in CurrentReads : Read(query, NoDao, today) \in Int
      BY ReadNumbers DEF CurrentReads
    <3>2. \A query \in CurrentReads : IsFiniteSet({Read(query, NoDao, today)})
      BY FS_Singleton
    <3> QED
      BY <3>1, <3>2
  <2>4. /\ now["proposals"] = {Count("PROPOSALS")} /\ now["approved"] = {Count("APPROVED")}
        /\ now["transfer"] = {Count("TRANSFER")}
    BY CountRead DEF Reads, CurrentReads
  <2> HIDE DEF now
  <2>5. /\ r \in [whole : BOOLEAN, seen : [CurrentReads -> SUBSET Int]]
        /\ r.whole = (failed = {}) /\ r.seen = now
    BY <2>2
  <2>6. ASSUME failed = {} PROVE Count("APPROVED") <= Count("PROPOSALS") /\ Count("TRANSFER") <= Count("PROPOSALS")
    <3>1. \A d \in Daos : \A m \in Shares :
             Value(stats, <<d, m>>) <= Value(stats, <<d, "PROPOSALS">>)
      BY <2>6 DEF Recording
    <3>2. /\ \A d \in Daos : Value(stats, <<d, "APPROVED">>) <= Value(stats, <<d, "PROPOSALS">>)
          /\ \A d \in Daos : Value(stats, <<d, "TRANSFER">>) <= Value(stats, <<d, "PROPOSALS">>)
      BY <3>1 DEF Shares
    <3>3. /\ "PROPOSALS" \in Metrics /\ "APPROVED" \in Metrics /\ "TRANSFER" \in Metrics
          /\ stats \in [Keys -> Cells]
      BY OrderFacts DEF StatsTypes
    <3> QED
      BY <3>2, <3>3, CountMonotone DEF Count, GetValue
  <2>7. Count("PROPOSALS")' = Count("PROPOSALS")
    BY <2>1 DEF Count, GetValue
  <2>8. Count("PROPOSALS") \in Int
    BY <2>4, <2>2 DEF Reads, CurrentReads
  <2> HIDE DEF r
  <2>9. request'[1] = r /\ request' = <<request'[1]>>
    BY <2>1
  <2>10. ASSUME r.whole, NEW query \in {"approved", "transfer"}
         PROVE  \E part \in now[query] :
                   /\ part <= Count("PROPOSALS")'
                   /\ \A total_ \in now["proposals"] : part <= total_
    BY <2>4, <2>5, <2>6, <2>7, <2>10
  <2> QED
    BY <2>2, <2>5, <2>9, <2>10 DEF Answers
<1>4. CASE EndRequest
  BY <1>4 DEF EndRequest, Answers
<1>5. ASSUME NEW d \in Daos, NEW ms, Grow(d, ms) PROVE UNCHANGED <<stats, request>>
  BY <1>5 DEF Grow, tables
<1> QED
  BY <1>1, <1>2, <1>3, <1>4, <1>5 DEF Next, StartSweep, SaveHistory, MetricFails, Crash, NextDao,
     Purge, Midnight, Propose, Approve, ReceiveFunds, vars, tables

\* What a query of a count may have seen exceeds the total by what was recorded of it.
LEMMA AnswersConsistent == Answers => TornOnlyByWrites
<1> SUFFICES ASSUME Answers, request # <<>>, request[1].whole,
                    NEW total_ \in request[1].seen["proposals"]
             PROVE  /\ \A part \in request[1].seen["approved"] : part <= total_ + Spread("approved")
                    /\ \A part \in request[1].seen["transfer"] : part <= total_ + Spread("transfer")
  BY DEF TornOnlyByWrites
<1>1. ASSUME NEW query \in {"approved", "transfer"}, NEW part \in request[1].seen[query]
      PROVE  part <= total_ + Spread(query)
  <2> DEFINE S == request[1].seen[query]
  <2>1. S \in SUBSET Int /\ IsFiniteSet(S) /\ S # {} /\ total_ \in Int
    <3>1. query \in CurrentReads /\ "proposals" \in CurrentReads
      BY DEF Reads, CurrentReads
    <3>2. request[1].seen \in [CurrentReads -> SUBSET Int]
      BY DEF Answers
    <3> QED
      BY <3>1, <3>2 DEF Answers
  <2>2. PICK low \in S : low <= total_
    BY DEF Answers
  <2> HIDE DEF S
  <2>3. /\ \E x \in S : \A y \in S : y <= x
        /\ \E x \in S : \A y \in S : x <= y
    BY <2>1, Extremes
  <2>4. Greatest(S) \in S /\ \A y \in S : y <= Greatest(S)
    BY <2>3 DEF Greatest
  <2>5. Least(S) \in S /\ \A y \in S : Least(S) <= y
    BY <2>3 DEF Least
  <2>6. Spread(query) = Greatest(S) - Least(S) /\ part \in S
    BY <1>1 DEF Spread, S
  <2>7. part \in Int /\ low \in Int /\ Greatest(S) \in Int /\ Least(S) \in Int
    BY <2>1, <2>2, <2>4, <2>5, <2>6
  <2>8. part <= Greatest(S) /\ Least(S) <= low
    BY <2>2, <2>4, <2>5, <2>6
  <2> HIDE DEF Greatest, Least
  <2> QED
    BY <2>1, <2>2, <2>6, <2>7, <2>8
<1> QED
  BY <1>1

\* The metrics of the order.
LEMMA OrderKeys == \A d \in Daos, i \in 1 .. 5 : Order[i] \in Metrics /\ <<d, Order[i]>> \in Keys
<1> SUFFICES ASSUME NEW d \in Daos, NEW i \in 1 .. 5
             PROVE  Order[i] \in Metrics /\ <<d, Order[i]>> \in Keys
  OBVIOUS
<1>1. i \in {1, 2, 3, 4, 5}
  OBVIOUS
<1>2. Order[i] \in Metrics
  BY <1>1, OrderFacts
<1> QED
  BY <1>2, KeyFacts

\* The metrics are different.
LEMMA OrderDistinct == \A i, j \in 1 .. 5 : Order[i] = Order[j] => i = j
<1>1. 1 .. 5 = {1, 2, 3, 4, 5}
  OBVIOUS
<1> QED
  BY <1>1, OrderFacts

\* What is recorded of the day stays current.
LEMMA OfTheDayStep == ASSUME StatsTypes, Recording, OfTheDay, [Next]_vars PROVE OfTheDay'
<1>1. CASE UNCHANGED <<today, history, stats, swept, registry, todo, dao, at, failed, unreached>>
  BY <1>1 DEF OfTheDay
<1>2. CASE StartSweep
  <2>1. /\ ~ swept /\ swept' /\ todo' = registry /\ registry' = registry
        /\ UNCHANGED <<today, history, stats>>
    BY <1>2 DEF StartSweep, world
  <2>2. \A k \in Keys : history[today][k] = NoRow
    BY <2>1 DEF OfTheDay
  <2>3. \A d \in Daos, i \in 1 .. 5 : history[today][<<d, Order[i]>>] = NoRow
    BY <2>2, OrderKeys
  <2>4. \A d \in registry' \ todo' : FALSE
    BY <2>1
  <2> QED
    BY <2>1, <2>2, <2>3, <2>4 DEF OfTheDay
<1>3. CASE SaveStats
  <2> DEFINE n == Order[at + 1]
             k == <<dao, n>>
  <2>1. /\ dao # NoDao /\ dao \in Daos /\ at \in 0 .. 4 /\ at + 1 \in 1 .. 5
        /\ \A j \in Keys \ {k} : stats'[j] = stats[j]
        /\ UNCHANGED <<today, history, swept, registry, todo, dao, at, failed, unreached>>
    <3>1. dao # NoDao /\ \A j \in Keys \ {k} : stats'[j] = stats[j]
      BY <1>3, SaveStatsFacts
    <3>2. UNCHANGED <<world, history, swept, todo, dao, at, missing>>
      BY <1>3, SaveStatsFacts
    <3>3. UNCHANGED <<today, history, swept, registry, todo, dao, at, failed, unreached>>
      BY <3>2 DEF world, missing
    <3>4. dao \in Daos /\ at \in 0 .. 4
      BY <3>1, MetricFacts
    <3>5. at + 1 \in 1 .. 5
      BY <3>4
    <3> QED
      BY <3>1, <3>3, <3>4, <3>5
  <2>2. history[today][k] = NoRow
    <3>1. \A d \in Daos, i \in 1 .. 5 : d = dao /\ i > at => history[today][<<d, Order[i]>>] = NoRow
      BY Zenon DEF OfTheDay
    <3>2. at + 1 > at
      BY <2>1
    <3>3. \A i \in 1 .. 5 : i > at => history[today][<<dao, Order[i]>>] = NoRow
      BY <2>1, <3>1
    <3> QED
      BY <2>1, <3>2, <3>3
  <2> HIDE DEF n
  <2>3. \A j \in Keys : history[today][j] # NoRow => stats'[j] = history[today][j]
    BY <2>1, <2>2 DEF OfTheDay
  <2> QED
    BY <2>1, <2>3 DEF OfTheDay
<1>9. CASE SaveHistory
  <2> DEFINE n == Order[at + 1]
             k == <<dao, n>>
  <2>1. /\ dao # NoDao /\ dao \in Daos /\ dao \notin todo /\ at \in 0 .. 4 /\ at + 1 \in 1 .. 5
        /\ k \in Keys /\ list[n] # NoRow /\ half
        /\ today \in Days /\ today' = today
        /\ history'[today][k] = list[n]
        /\ \A j \in Keys \ {k} : history'[today][j] = history[today][j]
        /\ \A day \in Days \ {today} : history'[day] = history[day]
        /\ failed' = failed \ {k} /\ unreached' = unreached \ {k}
        /\ UNCHANGED <<stats, registry, todo, swept>> /\ Advance
    BY <1>9, MetricFacts, SaveHistoryFacts DEF world, StatsTypes
  <2>7. \/ dao' = NoDao /\ at = 4
        \/ dao' = dao /\ at' = at + 1
    BY <2>1, AdvanceFacts
  <2>8. stats[k] = list[n]
    BY <2>1 DEF Recording, Key
  <2> HIDE DEF n
  <2>2. \A day \in Days : day > today => \A j \in Keys : history'[day][j] = NoRow
    <3>1. \A day \in Days : day > today => day # today
      BY DEF Days
    <3> QED
      BY <2>1, <3>1 DEF OfTheDay
  <2>3. \A j \in Keys : history'[today][j] # NoRow => stats[j] = history'[today][j]
    BY <2>1, <2>8 DEF OfTheDay
  <2>4. ASSUME swept, NEW d \in registry \ todo, NEW i \in 1 .. 5, d = dao' => i <= at'
        PROVE  \/ <<d, Order[i]>> \in failed' \cup unreached'
               \/ history'[today][<<d, Order[i]>>] # NoRow
    <3>1. <<d, Order[i]>> \in Keys
      BY OrderKeys DEF StatsTypes
    <3>2. CASE <<d, Order[i]>> = k
      BY <2>1, <3>2
    <3>3. CASE <<d, Order[i]>> # k
      <4>1. d = dao => i <= at
        <5> SUFFICES ASSUME d = dao PROVE i <= at
          OBVIOUS
        <5>1. i # at + 1
          BY <3>3 DEF n
        <5>2. i <= at + 1
          BY <2>1, <2>4, <2>7
        <5> QED
          BY <2>1, <5>1, <5>2
      <4>2. <<d, Order[i]>> \in failed \cup unreached \/ history[today][<<d, Order[i]>>] # NoRow
        BY <2>4, <4>1 DEF OfTheDay
      <4> QED
        BY <2>1, <3>1, <3>3, <4>2
    <3> QED
      BY <3>2, <3>3
  <2>5. ASSUME NEW d \in Daos, NEW i \in 1 .. 5, d \in todo \/ (d = dao' /\ i > at')
        PROVE  history'[today][<<d, Order[i]>>] = NoRow
    <3>1. <<d, Order[i]>> \in Keys /\ d # NoDao
      BY OrderKeys, ConstantsAssumption
    <3>2. d \in todo \/ (d = dao /\ i > at + 1)
      BY <2>5, <2>7, <3>1
    <3>3. <<d, Order[i]>> # k
      BY <2>1, <3>2, OrderDistinct DEF n
    <3>4. d \in todo \/ (d = dao /\ i > at)
      BY <2>1, <3>2
    <3>5. history[today][<<d, Order[i]>>] = NoRow
      BY <3>4 DEF OfTheDay
    <3> QED
      BY <2>1, <3>1, <3>3, <3>5
  <2>6. swept
    BY <2>1, MetricFacts
  <2> QED
    BY <2>1, <2>2, <2>3, <2>4, <2>5, <2>6 DEF OfTheDay
<1>4. CASE MetricFails
  <2> DEFINE k == <<dao, Order[at + 1]>>
  <2>1. /\ dao # NoDao /\ at \in 0 .. 4 /\ Advance /\ failed' = failed \cup {k}
        /\ UNCHANGED <<today, history, stats, swept, registry, todo, unreached>>
    BY <1>4, MetricFacts DEF MetricFails, world, tables, Key
  <2>3. \/ dao' = NoDao /\ at = 4
        \/ dao' = dao /\ at' = at + 1
    BY <2>1, AdvanceFacts
  <2>2. ASSUME swept, NEW d \in registry \ todo, NEW i \in 1 .. 5, d = dao' => i <= at'
        PROVE  <<d, Order[i]>> \in failed' \cup unreached \/ history[today][<<d, Order[i]>>] # NoRow
    <3>1. CASE d = dao /\ i = at + 1
      BY <2>1, <3>1
    <3>2. CASE ~ (d = dao /\ i = at + 1)
      <4>1. d = dao => i <= at
        BY <2>1, <2>2, <2>3, <3>2
      <4>2. <<d, Order[i]>> \in failed \cup unreached \/ history[today][<<d, Order[i]>>] # NoRow
        BY <2>2, <4>1 DEF OfTheDay
      <4> QED
        BY <2>1, <4>2
    <3> QED
      BY <3>1, <3>2
  <2>4. ASSUME NEW d \in Daos, NEW i \in 1 .. 5, d \in todo \/ (d = dao' /\ i > at')
        PROVE  history[today][<<d, Order[i]>>] = NoRow
    <3>1. d # NoDao
      BY ConstantsAssumption
    <3>2. d \in todo \/ (d = dao /\ i > at)
      BY <2>1, <2>3, <2>4, <3>1
    <3> QED
      BY <3>2 DEF OfTheDay
  <2> QED
    BY <2>1, <2>2, <2>4 DEF OfTheDay
<1>5. ASSUME NEW d \in Daos, NextDao(d) PROVE OfTheDay'
  <2>1. /\ dao = NoDao /\ d \in todo /\ todo' = todo \ {d} /\ dao' = d /\ at' = 0
        /\ UNCHANGED <<today, history, stats, swept, registry, failed, unreached>>
    BY <1>5 DEF NextDao, world, tables, missing
  <2>2. ASSUME swept, NEW e \in registry \ todo', NEW i \in 1 .. 5, e = dao' => i <= at'
        PROVE  <<e, Order[i]>> \in failed \cup unreached \/ history[today][<<e, Order[i]>>] # NoRow
    <3>1. e # d /\ e \in registry \ todo
      BY <2>1, <2>2
    <3>2. e # NoDao
      BY <3>1, ConstantsAssumption DEF StatsTypes
    <3> QED
      BY <2>1, <2>2, <3>1, <3>2 DEF OfTheDay
  <2>3. ASSUME NEW e \in Daos, NEW i \in 1 .. 5, e \in todo' \/ (e = dao' /\ i > at')
        PROVE  history[today][<<e, Order[i]>>] = NoRow
    <3>1. e \in todo
      <4>1. e = d => i > 0
        OBVIOUS
      <4> QED
        BY <2>1, <2>3
    <3> QED
      BY <3>1 DEF OfTheDay
  <2>4. /\ \A day \in Days : day > today' => \A k \in Keys : history'[day][k] = NoRow
        /\ \A k \in Keys : history'[today'][k] # NoRow => stats'[k] = history'[today'][k]
        /\ ~ swept' => \A k \in Keys : history'[today'][k] = NoRow
    BY <2>1 DEF OfTheDay
  <2> QED
    <3>1. \A e \in Daos, i \in 1 .. 5 : e \in todo' \/ (e = dao' /\ i > at')
              => history'[today'][<<e, Order[i]>>] = NoRow
      BY <2>1, <2>3
    <3>2. swept' => \A e \in registry' \ todo', i \in 1 .. 5 : (e = dao' => i <= at') =>
             \/ <<e, Order[i]>> \in failed' \cup unreached'
             \/ history'[today'][<<e, Order[i]>>] # NoRow
      BY <2>1, <2>2
    <3> QED
      BY <2>4, <3>1, <3>2 DEF OfTheDay
<1>6. ASSUME NEW d \in Daos, Purge(d) PROVE OfTheDay'
  <2>1. /\ registry' = registry \ {d}
        /\ UNCHANGED <<today, history, stats, swept, todo, dao, at, failed, unreached>>
    BY <1>6 DEF Purge, tables, sweep, missing
  <2> QED
    BY <2>1 DEF OfTheDay
<1>7. CASE Midnight
  <2>1. /\ today' = today + 1 /\ swept' = Sweeping /\ today' \in Days /\ today \in Int
        /\ UNCHANGED <<history, stats, registry, todo, dao, at, failed>>
        /\ unreached' = IF Sweeping THEN unreached \cup {k \in Keys : history[today][k] # NoRow}
                        ELSE unreached
    <3>1. today \in Days /\ today < MaxDay /\ today' = today + 1
      BY <1>7 DEF Midnight, StatsTypes
    <3> QED
      BY <1>7, <3>1, ConstantsAssumption DEF Midnight, Days, tables
  <2>2. \A k \in Keys : history[today'][k] = NoRow
    BY <2>1 DEF OfTheDay
  <2>3. \A day \in Days : day > today' => day > today
    BY <2>1 DEF Days
  <2>4. \A d \in Daos, i \in 1 .. 5 : history[today'][<<d, Order[i]>>] = NoRow
    BY <2>2, OrderKeys
  <2>5. ASSUME Sweeping, NEW d \in registry \ todo, NEW i \in 1 .. 5, d = dao => i <= at
        PROVE  <<d, Order[i]>> \in failed \cup unreached'
    <3>1. swept
      BY <2>5 DEF Sweeping, StatsTypes
    <3>2. <<d, Order[i]>> \in failed \cup unreached \/ history[today][<<d, Order[i]>>] # NoRow
      BY <2>5, <3>1 DEF OfTheDay
    <3>3. <<d, Order[i]>> \in Keys
      BY OrderKeys DEF StatsTypes
    <3> QED
      BY <2>1, <2>5, <3>2, <3>3
  <2> QED
    BY <2>1, <2>2, <2>3, <2>4, <2>5 DEF OfTheDay
<1>10. CASE Crash
  <2>1. /\ unreached' = unreached \cup (todo \X Metrics) \cup (IF dao = NoDao THEN {} ELSE KeysLeft)
        /\ todo' = {} /\ dao' = NoDao
        /\ UNCHANGED <<today, history, stats, swept, registry, failed>>
    BY <1>10 DEF Crash, world, tables
  <2>2. ASSUME swept, NEW d \in registry, NEW i \in 1 .. 5
        PROVE  <<d, Order[i]>> \in failed \cup unreached' \/ history[today][<<d, Order[i]>>] # NoRow
    <3>1. d \in Daos /\ Order[i] \in Metrics
      BY OrderKeys DEF StatsTypes
    <3>2. CASE d \in todo
      BY <2>1, <3>1, <3>2
    <3>3. CASE d = dao /\ i > at
      <4>1. at \in 0 .. 4 /\ dao # NoDao /\ Len(Order) = 5
        BY <3>1, <3>3, ConstantsAssumption, MetricFacts, OrderFacts
      <4>2. i \in at + 1 .. Len(Order)
        BY <3>3, <4>1
      <4>3. <<d, Order[i]>> \in KeysLeft
        BY <3>3, <4>2 DEF KeysLeft
      <4> QED
        BY <2>1, <4>1, <4>3
    <3>4. CASE d \notin todo /\ ~ (d = dao /\ i > at)
      <4>1. d = dao => i <= at
        <5>1. d = dao => at \in 0 .. 4
          BY <3>1, ConstantsAssumption, MetricFacts
        <5> QED
          BY <3>4, <5>1
      <4> QED
        BY <2>1, <2>2, <3>4, <4>1 DEF OfTheDay
    <3> QED
      BY <3>2, <3>3, <3>4
  <2>3. \A d \in Daos : d # NoDao
    BY ConstantsAssumption
  <2> QED
    BY <2>1, <2>2, <2>3 DEF OfTheDay
<1>8. ASSUME NEW d \in Daos, NEW ms, Grow(d, ms)
      PROVE  UNCHANGED <<today, history, stats, swept, registry, todo, dao, at, failed, unreached>>
  BY <1>8 DEF Grow, tables, sweep, missing
<1> QED
  BY <1>1, <1>2, <1>3, <1>4, <1>5, <1>6, <1>7, <1>8, <1>9, <1>10 DEF Next, StartRequest,
     EndRequest, Propose, Approve, ReceiveFunds, vars, world, tables, sweep, missing

\* The proposals made up to a day.
LEMMA MadeFacts ==
    ASSUME NEW made \in [Days -> [Daos -> Nat]], NEW d \in Daos
    PROVE  /\ \A day \in Int : MadeIn(made, d, day) \in Nat
           /\ \A day, later \in Int : day <= later => MadeIn(made, d, day) <= MadeIn(made, d, later)
           /\ \A day, later \in Int :
                 (day <= later /\ \A e \in Days : e > day => made[e][d] = 0)
                    => MadeIn(made, d, later) = MadeIn(made, d, day)
           /\ \A day \in Int : IsFiniteSet(UpTo(day)) /\ UpTo(day) \subseteq Days
<1> DEFINE f == [e \in Days |-> made[e][d]]
<1>1. IsFiniteSet(Days) /\ Days \in SUBSET Int
  BY ConstantsAssumption, FS_Interval DEF Days
<1>2. \A e \in Days : f[e] \in Nat
  OBVIOUS
<1>3. \A day \in Int : IsFiniteSet(UpTo(day)) /\ UpTo(day) \subseteq Days
  BY <1>1, FS_Subset DEF UpTo
<1>4. \A day : MadeIn(made, d, day) = SumFunctionOnSet(f, UpTo(day))
  BY DEF MadeIn
<1>6. \A day, later \in Int : day <= later => UpTo(day) \subseteq UpTo(later)
  <2>1. \A e \in Days : e \in Int
    BY <1>1
  <2>2. \A day, later \in Int : \A e \in Days : e <= day /\ day <= later => e <= later
    BY <2>1
  <2> QED
    BY <2>2 DEF UpTo
<1>7. \A day, later \in Int : (day <= later /\ \A e \in Days : e > day => made[e][d] = 0)
         => \A e \in UpTo(later) \ UpTo(day) : f[e] = 0
  BY <1>1 DEF UpTo
<1> HIDE DEF f
<1>5. Naturals(f, Days) /\ \A day \in Int : Naturals(f, UpTo(day)) /\ Numbers(f, UpTo(day))
  <2>1. \A e \in Days : f[e] \in Nat /\ f[e] \in Int
    BY <1>2
  <2> QED
    BY <1>3, <2>1 DEF Naturals, Numbers
<1>8. \A day \in Int : SumFunctionOnSet(f, UpTo(day)) \in Nat
  BY <1>1, <1>3, <1>5, SumOfPart
<1>9. ASSUME NEW day \in Int, NEW later \in Int, day <= later
      PROVE  SumFunctionOnSet(f, UpTo(day)) <= SumFunctionOnSet(f, UpTo(later))
  BY <1>3, <1>5, <1>6, <1>9, SumOfPart
<1>10. ASSUME NEW day \in Int, NEW later \in Int, day <= later,
              \A e \in UpTo(later) \ UpTo(day) : f[e] = 0
       PROVE  SumFunctionOnSet(f, UpTo(later)) = SumFunctionOnSet(f, UpTo(day))
  BY <1>3, <1>5, <1>6, <1>10, SumOfOthers
<1>11. \A day, later \in Int : (day <= later /\ \A e \in Days : e > day => made[e][d] = 0)
          => SumFunctionOnSet(f, UpTo(later)) = SumFunctionOnSet(f, UpTo(day))
  BY <1>7, <1>10
<1> QED
  BY <1>3, <1>4, <1>8, <1>9, <1>11

\* One more proposal of a DAO on a day.
OneMore(made, more, day, d) ==
    \A e \in Days, a \in Daos :
       more[e][a] = IF e = day /\ a = d THEN made[e][a] + One ELSE made[e][a]

\* A proposal counts from the day it is made.
LEMMA MadeMore ==
    ASSUME NEW made \in [Days -> [Daos -> Nat]], NEW day \in Days, NEW d \in Daos,
           NEW more \in [Days -> [Daos -> Nat]], OneMore(made, more, day, d)
    PROVE  \A e \in Int, a \in Daos :
              MadeIn(more, a, e) = IF a = d /\ day <= e THEN MadeIn(made, a, e) + One
                                   ELSE MadeIn(made, a, e)
<1>2. ASSUME NEW e \in Int, NEW a \in Daos
      PROVE  MadeIn(more, a, e) = IF a = d /\ day <= e THEN MadeIn(made, a, e) + One
                                  ELSE MadeIn(made, a, e)
  <2> DEFINE f == [x \in Days |-> made[x][a]]
             g == [x \in Days |-> more[x][a]]
             S == UpTo(e)
  <2>1. IsFiniteSet(S) /\ S \subseteq Days
    BY MadeFacts
  <2>2. /\ MadeIn(made, a, e) = SumFunctionOnSet(f, S)
        /\ MadeIn(more, a, e) = SumFunctionOnSet(g, S)
    BY DEF MadeIn
  <2>3. /\ Numbers(f, S) /\ Numbers(g, S)
        /\ \A x \in S : g[x] = IF x = day /\ a = d THEN f[x] + One ELSE f[x]
    BY <2>1 DEF Numbers, OneMore
  <2>4. day \in S <=> day <= e
    BY DEF UpTo
  <2>5. \A x \in S : f[x] \in Int /\ g[x] \in Int
    BY <2>3 DEF Numbers
  <2> HIDE DEF f, g, S
  <2>6. CASE ~ (a = d /\ day <= e)
    <3>1. \A x \in S : g[x] = f[x]
      BY <2>3, <2>4, <2>6
    <3>2. SumFunctionOnSet(g, S) = SumFunctionOnSet(f, S)
      BY <2>1, <2>3, <3>1, SumSame
    <3> QED
      BY <2>2, <2>6, <3>2
  <2>7. CASE a = d /\ day <= e
    <3>1. IsFiniteSet(S) /\ Numbers(f, S) /\ Numbers(g, S) /\ day \in S
      BY <2>1, <2>3, <2>4, <2>7
    <3>2. \A x \in S \ {day} : g[x] = f[x]
      BY <2>3
    <3>3. SumFunctionOnSet(g, S) = SumFunctionOnSet(f, S) + (g[day] - f[day])
      BY <3>1, <3>2, SumOfChange
    <3>4. SumFunctionOnSet(f, S) \in Int
      BY <3>1, SumFacts
    <3>5. g[day] = f[day] + One /\ f[day] \in Int /\ One \in Int
      BY <2>3, <2>4, <2>5, <2>7, KeyFacts
    <3> QED
      BY <2>2, <2>7, <3>3, <3>4, <3>5
  <2> QED
    BY <2>6, <2>7
<1> QED
  BY <1>2

\* What a sweep recorded of the proposals lies between those made before the day and
\* by its end.
LEMMA ProposedStep ==
    ASSUME StatsTypes, OfTheDay, Proposed, troubles \in Nat, [Next]_vars PROVE Proposed'
<1>1. /\ today \in Days /\ today \in Int /\ Days \in SUBSET Int
      /\ proposedOn \in [Days -> [Daos -> Nat]] /\ stored \in [Days -> [Daos -> Nat]]
      /\ "PROPOSALS" \in Metrics
      /\ \A d \in Daos : <<d, "PROPOSALS">> \in Keys /\ chain[<<d, "PROPOSALS">>] \in Nat
      /\ dao # NoDao => dao \in Daos /\ list["PROPOSALS"] \in Nat
      /\ \A day \in Days : \A k \in Keys : history[day][k] \in Int
  <2>1. today \in Days /\ Days \in SUBSET Int /\ "PROPOSALS" \in Metrics
        /\ proposedOn \in [Days -> [Daos -> Nat]] /\ stored \in [Days -> [Daos -> Nat]]
    BY OrderFacts DEF StatsTypes, Days
  <2>2. \A d \in Daos : <<d, "PROPOSALS">> \in Keys /\ chain[<<d, "PROPOSALS">>] \in Nat
    BY KeyFacts DEF StatsTypes
  <2>3. dao # NoDao => dao \in Daos /\ list["PROPOSALS"] \in Nat
    BY <2>1, MetricFacts
  <2>4. \A day \in Days : \A k \in Keys : history[day][k] \in Int
    BY KeyFacts DEF StatsTypes, Cells
  <2> QED
    BY <2>1, <2>2, <2>3, <2>4
<1>2. \A d \in Daos : Made(d, today - 1) \in Nat /\ Made(d, today) \in Nat
                      /\ Made(d, today - 1) <= Made(d, today)
  BY <1>1, MadeFacts DEF Made
<1>3. CASE UNCHANGED <<today, proposedOn, stored, swept, troubles, dao, list, history>>
           /\ \A d \in Daos : chain'[<<d, "PROPOSALS">>] = chain[<<d, "PROPOSALS">>]
  BY <1>3 DEF Proposed, RecordedOf, Made
<1>4. ASSUME NEW d \in Daos, NEW ms \in ProposalKinds, Propose(d, ms) PROVE Proposed'
  <2>1. /\ Grow(d, ms) /\ "PROPOSALS" \in ms
        /\ proposedOn' = [proposedOn EXCEPT ![today][d] = @ + One]
        /\ UNCHANGED <<today, dao, list, history, stored, swept, troubles>>
    BY <1>4 DEF Propose, ProposalKinds, Grow, tables, sweep
  <2>2. /\ \A e \in Days, a \in Daos :
              proposedOn'[e][a] = IF e = today /\ a = d THEN proposedOn[e][a] + One ELSE proposedOn[e][a]
        /\ \A e \in Int, a \in Daos :
              MadeIn(proposedOn', a, e) = IF a = d /\ today <= e THEN Made(a, e) + One ELSE Made(a, e)
    <3>1. /\ proposedOn' \in [Days -> [Daos -> Nat]]
          /\ \A e \in Days, a \in Daos :
                proposedOn'[e][a] = IF e = today /\ a = d THEN proposedOn[e][a] + One
                                    ELSE proposedOn[e][a]
      BY <1>1, <2>1, KeyFacts
    <3>2. \A e \in Int, a \in Daos :
             MadeIn(proposedOn', a, e) = IF a = d /\ today <= e THEN MadeIn(proposedOn, a, e) + One
                                         ELSE MadeIn(proposedOn, a, e)
      <4> DEFINE made == proposedOn
                 more == proposedOn'
      <4>1. /\ made \in [Days -> [Daos -> Nat]] /\ more \in [Days -> [Daos -> Nat]] /\ today \in Days
            /\ OneMore(made, more, today, d)
        BY <1>1, <3>1 DEF OneMore
      <4> HIDE DEF made, more
      <4>2. \A e \in Int, a \in Daos :
               MadeIn(more, a, e) = IF a = d /\ today <= e THEN MadeIn(made, a, e) + One
                                    ELSE MadeIn(made, a, e)
        BY <4>1, MadeMore, ZenonT(30)
      <4> QED
        BY <4>2 DEF made, more
    <3> QED
      BY <3>1, <3>2 DEF Made
  <2>3. \A e \in Int, a \in Daos : /\ Made(a, e) \in Nat /\ One \in Nat
                                   /\ Made(a, e) <= MadeIn(proposedOn', a, e)
                                   /\ MadeIn(proposedOn', a, e) \in Nat
                                   /\ (e < today => MadeIn(proposedOn', a, e) = Made(a, e))
    <3>1. \A e \in Int, a \in Daos : Made(a, e) \in Nat
      BY <1>1, MadeFacts DEF Made
    <3>2. One \in Nat /\ today \in Int
      BY <1>1, KeyFacts
    <3> QED
      BY <2>2, <3>1, <3>2
  <2>4. \A day \in Days, a \in Daos : day > today => proposedOn'[day][a] = 0
    <3> SUFFICES ASSUME NEW day \in Days, NEW a \in Daos, day > today
                 PROVE  proposedOn'[day][a] = 0
      OBVIOUS
    <3>1. day # today /\ proposedOn[day][a] = 0
      BY <1>1 DEF Proposed
    <3> QED
      BY <2>2, <3>1
  <2>5. \A a \in Daos : chain'[<<a, "PROPOSALS">>] = MadeIn(proposedOn', a, today)
    <3>1. \A a \in Daos : chain'[<<a, "PROPOSALS">>] = IF a = d THEN chain[<<a, "PROPOSALS">>] + One
                                                     ELSE chain[<<a, "PROPOSALS">>]
      <4>1. \A a \in Daos, m \in Metrics :
               chain'[<<a, m>>] = IF a = d /\ m \in ms THEN chain[<<a, m>>] + One ELSE chain[<<a, m>>]
        BY <2>1, GrowFacts
      <4> QED
        BY <1>1, <2>1, <4>1
    <3>2. \A a \in Daos : chain[<<a, "PROPOSALS">>] = Made(a, today)
      BY DEF Proposed
    <3> SUFFICES ASSUME NEW a \in Daos
                 PROVE  chain'[<<a, "PROPOSALS">>] = MadeIn(proposedOn', a, today)
      OBVIOUS
    <3>3. MadeIn(proposedOn', a, today) = IF a = d THEN Made(a, today) + One ELSE Made(a, today)
      BY <1>1, <2>2
    <3> QED
      BY <3>1, <3>2, <3>3
  <2>6. dao # NoDao => /\ list["PROPOSALS"] <= MadeIn(proposedOn', dao, today)
                       /\ troubles = 0 => MadeIn(proposedOn', dao, today - 1) <= list["PROPOSALS"]
    <3> SUFFICES ASSUME dao # NoDao
                 PROVE  /\ list["PROPOSALS"] <= MadeIn(proposedOn', dao, today)
                        /\ troubles = 0 => MadeIn(proposedOn', dao, today - 1) <= list["PROPOSALS"]
      OBVIOUS
    <3>1. /\ list["PROPOSALS"] <= Made(dao, today)
          /\ troubles = 0 => Made(dao, today - 1) <= list["PROPOSALS"]
      BY DEF Proposed
    <3>2. /\ dao \in Daos /\ list["PROPOSALS"] \in Nat /\ today - 1 \in Int
          /\ today - 1 < today
      BY <1>1
    <3>3. MadeIn(proposedOn', dao, today - 1) = Made(dao, today - 1)
      BY <2>3, <3>2
    <3>4. /\ Made(dao, today) <= MadeIn(proposedOn', dao, today)
          /\ Made(dao, today) \in Nat /\ MadeIn(proposedOn', dao, today) \in Nat
      BY <1>1, <2>3, <3>2
    <3> QED
      BY <3>1, <3>2, <3>3, <3>4
  <2>7. ASSUME NEW day \in Days, NEW a \in Daos, history[day][<<a, "PROPOSALS">>] # NoRow
        PROVE  /\ history[day][<<a, "PROPOSALS">>] <= MadeIn(proposedOn', a, day)
               /\ troubles = 0 => MadeIn(proposedOn', a, day - 1) <= history[day][<<a, "PROPOSALS">>]
    <3> DEFINE row == history[day][<<a, "PROPOSALS">>]
    <3>1. day \in Int /\ day - 1 \in Int /\ row \in Int
      BY <1>1
    <3>2. ~ (day > today)
      BY <1>1, <2>7 DEF OfTheDay
    <3>3. row <= Made(a, day) /\ (troubles = 0 => Made(a, day - 1) <= row)
      BY <2>7 DEF Proposed, RecordedOf
    <3> HIDE DEF row
    <3>4. MadeIn(proposedOn', a, day - 1) = Made(a, day - 1)
      BY <1>1, <2>3, <3>1, <3>2
    <3>5. /\ Made(a, day) <= MadeIn(proposedOn', a, day)
          /\ Made(a, day) \in Nat /\ MadeIn(proposedOn', a, day) \in Nat
      BY <2>3, <3>1
    <3>6. row <= MadeIn(proposedOn', a, day)
      BY <3>1, <3>3, <3>5
    <3> QED
      BY <3>3, <3>4, <3>6 DEF row
  <2>8. ASSUME NEW day \in Days, NEW a \in Daos
        PROVE  /\ stored[day][a] <= proposedOn'[day][a]
               /\ (swept /\ troubles = 0 /\ day < today) => stored[day][a] = proposedOn'[day][a]
    <3>1. /\ stored[day][a] <= proposedOn[day][a]
          /\ (swept /\ troubles = 0 /\ day < today) => stored[day][a] = proposedOn[day][a]
      BY DEF Proposed
    <3>2. stored[day][a] \in Nat /\ proposedOn[day][a] \in Nat /\ One \in Nat /\ day \in Int
      BY <1>1, KeyFacts
    <3>3. proposedOn'[day][a] = IF day = today /\ a = d THEN proposedOn[day][a] + One
                                ELSE proposedOn[day][a]
      BY <2>2
    <3> QED
      BY <1>1, <3>1, <3>2, <3>3
  <2> QED
    BY <2>1, <2>4, <2>5, <2>6, <2>7, <2>8 DEF Proposed, RecordedOf, Made
<1>5. ASSUME NEW d \in Daos, NEW ms, Grow(d, ms), "PROPOSALS" \notin ms, proposedOn' = proposedOn
      PROVE  Proposed'
  <2>1. \A a \in Daos : chain'[<<a, "PROPOSALS">>] = chain[<<a, "PROPOSALS">>]
    <3> SUFFICES ASSUME NEW a \in Daos PROVE chain'[<<a, "PROPOSALS">>] = chain[<<a, "PROPOSALS">>]
      OBVIOUS
    <3>1. <<a, "PROPOSALS">> \in Keys /\ <<a, "PROPOSALS">> \notin {d} \X ms
      BY <1>1, <1>5
    <3> QED
      BY <1>5, <3>1 DEF Grow
  <2>2. UNCHANGED <<today, proposedOn, stored, swept, troubles, dao, list, history>>
    BY <1>5 DEF Grow, tables, sweep
  <2> QED
    BY <1>3, <2>1, <2>2
<1>6. ASSUME NEW d \in Daos, NextDao(d) PROVE Proposed'
  <2>1. /\ dao' = d /\ list' = [m \in Metrics |-> chain[<<d, m>>]]
        /\ UNCHANGED <<today, chain, proposedOn, stored, swept, troubles, history>>
    BY <1>6 DEF NextDao, world, tables
  <2>2. list'["PROPOSALS"] = Made(d, today)
    BY <1>1, <2>1 DEF Proposed
  <2>3. Made(d, today - 1) <= list'["PROPOSALS"] /\ list'["PROPOSALS"] <= Made(d, today)
    BY <1>2, <2>2
  <2> QED
    BY <2>1, <2>3 DEF Proposed, RecordedOf, Made
<1>7. CASE SaveHistory
  <2> DEFINE n == Order[at + 1]
             k == <<dao, n>>
  <2>1. /\ dao # NoDao /\ Advance /\ n \in Metrics
        /\ history'[today][k] = list[n]
        /\ \A j \in Keys \ {k} : history'[today][j] = history[today][j]
        /\ \A day \in Days \ {today} : history'[day] = history[day]
        /\ UNCHANGED <<today, chain, proposedOn, stored, swept, troubles>>
    BY <1>7, MetricFacts, SaveHistoryFacts DEF world
  <2> HIDE DEF n
  <2>2. dao' # NoDao => dao' = dao /\ list' = list
    BY <2>1, AdvanceFacts
  <2>3. /\ list["PROPOSALS"] <= Made(dao, today)
        /\ troubles = 0 => Made(dao, today - 1) <= list["PROPOSALS"]
    BY <2>1 DEF Proposed
  <2>4. ASSUME NEW day \in Days, NEW a \in Daos, history'[day][<<a, "PROPOSALS">>] # NoRow
        PROVE  /\ history'[day][<<a, "PROPOSALS">>] <= Made(a, day)
               /\ troubles = 0 => Made(a, day - 1) <= history'[day][<<a, "PROPOSALS">>]
    <3>1. CASE day = today /\ <<a, "PROPOSALS">> = k
      BY <2>1, <2>3, <3>1
    <3>2. CASE ~ (day = today /\ <<a, "PROPOSALS">> = k)
      <4>1. history'[day][<<a, "PROPOSALS">>] = history[day][<<a, "PROPOSALS">>]
        BY <1>1, <2>1, <3>2
      <4> QED
        BY <2>4, <4>1 DEF Proposed, RecordedOf
    <3> QED
      BY <3>1, <3>2
  <2> QED
    BY <2>1, <2>2, <2>3, <2>4 DEF Proposed, RecordedOf, Made
<1>8. ASSUME troubles' # 0, dao' # NoDao => dao' = dao /\ list' = list,
             UNCHANGED <<today, chain, proposedOn, stored, history>>
      PROVE  Proposed'
  BY <1>8 DEF Proposed, RecordedOf, Made
<1>10. CASE MetricFails \/ Crash
  <2>1. /\ troubles' = troubles + 1 /\ UNCHANGED <<today, chain, proposedOn, stored, history>>
        /\ \/ dao' = NoDao
           \/ dao # NoDao /\ Advance
    BY <1>10 DEF MetricFails, Crash, world, tables
  <2>2. dao' # NoDao => dao' = dao /\ list' = list
    BY <2>1, AdvanceFacts
  <2> QED
    BY <1>8, <2>1, <2>2
<1>11. ASSUME NEW d \in Daos, Purge(d) PROVE Proposed'
  <2>1. /\ troubles' = troubles + 1
        /\ UNCHANGED <<today, chain, proposedOn, stored, history, dao, list>>
    BY <1>11 DEF Purge, tables, sweep
  <2> QED
    BY <1>8, <2>1
<1>12. CASE StartSweep
  <2>1. /\ stored' = proposedOn /\ dao = NoDao
        /\ UNCHANGED <<today, chain, proposedOn, history, dao, list, troubles>>
    BY <1>12 DEF StartSweep, world, StatsTypes
  <2>2. \A day \in Days, d \in Daos : stored'[day][d] <= proposedOn'[day][d]
    BY <1>1, <2>1
  <2> QED
    BY <2>1, <2>2 DEF Proposed, RecordedOf, Made
<1>13. CASE SaveStats
  <2>1. UNCHANGED <<today, chain, proposedOn, stored, swept, troubles, dao, list, history>>
    BY <1>13, SaveStatsFacts DEF world
  <2> QED
    BY <1>3, <2>1
<1>9. CASE Midnight
  <2>1. /\ today' = today + 1
        /\ UNCHANGED <<chain, proposedOn, stored, history, dao, list>>
    BY <1>9 DEF Midnight, tables
  <2>2. \A d \in Daos : Made(d, today') = Made(d, today)
    <3>1. today \in Int /\ today' \in Int /\ today <= today'
      BY <1>1, <2>1
    <3> SUFFICES ASSUME NEW d \in Daos
                 PROVE  MadeIn(proposedOn, d, today') = MadeIn(proposedOn, d, today)
      BY DEF Made
    <3>2. \A e \in Days : e > today => proposedOn[e][d] = 0
      BY DEF Proposed
    <3>3. proposedOn \in [Days -> [Daos -> Nat]]
      BY <1>1
    <3>4. \A day, later \in Int :
             (day <= later /\ \A e \in Days : e > day => proposedOn[e][d] = 0)
                => MadeIn(proposedOn, d, later) = MadeIn(proposedOn, d, day)
      BY <3>3, MadeFacts
    <3> QED
      BY <3>1, <3>2, <3>4
  <2>3. \A day \in Days, d \in Daos : day > today' => proposedOn'[day][d] = 0
    <3>1. \A day \in Days : day \in Int /\ today \in Int
      BY <1>1
    <3>2. \A day \in Days : day > today' => day > today
      BY <2>1, <3>1
    <3> QED
      BY <2>1, <3>2 DEF Proposed
  <2>4. CASE Sweeping
    <3>1. troubles' # 0
      BY <1>9, <2>4 DEF Midnight, StatsTypes
    <3>2. dao # NoDao => dao \in Daos /\ list["PROPOSALS"] <= Made(dao, today')
      <4>1. dao # NoDao => dao \in Daos /\ list["PROPOSALS"] <= Made(dao, today)
        BY DEF Proposed, StatsTypes
      <4> QED
        BY <2>2, <4>1
    <3>3. \A day \in Days, d \in Daos : RecordedOf(day, d)'
      BY <2>1, <3>1 DEF Proposed, RecordedOf, Made
    <3>4. \A d \in Daos : chain'[<<d, "PROPOSALS">>] = MadeIn(proposedOn', d, today')
      BY <2>1, <2>2 DEF Proposed, Made
    <3>5. dao' # NoDao => list'["PROPOSALS"] <= MadeIn(proposedOn', dao', today')
      BY <2>1, <3>2 DEF Made
    <3>6. \A day \in Days, d \in Daos : stored'[day][d] <= proposedOn'[day][d]
      BY <2>1 DEF Proposed
    <3> QED
      BY <2>3, <3>1, <3>3, <3>4, <3>5, <3>6 DEF Proposed, Made
  <2>5. CASE ~ Sweeping
    <3>1. dao = NoDao /\ ~ swept' /\ troubles' = troubles
      BY <1>9, <2>5 DEF Midnight, Sweeping
    <3> QED
      BY <2>1, <2>2, <2>3, <3>1 DEF Proposed, RecordedOf, Made
  <2> QED
    BY <2>4, <2>5
<1> QED
  BY <1>3, <1>4, <1>5, <1>6, <1>7, <1>9, <1>10, <1>11, <1>12, <1>13 DEF Next, StartRequest,
     EndRequest, Approve, ReceiveFunds, TotalValueLocked, vars, world, tables, sweep

\* Before trouble every sweep records all metrics.
LEMMA NoTroubleStep ==
    ASSUME StatsTypes, OfTheDay, NoTrouble, troubles \in Nat, [Next]_vars
    PROVE  NoTrouble' /\ troubles' \in Nat
<1>1. CASE UNCHANGED <<troubles, registry, failed, unreached, today, history>>
  BY <1>1 DEF NoTrouble
<1>2. CASE SaveHistory
  <2>1. /\ failed' \subseteq failed /\ unreached' \subseteq unreached /\ UNCHANGED <<troubles, registry, today>>
        /\ \A day \in Days \ {today} : history'[day] = history[day]
    BY <1>2, SaveHistoryFacts DEF world
  <2>2. today \in Int /\ Days \in SUBSET Int
    BY DEF StatsTypes, Days
  <2>3. \A day \in Days : day < today => history'[day] = history[day]
    BY <2>1, <2>2
  <2> QED
    BY <2>1, <2>3 DEF NoTrouble
<1>6. CASE SaveStats
  BY <1>1, <1>6, SaveStatsFacts DEF world, missing
<1>3. CASE MetricFails \/ Crash \/ \E d \in Daos : Purge(d)
  <2>1. troubles' = troubles + 1
    BY <1>3 DEF MetricFails, Crash, Purge
  <2> QED
    BY <2>1 DEF NoTrouble
<1>4. CASE Midnight
  <2>5. CASE Sweeping
    <3>1. troubles' = troubles + 1
      BY <1>4, <2>5 DEF Midnight
    <3> QED
      BY <3>1 DEF NoTrouble
  <2> SUFFICES ASSUME ~ Sweeping PROVE NoTrouble' /\ troubles' \in Nat
    BY <2>5
  <2>1. /\ todo = {} /\ dao = NoDao /\ today' = today + 1 /\ today \in Days
        /\ UNCHANGED <<troubles, registry, failed, unreached, history>>
    BY <1>4 DEF Midnight, Sweeping, StatsTypes, tables
  <2> SUFFICES ASSUME troubles = 0, NEW day \in Days, day < today',
                      NEW j \in Keys, history[day][j] # NoRow, NEW k \in Keys
               PROVE  history[day][k] # NoRow
    BY <2>1 DEF NoTrouble
  <2>2. today \in Int /\ day \in Int
    BY <2>1 DEF Days
  <2>3. CASE day < today
    BY <2>3 DEF NoTrouble
  <2>4. CASE ~ (day < today)
    <3>1. day = today
      BY <2>1, <2>2, <2>4
    <3>2. swept /\ registry = Daos /\ failed \cup unreached = {}
      BY <3>1 DEF OfTheDay, NoTrouble
    <3>3. PICK d \in Daos, i \in 1 .. 5 : k = <<d, Order[i]>>
      <4>1. k[1] \in Daos /\ k[2] \in Metrics /\ k = <<k[1], k[2]>>
        BY KeyFacts
      <4>2. \E i \in 1 .. 5 : k[2] = Order[i]
        <5>1. 1 \in 1 .. 5 /\ 2 \in 1 .. 5 /\ 3 \in 1 .. 5 /\ 4 \in 1 .. 5 /\ 5 \in 1 .. 5
          OBVIOUS
        <5> QED
          BY <4>1, <5>1, OrderFacts
      <4> QED
        BY <4>1, <4>2
    <3>4. d \in registry \ todo /\ d # dao
      BY <2>1, <3>2, ConstantsAssumption
    <3> QED
      BY <3>1, <3>2, <3>3, <3>4 DEF OfTheDay
  <2> QED
    BY <2>3, <2>4
<1>5. ASSUME NEW d \in Daos, NEW ms, Grow(d, ms)
      PROVE  UNCHANGED <<troubles, registry, failed, unreached, today, history>>
  BY <1>5 DEF Grow, tables, sweep, missing
<1> QED
  BY <1>1, <1>2, <1>3, <1>4, <1>5, <1>6 DEF Next, StartSweep, NextDao, StartRequest, EndRequest,
     Propose, Approve, ReceiveFunds, vars, world, tables, sweep, missing

\* The invariant holds at first.
LEMMA StatsInit == Init => StatsOK
<1> SUFFICES ASSUME Init PROVE StatsOK
  OBVIOUS
<1>1. /\ today = 0 /\ 0 \in Days /\ chain = [k \in Keys |-> 0]
      /\ proposedOn = [day \in Days |-> [d \in Daos |-> 0]] /\ registry = Daos
      /\ stored = proposedOn /\ unreached = {} /\ half = FALSE
      /\ stats = [k \in Keys |-> NoRow]
      /\ history = [day \in Days |-> [k \in Keys |-> NoRow]]
      /\ swept = FALSE /\ failed = {} /\ todo = {} /\ dao = NoDao /\ request = <<>>
      /\ troubles = 0 /\ Days \in SUBSET Int
  BY ConstantsAssumption DEF Init, Days
<1>2. StatsTypes
  BY <1>1 DEF StatsTypes, Cells
<1>3. OnChain
  <2>1. \A d \in Daos, m \in Metrics : chain[<<d, m>>] = 0
    BY <1>1, KeyFacts
  <2>2. 0 \in Nat /\ 0 = 0 * One
    BY KeyFacts
  <2> SUFFICES ASSUME NEW d \in Daos
               PROVE  /\ \A m \in {"APPROVED", "PROPOSALS"} : \E n \in Nat : chain[<<d, m>>] = n * One
                      /\ \A m \in Shares : chain[<<d, m>>] <= chain[<<d, "PROPOSALS">>]
    BY DEF OnChain
  <2>3. /\ chain[<<d, "APPROVED">>] = 0 /\ chain[<<d, "PROPOSALS">>] = 0
        /\ chain[<<d, "TRANSFER">>] = 0
    BY <2>1, OrderFacts
  <2> QED
    BY <2>2, <2>3 DEF Shares
<1>4. Recording
  <2>1. \A k \in Keys : Value(stats, k) = 0 /\ chain[k] = 0
    BY <1>1 DEF Value
  <2>2. ASSUME NEW d \in Daos, NEW m \in Shares
        PROVE  Value(stats, <<d, m>>) <= Value(stats, <<d, "PROPOSALS">>)
    <3>1. <<d, m>> \in Keys /\ <<d, "PROPOSALS">> \in Keys
      BY KeyFacts DEF Shares
    <3> QED
      BY <2>1, <3>1
  <2> QED
    BY <1>1, <2>1, <2>2 DEF Recording
<1>5. Answers /\ OfTheDay
  <2>1. \A d \in Daos : d # NoDao
    BY ConstantsAssumption
  <2> QED
    BY <1>1, <2>1 DEF Answers, OfTheDay
<1>6. Proposed
  <2>1. \A d \in Daos : Made(d, 0) = 0
    <3> SUFFICES ASSUME NEW d \in Daos PROVE Made(d, 0) = 0
      OBVIOUS
    <3>1. /\ proposedOn \in [Days -> [Daos -> Nat]] /\ 0 \in Int /\ -1 \in Int /\ -1 <= 0
          /\ \A e \in Days : proposedOn[e][d] = 0
      BY <1>1
    <3>2. MadeIn(proposedOn, d, 0) = MadeIn(proposedOn, d, -1)
      BY <3>1, MadeFacts
    <3>3. UpTo(-1) = {}
      BY ConstantsAssumption DEF UpTo, Days
    <3> QED
      BY <3>2, <3>3, SumOfNone DEF Made, MadeIn
  <2>2. \A d \in Daos : chain[<<d, "PROPOSALS">>] = 0
    BY <1>1, KeyFacts
  <2>3. \A day \in Days, d \in Daos : proposedOn[day][d] = 0 /\ history[day][<<d, "PROPOSALS">>] = NoRow
    BY <1>1, KeyFacts
  <2>4. \A day \in Days, d \in Daos : stored[day][d] <= proposedOn[day][d]
    BY <1>1, <2>3
  <2> QED
    BY <1>1, <2>1, <2>2, <2>3, <2>4 DEF Proposed, RecordedOf
<1>7. troubles \in Nat /\ NoTrouble
  BY <1>1 DEF NoTrouble
<1> QED
  BY <1>2, <1>3, <1>4, <1>5, <1>6, <1>7 DEF StatsOK

\* The invariant of the tables, the sweeps and the request under way.
THEOREM StatsInvariance == Spec => []StatsOK
<1>1. StatsOK /\ [Next]_vars => StatsOK'
  BY StatsTypesStep, OnChainStep, RecordingStep, AnswersStep, OfTheDayStep, ProposedStep,
     NoTroubleStep DEF StatsOK
<1> QED
  BY StatsInit, <1>1, PTL DEF Spec

\* The totals of governance are torn by no more than what was recorded while they were
\* computed (GovernanceService.totals against the sweeps of the aggregator).
THEOREM TotalsTornOnlyByWrites == Spec => []TornOnlyByWrites
<1>1. StatsOK => TornOnlyByWrites
  BY AnswersConsistent DEF StatsOK
<1> QED
  BY <1>1, StatsInvariance, PTL

\* Leaderboards and pages agree (the leaderboards of TvlService, TokensService and
\* GovernanceService against the totals of a DAO).
THEOREM LeaderboardsAgreeWithPages == Spec => []LeaderboardsMatchPages
BY LeaderboardsAgree, PTL

-----------------------------------------------------------------------------
(* Days and the points of a chart                                          *)

\* A moment by its day and its time of day.
LEMMA DayFacts ==
    ASSUME NEW t \in Nat
    PROVE  /\ Day(t) \in Nat /\ t % DayLength \in Nat /\ t % DayLength < DayLength
           /\ Day(t) * DayLength \in Nat /\ t = Day(t) * DayLength + (t % DayLength)
<1>1. /\ t \div DayLength \in Nat /\ t % DayLength \in Nat /\ t % DayLength < DayLength
      /\ (t \div DayLength) * DayLength \in Nat
      /\ t = (t \div DayLength) * DayLength + (t % DayLength)
  <2>1. DayLength \in Nat /\ DayLength > 0
    BY MetricDaysAssumption
  <2> QED
    BY <2>1, Division, Zenon
<1> QED
  BY <1>1, Zenon DEF Day

\* A later day begins after the end of an earlier one.
LEMMA DayStarts ==
    ASSUME NEW a \in Nat, NEW b \in Nat
    PROVE  /\ DayLength \in Nat /\ DayLength > 0 /\ a * DayLength \in Nat /\ b * DayLength \in Nat
           /\ a < b => a * DayLength + DayLength <= b * DayLength
           /\ a <= b => a * DayLength <= b * DayLength
<1>1. DayLength \in Nat /\ DayLength > 0
  BY MetricDaysAssumption
<1> QED
  BY <1>1, MultiplesInOrder

\* The day and the time of day of a moment are unique.
LEMMA DayOf ==
    ASSUME NEW day \in Nat, NEW r \in Nat, r < DayLength
    PROVE  Day(day * DayLength + r) = day /\ (day * DayLength + r) % DayLength = r
<1>1. DayLength \in Nat /\ DayLength > 0
  BY MetricDaysAssumption
<1> QED
  BY <1>1, QuotientOf DEF Day

\* The first and the last moment of a day.
LEMMA DayBounds ==
    ASSUME NEW day \in Nat
    PROVE  /\ StartOf(day) \in Nat /\ EndOf(day) \in Nat
           /\ Day(StartOf(day)) = day /\ Day(EndOf(day)) = day
           /\ StartOf(day) % DayLength = 0
<1>1. DayLength \in Nat /\ DayLength > 0 /\ day * DayLength \in Nat /\ DayLength - 1 \in Nat
  BY DayStarts
<1>2. Day(day * DayLength + 0) = day /\ (day * DayLength + 0) % DayLength = 0
  <2>1. 0 \in Nat /\ 0 < DayLength
    BY <1>1
  <2> QED
    BY <2>1, DayOf
<1>3. Day(day * DayLength + (DayLength - 1)) = day
  <2>1. DayLength - 1 < DayLength
    BY <1>1
  <2> QED
    BY <1>1, <2>1, DayOf
<1>4. /\ StartOf(day) = day * DayLength + 0 /\ EndOf(day) = day * DayLength + (DayLength - 1)
      /\ StartOf(day) \in Nat /\ EndOf(day) \in Nat
  BY <1>1 DEF StartOf, EndOf
<1> QED
  BY <1>2, <1>3, <1>4

\* Days follow the order of their moments.
LEMMA DayOrder ==
    ASSUME NEW a \in Nat, NEW b \in Nat
    PROVE  /\ a <= b => Day(a) <= Day(b)
           /\ Day(a) = Day(b) /\ a <= b => a % DayLength <= b % DayLength
           /\ Day(a) = Day(b) /\ a < b => a % DayLength < b % DayLength
           /\ Day(a) <= Day(b) => StartOf(Day(a)) <= b
<1>1. DayLength \in Nat /\ DayLength > 0
  BY MetricDaysAssumption
<1> QED
  BY <1>1, QuotientOrder DEF Day, StartOf

\* The steps of a day from one moment to another.
LEMMA StepsOfDays ==
    ASSUME NEW from \in Nat, NEW to \in Nat, Day(from) <= Day(to)
    PROVE  LET n == Day(to) - Day(from) + (IF from % DayLength > to % DayLength THEN 0 ELSE 1)
           IN  /\ n \in Nat /\ n <= Day(to) - Day(from) + 1
               /\ (IF to < from THEN 0 ELSE (to - from) \div DayLength + 1) = n
<1>1. DayLength \in Nat /\ DayLength > 0 /\ from \div DayLength <= to \div DayLength
  BY MetricDaysAssumption DEF Day
<1> DEFINE n == to \div DayLength - from \div DayLength
                  + (IF from % DayLength > to % DayLength THEN 0 ELSE 1)
<1>2. n = to \div DayLength - from \div DayLength
            + (IF from % DayLength > to % DayLength THEN 0 ELSE 1)
  OBVIOUS
<1> HIDE DEF n
<1>3. /\ n \in Nat /\ n <= to \div DayLength - from \div DayLength + 1
      /\ (IF to < from THEN 0 ELSE (to - from) \div DayLength + 1) = n
  BY <1>1, <1>2, StepsUpTo
<1> QED
  BY <1>3 DEF Day, n

\* A finite set of numbers in its order.
LEMMA OrderedDays ==
    ASSUME NEW S \in SUBSET Int, IsFiniteSet(S)
    PROVE  LET s == InOrder(S)
           IN  /\ DOMAIN s = 1 .. Len(s) /\ Len(s) \in Nat /\ s \in Seq(S)
               /\ \A i \in DOMAIN s : s[i] \in S
               /\ \A i, j \in DOMAIN s : i < j => s[i] < s[j]
               /\ \A x \in S : \E i \in DOMAIN s : s[i] = x
<1> DEFINE s == InOrder(S)
<1>1. s \in SetToSeqs(S) /\ \A i, j \in DOMAIN s : i < j => s[i] < s[j]
  <2>1. \E u \in SetToSeqs(S) : \A i, j \in DOMAIN u : i < j => u[i] < u[j]
    BY OrderExists
  <2> QED
    BY <2>1 DEF InOrder
<1> HIDE DEF s
<1>2. /\ s \in Seq(S) /\ DOMAIN s = 1 .. Len(s) /\ Len(s) \in Nat
      /\ \A i \in DOMAIN s : s[i] \in S
      /\ \A x \in S : \E i \in DOMAIN s : s[i] = x
  BY <1>1, SequenceOfSet
<1> QED
  BY <1>1, <1>2 DEF s

\* The metrics of some days.
MetricsOf(S, v) ==
    [i \in DOMAIN InOrder(S) |-> [timestamp |-> StartOf(InOrder(S)[i]), count |-> v[InOrder(S)[i]]]]

\* The latest of some days up to one.
LatestOf(S, D) == Greatest({d \in S : d <= D})

\* There is a latest of some days up to one, if one of them is.
LEMMA LatestFacts ==
    ASSUME NEW S \in SUBSET Nat, IsFiniteSet(S), NEW low \in S, NEW D \in Nat, low <= D
    PROVE  /\ LatestOf(S, D) \in S /\ LatestOf(S, D) <= D
           /\ \A d \in S : d <= D => d <= LatestOf(S, D)
<1> DEFINE G == {d \in S : d <= D}
<1>1. G \subseteq S /\ low \in G
  OBVIOUS
<1>2. \A d \in G : d <= D
  OBVIOUS
<1>3. \A d \in S : d <= D => d \in G
  OBVIOUS
<1> HIDE DEF G
<1>4. IsFiniteSet(G) /\ G \in SUBSET Int /\ G # {}
  <2>1. IsFiniteSet(G)
    BY <1>1, FS_Subset
  <2> QED
    BY <1>1, <2>1
<1>5. \E x \in G : \A y \in G : y <= x
  BY <1>4, Extremes
<1>6. Greatest(G) \in G /\ \A d \in G : d <= Greatest(G)
  BY <1>5 DEF Greatest
<1>7. LatestOf(S, D) = Greatest(G)
  BY DEF LatestOf, G
<1> QED
  BY <1>1, <1>2, <1>3, <1>6, <1>7

\* A day of a chart of totals has the value of the latest day up to it.
LEMMA PatchedDay ==
    ASSUME NEW S \in SUBSET Nat, IsFiniteSet(S), NEW v, NEW low \in S, NEW D \in Nat, low <= D,
           NEW day, day.end = EndOf(D)
    PROVE  /\ LatestOf(S, D) \in S /\ LatestOf(S, D) <= D
           /\ \A d \in S : d <= D => d <= LatestOf(S, D)
           /\ Patched(MetricsOf(S, v), day, "Total").timestamp = EndOf(D)
           /\ Patched(MetricsOf(S, v), day, "Total").count = v[LatestOf(S, D)]
<1> DEFINE s == InOrder(S)
           metrics == MetricsOf(S, v)
           n == Len(s)
           G == {d \in S : d <= D}
<1>1. /\ DOMAIN s = 1 .. n /\ n \in Nat /\ \A i \in DOMAIN s : s[i] \in S /\ s[i] \in Nat
      /\ \A i, j \in DOMAIN s : i < j => s[i] < s[j]
      /\ \A x \in S : \E i \in DOMAIN s : s[i] = x
  <2>1. S \in SUBSET Int
    OBVIOUS
  <2> QED
    BY <2>1, OrderedDays
<1>2. /\ DOMAIN metrics = 1 .. n
      /\ \A i \in 1 .. n : metrics[i] = [timestamp |-> StartOf(s[i]), count |-> v[s[i]]]
  BY <1>1 DEF MetricsOf
<1>3. Len(metrics) = n
  <2>1. metrics = [i \in 1 .. n |-> metrics[i]]
    BY <1>1 DEF MetricsOf
  <2> HIDE DEF metrics, s
  <2> QED
    BY <1>1, <2>1, LengthOf
<1> HIDE DEF s, metrics
<1>4. \A i \in 1 .. n : /\ Day(metrics[i].timestamp) = s[i] /\ metrics[i].count = v[s[i]]
  <2> SUFFICES ASSUME NEW i \in 1 .. n
               PROVE  /\ Day(metrics[i].timestamp) = s[i] /\ metrics[i].count = v[s[i]]
    OBVIOUS
  <2>1. metrics[i].timestamp = StartOf(s[i]) /\ metrics[i].count = v[s[i]] /\ s[i] \in Nat
    BY <1>1, <1>2
  <2> QED
    BY <2>1, DayBounds
<1>5. Day(day.end) = D
  BY DayBounds
<1> DEFINE I == {i \in 1 .. n : s[i] = D}
           J == {i \in 1 .. n : s[i] < D}
           same == SelectInSeq(metrics, LAMBDA m : Day(m.timestamp) = Day(day.end))
           before == SelectLastInSeq(metrics, LAMBDA m : Day(m.timestamp) < Day(day.end))
<1>6. same = IF I # {} THEN Min(I) ELSE 0
  <2>1. {i \in 1 .. Len(metrics) : Day(metrics[i].timestamp) = Day(day.end)} = I
    BY <1>3, <1>4, <1>5
  <2> QED
    BY <2>1 DEF SelectInSeq
<1>7. before = IF J # {} THEN Max(J) ELSE 0
  <2>1. {i \in 1 .. Len(metrics) : Day(metrics[i].timestamp) < Day(day.end)} = J
    BY <1>3, <1>4, <1>5
  <2> QED
    BY <2>1 DEF SelectLastInSeq
<1>8. /\ Patched(metrics, day, "Total").timestamp = EndOf(D)
      /\ same # 0 => Patched(metrics, day, "Total").count = metrics[same].count
      /\ (same = 0 /\ before # 0) => Patched(metrics, day, "Total").count = metrics[before].count
  BY DEF Patched
<1> HIDE DEF same, before
<1>9. IsFiniteSet(1 .. n) /\ 1 .. n \in SUBSET Int
  BY <1>1, FS_Interval
<1>10. /\ I # {} => Min(I) \in I
       /\ J # {} => Max(J) \in J /\ \A i \in J : i <= Max(J)
  <2>1. I \in SUBSET Int /\ J \in SUBSET Int /\ IsFiniteSet(I) /\ IsFiniteSet(J)
    BY <1>9, FS_Subset
  <2> HIDE DEF I, J
  <2>2. I # {} => \E x \in I : \A y \in I : x <= y
    BY <2>1, Extremes
  <2>3. J # {} => \E x \in J : \A y \in J : y <= x
    BY <2>1, Extremes
  <2> QED
    BY <2>2, <2>3 DEF Min, Max
<1>11. /\ Greatest(G) \in G /\ \A d \in G : d <= Greatest(G)
       /\ LatestOf(S, D) = Greatest(G) /\ LatestOf(S, D) \in S /\ LatestOf(S, D) <= D
       /\ \A d \in S : d <= D => d <= LatestOf(S, D)
  <2>1. /\ LatestOf(S, D) \in S /\ LatestOf(S, D) <= D
        /\ \A d \in S : d <= D => d <= LatestOf(S, D)
    BY LatestFacts
  <2>2. LatestOf(S, D) = Greatest(G)
    BY DEF LatestOf
  <2> QED
    BY <2>1, <2>2
<1>12. CASE I # {}
  <2>1. Min(I) \in 1 .. n /\ s[Min(I)] = D /\ D \in S
    BY <1>1, <1>10, <1>12
  <2>2. Greatest(G) = D
    <3>1. D \in G /\ \A d \in G : d <= D /\ d \in Nat
      BY <2>1
    <3> HIDE DEF G
    <3>2. Greatest(G) \in Nat /\ Greatest(G) <= D /\ D <= Greatest(G)
      BY <1>11, <3>1
    <3> QED
      BY <3>2
  <2>3. same = Min(I) /\ same # 0
    BY <1>6, <1>12, <2>1
  <2> QED
    BY <1>4, <1>8, <1>11, <2>1, <2>2, <2>3 DEF metrics
<1>13. CASE I = {}
  <2>1. D \notin S
    BY <1>1, <1>13
  <2>2. J # {}
    <3>1. PICK i \in 1 .. n : s[i] = low
      BY <1>1
    <3>2. low < D
      BY <2>1
    <3> QED
      BY <3>1, <3>2
  <2> DEFINE k == Max(J)
  <2>3. k \in 1 .. n /\ s[k] < D /\ \A i \in J : i <= k
    BY <1>10, <2>2
  <2> HIDE DEF k
  <2>4. s[k] \in G
    BY <1>1, <2>3
  <2>5. \A d \in G : d <= s[k]
    <3> SUFFICES ASSUME NEW d \in G PROVE d <= s[k]
      OBVIOUS
    <3>1. PICK i \in 1 .. n : s[i] = d
      BY <1>1
    <3>2. d < D /\ i \in J
      BY <2>1, <3>1
    <3>3. i <= k
      BY <2>3, <3>2
    <3>4. i < k => s[i] < s[k]
      BY <1>1, <2>3
    <3> QED
      BY <1>1, <2>3, <3>1, <3>3, <3>4
  <2>6. Greatest(G) = s[k]
    <3>1. Greatest(G) \in Nat /\ s[k] \in Nat /\ Greatest(G) <= s[k] /\ s[k] <= Greatest(G)
      BY <1>11, <2>4, <2>5
    <3> QED
      BY <3>1
  <2>7. same = 0 /\ before = k /\ before # 0
    BY <1>6, <1>7, <1>13, <2>2, <2>3 DEF k
  <2> QED
    BY <1>4, <1>8, <1>11, <2>3, <2>6, <2>7 DEF metrics
<1> QED
  BY <1>12, <1>13

\* Where a chart begins, and how many points it has.
FirstPoint(S, q) == Later(StartOf(Least(S)), q.from)
PointsOf(q, first) ==
    Day(q.to) - Day(first) + (IF first % DayLength > q.to % DayLength THEN 0 ELSE 1)

\* The chart of the totals of some days, from the first of them or of the query on.
LEMMA PatchFacts ==
    ASSUME NEW S \in SUBSET Nat, IsFiniteSet(S), S # {}, NEW v, NEW q,
           q.from \in Nat, q.to \in Nat, \A d \in S : Day(q.from) <= d /\ d <= Day(q.to)
    PROVE  LET points == patchMetricDays(q, MetricsOf(S, v), "Total")
               first == FirstPoint(S, q)
           IN  /\ Least(S) \in S /\ Day(first) = Least(S)
               /\ PointsOf(q, first) \in Nat
               /\ DOMAIN points = 1 .. PointsOf(q, first) /\ Len(points) = PointsOf(q, first)
               /\ \A i \in 1 .. PointsOf(q, first) :
                     /\ Day(first) + i - 1 \in Nat /\ Day(first) + i - 1 <= Day(q.to)
                     /\ points[i].timestamp = EndOf(Day(first) + i - 1)
                     /\ LatestOf(S, Day(first) + i - 1) \in S
                     /\ LatestOf(S, Day(first) + i - 1) <= Day(first) + i - 1
                     /\ points[i].count = v[LatestOf(S, Day(first) + i - 1)]
<1> DEFINE low == Least(S)
           first == FirstPoint(S, q)
           n == PointsOf(q, first)
           metrics == MetricsOf(S, v)
           points == patchMetricDays(q, metrics, "Total")
           s == InOrder(S)
<1>1. S \in SUBSET Int
  OBVIOUS
<1>2. low \in S /\ \A y \in S : low <= y
  <2>1. \E x \in S : \A y \in S : x <= y
    BY <1>1, Extremes
  <2> QED
    BY <2>1 DEF Least
<1>3. /\ DOMAIN s = 1 .. Len(s) /\ Len(s) \in Nat /\ \A i \in DOMAIN s : s[i] \in S
      /\ \A i, j \in DOMAIN s : i < j => s[i] < s[j]
      /\ \A x \in S : \E i \in DOMAIN s : s[i] = x
  BY <1>1, OrderedDays
<1>4. /\ metrics # <<>> /\ metrics[1].timestamp = StartOf(low)
  <2> HIDE DEF low
  <2>1. PICK j \in DOMAIN s : s[j] = low
    BY <1>2, <1>3
  <2>2. 1 \in DOMAIN s /\ s[1] \in S /\ (1 < j => s[1] < s[j])
    BY <1>3, <2>1
  <2>3. s[1] = low
    <3>1. s[1] \in Nat /\ low \in Nat /\ low <= s[1]
      BY <1>2, <2>2
    <3>2. j = 1 \/ 1 < j
      BY <1>3, <2>1
    <3> QED
      BY <2>1, <2>2, <3>1, <3>2
  <2>4. DOMAIN metrics = DOMAIN s /\ metrics[1].timestamp = StartOf(s[1])
    BY <2>2 DEF MetricsOf
  <2> QED
    BY <2>2, <2>3, <2>4
<1> HIDE DEF low, s, metrics
<1>5. low \in Nat /\ StartOf(low) \in Nat /\ Day(StartOf(low)) = low /\ Day(q.from) <= low /\ low <= Day(q.to)
  BY <1>2, DayBounds
<1>6. first \in Nat /\ Day(first) = low
  <2> USE DEF FirstPoint, low
  <2>1. CASE StartOf(low) > q.from
    BY <1>5, <2>1 DEF Later
  <2>2. CASE ~ (StartOf(low) > q.from)
    <3>1. first = q.from /\ StartOf(low) <= q.from
      BY <1>5, <2>2 DEF Later
    <3>2. Day(StartOf(low)) <= Day(q.from) /\ Day(q.from) \in Nat
      BY <1>5, <3>1, DayOrder, DayFacts
    <3> QED
      BY <1>5, <3>1, <3>2
  <2> QED
    BY <2>1, <2>2
<1> HIDE DEF first
<1>7. Day(first) <= Day(q.to) /\ Day(q.to) \in Nat
  BY <1>5, <1>6, DayFacts
<1>8. /\ n \in Nat /\ n <= Day(q.to) - Day(first) + 1
      /\ (IF q.to < first THEN 0 ELSE (q.to - first) \div DayLength + 1) = n
  BY <1>6, <1>7, StepsOfDays DEF PointsOf
<1> HIDE DEF n
<1> DEFINE days == getDailyIntervals(first, q.to)
<1>9. /\ DOMAIN days = 1 .. n
      /\ \A i \in 1 .. n : days[i].end = EndOf(Day(first) + i - 1)
  BY <1>8 DEF getDailyIntervals
<1>10. points = [i \in DOMAIN days |-> Patched(metrics, days[i], "Total")]
  BY <1>4 DEF patchMetricDays, first, low, FirstPoint
<1> HIDE DEF days, points
<1>11. DOMAIN points = 1 .. n /\ Len(points) = n
  <2>1. DOMAIN points = 1 .. n /\ points = [i \in 1 .. n |-> points[i]]
    BY <1>9, <1>10
  <2>2. points \in Seq({points[i] : i \in 1 .. n})
    BY <1>8, <2>1
  <2> QED
    BY <1>8, <2>1, <2>2
<1>12. ASSUME NEW i \in 1 .. n
       PROVE  LET D == Day(first) + i - 1
              IN  /\ D \in Nat /\ D <= Day(q.to)
                  /\ points[i].timestamp = EndOf(D)
                  /\ LatestOf(S, D) \in S /\ LatestOf(S, D) <= D
                  /\ points[i].count = v[LatestOf(S, D)]
  <2> DEFINE D == Day(first) + i - 1
  <2>1. D \in Nat /\ D <= Day(q.to) /\ low <= D
    BY <1>5, <1>6, <1>7, <1>8
  <2>2. points[i] = Patched(metrics, days[i], "Total") /\ days[i].end = EndOf(D)
    BY <1>9, <1>10
  <2> HIDE DEF D
  <2>3. /\ LatestOf(S, D) \in S /\ LatestOf(S, D) <= D
        /\ Patched(metrics, days[i], "Total").timestamp = EndOf(D)
        /\ Patched(metrics, days[i], "Total").count = v[LatestOf(S, D)]
    <3>1. low \in S /\ D \in Nat /\ low <= D /\ days[i].end = EndOf(D)
      BY <1>2, <2>1, <2>2
    <3>2. ASSUME NEW day, day.end = EndOf(D)
          PROVE  /\ LatestOf(S, D) \in S /\ LatestOf(S, D) <= D
                 /\ Patched(MetricsOf(S, v), day, "Total").timestamp = EndOf(D)
                 /\ Patched(MetricsOf(S, v), day, "Total").count = v[LatestOf(S, D)]
      BY <3>1, <3>2, PatchedDay
    <3>3. /\ LatestOf(S, D) \in S /\ LatestOf(S, D) <= D
          /\ Patched(MetricsOf(S, v), days[i], "Total").timestamp = EndOf(D)
          /\ Patched(MetricsOf(S, v), days[i], "Total").count = v[LatestOf(S, D)]
      BY <3>1, <3>2, Zenon
    <3> QED
      BY <3>3 DEF metrics
  <2> QED
    BY <2>1, <2>2, <2>3 DEF D
<1> QED
  BY <1>2, <1>6, <1>8, <1>11, <1>12 DEF low, first, n, points, metrics

-----------------------------------------------------------------------------
(* Charts                                                                  *)

\* What a history has for a day.
OnDay(ctx, ms, daoAverage, day) == SumOf(history[day], Rows(history[day], ctx, ms), daoAverage)

\* The days of a history, in their order.
LEMMA HistoryDays ==
    ASSUME NEW ctx, NEW ms, NEW days
    PROVE  LET S == DaysWithRows(ctx, ms, days)
               s == InOrder(S)
           IN  /\ S \in SUBSET Nat /\ S \subseteq Days /\ IsFiniteSet(S)
               /\ DOMAIN s = 1 .. Len(s) /\ Len(s) \in Nat
               /\ \A i \in DOMAIN s : s[i] \in S
               /\ \A i, j \in DOMAIN s : i < j => s[i] < s[j]
               /\ \A x \in S : \E i \in DOMAIN s : s[i] = x
<1> DEFINE S == DaysWithRows(ctx, ms, days)
           s == InOrder(S)
<1>1. IsFiniteSet(Days) /\ Days \in SUBSET Int /\ Days \in SUBSET Nat
  BY ConstantsAssumption, FS_Interval DEF Days
<1>2. S \subseteq Days
  BY DEF DaysWithRows
<1>3. S \in SUBSET Int /\ S \in SUBSET Nat /\ IsFiniteSet(S)
  <2> HIDE DEF S
  <2> QED
    BY <1>1, <1>2, FS_Subset
<1> HIDE DEF S
<1>5. /\ DOMAIN s = 1 .. Len(s) /\ Len(s) \in Nat
      /\ \A i \in DOMAIN s : s[i] \in S
      /\ \A i, j \in DOMAIN s : i < j => s[i] < s[j]
      /\ \A x \in S : \E i \in DOMAIN s : s[i] = x
  BY <1>3, OrderedDays
<1> QED
  BY <1>2, <1>3, <1>5 DEF S, s

\* A history in its order of days.
LEMMA HistoryFacts ==
    ASSUME NEW ctx, NEW ms, NEW daoAverage, NEW days
    PROVE  LET s == InOrder(DaysWithRows(ctx, ms, days))
               rows == GetHistory(ctx, ms, daoAverage, days)
           IN  /\ Len(rows) = Len(s) /\ DOMAIN rows = DOMAIN s
               /\ \A i \in DOMAIN s : /\ rows[i].date = s[i]
                                      /\ rows[i].value = OnDay(ctx, ms, daoAverage, s[i])
<1> DEFINE s == InOrder(DaysWithRows(ctx, ms, days))
           rows == GetHistory(ctx, ms, daoAverage, days)
<1>4. rows = [i \in DOMAIN s |-> [date |-> s[i], value |-> OnDay(ctx, ms, daoAverage, s[i])]]
  BY DEF GetHistory, OnDay
<1>5. DOMAIN s = 1 .. Len(s) /\ Len(s) \in Nat
  BY HistoryDays
<1> HIDE DEF s, rows
<1>6. rows = [i \in 1 .. Len(s) |-> rows[i]]
  BY <1>4, <1>5
<1>7. Len(rows) = Len(s) /\ DOMAIN rows = DOMAIN s
  BY <1>5, <1>6, LengthOf
<1>8. \A i \in DOMAIN s : rows[i].date = s[i] /\ rows[i].value = OnDay(ctx, ms, daoAverage, s[i])
  BY <1>4
<1> QED
  BY <1>7, <1>8 DEF s, rows

\* A history as metrics.
LEMMA HistoryMetrics ==
    ASSUME NEW ctx, NEW ms, NEW daoAverage, NEW days
    PROVE  LET S == DaysWithRows(ctx, ms, days)
               v == [day \in Days |-> OnDay(ctx, ms, daoAverage, day)]
           IN  ToMetrics(GetHistory(ctx, ms, daoAverage, days)) = MetricsOf(S, v)
<1> DEFINE S == DaysWithRows(ctx, ms, days)
           s == InOrder(S)
           rows == GetHistory(ctx, ms, daoAverage, days)
           v == [day \in Days |-> OnDay(ctx, ms, daoAverage, day)]
<1>1. /\ S \subseteq Days /\ \A i \in DOMAIN s : s[i] \in S
      /\ DOMAIN rows = DOMAIN s
      /\ \A i \in DOMAIN s : rows[i].date = s[i] /\ rows[i].value = OnDay(ctx, ms, daoAverage, s[i])
  <2>1. S \subseteq Days
    BY DEF DaysWithRows
  <2>2. \A i \in DOMAIN s : s[i] \in S
    BY HistoryDays
  <2>3. DOMAIN rows = DOMAIN s
    BY HistoryFacts
  <2>4. \A i \in DOMAIN s : rows[i].date = s[i] /\ rows[i].value = OnDay(ctx, ms, daoAverage, s[i])
    BY HistoryFacts
  <2> QED
    BY <2>1, <2>2, <2>3, <2>4
<1> HIDE DEF rows
<1>2. \A i \in DOMAIN s : v[s[i]] = rows[i].value
  <2> HIDE DEF s, S
  <2> QED
    BY <1>1
<1> HIDE DEF v
<1>3. ToMetrics(rows) = [i \in DOMAIN s |-> [timestamp |-> StartOf(s[i]), count |-> v[s[i]]]]
  <2> HIDE DEF s, S
  <2> QED
    BY <1>1, <1>2 DEF ToMetrics
<1> QED
  BY <1>3 DEF MetricsOf, rows, v

\* No days have no metrics.
LEMMA NoMetrics == \A v : MetricsOf({}, v) = <<>>
<1>1. {} \in SUBSET Int /\ IsFiniteSet({})
  BY FS_EmptySet
<1>2. \A i \in DOMAIN InOrder({}) : InOrder({})[i] \in {}
  BY <1>1, OrderedDays
<1>3. DOMAIN InOrder({}) = {}
  BY <1>2
<1> QED
  BY <1>3 DEF MetricsOf

\* The queries that MetricQueryPipe makes.
LEMMA QueryFacts ==
    ASSUME today \in Days, NEW q \in Queries
    PROVE  q.from \in Nat /\ q.to \in Nat
<1>1. today \in Nat /\ StartOf(today) \in Nat /\ EndOf(today) \in Nat
  <2>1. today \in Nat
    BY DEF Days
  <2> QED
    BY <2>1, DayBounds
<1>2. PICK from \in {Absent} \cup 0 .. EndOf(today), to \in {Absent, StartOf(today)} :
         q = metricQuery(from, to, Absent, 0, 0, EndOf(today))
  BY DEF Queries
<1>3. /\ q.from = IF from # Absent THEN from ELSE IF 0 # Absent THEN 0 ELSE 0
      /\ q.to = IF to = Absent THEN EndOf(today) ELSE to
  BY <1>2 DEF metricQuery
<1>4. q.from \in Nat
  BY <1>1, <1>2, <1>3
<1>5. q.to \in Nat
  BY <1>1, <1>2, <1>3
<1> QED
  BY <1>4, <1>5

\* The days of a query.
LEMMA DaysOfQuery ==
    ASSUME NEW q, q.from \in Nat, q.to \in Nat, NEW ctx, NEW ms
    PROVE  \A d \in DaysWithRows(ctx, ms, DaysOf(q)) : Day(q.from) <= d /\ d <= Day(q.to)
BY DEF DaysWithRows, DaysOf, Since, UpTo

\* The points of a chart carry the latest value on.
LEMMA ChartsFromHistory == today \in Days => ChartsCarryOn
<1> SUFFICES ASSUME today \in Days, NEW ctx \in Daos \cup {NoDao}, NEW q \in Queries,
                    NEW ms \in AllCharts
             PROVE  LET daoAverage == ms = {"PROPOSALS"}
                        points == metricHistory(ctx, q, ms, daoAverage)
                        days == DaysWithRows(ctx, ms, DaysOf(q))
                        first == Later(StartOf(Least(days)), q.from)
                    IN  IF days = {} THEN points = <<>>
                        ELSE /\ Len(points) = Day(q.to) - Day(first)
                                    + (IF first % DayLength > q.to % DayLength THEN 0 ELSE 1)
                             /\ \A i \in DOMAIN points :
                                   LET day == Day(first) + i - 1
                                       row == Greatest({d \in days : d <= day})
                                   IN  /\ Day(points[i].timestamp) = day
                                       /\ points[i].count = SumOf(history[row],
                                                 Rows(history[row], ctx, ms), daoAverage)
  BY DEF ChartsCarryOn
<1> DEFINE avg == ms = {"PROPOSALS"}
           S == DaysWithRows(ctx, ms, DaysOf(q))
           v == [day \in Days |-> OnDay(ctx, ms, avg, day)]
           points == metricHistory(ctx, q, ms, avg)
           first == FirstPoint(S, q)
<1>3. points = patchMetricDays(q, MetricsOf(S, v), "Total")
  BY HistoryMetrics DEF metricHistory
<1>4. q.from \in Nat /\ q.to \in Nat /\ \A d \in S : Day(q.from) <= d /\ d <= Day(q.to)
  BY QueryFacts, DaysOfQuery
<1>5. S \in SUBSET Nat /\ S \subseteq Days /\ IsFiniteSet(S)
  BY HistoryDays
<1>6. \A d \in Days : v[d] = SumOf(history[d], Rows(history[d], ctx, ms), avg)
  BY DEF OnDay
<1> HIDE DEF S, v, points, avg
<1>7. CASE S = {}
  <2>1. points = <<>>
    BY <1>3, <1>7, NoMetrics DEF patchMetricDays
  <2> QED
    BY <1>7, <2>1 DEF S, points, avg
<1>8. CASE S # {}
  <2> DEFINE n == PointsOf(q, first)
  <2>1. /\ n \in Nat /\ DOMAIN points = 1 .. n /\ Len(points) = n
        /\ \A i \in 1 .. n :
              /\ Day(first) + i - 1 \in Nat
              /\ points[i].timestamp = EndOf(Day(first) + i - 1)
              /\ LatestOf(S, Day(first) + i - 1) \in S
              /\ points[i].count = v[LatestOf(S, Day(first) + i - 1)]
    <3>1. S \in SUBSET Nat /\ IsFiniteSet(S) /\ S # {}
      BY <1>5, <1>8
    <3>2. q.from \in Nat /\ q.to \in Nat /\ \A d \in S : Day(q.from) <= d /\ d <= Day(q.to)
      BY <1>4
    <3>3. n \in Nat /\ DOMAIN points = 1 .. n /\ Len(points) = n
      BY <1>3, <3>1, <3>2, PatchFacts
    <3>4. \A i \in 1 .. n :
              /\ Day(first) + i - 1 \in Nat
              /\ points[i].timestamp = EndOf(Day(first) + i - 1)
      BY <1>3, <3>1, <3>2, PatchFacts
    <3>5. \A i \in 1 .. n :
              /\ LatestOf(S, Day(first) + i - 1) \in S
              /\ points[i].count = v[LatestOf(S, Day(first) + i - 1)]
      BY <1>3, <3>1, <3>2, PatchFacts
    <3> QED
      BY <3>3, <3>4, <3>5
  <2> HIDE DEF n
  <2>2. ASSUME NEW i \in DOMAIN points
        PROVE  LET day == Day(first) + i - 1
                   row == Greatest({d \in S : d <= day})
               IN  /\ Day(points[i].timestamp) = day
                   /\ points[i].count = SumOf(history[row], Rows(history[row], ctx, ms), avg)
    <3> DEFINE day == Day(first) + i - 1
               row == Greatest({d \in S : d <= day})
    <3>1. /\ day \in Nat /\ points[i].timestamp = EndOf(day)
          /\ LatestOf(S, day) \in S /\ points[i].count = v[LatestOf(S, day)]
      BY <2>1
    <3>2. LatestOf(S, day) = row
      BY DEF LatestOf
    <3> HIDE DEF day, row
    <3>3. Day(points[i].timestamp) = day
      BY <3>1, DayBounds
    <3>4. row \in Days
      BY <1>5, <3>1, <3>2
    <3>5. points[i].count = SumOf(history[row], Rows(history[row], ctx, ms), avg)
      BY <1>6, <3>1, <3>2, <3>4
    <3> QED
      BY <3>3, <3>5 DEF day, row
  <2>3. Len(points) = n
    BY <2>1
  <2>4. /\ Later(StartOf(Least(S)), q.from) = first
        /\ Len(points) = Day(q.to) - Day(first)
                 + (IF first % DayLength > q.to % DayLength THEN 0 ELSE 1)
    BY <2>3 DEF n, PointsOf, FirstPoint
  <2> HIDE DEF first
  <2>5. \A i \in DOMAIN points :
          LET day == Day(first) + i - 1
              row == Greatest({d \in S : d <= day})
          IN  /\ Day(points[i].timestamp) = day
              /\ points[i].count = SumOf(history[row], Rows(history[row], ctx, ms), avg)
    BY <2>2, Zenon
  <2> QED
    BY <1>8, <2>4, <2>5, Zenon DEF S, points, avg
<1> QED
  BY <1>7, <1>8

\* A chart has a point for each day from its first one, with the value of the latest day
\* up to it (MetricService.history and patchMetricDays).
THEOREM ChartsCarryTotalsOn == Spec => []ChartsCarryOn
<1>1. StatsOK => ChartsCarryOn
  BY ChartsFromHistory DEF StatsOK, StatsTypes
<1> QED
  BY <1>1, StatsInvariance, PTL

\* The value of a day in a history.
LEMMA ValueOnFacts ==
    ASSUME NEW ctx, NEW ms, NEW daoAverage, NEW days, NEW D
    PROVE  ValueOn(GetHistory(ctx, ms, daoAverage, days), D)
              = IF D \in DaysWithRows(ctx, ms, days) THEN OnDay(ctx, ms, daoAverage, D) ELSE 0
<1> DEFINE S == DaysWithRows(ctx, ms, days)
           s == InOrder(S)
           rows == GetHistory(ctx, ms, daoAverage, days)
           n == Len(s)
           I == {i \in 1 .. n : rows[i].date = D}
           found == SelectInSeq(rows, LAMBDA row : row.date = D)
<1>1. DOMAIN s = 1 .. n /\ n \in Nat
  BY HistoryDays
<1>2. /\ \A i \in DOMAIN s : s[i] \in S
      /\ \A x \in S : \E i \in DOMAIN s : s[i] = x
  <2>1. \A i \in DOMAIN s : s[i] \in S
    BY HistoryDays
  <2>2. \A x \in S : \E i \in DOMAIN s : s[i] = x
    BY HistoryDays
  <2> QED
    BY <2>1, <2>2
<1>3. Len(rows) = n
  BY HistoryFacts
<1>4. \A i \in DOMAIN s : rows[i].date = s[i] /\ rows[i].value = OnDay(ctx, ms, daoAverage, s[i])
  BY HistoryFacts
<1> HIDE DEF S, s, rows, n
<1>5. found = IF I # {} THEN Min(I) ELSE 0
  <2>1. {i \in 1 .. Len(rows) : rows[i].date = D} = I
    BY <1>3
  <2> QED
    BY <2>1 DEF SelectInSeq
<1>6. I # {} => Min(I) \in I
  <2>1. IsFiniteSet(1 .. n) /\ I \subseteq 1 .. n
    BY <1>1, FS_Interval
  <2> HIDE DEF I
  <2>2. IsFiniteSet(I) /\ I \in SUBSET Int
    <3>1. IsFiniteSet(I)
      BY <2>1, FS_Subset
    <3>2. 1 .. n \in SUBSET Int
      BY <1>1
    <3> QED
      BY <2>1, <3>1, <3>2
  <2>3. I # {} => \E x \in I : \A y \in I : x <= y
    BY <2>2, Extremes
  <2> QED
    BY <2>3 DEF Min
<1>7. ValueOn(rows, D) = IF found = 0 THEN 0 ELSE rows[found].value
  BY DEF ValueOn
<1> HIDE DEF found
<1>8. CASE D \in S
  <2>1. PICK i \in 1 .. n : s[i] = D
    BY <1>1, <1>2, <1>8
  <2>2. i \in I
    BY <1>1, <1>4, <2>1
  <2>3. found \in I /\ found # 0
    BY <1>5, <1>6, <2>2
  <2>4. s[found] = D /\ rows[found].value = OnDay(ctx, ms, daoAverage, s[found])
    BY <1>1, <1>4, <2>3
  <2> QED
    BY <1>7, <1>8, <2>3, <2>4 DEF S, rows
<1>9. CASE D \notin S
  <2>1. I = {}
    BY <1>1, <1>2, <1>4, <1>9
  <2> QED
    BY <1>5, <1>7, <1>9, <2>1 DEF S, rows
<1> QED
  BY <1>8, <1>9

\* A metric that is not recorded has no rows.
LEMMA NothingOf ==
    ASSUME NEW m, m \notin Metrics
    PROVE  /\ \A days : DaysWithRows(NoDao, {m}, days) = {}
           /\ GetValue(NoDao, {m}, FALSE) = 0
<1>1. \A table : Rows(table, NoDao, {m}) = {}
  <2>1. {m} \cap Metrics = {}
    OBVIOUS
  <2> QED
    BY <2>1 DEF Rows
<1> QED
  BY <1>1, SumOfNone DEF DaysWithRows, GetValue, SumOf

\* A row of the day is what the table of current values has.
LEMMA RowsOfToday ==
    ASSUME StatsTypes, OfTheDay, NEW m \in Metrics
    PROVE  LET written == Rows(history[today], NoDao, {m})
               unwritten == {k \in Rows(stats, NoDao, {m}) : history[today][k] = NoRow}
           IN  /\ GetValue(NoDao, {m}, FALSE)
                     = OnDay(NoDao, {m}, FALSE, today) + SumOf(stats, unwritten, FALSE)
               /\ OnDay(NoDao, {m}, FALSE, today) \in Nat
               /\ unwritten = {} => GetValue(NoDao, {m}, FALSE) = OnDay(NoDao, {m}, FALSE, today)
<1> DEFINE R == Rows(stats, NoDao, {m})
           W == Rows(history[today], NoDao, {m})
           U == {k \in R : history[today][k] = NoRow}
<1>1. /\ stats \in [Keys -> Cells] /\ history[today] \in [Keys -> Cells]
  BY DEF StatsTypes
<1>2. /\ R \subseteq Keys /\ IsFiniteSet(R) /\ Numbers(stats, R)
      /\ SumOf(stats, R, FALSE) = SumFunctionOnSet(stats, R)
  BY <1>1, RowFacts
<1>3. /\ W \subseteq Keys /\ IsFiniteSet(W) /\ Numbers(history[today], W)
      /\ SumOf(history[today], W, FALSE) = SumFunctionOnSet(history[today], W)
      /\ SumOf(history[today], W, FALSE) \in Nat
  BY <1>1, RowFacts
<1>4. /\ \A k \in W : stats[k] = history[today][k] /\ k \in R /\ history[today][k] # NoRow
      /\ \A k \in R : k \notin U => k \in W
  <2>1. \A k \in W : history[today][k] # NoRow
    BY DEF Rows
  <2>2. \A k \in W : stats[k] = history[today][k]
    BY <1>3, <2>1 DEF OfTheDay
  <2>3. \A k \in W : k \in R
    BY <2>1, <2>2 DEF Rows
  <2>4. \A k \in R : k \notin U => k \in W
    BY DEF Rows
  <2> QED
    BY <2>1, <2>2, <2>3, <2>4
<1>5. U \subseteq R /\ U \cap W = {} /\ W \cup U = R /\ W \cap U = {}
  BY <1>4
<1>6. GetValue(NoDao, {m}, FALSE) = SumOf(stats, R, FALSE)
      /\ OnDay(NoDao, {m}, FALSE, today) = SumOf(history[today], W, FALSE)
      /\ SumOf(stats, U, FALSE) = SumFunctionOnSet(stats, U)
  BY DEF GetValue, OnDay, SumOf
<1> HIDE DEF R, W, U
<1>7. SumFunctionOnSet(stats, R) = SumFunctionOnSet(stats, W) + SumFunctionOnSet(stats, U)
  <2>1. IsFiniteSet(U) /\ Numbers(stats, W \cup U)
    BY <1>2, <1>5, FS_Subset
  <2> QED
    BY <1>3, <1>5, <2>1, SumUnion
<1>8. SumFunctionOnSet(history[today], W) = SumFunctionOnSet(stats, W)
  BY <1>3, <1>4, SumSame
<1>9. U = {} => SumFunctionOnSet(stats, U) = 0
  BY SumOfNone
<1>10. OnDay(NoDao, {m}, FALSE, today) \in Nat
  BY <1>3, <1>6
<1>11. GetValue(NoDao, {m}, FALSE) = OnDay(NoDao, {m}, FALSE, today) + SumOf(stats, U, FALSE)
  BY <1>2, <1>3, <1>6, <1>7, <1>8
<1>12. U = {} => GetValue(NoDao, {m}, FALSE) = OnDay(NoDao, {m}, FALSE, today)
  <2> SUFFICES ASSUME U = {} PROVE GetValue(NoDao, {m}, FALSE) = OnDay(NoDao, {m}, FALSE, today)
    OBVIOUS
  <2>1. SumOf(stats, U, FALSE) = 0
    BY <1>6, <1>9
  <2>2. \A x \in Nat : x + 0 = x
    OBVIOUS
  <2> QED
    BY <1>10, <1>11, <2>1, <2>2, Zenon
<1> QED
  BY <1>10, <1>11, <1>12 DEF R, U

\* After the sweep of the day, what it did not record of a DAO it has failed to or not reached.
LEMMA SweptRows ==
    ASSUME StatsTypes, OfTheDay, Quiet
    PROVE  \A k \in Keys : \/ history[today][k] # NoRow
                           \/ k \in failed \cup unreached
                           \/ k \in (Daos \ registry) \X Metrics
<1> SUFFICES ASSUME NEW k \in Keys, history[today][k] = NoRow, k[1] \in registry
             PROVE  k \in failed \cup unreached
  BY KeyFacts
<1>1. k[1] \in Daos /\ k[2] \in Metrics /\ k = <<k[1], k[2]>>
  BY KeyFacts
<1>2. PICK i \in 1 .. 5 : k[2] = Order[i]
  <2>1. 1 \in 1 .. 5 /\ 2 \in 1 .. 5 /\ 3 \in 1 .. 5 /\ 4 \in 1 .. 5 /\ 5 \in 1 .. 5
    OBVIOUS
  <2> QED
    BY <1>1, <2>1, OrderFacts
<1>3. k[1] \in registry \ todo /\ k[1] # dao /\ swept
  BY <1>1, ConstantsAssumption DEF Quiet, Sweeping
<1>4. k = <<k[1], Order[i]>>
  BY <1>1, <1>2
<1> QED
  BY <1>2, <1>3, <1>4 DEF OfTheDay

\* The last value of the days up to the present one.
LEMMA LastOfToday ==
    ASSUME today \in Days, NEW m \in Metrics, today \in DaysWithRows(NoDao, {m}, UpTo(today))
    PROVE  GetLastValue(NoDao, {m}, FALSE, UpTo(today)) = OnDay(NoDao, {m}, FALSE, today)
<1> DEFINE found == DaysWithRows(NoDao, {m}, UpTo(today))
           day == CHOOSE day \in found : \A other \in found : other <= day
<1>1. found \subseteq Days /\ \A other \in found : other <= today
  BY DEF DaysWithRows, UpTo
<1>2. day \in found /\ \A other \in found : other <= day
  <2>1. \E e \in found : \A other \in found : other <= e
    BY <1>1
  <2> HIDE DEF found
  <2> QED
    BY <2>1
<1>3. GetLastValue(NoDao, {m}, FALSE, UpTo(today)) = OnDay(NoDao, {m}, FALSE, day)
  BY DEF GetLastValue, OnDay
<1> HIDE DEF day, found
<1>4. day = today
  <2>1. day \in Int /\ today \in Int /\ day <= today /\ today <= day
    BY <1>1, <1>2 DEF found, Days
  <2> QED
    BY <2>1
<1> QED
  BY <1>3, <1>4

\* The newest point of a chart that ends today.
LEMMA LastPoint ==
    ASSUME NEW S \in SUBSET Nat, IsFiniteSet(S), NEW D \in S, \A d \in S : d <= D, NEW v
    PROVE  LET q == [from |-> 0, to |-> EndOf(D)]
           IN  Last(patchMetricDays(q, MetricsOf(S, v), "Total")).count = v[D]
<1> DEFINE q == [from |-> 0, to |-> EndOf(D)]
           points == patchMetricDays(q, MetricsOf(S, v), "Total")
           first == FirstPoint(S, q)
           n == PointsOf(q, first)
<1>1. q.from = 0 /\ q.to = EndOf(D)
  OBVIOUS
<1> HIDE DEF q
<1>2. Day(0) = 0
  <2>1. Day(StartOf(0)) = 0 /\ DayLength \in Nat
    BY DayBounds, MetricDaysAssumption
  <2>2. StartOf(0) = 0
    BY <2>1 DEF StartOf
  <2> QED
    BY <2>1, <2>2
<1>3. D \in Nat /\ EndOf(D) \in Nat /\ Day(EndOf(D)) = D
  BY DayBounds
<1>4. q.from \in Nat /\ q.to \in Nat /\ Day(q.to) = D /\ \A d \in S : Day(q.from) <= d /\ d <= Day(q.to)
  BY <1>1, <1>2, <1>3
<1> HIDE DEF first, n, points
<1>5. /\ Least(S) \in S /\ Day(first) = Least(S) /\ n \in Nat
      /\ DOMAIN points = 1 .. n /\ Len(points) = n
      /\ \A i \in 1 .. n : points[i].count = v[LatestOf(S, Day(first) + i - 1)]
  <2>1. S # {} /\ S \in SUBSET Nat /\ IsFiniteSet(S)
    OBVIOUS
  <2>2. q.from \in Nat /\ q.to \in Nat /\ \A d \in S : Day(q.from) <= d /\ d <= Day(q.to)
    BY <1>4
  <2> USE DEF first, n, points
  <2>3. Least(S) \in S /\ Day(first) = Least(S) /\ n \in Nat
    BY <2>1, <2>2, PatchFacts
  <2>4. DOMAIN points = 1 .. n /\ Len(points) = n
    BY <2>1, <2>2, PatchFacts
  <2>5. \A i \in 1 .. n : points[i].count = v[LatestOf(S, Day(first) + i - 1)]
    BY <2>1, <2>2, PatchFacts
  <2> QED
    BY <2>3, <2>4, <2>5
<1>6. n = D - Day(first) + 1
  <2>1. Least(S) \in Nat
    BY <1>5
  <2>2. StartOf(Least(S)) \in Nat /\ StartOf(Least(S)) % DayLength = 0
    BY <2>1, DayBounds
  <2>3. first = StartOf(Least(S))
    BY <1>1, <2>2 DEF first, FirstPoint, Later
  <2>4. q.to % DayLength \in Nat
    BY <1>4, DayFacts
  <2> HIDE DEF StartOf, Least
  <2>5. ~ (first % DayLength > q.to % DayLength)
    BY <2>2, <2>3, <2>4
  <2> QED
    BY <1>4, <2>5 DEF n, PointsOf
<1>7. Least(S) \in Nat /\ Least(S) <= D /\ Day(first) = Least(S)
  BY <1>5
<1>8. n \in 1 .. n /\ Day(first) + n - 1 = D
  BY <1>3, <1>5, <1>6, <1>7
<1>9. points[n].count = v[LatestOf(S, D)]
  BY <1>5, <1>8
<1>10. LatestOf(S, D) = D
  <2>1. LatestOf(S, D) \in S /\ LatestOf(S, D) <= D /\ D <= LatestOf(S, D)
    BY <1>3, LatestFacts
  <2>2. LatestOf(S, D) \in Nat
    BY <2>1
  <2> QED
    BY <1>3, <2>1, <2>2
<1>11. Last(points) = points[n]
  BY <1>5 DEF Last
<1> QED
  BY <1>9, <1>10, <1>11 DEF points, q

\* The newest entry of a history.
LEMMA LastEntry ==
    ASSUME NEW ctx, NEW ms, NEW daoAverage, NEW days, NEW D \in DaysWithRows(ctx, ms, days),
           \A d \in DaysWithRows(ctx, ms, days) : d <= D
    PROVE  LET rows == GetHistory(ctx, ms, daoAverage, days)
               n == Len(rows)
           IN  /\ DOMAIN rows = 1 .. n /\ n \in DOMAIN rows /\ n \in Nat
               /\ rows[n].date = D /\ rows[n].value = OnDay(ctx, ms, daoAverage, D)
<1> DEFINE S == DaysWithRows(ctx, ms, days)
           s == InOrder(S)
           rows == GetHistory(ctx, ms, daoAverage, days)
           n == Len(s)
<1>1. /\ S \in SUBSET Nat /\ DOMAIN s = 1 .. n /\ n \in Nat
      /\ \A i \in DOMAIN s : s[i] \in S
      /\ \A i, j \in DOMAIN s : i < j => s[i] < s[j]
  BY HistoryDays
<1>2. \A x \in S : \E i \in DOMAIN s : s[i] = x
  BY HistoryDays
<1>3. Len(rows) = n
  BY HistoryFacts
<1>4. DOMAIN rows = DOMAIN s
  BY HistoryFacts
<1>5. \A i \in DOMAIN s : rows[i].date = s[i] /\ rows[i].value = OnDay(ctx, ms, daoAverage, s[i])
  BY HistoryFacts
<1> HIDE DEF S, s, rows, n
<1>6. PICK i \in DOMAIN s : s[i] = D
  BY <1>2 DEF S
<1>7. n \in DOMAIN s /\ i <= n /\ i \in Nat
  BY <1>1, <1>6
<1>8. s[n] = D
  <2>1. s[n] \in Nat /\ s[i] \in Nat /\ s[n] <= D
    BY <1>1, <1>6, <1>7 DEF S
  <2>2. i < n => s[i] < s[n]
    BY <1>1, <1>6, <1>7
  <2>3. i = n \/ i < n
    BY <1>1, <1>7
  <2> QED
    BY <1>6, <2>1, <2>2, <2>3
<1> QED
  BY <1>1, <1>3, <1>4, <1>5, <1>7, <1>8 DEF rows

\* The rates of the days of a history.
LEMMA RatesMetrics ==
    ASSUME NEW ctx, NEW ms, NEW daoAverage, NEW days, NEW A
    PROVE  LET v == [d \in Days |-> getRate(ValueOn(A, d), OnDay(ctx, ms, daoAverage, d))]
           IN  RatesOf(GetHistory(ctx, ms, daoAverage, days), A) = MetricsOf(DaysWithRows(ctx, ms, days), v)
<1> DEFINE P == GetHistory(ctx, ms, daoAverage, days)
           S == DaysWithRows(ctx, ms, days)
           s == InOrder(S)
           v == [d \in Days |-> getRate(ValueOn(A, d), OnDay(ctx, ms, daoAverage, d))]
<1>1. S \subseteq Days /\ \A i \in DOMAIN s : s[i] \in S
  BY HistoryDays
<1>2. DOMAIN P = DOMAIN s
  BY HistoryFacts
<1>3. \A i \in DOMAIN s : P[i].date = s[i] /\ P[i].value = OnDay(ctx, ms, daoAverage, s[i])
  BY HistoryFacts
<1>4. RatesOf(P, A) = [i \in DOMAIN P |-> [timestamp |-> StartOf(P[i].date),
                          count |-> getRate(ValueOn(A, P[i].date), P[i].value)]]
  BY DEF RatesOf
<1>5. MetricsOf(S, v) = [i \in DOMAIN s |-> [timestamp |-> StartOf(s[i]), count |-> v[s[i]]]]
  BY DEF MetricsOf
<1>6. \A d \in S : v[d] = getRate(ValueOn(A, d), OnDay(ctx, ms, daoAverage, d))
  BY <1>1
<1> HIDE DEF P, s, S, v
<1>7. \A i \in DOMAIN s : v[s[i]] = getRate(ValueOn(A, P[i].date), P[i].value)
  BY <1>1, <1>3, <1>6
<1>8. RatesOf(P, A) = MetricsOf(S, v)
  BY <1>2, <1>3, <1>4, <1>5, <1>7
<1> QED
  BY <1>8 DEF P, S, v

\* The vote rate and the shares of the totals of a context.
LEMMA SharesNow ==
    ASSUME NEW ctx
    PROVE  LET Now(m) == GetValue(ctx, {m}, FALSE)
           IN  /\ governanceTotals(ctx).voteRate.count = getRate(Now("APPROVED"), Now("PROPOSALS"))
               /\ governanceTotals(ctx).proposalsByType.governance
                     = Now("PROPOSALS") - (Now("TRANSFER") + Now("BOUNTY") + Now("MEMBER"))
<1> DEFINE Now(m) == GetValue(ctx, {m}, FALSE)
           Before(m) == GetLastValue(ctx, {m}, FALSE, DayAgo)
           rate == getRate(Now("APPROVED"), Now("PROPOSALS"))
<1>1. governanceTotals(ctx).voteRate
         = [count |-> rate,
            growth |-> getGrowthIn(rate, getRate(Before("APPROVED"), Before("PROPOSALS")), 100)]
  BY TotalsNow
<1>2. governanceTotals(ctx).proposalsByType
         = [governance |-> Now("PROPOSALS") - (Now("TRANSFER") + Now("BOUNTY") + Now("MEMBER")),
            financial |-> Now("TRANSFER"), bounties |-> Now("BOUNTY"), members |-> Now("MEMBER")]
  BY TotalsNow
<1>3. governanceTotals(ctx).voteRate.count = rate
  BY <1>1
<1>4. governanceTotals(ctx).proposalsByType.governance
         = Now("PROPOSALS") - (Now("TRANSFER") + Now("BOUNTY") + Now("MEMBER"))
  BY <1>2
<1> QED
  BY <1>3, <1>4

\* The days of a query for everything up to the end of today.
LEMMA DaysUpToToday ==
    ASSUME today \in Days
    PROVE  DaysOf([from |-> 0, to |-> EndOf(today)]) = UpTo(today)
<1>1. today \in Nat /\ Day(EndOf(today)) = today /\ Day(StartOf(0)) = 0
  <2>1. today \in Nat
    BY DEF Days
  <2> QED
    BY <2>1, DayBounds
<1>2. StartOf(0) = 0
  BY MetricDaysAssumption DEF StartOf
<1>3. Since(0) = Days
  BY DEF Since, Days
<1> QED
  BY <1>1, <1>2, <1>3 DEF DaysOf, UpTo

\* Once a sweep recorded all, the newest points are the totals.
LEMMA RecordedAll ==
    ASSUME StatsTypes, OfTheDay, \A k \in Keys : history[today][k] # NoRow, Daos # {},
           NEW m \in Metrics
    PROVE  /\ today \in DaysWithRows(NoDao, {m}, UpTo(today))
           /\ GetValue(NoDao, {m}, FALSE) = OnDay(NoDao, {m}, FALSE, today)
<1>1. {k \in Rows(stats, NoDao, {m}) : history[today][k] = NoRow} = {}
  <2>1. Rows(stats, NoDao, {m}) \subseteq Keys
    BY RowFacts DEF StatsTypes
  <2> QED
    BY <2>1
<1>2. Rows(history[today], NoDao, {m}) # {}
  <2>1. PICK d \in Daos : TRUE
    OBVIOUS
  <2>2. <<d, m>> \in Keys /\ m \in {m} \cap Metrics
    BY KeyFacts
  <2> QED
    BY <2>2, ContextFacts DEF Rows
<1>3. today \in Days /\ today \in UpTo(today)
  BY DEF StatsTypes, UpTo, Days
<1> QED
  BY <1>1, <1>2, <1>3, RowsOfToday DEF DaysWithRows

\* The newest vote rate and share of governance are those of the totals.
LEMMA NewestPoints ==
    ASSUME StatsTypes, OfTheDay, \A k \in Keys : history[today][k] # NoRow, Daos # {}
    PROVE  LET q == [from |-> 0, to |-> EndOf(today)]
           IN  /\ Last(voteRate(NoDao, q)).count = governanceTotals(NoDao).voteRate.count
               /\ Last(proposalsTypes(NoDao, q).governance).value
                     = governanceTotals(NoDao).proposalsByType.governance
<1> DEFINE q == [from |-> 0, to |-> EndOf(today)]
           P == GetHistory(NoDao, {"PROPOSALS"}, FALSE, UpTo(today))
           A == GetHistory(NoDao, {"APPROVED"}, FALSE, UpTo(today))
           T == GetHistory(NoDao, {"TRANSFER"}, FALSE, UpTo(today))
           S == DaysWithRows(NoDao, {"PROPOSALS"}, UpTo(today))
           Now(m) == GetValue(NoDao, {m}, FALSE)
           OfToday(m) == OnDay(NoDao, {m}, FALSE, today)
<1>1. today \in Days /\ DaysOf(q) = UpTo(today)
  BY DaysUpToToday DEF StatsTypes
<1>2. /\ "PROPOSALS" \in Metrics /\ "APPROVED" \in Metrics /\ "TRANSFER" \in Metrics
      /\ "BOUNTY" \notin Metrics /\ "MEMBER" \notin Metrics
  BY OrderFacts
<1>3. \A m \in Metrics : today \in DaysWithRows(NoDao, {m}, UpTo(today)) /\ Now(m) = OfToday(m)
  BY RecordedAll
<1>4. /\ Now("PROPOSALS") = OfToday("PROPOSALS") /\ Now("APPROVED") = OfToday("APPROVED")
      /\ Now("TRANSFER") = OfToday("TRANSFER") /\ Now("BOUNTY") = 0 /\ Now("MEMBER") = 0
  BY <1>2, <1>3, NothingOf
<1>5. Now("TRANSFER") \in Nat
  BY <1>2, <1>4, RowsOfToday
<1>6. governanceTotals(NoDao).voteRate.count = getRate(Now("APPROVED"), Now("PROPOSALS"))
  BY SharesNow
<1>7. governanceTotals(NoDao).proposalsByType.governance
         = Now("PROPOSALS") - (Now("TRANSFER") + Now("BOUNTY") + Now("MEMBER"))
  BY SharesNow
<1>8. ValueOn(A, today) = OfToday("APPROVED") /\ ValueOn(T, today) = OfToday("TRANSFER")
  BY <1>2, <1>3, ValueOnFacts
<1>9. Last(voteRate(NoDao, q)).count = getRate(Now("APPROVED"), Now("PROPOSALS"))
  <2> DEFINE v == [d \in Days |-> getRate(ValueOn(A, d), OnDay(NoDao, {"PROPOSALS"}, FALSE, d))]
  <2>1. S \in SUBSET Nat /\ IsFiniteSet(S)
    BY HistoryDays
  <2>4. RatesOf(P, A) = MetricsOf(S, v)
    BY RatesMetrics
  <2>5. voteRate(NoDao, q) = patchMetricDays(q, MetricsOf(S, v), "Total")
    BY <1>1, <2>4 DEF voteRate
  <2>6. today \in S /\ \A d \in S : d <= today
    BY <1>2, <1>3 DEF DaysWithRows, UpTo
  <2>7. v[today] = getRate(Now("APPROVED"), Now("PROPOSALS"))
    BY <1>1, <1>4, <1>8
  <2> HIDE DEF S, v
  <2>8. Last(patchMetricDays(q, MetricsOf(S, v), "Total")).count = v[today]
    BY <2>1, <2>6, LastPoint
  <2> QED
    BY <2>5, <2>7, <2>8
<1>10. Last(proposalsTypes(NoDao, q).governance).value = Now("PROPOSALS") - Now("TRANSFER")
  <2> DEFINE B == GetHistory(NoDao, {"BOUNTY"}, FALSE, UpTo(today))
             M == GetHistory(NoDao, {"MEMBER"}, FALSE, UpTo(today))
             Parts(date) == Or(ValueOn(T, date), Or(ValueOn(B, date), ValueOn(M, date)))
             n == Len(P)
             g == [i \in DOMAIN P |-> [date |-> P[i].date, value |-> P[i].value - Parts(P[i].date)]]
  <2>1. proposalsTypes(NoDao, q).governance = g
    BY <1>1 DEF proposalsTypes
  <2>2. ValueOn(B, today) = 0 /\ ValueOn(M, today) = 0
    BY <1>2, NothingOf, ValueOnFacts
  <2>3. Parts(today) = Now("TRANSFER")
    BY <1>4, <1>8, <2>2 DEF Or
  <2>4. /\ DOMAIN P = 1 .. n /\ n \in DOMAIN P /\ n \in Nat
        /\ P[n].date = today /\ P[n].value = OfToday("PROPOSALS")
    <3>1. today \in S /\ \A d \in S : d <= today
      BY <1>2, <1>3 DEF DaysWithRows, UpTo
    <3>2. ASSUME NEW avg
          PROVE  LET rows == GetHistory(NoDao, {"PROPOSALS"}, avg, UpTo(today))
                     k == Len(rows)
                 IN  /\ DOMAIN rows = 1 .. k /\ k \in DOMAIN rows /\ k \in Nat
                     /\ rows[k].date = today
                     /\ rows[k].value = OnDay(NoDao, {"PROPOSALS"}, avg, today)
      BY <3>1, LastEntry
    <3> QED
      BY <3>2, Zenon
  <2> HIDE DEF P, n, T, B, M, Parts
  <2>5. g[n].value = Now("PROPOSALS") - Now("TRANSFER")
    BY <1>4, <2>3, <2>4
  <2>6. Len(g) = n
    <3>1. g = [i \in 1 .. n |-> g[i]]
      BY <2>4
    <3> HIDE DEF g
    <3> QED
      BY <2>4, <3>1, LengthOf
  <2> QED
    BY <2>1, <2>5, <2>6 DEF Last
<1>11. \A p \in Nat : p + 0 + 0 = p
  OBVIOUS
<1> HIDE DEF Now
<1>12. Now("TRANSFER") + Now("BOUNTY") + Now("MEMBER") = Now("TRANSFER")
  BY <1>4, <1>5, <1>11
<1> QED
  BY <1>6, <1>7, <1>9, <1>10, <1>12

\* A total exceeds the newest point of its chart by what the last sweep did not write.
LEMMA UnwrittenCounted == StatsTypes /\ OfTheDay => UnwrittenStillCounted
<1> DEFINE unwritten(m) == {k \in Rows(stats, NoDao, {m}) : history[today][k] = NoRow}
           q == [from |-> 0, to |-> EndOf(today)]
<1> SUFFICES ASSUME StatsTypes, OfTheDay, Quiet, NEW m \in Metrics,
                    DaysWithRows(NoDao, {m}, {today}) # {}
             PROVE  /\ GetValue(NoDao, {m}, FALSE)
                          = GetLastValue(NoDao, {m}, FALSE, UpTo(today)) + SumOf(stats, unwritten(m), FALSE)
                    /\ unwritten(m) \subseteq failed \cup unreached \cup (Daos \ registry) \X Metrics
                    /\ (m = "PROPOSALS" /\ failed = {} /\ unreached = {} /\ registry = Daos) =>
                          /\ Last(voteRate(NoDao, q)).count
                                 = governanceTotals(NoDao).voteRate.count
                          /\ Last(proposalsTypes(NoDao, q).governance).value
                                 = governanceTotals(NoDao).proposalsByType.governance
  BY DEF UnwrittenStillCounted
<1>1. today \in Days /\ today \in DaysWithRows(NoDao, {m}, UpTo(today))
  <2>1. today \in Days /\ today \in UpTo(today)
    BY DEF StatsTypes, UpTo, Days
  <2>2. Rows(history[today], NoDao, {m}) # {}
    BY DEF DaysWithRows
  <2> QED
    BY <2>1, <2>2 DEF DaysWithRows
<1>2. GetLastValue(NoDao, {m}, FALSE, UpTo(today)) = OnDay(NoDao, {m}, FALSE, today)
  BY <1>1, LastOfToday
<1>3. GetValue(NoDao, {m}, FALSE)
         = OnDay(NoDao, {m}, FALSE, today) + SumOf(stats, unwritten(m), FALSE)
  BY RowsOfToday
<1>4. unwritten(m) \subseteq failed \cup unreached \cup (Daos \ registry) \X Metrics
  <2>1. unwritten(m) \subseteq Keys
    BY RowFacts DEF StatsTypes
  <2> QED
    BY <2>1, SweptRows
<1>5. ASSUME failed = {}, unreached = {}, registry = Daos
      PROVE  /\ Last(voteRate(NoDao, q)).count = governanceTotals(NoDao).voteRate.count
             /\ Last(proposalsTypes(NoDao, q).governance).value
                    = governanceTotals(NoDao).proposalsByType.governance
  <2>1. \A k \in Keys : history[today][k] # NoRow
    BY <1>5, SweptRows
  <2>2. Daos # {}
    <3>1. Rows(history[today], NoDao, {m}) # {}
      BY DEF DaysWithRows
    <3>2. DaosOf(NoDao) = Daos
      BY ContextFacts
    <3> QED
      BY <3>1, <3>2 DEF Rows
  <2> QED
    BY <2>1, <2>2, NewestPoints
<1> QED
  BY <1>2, <1>3, <1>4, <1>5

\* Totals exceed the newest points of their charts by the rows of purged DAOs, of metrics
\* that failed and of what a sweep that died or passed midnight did not write under the
\* date of today (DaoStatsService.getValue against DaoStatsHistoryService).
THEOREM TotalsCountUnwritten == Spec => []UnwrittenStillCounted
<1>1. StatsOK => UnwrittenStillCounted
  BY UnwrittenCounted DEF StatsOK
<1> QED
  BY <1>1, StatsInvariance, PTL

-----------------------------------------------------------------------------
(* The chart of proposals                                                  *)

\* The proposals of all DAOs up to a day are those of each DAO.
LEMMA CountedAsSum ==
    ASSUME NEW made \in [Days -> [Daos -> Nat]], NEW e \in Int
    PROVE  LET g == [d \in Daos |-> MadeIn(made, d, e)]
           IN  /\ Naturals(g, Daos) /\ Numbers(g, Daos)
               /\ CountUpTo(made, NoDao, e) = SumFunctionOnSet(g, Daos)
<1> DEFINE g == [d \in Daos |-> MadeIn(made, d, e)]
           f == [k \in Days \X Daos |-> made[k[1]][k[2]]]
           row == [d \in Daos |-> [x \in Days |-> made[x][d]]]
           U == UpTo(e)
<1>2. IsFiniteSet(U) /\ U \subseteq Days
  <2>1. IsFiniteSet(Days) /\ U \subseteq Days
    BY ConstantsAssumption, FS_Interval DEF Days, UpTo
  <2> QED
    BY <2>1, FS_Subset
<1>3. \A d \in Daos : g[d] \in Nat /\ g[d] = SumFunctionOnSet(row[d], U)
  <2> SUFFICES ASSUME NEW d \in Daos
               PROVE  /\ MadeIn(made, d, e) \in Nat
                      /\ MadeIn(made, d, e) = SumFunctionOnSet(row[d], U)
    OBVIOUS
  <2>1. MadeIn(made, d, e) \in Nat
    BY MadeFacts
  <2> DEFINE its == [x \in Days |-> made[x][d]]
  <2>2. row[d] = its
    OBVIOUS
  <2>3. MadeIn(made, d, e) = SumFunctionOnSet(its, U)
    BY DEF MadeIn
  <2> HIDE DEF its, row
  <2> QED
    BY <2>1, <2>2, <2>3
<1>4. Naturals(g, Daos) /\ Numbers(g, Daos)
  <2> HIDE DEF g, row, U
  <2> QED
    BY <1>3 DEF Naturals, Numbers
<1>5. \A x \in U, d \in Daos : row[d][x] = f[<<x, d>>] /\ f[<<x, d>>] \in Int
  BY <1>2
<1>6. CountUpTo(made, NoDao, e) = SumFunctionOnSet(f, U \X Daos)
  BY ContextFacts DEF CountUpTo
<1> HIDE DEF f, g, row, U
<1>7. Numbers(f, U \X Daos)
  <2> SUFFICES ASSUME NEW k \in U \X Daos PROVE f[k] \in Int
    BY DEF Numbers
  <2>1. k = <<k[1], k[2]>> /\ k[1] \in U /\ k[2] \in Daos
    OBVIOUS
  <2>2. f[<<k[1], k[2]>>] \in Int
    BY <1>5, <2>1
  <2> QED
    BY <2>1, <2>2
<1>8. SumFunctionOnSet(f, U \X Daos) = SumFunctionOnSet(g, Daos)
  <2>1. PairRows(row, f, U, Daos)
    BY <1>5 DEF RowAt, PairRows
  <2>2. IsFiniteSet(Daos) /\ IsFiniteSet(U)
    BY <1>2, ContextFacts
  <2>3. RowSums(g, row, U, Daos)
    BY <1>3 DEF RowSums
  <2>4. Numbers(g, Daos) /\ SumFunctionOnSet(f, U \X Daos) = SumFunctionOnSet(g, Daos)
    BY <1>7, <2>1, <2>2, <2>3, SumOfPairs
  <2> QED
    BY <2>4
<1> QED
  BY <1>4, <1>6, <1>8 DEF g

\* Each day of one count has no more proposals than the same day of another one.
NoMore(made, more, e) == \A x \in UpTo(e), d \in Daos : made[x][d] <= more[x][d]

\* So each DAO has no more up to any later day.
LEMMA MadeLess ==
    ASSUME NEW made \in [Days -> [Daos -> Nat]], NEW more \in [Days -> [Daos -> Nat]],
           NEW d \in Daos, NEW e \in Int, NEW later \in Int, e <= later, NoMore(made, more, e)
    PROVE  MadeIn(made, d, e) <= MadeIn(more, d, later)
<1> DEFINE f == [x \in Days |-> made[x][d]]
           g == [x \in Days |-> more[x][d]]
           U == UpTo(e)
<1>1. IsFiniteSet(U) /\ U \subseteq Days
  BY MadeFacts
<1>2. Numbers(f, U) /\ Numbers(g, U)
  BY <1>1 DEF Numbers
<1>3. \A x \in U : f[x] <= g[x]
  BY <1>1 DEF NoMore
<1>4. MadeIn(made, d, e) = SumFunctionOnSet(f, U) /\ MadeIn(more, d, e) = SumFunctionOnSet(g, U)
  BY DEF MadeIn
<1> HIDE DEF f, g, U
<1>5. SumFunctionOnSet(f, U) <= SumFunctionOnSet(g, U)
  BY <1>1, <1>2, <1>3, SumMonotone
<1>6. /\ MadeIn(more, d, e) <= MadeIn(more, d, later)
      /\ MadeIn(made, d, e) \in Nat /\ MadeIn(more, d, e) \in Nat /\ MadeIn(more, d, later) \in Nat
  BY MadeFacts
<1> QED
  BY <1>4, <1>5, <1>6

\* And so have all of them.
LEMMA CountedLess ==
    ASSUME NEW made \in [Days -> [Daos -> Nat]], NEW more \in [Days -> [Daos -> Nat]],
           NEW e \in Int, NEW later \in Int, e <= later, NoMore(made, more, e)
    PROVE  /\ CountUpTo(made, NoDao, e) \in Nat /\ CountUpTo(more, NoDao, later) \in Nat
           /\ CountUpTo(made, NoDao, e) <= CountUpTo(more, NoDao, later)
<1> DEFINE f == [d \in Daos |-> MadeIn(made, d, e)]
           g == [d \in Daos |-> MadeIn(more, d, later)]
<1>1. /\ Naturals(f, Daos) /\ Numbers(f, Daos)
      /\ CountUpTo(made, NoDao, e) = SumFunctionOnSet(f, Daos)
  BY CountedAsSum
<1>2. /\ Naturals(g, Daos) /\ Numbers(g, Daos)
      /\ CountUpTo(more, NoDao, later) = SumFunctionOnSet(g, Daos)
  BY CountedAsSum
<1>3. \A d \in Daos : f[d] <= g[d]
  BY MadeLess
<1> HIDE DEF f, g
<1>4. SumFunctionOnSet(f, Daos) <= SumFunctionOnSet(g, Daos)
  BY <1>1, <1>2, <1>3, ContextFacts, SumMonotone
<1>5. SumFunctionOnSet(f, Daos) \in Nat /\ SumFunctionOnSet(g, Daos) \in Nat
  BY <1>1, <1>2, ContextFacts, SumOfPart
<1> QED
  BY <1>1, <1>2, <1>4, <1>5

\* What the rows of a day count of the proposals: none of them more than were made and,
\* before trouble, if all are there, each at least those made before the day.
LEMMA RecordedBounds ==
    ASSUME StatsTypes, Proposed, NEW day \in Days
    PROVE  /\ OnDay(NoDao, {"PROPOSALS"}, FALSE, day) \in Int
           /\ OnDay(NoDao, {"PROPOSALS"}, FALSE, day) <= CountUpTo(proposedOn, NoDao, day)
           /\ (troubles = 0 /\ \A k \in Keys : history[day][k] # NoRow) =>
                 CountUpTo(proposedOn, NoDao, day - 1) <= OnDay(NoDao, {"PROPOSALS"}, FALSE, day)
<1> DEFINE low == [d \in Daos |-> MadeIn(proposedOn, d, day - 1)]
           high == [d \in Daos |-> MadeIn(proposedOn, d, day)]
           g == [d \in Daos |-> Value(history[day], <<d, "PROPOSALS">>)]
<1>1. day \in Int /\ day - 1 \in Int /\ proposedOn \in [Days -> [Daos -> Nat]]
  BY DEF Days, StatsTypes
<1>2. Numbers(low, Daos) /\ CountUpTo(proposedOn, NoDao, day - 1) = SumFunctionOnSet(low, Daos)
  BY <1>1, CountedAsSum
<1>3. /\ Numbers(high, Daos) /\ CountUpTo(proposedOn, NoDao, day) = SumFunctionOnSet(high, Daos)
      /\ \A d \in Daos : Made(d, day) \in Nat
  BY <1>1, CountedAsSum, MadeFacts DEF Made
<1>4. /\ Numbers(g, Daos)
      /\ SumOf(history[day], Rows(history[day], NoDao, {"PROPOSALS"}), FALSE)
            = SumFunctionOnSet(g, Daos)
  <2>1. history[day] \in [Keys -> Cells] /\ "PROPOSALS" \in Metrics
    BY OrderFacts DEF StatsTypes
  <2> QED
    BY <2>1, CountAsSum
<1>5. \A d \in Daos : g[d] <= high[d]
  <2> SUFFICES ASSUME NEW d \in Daos PROVE Value(history[day], <<d, "PROPOSALS">>) <= Made(d, day)
    BY DEF Made
  <2>1. RecordedOf(day, d) /\ 0 <= Made(d, day)
    BY <1>3 DEF Proposed
  <2> QED
    BY <2>1 DEF RecordedOf, Value
<1>9. ASSUME troubles = 0, \A k \in Keys : history[day][k] # NoRow
      PROVE  \A d \in Daos : low[d] <= g[d]
  <2> SUFFICES ASSUME NEW d \in Daos
               PROVE  Made(d, day - 1) <= Value(history[day], <<d, "PROPOSALS">>)
    BY DEF Made
  <2>1. history[day][<<d, "PROPOSALS">>] # NoRow
    BY <1>9, KeyFacts
  <2>2. RecordedOf(day, d)
    BY DEF Proposed
  <2> QED
    BY <1>9, <2>1, <2>2 DEF RecordedOf, Value
<1> HIDE DEF low, high, g
<1>6. SumFunctionOnSet(g, Daos) <= SumFunctionOnSet(high, Daos)
  BY <1>3, <1>4, <1>5, ContextFacts, SumMonotone
<1>10. (troubles = 0 /\ \A k \in Keys : history[day][k] # NoRow) =>
          SumFunctionOnSet(low, Daos) <= SumFunctionOnSet(g, Daos)
  BY <1>2, <1>4, <1>9, ContextFacts, SumMonotone
<1>7. OnDay(NoDao, {"PROPOSALS"}, FALSE, day) = SumFunctionOnSet(g, Daos)
  BY <1>4 DEF OnDay
<1>8. SumFunctionOnSet(g, Daos) \in Int
  BY <1>4, ContextFacts, SumFacts
<1> QED
  BY <1>2, <1>3, <1>6, <1>7, <1>8, <1>10

\* Without trouble, a day with a row has all of them.
LEMMA WholeDays ==
    ASSUME StatsTypes, OfTheDay, NoTrouble, Quiet, troubles = 0, NEW ms, NEW days,
           NEW day \in DaysWithRows(NoDao, ms, days)
    PROVE  day \in Days /\ \A k \in Keys : history[day][k] # NoRow
<1>1. day \in Days /\ Rows(history[day], NoDao, ms) # {}
  BY DEF DaysWithRows
<1>2. history[day] \in [Keys -> Cells]
  BY <1>1 DEF StatsTypes
<1>3. \E k \in Keys : history[day][k] # NoRow
  <2>1. Rows(history[day], NoDao, ms) \subseteq Keys
    BY <1>2, RowFacts
  <2>2. \A k \in Rows(history[day], NoDao, ms) : history[day][k] # NoRow
    BY DEF Rows
  <2> QED
    BY <1>1, <2>1, <2>2
<1>4. CASE day < today
  BY <1>1, <1>3, <1>4 DEF NoTrouble
<1>5. CASE day = today
  <2>1. failed \cup unreached = {} /\ registry = Daos
    BY DEF NoTrouble
  <2>2. \A k \in Keys : \/ history[today][k] # NoRow
                        \/ k \in failed \cup unreached
                        \/ k \in (Daos \ registry) \X Metrics
    BY SweptRows
  <2> QED
    BY <1>1, <1>5, <2>1, <2>2
<1>6. ~ (day > today)
  BY <1>1, <1>3 DEF OfTheDay
<1>7. day < today \/ day = today \/ day > today
  BY <1>1 DEF StatsTypes, Days
<1> QED
  BY <1>4, <1>5, <1>6, <1>7

\* What the chart of proposals has for a day with proposals.
LEMMA ProposalsOn ==
    ASSUME StatsTypes, OfTheDay, Proposed, NoTrouble, Quiet, NEW day \in Days, day <= today
    PROVE  LET recorded == GetHistory(NoDao, {"PROPOSALS"}, FALSE, Days)
               n == Or(ValueOn(recorded, day), ProposedUpTo(NoDao, day))
           IN  /\ n \in Int /\ n <= CountUpTo(proposedOn, NoDao, day)
               /\ troubles = 0 => CountUpTo(proposedOn, NoDao, day - 1) <= n
<1> DEFINE recorded == GetHistory(NoDao, {"PROPOSALS"}, FALSE, Days)
           S == DaysWithRows(NoDao, {"PROPOSALS"}, Days)
           row == OnDay(NoDao, {"PROPOSALS"}, FALSE, day)
           all == ProposedUpTo(NoDao, day)
<1>1. ValueOn(recorded, day) = IF day \in S THEN row ELSE 0
  BY ValueOnFacts
<1>2. /\ row \in Int /\ row <= CountUpTo(proposedOn, NoDao, day)
      /\ (day \in S /\ troubles = 0) => CountUpTo(proposedOn, NoDao, day - 1) <= row
  BY WholeDays, RecordedBounds
<1>3. /\ stored \in [Days -> [Daos -> Nat]] /\ proposedOn \in [Days -> [Daos -> Nat]]
      /\ day \in Int /\ day - 1 \in Int /\ day - 1 <= day /\ day <= day /\ today \in Int
  BY DEF StatsTypes, Days
<1>4. all \in Nat /\ all <= CountUpTo(proposedOn, NoDao, day)
  <2>1. NoMore(stored, proposedOn, day)
    BY DEF NoMore, Proposed, UpTo
  <2> QED
    BY <1>3, <2>1, CountedLess DEF ProposedUpTo
<1>5. troubles = 0 => CountUpTo(proposedOn, NoDao, day - 1) <= all
  <2> SUFFICES ASSUME troubles = 0 PROVE CountUpTo(proposedOn, NoDao, day - 1) <= all
    OBVIOUS
  <2>1. \A x \in UpTo(day - 1), d \in Daos : stored[x][d] = proposedOn[x][d] /\ x \in Days
    <3> SUFFICES ASSUME NEW x \in UpTo(day - 1), NEW d \in Daos
                 PROVE  stored[x][d] = proposedOn[x][d] /\ x \in Days
      OBVIOUS
    <3>1. x \in Days /\ x <= day - 1 /\ x \in Int
      BY DEF UpTo, Days
    <3>2. x < today
      BY <1>3, <3>1
    <3>3. swept
      BY DEF Quiet
    <3>4. \A z \in Days, a \in Daos : z < today => stored[z][a] = proposedOn[z][a]
      BY <3>3 DEF Proposed
    <3> QED
      BY <3>1, <3>2, <3>4
  <2>2. NoMore(proposedOn, stored, day - 1)
    <3> SUFFICES ASSUME NEW x \in UpTo(day - 1), NEW d \in Daos
                 PROVE  proposedOn[x][d] <= stored[x][d]
      BY DEF NoMore
    <3>1. x \in Days /\ stored[x][d] = proposedOn[x][d]
      BY <2>1
    <3>2. proposedOn[x] \in [Daos -> Nat]
      BY <1>3, <3>1
    <3>3. proposedOn[x][d] \in Nat
      BY <3>2
    <3> QED
      BY <3>1, <3>3
  <2> QED
    BY <1>3, <2>2, CountedLess DEF ProposedUpTo
<1> HIDE DEF recorded, S, row, all
<1>6. /\ Or(ValueOn(recorded, day), all) \in Int
      /\ Or(ValueOn(recorded, day), all) <= CountUpTo(proposedOn, NoDao, day)
      /\ troubles = 0 => CountUpTo(proposedOn, NoDao, day - 1) <= Or(ValueOn(recorded, day), all)
  BY <1>1, <1>2, <1>4, <1>5 DEF Or
<1> QED
  BY <1>6 DEF recorded, all

\* The chart of proposals shows no more than was made, and is at most a day behind.
LEMMA LagOfADay ==
    StatsTypes /\ OfTheDay /\ Proposed /\ NoTrouble => ProposalsLag
<1> DEFINE q == [from |-> 0, to |-> EndOf(today)]
           points == proposals(NoDao, q)
           S == DaysProposed(NoDao)
           recorded == GetHistory(NoDao, {"PROPOSALS"}, FALSE, Days)
           v == [d \in Days |-> Or(ValueOn(recorded, d), ProposedUpTo(NoDao, d))]
           first == FirstPoint(S, q)
           n == PointsOf(q, first)
<1> SUFFICES ASSUME StatsTypes, OfTheDay, Proposed, NoTrouble, Quiet
             PROVE  /\ \A i \in DOMAIN points :
                          LET day  == Day(points[i].timestamp)
                              last == Greatest({d \in S : d <= day})
                          IN  /\ points[i].count <= CountUpTo(proposedOn, NoDao, day)
                              /\ troubles = 0 =>
                                    points[i].count >= CountUpTo(proposedOn, NoDao, last - 1)
                    /\ troubles = 0 =>
                          \A day \in Days, d \in Daos :
                              day < today /\ proposedOn[day][d] > 0 => day \in S
  BY DEF ProposalsLag
<1>15. ASSUME troubles = 0, NEW day \in Days, NEW d \in Daos, day < today, proposedOn[day][d] > 0
       PROVE  day \in S
  <2>1. stored[day][d] = proposedOn[day][d]
    BY <1>15 DEF Proposed, Quiet
  <2>2. day \in UpTo(today)
    BY <1>15 DEF UpTo, StatsTypes, Days
  <2> QED
    BY <1>15, <2>1, <2>2, ContextFacts DEF DaysProposed
<1>1. today \in Days /\ today \in Nat
  BY DEF StatsTypes, Days
<1>2. S \in SUBSET Nat /\ S \subseteq Days /\ IsFiniteSet(S) /\ \A d \in S : d <= today
  <2>1. S \subseteq Days /\ \A d \in S : d <= today
    BY DEF DaysProposed, UpTo
  <2>2. IsFiniteSet(Days) /\ Days \in SUBSET Nat
    BY ConstantsAssumption, FS_Interval DEF Days
  <2> HIDE DEF S
  <2> QED
    BY <2>1, <2>2, FS_Subset
<1>3. points = patchMetricDays(q, MetricsOf(S, v), "Total")
  <2> DEFINE s == InOrder(S)
  <2>1. S \in SUBSET Int
    BY <1>2
  <2>2. \A j \in DOMAIN s : s[j] \in Days
    <3>1. \A j \in DOMAIN s : s[j] \in S
      BY <1>2, <2>1, OrderedDays
    <3> QED
      BY <1>2, <3>1
  <2>3. MetricsOf(S, v) = [j \in DOMAIN s |-> [timestamp |-> StartOf(s[j]), count |-> v[s[j]]]]
    BY DEF MetricsOf
  <2>4. points = patchMetricDays(q, [j \in DOMAIN s |-> [timestamp |-> StartOf(s[j]),
                    count |-> Or(ValueOn(recorded, s[j]), ProposedUpTo(NoDao, s[j]))]], "Total")
    BY DEF proposals
  <2> HIDE DEF s, S, recorded, points, q
  <2>5. MetricsOf(S, v) = [j \in DOMAIN s |-> [timestamp |-> StartOf(s[j]),
                    count |-> Or(ValueOn(recorded, s[j]), ProposedUpTo(NoDao, s[j]))]]
    BY <2>2, <2>3
  <2> QED
    BY <2>4, <2>5
<1>4. q.from \in Nat /\ q.to \in Nat /\ \A d \in S : Day(q.from) <= d /\ d <= Day(q.to)
  <2>1. Day(StartOf(0)) = 0 /\ StartOf(0) = 0
    BY DayBounds, MetricDaysAssumption DEF StartOf
  <2>2. EndOf(today) \in Nat /\ Day(EndOf(today)) = today
    BY <1>1, DayBounds
  <2>3. q.from = 0 /\ q.to = EndOf(today)
    OBVIOUS
  <2> HIDE DEF q, S
  <2> QED
    BY <1>2, <2>1, <2>2, <2>3
<1>16. CASE S = {}
  <2>1. points = <<>>
    BY <1>3, <1>16, NoMetrics DEF patchMetricDays
  <2> HIDE DEF points, S
  <2>2. DOMAIN points = {}
    BY <2>1
  <2> QED
    BY <1>15, <2>2
<1>17. CASE S # {}
  <2> SUFFICES ASSUME NEW i \in DOMAIN points
               PROVE  LET day  == Day(points[i].timestamp)
                          last == Greatest({d \in S : d <= day})
                      IN  /\ points[i].count <= CountUpTo(proposedOn, NoDao, day)
                          /\ troubles = 0 =>
                                points[i].count >= CountUpTo(proposedOn, NoDao, last - 1)
    BY <1>15
  <2>5. \A d \in S : /\ v[d] \in Int /\ v[d] <= CountUpTo(proposedOn, NoDao, d)
                     /\ troubles = 0 => CountUpTo(proposedOn, NoDao, d - 1) <= v[d]
    <3> SUFFICES ASSUME NEW d \in S
                 PROVE  /\ v[d] \in Int /\ v[d] <= CountUpTo(proposedOn, NoDao, d)
                        /\ troubles = 0 => CountUpTo(proposedOn, NoDao, d - 1) <= v[d]
      OBVIOUS
    <3>1. d \in Days /\ d <= today /\ v[d] = Or(ValueOn(recorded, d), ProposedUpTo(NoDao, d))
      BY <1>2
    <3> HIDE DEF v, S
    <3> QED
      BY <3>1, ProposalsOn
  <2> HIDE DEF S, v, points, q, recorded
  <2>6. /\ n \in Nat /\ DOMAIN points = 1 .. n
        /\ \A k \in 1 .. n :
              /\ Day(first) + k - 1 \in Nat
              /\ points[k].timestamp = EndOf(Day(first) + k - 1)
              /\ LatestOf(S, Day(first) + k - 1) \in S
              /\ LatestOf(S, Day(first) + k - 1) <= Day(first) + k - 1
              /\ points[k].count = v[LatestOf(S, Day(first) + k - 1)]
    <3>1. S \in SUBSET Nat /\ IsFiniteSet(S) /\ S # {}
      BY <1>2, <1>17
    <3> QED
      BY <1>3, <1>4, <3>1, PatchFacts
  <2> HIDE DEF n
  <2> DEFINE D == Day(first) + i - 1
  <2>7. /\ D \in Nat /\ points[i].timestamp = EndOf(D)
        /\ LatestOf(S, D) \in S /\ LatestOf(S, D) <= D /\ points[i].count = v[LatestOf(S, D)]
    BY <2>6
  <2> HIDE DEF D
  <2>8. Day(points[i].timestamp) = D
    BY <2>7, DayBounds
  <2> DEFINE L == LatestOf(S, D)
  <2>9. L = Greatest({d \in S : d <= D})
    BY DEF LatestOf
  <2>10. L \in S /\ L \in Int /\ D \in Int /\ L <= D /\ points[i].count = v[L]
    <3>1. L \in S /\ L <= D /\ points[i].count = v[L] /\ D \in Int
      BY <2>7
    <3> HIDE DEF L
    <3>2. L \in Nat
      BY <1>2, <3>1
    <3> QED
      BY <3>1, <3>2
  <2> HIDE DEF L
  <2>11. /\ v[L] \in Int /\ v[L] <= CountUpTo(proposedOn, NoDao, L)
         /\ troubles = 0 => CountUpTo(proposedOn, NoDao, L - 1) <= v[L]
    BY <2>5, <2>10
  <2>12. /\ CountUpTo(proposedOn, NoDao, L) <= CountUpTo(proposedOn, NoDao, D)
         /\ CountUpTo(proposedOn, NoDao, L) \in Nat /\ CountUpTo(proposedOn, NoDao, D) \in Nat
    <3>1. proposedOn \in [Days -> [Daos -> Nat]]
      BY DEF StatsTypes
    <3>2. \A x \in UpTo(L), d \in Daos : proposedOn[x][d] \in Nat
      BY <3>1 DEF UpTo
    <3>3. NoMore(proposedOn, proposedOn, L)
      BY <3>2 DEF NoMore
    <3> QED
      BY <2>10, <3>1, <3>3, CountedLess
  <2>13. v[L] <= CountUpTo(proposedOn, NoDao, D)
    BY <2>11, <2>12
  <2>14. troubles = 0 => CountUpTo(proposedOn, NoDao, L - 1) <= v[L]
    BY <2>11
  <2>15. CountUpTo(proposedOn, NoDao, L - 1) \in Int
    <3>1. proposedOn \in [Days -> [Daos -> Nat]] /\ L - 1 \in Int /\ L - 1 <= L - 1
      BY <2>10 DEF StatsTypes
    <3>2. \A x \in UpTo(L - 1), d \in Daos : proposedOn[x][d] \in Nat
      BY <3>1 DEF UpTo
    <3>3. NoMore(proposedOn, proposedOn, L - 1)
      BY <3>2 DEF NoMore
    <3> QED
      BY <3>1, <3>3, CountedLess
  <2> QED
    BY <2>8, <2>9, <2>10, <2>11, <2>13, <2>14, <2>15
<1> QED
  BY <1>16, <1>17

\* The chart of proposals shows at most the proposals made by a day, whatever happens to the
\* sweeps, and before trouble lacks at most those made since the beginning of the last day
\* with some that is stored (GovernanceService.proposals).
THEOREM ProposalsLagByADay == Spec => []ProposalsLag
<1>1. StatsOK => ProposalsLag
  BY LagOfADay DEF StatsOK
<1> QED
  BY <1>1, StatsInvariance, PTL

==============================================================================
