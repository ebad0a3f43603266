----------------------------- MODULE HttpCache -----------------------------
(***************************************************************************)
(* The API's response cache in Redis, which API and aggregator share: the  *)
(* HttpCacheInterceptor of the API (Nest's CacheInterceptor, the first of  *)
(* the global interceptors), the DAO check of DaoContractContextInterceptor *)
(* behind it, and CacheService.clearCache at the end of a run.             *)
(*                                                                         *)
(* One URL is modelled: entries of different URLs meet only when the whole *)
(* store is reset.  What a response says is abstracted to the version of   *)
(* the database it was computed from.                                      *)
(***************************************************************************)
EXTENDS Integers

CONSTANTS
    Requests,     \* requests that may be in flight together
    Cacheable,    \* isRequestCacheable: FALSE in development environments
    TTL,          \* REDIS_HTTP_CACHE_TTL, in ticks
    MaxHandling,  \* bound: ticks from the DAO check to the store
    MaxVersion    \* bound: writes to the database

ASSUME CacheConstants ==
    /\ Cacheable \in BOOLEAN
    /\ TTL \in Nat \ {0}
    /\ MaxHandling \in Nat
    /\ MaxVersion \in Nat

Versions == 0 .. MaxVersion
MaxAge == TTL + MaxHandling
\* Ages are counted up to one more than the greatest that may occur.
Older(n) == IF n <= MaxAge THEN n + 1 ELSE n
Ages == 0 .. MaxAge + 1

VARIABLES
    db,       \* version of the data the aggregator has committed
    known,    \* the DAO of the URL is in the daos table
    gone,     \* ticks since it was purged; 0 while it is known
    writing,  \* a run of the aggregator is under way
    cache,    \* {} or the set of the one entry of the URL
    requests, \* per request: where it is, what it read and when
    \* History, read by no action of the program:
    served,   \* the last data response: its age, how long the DAO was gone
    cleared   \* the version the database had when the cache was last cleared

cacheVars == <<db, known, gone, writing, cache, requests, served, cleared>>

\* `age` counts from the first read of the database for the response;
\* `overlap` says that the cache was cleared between that read and the store.
Entry == [ver : Versions, age : Ages, ttl : 1 .. TTL, overlap : BOOLEAN]
Steps == {"idle", "check", "read", "respond", "store"}
Request == [at : Steps, ver : Versions, age : Ages, keep : BOOLEAN, overlap : BOOLEAN]
Idle == [at |-> "idle", ver |-> 0, age |-> 0, keep |-> FALSE, overlap |-> FALSE]
Begun == {"read", "respond", "store"}

CacheInit ==
    /\ db = 0 /\ known \in BOOLEAN /\ gone = 0
    /\ writing = FALSE
    /\ cache = {}
    /\ requests = [r \in Requests |-> Idle]
    /\ served = [age |-> 0, gone |-> 0]
    /\ cleared = 0

Serve(age) == served' = [age |-> age, gone |-> gone]

-----------------------------------------------------------------------------
(* A request                                                               *)

\* Mutant: a hit renews the entry.
HitRenews(r) ==
    /\ requests[r].at = "idle" /\ Cacheable
    /\ \E e \in cache : Serve(e.age) /\ cache' = {[e EXCEPT !.ttl = TTL]}
    /\ UNCHANGED <<db, known, gone, writing, requests, cleared>>

\* CacheInterceptor.intercept finds the response and returns it: none of the
\* later interceptors runs.
Hit(r) ==
    /\ requests[r].at = "idle" /\ Cacheable
    /\ \E e \in cache : Serve(e.age)
    /\ UNCHANGED <<db, known, gone, writing, cache, requests, cleared>>

\* It finds nothing, or the route has no key, or Redis does not answer; in the
\* last two cases the response is not stored either.
Miss(r) ==
    /\ requests[r].at = "idle"
    /\ \E keep \in BOOLEAN :
         /\ keep => Cacheable /\ cache = {}
         /\ requests' = [requests EXCEPT ![r] = [Idle EXCEPT !.at = "check", !.keep = keep]]
    /\ UNCHANGED <<db, known, gone, writing, cache, served, cleared>>

\* Mutant: the DAO is not looked up.
SkipDao(r) ==
    /\ requests[r].at = "check"
    /\ requests' = [requests EXCEPT ![r].at = "read"]
    /\ UNCHANGED <<db, known, gone, writing, cache, served, cleared>>

\* DaoContractContextInterceptor looks the DAO up.  An unknown one is refused
\* with an error, and errors are not stored.
CheckDao(r) ==
    /\ requests[r].at = "check"
    /\ requests' = [requests EXCEPT ![r] = IF known THEN [@ EXCEPT !.at = "read"] ELSE Idle]
    /\ UNCHANGED <<db, known, gone, writing, cache, served, cleared>>

\* The handler queries the database; of several queries, this is the first.
ReadDb(r) ==
    /\ requests[r].at = "read"
    /\ requests' = [requests EXCEPT ![r].at = "respond", ![r].ver = db]
    /\ UNCHANGED <<db, known, gone, writing, cache, served, cleared>>

\* The response goes out; storing it is started and not waited for.
Respond(r) ==
    /\ requests[r].at = "respond"
    /\ Serve(requests[r].age)
    /\ requests' = [requests EXCEPT ![r] = IF @.keep THEN [@ EXCEPT !.at = "store"] ELSE Idle]
    /\ UNCHANGED <<db, known, gone, writing, cache, cleared>>

\* Mutant: the time to live is given in milliseconds and read in seconds.
StoreInMilliseconds(r) ==
    /\ requests[r].at = "store"
    /\ cache' = {[ver |-> requests[r].ver, age |-> requests[r].age, ttl |-> 1000 * TTL,
                  overlap |-> requests[r].overlap]}
    /\ requests' = [requests EXCEPT ![r] = Idle]
    /\ UNCHANGED <<db, known, gone, writing, served, cleared>>

\* The entry is set with the full time to live, over whatever is there.
Store(r) ==
    /\ requests[r].at = "store"
    /\ cache' = {[ver |-> requests[r].ver, age |-> requests[r].age, ttl |-> TTL,
                  overlap |-> requests[r].overlap]}
    /\ requests' = [requests EXCEPT ![r] = Idle]
    /\ UNCHANGED <<db, known, gone, writing, served, cleared>>

\* Setting it fails, or the API dies before: the entry is not stored.
StoreFails(r) ==
    /\ requests[r].at = "store"
    /\ requests' = [requests EXCEPT ![r] = Idle]
    /\ UNCHANGED <<db, known, gone, writing, cache, served, cleared>>

-----------------------------------------------------------------------------
(* The aggregator                                                          *)

StartRun ==
    /\ ~ writing
    /\ writing' = TRUE
    /\ UNCHANGED <<db, known, gone, cache, requests, served, cleared>>

\* A write of the run: rows, and perhaps the registration or the purge of the
\* DAO.
Write ==
    /\ writing
    /\ db < MaxVersion
    /\ db' = db + 1
    /\ known' \in BOOLEAN
    /\ gone' = IF known' THEN 0 ELSE gone
    /\ UNCHANGED <<writing, cache, requests, served, cleared>>

\* Mutant: the API's store is not the one that is reset.
ClearOther ==
    /\ writing
    /\ writing' = FALSE
    /\ cleared' = db
    /\ requests' = [r \in Requests |->
                     IF requests[r].at \in {"respond", "store"}
                     THEN [requests[r] EXCEPT !.overlap = TRUE] ELSE requests[r]]
    /\ UNCHANGED <<db, known, gone, cache, served>>

\* clearCache resets the whole store; the run is over.
ClearCache ==
    /\ writing
    /\ writing' = FALSE
    /\ cache' = {}
    /\ cleared' = db
    /\ requests' = [r \in Requests |->
                     IF requests[r].at \in {"respond", "store"}
                     THEN [requests[r] EXCEPT !.overlap = TRUE] ELSE requests[r]]
    /\ UNCHANGED <<db, known, gone, served>>

\* The run dies before it gets there.
CrashRun ==
    /\ writing
    /\ writing' = FALSE
    /\ UNCHANGED <<db, known, gone, cache, requests, served, cleared>>

\* One tick: everything ages, and Redis drops what has outlived its TTL.  A
\* request that has begun to read is done within MaxHandling ticks.
Tick ==
    /\ \A r \in Requests : requests[r].at \in Begun => requests[r].age < MaxHandling
    /\ cache' = {[e EXCEPT !.age = Older(@), !.ttl = @ - 1] : e \in {e \in cache : e.ttl > 1}}
    /\ requests' = [r \in Requests |->
                     IF requests[r].at \in Begun
                     THEN [requests[r] EXCEPT !.age = Older(@)] ELSE requests[r]]
    /\ gone' = IF known THEN 0 ELSE Older(gone)
    /\ UNCHANGED <<db, known, writing, served, cleared>>

Progress(r) == CheckDao(r) \/ ReadDb(r) \/ Respond(r) \/ Store(r) \/ StoreFails(r)

CacheNext ==
    \/ \E r \in Requests : Hit(r) \/ Miss(r) \/ Progress(r)
    \/ StartRun \/ Write \/ ClearCache \/ CrashRun
    \/ Tick

CacheSpec == CacheInit /\ [][CacheNext]_cacheVars

\* Time passes and a request that has begun is finished.  Nobody has to send
\* a request, and a run need not reach its clearCache.
FairSpec == CacheSpec /\ WF_cacheVars(Tick) /\ \A r \in Requests : WF_cacheVars(Progress(r))

-----------------------------------------------------------------------------
(* Properties                                                              *)

\* Every variable has its type; the URL has at most one entry.
TypeOK ==
    /\ db \in Versions /\ cleared \in Versions
    /\ known \in BOOLEAN /\ writing \in BOOLEAN
    /\ gone \in Ages
    /\ cache \subseteq Entry /\ \A d, e \in cache : d = e
    /\ requests \in [Requests -> Request]
    /\ served \in [age : Ages, gone : Ages]

\* No response was computed from reads older than the time to live of an
\* entry plus the time a request takes, however often it is asked for, and
\* whether or not the run that changed the data ever cleared the cache.
BoundedStaleness == served.age <= MaxAge

\* A DAO that was purged is answered for at most that long: a hit answers
\* before the DAO is looked up.
PurgedSoonRefused == served.gone <= MaxAge

\* An entry from before the last clearing is in the cache only if its request
\* had read the database before the clearing and stored after it.
StaleOnlyByOverlap == \A e \in cache : e.ver < cleared => e.overlap

\* Once the data stops changing, the cache is rid of stale responses for good.
EventuallyFresh == <>[](\A e \in cache : e.ver = db)

=============================================================================
