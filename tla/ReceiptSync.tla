---------------------------- MODULE ReceiptSync ----------------------------
(***************************************************************************)
(* How the aggregator keeps its copy of the receipt actions in step with   *)
(* the NEAR indexer: AggregatorService.scheduleAggregation (the run) and   *)
(* AggregationService.aggregateReceiptActions (the windows of a run).      *)
(*                                                                         *)
(* A run walks over the contracts.  For each it starts from the timestamp  *)
(* of the last stored transaction, asks the indexer for one window of      *)
(* ChunkSize after another, and saves what a window returns before it asks *)
(* for the next.  Nothing else remembers how far it got: after a crash the *)
(* position is recomputed from the rows that reached the database.         *)
(*                                                                         *)
(* The steps of a run that leave the receipt tables alone (DAOs, metrics,  *)
(* prices) are one step here, FinishContract; StatsCollection has some.    *)
(***************************************************************************)
EXTENDS Integers

CONSTANTS
    Contracts,      \* rows of the contracts table
    NoContract,     \* no contract is being processed
    Actions,        \* receipt actions the chain will ever hold
    FirstBlock,     \* FIRST_BLOCK_TIMESTAMP
    ChunkSize,      \* the length of a window (12 hours)
    RetryThreshold, \* RETRY_COUNT_THRESHOLD
    MaxTime,        \* bound: the clock stops there
    MaxLag,         \* bound: how far the indexer may be behind the chain
    MaxFailures,    \* bound: failed queries in a row the environment allows
    MaxCrashes      \* bound: crashes of the aggregator process

ASSUME ConstantsAssumption ==
    /\ NoContract \notin Contracts
    /\ FirstBlock \in Nat \ {0}
    /\ ChunkSize \in Nat \ {0}
    /\ RetryThreshold \in Nat
    /\ MaxTime \in Nat /\ MaxTime >= FirstBlock
    /\ MaxLag \in Nat
    /\ MaxFailures \in Nat
    /\ MaxCrashes \in Nat

NoTime == 0            \* an undefined timestamp; BigInt 0 is falsy as well

Times == FirstBlock .. MaxTime

VARIABLES
    chain,      \* what the chain holds: contract and times of every action
    now,        \* the wall clock
    head,       \* the indexer has every block up to here
    stored,     \* receipt actions in the aggregator's database
    running,    \* AggregatorService.running
    pc,         \* where the run is
    todo,       \* contracts the run has not started yet
    cur,        \* the contract being processed
    from, to,   \* locals of scheduleAggregation; they outlive a contract
    lo,         \* local `from` of aggregateReceiptActions: start of the window
    retry,      \* retryCount
    batch,      \* what the last query returned and is not saved yet
    crashes,    \* crashes so far
    \* History, read by no action of the program:
    frontier,   \* end of the last window the runs have completed, per contract
    passedOver  \* actions that were behind the end of a completed window
                \* without having been returned to the aggregator

local  == <<todo, cur, from, to, lo, retry, batch>>
ghosts == <<frontier, passedOver>>
vars   == <<chain, now, head, stored, running, pc, local, crashes, ghosts>>

PCs == {"idle", "contract", "query", "save", "rest", "clear"}

-----------------------------------------------------------------------------
(* Data                                                                    *)

\* The receipts of a transaction are included in its block or in a later one.
Entry == [contract : Contracts, tx : Times, incl : Times]
Chains == {f \in [Actions -> Entry] : \A a \in Actions : f[a].tx <= f[a].incl}

Of(c) == {a \in Actions : chain[a].contract = c}

\* Mutant: a run begins a window before the last transaction.
WindowBeforeLast(c) ==
    LET mine == stored \cap Of(c)
        last == {a \in mine : \A b \in mine : chain[b].tx <= chain[a].tx}
    IN  IF mine = {} THEN {NoTime} ELSE
        {IF chain[a].tx - ChunkSize < FirstBlock THEN FirstBlock ELSE chain[a].tx - ChunkSize :
            a \in last}

\* TransactionService.lastTransaction: the greatest block timestamp stored for
\* the contract, undefined when there is none (always exactly one element).
LastTransaction(c) ==
    LET mine == stored \cap Of(c)
    IN  {w \in Times \cup {NoTime} :
            \/ mine = {} /\ w = NoTime
            \/ /\ \E a \in mine : chain[a].tx = w
               /\ \A a \in mine : chain[a].tx <= w}

\* The end of the window, Decimal.min(from + chunkSize, toTimestamp).
WindowEnd == IF lo + ChunkSize <= to THEN lo + ChunkSize ELSE to

\* Both ends of the window are inclusive.
Window == {a \in Of(cur) : lo <= chain[a].incl /\ chain[a].incl <= WindowEnd}
Visible == {a \in Actions : chain[a].incl <= head}

-----------------------------------------------------------------------------
(* The run                                                                 *)

Init ==
    /\ chain \in Chains
    /\ now = FirstBlock /\ head = FirstBlock
    /\ stored = {}
    /\ running = FALSE
    /\ pc = "idle"
    /\ todo = {} /\ cur = NoContract
    /\ from = NoTime /\ to = NoTime /\ lo = NoTime
    /\ retry = 0 /\ batch = {}
    /\ crashes = 0
    /\ frontier = [c \in Contracts |-> NoTime]
    /\ passedOver = {}

\* The cron job fires.  A tick during a run returns at once.
Tick ==
    /\ ~ running
    /\ running' = TRUE
    /\ pc' = "contract"
    /\ todo' = Contracts
    /\ from' = NoTime /\ to' = NoTime
    /\ UNCHANGED <<chain, now, head, stored, cur, lo, retry, batch, crashes, ghosts>>

\* Next iteration of the loop over contracts: from and to are computed only
\* when they are still undefined, so a later contract inherits the first's.
StartContract(c) ==
    /\ pc = "contract" /\ c \in todo
    /\ todo' = todo \ {c}
    /\ cur' = c
    /\ from' \in IF from = NoTime THEN LastTransaction(c) ELSE {from}
    /\ to' = IF to = NoTime THEN now ELSE to
    /\ lo' = IF from' = NoTime THEN FirstBlock ELSE from'
    /\ retry' = 0
    /\ pc' = "query"
    /\ passedOver' = passedOver \cup
           {a \in Of(c) : frontier[c] < chain[a].incl /\ chain[a].incl < lo'}
    /\ UNCHANGED <<chain, now, head, stored, running, batch, crashes, frontier>>

\* The end of an iteration of the window loop.
Advance ==
    /\ IF WindowEnd >= to
       THEN pc' = "rest" /\ lo' = lo
       ELSE pc' = "query" /\ lo' = WindowEnd
    /\ frontier' = [frontier EXCEPT ![cur] =
                        IF @ < WindowEnd THEN WindowEnd ELSE @]

\* The indexer answers with the rows of the window it has.
QuerySucceeds ==
    /\ pc = "query"
    /\ retry' = 0
    /\ batch' = Window \cap Visible
    /\ passedOver' = passedOver \cup (Window \ Visible)
    /\ IF batch' = {} THEN Advance ELSE pc' = "save" /\ UNCHANGED <<lo, frontier>>
    /\ UNCHANGED <<chain, now, head, stored, running, todo, cur, from, to, crashes>>

\* Mutant: the number of attempts is not limited.
QueryFailsAgain ==
    /\ pc = "query"
    /\ retry < MaxFailures
    /\ retry' = retry + 1
    /\ UNCHANGED <<chain, now, head, stored, running, pc, todo, cur, from, to, lo,
                   batch, crashes, ghosts>>

\* The query fails and is tried again five seconds later.
QueryFails ==
    /\ pc = "query"
    /\ retry < MaxFailures
    /\ retry <= RetryThreshold
    /\ retry' = retry + 1
    /\ UNCHANGED <<chain, now, head, stored, running, pc, todo, cur, from, to, lo,
                   batch, crashes, ghosts>>

\* Mutant: the count is reset, but the window is asked for again.
GiveUpAndRetry ==
    /\ pc = "query"
    /\ retry < MaxFailures
    /\ retry > RetryThreshold
    /\ retry' = 0
    /\ UNCHANGED <<chain, now, head, stored, running, pc, todo, cur, from, to, lo,
                   batch, crashes, ghosts>>

\* Mutant: one attempt too few, >= for >.
GiveUpSooner ==
    /\ pc = "query"
    /\ retry < MaxFailures
    /\ retry >= RetryThreshold
    /\ retry' = 0
    /\ passedOver' = passedOver \cup Window
    /\ Advance
    /\ UNCHANGED <<chain, now, head, stored, running, todo, cur, from, to, batch, crashes>>

\* The query fails once too often: the window counts as empty.
GiveUp ==
    /\ pc = "query"
    /\ retry < MaxFailures
    /\ retry > RetryThreshold
    /\ retry' = 0
    /\ passedOver' = passedOver \cup Window
    /\ Advance
    /\ UNCHANGED <<chain, now, head, stored, running, todo, cur, from, to, batch, crashes>>

\* Mutant: some rows of the batch fail and are left out.
SaveSome ==
    /\ pc = "save"
    /\ \E part \in SUBSET batch : stored' = stored \cup part
    /\ batch' = {}
    /\ Advance
    /\ UNCHANGED <<chain, now, head, running, todo, cur, from, to, retry, crashes, passedOver>>

\* receiptActionService.create: one save, one database transaction, an upsert.
\* Only then is the generator resumed.
Save ==
    /\ pc = "save"
    /\ stored' = stored \cup batch
    /\ batch' = {}
    /\ Advance
    /\ UNCHANGED <<chain, now, head, running, todo, cur, from, to, retry, crashes, passedOver>>

\* DAOs, metrics and prices of the contract.
FinishContract ==
    /\ pc = "rest"
    /\ pc' = IF todo = {} THEN "clear" ELSE "contract"
    /\ UNCHANGED <<chain, now, head, stored, running, local, crashes, ghosts>>

\* The locals of scheduleAggregation and of the generator are gone.
LocalsGone ==
    /\ pc' = "idle"
    /\ todo' = {} /\ cur' = NoContract
    /\ from' = NoTime /\ to' = NoTime /\ lo' = NoTime
    /\ retry' = 0 /\ batch' = {}

\* Mutant: the flag is not reset.
ClearCacheOnly ==
    /\ pc = "clear"
    /\ LocalsGone
    /\ UNCHANGED <<chain, now, head, stored, running, crashes, ghosts>>

\* The cache is cleared and the run is over.
ClearCache ==
    /\ pc = "clear"
    /\ running' = FALSE
    /\ LocalsGone
    /\ UNCHANGED <<chain, now, head, stored, crashes, ghosts>>

\* A rejection nobody handles, or the pod dies: the open database transaction
\* is rolled back and a new process starts with running = false.
Crash ==
    /\ pc # "idle"
    /\ crashes < MaxCrashes
    /\ crashes' = crashes + 1
    /\ running' = FALSE
    /\ LocalsGone
    /\ UNCHANGED <<chain, now, head, stored, ghosts>>

(* The environment: the clock and the indexer.                             *)
ClockTicks ==
    /\ now < MaxTime
    /\ now' = now + 1
    /\ head' \in head .. now'
    /\ now' - head' <= MaxLag
    /\ UNCHANGED <<chain, stored, running, pc, local, crashes, ghosts>>

IndexerCatchesUp ==
    /\ head < now
    /\ head' = head + 1
    /\ UNCHANGED <<chain, now, stored, running, pc, local, crashes, ghosts>>

Run == \/ \E c \in Contracts : StartContract(c)
       \/ QuerySucceeds \/ QueryFails \/ GiveUp
       \/ Save \/ FinishContract \/ ClearCache

Next == Tick \/ Run \/ Crash \/ ClockTicks \/ IndexerCatchesUp

Spec == Init /\ [][Next]_vars

\* The cron job keeps firing, the event loop resumes every awaited call, time
\* passes and the indexer follows.  A crash is never owed, nor that a query
\* succeeds: WF_vars(Run) is met by failures alone.
FairSpec ==
    /\ Spec
    /\ WF_vars(Tick) /\ WF_vars(Run)
    /\ WF_vars(ClockTicks) /\ WF_vars(IndexerCatchesUp)

-----------------------------------------------------------------------------
(* Properties                                                              *)

\* Every variable has its type.
TypeOK ==
    /\ chain \in Chains
    /\ now \in Times /\ head \in Times /\ head <= now
    /\ stored \subseteq Actions /\ batch \subseteq Actions
    /\ passedOver \subseteq Actions
    /\ running \in BOOLEAN /\ pc \in PCs
    /\ todo \subseteq Contracts /\ cur \in Contracts \cup {NoContract}
    /\ from \in Times \cup {NoTime} /\ to \in Times \cup {NoTime}
    /\ lo \in Times \cup {NoTime}
    /\ retry \in 0 .. RetryThreshold + 1
    /\ crashes \in 0 .. MaxCrashes
    /\ frontier \in [Contracts -> Times \cup {NoTime}]

\* A run resumes at the last stored transaction, so nothing before that point
\* is ever asked for again.  Everything up to it is therefore stored, or was
\* passed over when its window was completed: in particular no crash between
\* two windows, or between a query and its save, leaves a gap behind.
ResumePointSound ==
    \A a, b \in Actions :
        /\ b \in stored /\ chain[b].contract = chain[a].contract
        /\ chain[a].incl <= chain[b].tx
        => a \in stored \cup passedOver

\* When the indexer is never behind the clock and never fails more often in a
\* row than the retries allow, the windows go past an action of a contract
\* without storing it in one case only: a run died between two contracts, and
\* a later one began with the contract that was further on, whose last
\* transaction the others inherited as their resume point.  Without a crash,
\* and with a single contract, nothing is lost.
LostOnlyBehindAnother ==
    \A a \in Actions :
        chain[a].incl <= frontier[chain[a].contract] /\ a \notin stored
        => /\ crashes > 0
           /\ \E b \in stored : /\ chain[b].contract # chain[a].contract
                               /\ chain[a].incl < chain[b].tx

\* The stored log grows at its end: a save never adds an action included
\* before a transaction that is stored already.  Readers never see history
\* change behind the last transaction, and what was passed over before it is
\* passed over for good.
LogGrowsAtItsEnd ==
    [][\A a \in stored' \ stored, b \in stored :
           chain[b].contract = chain[a].contract => chain[a].incl >= chain[b].tx]_vars

\* A run ends even if the indexer fails for ever: the give-up ends the retries
\* and the windows are finitely many, so a later tick is not ignored.
RunsEnd == []<>(~ running)

\* Once the chain and the indexer are at rest, every action is stored except
\* those a completed window passed over.
EventuallyStored == <>[](Actions \subseteq stored \cup passedOver)

\* The runs implement a log with a cursor, although none is kept: the log is
\* what is stored, the cursor is the frontier, and lost is what was passed
\* over and not stored since.
Collected == INSTANCE CollectedLog
                 WITH log <- stored, lost <- passedOver \ stored, done <- frontier
ImplementsLog == Collected!Spec

=============================================================================
