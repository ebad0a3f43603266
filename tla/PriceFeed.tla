----------------------------- MODULE PriceFeed -----------------------------
(***************************************************************************)
(* Where the price of NEAR enters the database: the token metrics of a     *)
(* sweep (FtsCountMetric, FtsValueLockedMetric, for one DAO), the loop over *)
(* coins that ends a run of the aggregator, the near-price-history          *)
(* migration that may run next to it, and the range query of the market     *)
(* service.  Sodaki is asked first; its answer is kept for 30 seconds, so   *)
(* the metrics and the price of one run may share one.  CoinGecko is asked  *)
(* when Sodaki fails.  A service that answers without NEAR has not failed.  *)
(*                                                                         *)
(* A price is stored under the date of the database, which may have turned *)
(* since it was asked.  Dates of the process and of the database agree.    *)
(***************************************************************************)
EXTENDS Integers, FiniteSets

CONSTANTS
    Prices,        \* prices NEAR may have
    Tokens,        \* fungible tokens
    Ways,          \* queries by which findLikelyTokens finds a token
    MaxDay,        \* bound: days that pass
    MaxMoves,      \* bound: price changes and tokens that arrive
    MaxTroubles,   \* bound: crashes, failed metrics
    MaxMigrations  \* bound: runs of the migration

ASSUME ConstantsAssumption ==
    /\ Prices \subseteq Nat \ {0} /\ Prices # {}
    /\ IsFiniteSet(Tokens)
    /\ Ways \subseteq {"received", "mintedWithBridge", "calledByUser", "ownershipChangeEvents"}
    /\ MaxDay \in Nat /\ MaxMoves \in Nat /\ MaxTroubles \in Nat /\ MaxMigrations \in Nat

Days == 0 .. MaxDay
Undefined == -1     \* CoinGecko lists no NEAR
NoRow == -2

VARIABLES
    today, market,   \* the date, the price of NEAR
    holdings,        \* <<token, way>>: what the indexer knows of the DAO
    pc,              \* where the run is
    likely,          \* what findLikelyTokens keeps for 300 seconds, <<>> or <<set>>
    spot,            \* what Sodaki's answer kept for 30 seconds says of NEAR, <<>> or <<price>>
    tokens,          \* the list the value metric works on
    answer,          \* the price in hand: of the value metric, then of the loop over coins
    ftsCount, ftsValue, \* dao_stats
    prices,          \* coin_price_history
    points,          \* <<day, price>>: what the migration has not written yet
    moves, troubles, migrations, \* counters for the bounds
    \* History, read by no action of the program:
    seen,            \* per day: the prices NEAR had
    omitted,         \* days on which a service answered without NEAR
    oldest,          \* the day of the oldest answer in hand or kept
    valued,          \* this run's token values were divided by the answer that is kept
    disturbed,       \* a metric failed or the list expired in this sweep
    late,            \* days that began with a run under way or an answer kept
    explained        \* days that may remain without a price

world   == <<today, market, holdings, moves, seen>>
run     == <<pc, tokens, answer>>
kept    == <<likely, spot>>
stored  == <<ftsCount, ftsValue, prices>>
ghosts  == <<omitted, oldest, valued, disturbed, late, explained>>
migrate == <<points, migrations>>
vars    == <<world, run, kept, stored, migrate, troubles, ghosts>>

-----------------------------------------------------------------------------
(* What the steps compute                                                  *)

\* findLikelyTokens: four queries, every token once.
LikelyTokens == {h[1] : h \in holdings}

\* The list as the process has it: kept, or read now.
Known == IF likely = <<>> THEN LikelyTokens ELSE likely[1]

\* getCoinSpotPrice: the price that is kept, or what Sodaki answers now, 0 if
\* it lists no NEAR.
SpotPrices == IF spot = <<>> THEN {market, 0} ELSE {spot[1]}

\* One token: balance times price over the price of NEAR, all or nothing.  The
\* balance is text, so "0" is no reason to skip the token.
TokenValue(balance, listed, near) ==
    IF balance = "unreadable" \/ ~ listed THEN "zero"
    ELSE CASE near > 0 /\ balance = "0" -> "zero"
           [] near > 0 /\ balance # "0" -> "positive"
           [] near = 0 /\ balance = "0" -> "NaN"
           [] near = 0 /\ balance # "0" -> "Infinity"

\* The sum, of which only the kind of number is kept.
TotalOf(values) ==
    CHOOSE v \in {"NaN", "Infinity", "positive", "zero"} :
        \/ v \in values /\ (v = "NaN" \/ "NaN" \notin values)
                        /\ (v = "positive" => "Infinity" \notin values)
                        /\ (v = "zero" => values = {"zero"})
        \/ values = {} /\ v = "zero"

-----------------------------------------------------------------------------
Init ==
    /\ today = 0 /\ market \in Prices /\ holdings = {}
    /\ pc = "count" /\ tokens = {} /\ answer = 0
    /\ likely = <<>> /\ spot = <<>>
    /\ ftsCount = 0 /\ ftsValue = "zero" /\ prices = [d \in Days |-> NoRow]
    /\ points = {} /\ moves = 0 /\ troubles = 0 /\ migrations = 0
    /\ seen = [d \in Days |-> IF d = 0 THEN {market} ELSE {}]
    /\ omitted = {} /\ oldest = 0 /\ valued = FALSE /\ disturbed = FALSE /\ late = {} /\ explained = {}

(* The token metrics                                                       *)

\* FtsCountMetric, the first token metric.
CountTokens ==
    /\ pc = "count"
    /\ likely' = <<Known>>
    /\ ftsCount' = Cardinality(Known)
    /\ pc' = "value"
    /\ UNCHANGED <<world, tokens, answer, spot, ftsValue, prices, migrate, troubles, ghosts>>

\* Mutant: the tokens are read again for the value.
ReadTokensAgain ==
    /\ pc = "value"
    /\ tokens' = LikelyTokens
    /\ pc' = "near"
    /\ UNCHANGED <<world, answer, kept, stored, migrate, troubles, ghosts>>

\* FtsValueLockedMetric: the tokens.
ReadTokens ==
    /\ pc = "value"
    /\ likely' = <<Known>>
    /\ tokens' = Known
    /\ pc' = "near"
    /\ UNCHANGED <<world, answer, spot, stored, migrate, troubles, ghosts>>

\* Sodaki answers, or has answered less than 30 seconds ago.
AskSodaki ==
    /\ answer' \in SpotPrices
    /\ spot' = <<answer'>>
    /\ oldest' = IF spot = <<>> THEN today ELSE oldest
    /\ omitted' = IF spot = <<>> /\ answer' = 0 THEN omitted \cup {today} ELSE omitted

\* The price of NEAR.
ReadNear ==
    /\ pc = "near"
    /\ AskSodaki
    /\ pc' = "balances"
    /\ valued' = TRUE
    /\ UNCHANGED <<world, tokens, likely, stored, migrate, troubles, disturbed, late, explained>>

\* Metadata, balance and price of every token; what the contract cannot say
\* is left out.
ValueTokens ==
    /\ pc = "balances"
    /\ \E balance \in [tokens -> {"unreadable", "0", "some"}], listed \in SUBSET tokens :
          ftsValue' = TotalOf({TokenValue(balance[t], t \in listed, answer) : t \in tokens})
    /\ pc' = "price" /\ tokens' = {} /\ answer' = 0
    /\ UNCHANGED <<world, kept, ftsCount, prices, migrate, troubles, ghosts>>

\* Mutant: a failed metric ends the run.
MetricFailsRun ==
    /\ pc \in {"count", "value", "near", "balances"}
    /\ troubles < MaxTroubles /\ troubles' = troubles + 1
    /\ pc' = "idle"
    /\ disturbed' = TRUE
    /\ UNCHANGED <<world, tokens, answer, kept, stored, migrate, omitted, oldest, valued, late, explained>>

\* A query or a call fails: the metric is logged and skipped.
MetricFails ==
    /\ pc \in {"count", "value", "near", "balances"}
    /\ troubles < MaxTroubles /\ troubles' = troubles + 1
    /\ pc' = IF pc = "count" THEN "value" ELSE "price"
    /\ tokens' = {} /\ answer' = 0
    /\ disturbed' = TRUE
    /\ UNCHANGED <<world, kept, stored, migrate, omitted, oldest, valued, late, explained>>

(* The loop over coins; NEAR in USD is the only pair                       *)

\* Mutant: a price of 0 is taken for an error.
AskPriceOrFallBack ==
    /\ pc = "price"
    /\ AskSodaki
    /\ pc' = IF answer' = 0 THEN "fallback" ELSE "save"
    /\ UNCHANGED <<world, tokens, likely, stored, migrate, troubles, valued, disturbed, late, explained>>

AskPrice ==
    /\ pc = "price"
    /\ AskSodaki
    /\ pc' = "save"
    /\ UNCHANGED <<world, tokens, likely, stored, migrate, troubles, valued, disturbed, late, explained>>

\* Only a request that is sent can fail.
SodakiFails ==
    /\ pc = "price"
    /\ spot = <<>>
    /\ pc' = "fallback"
    /\ UNCHANGED <<world, tokens, answer, kept, stored, migrate, troubles, ghosts>>

\* CoinGecko answers; without NEAR the price is undefined.
AskCoinGecko ==
    /\ pc = "fallback"
    /\ answer' \in {market, Undefined}
    /\ oldest' = today
    /\ omitted' = IF answer' = Undefined THEN omitted \cup {today} ELSE omitted
    /\ pc' = "save"
    /\ UNCHANGED <<world, tokens, kept, stored, migrate, troubles, valued, disturbed, late, explained>>

\* Mutant: the price is stored under the day it was asked.
SavePriceOfAsked ==
    /\ pc = "save"
    /\ prices' = [prices EXCEPT ![oldest] = IF answer = Undefined THEN 0 ELSE answer]
    /\ pc' = "clear" /\ answer' = 0
    /\ UNCHANGED <<world, tokens, kept, ftsCount, ftsValue, migrate, troubles, ghosts>>

\* createOrUpdate: the date is the one of the database, the price 0 by default.
SavePrice ==
    /\ pc = "save"
    /\ prices' = [prices EXCEPT ![today] = IF answer = Undefined THEN 0 ELSE answer]
    /\ pc' = "clear" /\ answer' = 0
    /\ UNCHANGED <<world, tokens, kept, ftsCount, ftsValue, migrate, troubles, ghosts>>

\* clearCache, and the run is over.
EndRun ==
    /\ pc = "clear"
    /\ pc' = "idle"
    /\ UNCHANGED <<world, tokens, answer, kept, stored, migrate, troubles, ghosts>>

\* CoinGecko fails too and nobody catches the error, or the process dies: it
\* comes up again with nothing in memory and waits for the next tick.
Crash ==
    /\ pc # "idle"
    /\ troubles < MaxTroubles /\ troubles' = troubles + 1
    /\ pc' = "idle" /\ tokens' = {} /\ answer' = 0
    /\ likely' = <<>> /\ spot' = <<>> /\ valued' = FALSE
    /\ explained' = explained \cup {today}
    /\ UNCHANGED <<world, stored, migrate, omitted, oldest, disturbed, late>>

\* 300 seconds are over.
TokensExpire ==
    /\ likely # <<>>
    /\ likely' = <<>>
    /\ disturbed' = TRUE
    /\ UNCHANGED <<world, run, spot, stored, migrate, troubles, omitted, oldest, valued, late, explained>>

\* 30 seconds are over.
SpotExpires ==
    /\ spot # <<>>
    /\ spot' = <<>> /\ valued' = FALSE
    /\ UNCHANGED <<world, run, likely, stored, migrate, troubles, omitted, oldest, disturbed, late, explained>>

(* The migration, a process of its own that keeps nothing                  *)

\* CoinGecko's prices from the first transaction until now.
ReadPoints ==
    /\ migrations < MaxMigrations /\ migrations' = migrations + 1
    /\ points = {}
    /\ points' \in SUBSET {point \in Days \X Prices : point[2] \in seen[point[1]]}
    /\ UNCHANGED <<world, run, kept, stored, troubles, ghosts>>

\* Mutant: the date of a point is left to the database.
WritePointUndated(point) ==
    /\ prices' = [prices EXCEPT ![today] = point[2]]
    /\ points' = points \ {point}
    /\ UNCHANGED <<world, run, kept, ftsCount, ftsValue, migrations, troubles, ghosts>>

\* The points are written at once, in any order.
WritePoint(point) ==
    /\ prices' = [prices EXCEPT ![point[1]] = point[2]]
    /\ points' = points \ {point}
    /\ UNCHANGED <<world, run, kept, ftsCount, ftsValue, migrations, troubles, ghosts>>

(* The world                                                               *)

\* The day ends and the job ticks; a run under way is left alone.  Bounds: an
\* answer is stored or forgotten within the day after it was given.
Midnight ==
    /\ today < MaxDay
    /\ spot # <<>> \/ pc \in {"balances", "save"} => oldest = today
    /\ today' = today + 1
    /\ seen' = [seen EXCEPT ![today + 1] = {market}]
    /\ pc' = IF pc = "idle" THEN "count" ELSE pc
    /\ disturbed' = (disturbed /\ pc # "idle")
    /\ valued' = (valued /\ pc # "idle")
    /\ late' = IF pc # "idle" \/ spot # <<>> THEN late \cup {today + 1} ELSE late
    /\ explained' = explained \cup (IF pc \in {"idle", "clear"} THEN {} ELSE {today})
                              \cup (IF pc = "idle" THEN {} ELSE {today + 1})
    /\ UNCHANGED <<market, holdings, moves, tokens, answer, kept, stored, migrate, troubles, omitted, oldest>>

Move(p) ==
    /\ moves < MaxMoves /\ moves' = moves + 1
    /\ market' = p
    /\ seen' = [seen EXCEPT ![today] = @ \cup {p}]
    /\ UNCHANGED <<today, holdings, run, kept, stored, migrate, troubles, ghosts>>

Arrive(token, way) ==
    /\ moves < MaxMoves /\ moves' = moves + 1
    /\ holdings' = holdings \cup {<<token, way>>}
    /\ UNCHANGED <<today, market, seen, run, kept, stored, migrate, troubles, ghosts>>

Run ==
    \/ CountTokens \/ ReadTokens \/ ReadNear \/ ValueTokens \/ MetricFails
    \/ AskPrice \/ SodakiFails \/ AskCoinGecko \/ SavePrice \/ EndRun
    \/ Crash \/ TokensExpire \/ SpotExpires

Next ==
    \/ Run
    \/ ReadPoints
    \/ \E point \in points : WritePoint(point)
    \/ Midnight
    \/ \E p \in Prices \ {market} : Move(p)
    \/ \E token \in Tokens, way \in Ways : Arrive(token, way)

Spec == Init /\ [][Next]_vars

-----------------------------------------------------------------------------
(* Readers                                                                 *)

\* findByDateRange: the days that have a row; a `from` of 0 is no limit.
PriceHistory(from, to) ==
    {d \in Days : (from = 0 \/ from <= d) /\ (to = 0 \/ d <= to) /\ prices[d] # NoRow}

-----------------------------------------------------------------------------
(* Properties                                                              *)

\* The price of a day is one NEAR had on that day, or on the day before when
\* midnight met a run under way or an answer that was kept; it is 0 only if a
\* service answered without NEAR on one of these days.  No fallback, stale
\* answer or late write of the migration makes it another day's price.
PriceOfItsDay ==
    \A d \in Days : prices[d] # NoRow =>
        \E e \in {d} \cup (IF d \in late THEN {d - 1} ELSE {}) :
            prices[d] \in seen[e] \/ (prices[d] = 0 /\ e \in omitted)

\* A run never changes the price of a day that is over; only the migration does.
PastPricesFinal ==
    [][points' = points => \A d \in 0 .. today - 1 : prices'[d] = prices[d]]_vars

\* While Sodaki's answer is kept, the price of the run is the one its token
\* values were divided by; so a run that leaves a value that is no number also
\* says that NEAR costs nothing, unless the migration has corrected the day.
OnePricePerRun ==
    (pc = "clear" /\ valued /\ migrations = 0) =>
        \E d \in {oldest, oldest + 1} \cap Days : prices[d] = spot[1]

\* Unless a metric failed or the list expired in between, a DAO with a token
\* value has a token count: both metrics work on one list.
ValueOfCountedTokens ==
    (pc = "price" /\ ~ disturbed) => (ftsValue # "zero" => ftsCount > 0)

\* A day that is over lacks a price only if its run died or was not done by
\* midnight: a failed metric or service costs no day.
GapsExplained ==
    \A d \in 0 .. today - 1 : d \notin PriceHistory(0, today) => d \in explained

=============================================================================
