--------------------------- MODULE PriceFeedProofs ---------------------------
(***************************************************************************)
(* Proofs about PriceFeed for any prices, tokens, days and bounds: a price *)
(* is one of its day, a run has one price, a value has a count, a day that *)
(* lacks a price is explained, and prices of past days are final.          *)
(***************************************************************************)
EXTENDS PriceFeed, FiniteSetTheorems, TLAPS

USE DEF NoRow, Undefined, Days, world, run, kept, stored, ghosts, migrate

PCs == {"idle", "count", "value", "near", "balances", "price", "fallback", "save", "clear"}
Values == {"NaN", "Infinity", "positive", "zero"}

-----------------------------------------------------------------------------
(* The inductive invariants                                                *)

\* Every variable has its type.
TypeOK ==
    /\ today \in Days /\ market \in Prices /\ holdings \subseteq Tokens \X Ways
    /\ pc \in PCs
    /\ tokens \subseteq Tokens
    /\ answer \in Prices \cup {0, Undefined} /\ (pc # "save" => answer # Undefined)
    /\ likely # <<>> => likely[1] \subseteq Tokens
    /\ spot # <<>> => spot[1] \in Prices \cup {0}
    /\ ftsValue \in Values
    /\ prices \in [Days -> Prices \cup {0, NoRow}]
    /\ points \subseteq Days \X Prices
    /\ seen \in [Days -> SUBSET Prices]
    /\ oldest \in Days /\ late \subseteq 1 .. MaxDay
    /\ migrations \in Nat
    /\ valued \in BOOLEAN /\ disturbed \in BOOLEAN

\* NEAR had the price p on day e, or a service that was asked left it out.
PriceOn(p, e) == p \in seen[e] \/ (p = 0 /\ e \in omitted)
InHand == IF answer = Undefined THEN 0 ELSE answer

\* An answer that is kept or about to be stored or divided by is of today, or of
\* yesterday when midnight met it.
Live == spot # <<>> \/ pc \in {"balances", "save"}
Fresh == oldest = today \/ (oldest = today - 1 /\ today \in late)

\* What is known of the answers in hand, kept, and loaded by the migration, and
\* of the days to come.
AnswersOK ==
    /\ Live => Fresh
    /\ spot # <<>> => PriceOn(spot[1], oldest)
    /\ pc = "save" => PriceOn(InHand, oldest)
    /\ pc = "fallback" => spot = <<>>
    /\ \A point \in points : point[2] \in seen[point[1]]
    /\ market \in seen[today]
    /\ \A d \in Days : d > today => seen[d] = {}

\* The price of the run is the one its values were divided by.
RunOK ==
    /\ valued => spot # <<>>
    /\ pc = "save" /\ valued => answer = spot[1]
    /\ migrations = 0 => points = {}

\* Both token metrics of an undisturbed sweep work on one list.
CountOK ==
    ~ disturbed =>
        /\ pc = "value" => likely # <<>> /\ ftsCount = Cardinality(likely[1])
        /\ pc \in {"near", "balances"} => ftsCount = Cardinality(tokens)

\* A run that is over has stored the price of the day.
DoneOK == pc \in {"idle", "clear"} => prices[today] # NoRow \/ today \in explained

-----------------------------------------------------------------------------
(* Types                                                                   *)

\* The numbers that stand for something else are no prices.
LEMMA NoPrices == 0 \notin Prices /\ Undefined \notin Prices /\ NoRow \notin Prices
BY ConstantsAssumption

\* The tokens a metric sees are tokens, read now or kept.
LEMMA KnownTokens == TypeOK => LikelyTokens \subseteq Tokens /\ Known \subseteq Tokens
BY DEF TypeOK, LikelyTokens, Known

\* A sum is of one of the kinds of its summands, and zero if there is none.
LEMMA TotalFacts ==
    ASSUME NEW values \in SUBSET Values
    PROVE  TotalOf(values) \in Values /\ (values = {} => TotalOf(values) = "zero")
<1> DEFINE P(v) == \/ v \in values /\ (v = "NaN" \/ "NaN" \notin values)
                                  /\ (v = "positive" => "Infinity" \notin values)
                                  /\ (v = "zero" => values = {"zero"})
                   \/ values = {} /\ v = "zero"
<1>1. \E v \in Values : P(v)
  <2>1. CASE values = {}
    BY <2>1 DEF Values
  <2>2. CASE "NaN" \in values
    BY <2>2 DEF Values
  <2>3. CASE "NaN" \notin values /\ "Infinity" \in values
    BY <2>3 DEF Values
  <2>4. CASE "NaN" \notin values /\ "Infinity" \notin values /\ "positive" \in values
    BY <2>4 DEF Values
  <2>5. CASE values # {} /\ values \subseteq {"zero"}
    BY <2>5 DEF Values
  <2> QED
    BY <2>1, <2>2, <2>3, <2>4, <2>5 DEF Values
<1>2. TotalOf(values) = CHOOSE v \in Values : P(v)
  BY DEF TotalOf, Values
<1>3. TotalOf(values) \in Values /\ P(TotalOf(values))
  BY <1>1, <1>2
<1> QED
  BY <1>3

\* The value of a token is of one of the kinds.
LEMMA TokenValueType ==
    ASSUME NEW balance \in {"unreadable", "0", "some"}, NEW listed \in BOOLEAN,
           NEW near \in Nat
    PROVE  TokenValue(balance, listed, near) \in Values
BY DEF TokenValue, Values

\* Initially every variable has its type.
LEMMA InitType == Init => TypeOK
BY ConstantsAssumption DEF Init, TypeOK, PCs, Values

\* Every step of a run keeps the types.
LEMMA RunType == ASSUME TypeOK, Run PROVE TypeOK'
<1> USE DEF TypeOK, PCs
<1>1. CASE CountTokens
  BY <1>1, KnownTokens DEF CountTokens
<1>2. CASE ReadTokens
  BY <1>2, KnownTokens DEF ReadTokens
<1>3. ASSUME AskSodaki, UNCHANGED today
      PROVE  /\ answer' \in Prices \cup {0} /\ answer' # Undefined
             /\ spot' # <<>> /\ spot'[1] \in Prices \cup {0}
             /\ oldest' \in Days
  BY <1>3, NoPrices DEF AskSodaki, SpotPrices
<1>4. CASE ReadNear
  BY <1>3, <1>4 DEF ReadNear
<1>5. CASE ValueTokens
  <2>1. ftsValue' \in Values
    <3>1. PICK balance \in [tokens -> {"unreadable", "0", "some"}], listed \in SUBSET tokens :
             ftsValue' = TotalOf({TokenValue(balance[t], t \in listed, answer) : t \in tokens})
      BY <1>5 DEF ValueTokens
    <3>2. answer \in Nat
      BY <1>5, ConstantsAssumption DEF ValueTokens
    <3>3. \A t \in tokens : TokenValue(balance[t], t \in listed, answer) \in Values
      <4> SUFFICES ASSUME NEW t \in tokens
                   PROVE  TokenValue(balance[t], t \in listed, answer) \in Values
        OBVIOUS
      <4>1. balance[t] \in {"unreadable", "0", "some"} /\ (t \in listed) \in BOOLEAN
        BY <3>1
      <4> QED
        BY <3>2, <4>1, TokenValueType, Zenon
    <3> QED
      BY <3>1, <3>3, TotalFacts
  <2> QED
    BY <1>5, <2>1, NoPrices DEF ValueTokens
<1>6. CASE MetricFails
  BY <1>6, NoPrices DEF MetricFails
<1>7. CASE AskPrice
  BY <1>3, <1>7 DEF AskPrice
<1>8. CASE SodakiFails
  BY <1>8 DEF SodakiFails
<1>9. CASE AskCoinGecko
  BY <1>9 DEF AskCoinGecko
<1>10. CASE SavePrice
  BY <1>10, NoPrices DEF SavePrice
<1>11. CASE EndRun
  BY <1>11 DEF EndRun
<1>12. CASE Crash
  <2>1. answer' \in Prices \cup {0, Undefined} /\ answer' # Undefined /\ spot' = <<>> /\ likely' = <<>>
    BY <1>12 DEF Crash
  <2> QED
    BY <1>12, <2>1 DEF Crash
<1>13. CASE TokensExpire
  BY <1>13 DEF TokensExpire
<1>14. CASE SpotExpires
  BY <1>14 DEF SpotExpires
<1> QED
  BY <1>1, <1>2, <1>4, <1>5, <1>6, <1>7, <1>8, <1>9, <1>10, <1>11, <1>12, <1>13, <1>14 DEF Run

\* So do the other steps.
LEMMA OtherType == ASSUME TypeOK, [Next]_vars, ~ Run PROVE TypeOK'
<1> USE DEF TypeOK, PCs
<1>1. CASE ReadPoints
  BY <1>1 DEF ReadPoints
<1>2. ASSUME NEW point \in points, WritePoint(point) PROVE TypeOK'
  BY <1>2 DEF WritePoint
<1>3. CASE Midnight
  <2>1. today' \in Days /\ market \in Prices
    BY <1>3, ConstantsAssumption DEF Midnight
  <2> QED
    BY <1>3, <2>1 DEF Midnight
<1>4. ASSUME NEW p \in Prices, Move(p) PROVE TypeOK'
  BY <1>4 DEF Move
<1>5. ASSUME NEW token \in Tokens, NEW way \in Ways, Arrive(token, way) PROVE TypeOK'
  BY <1>5 DEF Arrive
<1>6. CASE UNCHANGED vars
  BY <1>6 DEF vars
<1> QED
  BY <1>1, <1>2, <1>3, <1>4, <1>5, <1>6 DEF Next

\* Every variable keeps its type.
THEOREM TypeCorrect == Spec => []TypeOK
<1>1. TypeOK /\ [Next]_vars => TypeOK'
  BY RunType, OtherType
<1> QED
  BY <1>1, InitType, PTL DEF Spec

-----------------------------------------------------------------------------
(* The answers in hand, kept and loaded                                    *)

\* What is known of the past is not forgotten.
LEMMA PastStays ==
    ASSUME TypeOK, AnswersOK, [Next]_vars
    PROVE  /\ \A d \in Days : seen[d] \subseteq seen'[d]
           /\ omitted \subseteq omitted' /\ late \subseteq late'
<1> USE DEF TypeOK
<1>1. ASSUME AskSodaki PROVE omitted \subseteq omitted'
  BY <1>1 DEF AskSodaki
<1>2. CASE Run
  BY <1>1, <1>2 DEF Run, CountTokens, ReadTokens, ReadNear, ValueTokens, MetricFails, AskPrice,
     SodakiFails, AskCoinGecko, SavePrice, EndRun, Crash, TokensExpire, SpotExpires
<1>3. CASE Midnight
  <2>1. seen[today + 1] = {}
    BY <1>3, ConstantsAssumption DEF Midnight, AnswersOK
  <2> QED
    BY <1>3, <2>1 DEF Midnight
<1>4. ASSUME NEW p \in Prices, Move(p) PROVE \A d \in Days : seen[d] \subseteq seen'[d]
  BY <1>4 DEF Move
<1>5. CASE ~ Run /\ ~ Midnight /\ ~ \E p \in Prices \ {market} : Move(p)
  BY <1>5 DEF Next, vars, ReadPoints, WritePoint, Arrive
<1> QED
  BY <1>2, <1>3, <1>4, <1>5 DEF Move

\* Sodaki's answer is of its day, whether it is given now or was kept.
LEMMA AskFacts ==
    ASSUME TypeOK, AnswersOK, AskSodaki, UNCHANGED <<today, seen, late>>
    PROVE  /\ (PriceOn(spot[1], oldest))' /\ spot' = <<answer'>>
           /\ (PriceOn(InHand, oldest))' /\ answer' # Undefined
           /\ Fresh'
<1>1. spot' = <<answer'>> /\ answer' \in SpotPrices
  BY DEF AskSodaki
<1>2. answer' # Undefined /\ (InHand)' = answer'
  BY <1>1, NoPrices DEF TypeOK, SpotPrices, InHand
<1>3. CASE spot = <<>>
  BY <1>1, <1>2, <1>3 DEF AskSodaki, SpotPrices, AnswersOK, PriceOn, Fresh
<1>4. CASE spot # <<>>
  BY <1>1, <1>2, <1>4 DEF AskSodaki, SpotPrices, AnswersOK, PriceOn, Fresh, Live
<1> QED
  BY <1>3, <1>4

\* Initially nothing is in hand.
LEMMA InitAnswers == Init => AnswersOK
BY ConstantsAssumption DEF Init, AnswersOK, Live

\* The parts of AnswersOK that a run cannot disturb.
LEMMA WorldAnswers ==
    ASSUME AnswersOK, Run
    PROVE  /\ \A point \in points' : point[2] \in seen'[point[1]]
           /\ market' \in seen'[today']
           /\ \A d \in Days : d > today' => seen'[d] = {}
<1>1. UNCHANGED <<world, points>>
  BY DEF Run, CountTokens, ReadTokens, ReadNear, ValueTokens, MetricFails, AskPrice,
     SodakiFails, AskCoinGecko, SavePrice, EndRun, Crash, TokensExpire, SpotExpires
<1> QED
  BY <1>1 DEF AnswersOK

\* Every step of a run keeps the answers apart by their days.
LEMMA RunAnswers == ASSUME TypeOK, AnswersOK, Run PROVE AnswersOK'
<1> DEFINE Answers == /\ Live => Fresh
                      /\ spot # <<>> => PriceOn(spot[1], oldest)
                      /\ pc = "save" => PriceOn(InHand, oldest)
                      /\ pc = "fallback" => spot = <<>>
<1> SUFFICES Answers'
  BY WorldAnswers DEF AnswersOK
<1>0. Answers
  BY DEF AnswersOK
<1>1. CASE ReadNear
  <2>1. AskSodaki /\ pc' = "balances" /\ UNCHANGED <<today, seen, late>>
    BY <1>1 DEF ReadNear
  <2> QED
    BY <2>1, AskFacts
<1>2. CASE AskPrice
  <2>1. AskSodaki /\ pc' = "save" /\ UNCHANGED <<today, seen, late>>
    BY <1>2 DEF AskPrice
  <2> QED
    BY <2>1, AskFacts
<1>3. CASE AskCoinGecko
  <2>1. spot = <<>> /\ spot' = <<>> /\ pc' = "save" /\ oldest' = today'
    BY <1>0, <1>3 DEF AskCoinGecko
  <2>2. (PriceOn(InHand, oldest))'
    BY <1>3, NoPrices DEF AskCoinGecko, PriceOn, InHand, AnswersOK, TypeOK
  <2> QED
    BY <2>1, <2>2 DEF Fresh
<1>4. CASE SpotExpires
  BY <1>0, <1>4 DEF SpotExpires, Live, Fresh, PriceOn, InHand
<1>5. CASE Crash
  BY <1>0, <1>5 DEF Crash, Live, Fresh, PriceOn, InHand
<1>6. CASE SodakiFails
  BY <1>0, <1>6 DEF SodakiFails, Live, Fresh, PriceOn, InHand
<1>7. CASE CountTokens \/ ReadTokens \/ MetricFails \/ TokensExpire
  BY <1>0, <1>7 DEF CountTokens, ReadTokens, MetricFails, TokensExpire, Live, Fresh, PriceOn, InHand
<1>8. CASE ValueTokens \/ SavePrice \/ EndRun
  BY <1>0, <1>8 DEF ValueTokens, SavePrice, EndRun, Live, Fresh, PriceOn, InHand
<1> QED
  BY <1>1, <1>2, <1>3, <1>4, <1>5, <1>6, <1>7, <1>8 DEF Run

\* So do the other steps: a midnight that meets an answer is remembered.
LEMMA OtherAnswers == ASSUME TypeOK, AnswersOK, [Next]_vars, ~ Run PROVE AnswersOK'
<1> USE DEF AnswersOK, Live, Fresh, PriceOn, InHand
<1>1. CASE ReadPoints
  BY <1>1 DEF ReadPoints
<1>2. ASSUME NEW point \in points, WritePoint(point) PROVE AnswersOK'
  BY <1>2 DEF WritePoint
<1>3. CASE Midnight
  <2>1. /\ today' = today + 1 /\ today' \in Days /\ today \in Int
        /\ seen' = [seen EXCEPT ![today + 1] = {market}]
        /\ seen \in [Days -> SUBSET Prices]
    BY <1>3, ConstantsAssumption DEF Midnight, TypeOK
  <2>2. /\ market' \in seen'[today']
        /\ \A d \in Days : d > today' => seen'[d] = {}
        /\ \A d \in Days : seen[d] \subseteq seen'[d]
    BY <1>3, <2>1 DEF Midnight
  <2>3. Live' => Fresh'
    <3>1. CASE spot # <<>> \/ pc \in {"balances", "save"}
      <4>1. oldest' = today
        BY <1>3, <3>1 DEF Midnight
      <4>2. today' \in late'
        BY <1>3, <2>1, <3>1 DEF Midnight
      <4> QED
        BY <2>1, <4>1, <4>2
    <3>2. CASE ~ Live
      BY <1>3, <3>2 DEF Midnight
    <3> QED
      BY <3>1, <3>2
  <2>4. /\ spot' # <<>> => (PriceOn(spot[1], oldest))'
        /\ pc' = "save" => (PriceOn(InHand, oldest))'
        /\ pc' = "fallback" => spot' = <<>>
        /\ \A point \in points' : point[2] \in seen'[point[1]]
    BY <1>3, <2>2 DEF Midnight, TypeOK
  <2> QED
    BY <2>2, <2>3, <2>4
<1>4. ASSUME NEW p \in Prices, Move(p) PROVE AnswersOK'
  BY <1>4 DEF Move, TypeOK
<1>5. ASSUME NEW token \in Tokens, NEW way \in Ways, Arrive(token, way) PROVE AnswersOK'
  BY <1>5 DEF Arrive
<1>6. CASE UNCHANGED vars
  BY <1>6 DEF vars
<1> QED
  BY <1>1, <1>2, <1>3, <1>4, <1>5, <1>6 DEF Next

\* The answers are apart by their days at any time.
LEMMA AnswersInvariant == Spec => [](TypeOK /\ AnswersOK)
<1>1. TypeOK /\ AnswersOK /\ [Next]_vars => (TypeOK /\ AnswersOK)'
  BY RunType, OtherType, RunAnswers, OtherAnswers
<1> QED
  BY <1>1, InitType, InitAnswers, PTL DEF Spec

\* Only a price that is stored and a point that is written change the prices.
LEMMA PriceStep ==
    ASSUME TypeOK, [Next]_vars
    PROVE  \/ SavePrice
           \/ \E point \in points : WritePoint(point)
           \/ prices' = prices
BY DEF Next, Run, vars, CountTokens, ReadTokens, ReadNear, ValueTokens, MetricFails, AskPrice,
   SodakiFails, AskCoinGecko, EndRun, Crash, TokensExpire, SpotExpires, ReadPoints, Midnight,
   Move, Arrive

\* The price of a day is one of that day, or of the day before when midnight met a
\* run or an answer that was kept: what is stored is in hand, and that is of its day.
THEOREM PricesOfTheirDays == Spec => []PriceOfItsDay
<1> DEFINE Near(d) == {d} \cup (IF d \in late THEN {d - 1} ELSE {})
           Good(p, d) == \E e \in Near(d) : PriceOn(p, e)
           StaysGood(p, d) == \E e \in (Near(d))' : p \in seen'[e] \/ (p = 0 /\ e \in omitted')
<1>1. Init => PriceOfItsDay
  BY DEF Init, PriceOfItsDay
<1>2. ASSUME TypeOK, AnswersOK, PriceOfItsDay, [Next]_vars PROVE PriceOfItsDay'
  <2>1. ASSUME NEW d \in Days, NEW p, Good(p, d) PROVE StaysGood(p, d)
    <3>1. PICK e \in Near(d) : PriceOn(p, e)
      BY <2>1
    <3>2. e \in Days
      BY <1>2, <3>1, ConstantsAssumption DEF TypeOK
    <3>3. seen[e] \subseteq seen'[e] /\ omitted \subseteq omitted' /\ late \subseteq late'
      BY <1>2, <3>2, PastStays
    <3> QED
      BY <3>1, <3>3 DEF PriceOn
  <2>2. \A d \in Days : prices[d] # NoRow => StaysGood(prices[d], d)
    BY <1>2, <2>1 DEF PriceOfItsDay, PriceOn
  <2>3. ASSUME NEW d \in Days, NEW p, Good(p, d), prices' = [prices EXCEPT ![d] = p]
        PROVE  PriceOfItsDay'
    <3>1. prices'[d] = p /\ \A e \in Days \ {d} : prices'[e] = prices[e]
      BY <1>2, <2>3 DEF TypeOK
    <3> QED
      BY <2>1, <2>2, <2>3, <3>1 DEF PriceOfItsDay
  <2>4. CASE SavePrice
    <3>1. prices' = [prices EXCEPT ![today] = InHand] /\ today \in Days
      BY <1>2, <2>4 DEF SavePrice, InHand, TypeOK
    <3>2. Good(InHand, today)
      BY <1>2, <2>4 DEF SavePrice, AnswersOK, Live, Fresh
    <3> QED
      BY <2>3, <3>1, <3>2
  <2>5. ASSUME NEW point \in points, WritePoint(point) PROVE PriceOfItsDay'
    <3>1. prices' = [prices EXCEPT ![point[1]] = point[2]] /\ point[1] \in Days
      BY <1>2, <2>5 DEF WritePoint, TypeOK
    <3>2. Good(point[2], point[1])
      BY <1>2 DEF AnswersOK, PriceOn
    <3> QED
      BY <2>3, <3>1, <3>2
  <2>6. CASE prices' = prices
    BY <2>2, <2>6 DEF PriceOfItsDay
  <2> QED
    BY <1>2, <2>4, <2>5, <2>6, PriceStep
<1> QED
  BY <1>1, <1>2, AnswersInvariant, PTL DEF Spec

\* Only the migration changes the price of a day that is over: a run stores under
\* the date of the database, whenever its answer was given.
THEOREM PastPricesStay == Spec => PastPricesFinal
<1>1. ASSUME TypeOK, [Next]_vars, points' = points
      PROVE  \A d \in 0 .. today - 1 : prices'[d] = prices[d]
  <2>1. CASE SavePrice
    BY <1>1, <2>1, ConstantsAssumption DEF SavePrice, TypeOK
  <2>2. ASSUME NEW point \in points, WritePoint(point) PROVE FALSE
    BY <1>1, <2>2 DEF WritePoint
  <2> QED
    BY <1>1, <2>1, <2>2, PriceStep
<1> QED
  BY <1>1, TypeCorrect, PTL DEF Spec, PastPricesFinal

-----------------------------------------------------------------------------
(* The price of a run                                                      *)

\* Every step keeps the price a run works with.
LEMMA RunStep == ASSUME TypeOK, AnswersOK, RunOK, [Next]_vars PROVE RunOK'
<1> USE DEF RunOK
<1>1. ASSUME AskSodaki PROVE spot' = <<answer'>>
  BY <1>1 DEF AskSodaki
<1>2. CASE ReadNear \/ AskPrice
  BY <1>1, <1>2 DEF ReadNear, AskPrice
<1>3. CASE AskCoinGecko
  BY <1>3 DEF AskCoinGecko, AnswersOK
<1>4. CASE CountTokens \/ ReadTokens \/ ValueTokens \/ MetricFails \/ SodakiFails
  BY <1>4 DEF CountTokens, ReadTokens, ValueTokens, MetricFails, SodakiFails
<1>5. CASE SavePrice \/ EndRun \/ Crash \/ TokensExpire \/ SpotExpires
  BY <1>5 DEF SavePrice, EndRun, Crash, TokensExpire, SpotExpires
<1>6. CASE ReadPoints
  BY <1>6 DEF ReadPoints, TypeOK
<1>7. ASSUME NEW point \in points, WritePoint(point) PROVE RunOK'
  BY <1>7 DEF WritePoint
<1>8. CASE Midnight
  BY <1>8 DEF Midnight
<1>9. ASSUME NEW p \in Prices, Move(p) PROVE RunOK'
  BY <1>9 DEF Move
<1>10. ASSUME NEW token \in Tokens, NEW way \in Ways, Arrive(token, way) PROVE RunOK'
  BY <1>10 DEF Arrive
<1>11. CASE UNCHANGED vars
  BY <1>11 DEF vars
<1> QED
  BY <1>2, <1>3, <1>4, <1>5, <1>6, <1>7, <1>8, <1>9, <1>10, <1>11 DEF Next, Run

\* While Sodaki's answer is kept, a run that is about to clear the cache has stored
\* the price its token values were divided by.
PriceStored == \E d \in {oldest, oldest + 1} \cap Days : prices[d] = spot[1]

\* Every step keeps it.
LEMMA PriceStoredStep ==
    ASSUME TypeOK, AnswersOK, RunOK, OnePricePerRun, [Next]_vars
    PROVE  OnePricePerRun'
<1> SUFFICES ASSUME pc' = "clear", valued', migrations' = 0
             PROVE  PriceStored'
  BY DEF OnePricePerRun, PriceStored
<1> USE DEF PriceStored
<1>0. pc = "clear" /\ valued /\ migrations = 0 => PriceStored
  BY DEF OnePricePerRun
<1>1. CASE SavePrice
  <2>1. valued /\ answer = spot[1] /\ spot[1] # Undefined /\ today \in Days
    BY <1>1, NoPrices DEF SavePrice, RunOK, TypeOK
  <2>2. prices'[today] = spot[1] /\ spot' = spot /\ oldest' = oldest
    BY <1>1, <2>1 DEF SavePrice, TypeOK
  <2>3. today \in {oldest, oldest + 1}
    BY <1>1, <2>1 DEF SavePrice, AnswersOK, Live, Fresh, TypeOK
  <2> QED
    BY <2>1, <2>2, <2>3
<1>2. CASE SpotExpires \/ TokensExpire
  BY <1>0, <1>2 DEF SpotExpires, TokensExpire
<1>3. CASE CountTokens \/ ReadTokens \/ ReadNear \/ ValueTokens \/ MetricFails \/ AskPrice
  BY <1>3 DEF CountTokens, ReadTokens, ReadNear, ValueTokens, MetricFails, AskPrice
<1>4. CASE SodakiFails \/ AskCoinGecko \/ EndRun \/ Crash
  BY <1>4 DEF SodakiFails, AskCoinGecko, EndRun, Crash
<1>5. CASE ReadPoints
  BY <1>5 DEF ReadPoints, TypeOK
<1>6. ASSUME NEW point \in points, WritePoint(point) PROVE FALSE
  BY <1>6 DEF WritePoint, RunOK
<1>7. CASE Midnight
  BY <1>0, <1>7 DEF Midnight
<1>8. ASSUME NEW p \in Prices, Move(p) PROVE PriceStored'
  BY <1>0, <1>8 DEF Move
<1>9. ASSUME NEW token \in Tokens, NEW way \in Ways, Arrive(token, way) PROVE PriceStored'
  BY <1>0, <1>9 DEF Arrive
<1>10. CASE UNCHANGED vars
  BY <1>0, <1>10 DEF vars
<1> QED
  BY <1>1, <1>2, <1>3, <1>4, <1>5, <1>6, <1>7, <1>8, <1>9, <1>10 DEF Next, Run

\* The price of a run is the one its token values were divided by.
THEOREM OnePrice == Spec => []OnePricePerRun
<1>1. Init => RunOK /\ OnePricePerRun
  BY DEF Init, RunOK, OnePricePerRun
<1>2. TypeOK /\ AnswersOK /\ RunOK /\ OnePricePerRun /\ [Next]_vars => (RunOK /\ OnePricePerRun)'
  BY RunStep, PriceStoredStep
<1> QED
  BY <1>1, <1>2, AnswersInvariant, PTL DEF Spec

-----------------------------------------------------------------------------
(* Count and value of the tokens                                           *)

\* What the two metrics and the price of the run leave alone.
LEMMA CountStep == ASSUME TypeOK, CountOK, [Next]_vars PROVE CountOK'
<1> USE DEF CountOK
<1>1. CASE CountTokens
  BY <1>1 DEF CountTokens
<1>2. CASE ReadTokens
  BY <1>2 DEF ReadTokens, Known
<1>3. CASE ReadNear \/ ValueTokens \/ MetricFails \/ AskPrice \/ SodakiFails
  BY <1>3 DEF ReadNear, ValueTokens, MetricFails, AskPrice, SodakiFails
<1>4. CASE AskCoinGecko \/ SavePrice \/ EndRun \/ Crash
  BY <1>4 DEF AskCoinGecko, SavePrice, EndRun, Crash
<1>5. CASE TokensExpire \/ SpotExpires
  BY <1>5 DEF TokensExpire, SpotExpires
<1>6. CASE ReadPoints
  BY <1>6 DEF ReadPoints
<1>7. ASSUME NEW point \in points, WritePoint(point) PROVE CountOK'
  BY <1>7 DEF WritePoint
<1>8. CASE Midnight
  BY <1>8 DEF Midnight
<1>9. ASSUME NEW p \in Prices, Move(p) PROVE CountOK'
  BY <1>9 DEF Move
<1>10. ASSUME NEW token \in Tokens, NEW way \in Ways, Arrive(token, way) PROVE CountOK'
  BY <1>10 DEF Arrive
<1>11. CASE UNCHANGED vars
  BY <1>11 DEF vars
<1> QED
  BY <1>1, <1>2, <1>3, <1>4, <1>5, <1>6, <1>7, <1>8, <1>9, <1>10, <1>11 DEF Next, Run

\* A value that is not zero is the sum over tokens that were counted.
LEMMA ValueStep ==
    ASSUME TypeOK, CountOK, ValueOfCountedTokens, [Next]_vars
    PROVE  ValueOfCountedTokens'
<1> USE DEF ValueOfCountedTokens
<1>1. CASE ValueTokens
  <2> SUFFICES ASSUME ~ disturbed, ftsValue' # "zero" PROVE ftsCount > 0
    BY <1>1 DEF ValueTokens
  <2>1. tokens # {}
    <3>1. PICK balance \in [tokens -> {"unreadable", "0", "some"}], listed \in SUBSET tokens :
             ftsValue' = TotalOf({TokenValue(balance[t], t \in listed, answer) : t \in tokens})
      BY <1>1 DEF ValueTokens
    <3>2. tokens = {} => {TokenValue(balance[t], t \in listed, answer) : t \in tokens} = {}
      OBVIOUS
    <3>3. TotalOf({}) = "zero"
      BY TotalFacts
    <3> QED
      BY <3>1, <3>2, <3>3
  <2>2. IsFiniteSet(tokens)
    BY ConstantsAssumption, FS_Subset DEF TypeOK
  <2>3. ftsCount = Cardinality(tokens)
    BY <1>1 DEF ValueTokens, CountOK
  <2>4. Cardinality(tokens) \in Nat /\ Cardinality(tokens) # 0
    BY <2>1, <2>2, FS_CardinalityType, FS_EmptySet
  <2> QED
    BY <2>3, <2>4
<1>2. CASE CountTokens \/ ReadTokens \/ ReadNear
  BY <1>2 DEF CountTokens, ReadTokens, ReadNear
<1>3. CASE MetricFails
  BY <1>3 DEF MetricFails
<1>4. CASE AskPrice \/ SodakiFails \/ AskCoinGecko \/ SavePrice \/ EndRun
  BY <1>4 DEF AskPrice, SodakiFails, AskCoinGecko, SavePrice, EndRun
<1>5. CASE Crash \/ TokensExpire \/ SpotExpires
  BY <1>5 DEF Crash, TokensExpire, SpotExpires
<1>6. CASE ReadPoints
  BY <1>6 DEF ReadPoints
<1>7. ASSUME NEW point \in points, WritePoint(point) PROVE ValueOfCountedTokens'
  BY <1>7 DEF WritePoint
<1>8. CASE Midnight
  BY <1>8 DEF Midnight
<1>9. ASSUME NEW p \in Prices, Move(p) PROVE ValueOfCountedTokens'
  BY <1>9 DEF Move
<1>10. ASSUME NEW token \in Tokens, NEW way \in Ways, Arrive(token, way)
       PROVE  ValueOfCountedTokens'
  BY <1>10 DEF Arrive
<1>11. CASE UNCHANGED vars
  BY <1>11 DEF vars
<1> QED
  BY <1>1, <1>2, <1>3, <1>4, <1>5, <1>6, <1>7, <1>8, <1>9, <1>10, <1>11 DEF Next, Run

\* In a sweep that was not disturbed a token value has a token count.
THEOREM ValuesCounted == Spec => []ValueOfCountedTokens
<1>1. Init => CountOK /\ ValueOfCountedTokens
  BY DEF Init, CountOK, ValueOfCountedTokens
<1>2. TypeOK /\ CountOK /\ ValueOfCountedTokens /\ [Next]_vars => (CountOK /\ ValueOfCountedTokens)'
  BY CountStep, ValueStep
<1> QED
  BY <1>1, <1>2, TypeCorrect, PTL DEF Spec

-----------------------------------------------------------------------------
(* Days without a price                                                    *)

\* A row of the prices is never taken back.
LEMMA RowsStay ==
    ASSUME TypeOK, [Next]_vars
    PROVE  \A d \in Days : prices[d] # NoRow => prices'[d] # NoRow
<1>1. CASE SavePrice
  BY <1>1, NoPrices DEF SavePrice, TypeOK
<1>2. ASSUME NEW point \in points, WritePoint(point)
      PROVE  \A d \in Days : prices[d] # NoRow => prices'[d] # NoRow
  BY <1>2, NoPrices DEF WritePoint, TypeOK
<1> QED
  BY <1>1, <1>2, PriceStep

\* A day that ends without a price has an explanation then, and keeps it.
Gaps == \A d \in 0 .. today - 1 : prices[d] # NoRow \/ d \in explained

\* Every step keeps both.
LEMMA GapsStep == ASSUME TypeOK, DoneOK, Gaps, [Next]_vars PROVE DoneOK' /\ Gaps'
<1>1. explained \subseteq explained'
  BY DEF Next, Run, vars, CountTokens, ReadTokens, ReadNear, ValueTokens, MetricFails, AskPrice,
     SodakiFails, AskCoinGecko, SavePrice, EndRun, Crash, TokensExpire, SpotExpires, ReadPoints,
     WritePoint, Midnight, Move, Arrive
<1>2. CASE Midnight
  <2>1. today \in Nat /\ today' = today + 1 /\ prices' = prices
    BY <1>2, ConstantsAssumption DEF Midnight, TypeOK
  <2>2. pc \notin {"idle", "clear"} => today \in explained'
    BY <1>2 DEF Midnight
  <2>3. prices[today] # NoRow \/ today \in explained'
    BY <1>1, <2>2 DEF DoneOK
  <2>4. Gaps'
    <3>1. \A d \in 0 .. today' - 1 : d \in 0 .. today - 1 \/ d = today
      BY <2>1
    <3> QED
      BY <1>1, <2>1, <2>3, <3>1 DEF Gaps
  <2>5. DoneOK'
    BY <1>2 DEF Midnight, DoneOK
  <2> QED
    BY <2>4, <2>5
<1>3. CASE ~ Midnight
  <2>1. today' = today
    BY <1>3 DEF Next, Run, vars, CountTokens, ReadTokens, ReadNear, ValueTokens, MetricFails,
       AskPrice, SodakiFails, AskCoinGecko, SavePrice, EndRun, Crash, TokensExpire, SpotExpires,
       ReadPoints, WritePoint, Move, Arrive
  <2>2. Gaps'
    <3>1. today \in Days /\ 0 .. today - 1 \subseteq Days
      BY ConstantsAssumption DEF TypeOK
    <3> QED
      BY <1>1, <2>1, <3>1, RowsStay DEF Gaps
  <2>3. CASE SavePrice
    BY <2>1, <2>2, <2>3, NoPrices DEF SavePrice, DoneOK, TypeOK
  <2>4. CASE Crash
    BY <2>2, <2>4 DEF Crash, DoneOK
  <2>5. CASE ~ SavePrice /\ ~ Crash
    <3>1. pc' \in {"idle", "clear"} => pc \in {"idle", "clear"}
      BY <1>3, <2>5 DEF Next, Run, vars, CountTokens, ReadTokens, ReadNear, ValueTokens,
         MetricFails, AskPrice, SodakiFails, AskCoinGecko, EndRun, TokensExpire, SpotExpires,
         ReadPoints, WritePoint, Move, Arrive
    <3>2. today \in Days
      BY DEF TypeOK
    <3> QED
      BY <1>1, <2>1, <2>2, <3>1, <3>2, RowsStay DEF DoneOK
  <2> QED
    BY <2>2, <2>3, <2>4, <2>5
<1> QED
  BY <1>2, <1>3

\* A day that is over lacks a price only if its run died or was not done by midnight.
THEOREM GapsHaveReasons == Spec => []GapsExplained
<1>1. Init => DoneOK /\ Gaps
  BY DEF Init, DoneOK, Gaps
<1>2. TypeOK /\ DoneOK /\ Gaps /\ [Next]_vars => (DoneOK /\ Gaps)'
  BY GapsStep
<1>3. TypeOK /\ Gaps => GapsExplained
  BY ConstantsAssumption DEF TypeOK, Gaps, GapsExplained, PriceHistory
<1> QED
  BY <1>1, <1>2, <1>3, TypeCorrect, PTL DEF Spec

=============================================================================
