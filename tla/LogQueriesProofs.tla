-------------------------- MODULE LogQueriesProofs --------------------------
(***************************************************************************)
(* What LogQueries says of one small instance, for all values of its       *)
(* constants: the types and votes of the stored transactions, the balance  *)
(* of flows between the platform and its DAOs, the leaderboards, the chart *)
(* of users that is read one day at a time, and charts beside totals.      *)
(***************************************************************************)
EXTENDS LogQueries, SumTheorems

-----------------------------------------------------------------------------
(* What is on chain and in the tables                                      *)

Transaction == [at : Nat, signer : Users, receiver : Daos]

\* An action is one of a transaction, between two accounts, and only a call of
\* act_proposal votes.
ActionOK(a) ==
    /\ a.tx \in DOMAIN log
    /\ a.at \in 0 .. now
    /\ a.from # a.to
    /\ a.deposit \in Int
    /\ a.vote # Null => a.method = "act_proposal"

LogOK ==
    /\ now \in Nat
    /\ log \in Seq(Transaction)
    /\ \A i \in DOMAIN log : log[i].at <= now
    /\ IsFiniteSet(made)
    /\ \A a \in made : ActionOK(a)

\* A row that the migration has loaded is of a transaction with an action of its type
\* in the table, and so is its vote, whatever the aggregator saves of it meanwhile.
RowOK(row) ==
    /\ row.tx \in DOMAIN types
    /\ row.type = "ActProposal"
    /\ \E a \in saved : a.tx = row.tx /\ row.type = getTransactionType(a)
    /\ row.vote # Null => \E a \in saved : a.tx = row.tx /\ row.vote = getVoteType(a)

StoredOK ==
    /\ saved \subseteq made
    /\ DOMAIN types \subseteq DOMAIN log
    /\ TypesFromActions
    /\ \A row \in toMigrate : RowOK(row)

\* The deposits of the calls are numbers.
LEMMA CallFacts ==
    ASSUME NEW call \in Calls \cup Outgoing
    PROVE  call.deposit \in Int /\ (call.vote # Null => call.method = "act_proposal")
<1>1. call.deposit \in Int
  BY LogQueriesAssumption
<1> QED
  BY <1>1, VotesAssumption

\* The transactions, by number.
LEMMA LogFacts ==
    ASSUME LogOK
    PROVE  \A i \in DOMAIN log :
              log[i].at \in 0 .. now /\ log[i].signer \in Users /\ log[i].receiver \in Daos
<1> SUFFICES ASSUME NEW i \in DOMAIN log
             PROVE  log[i].at \in 0 .. now /\ log[i].signer \in Users /\ log[i].receiver \in Daos
  OBVIOUS
<1>1. log[i] \in Transaction
  BY DEF LogOK
<1>2. log[i].at <= now /\ now \in Nat
  BY DEF LogOK
<1> QED
  BY <1>1, <1>2 DEF Transaction

\* Everything is empty at the beginning.
LEMMA Initially == Init => LogOK /\ StoredOK
<1> SUFFICES ASSUME Init PROVE LogOK /\ StoredOK
  OBVIOUS
<1>1. LogOK
  BY FS_EmptySet DEF Init, LogOK
<1>2. StoredOK
  BY DEF Init, StoredOK, TypesFromActions
<1> QED
  BY <1>1, <1>2

\* A call or an executed proposal adds one action, of this moment.
LEMMA ActionAdded ==
    ASSUME LogOK, NEW i \in DOMAIN log', NEW from, NEW to, from # to,
           NEW call \in Calls \cup Outgoing, DOMAIN log \subseteq DOMAIN log', now' = now,
           made' = made \cup {Action(i, from, to, call)}
    PROVE  IsFiniteSet(made') /\ \A a \in made' : ActionOK(a)'
<1>1. IsFiniteSet(made')
  BY FS_AddElement DEF LogOK
<1>2. ASSUME NEW a \in made PROVE ActionOK(a)'
  BY DEF LogOK, ActionOK
<1>0. PICK new : new = Action(i, from, to, call)
  OBVIOUS
<1>3. ActionOK(new)'
  <2>1. /\ new.tx = i /\ new.at = now /\ new.from = from /\ new.to = to
        /\ new.deposit = call.deposit /\ new.vote = call.vote /\ new.method = call.method
    BY <1>0 DEF Action
  <2>2. now \in 0 .. now'
    BY DEF LogOK
  <2> QED
    BY <2>1, <2>2, CallFacts DEF ActionOK
<1> QED
  BY <1>0, <1>1, <1>2, <1>3

\* Every step of the world keeps the log and its actions what they are.
LEMMA LogStep == ASSUME LogOK, [Next]_vars PROVE LogOK' /\ DOMAIN log \subseteq DOMAIN log'
<1>1. CASE UNCHANGED <<now, log, made>>
  <2>1. \A a \in made : ActionOK(a)'
    BY <1>1 DEF LogOK, ActionOK
  <2> QED
    BY <1>1, <2>1 DEF LogOK
<1>2. CASE Tick
  <2>1. now' = now + 1 /\ UNCHANGED <<log, made>> /\ now \in Nat
    BY <1>2 DEF Tick, LogOK
  <2>2. \A t \in Int : t <= now => t <= now'
    BY <2>1
  <2>3. \A i \in DOMAIN log : log[i].at \in Int
    BY LogFacts
  <2>4. ASSUME NEW a \in made PROVE ActionOK(a)'
    <3>1. ActionOK(a)
      BY DEF LogOK
    <3>2. a.at \in 0 .. now'
      BY <2>1, <3>1 DEF ActionOK
    <3> QED
      BY <2>1, <3>1, <3>2 DEF ActionOK
  <2> QED
    BY <2>1, <2>2, <2>3, <2>4 DEF LogOK
<1>3. ASSUME NEW signer \in Users, NEW dao \in Daos, NEW call \in Calls, Call(signer, dao, call)
      PROVE  LogOK' /\ DOMAIN log \subseteq DOMAIN log'
  <2> DEFINE t == [at |-> now, signer |-> signer, receiver |-> dao]
  <2>1. t \in Transaction /\ log' = Append(log, t) /\ now' = now /\ log \in Seq(Transaction)
    BY <1>3 DEF Call, LogOK, Transaction
  <2>2. /\ log' \in Seq(Transaction) /\ DOMAIN log' = 1 .. Len(log) + 1 /\ Len(log) \in Nat
        /\ DOMAIN log = 1 .. Len(log) /\ log'[Len(log) + 1] = t
        /\ \A i \in DOMAIN log : log'[i] = log[i]
    <3> HIDE DEF t
    <3> QED
      BY <2>1
  <2>3. DOMAIN log \subseteq DOMAIN log' /\ Len(log) + 1 \in DOMAIN log'
    BY <2>2
  <2>4. \A i \in DOMAIN log' : log'[i].at <= now'
    <3>1. t.at <= now'
      BY <2>1 DEF LogOK
    <3>2. \A i \in DOMAIN log' : i \in DOMAIN log \/ i = Len(log) + 1
      BY <2>2
    <3> HIDE DEF t
    <3> QED
      BY <2>1, <2>2, <3>1, <3>2 DEF LogOK
  <2>5. made' = made \cup {Action(Len(log) + 1, signer, dao, call)} /\ signer # dao
    BY <1>3, LogQueriesAssumption DEF Call
  <2>6. IsFiniteSet(made') /\ \A a \in made' : ActionOK(a)'
    BY <2>1, <2>3, <2>5, ActionAdded
  <2> HIDE DEF t
  <2> QED
    BY <2>1, <2>2, <2>3, <2>4, <2>6 DEF LogOK
<1>4. ASSUME NEW i \in DOMAIN log, NEW to, NEW call \in Outgoing, Execute(i, to, call)
      PROVE  LogOK' /\ DOMAIN log \subseteq DOMAIN log'
  <2>1. /\ UNCHANGED <<now, log>> /\ to # log[i].receiver
        /\ made' = made \cup {Action(i, log[i].receiver, to, call)}
    BY <1>4 DEF Execute
  <2>2. IsFiniteSet(made') /\ \A a \in made' : ActionOK(a)'
    BY <2>1, ActionAdded
  <2> QED
    BY <2>1, <2>2 DEF LogOK
<1>5. CASE Sync
  BY <1>1, <1>5 DEF Sync
<1>6. CASE Upgrade \/ Load
  BY <1>1, <1>6 DEF Upgrade, Load
<1>7. ASSUME NEW row \in toMigrate, MigrateRow(row) \/ RowFails(row)
      PROVE  LogOK' /\ DOMAIN log \subseteq DOMAIN log'
  BY <1>1, <1>7 DEF MigrateRow, RowFails
<1>8. CASE StartRequest \/ DayAnswered \/ DayFails \/ EndRequest
  BY <1>1, <1>8 DEF StartRequest, DayAnswered, DayFails, EndRequest
<1>9. CASE UNCHANGED vars
  BY <1>1, <1>9 DEF vars
<1> QED
  BY <1>2, <1>3, <1>4, <1>5, <1>6, <1>7, <1>8, <1>9 DEF Next

\* Every step of the aggregator and of the migration keeps the stored types and votes
\* those of stored actions.
LEMMA StoredStep ==
    ASSUME LogOK, StoredOK, [Next]_vars, DOMAIN log \subseteq DOMAIN log'
    PROVE  StoredOK'
<1>1. ASSUME made \subseteq made', UNCHANGED <<saved, types>>, toMigrate' \subseteq toMigrate
      PROVE  StoredOK'
  <2>1. TypesFromActions'
    BY <1>1 DEF StoredOK, TypesFromActions
  <2>2. \A row \in toMigrate' : RowOK(row)'
    BY <1>1 DEF StoredOK, RowOK
  <2> QED
    BY <1>1, <2>1, <2>2 DEF StoredOK
<1>2. CASE Sync
  <2> DEFINE batch == made \ saved
             stored == {a.tx : a \in batch}
  <2>1. PICK pick \in {f \in [stored -> batch] : \A i \in stored : f[i].tx = i} :
              types' = [i \in DOMAIN types \cup stored |->
                          IF i \notin stored THEN types[i]
                          ELSE [type |-> getTransactionType(pick[i]),
                                vote |-> IF withVotes THEN getVoteType(pick[i]) ELSE Null]]
    BY <1>2 DEF Sync
  <2>2. saved' = made /\ UNCHANGED <<log, made, toMigrate>> /\ saved \subseteq made
    BY <1>2 DEF Sync, StoredOK
  <2>3. \A a \in batch : a.tx \in DOMAIN log
    BY DEF LogOK, ActionOK
  <2>4. DOMAIN types' = DOMAIN types \cup stored /\ DOMAIN types' \subseteq DOMAIN log
    BY <2>1, <2>3 DEF StoredOK
  <2>5. ASSUME NEW i \in stored
        PROVE  /\ pick[i] \in saved' /\ pick[i].tx = i
               /\ types'[i].type = getTransactionType(pick[i])
               /\ types'[i].vote # Null => /\ types'[i].vote = getVoteType(pick[i])
                                           /\ types'[i].type = "ActProposal"
    <3>1. pick[i] \in batch /\ pick[i].tx = i /\ pick[i] \in saved'
      BY <2>1, <2>2
    <3>2. pick[i].vote # Null => pick[i].method = "act_proposal"
      BY <3>1 DEF LogOK, ActionOK
    <3>3. types'[i] = [type |-> getTransactionType(pick[i]),
                       vote |-> IF withVotes THEN getVoteType(pick[i]) ELSE Null]
      BY <2>1
    <3>4. types'[i].vote # Null => types'[i].vote = pick[i].vote
      BY <3>3 DEF getVoteType
    <3>5. pick[i].method = "act_proposal" => getTransactionType(pick[i]) = "ActProposal"
      BY DEF getTransactionType
    <3> QED
      BY <3>1, <3>2, <3>3, <3>4, <3>5 DEF getVoteType
  <2>6. ASSUME NEW i \in DOMAIN types, i \notin stored
        PROVE  types'[i] = types[i]
    BY <2>1, <2>6
  <2> HIDE DEF batch, stored
  <2>7. TypesFromActions'
    <3> SUFFICES ASSUME NEW i \in DOMAIN types'
                 PROVE  /\ \E a \in saved' : a.tx = i /\ types'[i].type = getTransactionType(a)
                        /\ types'[i].vote # Null =>
                              /\ types'[i].type = "ActProposal"
                              /\ \E a \in saved' : a.tx = i /\ types'[i].vote = getVoteType(a)
      BY DEF TypesFromActions, getTransactionType, getVoteType
    <3>1. CASE i \in stored
      BY <2>5, <3>1
    <3>2. CASE i \notin stored
      <4>1. i \in DOMAIN types /\ types'[i] = types[i]
        BY <2>4, <2>6, <3>2
      <4>2. /\ \E a \in saved : a.tx = i /\ types[i].type = getTransactionType(a)
            /\ types[i].vote # Null =>
                  /\ types[i].type = "ActProposal"
                  /\ \E a \in saved : a.tx = i /\ types[i].vote = getVoteType(a)
        BY <4>1 DEF StoredOK, TypesFromActions
      <4> QED
        BY <2>2, <4>1, <4>2
    <3> QED
      BY <3>1, <3>2
  <2>8. ASSUME NEW row \in toMigrate' PROVE RowOK(row)'
    <3>1. RowOK(row) /\ saved \subseteq saved' /\ DOMAIN types \subseteq DOMAIN types'
      BY <2>2, <2>4 DEF StoredOK
    <3> QED
      BY <3>1 DEF RowOK, getTransactionType, getVoteType
  <2> QED
    BY <2>2, <2>4, <2>7, <2>8 DEF StoredOK
<1>3. CASE Load
  <2>1. /\ UNCHANGED <<log, made, saved, types>>
        /\ toMigrate' = {[tx |-> i, type |-> types[i].type, vote |-> VoteIn(i)] :
                            i \in {i \in DOMAIN types :
                                      types[i] = [type |-> "ActProposal", vote |-> Null]}}
    BY <1>3 DEF Load, tables
  <2>2. ASSUME NEW row \in toMigrate' PROVE RowOK(row)'
    <3>1. PICK i \in DOMAIN types : /\ row = [tx |-> i, type |-> types[i].type, vote |-> VoteIn(i)]
                                    /\ types[i] = [type |-> "ActProposal", vote |-> Null]
      BY <2>1
    <3>2. row.tx = i /\ row.type = "ActProposal" /\ row.type = types[i].type /\ row.vote = VoteIn(i)
      BY <3>1
    <3>3. \E a \in saved : a.tx = i /\ types[i].type = getTransactionType(a)
      BY DEF StoredOK, TypesFromActions
    <3>4. VoteIn(i) # Null => \E a \in saved : a.tx = i /\ VoteIn(i) = getVoteType(a)
      <4> DEFINE votes == {a.vote : a \in {b \in saved : b.tx = i}}
      <4>1. VoteIn(i) # Null => VoteIn(i) \in votes
        BY DEF VoteIn
      <4>2. \A v \in votes : \E a \in saved : a.tx = i /\ v = getVoteType(a)
        BY DEF getVoteType
      <4> QED
        BY <4>1, <4>2
    <3> QED
      BY <2>1, <3>2, <3>3, <3>4 DEF RowOK, getTransactionType, getVoteType
  <2>3. TypesFromActions'
    BY <2>1 DEF StoredOK, TypesFromActions
  <2> QED
    BY <2>1, <2>2, <2>3 DEF StoredOK
<1>4. ASSUME NEW row \in toMigrate, MigrateRow(row)
      PROVE  StoredOK'
  <2>1. /\ types' = [types EXCEPT ![row.tx] = [type |-> row.type, vote |-> row.vote]]
        /\ UNCHANGED <<log, made, saved>> /\ toMigrate' \subseteq toMigrate
    BY <1>4 DEF MigrateRow
  <2>2. /\ row.tx \in DOMAIN types /\ row.type = "ActProposal"
        /\ \E a \in saved : a.tx = row.tx /\ row.type = getTransactionType(a)
        /\ row.vote # Null => \E a \in saved : a.tx = row.tx /\ row.vote = getVoteType(a)
    BY DEF StoredOK, RowOK
  <2>3. /\ DOMAIN types' = DOMAIN types
        /\ \A i \in DOMAIN types \ {row.tx} : types'[i] = types[i]
        /\ types'[row.tx].type = row.type /\ types'[row.tx].vote = row.vote
    BY <2>1, <2>2
  <2>4. TypesFromActions'
    <3> SUFFICES ASSUME NEW i \in DOMAIN types
                 PROVE  /\ \E a \in saved : a.tx = i /\ types'[i].type = getTransactionType(a)
                        /\ types'[i].vote # Null =>
                              /\ types'[i].type = "ActProposal"
                              /\ \E a \in saved : a.tx = i /\ types'[i].vote = getVoteType(a)
      BY <2>1, <2>3 DEF TypesFromActions, getTransactionType, getVoteType
    <3>1. CASE i = row.tx
      BY <2>2, <2>3, <3>1
    <3>2. CASE i # row.tx
      <4>1. types'[i] = types[i]
        BY <2>3, <3>2
      <4>2. /\ \E a \in saved : a.tx = i /\ types[i].type = getTransactionType(a)
            /\ types[i].vote # Null =>
                  /\ types[i].type = "ActProposal"
                  /\ \E a \in saved : a.tx = i /\ types[i].vote = getVoteType(a)
        BY DEF StoredOK, TypesFromActions
      <4> QED
        BY <4>1, <4>2
    <3> QED
      BY <3>1, <3>2
  <2>5. \A r \in toMigrate' : RowOK(r)'
    BY <2>1, <2>3 DEF StoredOK, RowOK, getTransactionType, getVoteType
  <2> QED
    BY <2>1, <2>3, <2>4, <2>5 DEF StoredOK
<1>5. CASE Tick \/ Upgrade
  BY <1>1, <1>5 DEF Tick, Upgrade, tables
<1>6. ASSUME NEW signer \in Users, NEW dao \in Daos, NEW call \in Calls, Call(signer, dao, call)
      PROVE  StoredOK'
  BY <1>1, <1>6 DEF Call, tables
<1>7. ASSUME NEW i \in DOMAIN log, NEW to, NEW call \in Outgoing, Execute(i, to, call)
      PROVE  StoredOK'
  BY <1>1, <1>7 DEF Execute, tables
<1>8. ASSUME NEW row \in toMigrate, RowFails(row)
      PROVE  StoredOK'
  BY <1>1, <1>8 DEF RowFails, tables
<1>9. CASE StartRequest \/ DayAnswered \/ DayFails \/ EndRequest
  BY <1>1, <1>9 DEF StartRequest, DayAnswered, DayFails, EndRequest, tables
<1>10. CASE UNCHANGED vars
  BY <1>1, <1>10 DEF vars, tables
<1> QED
  BY <1>2, <1>3, <1>4, <1>5, <1>6, <1>7, <1>8, <1>9, <1>10 DEF Next

\* In every state the log and the tables are what the invariants say.
THEOREM Invariance == Spec => [](LogOK /\ StoredOK)
<1>1. LogOK /\ StoredOK /\ [Next]_vars => (LogOK /\ StoredOK)'
  BY LogStep, StoredStep
<1> QED
  BY <1>1, Initially, PTL DEF Spec

\* The type and the vote of a stored transaction are those of stored actions, whatever
\* the aggregator and the migration wrote in turn (aggregateReceiptActions,
\* TransactionProposalVoteMigration).
THEOREM TypesHold == Spec => []TypesFromActions
<1>1. StoredOK => TypesFromActions
  BY DEF StoredOK
<1> QED
  BY <1>1, Invariance, PTL

-----------------------------------------------------------------------------
(* Flows                                                                   *)

\* The number or the sum of the deposits of two sets of actions apart is that of both.
LEMMA AmountUnion ==
    ASSUME LogOK, NEW type, NEW S \in SUBSET made, NEW T \in SUBSET made, S \cap T = {}
    PROVE  /\ Amount(type, S) \in Int /\ Amount(type, T) \in Int
           /\ Amount(type, S \cup T) = Amount(type, S) + Amount(type, T)
<1>1. IsFiniteSet(S) /\ IsFiniteSet(T) /\ IsFiniteSet(S \cup T)
  BY FS_Subset, FS_Union DEF LogOK
<1>2. CASE type = "Transaction"
  <2>1. Cardinality(S) \in Nat /\ Cardinality(T) \in Nat
    BY <1>1, FS_CardinalityType
  <2>2. Cardinality(S \cap T) = 0
    BY FS_EmptySet
  <2>3. Cardinality(S \cup T) = Cardinality(S) + Cardinality(T) - Cardinality(S \cap T)
    BY <1>1, FS_Union
  <2> QED
    BY <1>2, <2>1, <2>2, <2>3 DEF Amount
<1>3. CASE type # "Transaction"
  <2> DEFINE f == [a \in made |-> a.deposit]
  <2>1. ASSUME NEW U \in SUBSET made
        PROVE  Numbers(f, U) /\ Amount(type, U) = SumFunctionOnSet(f, U)
    <3> DEFINE g == [a \in U |-> a.deposit]
    <3>1. /\ \A a \in U : g[a] = a.deposit /\ f[a] = a.deposit /\ a.deposit \in Int
          /\ IsFiniteSet(U)
      BY FS_Subset DEF LogOK, ActionOK
    <3>2. Numbers(g, U) /\ Numbers(f, U) /\ \A a \in U : g[a] = f[a]
      BY <3>1 DEF Numbers
    <3>3. Amount(type, U) = SumFunctionOnSet(g, U)
      BY <1>3 DEF Amount
    <3> HIDE DEF f, g
    <3> QED
      BY <3>1, <3>2, <3>3, SumSame
  <2> HIDE DEF f
  <2>2. S \cup T \in SUBSET made
    OBVIOUS
  <2>3. /\ Amount(type, S) = SumFunctionOnSet(f, S) /\ Amount(type, T) = SumFunctionOnSet(f, T)
        /\ Amount(type, S \cup T) = SumFunctionOnSet(f, S \cup T)
        /\ Numbers(f, S) /\ Numbers(f, T) /\ Numbers(f, S \cup T)
    BY <2>1, <2>2
  <2>4. SumFunctionOnSet(f, S) \in Int /\ SumFunctionOnSet(f, T) \in Int
    BY <1>1, <2>3, SumFacts
  <2>5. SumFunctionOnSet(f, S \cup T) = SumFunctionOnSet(f, S) + SumFunctionOnSet(f, T)
    BY <1>1, <2>3, SumUnion
  <2> QED
    BY <2>3, <2>4, <2>5
<1> QED
  BY <1>2, <1>3

\* There is no amount of no actions.
LEMMA AmountOfNone == \A type : Amount(type, {}) = 0
<1> SUFFICES ASSUME NEW type PROVE Amount(type, {}) = 0
  OBVIOUS
<1>1. CASE type = "Transaction"
  BY <1>1, FS_EmptySet DEF Amount
<1>2. CASE type # "Transaction"
  BY <1>2, SumOfNone DEF Amount
<1> QED
  BY <1>1, <1>2

\* The transfers of a query, those to accounts and those from accounts.
TransfersOf(q) == {a \in saved : a.deposit # NoDeposit /\ Within(a.at, q)}
InTo(D, q) == {a \in TransfersOf(q) : a.to \in D}
OutOf(D, q) == {a \in TransfersOf(q) : a.from \in D}
NetOf(type, q) ==
    [d \in Daos |-> getTotals(d, type, "Incoming", q) - getTotals(d, type, "Outgoing", q)]

\* A DAO transfers nothing to itself, so all of its transfers cross its border.
LEMMA TransfersOfDao ==
    ASSUME LogOK, StoredOK, NEW d \in Daos, NEW q
    PROVE  Transfers(d, "Incoming", q) = InTo({d}, q) /\ Transfers(d, "Outgoing", q) = OutOf({d}, q)
<1>1. AccountsOf(d) = {d}
  BY LogQueriesAssumption DEF AccountsOf
<1>2. \A a \in saved : a.from # a.to
  BY DEF StoredOK, LogOK, ActionOK
<1> QED
  BY <1>1, <1>2 DEF Transfers, InTo, OutOf, TransfersOf

\* What flows into some DAOs less what flows out of them is the sum of their flows.
LEMMA NetOfDaos ==
    ASSUME LogOK, StoredOK, NEW type, NEW q
    PROVE  SumFunctionOnSet(NetOf(type, q), Daos)
             = Amount(type, InTo(Daos, q)) - Amount(type, OutOf(Daos, q))
<1> DEFINE net == NetOf(type, q)
           In(D) == Amount(type, InTo(D, q))
           Out(D) == Amount(type, OutOf(D, q))
           G == {D \in SUBSET Daos : SumFunctionOnSet(net, D) = In(D) - Out(D)}
<1>1. \A D : InTo(D, q) \in SUBSET made /\ OutOf(D, q) \in SUBSET made
  BY DEF InTo, OutOf, TransfersOf, StoredOK
<1>2. ASSUME NEW D PROVE In(D) \in Int /\ Out(D) \in Int
  <2>1. InTo(D, q) \cap {} = {} /\ OutOf(D, q) \cap {} = {} /\ {} \in SUBSET made
    OBVIOUS
  <2> QED
    BY <1>1, <2>1, AmountUnion
<1>3. ASSUME NEW d \in Daos PROVE net[d] = In({d}) - Out({d}) /\ net[d] \in Int
  <2>1. net[d] = In({d}) - Out({d})
    BY TransfersOfDao DEF NetOf, getTotals
  <2> QED
    BY <1>2, <2>1
<1>4. {} \in G
  <2>1. InTo({}, q) = {} /\ OutOf({}, q) = {}
    BY DEF InTo, OutOf
  <2> QED
    BY <2>1, AmountOfNone, SumOfNone
<1>5. ASSUME NEW D \in SUBSET Daos, NEW d \in Daos, D \in G, d \notin D PROVE D \cup {d} \in G
  <2>1. /\ InTo(D \cup {d}, q) = InTo(D, q) \cup InTo({d}, q)
        /\ InTo(D, q) \cap InTo({d}, q) = {}
        /\ OutOf(D \cup {d}, q) = OutOf(D, q) \cup OutOf({d}, q)
        /\ OutOf(D, q) \cap OutOf({d}, q) = {}
    BY <1>5 DEF InTo, OutOf
  <2>2. In(D \cup {d}) = In(D) + In({d}) /\ Out(D \cup {d}) = Out(D) + Out({d})
    <3> DEFINE ins == InTo(D, q)  new == InTo({d}, q)  outs == OutOf(D, q)  old == OutOf({d}, q)
    <3>1. /\ ins \in SUBSET made /\ new \in SUBSET made /\ ins \cap new = {}
          /\ outs \in SUBSET made /\ old \in SUBSET made /\ outs \cap old = {}
      BY <1>1, <2>1
    <3> HIDE DEF ins, new, outs, old
    <3>2. Amount(type, ins \cup new) = Amount(type, ins) + Amount(type, new)
      BY <3>1, AmountUnion
    <3>3. Amount(type, outs \cup old) = Amount(type, outs) + Amount(type, old)
      BY <3>1, AmountUnion
    <3> QED
      BY <2>1, <3>2, <3>3 DEF ins, new, outs, old
  <2>3. SumFunctionOnSet(net, D \cup {d}) = SumFunctionOnSet(net, D) + net[d]
    <3>1. IsFiniteSet(D) /\ Numbers(net, D)
      BY <1>3, LogQueriesAssumption, FS_Subset DEF Numbers
    <3> HIDE DEF net
    <3> QED
      BY <1>3, <1>5, <3>1, SumAdd
  <2>4. SumFunctionOnSet(net, D) = In(D) - Out(D)
    BY <1>5
  <2>5. /\ In(D) \in Int /\ Out(D) \in Int /\ In({d}) \in Int /\ Out({d}) \in Int
        /\ net[d] = In({d}) - Out({d})
    BY <1>2, <1>3
  <2> HIDE DEF In, Out, net
  <2>6. SumFunctionOnSet(net, D \cup {d}) = In(D \cup {d}) - Out(D \cup {d})
    BY <2>2, <2>3, <2>4, <2>5
  <2> QED
    BY <2>6 DEF In, Out, net
<1>6. Daos \in G
  <2> HIDE DEF G
  <2> QED
    BY <1>4, <1>5, LogQueriesAssumption, SetInduction
<1> QED
  BY <1>6

\* The flows of the DAOs add up to that of the platform: a transfer between two of them
\* is an incoming one of the one and an outgoing one of the other
\* (getTransferIntervalQueryBuilder; FlowService.totals).
THEOREM FlowsAddUp == Spec => []FlowConserved
<1>1. ASSUME LogOK, StoredOK PROVE FlowConserved
  <2> SUFFICES ASSUME NEW type, NEW q
               PROVE  SumFunctionOnSet(NetOf(type, q), Daos)
                        = getTotals(NoDao, type, "Incoming", q) - getTotals(NoDao, type, "Outgoing", q)
    BY DEF FlowConserved, NetOf
  <2> DEFINE In == Transfers(NoDao, "Incoming", q)
             Out == Transfers(NoDao, "Outgoing", q)
             Both == {a \in TransfersOf(q) : a.to \in Daos /\ a.from \in Daos}
  <2>1. AccountsOf(NoDao) = Daos
    BY DEF AccountsOf
  <2>2. /\ InTo(Daos, q) = In \cup Both /\ In \cap Both = {}
        /\ OutOf(Daos, q) = Out \cup Both /\ Out \cap Both = {}
    BY <2>1 DEF Transfers, InTo, OutOf, TransfersOf
  <2>3. In \in SUBSET made /\ Out \in SUBSET made /\ Both \in SUBSET made
    BY <1>1 DEF Transfers, TransfersOf, StoredOK
  <2> HIDE DEF In, Out, Both
  <2>4. /\ Amount(type, In) \in Int /\ Amount(type, Both) \in Int
        /\ Amount(type, In \cup Both) = Amount(type, In) + Amount(type, Both)
    BY <1>1, <2>2, <2>3, AmountUnion
  <2>5. /\ Amount(type, Out) \in Int
        /\ Amount(type, Out \cup Both) = Amount(type, Out) + Amount(type, Both)
    BY <1>1, <2>2, <2>3, AmountUnion
  <2>6. SumFunctionOnSet(NetOf(type, q), Daos) = Amount(type, In \cup Both) - Amount(type, Out \cup Both)
    BY <1>1, <2>2, NetOfDaos
  <2>7. SumFunctionOnSet(NetOf(type, q), Daos) = Amount(type, In) - Amount(type, Out)
    BY <2>4, <2>5, <2>6
  <2> QED
    BY <2>7 DEF getTotals, In, Out
<1> QED
  BY <1>1, Invariance, PTL

-----------------------------------------------------------------------------
(* Leaderboards                                                            *)

\* One row for each of some DAOs, with its value.
RowsOf(D, val) == {[dao |-> d, count |-> val[d]] : d \in D}

\* What they say of a DAO is its value, also when they say nothing of it.
RowsAre(D, val) ==
    /\ IsFiniteSet(RowsOf(D, val))
    /\ \A r \in RowsOf(D, val) : r.dao \in D /\ r.count = val[r.dao]
    /\ \A d \in Daos : CountOf(RowsOf(D, val), d) = val[d]

\* The count of a DAO that is found is that of a row of it.
LEMMA CountFound ==
    ASSUME NEW rows, NEW d, \E r \in rows : r.dao = d
    PROVE  \E r \in rows : r.dao = d /\ CountOf(rows, d) = r.count
<1>1. /\ (CHOOSE r \in rows : r.dao = d) \in rows
      /\ (CHOOSE r \in rows : r.dao = d).dao = d
  OBVIOUS
<1>2. CountOf(rows, d) = (CHOOSE r \in rows : r.dao = d).count
  BY DEF CountOf
<1> QED
  BY <1>1, <1>2

\* They are as many as the DAOs, and the value of a DAO is found among them, or is 0.
LEMMA RowFacts ==
    ASSUME NEW D \in SUBSET Daos, NEW val, \A d \in Daos \ D : val[d] = 0
    PROVE  RowsAre(D, val)
<1> DEFINE R == RowsOf(D, val)
<1>1. /\ \A r \in R : r.dao \in D /\ r.count = val[r.dao] /\ r = [dao |-> r.dao, count |-> val[r.dao]]
      /\ \A d \in D : \E r \in R : r.dao = d
  <2>1. ASSUME NEW r \in R
        PROVE  r.dao \in D /\ r.count = val[r.dao] /\ r = [dao |-> r.dao, count |-> val[r.dao]]
    <3>1. PICK d \in D : r = [dao |-> d, count |-> val[d]]
      BY DEF RowsOf
    <3>2. r.dao = d /\ r.count = val[d]
      BY <3>1
    <3> QED
      BY <3>1, <3>2
  <2>2. ASSUME NEW d \in D PROVE \E r \in R : r.dao = d
    <3>1. [dao |-> d, count |-> val[d]] \in R /\ [dao |-> d, count |-> val[d]].dao = d
      BY DEF RowsOf
    <3> HIDE DEF R
    <3> QED
      BY <3>1
  <2> QED
    BY <2>1, <2>2
<1> HIDE DEF R
<1>2. IsFiniteSet(R)
  <2> DEFINE f == [r \in R |-> r.dao]
  <2>1. f \in Injection(R, Daos)
    BY <1>1 DEF Injection, IsInjective
  <2> QED
    BY <2>1, FS_Injection, LogQueriesAssumption
<1>3. ASSUME NEW d \in Daos PROVE CountOf(R, d) = val[d]
  <2>1. CASE d \in D
    <3>1. \E r \in R : r.dao = d
      BY <1>1, <2>1
    <3> QED
      BY <1>1, <3>1, CountFound
  <2>2. CASE d \notin D
    BY <1>1, <2>2 DEF CountOf
  <2> QED
    BY <2>1, <2>2
<1> QED
  BY <1>1, <1>2, <1>3 DEF R, RowsAre

\* A ranking has all rows, each once, and a limited one the first of them.
LEMMA RankedFacts ==
    ASSUME NEW R, IsFiniteSet(R), NEW s \in Ranked(R)
    PROVE  /\ s \in Seq(R) /\ DOMAIN s = 1 .. Len(s) /\ Len(s) \in Nat
           /\ \A i \in DOMAIN s : s[i] \in R
           /\ \A i, j \in DOMAIN s : i < j => s[i].count >= s[j].count
           /\ \A i, j \in DOMAIN s : i # j => s[i] # s[j]
           /\ \A r \in R : \E i \in DOMAIN s : s[i] = r
<1> DEFINE n == Cardinality(R)
<1>1. n \in Nat
  BY FS_CardinalityType
<1>2. /\ s \in [1 .. n -> R]
      /\ \A i, j \in 1 .. n : i # j => s[i] # s[j]
      /\ \A i, j \in DOMAIN s : i < j => s[i].count >= s[j].count
  BY DEF Ranked, SetToSeqs
<1>3. \A r \in R : \E i \in 1 .. n : s[i] = r
  <2>1. s \in Injection(1 .. n, R)
    BY <1>2 DEF Injection, IsInjective
  <2>2. Cardinality(1 .. n) = n
    BY <1>1, FS_Interval
  <2>3. s \in Surjection(1 .. n, R)
    BY <2>1, <2>2, FS_Injection
  <2> QED
    BY <2>3 DEF Surjection
<1> HIDE DEF n
<1>4. s \in Seq(R) /\ Len(s) = n /\ DOMAIN s = 1 .. n
  BY <1>1, <1>2
<1> QED
  BY <1>1, <1>2, <1>3, <1>4

\* The first rows of a ranking.
LEMMA LimitedFacts ==
    ASSUME NEW R, IsFiniteSet(R), NEW s \in Ranked(R)
    PROVE  /\ DOMAIN Limited(s, LeaderboardSize) = 1 .. Len(Limited(s, LeaderboardSize))
           /\ Len(Limited(s, LeaderboardSize)) = IF Len(s) < LeaderboardSize THEN Len(s)
                                                 ELSE LeaderboardSize
           /\ \A i \in DOMAIN Limited(s, LeaderboardSize) :
                 i \in DOMAIN s /\ Limited(s, LeaderboardSize)[i] = s[i] /\ s[i] \in R
<1> DEFINE m == IF Len(s) < LeaderboardSize THEN Len(s) ELSE LeaderboardSize
<1>1. s \in Seq(R) /\ DOMAIN s = 1 .. Len(s) /\ Len(s) \in Nat /\ \A i \in DOMAIN s : s[i] \in R
  BY RankedFacts
<1>2. LeaderboardSize \in Nat
  BY LogQueriesAssumption
<1>3. m \in Nat /\ m <= Len(s)
  BY <1>1, <1>2
<1>4. Limited(s, LeaderboardSize) = SubSeq(s, 1, m)
  BY DEF Limited
<1> HIDE DEF m
<1>5. /\ DOMAIN SubSeq(s, 1, m) = 1 .. m /\ Len(SubSeq(s, 1, m)) = m
      /\ \A i \in 1 .. m : i \in DOMAIN s /\ SubSeq(s, 1, m)[i] = s[i]
  BY <1>1, <1>3
<1> QED
  BY <1>1, <1>4, <1>5 DEF m

\* Of a DAO the first rows of a ranking have its value, unless as many other DAOs as
\* they are have at least its value.
LEMMA FirstRows ==
    ASSUME NEW D \in SUBSET Daos, NEW val, \A d \in Daos : val[d] \in Nat,
           \A d \in Daos \ D : val[d] = 0, NEW s \in Ranked(RowsOf(D, val)), NEW d \in Daos
    PROVE  \/ CountOf(ToSet(Limited(s, LeaderboardSize)), d) = val[d]
           \/ /\ CountOf(ToSet(Limited(s, LeaderboardSize)), d) = 0
              /\ Cardinality({e \in Daos \ {d} : val[e] >= val[d]}) >= LeaderboardSize
<1> DEFINE R == RowsOf(D, val)
           first == Limited(s, LeaderboardSize)
           top == ToSet(first)
           ahead == {e \in Daos \ {d} : val[e] >= val[d]}
<1>1. /\ IsFiniteSet(R) /\ \A r \in R : r.dao \in D /\ r.count = val[r.dao]
      /\ \A e \in D : \E r \in R : r.dao = e
  <2>1. ASSUME NEW e \in D PROVE \E r \in R : r.dao = e
    <3>1. [dao |-> e, count |-> val[e]] \in R /\ [dao |-> e, count |-> val[e]].dao = e
      BY DEF RowsOf
    <3> HIDE DEF R
    <3> QED
      BY <3>1
  <2> QED
    BY <2>1, RowFacts DEF RowsAre
<1>2. \A r, p \in R : r.dao = p.dao => r = p
  <2> SUFFICES ASSUME NEW r \in R, NEW p \in R, r.dao = p.dao PROVE r = p
    OBVIOUS
  <2>1. PICK e \in D : r = [dao |-> e, count |-> val[e]]
    BY DEF RowsOf
  <2>2. PICK g \in D : p = [dao |-> g, count |-> val[g]]
    BY DEF RowsOf
  <2> QED
    BY <2>1, <2>2
<1> HIDE DEF R
<1>3. /\ s \in Seq(R) /\ DOMAIN s = 1 .. Len(s) /\ Len(s) \in Nat
      /\ \A i \in DOMAIN s : s[i] \in R
      /\ \A i, j \in DOMAIN s : i < j => s[i].count >= s[j].count
      /\ \A i, j \in DOMAIN s : i # j => s[i] # s[j]
      /\ \A r \in R : \E i \in DOMAIN s : s[i] = r
  BY <1>1, RankedFacts DEF R
<1>4. /\ DOMAIN first = 1 .. Len(first)
      /\ Len(first) = IF Len(s) < LeaderboardSize THEN Len(s) ELSE LeaderboardSize
      /\ \A i \in DOMAIN first : i \in DOMAIN s /\ first[i] = s[i] /\ s[i] \in R
  BY <1>1, LimitedFacts DEF R
<1> HIDE DEF first
<1>5. /\ \A r \in top : r \in R
      /\ \A i \in DOMAIN first : s[i] \in top
  BY <1>4 DEF ToSet
<1>6. CASE \E r \in top : r.dao = d
  <2> HIDE DEF top
  <2>1. PICK r \in top : r.dao = d /\ CountOf(top, d) = r.count
    BY <1>6, CountFound
  <2>2. CountOf(top, d) = val[d]
    BY <1>1, <1>5, <2>1
  <2> QED
    BY <2>2 DEF top, first
<1>7. CASE ~ \E r \in top : r.dao = d
  <2>1. CountOf(top, d) = 0
    BY <1>7 DEF CountOf
  <2>2. CASE d \notin D
    BY <2>1, <2>2 DEF first
  <2>3. CASE d \in D
    <3>1. PICK k \in DOMAIN s : s[k].dao = d
      BY <1>1, <1>3, <2>3
    <3>2. k \notin DOMAIN first
      BY <1>5, <1>7, <3>1
    <3>3. LeaderboardSize \in Nat
      BY LogQueriesAssumption
    <3>4. k > LeaderboardSize /\ DOMAIN first = 1 .. LeaderboardSize /\ k \in Int
      <4> DEFINE n == Len(s)  m == Len(first)
      <4>1. /\ n \in Nat /\ k \in 1 .. n /\ k \notin 1 .. m
            /\ m = IF n < LeaderboardSize THEN n ELSE LeaderboardSize
        BY <1>3, <1>4, <3>2
      <4> HIDE DEF n, m
      <4>2. k > LeaderboardSize /\ m = LeaderboardSize /\ k \in Int
        BY <3>3, <4>1
      <4> QED
        BY <1>4, <4>2 DEF m
    <3> DEFINE f == [i \in 1 .. LeaderboardSize |-> s[i].dao]
    <3>5. ASSUME NEW i \in 1 .. LeaderboardSize PROVE f[i] \in ahead
      <4>1. i \in DOMAIN s /\ i < k /\ s[i] \in top /\ s[i] \in R /\ s[k] \in R
        BY <1>3, <1>4, <1>5, <3>3, <3>4
      <4>2. s[i].count >= s[k].count /\ s[i].dao # d /\ s[i].dao \in Daos
        BY <1>1, <1>3, <1>7, <4>1
      <4>3. s[i].count = val[s[i].dao] /\ s[k].count = val[d]
        BY <1>1, <3>1, <4>1
      <4> QED
        BY <4>2, <4>3
    <3>6. ASSUME NEW i \in 1 .. LeaderboardSize, NEW j \in 1 .. LeaderboardSize, f[i] = f[j]
          PROVE  i = j
      <4>1. i \in DOMAIN s /\ j \in DOMAIN s /\ s[i] \in R /\ s[j] \in R /\ s[i].dao = s[j].dao
        BY <1>3, <1>4, <3>4, <3>6
      <4> QED
        BY <1>2, <1>3, <4>1
    <3>7. f \in Injection(1 .. LeaderboardSize, ahead)
      <4> HIDE DEF ahead
      <4> QED
        BY <3>5, <3>6 DEF Injection, IsInjective
    <3>8. IsFiniteSet(ahead) /\ Cardinality(ahead) \in Nat
      BY LogQueriesAssumption, FS_Subset, FS_CardinalityType
    <3>9. Cardinality(1 .. LeaderboardSize) <= Cardinality(ahead)
      <4> HIDE DEF f, ahead
      <4> QED
        BY <3>7, <3>8, FS_Injection
    <3>10. Cardinality(1 .. LeaderboardSize) = LeaderboardSize
      BY <3>3, FS_Interval
    <3>11. Cardinality(ahead) >= LeaderboardSize
      <4> HIDE DEF ahead
      <4> QED
        BY <3>3, <3>8, <3>9, <3>10
    <3> QED
      BY <2>1, <3>11 DEF first
  <2> QED
    BY <2>2, <2>3
<1> QED
  BY <1>6, <1>7 DEF first

\* The transactions of a DAO are those of the platform that it received; up to now or
\* without end is the same.
LEMMA OfDao ==
    ASSUME LogOK, StoredOK, NEW d \in Daos, NEW q, NEW p,
           \A t \in 0 .. now : Within(t, q) <=> Within(t, p)
    PROVE  /\ {i \in Transactions(NoDao, q) : log[i].receiver = d} = Transactions(d, p)
           /\ {i \in Activity(NoDao, q) : log[i].receiver = d} = Activity(d, p)
<1>1. AccountsOf(d) = {d} /\ AccountsOf(NoDao) = Daos
  BY LogQueriesAssumption DEF AccountsOf
<1>2. \A i \in DOMAIN types : Within(log[i].at, q) <=> Within(log[i].at, p)
  BY LogFacts DEF StoredOK
<1>3. {i \in Transactions(NoDao, q) : log[i].receiver = d} = Transactions(d, p)
  BY <1>1, <1>2 DEF Transactions
<1> QED
  BY <1>3 DEF Activity

UsersOf(q) == [d \in Daos |-> getUsersTotalCount(d, q)]
InteractionsOf(q) == [d \in Daos |-> getInteractionsCount(d, q)]

\* The rows of the platform are those of the pages of its DAOs.
LEMMA PlatformRows ==
    ASSUME LogOK, StoredOK, NEW q, NEW p, \A t \in 0 .. now : Within(t, q) <=> Within(t, p)
    PROVE  /\ \E D \in SUBSET Daos :
                 /\ PerDao(Transactions(NoDao, q), CountUsers) = RowsOf(D, UsersOf(p))
                 /\ \A d \in Daos \ D : UsersOf(p)[d] = 0
           /\ \E D \in SUBSET Daos :
                 /\ PerDao(Activity(NoDao, q), Cardinality) = RowsOf(D, InteractionsOf(p))
                 /\ \A d \in Daos \ D : InteractionsOf(p)[d] = 0
                 /\ \A d \in D : Activity(d, p) # {}
<1>1. \A i \in Transactions(NoDao, q) : log[i].receiver \in Daos
  BY LogQueriesAssumption DEF Transactions, AccountsOf
<1>2. Activity(NoDao, q) \subseteq Transactions(NoDao, q)
  BY DEF Activity
<1>3. \A d \in Daos : /\ {i \in Transactions(NoDao, q) : log[i].receiver = d} = Transactions(d, p)
                      /\ {i \in Activity(NoDao, q) : log[i].receiver = d} = Activity(d, p)
  BY OfDao
<1>4. CountUsers({}) = 0 /\ Cardinality({}) = 0
  <2>1. {log[i].signer : i \in {}} = {}
    OBVIOUS
  <2> QED
    BY <2>1, FS_EmptySet DEF CountUsers
<1>5. \E D \in SUBSET Daos :
         /\ PerDao(Transactions(NoDao, q), CountUsers) = RowsOf(D, UsersOf(p))
         /\ \A d \in Daos \ D : UsersOf(p)[d] = 0
  <2> DEFINE D == ReceiversOf(Transactions(NoDao, q))
  <2>1. D \in SUBSET Daos
    BY <1>1 DEF ReceiversOf
  <2>2. \A d \in D : CountUsers({i \in Transactions(NoDao, q) : log[i].receiver = d}) = UsersOf(p)[d]
    BY <1>3, <2>1 DEF UsersOf, getUsersTotalCount
  <2>3. PerDao(Transactions(NoDao, q), CountUsers) = RowsOf(D, UsersOf(p))
    <3> HIDE DEF D
    <3> QED
      BY <2>2 DEF PerDao, RowsOf, D
  <2>4. ASSUME NEW d \in Daos \ D PROVE UsersOf(p)[d] = 0
    <3>1. {i \in Transactions(NoDao, q) : log[i].receiver = d} = {}
      BY DEF ReceiversOf
    <3>2. Transactions(d, p) = {}
      BY <1>3, <3>1
    <3> QED
      BY <1>4, <3>2 DEF UsersOf, getUsersTotalCount
  <2> QED
    BY <2>1, <2>3, <2>4
<1>6. \E D \in SUBSET Daos :
         /\ PerDao(Activity(NoDao, q), Cardinality) = RowsOf(D, InteractionsOf(p))
         /\ \A d \in Daos \ D : InteractionsOf(p)[d] = 0
         /\ \A d \in D : Activity(d, p) # {}
  <2> DEFINE D == ReceiversOf(Activity(NoDao, q))
  <2>1. D \in SUBSET Daos
    BY <1>1, <1>2 DEF ReceiversOf
  <2>2. \A d \in D : Cardinality({i \in Activity(NoDao, q) : log[i].receiver = d}) = InteractionsOf(p)[d]
    BY <1>3, <2>1 DEF InteractionsOf, getInteractionsCount
  <2>3. PerDao(Activity(NoDao, q), Cardinality) = RowsOf(D, InteractionsOf(p))
    <3> HIDE DEF D
    <3> QED
      BY <2>2 DEF PerDao, RowsOf, D
  <2>4. ASSUME NEW d \in Daos \ D PROVE InteractionsOf(p)[d] = 0
    <3>1. {i \in Activity(NoDao, q) : log[i].receiver = d} = {}
      BY DEF ReceiversOf
    <3>2. Activity(d, p) = {}
      BY <1>3, <3>1
    <3> QED
      BY <1>4, <3>2 DEF InteractionsOf, getInteractionsCount
  <2>5. ASSUME NEW d \in D PROVE Activity(d, p) # {}
    <3>1. PICK i \in Activity(NoDao, q) : log[i].receiver = d
      BY DEF ReceiversOf
    <3> QED
      BY <1>3, <2>1, <3>1
  <2> QED
    BY <2>1, <2>3, <2>4, <2>5
<1> QED
  BY <1>5, <1>6

\* What the page of a DAO says of its users and interactions.
LEMMA PageTotals ==
    ASSUME NEW ctx
    PROVE  /\ usersTotals(ctx).users
                = [count |-> getUsersTotalCount(ctx, NoQuery),
                   growth |-> getGrowth(getUsersTotalCount(ctx, NoQuery),
                                        getUsersTotalCount(ctx, To(DayAgo)))]
           /\ usersTotals(ctx).interactions
                = [count |-> getInteractionsCount(ctx, NoQuery),
                   growth |-> getGrowth(getInteractionsCount(ctx, NoQuery),
                                        getInteractionsCount(ctx, To(DayAgo)))]
           /\ usersTotals(ctx).activeUsers
                = [count |-> getUsersTotalCount(ctx, From(now - Week)),
                   growth |-> getGrowth(getUsersTotalCount(ctx, From(now - Week)),
                                        getUsersTotalCount(ctx, [from |-> now - 2 * Week,
                                                                 to |-> now - Week]))]
BY DEF usersTotals

\* A growth from nothing is one of 100 %.
LEMMA GrowthFromNothing == \A n \in Nat \ {0} : getGrowth(n, 0) = 100
<1> SUFFICES ASSUME NEW n \in Nat \ {0} PROVE getGrowth(n, 0) = 100
  OBVIOUS
<1>1. getGrowth(n, 0) = (200 * n + n) \div (2 * n)
  BY DEF getGrowth, getGrowthIn, Hundredths, OrOne
<1>2. (200 * n + n) \div (2 * n) = 100
  OBVIOUS
<1> QED
  BY <1>1, <1>2

\* The interval of the users leaderboard, and what it is compared with.
Since(interval) == now - (IF interval = Absent THEN DayLength ELSE interval)
Span(interval) == [from |-> IF interval = Absent THEN Absent ELSE Since(interval), to |-> now]
SpanBefore(interval) ==
    [from |-> IF interval = Absent THEN Absent ELSE now - 2 * interval, to |-> Since(interval)]

\* An entry of the users leaderboard says what the page of the DAO says.
LEMMA UsersEntry ==
    ASSUME LogOK, StoredOK, NEW interval, NEW entries \in usersLeaderboard(interval),
           NEW i \in DOMAIN entries, NEW p,
           \A t \in 0 .. now : Within(t, Span(interval)) <=> Within(t, p)
    PROVE  /\ entries[i].dao \in Daos
           /\ entries[i].activity =
                [count |-> getUsersTotalCount(entries[i].dao, p),
                 growth |-> getGrowth(getUsersTotalCount(entries[i].dao, p),
                                      getUsersTotalCount(entries[i].dao, SpanBefore(interval)))]
<1> DEFINE q == Span(interval)
           b == SpanBefore(interval)
           before == PerDao(Transactions(NoDao, b), CountUsers)
<1>1. PICK rows \in getDaoUsers(NoDao, q) :
         /\ DOMAIN entries = 1 .. Len(Limited(rows, LeaderboardSize))
         /\ \A j \in DOMAIN entries :
               /\ entries[j].dao = rows[j].dao
               /\ entries[j].activity =
                    [count |-> rows[j].count,
                     growth |-> getGrowth(rows[j].count, CountOf(before, rows[j].dao))]
  BY DEF usersLeaderboard, Span, SpanBefore, Since
<1>2. PICK D \in SUBSET Daos :
         /\ PerDao(Transactions(NoDao, q), CountUsers) = RowsOf(D, UsersOf(p))
         /\ \A d \in Daos \ D : UsersOf(p)[d] = 0
  BY PlatformRows
<1>3. PICK E \in SUBSET Daos :
         /\ before = RowsOf(E, UsersOf(b))
         /\ \A d \in Daos \ E : UsersOf(b)[d] = 0
  BY PlatformRows
<1> HIDE DEF before
<1>4. rows \in Ranked(RowsOf(D, UsersOf(p)))
  BY <1>1, <1>2 DEF getDaoUsers
<1>5. rows[i] \in RowsOf(D, UsersOf(p))
  BY <1>1, <1>2, <1>4, RowFacts, LimitedFacts DEF RowsAre
<1>6. /\ rows[i].dao \in Daos
      /\ rows[i].count = UsersOf(p)[rows[i].dao]
      /\ CountOf(before, rows[i].dao) = UsersOf(b)[rows[i].dao]
  <2> DEFINE val == UsersOf(p)  then == UsersOf(b)
  <2>0. (\A d \in Daos \ D : val[d] = 0) /\ (\A d \in Daos \ E : then[d] = 0)
    BY <1>2, <1>3
  <2> HIDE DEF val, then
  <2>1. \A r \in RowsOf(D, val) : r.dao \in D /\ r.count = val[r.dao]
    <3>1. RowsAre(D, val)
      BY <2>0, RowFacts
    <3> QED
      BY <3>1 DEF RowsAre
  <2>2. \A d \in Daos : CountOf(RowsOf(E, then), d) = then[d]
    <3>1. RowsAre(E, then)
      BY <2>0, RowFacts
    <3> QED
      BY <3>1 DEF RowsAre
  <2> QED
    BY <1>3, <1>5, <2>1, <2>2 DEF val, then
<1> QED
  BY <1>1, <1>6 DEF UsersOf

\* An entry of the leaderboard of interactions says what the page of the DAO says, or
\* that the DAO grew from nothing when others were ahead of it the day before.
LEMMA InteractionsEntry ==
    ASSUME LogOK, StoredOK, NEW entries \in interactionsLeaderboard, NEW i \in DOMAIN entries
    PROVE  LET d == entries[i].dao
               before == getInteractionsCount(d, To(DayAgo))
               ahead == {e \in Daos \ {d} : getInteractionsCount(e, To(DayAgo)) >= before}
           IN  \/ entries[i].activity = usersTotals(d).interactions
               \/ /\ entries[i].activity = [usersTotals(d).interactions EXCEPT !.growth = 100]
                  /\ Cardinality(ahead) >= LeaderboardSize
<1> DEFINE b == To(DayAgo)
<1>1. PICK rows \in getActivityLeaderboard(NoDao, To(now)), dayAgo \in getActivityLeaderboard(NoDao, b) :
         /\ DOMAIN entries = DOMAIN rows
         /\ \A j \in DOMAIN entries :
               /\ entries[j].dao = rows[j].dao
               /\ entries[j].activity =
                    [count |-> rows[j].count,
                     growth |-> getGrowth(rows[j].count, CountOf(ToSet(dayAgo), rows[j].dao))]
  BY DEF interactionsLeaderboard, Entry
<1> HIDE DEF b
<1>2. \A t \in 0 .. now : Within(t, To(now)) <=> Within(t, NoQuery)
  BY DEF LogOK, Within, To, NoQuery, Absent
<1>3. PICK D \in SUBSET Daos :
         /\ PerDao(Activity(NoDao, To(now)), Cardinality) = RowsOf(D, InteractionsOf(NoQuery))
         /\ \A d \in Daos \ D : InteractionsOf(NoQuery)[d] = 0
         /\ \A d \in D : Activity(d, NoQuery) # {}
  BY <1>2, PlatformRows
<1>4. PICK E \in SUBSET Daos :
         /\ PerDao(Activity(NoDao, b), Cardinality) = RowsOf(E, InteractionsOf(b))
         /\ \A d \in Daos \ E : InteractionsOf(b)[d] = 0
  BY PlatformRows
<1> DEFINE now_ == RowsOf(D, InteractionsOf(NoQuery))
           then == RowsOf(E, InteractionsOf(b))
<1>5. PICK s \in Ranked(now_) : rows = Limited(s, LeaderboardSize)
  BY <1>1, <1>3 DEF getActivityLeaderboard
<1>6. PICK u \in Ranked(then) : dayAgo = Limited(u, LeaderboardSize)
  BY <1>1, <1>4 DEF getActivityLeaderboard
<1>7. rows[i] \in now_
  <2>1. IsFiniteSet(now_)
    BY <1>3, RowFacts DEF RowsAre
  <2> HIDE DEF now_
  <2> QED
    BY <1>1, <1>5, <2>1, LimitedFacts
<1> DEFINE d == rows[i].dao
           count == getInteractionsCount(d, NoQuery)
           before == getInteractionsCount(d, b)
           ahead == {e \in Daos \ {d} : getInteractionsCount(e, b) >= before}
<1>8. d \in D /\ d \in Daos /\ rows[i].count = count
  <2>1. \A r \in now_ : r.dao \in D /\ r.count = InteractionsOf(NoQuery)[r.dao]
    BY <1>3, RowFacts DEF RowsAre
  <2> HIDE DEF now_
  <2> QED
    BY <1>7, <2>1 DEF InteractionsOf
<1>9. \A ctx, q : IsFiniteSet(Activity(ctx, q)) /\ getInteractionsCount(ctx, q) \in Nat
  <2>1. IsFiniteSet(DOMAIN log)
    <3>1. DOMAIN log = 1 .. Len(log) /\ Len(log) \in Nat
      BY DEF LogOK
    <3> QED
      BY <3>1, FS_Interval
  <2>2. \A ctx, q : Activity(ctx, q) \subseteq DOMAIN log
    BY DEF Activity, Transactions, StoredOK
  <2> QED
    BY <2>1, <2>2, FS_Subset, FS_CardinalityType DEF getInteractionsCount
<1>10. count \in Nat \ {0}
  <2>1. Activity(d, NoQuery) # {} /\ IsFiniteSet(Activity(d, NoQuery)) /\ count \in Nat
    BY <1>3, <1>8, <1>9
  <2>2. Cardinality(Activity(d, NoQuery)) # 0
    BY <2>1, FS_EmptySet
  <2> QED
    BY <2>1, <2>2 DEF getInteractionsCount
<1>11. \/ CountOf(ToSet(dayAgo), d) = before
       \/ CountOf(ToSet(dayAgo), d) = 0 /\ Cardinality(ahead) >= LeaderboardSize
  <2> DEFINE val == InteractionsOf(b)
  <2>1. \A e \in Daos : val[e] \in Nat /\ val[e] = getInteractionsCount(e, b)
    BY <1>9 DEF InteractionsOf
  <2>2. ahead = {e \in Daos \ {d} : val[e] >= val[d]} /\ val[d] = before
    BY <1>8, <2>1
  <2>3. d \in Daos /\ \A e \in Daos \ E : val[e] = 0
    BY <1>4, <1>8
  <2> HIDE DEF val, d, before, ahead
  <2>4. \/ CountOf(ToSet(Limited(u, LeaderboardSize)), d) = val[d]
        \/ /\ CountOf(ToSet(Limited(u, LeaderboardSize)), d) = 0
           /\ Cardinality({e \in Daos \ {d} : val[e] >= val[d]}) >= LeaderboardSize
    <3>1. u \in Ranked(RowsOf(E, val))
      BY <1>6 DEF val
    <3> QED
      BY <2>1, <2>3, <3>1, FirstRows
  <2> QED
    BY <1>6, <2>2, <2>4
<1>12. /\ entries[i].dao = d
       /\ entries[i].activity =
            [count |-> count, growth |-> getGrowth(count, CountOf(ToSet(dayAgo), d))]
  BY <1>1, <1>8
<1>13. usersTotals(d).interactions = [count |-> count, growth |-> getGrowth(count, before)]
  BY PageTotals DEF b
<1>14. getGrowth(count, 0) = 100
  BY <1>10, GrowthFromNothing
<1> HIDE DEF d, count, before, ahead
<1>15. \/ entries[i].activity = usersTotals(d).interactions
       \/ /\ entries[i].activity = [usersTotals(d).interactions EXCEPT !.growth = 100]
          /\ Cardinality(ahead) >= LeaderboardSize
  BY <1>11, <1>12, <1>13, <1>14
<1> QED
  BY <1>12, <1>15 DEF ahead, before, b

\* An entry of the leaderboard of incoming transfers leaves out those from other DAOs,
\* which the page of the DAO counts.
LEMMA FlowEntry ==
    ASSUME LogOK, StoredOK, NEW entries \in flowLeaderboard(NoDao, "Transaction", "Incoming"),
           NEW i \in DOMAIN entries
    PROVE  LET internal == {a \in saved : a.to = entries[i].dao /\ a.from \in Daos}
           IN  entries[i].activity.count
                 = flowTotals(entries[i].dao).transactionsIn.count
                     - Cardinality({a \in internal : a.deposit # NoDeposit})
<1> DEFINE actions == Transfers(NoDao, "Incoming", To(now))
           D == {Account(a, "Incoming") : a \in actions}
           val == [d \in Daos |-> Cardinality({a \in actions : a.to = d})]
<1>1. PICK rows \in getLeaderboard(NoDao, "Transaction", "Incoming", To(now)) :
         /\ DOMAIN entries = DOMAIN rows
         /\ \A j \in DOMAIN entries :
               /\ entries[j].dao = rows[j].dao
               /\ entries[j].activity.count = rows[j].count
  <2> DEFINE days == DaysOf(now - Month)
             byDays == getLeaderboardDaily(NoDao, "Transaction", "Incoming",
                                           [from |-> now - Month, to |-> now])
  <2>1. \A row, before : /\ LeaderboardMetric("Transaction", row, before, days, byDays).dao = row.dao
                         /\ LeaderboardMetric("Transaction", row, before, days, byDays).activity.count
                               = row.count
    <3> HIDE DEF days, byDays
    <3> QED
      BY DEF LeaderboardMetric, Shown
  <2>2. PICK rows \in getLeaderboard(NoDao, "Transaction", "Incoming", To(now)),
             before \in getLeaderboard(NoDao, "Transaction", "Incoming", To(DayAgo)) :
           entries = [j \in DOMAIN rows |->
                        LeaderboardMetric("Transaction", rows[j], before, days, byDays)]
    BY DEF flowLeaderboard
  <2> HIDE DEF days, byDays
  <2> QED
    BY <2>1, <2>2
<1>2. AccountsOf(NoDao) = Daos
  BY DEF AccountsOf
<1>3. D \in SUBSET Daos /\ \A d \in Daos \ D : val[d] = 0
  <2>1. D \in SUBSET Daos
    BY <1>2 DEF Account, Transfers
  <2>2. ASSUME NEW d \in Daos \ D PROVE val[d] = 0
    <3>1. {a \in actions : a.to = d} = {}
      BY DEF Account
    <3> HIDE DEF actions
    <3> QED
      BY <3>1, FS_EmptySet
  <2> QED
    BY <2>1, <2>2
<1>4. AccountsIn(NoDao, "Transaction", "Incoming", To(now)) = RowsOf(D, val)
  <2>1. \A d \in D : Amount("Transaction", {a \in actions : Account(a, "Incoming") = d}) = val[d]
    BY <1>3 DEF Amount, Account
  <2>2. AccountsIn(NoDao, "Transaction", "Incoming", To(now))
          = {[dao |-> d, count |-> Amount("Transaction", {a \in actions : Account(a, "Incoming") = d})] :
                d \in D}
    BY DEF AccountsIn
  <2> HIDE DEF D, val, actions
  <2> QED
    BY <2>1, <2>2 DEF RowsOf
<1> HIDE DEF D, val
<1>5. PICK s \in Ranked(RowsOf(D, val)) : rows = Limited(s, LeaderboardSize)
  BY <1>1, <1>4 DEF getLeaderboard
<1>6. rows[i] \in RowsOf(D, val)
  <2>1. IsFiniteSet(RowsOf(D, val))
    BY <1>3, RowFacts DEF RowsAre
  <2> QED
    BY <1>1, <1>5, <2>1, LimitedFacts
<1> DEFINE d == rows[i].dao
<1>7. d \in Daos /\ rows[i].count = val[d]
  <2>1. \A r \in RowsOf(D, val) : r.dao \in D /\ r.count = val[r.dao]
    BY <1>3, RowFacts DEF RowsAre
  <2> QED
    BY <1>3, <1>6, <2>1
<1> HIDE DEF d
<1> DEFINE all == {a \in saved : a.deposit # NoDeposit /\ a.to = d}
           mine == {a \in actions : a.to = d}
           internal == {a \in {a \in saved : a.to = d /\ a.from \in Daos} : a.deposit # NoDeposit}
<1>8. \A a \in saved : a.from # a.to /\ Within(a.at, To(now)) /\ Within(a.at, NoQuery)
  <2>1. \A a \in saved : a.at \in 0 .. now /\ a.from # a.to
    BY DEF StoredOK, LogOK, ActionOK
  <2>2. now \in Nat
    BY DEF LogOK
  <2> QED
    BY <2>1, <2>2 DEF Within, To, NoQuery, Absent
<1>9. flowTotals(d).transactionsIn.count = Cardinality(all)
  <2>1. flowTotals(d).transactionsIn.count = getTotals(d, "Transaction", "Incoming", NoQuery)
    BY DEF flowTotals
  <2>2. AccountsOf(d) = {d}
    BY <1>7, LogQueriesAssumption DEF AccountsOf
  <2>3. Transfers(d, "Incoming", NoQuery) = all
    BY <1>8, <2>2 DEF Transfers
  <2> HIDE DEF all
  <2> QED
    BY <2>1, <2>3 DEF getTotals, Amount
<1>10. all = mine \cup internal /\ mine \cap internal = {}
  <2>1. mine = {a \in saved : a.deposit # NoDeposit /\ a.to = d /\ a.from \notin Daos}
    BY <1>2, <1>7, <1>8 DEF Transfers
  <2> HIDE DEF mine
  <2> QED
    BY <2>1
<1>11. IsFiniteSet(mine) /\ IsFiniteSet(internal)
  <2>1. IsFiniteSet(saved)
    BY FS_Subset DEF StoredOK, LogOK
  <2>2. mine \subseteq saved /\ internal \subseteq saved
    BY DEF Transfers
  <2> HIDE DEF mine, internal
  <2> QED
    BY <2>1, <2>2, FS_Subset
<1>12. val[d] = Cardinality(mine)
  BY <1>7 DEF val
<1> HIDE DEF all, mine
<1>13. Cardinality(all) = Cardinality(mine) + Cardinality(internal)
  <2> HIDE DEF internal
  <2>1. Cardinality(all) = Cardinality(mine) + Cardinality(internal) - Cardinality(mine \cap internal)
    BY <1>10, <1>11, FS_Union
  <2>2. /\ Cardinality(mine) \in Nat /\ Cardinality(internal) \in Nat
        /\ Cardinality(mine \cap internal) = 0
    BY <1>10, <1>11, FS_CardinalityType, FS_EmptySet
  <2> QED
    BY <2>1, <2>2
<1>14. Cardinality(mine) \in Nat /\ Cardinality(internal) \in Nat
  <2> HIDE DEF internal
  <2> QED
    BY <1>11, FS_CardinalityType
<1>15. entries[i].dao = d /\ entries[i].activity.count = Cardinality(mine)
  BY <1>1, <1>7, <1>12 DEF d
<1>16. Cardinality(mine) = flowTotals(d).transactionsIn.count - Cardinality(internal)
  BY <1>9, <1>13, <1>14
<1> QED
  BY <1>15, <1>16

\* Whatever is stored, an entry of a leaderboard says of a DAO what its own page says, but
\* for the DAOs that were not among the first ones the day before and for the transfers
\* between DAOs (usersLeaderboard, interactionsLeaderboard and FlowService.leaderboard
\* against the totals of one DAO).
THEOREM LeaderboardsMatch == Spec => []LeaderboardsMatchPages
<1>1. ASSUME LogOK, StoredOK PROVE LeaderboardsMatchPages
  <2>1. now \in Nat /\ Week \in Nat \ {0} /\ Week # Absent /\ \A t \in 0 .. now : t <= now
    BY <1>1, LogQueriesAssumption DEF LogOK, Absent
  <2>2. ASSUME NEW entries \in usersLeaderboard(Absent), NEW i \in DOMAIN entries
        PROVE  entries[i].activity = usersTotals(entries[i].dao).users
    <3>1. Span(Absent) = [from |-> Absent, to |-> now] /\ SpanBefore(Absent) = To(DayAgo)
      BY DEF Span, SpanBefore, Since, To, DayAgo
    <3>2. \A t \in 0 .. now : Within(t, Span(Absent)) <=> Within(t, NoQuery)
      BY <2>1, <3>1 DEF Within, NoQuery
    <3>3. entries[i].activity =
            [count |-> getUsersTotalCount(entries[i].dao, NoQuery),
             growth |-> getGrowth(getUsersTotalCount(entries[i].dao, NoQuery),
                                  getUsersTotalCount(entries[i].dao, SpanBefore(Absent)))]
      BY <1>1, <3>2, UsersEntry
    <3> QED
      BY <3>1, <3>3, PageTotals
  <2>3. ASSUME NEW entries \in usersLeaderboard(Week), NEW i \in DOMAIN entries
        PROVE  entries[i].activity = usersTotals(entries[i].dao).activeUsers
    <3>1. /\ Span(Week) = [from |-> now - Week, to |-> now]
          /\ SpanBefore(Week) = [from |-> now - 2 * Week, to |-> now - Week]
      BY <2>1 DEF Span, SpanBefore, Since
    <3>2. \A t \in 0 .. now : Within(t, Span(Week)) <=> Within(t, From(now - Week))
      BY <2>1, <3>1 DEF Within, From, Absent
    <3>3. entries[i].activity =
            [count |-> getUsersTotalCount(entries[i].dao, From(now - Week)),
             growth |-> getGrowth(getUsersTotalCount(entries[i].dao, From(now - Week)),
                                  getUsersTotalCount(entries[i].dao, SpanBefore(Week)))]
      BY <1>1, <3>2, UsersEntry
    <3> QED
      BY <3>1, <3>3, PageTotals
  <2>4. ASSUME NEW entries \in interactionsLeaderboard, NEW i \in DOMAIN entries
        PROVE  LET d == entries[i].dao
                   before == getInteractionsCount(d, To(DayAgo))
                   ahead == {e \in Daos \ {d} : getInteractionsCount(e, To(DayAgo)) >= before}
               IN  \/ entries[i].activity = usersTotals(d).interactions
                   \/ /\ entries[i].activity = [usersTotals(d).interactions EXCEPT !.growth = 100]
                      /\ Cardinality(ahead) >= LeaderboardSize
    BY <1>1, InteractionsEntry
  <2>5. ASSUME NEW entries \in flowLeaderboard(NoDao, "Transaction", "Incoming"),
               NEW i \in DOMAIN entries
        PROVE  LET internal == {a \in saved : a.to = entries[i].dao /\ a.from \in Daos}
               IN  entries[i].activity.count
                     = flowTotals(entries[i].dao).transactionsIn.count
                         - Cardinality({a \in internal : a.deposit # NoDeposit})
    BY <1>1, FlowEntry
  <2> QED
    BY <2>2, <2>3, <2>4, <2>5 DEF LeaderboardsMatchPages
<1> QED
  BY <1>1, Invariance, PTL

-----------------------------------------------------------------------------
(* Days                                                                    *)

\* A moment by its day and its time of day.
LEMMA DayFacts ==
    ASSUME NEW t \in Nat
    PROVE  /\ Day(t) \in Nat /\ t % DayLength \in Nat /\ t % DayLength < DayLength
           /\ Day(t) * DayLength \in Nat /\ t = Day(t) * DayLength + (t % DayLength)
<1>1. /\ t \div DayLength \in Nat /\ t % DayLength \in Nat /\ t % DayLength < DayLength
      /\ (t \div DayLength) * DayLength \in Nat
      /\ t = (t \div DayLength) * DayLength + (t % DayLength)
  <2>1. DayLength \in Nat /\ DayLength > 0
    BY MetricDaysAssumption
  <2> QED
    BY <2>1, Division, Zenon
<1> QED
  BY <1>1, Zenon DEF Day

\* A later day begins after the end of an earlier one.
LEMMA DayStarts ==
    ASSUME NEW a \in Nat, NEW b \in Nat
    PROVE  /\ DayLength \in Nat /\ DayLength > 0 /\ a * DayLength \in Nat /\ b * DayLength \in Nat
           /\ a < b => a * DayLength + DayLength <= b * DayLength
           /\ a <= b => a * DayLength <= b * DayLength
<1>1. DayLength \in Nat /\ DayLength > 0
  BY MetricDaysAssumption
<1> QED
  BY <1>1, MultiplesInOrder

\* The day and the time of day of a moment are unique.
LEMMA DayOf ==
    ASSUME NEW day \in Nat, NEW r \in Nat, r < DayLength
    PROVE  Day(day * DayLength + r) = day /\ (day * DayLength + r) % DayLength = r
<1>1. DayLength \in Nat /\ DayLength > 0
  BY MetricDaysAssumption
<1> QED
  BY <1>1, QuotientOf DEF Day

\* The first and the last moment of a day.
LEMMA DayBounds ==
    ASSUME NEW day \in Nat
    PROVE  /\ StartOf(day) \in Nat /\ EndOf(day) \in Nat
           /\ Day(StartOf(day)) = day /\ Day(EndOf(day)) = day
           /\ StartOf(day) % DayLength = 0
<1>1. DayLength \in Nat /\ DayLength > 0 /\ day * DayLength \in Nat /\ DayLength - 1 \in Nat
  BY DayStarts
<1>2. Day(day * DayLength + 0) = day /\ (day * DayLength + 0) % DayLength = 0
  <2>1. 0 \in Nat /\ 0 < DayLength
    BY <1>1
  <2> QED
    BY <2>1, DayOf
<1>3. Day(day * DayLength + (DayLength - 1)) = day
  <2>1. DayLength - 1 < DayLength
    BY <1>1
  <2> QED
    BY <1>1, <2>1, DayOf
<1>4. /\ StartOf(day) = day * DayLength + 0 /\ EndOf(day) = day * DayLength + (DayLength - 1)
      /\ StartOf(day) \in Nat /\ EndOf(day) \in Nat
  BY <1>1 DEF StartOf, EndOf
<1> QED
  BY <1>2, <1>3, <1>4

\* Days follow the order of their moments.
LEMMA DayOrder ==
    ASSUME NEW a \in Nat, NEW b \in Nat
    PROVE  /\ a <= b => Day(a) <= Day(b)
           /\ Day(a) = Day(b) /\ a <= b => a % DayLength <= b % DayLength
           /\ Day(a) = Day(b) /\ a < b => a % DayLength < b % DayLength
           /\ Day(a) <= Day(b) => StartOf(Day(a)) <= b
<1>1. DayLength \in Nat /\ DayLength > 0
  BY MetricDaysAssumption
<1> QED
  BY <1>1, QuotientOrder DEF Day, StartOf

\* The steps of a day from one moment to another.
LEMMA StepsOfDays ==
    ASSUME NEW from \in Nat, NEW to \in Nat, Day(from) <= Day(to)
    PROVE  LET n == Day(to) - Day(from) + (IF from % DayLength > to % DayLength THEN 0 ELSE 1)
           IN  /\ n \in Nat /\ n <= Day(to) - Day(from) + 1
               /\ (IF to < from THEN 0 ELSE (to - from) \div DayLength + 1) = n
<1>1. DayLength \in Nat /\ DayLength > 0 /\ from \div DayLength <= to \div DayLength
  BY MetricDaysAssumption DEF Day
<1> DEFINE n == to \div DayLength - from \div DayLength
                  + (IF from % DayLength > to % DayLength THEN 0 ELSE 1)
<1>2. n = to \div DayLength - from \div DayLength
            + (IF from % DayLength > to % DayLength THEN 0 ELSE 1)
  OBVIOUS
<1> HIDE DEF n
<1>3. /\ n \in Nat /\ n <= to \div DayLength - from \div DayLength + 1
      /\ (IF to < from THEN 0 ELSE (to - from) \div DayLength + 1) = n
  BY <1>1, <1>2, StepsUpTo
<1> QED
  BY <1>3 DEF Day, n

\* A finite set of numbers in its order.
LEMMA OrderedDays ==
    ASSUME NEW S \in SUBSET Int, IsFiniteSet(S)
    PROVE  LET s == InOrder(S)
           IN  /\ DOMAIN s = 1 .. Len(s) /\ Len(s) \in Nat /\ s \in Seq(S)
               /\ \A i \in DOMAIN s : s[i] \in S
               /\ \A i, j \in DOMAIN s : i < j => s[i] < s[j]
               /\ \A x \in S : \E i \in DOMAIN s : s[i] = x
<1> DEFINE s == InOrder(S)
<1>1. s \in SetToSeqs(S) /\ \A i, j \in DOMAIN s : i < j => s[i] < s[j]
  <2>1. \E u \in SetToSeqs(S) : \A i, j \in DOMAIN u : i < j => u[i] < u[j]
    BY OrderExists
  <2> QED
    BY <2>1 DEF InOrder
<1> HIDE DEF s
<1>2. /\ s \in Seq(S) /\ DOMAIN s = 1 .. Len(s) /\ Len(s) \in Nat
      /\ \A i \in DOMAIN s : s[i] \in S
      /\ \A x \in S : \E i \in DOMAIN s : s[i] = x
  BY <1>1, SequenceOfSet
<1> QED
  BY <1>1, <1>2 DEF s

-----------------------------------------------------------------------------
(* A chart read day by day                                                 *)

EndsOf(days) == {days[n].end : n \in DOMAIN days}
EachOnce(days) == \A i, j \in DOMAIN days : i # j => days[i].end # days[j].end

\* What is answered of a day is the users at a moment of the request.
AnswerOf(answer, asked) ==
    \A m \in DOMAIN asked.days : asked.days[m].end = answer.end =>
        answer.count \in asked.atFirst[m] .. getUsersTotalCount(NoDao, To(answer.end))

\* The days of a request are still to ask, failed or answered, each once; users are
\* never fewer than at first.
AskedOK(asked) ==
    /\ asked \in [days : Seq([start : Int, end : Nat]), todo : Seq([start : Int, end : Nat]),
                  failed : SUBSET Nat, got : Seq([end : Nat, count : Nat]),
                  atFirst : Seq(Nat)]
    /\ \A i, j \in DOMAIN asked.days : i < j => asked.days[i].end < asked.days[j].end
    /\ EachOnce(asked.todo) /\ EachOnce(asked.got) /\ Len(asked.atFirst) = Len(asked.days)
    /\ EndsOf(asked.days) = EndsOf(asked.todo) \cup EndsOf(asked.got) \cup asked.failed
    /\ EndsOf(asked.todo) \cap (EndsOf(asked.got) \cup asked.failed) = {}
    /\ EndsOf(asked.got) \cap asked.failed = {}
    /\ \A m \in DOMAIN asked.days :
          asked.atFirst[m] <= getUsersTotalCount(NoDao, To(asked.days[m].end))
    /\ \A n \in DOMAIN asked.got : AnswerOf(asked.got[n], asked)

RequestOK == request # <<>> => request = <<request[1]>> /\ AskedOK(request[1])

\* Users of stored transactions are finitely many, and never fewer later.
LEMMA UsersGrow ==
    ASSUME LogOK, StoredOK, NEW e
    PROVE  /\ getUsersTotalCount(NoDao, To(e)) \in Nat
           /\ (UNCHANGED log /\ DOMAIN types \subseteq DOMAIN types' /\ DOMAIN types' \subseteq DOMAIN log)
                 => /\ getUsersTotalCount(NoDao, To(e))' \in Nat
                    /\ getUsersTotalCount(NoDao, To(e)) <= getUsersTotalCount(NoDao, To(e))'
<1> DEFINE Stored(D) == {i \in D : log[i].receiver \in AccountsOf(NoDao) /\ Within(log[i].at, To(e))}
           Of(D) == {log[i].signer : i \in Stored(D)}
           signer == [i \in DOMAIN log |-> log[i].signer]
<1>1. IsFiniteSet(DOMAIN log)
  <2>1. DOMAIN log = 1 .. Len(log) /\ Len(log) \in Nat
    BY DEF LogOK
  <2> QED
    BY <2>1, FS_Interval
<1>2. ASSUME NEW D, D \subseteq DOMAIN log
      PROVE  IsFiniteSet(Of(D)) /\ Cardinality(Of(D)) \in Nat
  <2>1. IsFiniteSet(Stored(D))
    BY <1>1, <1>2, FS_Subset
  <2>2. Of(D) = {signer[i] : i \in Stored(D)}
    BY <1>2
  <2> HIDE DEF Stored, Of, signer
  <2>3. IsFiniteSet(Of(D))
    BY <2>1, <2>2, FiniteImages
  <2> QED
    BY <2>3, FS_CardinalityType
<1>3. getUsersTotalCount(NoDao, To(e)) = Cardinality(Of(DOMAIN types))
  BY DEF getUsersTotalCount, CountUsers, Transactions
<1>4. DOMAIN types \subseteq DOMAIN log
  BY DEF StoredOK
<1>5. ASSUME UNCHANGED log, DOMAIN types \subseteq DOMAIN types', DOMAIN types' \subseteq DOMAIN log
      PROVE  /\ getUsersTotalCount(NoDao, To(e))' \in Nat
             /\ getUsersTotalCount(NoDao, To(e)) <= getUsersTotalCount(NoDao, To(e))'
  <2>1. getUsersTotalCount(NoDao, To(e))' = Cardinality(Of(DOMAIN types'))
    BY <1>5 DEF getUsersTotalCount, CountUsers, Transactions, AccountsOf, Within, To
  <2>2. Of(DOMAIN types) \subseteq Of(DOMAIN types')
    BY <1>5
  <2> HIDE DEF Of
  <2> QED
    BY <1>2, <1>3, <1>5, <2>1, <2>2, FS_Subset
<1> HIDE DEF Of
<1> QED
  BY <1>2, <1>3, <1>4, <1>5

\* A day that is answered or fails is asked no more.
LEMMA AskedNoMore ==
    ASSUME NEW X, NEW s \in Seq(X), NEW n \in DOMAIN s, EachOnce(s)
    PROVE  /\ RemoveAt(s, n) \in Seq(X) /\ EachOnce(RemoveAt(s, n))
           /\ EndsOf(RemoveAt(s, n)) = EndsOf(s) \ {s[n].end}
<1> DEFINE t == RemoveAt(s, n)
           m == Len(s) - 1
           At(i) == IF i < n THEN i ELSE i + 1
<1>1. n \in 1 .. Len(s) /\ Len(s) \in Nat /\ m \in Nat /\ DOMAIN s = 1 .. Len(s)
  OBVIOUS
<1>2. /\ t \in Seq(X) /\ DOMAIN t = 1 .. m
      /\ \A i \in 1 .. m : t[i] = IF i < n THEN s[i] ELSE s[i + 1]
  BY RemoveAtFacts
<1> HIDE DEF t
<1>3. \A i \in 1 .. m : At(i) \in DOMAIN s /\ At(i) # n /\ t[i] = s[At(i)]
  BY <1>1, <1>2
<1>4. \A i, j \in 1 .. m : i # j => At(i) # At(j)
  BY <1>1
<1>5. ASSUME NEW j \in DOMAIN s, j # n PROVE \E i \in 1 .. m : At(i) = j
  <2>1. CASE j < n
    <3>1. j \in 1 .. m /\ At(j) = j
      BY <1>1, <2>1
    <3> QED
      BY <3>1
  <2>2. CASE ~ (j < n)
    <3>1. j - 1 \in 1 .. m /\ At(j - 1) = j
      BY <1>1, <1>5, <2>2
    <3> QED
      BY <3>1
  <2> QED
    BY <2>1, <2>2
<1> HIDE DEF At, m
<1>6. EachOnce(t)
  BY <1>2, <1>3, <1>4 DEF EachOnce
<1>7. EndsOf(t) \subseteq EndsOf(s) \ {s[n].end}
  BY <1>2, <1>3 DEF EndsOf, EachOnce
<1>8. EndsOf(s) \ {s[n].end} \subseteq EndsOf(t)
  <2> SUFFICES ASSUME NEW e \in EndsOf(s) \ {s[n].end} PROVE e \in EndsOf(t)
    OBVIOUS
  <2>1. PICK j \in DOMAIN s : e = s[j].end
    BY DEF EndsOf
  <2>2. PICK i \in 1 .. m : At(i) = j
    BY <1>5, <2>1
  <2>3. t[i] = s[j] /\ i \in DOMAIN t
    BY <1>2, <1>3, <2>2
  <2> QED
    BY <2>1, <2>3 DEF EndsOf
<1> QED
  BY <1>2, <1>6, <1>7, <1>8 DEF t

\* The answer of a day is added to those of other days.
LEMMA AnswerAdded ==
    ASSUME NEW X, NEW s \in Seq(X), NEW x \in X, x.end \notin EndsOf(s), EachOnce(s)
    PROVE  /\ Append(s, x) \in Seq(X) /\ EachOnce(Append(s, x))
           /\ EndsOf(Append(s, x)) = EndsOf(s) \cup {x.end}
           /\ DOMAIN Append(s, x) = DOMAIN s \cup {Len(s) + 1}
           /\ \A i \in DOMAIN s : Append(s, x)[i] = s[i]
           /\ Append(s, x)[Len(s) + 1] = x
<1> DEFINE t == Append(s, x)
<1>1. /\ t \in Seq(X) /\ DOMAIN t = DOMAIN s \cup {Len(s) + 1} /\ Len(s) + 1 \notin DOMAIN s
      /\ \A i \in DOMAIN s : t[i] = s[i]
      /\ t[Len(s) + 1] = x
  OBVIOUS
<1> HIDE DEF t
<1>2. EachOnce(t)
  BY <1>1 DEF EachOnce, EndsOf
<1>3. EndsOf(t) = EndsOf(s) \cup {x.end}
  BY <1>1 DEF EndsOf
<1> QED
  BY <1>1, <1>2, <1>3 DEF t

\* While more is stored, the answers of a request stay between then and now.
LEMMA AskedKept ==
    ASSUME LogOK, StoredOK, UNCHANGED log, DOMAIN types \subseteq DOMAIN types',
           DOMAIN types' \subseteq DOMAIN log, NEW asked, AskedOK(asked)
    PROVE  AskedOK(asked)'
<1> DEFINE V(e) == getUsersTotalCount(NoDao, To(e))
<1>1. ASSUME NEW e PROVE V(e) \in Nat /\ V(e)' \in Nat /\ V(e) <= V(e)'
  BY UsersGrow
<1> HIDE DEF V
<1>2. \A m \in DOMAIN asked.days : /\ asked.atFirst[m] \in Nat
                                   /\ asked.atFirst[m] <= V(asked.days[m].end)
  <2>1. /\ \A m \in DOMAIN asked.days : asked.atFirst[m] <= V(asked.days[m].end)
        /\ asked.atFirst \in Seq(Nat) /\ asked.days \in Seq([start : Int, end : Nat])
        /\ Len(asked.atFirst) = Len(asked.days)
    BY DEF AskedOK, V
  <2> QED
    BY <2>1
<1>3. \A m \in DOMAIN asked.days : asked.atFirst[m] <= V(asked.days[m].end)'
  <2> SUFFICES ASSUME NEW m \in DOMAIN asked.days PROVE asked.atFirst[m] <= V(asked.days[m].end)'
    OBVIOUS
  <2> DEFINE e == asked.days[m].end
  <2>1. V(e) \in Nat /\ V(e)' \in Nat /\ V(e) <= V(e)' /\ asked.atFirst[m] \in Nat /\ asked.atFirst[m] <= V(e)
    BY <1>1, <1>2
  <2> QED
    BY <2>1
<1>4. ASSUME NEW n \in DOMAIN asked.got PROVE AnswerOf(asked.got[n], asked)'
  <2> SUFFICES ASSUME NEW m \in DOMAIN asked.days, asked.days[m].end = asked.got[n].end
               PROVE  asked.got[n].count \in asked.atFirst[m] .. V(asked.got[n].end)'
    BY DEF AnswerOf, V
  <2> DEFINE e == asked.got[n].end
             c == asked.got[n].count
  <2>1. c \in asked.atFirst[m] .. V(e)
    BY DEF AskedOK, AnswerOf, V
  <2>2. V(e) \in Nat /\ V(e)' \in Nat /\ V(e) <= V(e)' /\ asked.atFirst[m] \in Nat
    BY <1>1, <1>2
  <2> HIDE DEF e, c
  <2>3. c \in asked.atFirst[m] .. V(e)'
    BY <2>1, <2>2
  <2> QED
    BY <2>3 DEF e, c
<1> QED
  BY <1>3, <1>4 DEF AskedOK, V

\* A request begins with all of its days to ask.
LEMMA RequestBegins ==
    ASSUME LogOK, StoredOK, StartRequest
    PROVE  \E asked : request' = <<asked>> /\ AskedOK(asked)
<1> DEFINE days == DaysOf(0)
           first == UsersUpTo(days)
           n == IF now < Later(0, 0) THEN 0 ELSE (now - Later(0, 0)) \div DayLength + 1
           D == Day(Later(0, 0))
           V(e) == getUsersTotalCount(NoDao, To(e))
           asked == [days |-> days, todo |-> days, failed |-> {}, got |-> <<>>, atFirst |-> first]
<1>1. D \in Nat /\ n \in Nat
  <2>1. Later(0, 0) = 0 /\ now \in Nat /\ now - 0 \in Nat
    BY DEF Later, LogOK
  <2>2. Day(0) \in Nat /\ Day(now) \in Nat
    BY <2>1, DayFacts
  <2> QED
    BY <2>1, <2>2 DEF Day
<1>2. days = [i \in 1 .. n |-> [start |-> StartOf(D + i - 1), end |-> EndOf(D + i - 1)]]
  BY DEF DaysOf, getDailyIntervals
<1> HIDE DEF n, D, days
<1>3. ASSUME NEW i \in 1 .. n, NEW j \in 1 .. n
      PROVE  /\ days[i] \in [start : Int, end : Nat]
             /\ i < j => days[i].end < days[j].end
  <2> DEFINE p == D + i - 1
             q == D + j - 1
  <2>1. p \in Nat /\ q \in Nat /\ (i < j => p < q)
    BY <1>1
  <2>2. days[i] = [start |-> StartOf(p), end |-> EndOf(p)] /\ days[j].end = EndOf(q)
    BY <1>2
  <2> HIDE DEF p, q
  <2>3. StartOf(p) \in Nat /\ EndOf(p) \in Nat
    BY <2>1, DayBounds
  <2>4. p < q => EndOf(p) < EndOf(q)
    <3>1. /\ DayLength \in Nat /\ DayLength > 0 /\ p * DayLength \in Nat /\ q * DayLength \in Nat
          /\ p < q => p * DayLength + DayLength <= q * DayLength
      BY <2>1, DayStarts
    <3> QED
      BY <3>1 DEF EndOf, StartOf
  <2> QED
    BY <2>1, <2>2, <2>3, <2>4
<1>4. DOMAIN days = 1 .. n /\ Len(days) = n /\ days \in Seq([start : Int, end : Nat])
  <2>1. days = [i \in 1 .. n |-> days[i]]
    BY <1>2
  <2>2. Len(days) = n /\ DOMAIN days = 1 .. n
    BY <1>1, <2>1, LengthOf
  <2> DEFINE R == [start : Int, end : Nat]
  <2>3. \A i \in 1 .. n : days[i] \in R
    BY <1>3
  <2> HIDE DEF R
  <2>4. days \in [1 .. n -> R]
    BY <2>1, <2>3
  <2>5. days \in Seq(R)
    BY <1>1, <2>4
  <2> QED
    BY <2>2, <2>5 DEF R
<1>5. first = [i \in 1 .. n |-> V(days[i].end)]
  BY <1>4 DEF UsersUpTo, DayValue
<1>6. first \in Seq(Nat) /\ Len(first) = n /\ \A i \in 1 .. n : first[i] = V(days[i].end) /\ first[i] \in Nat
  <2>1. \A e : V(e) \in Nat
    BY UsersGrow
  <2> HIDE DEF V, first
  <2>2. first = [i \in 1 .. n |-> first[i]] /\ first \in [1 .. n -> Nat]
    BY <1>5, <2>1
  <2>3. Len(first) = n
    BY <1>1, <2>2, LengthOf
  <2>4. first \in Seq(Nat)
    BY <1>1, <2>2
  <2> QED
    BY <1>5, <2>1, <2>3, <2>4
<1> HIDE DEF first
<1>7. PICK a : a = asked
  OBVIOUS
<1>8. /\ a.days = days /\ a.todo = days /\ a.failed = {} /\ a.got = <<>> /\ a.atFirst = first
      /\ a \in [days : Seq([start : Int, end : Nat]), todo : Seq([start : Int, end : Nat]),
                failed : SUBSET Nat, got : Seq([end : Nat, count : Nat]), atFirst : Seq(Nat)]
  <2>1. /\ a.days = days /\ a.todo = days /\ a.failed = {} /\ a.got = <<>> /\ a.atFirst = first
    BY <1>7
  <2>2. <<>> \in Seq([end : Nat, count : Nat]) /\ {} \in SUBSET Nat
    OBVIOUS
  <2> QED
    BY <1>4, <1>6, <1>7, <2>1, <2>2
<1>9. EachOnce(days) /\ EachOnce(<<>>) /\ EndsOf(<<>>) = {}
  <2>1. ASSUME NEW i \in 1 .. n, NEW j \in 1 .. n, i # j PROVE days[i].end # days[j].end
    <3>1. days[i].end \in Nat /\ days[j].end \in Nat /\ (i < j \/ j < i)
      BY <1>1, <1>3, <2>1
    <3> QED
      BY <1>3, <3>1
  <2> QED
    BY <1>4, <2>1 DEF EachOnce, EndsOf
<1>10. \A m \in 1 .. n : first[m] <= V(days[m].end)
  <2>1. ASSUME NEW m \in 1 .. n PROVE first[m] <= V(days[m].end)
    <3>1. first[m] = V(days[m].end) /\ first[m] \in Nat
      BY <1>6
    <3> HIDE DEF V
    <3> QED
      BY <3>1
  <2> QED
    BY <2>1
<1>11. AskedOK(a)
  BY <1>3, <1>4, <1>6, <1>8, <1>9, <1>10 DEF AskedOK, V
<1>12. request' = <<a>>
  BY <1>7 DEF StartRequest, asked, days, first
<1> QED
  BY <1>11, <1>12

\* A day under way is answered, or fails, once.
LEMMA RequestAnswers ==
    ASSUME LogOK, StoredOK, RequestOK, DayAnswered \/ DayFails
    PROVE  \E asked : request' = <<asked>> /\ AskedOK(asked)
<1>1. \E asked \in ToSet(request) : UnderWay(asked) # {}
  BY DEF DayAnswered, DayFails
<1>2. request # <<>> /\ request = <<request[1]>> /\ AskedOK(request[1])
  <2>1. request # <<>>
    BY <1>1 DEF ToSet
  <2> QED
    BY <2>1 DEF RequestOK
<1>3. PICK asked : asked = request[1]
  OBVIOUS
<1>4. \A other \in ToSet(request) : other = asked
  <2>1. request = <<asked>>
    BY <1>2, <1>3
  <2> QED
    BY <2>1 DEF ToSet
<1>5. AskedOK(asked)
  BY <1>2, <1>3
<1> DEFINE Days == Seq([start : Int, end : Nat])
           Answers == Seq([end : Nat, count : Nat])
           V(e) == getUsersTotalCount(NoDao, To(e))
<1>6. /\ asked.days \in Days /\ asked.todo \in Days /\ asked.failed \in SUBSET Nat
      /\ asked.got \in Answers /\ asked.atFirst \in Seq(Nat)
      /\ asked = [days |-> asked.days, todo |-> asked.todo, failed |-> asked.failed,
                  got |-> asked.got, atFirst |-> asked.atFirst]
  BY <1>5 DEF AskedOK
<1>7. \A n \in UnderWay(asked) : n \in DOMAIN asked.todo
  BY DEF UnderWay
<1>8. ASSUME NEW n \in DOMAIN asked.todo
      PROVE  /\ asked.todo[n].end \in Nat /\ asked.todo[n].end \in EndsOf(asked.todo)
             /\ asked.todo[n].end \notin EndsOf(asked.got) \cup asked.failed
             /\ RemoveAt(asked.todo, n) \in Days /\ EachOnce(RemoveAt(asked.todo, n))
             /\ EndsOf(RemoveAt(asked.todo, n)) = EndsOf(asked.todo) \ {asked.todo[n].end}
  <2>1. asked.todo[n] \in [start : Int, end : Nat]
    <3> DEFINE R == [start : Int, end : Nat]
               s == asked.todo
    <3>1. s \in Seq(R) /\ n \in DOMAIN s
      BY <1>6
    <3> HIDE DEF R, s
    <3>2. s[n] \in R
      BY <3>1
    <3> QED
      BY <3>2 DEF R, s
  <2>2. EachOnce(asked.todo) /\ EndsOf(asked.todo) \cap (EndsOf(asked.got) \cup asked.failed) = {}
    BY <1>5 DEF AskedOK
  <2>3. asked.todo[n].end \in EndsOf(asked.todo)
    BY DEF EndsOf
  <2>4. /\ RemoveAt(asked.todo, n) \in Days /\ EachOnce(RemoveAt(asked.todo, n))
        /\ EndsOf(RemoveAt(asked.todo, n)) = EndsOf(asked.todo) \ {asked.todo[n].end}
    BY <1>6, <2>2, AskedNoMore
  <2> QED
    BY <2>1, <2>2, <2>3, <2>4
<1>9. CASE DayFails
  <2>1. PICK n \in DOMAIN asked.todo :
           request' = <<[asked EXCEPT !.todo = RemoveAt(@, n),
                                      !.failed = @ \cup {asked.todo[n].end}]>>
    BY <1>4, <1>7, <1>9 DEF DayFails
  <2> DEFINE e == asked.todo[n].end
             rest == RemoveAt(asked.todo, n)
  <2>2. PICK b : b = [asked EXCEPT !.todo = RemoveAt(@, n), !.failed = @ \cup {asked.todo[n].end}]
    OBVIOUS
  <2>3. b = [days |-> asked.days, todo |-> rest, failed |-> asked.failed \cup {e},
             got |-> asked.got, atFirst |-> asked.atFirst]
    BY <1>6, <2>2
  <2>4. /\ b.days = asked.days /\ b.todo = rest /\ b.failed = asked.failed \cup {e}
        /\ b.got = asked.got /\ b.atFirst = asked.atFirst
    BY <2>3
  <2>5. /\ e \in Nat /\ e \in EndsOf(asked.todo) /\ e \notin EndsOf(asked.got) \cup asked.failed
        /\ rest \in Days /\ EachOnce(rest) /\ EndsOf(rest) = EndsOf(asked.todo) \ {e}
    BY <1>8
  <2> HIDE DEF e, rest
  <2>6. b \in [days : Days, todo : Days, failed : SUBSET Nat, got : Answers, atFirst : Seq(Nat)]
    BY <1>6, <2>3, <2>5
  <2>7. /\ EndsOf(b.days) = EndsOf(b.todo) \cup EndsOf(b.got) \cup b.failed
        /\ EndsOf(b.todo) \cap (EndsOf(b.got) \cup b.failed) = {}
        /\ EndsOf(b.got) \cap b.failed = {}
    BY <1>5, <2>4, <2>5 DEF AskedOK
  <2>8. \A n_ \in DOMAIN b.got : AnswerOf(b.got[n_], b)
    BY <1>5, <2>4 DEF AskedOK, AnswerOf
  <2>9. AskedOK(b)
    BY <1>5, <2>4, <2>5, <2>6, <2>7, <2>8 DEF AskedOK
  <2> QED
    BY <2>1, <2>2, <2>9
<1>10. CASE DayAnswered
  <2>1. PICK n \in DOMAIN asked.todo :
           request' = <<[asked EXCEPT
              !.todo = RemoveAt(@, n),
              !.got = Append(@, [end |-> asked.todo[n].end,
                                 count |-> DayValue("users", NoDao, asked.todo[n].end)])]>>
    BY <1>4, <1>7, <1>10 DEF DayAnswered
  <2> DEFINE e == asked.todo[n].end
             rest == RemoveAt(asked.todo, n)
             x == [end |-> e, count |-> V(e)]
             more == Append(asked.got, x)
  <2>2. PICK b : b = [asked EXCEPT
              !.todo = RemoveAt(@, n),
              !.got = Append(@, [end |-> asked.todo[n].end,
                                 count |-> DayValue("users", NoDao, asked.todo[n].end)])]
    OBVIOUS
  <2>3. b = [days |-> asked.days, todo |-> rest, failed |-> asked.failed,
             got |-> more, atFirst |-> asked.atFirst]
    BY <1>6, <2>2 DEF DayValue
  <2>4. /\ b.days = asked.days /\ b.todo = rest /\ b.failed = asked.failed
        /\ b.got = more /\ b.atFirst = asked.atFirst
    BY <2>3
  <2>5. /\ e \in Nat /\ e \in EndsOf(asked.todo) /\ e \notin EndsOf(asked.got) \cup asked.failed
        /\ rest \in Days /\ EachOnce(rest) /\ EndsOf(rest) = EndsOf(asked.todo) \ {e}
    BY <1>8
  <2>6. V(e) \in Nat /\ x \in [end : Nat, count : Nat] /\ x.end = e /\ x.count = V(e)
    <3>1. V(e) \in Nat
      BY UsersGrow
    <3> HIDE DEF V
    <3> QED
      BY <2>5, <3>1
  <2> HIDE DEF e, rest, x, V
  <2>7. /\ more \in Answers /\ EachOnce(more) /\ EndsOf(more) = EndsOf(asked.got) \cup {e}
        /\ DOMAIN more = DOMAIN asked.got \cup {Len(asked.got) + 1}
        /\ \A i \in DOMAIN asked.got : more[i] = asked.got[i]
        /\ more[Len(asked.got) + 1] = x
    <3>1. EachOnce(asked.got) /\ x.end \notin EndsOf(asked.got)
      BY <1>5, <2>5, <2>6 DEF AskedOK
    <3> DEFINE R == [end : Nat, count : Nat]
               s == asked.got
    <3>2. s \in Seq(R) /\ x \in R /\ x.end \notin EndsOf(s) /\ EachOnce(s) /\ x.end = e
      BY <1>6, <2>6, <3>1
    <3> HIDE DEF R, s
    <3>3. /\ Append(s, x) \in Seq(R) /\ EachOnce(Append(s, x))
          /\ EndsOf(Append(s, x)) = EndsOf(s) \cup {x.end}
          /\ DOMAIN Append(s, x) = DOMAIN s \cup {Len(s) + 1}
          /\ \A i \in DOMAIN s : Append(s, x)[i] = s[i]
          /\ Append(s, x)[Len(s) + 1] = x
      BY <3>2, AnswerAdded
    <3> QED
      BY <3>2, <3>3 DEF R, s
  <2> HIDE DEF more
  <2>8. b \in [days : Days, todo : Days, failed : SUBSET Nat, got : Answers, atFirst : Seq(Nat)]
    BY <1>6, <2>3, <2>5, <2>7
  <2>9. /\ EndsOf(b.days) = EndsOf(b.todo) \cup EndsOf(b.got) \cup b.failed
        /\ EndsOf(b.todo) \cap (EndsOf(b.got) \cup b.failed) = {}
        /\ EndsOf(b.got) \cap b.failed = {}
    BY <1>5, <2>4, <2>5, <2>7 DEF AskedOK
  <2>10. AnswerOf(x, b)
    <3> SUFFICES ASSUME NEW m \in DOMAIN b.days, b.days[m].end = e
                 PROVE  V(e) \in b.atFirst[m] .. V(e)
      BY <2>6 DEF AnswerOf, V
    <3>1. asked.atFirst[m] <= V(e) /\ asked.atFirst[m] \in Nat
      <4>1. m \in DOMAIN asked.days /\ asked.days[m].end = e
        BY <2>4
      <4>2. asked.atFirst[m] <= V(asked.days[m].end) /\ Len(asked.atFirst) = Len(asked.days)
        BY <1>5, <4>1 DEF AskedOK, V
      <4>3. asked.atFirst \in Seq(Nat) /\ asked.days \in Days
        BY <1>6
      <4>4. asked.atFirst[m] \in Nat
        <5> HIDE DEF Days
        <5>1. m \in 1 .. Len(asked.atFirst)
          <6>1. DOMAIN asked.days = 1 .. Len(asked.days)
            BY <4>3 DEF Days
          <6> QED
            BY <4>1, <4>2, <6>1
        <5> QED
          BY <4>3, <5>1
      <4> QED
        BY <4>1, <4>2, <4>4
    <3> QED
      BY <2>4, <2>6, <3>1
  <2>11. ASSUME NEW i \in DOMAIN b.got PROVE AnswerOf(b.got[i], b)
    <3>1. CASE i \in DOMAIN asked.got
      BY <1>5, <2>4, <2>7, <3>1 DEF AskedOK, AnswerOf
    <3>2. CASE i = Len(asked.got) + 1
      BY <2>4, <2>7, <2>10, <3>2
    <3> QED
      BY <2>4, <2>7, <3>1, <3>2
  <2>12. AskedOK(b)
    BY <1>5, <2>4, <2>5, <2>7, <2>8, <2>9, <2>11 DEF AskedOK
  <2> QED
    BY <2>1, <2>2, <2>12
<1> QED
  BY <1>9, <1>10

\* Every step keeps what a request under way has.
LEMMA RequestStep ==
    ASSUME LogOK, StoredOK, StoredOK', RequestOK, [Next]_vars PROVE RequestOK'
<1>1. ASSUME UNCHANGED log, DOMAIN types \subseteq DOMAIN types', DOMAIN types' \subseteq DOMAIN log,
             NEW asked, request' = <<asked>>, AskedOK(asked)
      PROVE  RequestOK'
  <2>1. AskedOK(asked)'
    BY <1>1, AskedKept
  <2>2. request'[1] = asked
    BY <1>1
  <2> QED
    BY <1>1, <2>1, <2>2 DEF RequestOK
<1>2. ASSUME request' = <<>> PROVE RequestOK'
  BY <1>2 DEF RequestOK
<1>3. ASSUME UNCHANGED <<log, request>>, DOMAIN types \subseteq DOMAIN types' PROVE RequestOK'
  <2>1. DOMAIN types' \subseteq DOMAIN log
    BY <1>3 DEF StoredOK
  <2>2. request # <<>> => request' = <<request[1]>> /\ AskedOK(request[1])
    BY <1>3 DEF RequestOK
  <2> QED
    BY <1>1, <1>2, <1>3, <2>1, <2>2
<1>4. CASE StartRequest
  <2>1. UNCHANGED <<log, types>>
    BY <1>4 DEF StartRequest, tables
  <2>2. DOMAIN types' \subseteq DOMAIN log
    BY <2>1 DEF StoredOK
  <2> QED
    BY <1>1, <1>4, <2>1, <2>2, RequestBegins
<1>5. CASE DayAnswered \/ DayFails
  <2>1. UNCHANGED <<log, types>>
    BY <1>5 DEF DayAnswered, DayFails, tables
  <2>2. DOMAIN types' \subseteq DOMAIN log
    BY <2>1 DEF StoredOK
  <2> QED
    BY <1>1, <1>5, <2>1, <2>2, RequestAnswers
<1>6. CASE EndRequest
  BY <1>2, <1>6 DEF EndRequest
<1>7. CASE Sync
  <2>1. UNCHANGED <<log, request>> /\ DOMAIN types \subseteq DOMAIN types'
    BY <1>7 DEF Sync
  <2> QED
    BY <1>3, <2>1
<1>8. CASE Upgrade \/ Load \/ Tick \/ UNCHANGED vars
  <2>1. UNCHANGED <<log, request, types>>
    BY <1>8 DEF Upgrade, Load, Tick, vars, tables
  <2> QED
    BY <1>3, <2>1
<1>9. ASSUME NEW row \in toMigrate, MigrateRow(row) \/ RowFails(row) PROVE RequestOK'
  <2>1. UNCHANGED <<log, request>> /\ DOMAIN types \subseteq DOMAIN types'
    BY <1>9 DEF MigrateRow, RowFails, tables
  <2> QED
    BY <1>3, <2>1
<1>10. ASSUME NEW signer \in Users, NEW dao \in Daos, NEW call \in Calls, Call(signer, dao, call)
       PROVE  RequestOK'
  BY <1>2, <1>10 DEF Call, NoRequest
<1>11. ASSUME NEW i \in DOMAIN log, NEW to, NEW call \in Outgoing, Execute(i, to, call)
       PROVE  RequestOK'
  BY <1>2, <1>11 DEF Execute, NoRequest
<1> QED
  BY <1>4, <1>5, <1>6, <1>7, <1>8, <1>9, <1>10, <1>11 DEF Next

\* The answers can be put in the order of their days.
LEMMA AnswersCanBeSorted ==
    ASSUME NEW s \in Seq([end : Nat, count : Nat]), EachOnce(s)
    PROVE  \E p \in SetToSeqs(DOMAIN s) : \A i, j \in DOMAIN p : i < j => s[p[i]].end < s[p[j]].end
<1> DEFINE D == DOMAIN s
           R == [end : Nat, count : Nat]
           S == EndsOf(s)
           f == [k \in D |-> s[k].end]
           at == [e \in S |-> CHOOSE k \in D : s[k].end = e]
<1>1. D = 1 .. Len(s) /\ Len(s) \in Nat /\ \A k \in D : s[k] \in R
  <2> HIDE DEF R
  <2> QED
    BY MembersOf DEF R
<1>2. IsFiniteSet(D) /\ Cardinality(D) = Len(s)
  <2>1. D = 1 .. Len(s) /\ Len(s) \in Nat
    BY <1>1
  <2> HIDE DEF D
  <2>2. IsFiniteSet(1 .. Len(s)) /\ Cardinality(1 .. Len(s)) = Len(s)
    <3>1. ASSUME NEW k \in Nat PROVE IsFiniteSet(1 .. k) /\ Cardinality(1 .. k) = k
      BY FS_Interval
    <3> QED
      BY <2>1, <3>1
  <2> QED
    BY <2>1, <2>2
<1>3. \A k \in D : s[k].end \in Nat
  BY <1>1
<1>4. f \in Injection(D, S) /\ f \in Surjection(D, S)
  BY DEF EndsOf, EachOnce, Injection, IsInjective, Surjection
<1>5. IsFiniteSet(S) /\ Cardinality(S) = Cardinality(D)
  BY <1>2, <1>4, FS_Surjection
<1>6. S \in SUBSET Int
  BY <1>3 DEF EndsOf
<1>7. \A e \in S : at[e] \in D /\ s[at[e]].end = e
  BY DEF EndsOf
<1> HIDE DEF S, f, at, D
<1>8. PICK u \in SetToSeqs(S) : \A i, j \in DOMAIN u : i < j => u[i] < u[j]
  BY <1>5, <1>6, OrderExists
<1>9. /\ DOMAIN u = 1 .. Cardinality(S) /\ \A i \in DOMAIN u : u[i] \in S
      /\ \A i, j \in DOMAIN u : i # j => u[i] # u[j]
  BY <1>5, SequenceOfSet
<1> DEFINE p == [i \in 1 .. Cardinality(D) |-> at[u[i]]]
<1>10. \A i \in 1 .. Cardinality(D) : p[i] \in D /\ s[p[i]].end = u[i]
  BY <1>5, <1>7, <1>9
<1>11. p \in [1 .. Cardinality(D) -> D] /\ DOMAIN p = 1 .. Cardinality(D)
  BY <1>10
<1> HIDE DEF p
<1>12. p \in SetToSeqs(D)
  BY <1>5, <1>9, <1>10, <1>11 DEF SetToSeqs
<1>13. \A i, j \in DOMAIN p : i < j => s[p[i]].end < s[p[j]].end
  BY <1>5, <1>8, <1>9, <1>10, <1>11
<1> QED
  BY <1>12, <1>13 DEF D

\* combineDailyMetrics: the answers of days, each once, in the order of the days.
LEMMA AnswersSorted ==
    ASSUME NEW s \in Seq([end : Nat, count : Nat]), EachOnce(s)
    PROVE  LET points == combineDailyMetrics(s)
           IN  /\ EndsOf(points) = EndsOf(s)
               /\ \A n \in DOMAIN points : \E k \in DOMAIN s : points[n] = s[k]
               /\ \A n, m \in DOMAIN points : n < m => points[n].end < points[m].end
<1> DEFINE D == DOMAIN s
           Arranged == {[n \in DOMAIN p |-> s[p[n]]] : p \in SetToSeqs(D)}
           Sorted(t) == \A i, j \in DOMAIN t : i < j => t[i].end <= t[j].end
           points == combineDailyMetrics(s)
<1>1. IsFiniteSet(D) /\ D = 1 .. Len(s) /\ Len(s) \in Nat
  <2>1. D = 1 .. Len(s) /\ Len(s) \in Nat
    OBVIOUS
  <2> QED
    BY <2>1, FS_Interval
<1>2. \A k \in D : s[k].end \in Nat
  <2> DEFINE R == [end : Nat, count : Nat]
  <2>1. \A k \in D : s[k] \in R
    <3> HIDE DEF R
    <3> QED
      BY MembersOf DEF R
  <2> QED
    BY <2>1
<1>3. ASSUME NEW p \in SetToSeqs(D)
      PROVE  /\ DOMAIN p = 1 .. Len(p) /\ Len(p) \in Nat /\ \A n \in DOMAIN p : p[n] \in D
             /\ \A n, m \in DOMAIN p : n # m => p[n] # p[m]
             /\ \A k \in D : \E n \in DOMAIN p : p[n] = k
  <2> HIDE DEF D
  <2> QED
    BY <1>1, SequenceOfSet
<1>4. \E t \in Arranged : Sorted(t)
  <2>1. PICK p \in SetToSeqs(D) : \A i, j \in DOMAIN p : i < j => s[p[i]].end < s[p[j]].end
    BY AnswersCanBeSorted
  <2>2. PICK t \in Arranged : t = [n \in DOMAIN p |-> s[p[n]]]
    OBVIOUS
  <2>3. ASSUME NEW i \in DOMAIN t, NEW j \in DOMAIN t, i < j PROVE t[i].end <= t[j].end
    <3>1. i \in DOMAIN p /\ j \in DOMAIN p /\ t[i] = s[p[i]] /\ t[j] = s[p[j]]
      BY <2>2
    <3>2. s[p[i]].end \in Nat /\ s[p[j]].end \in Nat /\ s[p[i]].end < s[p[j]].end
      BY <1>2, <1>3, <2>1, <2>3, <3>1
    <3>3. t[i].end = s[p[i]].end /\ t[j].end = s[p[j]].end
      BY <3>1, Zenon
    <3>4. \A x, y \in Nat : x < y => x <= y
      OBVIOUS
    <3>5. s[p[i]].end <= s[p[j]].end
      BY <3>2, <3>4, Zenon
    <3> QED
      BY <3>3, <3>5, Zenon
  <2> QED
    BY <2>3
<1>5. points \in Arranged /\ Sorted(points)
  <2>1. points = CHOOSE t \in Arranged : Sorted(t)
    BY DEF combineDailyMetrics
  <2> HIDE DEF points, Arranged, Sorted
  <2> QED
    BY <1>4, <2>1
<1>6. PICK p \in SetToSeqs(D) : points = [n \in DOMAIN p |-> s[p[n]]]
  BY <1>5
<1> HIDE DEF points
<1>7. DOMAIN points = DOMAIN p /\ \A n \in DOMAIN p : points[n] = s[p[n]] /\ p[n] \in D
  BY <1>3, <1>6
<1>8. EndsOf(points) = EndsOf(s)
  BY <1>3, <1>7 DEF EndsOf
<1>9. ASSUME NEW n \in DOMAIN points, NEW m \in DOMAIN points, n < m
      PROVE  points[n].end < points[m].end
  <2>1. n \in DOMAIN p /\ m \in DOMAIN p /\ n # m /\ n \in Nat /\ m \in Nat
    BY <1>3, <1>7, <1>9
  <2>2. p[n] # p[m] /\ p[n] \in D /\ p[m] \in D /\ points[n] = s[p[n]] /\ points[m] = s[p[m]]
    BY <1>3, <1>7, <2>1
  <2>3. points[n].end # points[m].end /\ points[n].end \in Nat /\ points[m].end \in Nat
    BY <1>2, <2>2 DEF EachOnce
  <2>4. points[n].end <= points[m].end
    BY <1>5, <1>9
  <2> QED
    BY <2>3, <2>4
<1> QED
  BY <1>7, <1>8, <1>9 DEF points

\* In every state the log, the tables and the request under way are what the
\* invariants say.
THEOREM RequestInvariance == Spec => [](LogOK /\ StoredOK /\ RequestOK)
<1>1. Init => RequestOK
  BY DEF Init, RequestOK
<1>2. LogOK /\ StoredOK /\ RequestOK /\ [Next]_vars => (LogOK /\ StoredOK /\ RequestOK)'
  BY LogStep, StoredStep, RequestStep
<1> QED
  BY <1>1, <1>2, Initially, PTL DEF Spec

\* The chart of users has the days whose query did not fail, each once and in their
\* order, and of each the users at some moment of the request, whatever the order in
\* which the pool of queries answers and whatever is stored meanwhile
\* (UsersService.users; TransactionService.getUsersTotalCount).
THEOREM UsersAnsweredHolds == Spec => []UsersAnswered
<1>1. ASSUME LogOK, StoredOK, RequestOK PROVE UsersAnswered
  <2> SUFFICES ASSUME NEW asked \in ToSet(request), asked.todo = <<>>
               PROVE  LET points == combineDailyMetrics(asked.got)
                          nowThere == UsersUpTo(asked.days)
                      IN  /\ {points[n].end : n \in DOMAIN points}
                                = {asked.days[m].end : m \in DOMAIN asked.days} \ asked.failed
                          /\ \A n, m \in DOMAIN points : n < m => points[n].end < points[m].end
                          /\ \A n \in DOMAIN points : \A m \in DOMAIN asked.days :
                                asked.days[m].end = points[n].end =>
                                    points[n].count \in asked.atFirst[m] .. nowThere[m]
    BY DEF UsersAnswered
  <2>1. AskedOK(asked)
    <3>1. request # <<>>
      BY DEF ToSet
    <3>2. request = <<request[1]>> /\ AskedOK(request[1])
      BY <1>1, <3>1 DEF RequestOK
    <3>3. asked = request[1]
      BY <3>2 DEF ToSet
    <3> QED
      BY <3>2, <3>3
  <2> DEFINE points == combineDailyMetrics(asked.got)
             nowThere == UsersUpTo(asked.days)
  <2>2. asked.got \in Seq([end : Nat, count : Nat]) /\ EachOnce(asked.got)
    BY <2>1 DEF AskedOK
  <2>3. /\ EndsOf(points) = EndsOf(asked.got)
        /\ \A n \in DOMAIN points : \E k \in DOMAIN asked.got : points[n] = asked.got[k]
        /\ \A n, m \in DOMAIN points : n < m => points[n].end < points[m].end
    BY <2>2, AnswersSorted
  <2> HIDE DEF points
  <2>4. EndsOf(points) = EndsOf(asked.days) \ asked.failed
    <3>1. EndsOf(asked.todo) = {}
      BY DEF EndsOf
    <3>2. /\ EndsOf(asked.days) = EndsOf(asked.todo) \cup EndsOf(asked.got) \cup asked.failed
          /\ EndsOf(asked.got) \cap asked.failed = {}
      BY <2>1 DEF AskedOK
    <3> QED
      BY <2>3, <3>1, <3>2
  <2>5. ASSUME NEW n \in DOMAIN points, NEW m \in DOMAIN asked.days,
               asked.days[m].end = points[n].end
        PROVE  points[n].count \in asked.atFirst[m] .. nowThere[m]
    <3>1. PICK k \in DOMAIN asked.got : points[n] = asked.got[k]
      BY <2>3
    <3>2. AnswerOf(points[n], asked)
      BY <2>1, <3>1 DEF AskedOK
    <3>3. nowThere[m] = getUsersTotalCount(NoDao, To(points[n].end))
      BY <2>5 DEF UsersUpTo, DayValue
    <3> QED
      BY <2>5, <3>2, <3>3 DEF AnswerOf
  <2> QED
    BY <2>3, <2>4, <2>5 DEF EndsOf, points
<1> QED
  BY <1>1, RequestInvariance, PTL

-----------------------------------------------------------------------------
(* Charts and totals                                                       *)

\* The points c of a chart, one for each of the keys s, have the values of their classes.
PointsOf(c, n, s, h, val, S) ==
    /\ n \in Nat /\ DOMAIN s = 1 .. n /\ DOMAIN c = 1 .. n
    /\ \A i, j \in 1 .. n : i # j => s[i] # s[j]
    /\ \A x \in S : \E i \in 1 .. n : s[i] = h[x]
    /\ \A A \in SUBSET S : val[A] \in Int
    /\ val[{}] = 0
    /\ \A i \in 1 .. n : c[i] = val[{x \in S : h[x] = s[i]}]

\* They add up to the value of all if values of sets apart add up, and to no less than
\* that if they may overlap.
LEMMA ClassesAlong ==
    ASSUME NEW S, NEW h, NEW n, NEW s, NEW val, NEW c, PointsOf(c, n, s, h, val, S)
    PROVE  /\ AddedUp(c) \in Int
           /\ Additive(val, S) => AddedUp(c) = val[S]
           /\ Subadditive(val, S) => val[S] <= AddedUp(c)
<1> DEFINE K == {s[i] : i \in 1 .. n}
           g == [k \in K |-> val[{x \in S : h[x] = k}]]
<1>1. IsFiniteSet(1 .. n) /\ IsFiniteSet(K)
  <2> DEFINE I == 1 .. n
  <2>1. IsFiniteSet(I)
    BY FS_Interval DEF PointsOf
  <2> HIDE DEF I
  <2>2. IsFiniteSet({s[i] : i \in I})
    BY <2>1, FiniteImages
  <2> QED
    BY <2>1, <2>2 DEF I
<1>2. ClassValues(g, K, h, val, S)
  <2>1. \A x \in S : h[x] \in K
    BY DEF PointsOf
  <2> HIDE DEF K
  <2> QED
    BY <2>1 DEF PointsOf, ClassValues
<1>3. \A i \in 1 .. n : c[i] = g[s[i]] /\ s[i] \in K
  BY DEF PointsOf
<1> HIDE DEF g
<1>4. /\ Numbers(g, K)
      /\ Additive(val, S) => SumFunctionOnSet(g, K) = val[S]
      /\ Subadditive(val, S) => val[S] <= SumFunctionOnSet(g, K)
  BY <1>1, <1>2, SumOfClasses
<1>5. SumFunctionOnSet(c, 1 .. n) = SumFunctionOnSet(g, K)
  <2>1. /\ n \in Nat /\ DOMAIN s = 1 .. n /\ \A i, j \in 1 .. n : i # j => s[i] # s[j]
        /\ \A i \in 1 .. n : c[i] = g[s[i]]
    BY <1>3 DEF PointsOf
  <2> QED
    BY <1>4, <2>1, SumAlong
<1>6. SumFunctionOnSet(g, K) \in Int
  BY <1>1, <1>4, SumFacts
<1>7. AddedUp(c) = SumFunctionOnSet(c, 1 .. n)
  BY DEF AddedUp, PointsOf
<1> QED
  BY <1>4, <1>5, <1>6, <1>7

\* The number of transactions, of their signers and of their receivers.
LEMMA NumbersOfIds ==
    ASSUME NEW S, IsFiniteSet(S), NEW f,
           NEW val, val = [A \in SUBSET S |-> Cardinality(A)],
           NEW img, img = [A \in SUBSET S |-> Cardinality({f[i] : i \in A})]
    PROVE  /\ \A A \in SUBSET S : val[A] \in Nat /\ img[A] \in Nat
           /\ val[{}] = 0 /\ img[{}] = 0
           /\ Additive(val, S) /\ Subadditive(img, S)
<1>1. ASSUME NEW A \in SUBSET S
      PROVE  /\ IsFiniteSet(A) /\ Cardinality(A) \in Nat /\ val[A] = Cardinality(A)
             /\ IsFiniteSet({f[i] : i \in A}) /\ Cardinality({f[i] : i \in A}) \in Nat
             /\ img[A] = Cardinality({f[i] : i \in A})
  <2>1. IsFiniteSet(A)
    BY FS_Subset
  <2>2. IsFiniteSet({f[i] : i \in A})
    BY <2>1, FiniteImages
  <2> QED
    BY <2>1, <2>2, FS_CardinalityType
<1>2. val[{}] = 0 /\ img[{}] = 0
  <2>1. {} \in SUBSET S /\ {f[i] : i \in {}} = {}
    OBVIOUS
  <2> QED
    BY <1>1, <2>1, FS_EmptySet
<1>3. ASSUME NEW A \in SUBSET S, NEW B \in SUBSET S, A \cap B = {}
      PROVE  val[A \cup B] = val[A] + val[B] /\ img[A \cup B] <= img[A] + img[B]
  <2> DEFINE P == {f[i] : i \in A}
             Q == {f[i] : i \in B}
             Z == P \cap Q
  <2>1. {f[i] : i \in A \cup B} = P \cup Q /\ A \cup B \in SUBSET S
    OBVIOUS
  <2>2. /\ IsFiniteSet(P) /\ IsFiniteSet(Q) /\ IsFiniteSet(Z)
        /\ Cardinality(P) \in Nat /\ Cardinality(Q) \in Nat /\ Cardinality(Z) \in Nat
        /\ img[A] = Cardinality(P) /\ img[B] = Cardinality(Q) /\ img[A \cup B] = Cardinality(P \cup Q)
    BY <1>1, <2>1, FS_Subset, FS_CardinalityType
  <2>3. Cardinality(P \cup Q) = Cardinality(P) + Cardinality(Q) - Cardinality(Z)
    BY <2>2, FS_Union
  <2>4. Cardinality(A \cup B) = Cardinality(A) + Cardinality(B) - Cardinality(A \cap B)
    BY <1>1, FS_Union
  <2>5. Cardinality(A \cap B) = 0
    BY <1>3, FS_EmptySet
  <2>6. val[A] = Cardinality(A) /\ val[B] = Cardinality(B) /\ val[A \cup B] = Cardinality(A \cup B)
    BY <1>1, <2>1
  <2>7. Cardinality(A) \in Nat /\ Cardinality(B) \in Nat
    BY <1>1
  <2> HIDE DEF P, Q, Z
  <2> QED
    BY <2>2, <2>3, <2>4, <2>5, <2>6, <2>7
<1> QED
  BY <1>1, <1>2, <1>3 DEF Additive, Subadditive

\* The transactions of a query are finitely many, at natural times.
LEMMA IdsFacts ==
    ASSUME LogOK, StoredOK, NEW ctx, NEW q
    PROVE  /\ IsFiniteSet(Transactions(ctx, q)) /\ Activity(ctx, q) \subseteq Transactions(ctx, q)
           /\ IsFiniteSet(Activity(ctx, q))
           /\ \A i \in Transactions(ctx, q) : i \in DOMAIN types /\ log[i].at \in 0 .. now
<1>1. IsFiniteSet(DOMAIN log)
  <2>1. DOMAIN log = 1 .. Len(log) /\ Len(log) \in Nat
    BY DEF LogOK
  <2> QED
    BY <2>1, FS_Interval
<1>2. Transactions(ctx, q) \subseteq DOMAIN types /\ DOMAIN types \subseteq DOMAIN log
  BY DEF Transactions, StoredOK
<1>3. Activity(ctx, q) \subseteq Transactions(ctx, q)
  BY DEF Activity
<1> QED
  BY <1>1, <1>2, <1>3, FS_Subset, LogFacts

\* The points of a chart of intervals, if the value of the transactions of one is val.
ChartOf(points, S, m, val) ==
    /\ IsFiniteSet(S) /\ \A i \in S : log[i].at \in Nat
    /\ m \in Nat /\ m > 0
    /\ \A A \in SUBSET S : val[A] \in Int
    /\ val[{}] = 0
    /\ LET rows == InOrder({(log[i].at \div m + 1) * m : i \in S})
       IN  /\ DOMAIN points = DOMAIN rows
           /\ \A n \in DOMAIN points :
                 points[n].count = val[{i \in S : (log[i].at \div m + 1) * m = rows[n]}]

\* They follow the starts of the intervals, each one once.
LEMMA ChartAddsUp ==
    ASSUME NEW S, NEW m, NEW val, NEW points, ChartOf(points, S, m, val)
    PROVE  /\ AddedUp(Counts(points)) \in Int
           /\ Additive(val, S) => AddedUp(Counts(points)) = val[S]
           /\ Subadditive(val, S) => val[S] <= AddedUp(Counts(points))
<1> DEFINE h == [i \in S |-> (log[i].at \div m + 1) * m]
           K == {h[i] : i \in S}
           rows == InOrder(K)
<1>0. /\ IsFiniteSet(S) /\ \A i \in S : log[i].at \in Nat
      /\ m \in Nat /\ m > 0
      /\ \A A \in SUBSET S : val[A] \in Int
      /\ val[{}] = 0
  BY DEF ChartOf
<1>1. \A i \in S : h[i] \in Nat
  <2>1. ASSUME NEW i \in S PROVE h[i] \in Nat
    <3>1. log[i].at \div m \in Nat
      BY <1>0, Division
    <3> DEFINE d == log[i].at \div m
    <3>2. d + 1 \in Nat
      BY <3>1
    <3> HIDE DEF d
    <3>3. (d + 1) * m \in Nat
      BY <1>0, <3>2
    <3> QED
      BY <3>3 DEF d
  <2> QED
    BY <2>1
<1>2. K = {(log[i].at \div m + 1) * m : i \in S} /\ K \in SUBSET Int
  BY <1>1
<1>3. IsFiniteSet(K)
  <2> HIDE DEF h
  <2> QED
    BY <1>0, FiniteImages
<1>4. /\ DOMAIN points = DOMAIN rows
      /\ \A n \in DOMAIN points : points[n].count = val[{i \in S : (log[i].at \div m + 1) * m = rows[n]}]
  BY <1>2 DEF ChartOf
<1>5. \A k : {i \in S : (log[i].at \div m + 1) * m = k} = {i \in S : h[i] = k}
  <2>1. \A i \in S : h[i] = (log[i].at \div m + 1) * m
    OBVIOUS
  <2> HIDE DEF h
  <2> QED
    BY <2>1, Zenon
<1>6. /\ DOMAIN points = DOMAIN rows
      /\ \A n \in DOMAIN points : points[n].count = val[{i \in S : h[i] = rows[n]}]
  <2>1. ASSUME NEW n \in DOMAIN points PROVE points[n].count = val[{i \in S : h[i] = rows[n]}]
    <3>1. {i \in S : (log[i].at \div m + 1) * m = rows[n]} = {i \in S : h[i] = rows[n]}
      BY <1>5
    <3> QED
      BY <1>4, <3>1
  <2> QED
    BY <1>4, <2>1
<1>7. /\ DOMAIN rows = 1 .. Len(rows) /\ Len(rows) \in Nat
      /\ \A i \in DOMAIN rows : rows[i] \in K
      /\ \A i, j \in DOMAIN rows : i < j => rows[i] < rows[j]
      /\ \A x \in K : \E i \in DOMAIN rows : rows[i] = x
  <2> HIDE DEF K
  <2> QED
    BY <1>2, <1>3, OrderedDays
<1>8. \A x \in S : h[x] \in K
  OBVIOUS
<1> DEFINE c == Counts(points)
           n == Len(rows)
<1>9. DOMAIN c = 1 .. n /\ \A i \in 1 .. n : c[i] = val[{x \in S : h[x] = rows[i]}]
  BY <1>6, <1>7 DEF Counts
<1> HIDE DEF h, K, rows, c, n
<1>10. \A i, j \in DOMAIN rows : i # j => rows[i] # rows[j]
  <2> SUFFICES ASSUME NEW i \in DOMAIN rows, NEW j \in DOMAIN rows, i # j PROVE rows[i] # rows[j]
    OBVIOUS
  <2>1. i \in Nat /\ j \in Nat /\ rows[i] \in Int /\ rows[j] \in Int
    BY <1>2, <1>7
  <2> QED
    BY <1>7, <2>1
<1>11. n \in Nat /\ DOMAIN rows = 1 .. n
  BY <1>7 DEF n
<1>12. PointsOf(c, n, rows, h, val, S)
  BY <1>7, <1>0, <1>8, <1>9, <1>10, <1>11 DEF PointsOf
<1>13. /\ AddedUp(c) \in Int
       /\ Additive(val, S) => AddedUp(c) = val[S]
       /\ Subadditive(val, S) => val[S] <= AddedUp(c)
  BY <1>12, ClassesAlong
<1> QED
  BY <1>13 DEF c

\* Until the end of today there is all there is.
LEMMA AllUntilTonight ==
    ASSUME LogOK, StoredOK, NEW ctx
    PROVE  /\ Transactions(ctx, To(EndOf(Day(now)))) = Transactions(ctx, NoQuery)
           /\ Activity(ctx, To(EndOf(Day(now)))) = Activity(ctx, NoQuery)
<1> DEFINE e == EndOf(Day(now))
<1>1. now \in Nat
  BY DEF LogOK
<1>2. e \in Nat /\ now <= e
  <2>1. /\ Day(now) \in Nat /\ now % DayLength \in Nat /\ now % DayLength < DayLength
        /\ Day(now) * DayLength \in Nat /\ now = Day(now) * DayLength + (now % DayLength)
    BY <1>1, DayFacts
  <2>2. DayLength \in Nat /\ DayLength > 0
    BY MetricDaysAssumption
  <2>3. e = Day(now) * DayLength + DayLength - 1
    BY DEF EndOf, StartOf
  <2> DEFINE d == Day(now) * DayLength
             r == now % DayLength
  <2> HIDE DEF d, r, e
  <2>4. d \in Nat /\ r \in Nat /\ r < DayLength /\ now = d + r /\ e = d + DayLength - 1
    BY <2>1, <2>3 DEF d, r
  <2> QED
    BY <2>2, <2>4
<1> HIDE DEF e
<1>3. \A i \in DOMAIN types : Within(log[i].at, To(e)) /\ Within(log[i].at, NoQuery)
  <2> SUFFICES ASSUME NEW i \in DOMAIN types
               PROVE  Within(log[i].at, To(e)) /\ Within(log[i].at, NoQuery)
    OBVIOUS
  <2>1. log[i].at \in 0 .. now
    BY LogFacts DEF StoredOK
  <2>2. log[i].at <= e
    BY <1>1, <1>2, <2>1
  <2> QED
    BY <2>2 DEF Within, To, NoQuery
<1>4. Transactions(ctx, To(e)) = Transactions(ctx, NoQuery)
  BY <1>3 DEF Transactions
<1> QED
  BY <1>4 DEF Activity, e

\* The points of the chart of activity, week by week.
LEMMA ActiveWeeks ==
    ASSUME LogOK, StoredOK, NEW ctx, NEW q
    PROVE  /\ AddedUp(Counts(active(ctx, q))) \in Int
           /\ getContractActivityCount(ctx, q) \in Nat
           /\ getContractActivityCount(ctx, q) <= AddedUp(Counts(active(ctx, q)))
           /\ ctx # NoDao => getContractActivityCount(ctx, q) = AddedUp(Counts(active(ctx, q)))
<1> DEFINE S == Activity(ctx, q)
           receiver == [i \in S |-> log[i].receiver]
           number == [A \in SUBSET S |-> Cardinality(A)]
           receivers == [A \in SUBSET S |-> Cardinality({receiver[i] : i \in A})]
           val == IF ctx = NoDao THEN receivers ELSE number
           points == active(ctx, q)
           sum == AddedUp(Counts(points))
<1>1. IsFiniteSet(S) /\ \A i \in S : log[i].at \in Nat
  BY IdsFacts
<1>2. \A A \in SUBSET S : val[A] = ActivityOf(ctx, A)
  <2> SUFFICES ASSUME NEW A \in SUBSET S PROVE val[A] = ActivityOf(ctx, A)
    OBVIOUS
  <2>1. {receiver[i] : i \in A} = ReceiversOf(A)
    BY DEF ReceiversOf
  <2> QED
    BY <2>1 DEF ActivityOf
<1>3. /\ \A A \in SUBSET S : number[A] \in Nat /\ receivers[A] \in Nat
      /\ number[{}] = 0 /\ receivers[{}] = 0
      /\ Additive(number, S) /\ Subadditive(receivers, S)
  <2> HIDE DEF S, receiver
  <2> QED
    BY <1>1, NumbersOfIds
<1>4. /\ \A A \in SUBSET S : val[A] \in Nat
      /\ val[{}] = 0
      /\ ctx = NoDao => Subadditive(val, S)
      /\ ctx # NoDao => Additive(val, S)
  <2> HIDE DEF S, number, receivers
  <2> QED
    BY <1>3
<1>5. LET rows == InOrder({(log[i].at \div Week + 1) * Week : i \in S})
      IN  /\ DOMAIN points = DOMAIN rows
          /\ \A n \in DOMAIN points :
                points[n].count = val[{i \in S : (log[i].at \div Week + 1) * Week = rows[n]}]
  <2> DEFINE rows == InOrder({(log[i].at \div Week + 1) * Week : i \in S})
  <2>1. points = ToMetrics([n \in DOMAIN rows |->
            [day |-> rows[n],
             count |-> ActivityOf(ctx, {i \in S : (log[i].at \div Week + 1) * Week = rows[n]})]])
    BY DEF active, getContractActivityCountHistory, Periods
  <2> HIDE DEF rows, points, val
  <2>2. /\ DOMAIN points = DOMAIN rows
        /\ \A n \in DOMAIN points :
              points[n].count = ActivityOf(ctx, {i \in S : (log[i].at \div Week + 1) * Week = rows[n]})
    BY <2>1 DEF ToMetrics
  <2>3. ASSUME NEW n \in DOMAIN points
        PROVE  points[n].count = val[{i \in S : (log[i].at \div Week + 1) * Week = rows[n]}]
    <3> DEFINE A == {i \in S : (log[i].at \div Week + 1) * Week = rows[n]}
    <3>1. A \in SUBSET S
      OBVIOUS
    <3>2. points[n].count = ActivityOf(ctx, A)
      BY <2>2
    <3> HIDE DEF A
    <3>3. points[n].count = val[A]
      BY <1>2, <3>1, <3>2
    <3> QED
      BY <3>3 DEF A
  <2> QED
    BY <2>2, <2>3 DEF rows
<1>6. getContractActivityCount(ctx, q) = val[S]
  BY <1>2 DEF getContractActivityCount
<1>7. Week \in Nat /\ Week > 0
  BY LogQueriesAssumption
<1> HIDE DEF S, val, points
<1>8. /\ sum \in Int /\ (Additive(val, S) => sum = val[S])
      /\ (Subadditive(val, S) => val[S] <= sum)
  <2>1. \A A \in SUBSET S : val[A] \in Int
    BY <1>4
  <2>2. ChartOf(points, S, Week, val)
    BY <1>1, <1>4, <1>5, <1>7, <2>1 DEF ChartOf
  <2> QED
    BY <2>2, ChartAddsUp DEF sum
<1>9. val[S] \in Nat
  BY <1>4
<1> HIDE DEF sum
<1>10. val[S] <= sum /\ (ctx # NoDao => val[S] = sum)
  BY <1>4, <1>8, <1>9
<1> QED
  BY <1>6, <1>8, <1>9, <1>10 DEF sum, points

\* The points of the chart of active users.
LEMMA ActiveUsersPoints ==
    ASSUME LogOK, StoredOK, NEW ctx, NEW q, NEW m \in Nat \ {0}
    PROVE  getUsersTotalCount(ctx, q) <= AddedUp(Counts(activeUsers(ctx, q, m)))
<1> DEFINE S == Transactions(ctx, q)
           signer == [i \in S |-> log[i].signer]
           number == [A \in SUBSET S |-> Cardinality(A)]
           val == [A \in SUBSET S |-> Cardinality({signer[i] : i \in A})]
           points == activeUsers(ctx, q, m)
<1>1. IsFiniteSet(S) /\ \A i \in S : log[i].at \in Nat
  BY IdsFacts
<1>2. \A A \in SUBSET S : val[A] = CountUsers(A)
  <2> SUFFICES ASSUME NEW A \in SUBSET S PROVE val[A] = CountUsers(A)
    OBVIOUS
  <2>1. {signer[i] : i \in A} = {log[i].signer : i \in A}
    OBVIOUS
  <2> QED
    BY <2>1 DEF CountUsers
<1>3. /\ \A A \in SUBSET S : number[A] \in Nat /\ val[A] \in Nat
      /\ number[{}] = 0 /\ val[{}] = 0
      /\ Additive(number, S) /\ Subadditive(val, S)
  <2> HIDE DEF S, signer
  <2> QED
    BY <1>1, NumbersOfIds
<1>4. LET rows == InOrder({(log[i].at \div m + 1) * m : i \in S})
      IN  /\ DOMAIN points = DOMAIN rows
          /\ \A n \in DOMAIN points :
                points[n].count = val[{i \in S : (log[i].at \div m + 1) * m = rows[n]}]
  <2> DEFINE rows == InOrder({(log[i].at \div m + 1) * m : i \in S})
  <2>1. points = ToMetrics([n \in DOMAIN rows |->
            [day |-> rows[n],
             count |-> CountUsers({i \in S : (log[i].at \div m + 1) * m = rows[n]})]])
    BY DEF activeUsers, getUsersTotalCountHistory, Periods
  <2> HIDE DEF rows, points, val
  <2>2. /\ DOMAIN points = DOMAIN rows
        /\ \A n \in DOMAIN points :
              points[n].count = CountUsers({i \in S : (log[i].at \div m + 1) * m = rows[n]})
    BY <2>1 DEF ToMetrics
  <2>3. ASSUME NEW n \in DOMAIN points
        PROVE  points[n].count = val[{i \in S : (log[i].at \div m + 1) * m = rows[n]}]
    <3> DEFINE A == {i \in S : (log[i].at \div m + 1) * m = rows[n]}
    <3>1. A \in SUBSET S
      OBVIOUS
    <3>2. points[n].count = CountUsers(A)
      BY <2>2
    <3> HIDE DEF A
    <3>3. points[n].count = val[A]
      BY <1>2, <3>1, <3>2
    <3> QED
      BY <3>3 DEF A
  <2> QED
    BY <2>2, <2>3 DEF rows
<1>5. getUsersTotalCount(ctx, q) = val[S]
  BY <1>2 DEF getUsersTotalCount
<1> HIDE DEF S, val, points, number
<1>6. val[S] <= AddedUp(Counts(points))
  <2>1. \A A \in SUBSET S : val[A] \in Int
    BY <1>3
  <2>2. m \in Nat /\ m > 0
    OBVIOUS
  <2>3. ChartOf(points, S, m, val)
    BY <1>1, <1>3, <1>4, <2>1, <2>2 DEF ChartOf
  <2> QED
    BY <1>3, <2>3, ChartAddsUp
<1> QED
  BY <1>5, <1>6 DEF points

\* The last point of a chart read day by day is the total.
LEMMA LastPoints ==
    ASSUME LogOK, StoredOK, NEW ctx, NEW chart \in Charts
    PROVE  DayValue(chart, ctx, EndOf(Day(now))) = usersTotals(ctx)[chart].count
<1> DEFINE e == EndOf(Day(now))
<1>1. Transactions(ctx, To(e)) = Transactions(ctx, NoQuery) /\ Activity(ctx, To(e)) = Activity(ctx, NoQuery)
  BY AllUntilTonight
<1> HIDE DEF e
<1>2. CASE chart = "users"
  <2>1. usersTotals(ctx)[chart].count = getUsersTotalCount(ctx, NoQuery)
    BY <1>2 DEF usersTotals
  <2>2. DayValue(chart, ctx, e) = getUsersTotalCount(ctx, To(e))
    BY <1>2 DEF DayValue
  <2> QED
    BY <1>1, <2>1, <2>2 DEF getUsersTotalCount, e
<1>3. CASE chart = "averageUsers"
  <2>1. usersTotals(ctx)[chart].count = Average(PerDao(Transactions(ctx, NoQuery), CountUsers))
    BY <1>3 DEF usersTotals
  <2>2. DayValue(chart, ctx, e) = Average(PerDao(Transactions(ctx, To(e)), CountUsers))
    BY <1>3 DEF DayValue
  <2> QED
    BY <1>1, <2>1, <2>2 DEF e
<1>4. CASE chart = "averageInteractions"
  <2>1. usersTotals(ctx)[chart].count = Average(getDaoInteractions(ctx, NoQuery))
    BY <1>4 DEF usersTotals
  <2>2. DayValue(chart, ctx, e) = Average(getDaoInteractions(ctx, To(e)))
    BY <1>4 DEF DayValue
  <2>3. getDaoInteractions(ctx, To(e)) = getDaoInteractions(ctx, NoQuery)
    BY <1>1 DEF getDaoInteractions
  <2> QED
    BY <2>1, <2>2, <2>3 DEF e
<1> QED
  BY <1>2, <1>3, <1>4 DEF Charts

\* The activity of a month against its weeks, the active users against their intervals,
\* and the totals against the last points of the charts (GeneralService.active,
\* UsersService.activeUsers, users, averageUsers and averageInteractions).
THEOREM TotalsFromHistoryHolds == Spec => []TotalsFromHistory
<1>1. ASSUME LogOK, StoredOK PROVE TotalsFromHistory
  <2> SUFFICES ASSUME NEW ctx \in Contexts
               PROVE  LET weeks == AddedUp(Counts(active(ctx, From(now - Month))))
                          totals == usersTotals(ctx)
                      IN  /\ generalActivity(ctx).count <= weeks
                          /\ ctx # NoDao => generalActivity(ctx).count = weeks
                          /\ totals.activeUsers.count
                                <= AddedUp(Counts(activeUsers(ctx, From(now - Week), Week)))
                          /\ \A chart \in Charts :
                                DayValue(chart, ctx, EndOf(Day(now))) = totals[chart].count
    BY DEF TotalsFromHistory
  <2>1. generalActivity(ctx).count = getContractActivityCount(ctx, From(now - Month))
    BY DEF generalActivity
  <2>2. usersTotals(ctx).activeUsers.count = getUsersTotalCount(ctx, From(now - Week))
    BY DEF usersTotals
  <2>3. Week \in Nat \ {0}
    BY LogQueriesAssumption
  <2> QED
    BY <1>1, <2>1, <2>2, <2>3, ActiveWeeks, ActiveUsersPoints, LastPoints
<1> QED
  BY <1>1, Invariance, PTL

\* The transactions of a set that are of one day.
OfDay(S, D) == {i \in S : Day(log[i].at) = D}

\* A row for each day with any of them, in the order of the days, with their number.
DailyOf(metrics, S) ==
    /\ DOMAIN metrics = 1 .. Len(metrics) /\ Len(metrics) \in Nat
    /\ \A k \in DOMAIN metrics :
          LET t == metrics[k].timestamp
          IN  /\ t \in Nat /\ Day(t) \in Nat /\ t = StartOf(Day(t))
              /\ metrics[k].count = Cardinality(OfDay(S, Day(t)))
              /\ \E i \in S : Day(log[i].at) = Day(t)
    /\ \A k, l \in DOMAIN metrics : k < l => metrics[k].timestamp < metrics[l].timestamp
    /\ \A i \in S : \E k \in DOMAIN metrics : Day(metrics[k].timestamp) = Day(log[i].at)

\* The rows of addDailySelection.
LEMMA DailyRows ==
    ASSUME NEW S, IsFiniteSet(S), \A i \in S : log[i].at \in Nat
    PROVE  DailyOf(ToMetrics(Periods(S, Daily, Cardinality)), S)
<1> DEFINE K == {Daily(log[i].at) : i \in S}
           rows == InOrder(K)
           metrics == ToMetrics(Periods(S, Daily, Cardinality))
           n == Len(rows)
<1>1. ASSUME NEW i \in S
      PROVE  /\ Daily(log[i].at) \in Nat /\ Day(log[i].at) \in Nat
             /\ Day(Daily(log[i].at)) = Day(log[i].at)
             /\ Daily(log[i].at) = StartOf(Day(log[i].at))
  <2>1. Day(log[i].at) \in Nat
    BY DayFacts
  <2> QED
    BY <2>1, DayBounds DEF Daily
<1>2. IsFiniteSet(K)
  <2> DEFINE h == [i \in S |-> Daily(log[i].at)]
  <2>1. K = {h[i] : i \in S}
    OBVIOUS
  <2> HIDE DEF h, K
  <2> QED
    BY <2>1, FiniteImages
<1>3. K \in SUBSET Int
  BY <1>1
<1>4. /\ DOMAIN rows = 1 .. n /\ n \in Nat
      /\ \A i \in DOMAIN rows : rows[i] \in K
      /\ \A i, j \in DOMAIN rows : i < j => rows[i] < rows[j]
      /\ \A x \in K : \E i \in DOMAIN rows : rows[i] = x
  <2> HIDE DEF K
  <2> QED
    BY <1>2, <1>3, OrderedDays
<1>5. metrics = [k \in DOMAIN rows |->
                   [timestamp |-> rows[k], count |-> Cardinality({i \in S : Daily(log[i].at) = rows[k]})]]
  BY DEF ToMetrics, Periods
<1> HIDE DEF rows, metrics, n
<1>6. /\ DOMAIN metrics = 1 .. n
      /\ \A k \in 1 .. n : /\ metrics[k].timestamp = rows[k]
                           /\ metrics[k].count = Cardinality({i \in S : Daily(log[i].at) = rows[k]})
  BY <1>4, <1>5
<1>7. Len(metrics) = n
  <2>1. metrics = [k \in 1 .. n |-> metrics[k]]
    BY <1>4, <1>5
  <2> QED
    BY <1>4, <2>1, LengthOf
<1>8. ASSUME NEW k \in 1 .. n
      PROVE  LET t == metrics[k].timestamp
             IN  /\ t \in Nat /\ Day(t) \in Nat /\ t = StartOf(Day(t))
                 /\ metrics[k].count = Cardinality(OfDay(S, Day(t)))
                 /\ \E i \in S : Day(log[i].at) = Day(t)
  <2>1. PICK i \in S : rows[k] = Daily(log[i].at)
    BY <1>4
  <2>2. metrics[k].timestamp = rows[k]
    BY <1>6
  <2>3. /\ rows[k] \in Nat /\ Day(rows[k]) \in Nat /\ rows[k] = StartOf(Day(rows[k]))
        /\ Day(log[i].at) = Day(rows[k])
    BY <1>1, <2>1
  <2>4. {j \in S : Daily(log[j].at) = rows[k]} = OfDay(S, Day(rows[k]))
    <3>1. ASSUME NEW j \in S PROVE Daily(log[j].at) = rows[k] <=> Day(log[j].at) = Day(rows[k])
      BY <1>1, <2>3
    <3> QED
      BY <3>1 DEF OfDay
  <2> QED
    BY <1>6, <2>2, <2>3, <2>4
<1>9. \A i \in S : \E k \in 1 .. n : Day(metrics[k].timestamp) = Day(log[i].at)
  <2> SUFFICES ASSUME NEW i \in S PROVE \E k \in 1 .. n : Day(metrics[k].timestamp) = Day(log[i].at)
    OBVIOUS
  <2>1. PICK k \in 1 .. n : rows[k] = Daily(log[i].at)
    BY <1>4
  <2> QED
    BY <1>1, <1>6, <2>1
<1>10. \A k, l \in DOMAIN metrics : k < l => metrics[k].timestamp < metrics[l].timestamp
  <2> SUFFICES ASSUME NEW k \in DOMAIN metrics, NEW l \in DOMAIN metrics, k < l
               PROVE  metrics[k].timestamp < metrics[l].timestamp
    OBVIOUS
  <2>1. k \in 1 .. n /\ l \in 1 .. n /\ rows[k] < rows[l]
    BY <1>4, <1>6
  <2>2. metrics[k].timestamp = rows[k] /\ metrics[l].timestamp = rows[l]
    BY <1>6, <2>1
  <2> QED
    BY <2>1, <2>2
<1>11. /\ DOMAIN metrics = 1 .. Len(metrics) /\ Len(metrics) \in Nat
       /\ \A k \in DOMAIN metrics :
             LET t == metrics[k].timestamp
             IN  /\ t \in Nat /\ Day(t) \in Nat /\ t = StartOf(Day(t))
                 /\ metrics[k].count = Cardinality(OfDay(S, Day(t)))
                 /\ \E i \in S : Day(log[i].at) = Day(t)
       /\ \A i \in S : \E k \in DOMAIN metrics : Day(metrics[k].timestamp) = Day(log[i].at)
  BY <1>4, <1>6, <1>7, <1>8, <1>9
<1> QED
  BY <1>10, <1>11 DEF DailyOf, metrics

\* A day of the chart of interactions has their number, 0 of a day without any.
LEMMA DailyPoint ==
    ASSUME NEW S, NEW metrics, DailyOf(metrics, S), NEW D \in Nat, NEW day, day.end = EndOf(D)
    PROVE  /\ Patched(metrics, day, "Daily").timestamp = EndOf(D)
           /\ Patched(metrics, day, "Daily").count = Cardinality(OfDay(S, D))
<1> DEFINE n == Len(metrics)
           I == {k \in 1 .. n : Day(metrics[k].timestamp) = D}
           same == SelectInSeq(metrics, LAMBDA m : Day(m.timestamp) = Day(day.end))
<1>1. n \in Nat /\ DOMAIN metrics = 1 .. n
  BY DEF DailyOf
<1>2. Day(day.end) = D
  BY DayBounds
<1>3. same = IF I # {} THEN Min(I) ELSE 0
  BY <1>2 DEF SelectInSeq
<1>4. /\ Patched(metrics, day, "Daily").timestamp = EndOf(D)
      /\ Patched(metrics, day, "Daily").count = IF same # 0 THEN metrics[same].count ELSE 0
  BY DEF Patched
<1> HIDE DEF same
<1>5. I # {} => Min(I) \in I
  <2>1. I \in SUBSET Int /\ IsFiniteSet(I)
    <3>1. IsFiniteSet(1 .. n) /\ I \in SUBSET (1 .. n)
      BY <1>1, FS_Interval
    <3> QED
      BY <3>1, FS_Subset
  <2> HIDE DEF I
  <2>2. I # {} => \E x \in I : \A y \in I : x <= y
    BY <2>1, Extremes
  <2> QED
    BY <2>2 DEF Min
<1>6. CASE I # {}
  <2>1. same \in 1 .. n /\ Day(metrics[same].timestamp) = D /\ same # 0
    BY <1>1, <1>3, <1>5, <1>6
  <2>2. metrics[same].count = Cardinality(OfDay(S, D))
    BY <1>1, <2>1 DEF DailyOf
  <2> QED
    BY <1>4, <2>1, <2>2
<1>7. CASE I = {}
  <2>1. \A k \in 1 .. n : Day(metrics[k].timestamp) # D
    BY <1>7
  <2>2. OfDay(S, D) = {}
    BY <1>1, <2>1 DEF OfDay, DailyOf
  <2> QED
    BY <1>3, <1>4, <1>7, <2>2, FS_EmptySet
<1> QED
  BY <1>6, <1>7

\* The chart of interactions between two moments begins on the first day with any, if
\* there are any, and has one point for each day from there.
LEMMA InteractionsPoints ==
    ASSUME LogOK, StoredOK, NEW ctx, NEW q, q.from \in Nat, q.to \in Nat, Activity(ctx, q) # {}
    PROVE  \E low \in Nat, n \in Nat :
              LET points == interactions(ctx, q)
              IN  /\ \A i \in Activity(ctx, q) : low <= Day(log[i].at)
                  /\ n > 0 /\ low + n - 1 \in {Day(q.to), Day(q.to) - 1}
                  /\ DOMAIN points = 1 .. n /\ Len(points) = n
                  /\ \A i \in 1 .. n :
                        /\ points[i].timestamp = EndOf(low + i - 1)
                        /\ points[i].count = Cardinality(OfDay(Activity(ctx, q), low + i - 1))
<1> DEFINE S == Activity(ctx, q)
           metrics == ToMetrics(getInteractionsCountDaily(ctx, q))
           t == metrics[1].timestamp
           first == Later(t, q.from)
           low == Day(first)
           days == getDailyIntervals(first, q.to)
           points == interactions(ctx, q)
           n == Day(q.to) - low + (IF first % DayLength > q.to % DayLength THEN 0 ELSE 1)
<1>1. IsFiniteSet(S) /\ \A i \in S : log[i].at \in Nat
  BY IdsFacts
<1>2. DailyOf(metrics, S)
  <2>1. metrics = ToMetrics(Periods(S, Daily, Cardinality))
    BY DEF getInteractionsCountDaily
  <2> HIDE DEF S, metrics
  <2> QED
    BY <1>1, <2>1, DailyRows
<1>3. \A i \in S : q.from <= log[i].at /\ log[i].at <= q.to
  BY DEF Activity, Transactions, Within, Absent
<1> HIDE DEF S, metrics
<1>4. 1 \in DOMAIN metrics /\ metrics # <<>>
  <2>1. PICK i \in S : TRUE
    BY DEF S
  <2>2. PICK k \in DOMAIN metrics : TRUE
    BY <1>2, <2>1 DEF DailyOf
  <2>3. DOMAIN metrics = 1 .. Len(metrics) /\ Len(metrics) \in Nat
    BY <1>2 DEF DailyOf
  <2> QED
    BY <2>2, <2>3
<1>5. PICK z \in S : Day(log[z].at) = Day(t)
  BY <1>2, <1>4 DEF DailyOf
<1>6. t \in Nat /\ Day(t) \in Nat /\ t = StartOf(Day(t))
  BY <1>2, <1>4 DEF DailyOf
<1>7. ASSUME NEW i \in S PROVE Day(t) <= Day(log[i].at)
  <2>1. PICK k \in DOMAIN metrics : Day(metrics[k].timestamp) = Day(log[i].at)
    BY <1>2 DEF DailyOf
  <2>2. k \in Nat /\ k >= 1 /\ metrics[k].timestamp \in Nat
    BY <1>2, <2>1 DEF DailyOf
  <2>3. t <= metrics[k].timestamp
    <3>1. CASE k = 1
      BY <1>6, <3>1
    <3>2. CASE k # 1
      <4>1. 1 < k
        BY <2>2, <3>2
      <4>2. t < metrics[k].timestamp
        BY <1>2, <1>4, <2>1, <4>1 DEF DailyOf
      <4> QED
        BY <1>6, <2>2, <4>2
    <3> QED
      BY <3>1, <3>2
  <2>4. Day(t) <= Day(metrics[k].timestamp)
    BY <1>6, <2>2, <2>3, DayOrder
  <2> QED
    BY <2>1, <2>4
<1> HIDE DEF t
<1>8. log[z].at \in Nat /\ q.from <= log[z].at /\ log[z].at <= q.to
  BY <1>1, <1>3
<1>9. t <= log[z].at
  <2>1. Day(t) <= Day(log[z].at)
    BY <1>7
  <2> QED
    BY <1>6, <1>8, <2>1, DayOrder
<1>10. first \in Nat /\ first <= log[z].at /\ t <= first /\ first <= q.to
  BY <1>6, <1>8, <1>9 DEF Later
<1> HIDE DEF first
<1>11. low = Day(t) /\ low \in Nat /\ low <= Day(q.to) /\ Day(q.to) \in Nat
  <2>1. Day(t) <= Day(first) /\ Day(first) <= Day(log[z].at) /\ Day(first) <= Day(q.to)
    BY <1>6, <1>8, <1>10, DayOrder
  <2>2. Day(first) \in Nat /\ Day(q.to) \in Nat
    BY <1>10, DayFacts
  <2> QED
    BY <1>5, <1>6, <2>1, <2>2
<1>12. n = Day(q.to) - low + (IF first % DayLength > q.to % DayLength THEN 0 ELSE 1)
  OBVIOUS
<1>13. /\ n \in Nat
       /\ (IF q.to < first THEN 0 ELSE (q.to - first) \div DayLength + 1) = n
  BY <1>10, <1>11, StepsOfDays
<1> HIDE DEF n, low
<1>14. n > 0
  <2>1. q.to - first \in Nat /\ ~ (q.to < first)
    BY <1>10
  <2>2. DayLength \in Nat /\ DayLength > 0
    BY MetricDaysAssumption
  <2>3. (q.to - first) \div DayLength \in Nat
    BY <2>1, <2>2, Division
  <2> DEFINE d == (q.to - first) \div DayLength
  <2>4. n = d + 1 /\ d \in Nat
    BY <1>13, <2>1, <2>3
  <2> HIDE DEF d
  <2> QED
    BY <2>4
<1>15. low + n - 1 \in {Day(q.to), Day(q.to) - 1}
  BY <1>11, <1>12, <1>13
<1>16. /\ DOMAIN days = 1 .. n
       /\ \A i \in 1 .. n : days[i].end = EndOf(low + i - 1)
  BY <1>13 DEF getDailyIntervals, low
<1>17. points = [i \in DOMAIN days |-> Patched(metrics, days[i], "Daily")]
  BY <1>4 DEF interactions, patchMetricDays, metrics, first, t
<1> HIDE DEF days, points
<1>18. DOMAIN points = 1 .. n /\ Len(points) = n
  <2>1. points = [i \in 1 .. n |-> points[i]]
    BY <1>16, <1>17
  <2> QED
    BY <1>13, <2>1, LengthOf
<1>19. ASSUME NEW i \in 1 .. n
       PROVE  /\ points[i].timestamp = EndOf(low + i - 1)
              /\ points[i].count = Cardinality(OfDay(S, low + i - 1))
  <2> DEFINE D == low + i - 1
  <2>1. D \in Nat
    BY <1>11, <1>13
  <2>2. days[i].end = EndOf(D) /\ points[i] = Patched(metrics, days[i], "Daily")
    BY <1>16, <1>17
  <2> HIDE DEF D
  <2>3. /\ points[i].timestamp = EndOf(D)
        /\ points[i].count = Cardinality(OfDay(S, D))
    BY <1>2, <2>1, <2>2, DailyPoint
  <2> QED
    BY <2>3 DEF D
<1>20. \A i \in S : low <= Day(log[i].at)
  BY <1>7, <1>11
<1> QED
  BY <1>11, <1>13, <1>14, <1>15, <1>18, <1>19, <1>20 DEF S, points

\* Without interactions there is no chart of them.
LEMMA NoInteractions ==
    ASSUME LogOK, StoredOK, NEW ctx, NEW q, Activity(ctx, q) = {}
    PROVE  interactions(ctx, q) = <<>>
<1> DEFINE metrics == ToMetrics(getInteractionsCountDaily(ctx, q))
<1>1. DailyOf(metrics, {})
  <2> DEFINE S == Activity(ctx, q)
  <2>1. IsFiniteSet(S) /\ \A i \in S : log[i].at \in Nat
    BY IdsFacts
  <2>2. metrics = ToMetrics(Periods(S, Daily, Cardinality))
    BY DEF getInteractionsCountDaily
  <2>3. S = {}
    OBVIOUS
  <2> HIDE DEF S, metrics
  <2>4. DailyOf(metrics, S)
    BY <2>1, <2>2, DailyRows
  <2> QED
    BY <2>3, <2>4
<1>2. DOMAIN metrics = {}
  BY <1>1 DEF DailyOf
<1>3. \E rows : metrics = [n \in DOMAIN metrics |-> [timestamp |-> rows[n].day, count |-> rows[n].count]]
  BY DEF ToMetrics
<1> HIDE DEF metrics
<1>4. metrics = <<>>
  BY <1>2, <1>3
<1> QED
  BY <1>4 DEF interactions, patchMetricDays, metrics

\* The points of the chart of interactions add up to those of its days.
LEMMA InteractionsAddUp ==
    ASSUME LogOK, StoredOK, NEW ctx, NEW q \in Queries
    PROVE  LET points == interactions(ctx, q)
               last == IF points = <<>> THEN q.to ELSE points[Len(points)].timestamp
           IN  /\ AddedUp(Counts(points))
                     = getInteractionsCount(ctx, [q EXCEPT !.to = IF last < @ THEN last ELSE @])
               /\ points # <<>> => Day(q.to) - Day(last) \in {0, 1}
<1> DEFINE points == interactions(ctx, q)
           last == IF points = <<>> THEN q.to ELSE points[Len(points)].timestamp
           r == [q EXCEPT !.to = IF last < @ THEN last ELSE @]
           S == Activity(ctx, q)
<1>1. q.from \in Nat /\ q.to \in Nat /\ q = [from |-> q.from, to |-> q.to]
  <2>1. now \in Nat
    BY DEF LogOK
  <2>2. StartOf(Day(now)) \in Nat
    BY <2>1, DayFacts, DayBounds
  <2> QED
    BY <2>1, <2>2 DEF Queries
<1>2. PICK b : b = r
  OBVIOUS
<1>3. b.from = q.from /\ b.to = IF last < q.to THEN last ELSE q.to
  BY <1>1, <1>2
<1>4. CASE S = {}
  <2>1. points = <<>>
    BY <1>4, NoInteractions
  <2>2. last = q.to
    BY <2>1
  <2>3. b.to = q.to
    BY <1>3, <2>2
  <2>4. Activity(ctx, b) = S
    BY <1>3, <2>3 DEF Activity, Transactions, Within
  <2>5. AddedUp(Counts(points)) = 0
    <3>1. DOMAIN Counts(points) = {}
      BY <2>1 DEF Counts
    <3> QED
      BY <3>1, SumOfNone DEF AddedUp
  <2>6. getInteractionsCount(ctx, b) = 0
    BY <1>4, <2>4, FS_EmptySet DEF getInteractionsCount
  <2> QED
    BY <1>2, <2>1, <2>5, <2>6
<1>5. CASE S # {}
  <2>1. PICK low \in Nat, n \in Nat :
              /\ \A i \in S : low <= Day(log[i].at)
              /\ n > 0 /\ low + n - 1 \in {Day(q.to), Day(q.to) - 1}
              /\ DOMAIN points = 1 .. n /\ Len(points) = n
              /\ \A i \in 1 .. n :
                    /\ points[i].timestamp = EndOf(low + i - 1)
                    /\ points[i].count = Cardinality(OfDay(S, low + i - 1))
    BY <1>1, <1>5, InteractionsPoints
  <2> DEFINE D == low + n - 1
             T == Activity(ctx, b)
             h == [i \in T |-> Day(log[i].at)]
             s == [i \in 1 .. n |-> low + i - 1]
             val == [A \in SUBSET T |-> Cardinality(A)]
             c == Counts(points)
  <2>2. D \in Nat /\ n \in 1 .. n /\ Day(q.to) \in Nat
    BY <1>1, <2>1, DayFacts
  <2>3. points # <<>> /\ last = EndOf(D)
    BY <2>1, <2>2
  <2>4. last \in Nat /\ Day(last) = D
    BY <2>2, <2>3, DayBounds
  <2> HIDE DEF last, D, points
  <2>5. b.to \in Nat /\ b.to <= q.to /\ b.to <= last /\ (b.to = q.to \/ b.to = last)
    BY <1>1, <1>3, <2>4
  <2>6. IsFiniteSet(S) /\ \A i \in S : log[i].at \in Nat /\ Day(log[i].at) \in Nat
    <3>1. IsFiniteSet(S) /\ \A i \in S : log[i].at \in Nat
      BY IdsFacts
    <3> HIDE DEF S
    <3> QED
      BY <3>1, DayFacts
  <2>7. ASSUME NEW i
        PROVE  i \in T <=> i \in S /\ log[i].at <= b.to
    <3>1. i \in Transactions(ctx, q) => log[i].at \in Nat
      BY IdsFacts
    <3>2. i \in Transactions(ctx, b) => log[i].at \in Nat
      BY IdsFacts
    <3>3. i \in Transactions(ctx, b) <=> i \in Transactions(ctx, q) /\ log[i].at <= b.to
      BY <1>1, <1>3, <2>5, <3>1, <3>2 DEF Transactions, Within, Absent
    <3> QED
      BY <3>3 DEF Activity
  <2>8. \A i \in S : log[i].at <= q.to
    BY <1>1 DEF Activity, Transactions, Within, Absent
  <2>9. ASSUME NEW i \in S PROVE log[i].at <= b.to <=> Day(log[i].at) <= D
    <3>1. log[i].at \in Nat /\ log[i].at <= q.to /\ Day(log[i].at) \in Nat
      BY <2>6, <2>8
    <3>2. log[i].at <= last <=> Day(log[i].at) <= D
      <4>1. log[i].at <= last => Day(log[i].at) <= D
        BY <2>4, <3>1, DayOrder
      <4>2. ASSUME Day(log[i].at) <= D PROVE log[i].at <= last
        <5> DEFINE day == Day(log[i].at)
                   rest == log[i].at % DayLength
                   low_ == day * DayLength
                   end_ == D * DayLength
        <5>1. day \in Nat /\ rest \in Nat /\ rest < DayLength /\ low_ \in Nat /\ log[i].at = low_ + rest
          BY <3>1, DayFacts
        <5>2. DayLength \in Nat /\ end_ \in Nat /\ low_ <= end_
          BY <2>2, <3>1, <4>2, DayStarts
        <5>3. last = end_ + DayLength - 1
          BY <2>3 DEF EndOf, StartOf
        <5> HIDE DEF day, rest, low_, end_
        <5> QED
          BY <5>1, <5>2, <5>3
      <4> QED
        BY <4>1, <4>2
    <3> QED
      BY <1>1, <2>4, <2>5, <3>1, <3>2
  <2>10. T \in SUBSET S /\ IsFiniteSet(T) /\ \A i \in T : Day(log[i].at) <= D /\ low <= Day(log[i].at) /\ Day(log[i].at) \in Nat
    <3>1. T \in SUBSET S
      BY <2>7
    <3> QED
      BY <2>1, <2>6, <2>7, <2>9, <3>1, FS_Subset
  <2> HIDE DEF T
  <2>11. ASSUME NEW i \in 1 .. n PROVE c[i] = val[{x \in T : h[x] = s[i]}]
    <3> DEFINE d == low + i - 1
               A == {x \in T : h[x] = s[i]}
    <3>1. d \in Nat /\ d <= D /\ s[i] = d
      BY <2>1 DEF D
    <3> HIDE DEF d
    <3>2. A = OfDay(S, d)
      <4>1. \A x \in T : h[x] = Day(log[x].at)
        OBVIOUS
      <4>2. ASSUME NEW x PROVE x \in A <=> x \in OfDay(S, d)
        <5>1. x \in A <=> x \in T /\ Day(log[x].at) = d
          BY <3>1, <4>1
        <5>2. x \in OfDay(S, d) <=> x \in S /\ Day(log[x].at) = d
          BY DEF OfDay
        <5>3. x \in S /\ Day(log[x].at) = d => x \in T
          BY <2>7, <2>9, <3>1
        <5> QED
          BY <2>10, <5>1, <5>2, <5>3
      <4> QED
        BY <4>2
    <3>3. A \in SUBSET T
      OBVIOUS
    <3>4. c[i] = Cardinality(OfDay(S, d))
      BY <2>1 DEF Counts, d
    <3> HIDE DEF A
    <3>5. c[i] = val[A]
      BY <3>2, <3>3, <3>4
    <3> QED
      BY <3>5 DEF A
  <2>12. /\ \A A \in SUBSET T : val[A] \in Nat
         /\ val[{}] = 0 /\ Additive(val, T)
    <3> DEFINE img == [A \in SUBSET T |-> Cardinality({h[i] : i \in A})]
    <3>1. /\ \A A \in SUBSET T : val[A] \in Nat /\ img[A] \in Nat
          /\ val[{}] = 0 /\ img[{}] = 0
          /\ Additive(val, T) /\ Subadditive(img, T)
      <4> HIDE DEF h
      <4> QED
        BY <2>10, NumbersOfIds
    <3> QED
      BY <3>1
  <2>13. \A x \in T : \E i \in 1 .. n : s[i] = h[x]
    <3> SUFFICES ASSUME NEW x \in T PROVE \E i \in 1 .. n : s[i] = h[x]
      OBVIOUS
    <3>1. h[x] \in Nat /\ low <= h[x] /\ h[x] <= low + n - 1
      BY <2>10 DEF D
    <3> DEFINE k == h[x] - low + 1
    <3>2. k \in 1 .. n /\ low + k - 1 = h[x]
      <4> HIDE DEF h
      <4> QED
        BY <3>1
    <3>3. s[k] = h[x]
      BY <3>2
    <3> HIDE DEF k, s, h
    <3> QED
      BY <3>2, <3>3
  <2>14. DOMAIN c = 1 .. n /\ DOMAIN s = 1 .. n /\ \A i, j \in 1 .. n : i # j => s[i] # s[j]
    BY <2>1 DEF Counts
  <2>15. val[T] = getInteractionsCount(ctx, b)
    BY DEF getInteractionsCount, T
  <2> HIDE DEF c, s, h, val
  <2>16. PointsOf(c, n, s, h, val, T)
    <3>1. \A i \in 1 .. n : c[i] = val[{x \in T : h[x] = s[i]}]
      BY <2>11
    <3>2. \A A \in SUBSET T : val[A] \in Int
      BY <2>12
    <3> QED
      BY <2>12, <2>13, <2>14, <3>1, <3>2 DEF PointsOf
  <2>17. AddedUp(c) = val[T]
    BY <2>12, <2>16, ClassesAlong
  <2>18. Day(q.to) - Day(last) \in {0, 1}
    BY <2>1, <2>2, <2>4 DEF D
  <2> QED
    BY <1>2, <2>15, <2>17, <2>18 DEF c, points, last
<1> QED
  BY <1>4, <1>5

\* Funds come in multiples of conversionFactor.
FundsOK == \A a \in made : a.deposit # NoDeposit => \E n \in Nat : a.deposit = Factor * n

\* Every step keeps it.
LEMMA FundsStep == ASSUME FundsOK, [Next]_vars PROVE FundsOK'
<1>1. ASSUME UNCHANGED made PROVE FundsOK'
  BY <1>1 DEF FundsOK
<1>2. ASSUME NEW i, NEW from, NEW to, NEW call \in Calls \cup Outgoing,
             made' = made \cup {Action(i, from, to, call)}
      PROVE  FundsOK'
  <2>1. PICK new : new = Action(i, from, to, call)
    OBVIOUS
  <2>2. new.deposit = call.deposit
    BY <2>1 DEF Action
  <2>3. call.deposit # NoDeposit => \E n \in Nat : call.deposit = Factor * n
    <3> SUFFICES ASSUME call.deposit # NoDeposit PROVE \E n \in Nat : call.deposit = Factor * n
      OBVIOUS
    <3>1. call.deposit \in Nat /\ call.deposit % Factor = 0 /\ Factor \in Nat /\ Factor > 0
      BY LogQueriesAssumption DEF NoDeposit
    <3>2. call.deposit \div Factor \in Nat /\ call.deposit = Factor * (call.deposit \div Factor)
      BY <3>1, Division
    <3> QED
      BY <3>2
  <2> QED
    BY <1>2, <2>1, <2>2, <2>3 DEF FundsOK
<1>3. ASSUME NEW signer \in Users, NEW dao \in Daos, NEW call \in Calls, Call(signer, dao, call)
      PROVE  FundsOK'
  <2>1. made' = made \cup {Action(Len(log) + 1, signer, dao, call)}
    BY <1>3 DEF Call
  <2> QED
    BY <1>2, <2>1
<1>4. ASSUME NEW i \in DOMAIN log, NEW to, NEW call \in Outgoing, Execute(i, to, call)
      PROVE  FundsOK'
  <2>1. made' = made \cup {Action(i, log[i].receiver, to, call)}
    BY <1>4 DEF Execute
  <2> QED
    BY <1>2, <2>1
<1>5. CASE Tick \/ Sync \/ Upgrade \/ Load
  BY <1>1, <1>5 DEF Tick, Sync, Upgrade, Load
<1>6. ASSUME NEW row \in toMigrate, MigrateRow(row) \/ RowFails(row) PROVE FundsOK'
  BY <1>1, <1>6 DEF MigrateRow, RowFails
<1>7. CASE StartRequest \/ DayAnswered \/ DayFails \/ EndRequest
  BY <1>1, <1>7 DEF StartRequest, DayAnswered, DayFails, EndRequest
<1>8. CASE UNCHANGED vars
  BY <1>1, <1>8 DEF vars
<1> QED
  BY <1>3, <1>4, <1>5, <1>6, <1>7, <1>8 DEF Next

\* The number of the members of sets apart is that of both.
LEMMA CardinalityAdds ==
    ASSUME NEW S, IsFiniteSet(S), NEW val, \A A \in SUBSET S : val[A] = Cardinality(A)
    PROVE  (\A A \in SUBSET S : val[A] \in Int) /\ val[{}] = 0 /\ Additive(val, S)
<1>1. ASSUME NEW A \in SUBSET S PROVE IsFiniteSet(A) /\ val[A] = Cardinality(A) /\ val[A] \in Int
  BY FS_Subset, FS_CardinalityType
<1>2. val[{}] = 0
  <2>1. {} \in SUBSET S
    OBVIOUS
  <2> QED
    BY <1>1, <2>1, FS_EmptySet
<1>3. ASSUME NEW A \in SUBSET S, NEW B \in SUBSET S, A \cap B = {}
      PROVE  val[A \cup B] = val[A] + val[B]
  <2>1. Cardinality(A \cup B) = Cardinality(A) + Cardinality(B) - Cardinality(A \cap B)
    BY <1>1, FS_Union
  <2>2. Cardinality(A \cap B) = 0
    BY <1>3, FS_EmptySet
  <2>3. A \cup B \in SUBSET S
    OBVIOUS
  <2>4. /\ val[A] = Cardinality(A) /\ val[B] = Cardinality(B) /\ val[A \cup B] = Cardinality(A \cup B)
        /\ val[A] \in Int /\ val[B] \in Int
    BY <1>1, <2>3
  <2> QED
    BY <2>1, <2>2, <2>4
<1> QED
  BY <1>1, <1>2, <1>3 DEF Additive

\* So what a chart shows of flows apart is what it shows of both: dividing by the
\* factor rounds nothing.
LEMMA ShownAddsUp ==
    ASSUME LogOK, FundsOK, NEW S \in SUBSET made, \A a \in S : a.deposit # NoDeposit,
           NEW type \in {"Fund", "Transaction"},
           NEW val, \A A \in SUBSET S : val[A] = Shown(type, Amount(type, A))
    PROVE  (\A A \in SUBSET S : val[A] \in Int) /\ val[{}] = 0 /\ Additive(val, S)
<1>1. IsFiniteSet(S)
  BY FS_Subset DEF LogOK
<1>2. CASE type = "Transaction"
  <2>1. \A A \in SUBSET S : val[A] = Cardinality(A)
    BY <1>2 DEF Shown, Amount
  <2> QED
    BY <1>1, <2>1, CardinalityAdds
<1>3. CASE type = "Fund"
  <2> DEFINE unit == [a \in S |-> CHOOSE n \in Nat : a.deposit = Factor * n]
             u(A) == SumFunctionOnSet(unit, A)
  <2>1. \A a \in S : unit[a] \in Nat /\ a.deposit = Factor * unit[a]
    <3> SUFFICES ASSUME NEW a \in S PROVE unit[a] \in Nat /\ a.deposit = Factor * unit[a]
      OBVIOUS
    <3>1. \E n \in Nat : a.deposit = Factor * n
      BY DEF FundsOK
    <3> DEFINE x == unit[a]
    <3>2. x \in Nat /\ a.deposit = Factor * x
      BY <3>1
    <3> QED
      BY <3>2 DEF x
  <2> HIDE DEF unit
  <2>2. Factor \in Nat /\ Factor > 0
    BY LogQueriesAssumption
  <2>3. ASSUME NEW A \in SUBSET S
        PROVE  IsFiniteSet(A) /\ Numbers(unit, A) /\ u(A) \in Nat /\ val[A] = u(A)
    <3> DEFINE f == [a \in A |-> a.deposit]
    <3>1. IsFiniteSet(A) /\ Numbers(unit, A) /\ Naturals(unit, S)
      BY <1>1, <2>1, FS_Subset DEF Numbers, Naturals
    <3>2. u(A) \in Nat
      BY <1>1, <3>1, SumOfPart
    <3>3. \A a \in A : f[a] = Factor * unit[a]
      BY <2>1
    <3> HIDE DEF f
    <3>4. SumFunctionOnSet(f, A) = Factor * u(A)
      <4>1. Factor \in Int
        BY <2>2
      <4> QED
        BY <3>1, <3>3, <4>1, SumOfMultiples
    <3>5. val[A] = SumFunctionOnSet(f, A) \div Factor
      BY <1>3 DEF Shown, Amount, f
    <3> DEFINE x == u(A)
    <3>6. x \in Nat /\ val[A] = (Factor * x) \div Factor
      BY <3>2, <3>4, <3>5
    <3> HIDE DEF x
    <3>7. Factor * x = x * Factor + 0 /\ 0 \in Nat /\ 0 < Factor
      BY <2>2, <3>6
    <3>8. (x * Factor + 0) \div Factor = x
      BY <2>2, <3>6, <3>7, QuotientOf
    <3>9. val[A] = x
      BY <3>6, <3>7, <3>8
    <3> QED
      BY <3>1, <3>2, <3>9 DEF x
  <2>4. val[{}] = 0
    <3>1. {} \in SUBSET S
      OBVIOUS
    <3>2. val[{}] = u({})
      BY <2>3, <3>1
    <3> QED
      BY <3>2, SumOfNone
  <2>5. ASSUME NEW A \in SUBSET S, NEW B \in SUBSET S, A \cap B = {}
        PROVE  val[A \cup B] = val[A] + val[B]
    <3>1. A \cup B \in SUBSET S
      OBVIOUS
    <3>2. val[A] = u(A) /\ val[B] = u(B) /\ val[A \cup B] = u(A \cup B)
      BY <2>3, <3>1
    <3>3. IsFiniteSet(A) /\ IsFiniteSet(B) /\ Numbers(unit, A \cup B)
      BY <2>3, <3>1
    <3>4. u(A \cup B) = u(A) + u(B)
      BY <2>5, <3>3, SumUnion
    <3> QED
      BY <3>2, <3>4
  <2>6. \A A \in SUBSET S : val[A] \in Int
    <3>1. \A A \in SUBSET S : val[A] \in Nat
      BY <2>3
    <3> QED
      BY <3>1
  <2> QED
    BY <2>4, <2>5, <2>6 DEF Additive
<1> QED
  BY <1>2, <1>3

\* A day of the history has the amount of the transfers of the day, 0 of none.
LEMMA HistoryOn ==
    ASSUME NEW ctx, NEW type, NEW transfer, NEW q, NEW day
    PROVE  CountOn(getHistory(ctx, type, transfer, q), day)
             = Amount(type, {a \in Transfers(ctx, transfer, q) : Daily(a.at) = day})
<1> DEFINE S == Transfers(ctx, transfer, q)
           V(d) == Amount(type, {a \in S : Daily(a.at) = d})
           rows == getHistory(ctx, type, transfer, q)
<1>1. rows = {[day |-> d, count |-> V(d)] : d \in {Daily(a.at) : a \in S}}
  BY DEF getHistory
<1> HIDE DEF S, rows, V
<1>2. ASSUME NEW r \in rows PROVE r.count = V(r.day) /\ \E a \in S : r.day = Daily(a.at)
  <2>1. PICK d \in {Daily(a.at) : a \in S} : r = [day |-> d, count |-> V(d)]
    BY <1>1
  <2>2. r.day = d /\ r.count = V(d)
    BY <2>1
  <2> QED
    BY <2>1, <2>2
<1>3. CASE \E a \in S : Daily(a.at) = day
  <2>1. [day |-> day, count |-> V(day)] \in rows
    BY <1>1, <1>3
  <2>2. \E r \in rows : r.day = day
    <3>1. [day |-> day, count |-> V(day)].day = day
      OBVIOUS
    <3> QED
      BY <2>1, <3>1
  <2>3. PICK r : r = CHOOSE p \in rows : p.day = day
    OBVIOUS
  <2>4. r \in rows /\ r.day = day
    BY <2>2, <2>3
  <2>5. CountOn(rows, day) = r.count
    BY <2>2, <2>3 DEF CountOn
  <2> QED
    BY <1>2, <2>4, <2>5 DEF V, S, rows
<1>4. CASE ~ \E a \in S : Daily(a.at) = day
  <2>1. CountOn(rows, day) = 0
    BY <1>2, <1>4 DEF CountOn
  <2>2. {a \in S : Daily(a.at) = day} = {}
    BY <1>4
  <2>3. V(day) = 0
    BY <2>2, AmountOfNone DEF V
  <2> QED
    BY <2>1, <2>3 DEF V, S, rows
<1> QED
  BY <1>3, <1>4

\* The points of a chart of flows, incoming or outgoing, add up to the total.
LEMMA FlowAddsUp ==
    ASSUME LogOK, StoredOK, FundsOK, NEW ctx, NEW type \in {"Fund", "Transaction"},
           NEW transfer \in {"Incoming", "Outgoing"}, NEW c,
           LET points == flowHistory(ctx, type, NoQuery)
           IN  c = [n \in DOMAIN points |-> IF transfer = "Incoming" THEN points[n].incoming
                                            ELSE points[n].outgoing]
    PROVE  AddedUp(c) = Shown(type, getTotals(ctx, type, transfer, NoQuery))
<1> DEFINE Of(tr) == Transfers(ctx, tr, NoQuery)
           S == Of(transfer)
           History(tr) == getHistory(ctx, type, tr, NoQuery)
           K == {r.day : r \in History("Incoming") \cup History("Outgoing")}
           days == InOrder(K)
           n == Len(days)
           h == [a \in S |-> Daily(a.at)]
           val == [A \in SUBSET S |-> Shown(type, Amount(type, A))]
<1>1. ASSUME NEW tr
      PROVE  /\ Of(tr) \in SUBSET made /\ IsFiniteSet(Of(tr))
             /\ \A a \in Of(tr) : a.deposit # NoDeposit /\ a.at \in Nat
  <2>1. Of(tr) \in SUBSET made /\ \A a \in Of(tr) : a.deposit # NoDeposit
    BY DEF Transfers, StoredOK
  <2>2. \A a \in made : a.at \in Nat
    BY DEF LogOK, ActionOK
  <2> HIDE DEF Of
  <2>3. IsFiniteSet(Of(tr))
    BY <2>1, FS_Subset DEF LogOK
  <2> QED
    BY <2>1, <2>2, <2>3
<1>2. ASSUME NEW tr
      PROVE  {r.day : r \in History(tr)} = {Daily(a.at) : a \in Of(tr)}
  <2> DEFINE V(d) == Amount(type, {a \in Of(tr) : Daily(a.at) = d})
             D == {Daily(a.at) : a \in Of(tr)}
  <2>1. History(tr) = {[day |-> d, count |-> V(d)] : d \in D}
    BY DEF getHistory
  <2> HIDE DEF V, D, History
  <2>2. ASSUME NEW r \in History(tr) PROVE r.day \in D
    <3>1. PICK d \in D : r = [day |-> d, count |-> V(d)]
      BY <2>1
    <3>2. r.day = d
      BY <3>1
    <3> QED
      BY <3>1, <3>2
  <2>4. ASSUME NEW d \in D PROVE \E r \in History(tr) : r.day = d
    <3>1. PICK r : r = [day |-> d, count |-> V(d)]
      OBVIOUS
    <3>2. r \in History(tr) /\ r.day = d
      BY <2>1, <3>1
    <3> QED
      BY <3>2
  <2>3. {r.day : r \in History(tr)} = D
    BY <2>2, <2>4
  <2> QED
    BY <2>3 DEF D
<1>3. K = {Daily(a.at) : a \in Of("Incoming") \cup Of("Outgoing")}
  <2>1. K = {r.day : r \in History("Incoming")} \cup {r.day : r \in History("Outgoing")}
    OBVIOUS
  <2>2. /\ {r.day : r \in History("Incoming")} = {Daily(a.at) : a \in Of("Incoming")}
        /\ {r.day : r \in History("Outgoing")} = {Daily(a.at) : a \in Of("Outgoing")}
    BY <1>2
  <2> DEFINE X == Of("Incoming")
             Y == Of("Outgoing")
  <2> HIDE DEF K, X, Y
  <2>3. {Daily(a.at) : a \in X} \cup {Daily(a.at) : a \in Y} = {Daily(a.at) : a \in X \cup Y}
    OBVIOUS
  <2> HIDE DEF History
  <2> QED
    BY <2>1, <2>2, <2>3 DEF X, Y
<1>4. K \in SUBSET Int /\ IsFiniteSet(K)
  <2> DEFINE All == Of("Incoming") \cup Of("Outgoing")
             g == [a \in All |-> Daily(a.at)]
  <2>1. IsFiniteSet(All)
    BY <1>1, FS_Union
  <2>2. K = {g[a] : a \in All}
    BY <1>3
  <2>3. \A a \in All : g[a] \in Int
    <3> SUFFICES ASSUME NEW a \in All PROVE g[a] \in Int
      OBVIOUS
    <3>1. a.at \in Nat
      BY <1>1
    <3>2. Daily(a.at) \in Nat
      BY <3>1, DayFacts, DayBounds DEF Daily
    <3> QED
      BY <3>2
  <2> HIDE DEF All, g, K
  <2> QED
    BY <2>1, <2>2, <2>3, FiniteImages
<1> HIDE DEF K
<1>5. /\ DOMAIN days = 1 .. n /\ n \in Nat
      /\ \A i \in DOMAIN days : days[i] \in K
      /\ \A i, j \in DOMAIN days : i < j => days[i] < days[j]
      /\ \A x \in K : \E i \in DOMAIN days : days[i] = x
  BY <1>4, OrderedDays
<1>6. flowHistory(ctx, type, NoQuery)
        = [m \in DOMAIN days |-> [timestamp |-> EndOf(Day(days[m])),
                                  incoming |-> Shown(type, CountOn(History("Incoming"), days[m])),
                                  outgoing |-> Shown(type, CountOn(History("Outgoing"), days[m]))]]
  BY DEF flowHistory, K
<1> HIDE DEF days, n
<1>7. /\ DOMAIN c = 1 .. n
      /\ \A i \in 1 .. n : c[i] = Shown(type, CountOn(History(transfer), days[i]))
  BY <1>5, <1>6
<1> HIDE DEF Of, History
<1>8. ASSUME NEW i \in 1 .. n PROVE c[i] = val[{a \in S : h[a] = days[i]}]
  <2> DEFINE A == {a \in S : h[a] = days[i]}
  <2>1. A = {a \in S : Daily(a.at) = days[i]} /\ A \in SUBSET S
    OBVIOUS
  <2>2. CountOn(History(transfer), days[i]) = Amount(type, {a \in S : Daily(a.at) = days[i]})
    BY HistoryOn DEF History, Of
  <2> HIDE DEF A
  <2>3. c[i] = val[A]
    BY <1>7, <2>1, <2>2
  <2> QED
    BY <2>3 DEF A
<1>9. (\A A \in SUBSET S : val[A] \in Int) /\ val[{}] = 0 /\ Additive(val, S)
  <2>1. S \in SUBSET made /\ \A a \in S : a.deposit # NoDeposit
    BY <1>1
  <2>2. \A A \in SUBSET S : val[A] = Shown(type, Amount(type, A))
    OBVIOUS
  <2> HIDE DEF S, val
  <2> QED
    BY <2>1, <2>2, ShownAddsUp
<1>10. \A x \in S : \E i \in 1 .. n : days[i] = h[x]
  <2> SUFFICES ASSUME NEW x \in S PROVE \E i \in 1 .. n : days[i] = h[x]
    OBVIOUS
  <2>1. x \in Of("Incoming") \cup Of("Outgoing")
    OBVIOUS
  <2>2. h[x] \in K
    BY <1>3, <2>1
  <2> QED
    BY <1>5, <2>2
<1>11. \A i, j \in 1 .. n : i # j => days[i] # days[j]
  <2> SUFFICES ASSUME NEW i \in 1 .. n, NEW j \in 1 .. n, i # j PROVE days[i] # days[j]
    OBVIOUS
  <2>0. i \in DOMAIN days /\ j \in DOMAIN days /\ days[i] \in K /\ days[j] \in K
    BY <1>5
  <2>1. i \in Nat /\ j \in Nat /\ n \in Nat
    BY <1>5
  <2>2. \A x \in K : x \in Int
    BY <1>4
  <2>3. CASE i < j
    <3>1. days[i] < days[j]
      BY <1>5, <2>0, <2>3
    <3> QED
      BY <2>0, <2>2, <3>1
  <2>4. CASE j < i
    <3>1. days[j] < days[i]
      BY <1>5, <2>0, <2>4
    <3> QED
      BY <2>0, <2>2, <3>1
  <2> QED
    BY <2>1, <2>3, <2>4
<1>12. val[S] = Shown(type, getTotals(ctx, type, transfer, NoQuery))
  BY DEF getTotals, Of
<1> HIDE DEF S, h, val
<1>13. PointsOf(c, n, days, h, val, S)
  <2>1. \A i \in 1 .. n : c[i] = val[{a \in S : h[a] = days[i]}]
    BY <1>8
  <2> QED
    BY <1>5, <1>7, <1>9, <1>10, <1>11, <2>1 DEF PointsOf
<1> QED
  BY <1>9, <1>12, <1>13, ClassesAlong

\* The points of the charts of flows add up to the totals, and those of interactions to
\* the interactions of their days (FlowService.history and totals,
\* UsersService.interactions and interactionsCount).
THEOREM ChartsAddUpHolds == Spec => []ChartsAddUp
<1>1. ASSUME LogOK, StoredOK, FundsOK PROVE ChartsAddUp
  <2> SUFFICES ASSUME NEW ctx \in Contexts
               PROVE  /\ LET totals == flowTotals(ctx)
                             funds == flowHistory(ctx, "Fund", NoQuery)
                             numbers == flowHistory(ctx, "Transaction", NoQuery)
                             In(points) == [n \in DOMAIN points |-> points[n].incoming]
                             Out(points) == [n \in DOMAIN points |-> points[n].outgoing]
                         IN  /\ AddedUp(In(funds)) = totals.totalIn.count
                             /\ AddedUp(Out(funds)) = totals.totalOut.count
                             /\ AddedUp(In(numbers)) = totals.transactionsIn.count
                             /\ AddedUp(Out(numbers)) = totals.transactionsOut.count
                      /\ \A q \in Queries :
                            LET points == interactions(ctx, q)
                                last == IF points = <<>> THEN q.to ELSE points[Len(points)].timestamp
                            IN  /\ AddedUp(Counts(points))
                                      = getInteractionsCount(ctx,
                                            [q EXCEPT !.to = IF last < @ THEN last ELSE @])
                                /\ points # <<>> => Day(q.to) - Day(last) \in {0, 1}
    BY DEF ChartsAddUp
  <2> DEFINE In(points) == [n \in DOMAIN points |-> points[n].incoming]
             Out(points) == [n \in DOMAIN points |-> points[n].outgoing]
  <2>1. ASSUME NEW type \in {"Fund", "Transaction"}
        PROVE  /\ AddedUp(In(flowHistory(ctx, type, NoQuery)))
                    = Shown(type, getTotals(ctx, type, "Incoming", NoQuery))
               /\ AddedUp(Out(flowHistory(ctx, type, NoQuery)))
                    = Shown(type, getTotals(ctx, type, "Outgoing", NoQuery))
    <3> DEFINE Of(points, tr) == [n \in DOMAIN points |-> IF tr = "Incoming" THEN points[n].incoming
                                                          ELSE points[n].outgoing]
               points == flowHistory(ctx, type, NoQuery)
    <3>1. \A tr \in {"Incoming", "Outgoing"} :
             AddedUp(Of(points, tr)) = Shown(type, getTotals(ctx, type, tr, NoQuery))
      BY <1>1, FlowAddsUp
    <3>2. In(points) = Of(points, "Incoming") /\ Out(points) = Of(points, "Outgoing")
      OBVIOUS
    <3> HIDE DEF In, Out, Of, points
    <3>3. /\ AddedUp(In(points)) = Shown(type, getTotals(ctx, type, "Incoming", NoQuery))
          /\ AddedUp(Out(points)) = Shown(type, getTotals(ctx, type, "Outgoing", NoQuery))
      BY <3>1, <3>2
    <3> QED
      BY <3>3 DEF points
  <2>2. /\ flowTotals(ctx).totalIn.count = Shown("Fund", getTotals(ctx, "Fund", "Incoming", NoQuery))
        /\ flowTotals(ctx).totalOut.count = Shown("Fund", getTotals(ctx, "Fund", "Outgoing", NoQuery))
        /\ flowTotals(ctx).transactionsIn.count
              = Shown("Transaction", getTotals(ctx, "Transaction", "Incoming", NoQuery))
        /\ flowTotals(ctx).transactionsOut.count
              = Shown("Transaction", getTotals(ctx, "Transaction", "Outgoing", NoQuery))
    BY DEF flowTotals, Shown
  <2>3. ASSUME NEW q \in Queries
        PROVE  LET points == interactions(ctx, q)
                   last == IF points = <<>> THEN q.to ELSE points[Len(points)].timestamp
               IN  /\ AddedUp(Counts(points))
                         = getInteractionsCount(ctx, [q EXCEPT !.to = IF last < @ THEN last ELSE @])
                   /\ points # <<>> => Day(q.to) - Day(last) \in {0, 1}
    BY <1>1, InteractionsAddUp
  <2> QED
    BY <2>1, <2>2, <2>3
<1>2. Init => FundsOK
  BY DEF Init, FundsOK
<1>3. LogOK /\ StoredOK /\ FundsOK /\ [Next]_vars => (LogOK /\ StoredOK /\ FundsOK)'
  BY LogStep, StoredStep, FundsStep
<1> QED
  BY <1>1, <1>2, <1>3, Initially, PTL DEF Spec

=============================================================================
