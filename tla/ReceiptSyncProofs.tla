------------------------- MODULE ReceiptSyncProofs -------------------------
(***************************************************************************)
(* Theorems about ReceiptSync, for every set of contracts and actions, any *)
(* window length, any retry threshold and any pattern of lag, outages and  *)
(* crashes.                                                                *)
(***************************************************************************)
EXTENDS ReceiptSync, TLAPS

USE DEF Times, NoTime

InWindows == pc \in {"query", "save"}

\* Inside a contract the locals of the run are defined, `running` is exactly
\* "not idle", and rows wait in memory only between a query and its save.
LocalsOK ==
    /\ running <=> pc # "idle"
    /\ pc \in {"query", "save", "rest"} =>
          cur \in Contracts /\ to \in Times /\ lo \in Times
    /\ pc # "save" => batch = {}

\* What is at or below the frontier is accounted for, and the frontier is
\* never behind a stored action.
Covered(a) == a \in stored \cup passedOver
FrontierCovers ==
    \A a \in Actions : chain[a].incl <= frontier[chain[a].contract] => Covered(a)
StoredBelowFrontier ==
    \A a \in stored : chain[a].incl <= frontier[chain[a].contract]

\* Everything before the window under way is accounted for, and a pending
\* batch together with what was passed over is the whole window.
BeforeWindowCovered ==
    InWindows => \A a \in Of(cur) : chain[a].incl < lo => Covered(a)
BatchIsWindow ==
    pc = "save" => /\ batch \subseteq Window
                   /\ Window \subseteq batch \cup passedOver

IInv ==
    /\ TypeOK
    /\ LocalsOK
    /\ FrontierCovers
    /\ StoredBelowFrontier
    /\ BeforeWindowCovered
    /\ BatchIsWindow

-----------------------------------------------------------------------------
(* Facts about single definitions                                          *)

\* The chain's entries have their types, and no receipt precedes its
\* transaction.
LEMMA ChainFacts ==
    ASSUME chain \in Chains, NEW a \in Actions
    PROVE  /\ chain[a].contract \in Contracts
           /\ chain[a].tx \in Times /\ chain[a].incl \in Times
           /\ chain[a].tx <= chain[a].incl
  BY DEF Chains, Entry

\* The end of a window is a time, not beyond `to`, and beyond the start of
\* the window unless it is `to`.
LEMMA WindowEndFacts ==
    ASSUME lo \in Times, to \in Times
    PROVE  /\ WindowEnd \in Times /\ WindowEnd <= to
           /\ WindowEnd < to => lo < WindowEnd
  BY ConstantsAssumption DEF WindowEnd

\* An element of LastTransaction(c) is undefined or the time of a stored
\* transaction of c, and no stored transaction of c is later.
LEMMA LastTransactionFacts ==
    ASSUME TypeOK, NEW c \in Contracts, NEW w \in LastTransaction(c)
    PROVE  /\ w \in Times \cup {NoTime}
           /\ \A a \in stored \cap Of(c) : w # NoTime /\ chain[a].tx <= w
           /\ w # NoTime => \E a \in stored \cap Of(c) : chain[a].tx = w
<1>1. \A a \in stored \cap Of(c) : chain[a].tx # NoTime
  BY ChainFacts, ConstantsAssumption DEF TypeOK
<1> QED
  BY <1>1 DEF LastTransaction

-----------------------------------------------------------------------------
(* Type correctness                                                        *)

\* The end of a window loop iteration (Advance) assigns values of the right types.
LEMMA AdvanceType ==
    ASSUME TypeOK, LocalsOK, pc \in {"query", "save"}, Advance
    PROVE  /\ pc' \in {"query", "rest"}
           /\ lo' \in Times
           /\ frontier' \in [Contracts -> Times \cup {NoTime}]
  BY WindowEndFacts DEF TypeOK, LocalsOK, Advance

\* Every step of the run, the cron tick, a crash and the environment keeps types,
\* and keeps `running` in step with where the run is.
LEMMA TypeStep == TypeOK /\ LocalsOK /\ [Next]_vars => TypeOK' /\ LocalsOK'
<1> SUFFICES ASSUME TypeOK, LocalsOK, [Next]_vars PROVE TypeOK' /\ LocalsOK'
  OBVIOUS
<1> USE ConstantsAssumption DEF TypeOK, LocalsOK, PCs, local, ghosts
<1>1. CASE Tick
  BY <1>1 DEF Tick
<1>2. ASSUME NEW c \in Contracts, StartContract(c) PROVE TypeOK' /\ LocalsOK'
  <2>1. from' \in Times \cup {NoTime} /\ lo' \in Times
    BY <1>2, LastTransactionFacts DEF StartContract
  <2> QED
    BY <1>2, <2>1 DEF StartContract, Of
<1>3. CASE QuerySucceeds
  <2>1. CASE batch' = {}
    <3>1. Advance
      BY <1>3, <2>1 DEF QuerySucceeds
    <3> QED
      BY <1>3, <2>1, <3>1, AdvanceType DEF QuerySucceeds, Window, Of
  <2>2. CASE batch' # {}
    BY <1>3, <2>2 DEF QuerySucceeds, Window, Of
  <2> QED
    BY <2>1, <2>2
<1>4. CASE QueryFails
  BY <1>4 DEF QueryFails
<1>5. CASE GiveUp
  BY <1>5, AdvanceType DEF GiveUp, Window, Of
<1>6. CASE Save
  BY <1>6, AdvanceType DEF Save
<1>7. CASE FinishContract
  BY <1>7 DEF FinishContract
<1>8. CASE ClearCache
  <2>1. running' \in BOOLEAN /\ (running' <=> pc' # "idle")
    BY <1>8, Zenon DEF ClearCache, LocalsGone
  <2> QED
    BY <1>8, <2>1 DEF ClearCache, LocalsGone
<1>9. CASE Crash
  <2>1. running' \in BOOLEAN /\ (running' <=> pc' # "idle")
    BY <1>9, Zenon DEF Crash, LocalsGone
  <2> QED
    BY <1>9, <2>1 DEF Crash, LocalsGone
<1>10. CASE ClockTicks
  BY <1>10 DEF ClockTicks
<1>11. CASE IndexerCatchesUp
  BY <1>11 DEF IndexerCatchesUp
<1>12. CASE UNCHANGED vars
  BY <1>12 DEF vars
<1> QED
  BY <1>1, <1>2, <1>3, <1>4, <1>5, <1>6, <1>7, <1>8, <1>9, <1>10, <1>11, <1>12
  DEF Next, Run

\* The process starts with well-typed state and no run under way.
LEMMA TypeInit == Init => TypeOK /\ LocalsOK
<1> SUFFICES ASSUME Init PROVE TypeOK /\ LocalsOK
  OBVIOUS
<1>1. running \in BOOLEAN /\ (running <=> pc # "idle")
  BY Zenon DEF Init
<1> QED
  BY <1>1, ConstantsAssumption DEF Init, TypeOK, LocalsOK, PCs

\* Every variable keeps its type in every run of the system.
THEOREM TypeCorrect == Spec => []TypeOK
<1>1. Init => TypeOK /\ LocalsOK
  BY TypeInit
<1>2. TypeOK /\ LocalsOK /\ [Next]_vars => TypeOK' /\ LocalsOK'
  BY TypeStep
<1> QED
  BY <1>1, <1>2, PTL DEF Spec

-----------------------------------------------------------------------------
(* The resume point                                                        *)

\* Completing a window: when every action of the window is accounted for
\* afterwards, the frontier may move to its end and the next window start
\* there.
LEMMA AdvanceCovers ==
    ASSUME IInv, InWindows, Advance,
           UNCHANGED <<chain, cur, to>>,
           stored \subseteq stored', stored' \subseteq stored \cup Window,
           passedOver \subseteq passedOver',
           Window \subseteq stored' \cup passedOver'
    PROVE  FrontierCovers' /\ StoredBelowFrontier' /\ BeforeWindowCovered'
<1> USE DEF IInv, InWindows, TypeOK, LocalsOK
<1>1. /\ cur \in Contracts /\ lo \in Times /\ to \in Times
      /\ frontier \in [Contracts -> Times \cup {NoTime}]
  OBVIOUS
<1>2. WindowEnd \in Times /\ WindowEnd <= to
  BY <1>1, WindowEndFacts
<1>3. /\ frontier' \in [Contracts -> Times \cup {NoTime}]
      /\ \A c \in Contracts : frontier[c] <= frontier'[c]
      /\ \A c \in Contracts \ {cur} : frontier'[c] = frontier[c]
      /\ WindowEnd <= frontier'[cur]
      /\ frontier'[cur] \in {frontier[cur], WindowEnd}
  BY <1>1, <1>2, ConstantsAssumption DEF Advance
<1>4. ASSUME NEW a \in Of(cur), chain[a].incl <= WindowEnd
      PROVE  a \in stored' \cup passedOver'
  <2>1. a \in Actions /\ chain[a].incl \in Times
    BY ChainFacts DEF Of
  <2>2. CASE chain[a].incl < lo
    BY <2>2 DEF BeforeWindowCovered, Covered
  <2>3. CASE lo <= chain[a].incl
    BY <1>4, <2>3 DEF Window
  <2> QED
    BY <1>1, <2>1, <2>2, <2>3, ConstantsAssumption
<1>5. FrontierCovers'
  <2> SUFFICES ASSUME NEW a \in Actions, chain[a].incl <= frontier'[chain[a].contract]
               PROVE  a \in stored' \cup passedOver'
    BY DEF FrontierCovers, Covered
  <2>1. chain[a].contract \in Contracts /\ chain[a].incl \in Times
    BY ChainFacts
  <2>2. CASE chain[a].incl <= frontier[chain[a].contract]
    BY <2>2 DEF FrontierCovers, Covered
  <2>3. CASE chain[a].contract = cur /\ frontier'[cur] = WindowEnd
    BY <1>4, <2>3 DEF Of
  <2> QED
    BY <1>3, <2>1, <2>2, <2>3
<1>6. StoredBelowFrontier'
  <2> SUFFICES ASSUME NEW a \in stored'
               PROVE  chain[a].incl <= frontier'[chain[a].contract]
    BY DEF StoredBelowFrontier
  <2>1. a \in Actions /\ chain[a].contract \in Contracts /\ chain[a].incl \in Times
    BY ChainFacts DEF Window, Of
  <2>2. CASE a \in stored
    BY <1>1, <1>3, <2>1, <2>2, ConstantsAssumption DEF StoredBelowFrontier
  <2>3. CASE a \in Window
    BY <1>2, <1>3, <2>1, <2>3, ConstantsAssumption DEF Window, Of
  <2> QED
    BY <2>2, <2>3
<1>7. BeforeWindowCovered'
  <2> SUFFICES ASSUME pc' = "query", NEW a \in Of(cur), chain[a].incl < lo'
               PROVE  a \in stored' \cup passedOver'
    BY DEF BeforeWindowCovered, Covered, Of, Advance
  <2>1. lo' = WindowEnd /\ a \in Actions /\ chain[a].incl \in Times
    BY ChainFacts DEF Advance, Of
  <2> QED
    BY <1>2, <1>4, <2>1, ConstantsAssumption
<1> QED
  BY <1>5, <1>6, <1>7

\* Each action keeps the inductive invariant; windows are completed by
\* QuerySucceeds, GiveUp and Save alone, through AdvanceCovers.
LEMMA IInvStep == IInv /\ [Next]_vars => IInv'
<1> SUFFICES ASSUME IInv, [Next]_vars PROVE IInv'
  OBVIOUS
<1>t. TypeOK' /\ LocalsOK'
  BY TypeStep DEF IInv
<1> DEFINE Rest == FrontierCovers' /\ StoredBelowFrontier' /\ BeforeWindowCovered'
                   /\ BatchIsWindow'
<1> SUFFICES Rest
  BY <1>t DEF IInv
<1> DEFINE Same == UNCHANGED <<chain, stored, frontier, passedOver>>
<1>s. ASSUME Same PROVE FrontierCovers' /\ StoredBelowFrontier'
  BY <1>s DEF IInv, FrontierCovers, StoredBelowFrontier, Covered
<1>1. CASE Tick
  BY <1>1, <1>s DEF Tick, ghosts, BeforeWindowCovered, BatchIsWindow, InWindows
<1>2. ASSUME NEW c \in Contracts, StartContract(c) PROVE Rest
  <2>1. /\ UNCHANGED <<chain, stored, frontier>> /\ cur' = c /\ pc' = "query"
        /\ passedOver' = passedOver \cup
             {a \in Of(c) : frontier[c] < chain[a].incl /\ chain[a].incl < lo'}
    BY <1>2 DEF StartContract
  <2>2. FrontierCovers' /\ StoredBelowFrontier'
    BY <2>1 DEF IInv, FrontierCovers, StoredBelowFrontier, Covered
  <2>3. BeforeWindowCovered'
    <3> SUFFICES ASSUME NEW a \in Of(c), chain[a].incl < lo'
                 PROVE  a \in stored \cup passedOver'
      BY <2>1 DEF BeforeWindowCovered, Covered, Of
    <3>1. a \in Actions /\ chain[a].contract = c /\ chain[a].incl \in Times
          /\ frontier[c] \in Times \cup {NoTime}
      BY ChainFacts DEF Of, IInv, TypeOK
    <3>2. CASE chain[a].incl <= frontier[c]
      BY <2>1, <3>1, <3>2 DEF IInv, FrontierCovers, Covered
    <3>3. CASE frontier[c] < chain[a].incl
      BY <2>1, <3>3
    <3> QED
      BY <3>1, <3>2, <3>3, ConstantsAssumption
  <2>4. BatchIsWindow'
    BY <2>1 DEF BatchIsWindow
  <2> QED
    BY <2>2, <2>3, <2>4
<1>3. CASE QuerySucceeds
  <2>0. /\ UNCHANGED <<chain, cur, to, stored>> /\ pc = "query"
        /\ batch' = Window \cap Visible
        /\ passedOver' = passedOver \cup (Window \ Visible)
    BY <1>3 DEF QuerySucceeds
  <2>1. CASE batch' = {}
    <3>1. Advance
      BY <1>3, <2>1 DEF QuerySucceeds
    <3>2. BatchIsWindow'
      BY <3>1 DEF BatchIsWindow, Advance
    <3> QED
      BY <2>0, <2>1, <3>1, <3>2, AdvanceCovers DEF InWindows
  <2>2. CASE batch' # {}
    <3>1. pc' = "save" /\ UNCHANGED <<lo, frontier>>
      BY <1>3, <2>2 DEF QuerySucceeds
    <3>2. Window' = Window
      BY <2>0, <3>1 DEF Window, WindowEnd, Of
    <3>3. BatchIsWindow'
      BY <2>0, <3>2 DEF BatchIsWindow
    <3>4. FrontierCovers' /\ StoredBelowFrontier'
      BY <2>0, <3>1 DEF IInv, FrontierCovers, StoredBelowFrontier, Covered
    <3>5. BeforeWindowCovered'
      BY <2>0, <3>1 DEF IInv, BeforeWindowCovered, InWindows, Covered, Of
    <3> QED
      BY <3>3, <3>4, <3>5
  <2> QED
    BY <2>1, <2>2
<1>4. CASE QueryFails
  BY <1>4, <1>s DEF QueryFails, ghosts, IInv, BeforeWindowCovered, BatchIsWindow,
                    InWindows, Covered, Of
<1>5. CASE GiveUp
  <2>1. BatchIsWindow'
    BY <1>5 DEF GiveUp, Advance, BatchIsWindow
  <2> QED
    BY <1>5, <2>1, AdvanceCovers DEF GiveUp, InWindows
<1>6. CASE Save
  <2>1. BatchIsWindow'
    BY <1>6 DEF Save, Advance, BatchIsWindow
  <2>2. batch \subseteq Window /\ Window \subseteq batch \cup passedOver
    BY <1>6 DEF Save, IInv, BatchIsWindow
  <2> QED
    BY <1>6, <2>1, <2>2, AdvanceCovers DEF Save, InWindows
<1>7. CASE FinishContract
  BY <1>7, <1>s DEF FinishContract, ghosts, BeforeWindowCovered, BatchIsWindow, InWindows
<1>8. CASE ClearCache
  BY <1>8, <1>s DEF ClearCache, LocalsGone, ghosts, BeforeWindowCovered, BatchIsWindow,
                    InWindows
<1>9. CASE Crash
  BY <1>9, <1>s DEF Crash, LocalsGone, ghosts, BeforeWindowCovered, BatchIsWindow,
                    InWindows
<1>e. ASSUME UNCHANGED <<chain, stored, pc, local, ghosts>> PROVE Rest
  BY <1>e, <1>s DEF local, ghosts, IInv, BeforeWindowCovered, BatchIsWindow, InWindows,
                    Covered, Of, Window, WindowEnd
<1>10. CASE ClockTicks
  BY <1>10, <1>e DEF ClockTicks
<1>11. CASE IndexerCatchesUp
  BY <1>11, <1>e DEF IndexerCatchesUp
<1>12. CASE UNCHANGED vars
  BY <1>12, <1>e DEF vars
<1> QED
  BY <1>1, <1>2, <1>3, <1>4, <1>5, <1>6, <1>7, <1>8, <1>9, <1>10, <1>11, <1>12
  DEF Next, Run

\* Initially nothing is stored and no window has been completed.
LEMMA IInvInit == Init => IInv
<1> SUFFICES ASSUME Init PROVE IInv
  OBVIOUS
<1>1. TypeOK /\ LocalsOK
  BY TypeInit
<1>2. FrontierCovers /\ StoredBelowFrontier
  BY <1>1, ChainFacts, ConstantsAssumption
  DEF Init, TypeOK, FrontierCovers, StoredBelowFrontier
<1> QED
  BY <1>1, <1>2 DEF Init, IInv, BeforeWindowCovered, BatchIsWindow, InWindows

\* The inductive invariant holds throughout: what lies at or below the frontier
\* of a contract is stored or was passed over, and so is what precedes the window
\* under way, although the run keeps no record of its position.
THEOREM Invariance == Spec => []IInv
  BY IInvInit, IInvStep, PTL DEF Spec

\* Whatever crashes, outages and lag do, an action at or before the point a
\* later run resumes from is stored or was passed over by a completed window.
THEOREM ResumePoint == Spec => []ResumePointSound
<1>1. IInv => ResumePointSound
  <2> SUFFICES ASSUME IInv,
                      NEW a \in Actions, NEW b \in stored,
                      chain[b].contract = chain[a].contract,
                      chain[a].incl <= chain[b].tx
               PROVE  a \in stored \cup passedOver
    BY DEF ResumePointSound
  <2>1. b \in Actions /\ chain[b].tx <= chain[b].incl
        /\ chain[b].tx \in Times /\ chain[b].incl \in Times /\ chain[a].incl \in Times
    BY ChainFacts DEF IInv, TypeOK
  <2>2. chain[b].incl <= frontier[chain[a].contract]
    BY DEF IInv, StoredBelowFrontier
  <2>3. frontier[chain[a].contract] \in Times \cup {NoTime}
    BY ChainFacts DEF IInv, TypeOK
  <2> QED
    BY <2>1, <2>2, <2>3, ConstantsAssumption DEF IInv, FrontierCovers, Covered
<1> QED
  BY <1>1, Invariance, PTL

-----------------------------------------------------------------------------
(* One contract                                                            *)

OneContract == \A c, d \in Contracts : c = d

\* With one contract `from` is always recomputed, and no stored transaction
\* is later than the start of the window under way.
SingleInv ==
    /\ pc = "contract" => from = NoTime
    /\ pc \in {"query", "save", "rest", "clear"} => todo = {}
    /\ InWindows => \A b \in stored \cap Of(cur) : chain[b].tx <= lo

\* Where a contract starts: at its last transaction or at the first block,
\* and in neither case beyond the frontier or before a stored transaction.
LEMMA SingleStart ==
    ASSUME IInv, SingleInv, NEW c \in Contracts, StartContract(c)
    PROVE  /\ \A b \in stored \cap Of(c) : chain[b].tx <= lo'
           /\ lo' = FirstBlock \/ \E b \in stored \cap Of(c) : chain[b].tx = lo'
<1> USE DEF IInv
<1>1. from' \in LastTransaction(c)
  BY DEF StartContract, SingleInv
<1>2. CASE from' = NoTime
  <2>1. stored \cap Of(c) = {}
    BY <1>1, <1>2, LastTransactionFacts
  <2> QED
    BY <1>2, <2>1 DEF StartContract
<1>3. CASE from' # NoTime
  BY <1>1, <1>3, LastTransactionFacts DEF StartContract
<1> QED
  BY <1>2, <1>3

\* Completing a window keeps SingleInv: what was saved lies before its end.
LEMMA SingleAdvance ==
    ASSUME IInv, SingleInv, InWindows, Advance,
           UNCHANGED <<chain, cur, todo>>,
           stored' \subseteq stored \cup Window
    PROVE  SingleInv'
<1> USE DEF IInv, InWindows
<1>1. pc' \in {"query", "rest"} /\ todo' = {}
  BY DEF Advance, SingleInv
<1> SUFFICES ASSUME pc' = "query", NEW b \in stored' \cap Of(cur)
             PROVE  chain[b].tx <= lo'
  BY <1>1 DEF SingleInv, Of
<1>2. lo \in Times /\ to \in Times /\ WindowEnd \in Times /\ lo' = WindowEnd /\ lo < WindowEnd
  BY WindowEndFacts DEF LocalsOK, Advance
<1>3. b \in Actions /\ chain[b].tx \in Times /\ chain[b].incl \in Times
      /\ chain[b].tx <= chain[b].incl
  BY ChainFacts DEF TypeOK, Of
<1>4. CASE b \in stored
  BY <1>2, <1>3, <1>4, ConstantsAssumption DEF SingleInv
<1>5. CASE b \in Window
  BY <1>2, <1>3, <1>5, ConstantsAssumption DEF Window
<1> QED
  BY <1>4, <1>5

\* With one contract, SingleInv is kept by every action: the next window starts
\* at or after every stored transaction.
LEMMA SingleStep ==
    ASSUME OneContract PROVE IInv /\ SingleInv /\ [Next]_vars => SingleInv'
<1> SUFFICES ASSUME IInv, SingleInv, [Next]_vars PROVE SingleInv'
  OBVIOUS
<1>1. CASE Tick
  BY <1>1 DEF Tick, SingleInv, InWindows
<1>2. ASSUME NEW c \in Contracts, StartContract(c) PROVE SingleInv'
  <2>1. pc' = "query" /\ cur' = c /\ UNCHANGED <<chain, stored>>
    BY <1>2 DEF StartContract
  <2>2. todo' = {}
    BY <1>2 DEF StartContract, OneContract, IInv, TypeOK
  <2>3. \A b \in stored \cap Of(c) : chain[b].tx <= lo'
    BY <1>2, SingleStart
  <2> QED
    BY <2>1, <2>2, <2>3 DEF SingleInv, Of
<1>3. CASE QuerySucceeds
  <2>1. CASE batch' = {}
    BY <1>3, <2>1, SingleAdvance DEF QuerySucceeds, InWindows
  <2>2. CASE batch' # {}
    BY <1>3, <2>2 DEF QuerySucceeds, SingleInv, InWindows, Of
  <2> QED
    BY <2>1, <2>2
<1>4. CASE QueryFails
  BY <1>4 DEF QueryFails, SingleInv, InWindows, Of
<1>5. CASE GiveUp
  BY <1>5, SingleAdvance DEF GiveUp, InWindows
<1>6. CASE Save
  <2>1. batch \subseteq Window
    BY <1>6 DEF Save, IInv, BatchIsWindow
  <2> QED
    BY <1>6, <2>1, SingleAdvance DEF Save, InWindows
<1>7. CASE FinishContract
  BY <1>7 DEF FinishContract, local, SingleInv, InWindows
<1>8. CASE ClearCache
  BY <1>8 DEF ClearCache, LocalsGone, SingleInv, InWindows
<1>9. CASE Crash
  BY <1>9 DEF Crash, LocalsGone, SingleInv, InWindows
<1>10. CASE UNCHANGED <<chain, stored, pc, local>>
  BY <1>10 DEF local, SingleInv, InWindows, Of
<1> QED
  BY <1>1, <1>2, <1>3, <1>4, <1>5, <1>6, <1>7, <1>8, <1>9, <1>10
  DEF Next, Run, ClockTicks, IndexerCatchesUp, vars

\* No run is under way initially.
LEMMA SingleInit == Init => SingleInv
  BY DEF Init, SingleInv, InWindows

\* With one contract, saves only ever append: no action is added that was
\* included before a transaction already stored.
THEOREM LogOrder ==
    ASSUME OneContract PROVE Spec => LogGrowsAtItsEnd
<1> DEFINE Grows == \A a \in stored' \ stored, b \in stored :
                        chain[b].contract = chain[a].contract => chain[a].incl >= chain[b].tx
<1>1. IInv /\ SingleInv /\ [Next]_vars => [Grows]_vars
  <2> SUFFICES ASSUME IInv, SingleInv, [Next]_vars, stored' # stored PROVE Grows
    BY DEF vars
  <2>1. Save
    BY DEF Next, Run, Tick, StartContract, QuerySucceeds, QueryFails, GiveUp,
           FinishContract, ClearCache, Crash, ClockTicks, IndexerCatchesUp, vars
  <2>2. batch \subseteq Window /\ stored' = stored \cup batch /\ pc = "save"
    BY <2>1 DEF Save, IInv, BatchIsWindow
  <2> SUFFICES ASSUME NEW a \in batch, NEW b \in stored,
                      chain[b].contract = chain[a].contract
               PROVE  chain[a].incl >= chain[b].tx
    BY <2>2
  <2>3. a \in Window /\ b \in Of(cur)
    BY <2>2 DEF Window, Of, IInv, TypeOK
  <2>4. chain[b].tx <= lo /\ lo <= chain[a].incl
    BY <2>2, <2>3 DEF SingleInv, InWindows, Window
  <2>5. chain[b].tx \in Times /\ lo \in Times /\ chain[a].incl \in Times
    BY <2>2, ChainFacts DEF IInv, TypeOK, LocalsOK
  <2> QED
    BY <2>4, <2>5, ConstantsAssumption
<1>2. IInv /\ SingleInv /\ [Next]_vars => (IInv /\ SingleInv)'
  BY IInvStep, SingleStep
<1>3. Init => IInv /\ SingleInv
  BY IInvInit, SingleInit
<1> QED
  BY <1>1, <1>2, <1>3, PTL DEF Spec, LogGrowsAtItsEnd

-----------------------------------------------------------------------------
(* One contract: the runs implement CollectedLog                           *)

\* Completing a window is one step of the abstract log, up to the window's end.
LEMMA AdvanceCompletes ==
    ASSUME IInv, SingleInv, InWindows, Advance,
           UNCHANGED <<chain, cur, to>>,
           stored \subseteq stored', stored' \subseteq stored \cup Window,
           passedOver \subseteq passedOver',
           Window \subseteq stored' \cup passedOver'
    PROVE  Collected!Next
<1>1. cur \in Contracts /\ lo \in Times /\ WindowEnd \in Times
  BY WindowEndFacts DEF IInv, LocalsOK, InWindows
<1>2. FrontierCovers'
  BY AdvanceCovers
<1>3. frontier' = [frontier EXCEPT ![cur] = IF @ < WindowEnd THEN WindowEnd ELSE @]
  BY DEF Advance
<1>4. ASSUME NEW a \in stored' \ stored
      PROVE  /\ chain[a].contract = cur /\ chain[a].incl <= WindowEnd
             /\ \A b \in stored :
                   chain[b].contract = cur => chain[b].tx <= chain[a].incl
  <2>1. a \in Window /\ a \in Actions /\ chain[a].incl \in Times
    BY ChainFacts DEF Window, Of, IInv, TypeOK
  <2>2. ASSUME NEW b \in stored, chain[b].contract = cur
        PROVE  chain[b].tx <= chain[a].incl
    <3>1. b \in Of(cur) /\ chain[b].tx \in Times
      BY <2>2, ChainFacts DEF Of, IInv, TypeOK
    <3>2. chain[b].tx <= lo /\ lo <= chain[a].incl
      BY <2>1, <3>1 DEF SingleInv, Window
    <3> QED
      BY <1>1, <2>1, <3>1, <3>2, ConstantsAssumption
  <2> QED
    BY <2>1, <2>2 DEF Window, Of
<1>5. ASSUME NEW a \in Actions, chain[a].contract = cur, chain[a].incl <= frontier'[cur]
      PROVE  a \in stored' \cup (passedOver' \ stored')
  BY <1>2, <1>5 DEF FrontierCovers, Covered
<1>6. Collected!Complete(cur, WindowEnd)
  BY <1>3, <1>4, <1>5 DEF Collected!Complete
<1> QED
  BY <1>1, <1>6 DEF Collected!Next

\* Any other step leaves the log and its cursor alone: it may add to what is
\* lost, or it changes nothing the abstract log knows.
LEMMA OverlookStep ==
    ASSUME UNCHANGED <<chain, stored, frontier>>,
           passedOver \subseteq passedOver', passedOver' \subseteq Actions
    PROVE  Collected!Next
  BY DEF Collected!Next, Collected!Overlook

\* Every step of a run is a step of the abstract log.
LEMMA RefinementStep ==
    ASSUME OneContract
    PROVE  IInv /\ SingleInv /\ [Next]_vars => [Collected!Next]_(Collected!vars)
<1> SUFFICES ASSUME IInv, SingleInv, [Next]_vars
             PROVE  Collected!Next \/ UNCHANGED Collected!vars
  OBVIOUS
<1>0. passedOver \subseteq Actions /\ passedOver' \subseteq Actions
  BY TypeStep DEF IInv, TypeOK
<1>1. CASE UNCHANGED <<chain, stored, ghosts>>
  BY <1>1 DEF ghosts, Collected!vars
<1>2. ASSUME NEW c \in Contracts, StartContract(c) PROVE Collected!Next
  BY <1>0, <1>2, OverlookStep DEF StartContract
<1>3. CASE QuerySucceeds
  <2>1. CASE batch' = {}
    BY <1>3, <2>1, AdvanceCompletes DEF QuerySucceeds, InWindows
  <2>2. CASE batch' # {}
    BY <1>0, <1>3, <2>2, OverlookStep DEF QuerySucceeds
  <2> QED
    BY <2>1, <2>2
<1>4. CASE GiveUp
  BY <1>4, AdvanceCompletes DEF GiveUp, InWindows
<1>5. CASE Save
  <2>1. batch \subseteq Window /\ Window \subseteq batch \cup passedOver
    BY <1>5 DEF Save, IInv, BatchIsWindow
  <2> QED
    BY <1>5, <2>1, AdvanceCompletes DEF Save, InWindows
<1> QED
  BY <1>1, <1>2, <1>3, <1>4, <1>5
  DEF Next, Run, Tick, QueryFails, FinishContract, ClearCache, Crash, ClockTicks,
      IndexerCatchesUp, vars

\* With one contract the runs implement the abstract log: a reader sees a log
\* that grows at its end behind a cursor that only moves forward, although the
\* program keeps no cursor and may crash anywhere.
THEOREM Refinement ==
    ASSUME OneContract PROVE Spec => ImplementsLog
<1>1. Init => Collected!Init
  BY DEF Init, Collected!Init
<1>2. Init => IInv /\ SingleInv
  BY IInvInit, SingleInit
<1>3. IInv /\ SingleInv /\ [Next]_vars => (IInv /\ SingleInv)'
  BY IInvStep, SingleStep
<1>4. IInv /\ SingleInv /\ [Next]_vars => [Collected!Next]_(Collected!vars)
  BY RefinementStep
<1> QED
  BY <1>1, <1>2, <1>3, <1>4, PTL DEF Spec, ImplementsLog, Collected!Spec

-----------------------------------------------------------------------------
(* Any contracts, an indexer in step with the chain, bounded outages        *)

GoodEnvironment == MaxLag = 0 /\ MaxFailures <= RetryThreshold + 1

\* The indexer has every block a window can ask for, `from` stems from a
\* stored transaction, and what was passed over lies behind one of another
\* contract, after a crash.
Behind(a) == \E b \in stored : /\ chain[b].contract # chain[a].contract
                               /\ chain[a].incl < chain[b].tx
LossInv ==
    /\ head = now /\ to <= now
    /\ \A a \in passedOver : crashes > 0 /\ Behind(a)
    /\ from = NoTime \/ \E b \in stored : chain[b].tx = from

\* As long as no run has died, the contracts a run has not begun are level
\* with each other, those it is done with have reached `to`, and the resume
\* point it shares is behind all it has not begun.
Finished(c) == c \notin todo /\ ~ (c = cur /\ InWindows)
Level ==
    /\ pc = "idle" => to = NoTime /\ \A c, d \in Contracts : frontier[c] = frontier[d]
    /\ pc = "contract" /\ to = NoTime => todo = Contracts
    /\ pc = "clear" => todo = {} /\ to # NoTime
    /\ to = NoTime => from = NoTime
    /\ pc \in {"query", "save", "rest"} => cur \notin todo
    /\ \A c, d \in todo : frontier[c] = frontier[d]
    /\ to # NoTime => \A c \in Contracts : Finished(c) => frontier[c] = to
    /\ \A c \in Contracts : frontier[c] <= now /\ (to # NoTime => frontier[c] <= to)
    /\ from # NoTime => \A c \in todo : from <= frontier[c]
LevelInv == crashes = 0 => Level

\* The end of a window moves the frontier of its contract only, and up to
\* `to` once the contract is done.
LEMMA LevelAdvance ==
    ASSUME IInv, Level, InWindows, Advance, UNCHANGED <<now, todo, cur, from, to>>,
           to <= now
    PROVE  Level'
<1> USE DEF IInv, TypeOK, LocalsOK, InWindows
<1>1. /\ cur \in Contracts /\ lo \in Times /\ to \in Times /\ now \in Times
      /\ frontier \in [Contracts -> Times \cup {NoTime}]
      /\ to # NoTime
  BY ConstantsAssumption
<1>2. WindowEnd \in Times /\ WindowEnd <= to
  BY <1>1, WindowEndFacts
<1>3. /\ \A c \in Contracts \ {cur} : frontier'[c] = frontier[c]
      /\ \A c \in Contracts : frontier'[c] <= to
      /\ \A c \in Contracts : frontier[c] <= frontier'[c]
      /\ pc' = "rest" => frontier'[cur] = to
      /\ frontier' \in [Contracts -> Times \cup {NoTime}]
  BY <1>1, <1>2, ConstantsAssumption DEF Advance, Level
<1>4. pc' \in {"query", "rest"}
  BY DEF Advance
<1>5. cur \notin todo
  BY DEF Level
<1>6. \A c \in Contracts : frontier'[c] <= now
  BY <1>1, <1>3
<1>7. \A c, d \in todo : frontier'[c] = frontier'[d]
  BY <1>3, <1>5 DEF Level
<1>8. ASSUME NEW c \in Contracts, Finished(c)' PROVE frontier'[c] = to
  BY <1>1, <1>3, <1>4, <1>8 DEF Level, Finished
<1>9. from # NoTime => \A c \in todo : from <= frontier'[c]
  BY <1>3, <1>5 DEF Level
<1> QED
  BY <1>1, <1>3, <1>4, <1>5, <1>6, <1>7, <1>8, <1>9 DEF Level

\* Starting a contract keeps the others level: the resume point it brings is
\* behind its own frontier, and theirs are where its own was.
LEMMA LevelStart ==
    ASSUME IInv, Level, LossInv, NEW c \in Contracts, StartContract(c)
    PROVE  Level' /\ (lo' = FirstBlock \/ lo' <= frontier[c])
<1> USE DEF IInv, TypeOK
<1>1. /\ c \in todo /\ todo' = todo \ {c} /\ cur' = c /\ pc = "contract" /\ pc' = "query"
      /\ now \in Times /\ now' = now /\ frontier' = frontier
      /\ frontier \in [Contracts -> Times \cup {NoTime}]
      /\ to' \in Times /\ to' = (IF to = NoTime THEN now ELSE to) /\ to' <= now
      /\ from' \in Times \cup {NoTime}
      /\ lo' = IF from' = NoTime THEN FirstBlock ELSE from'
      /\ now \in Int /\ NoTime \in Int
  BY LastTransactionFacts, ConstantsAssumption DEF StartContract, ghosts, LossInv
<1>2. from' # NoTime => from' <= frontier[c]
  <2>1. CASE from = NoTime
    <3> SUFFICES ASSUME from' # NoTime PROVE from' <= frontier[c]
      OBVIOUS
    <3>1. PICK b \in stored \cap Of(c) : chain[b].tx = from'
      BY <2>1, LastTransactionFacts DEF StartContract
    <3>2. /\ chain[b].tx <= chain[b].incl /\ chain[b].incl <= frontier[c]
          /\ chain[b].tx \in Times /\ chain[b].incl \in Times
      BY ChainFacts DEF StoredBelowFrontier, Of
    <3> QED
      BY <1>1, <3>1, <3>2, ConstantsAssumption
  <2>2. CASE from # NoTime
    BY <1>1, <2>2 DEF StartContract, Level
  <2> QED
    BY <2>1, <2>2
<1>3. \A d \in todo : frontier[d] = frontier[c]
  BY <1>1 DEF Level
<1>4. \A d \in Contracts : frontier[d] <= now /\ frontier[d] <= to'
  BY <1>1 DEF Level
<1>5. ASSUME NEW d \in Contracts, Finished(d)' PROVE frontier[d] = to'
  BY <1>1, <1>5 DEF Level, Finished, InWindows
<1>6. to' # NoTime
  BY <1>1, ConstantsAssumption
<1> QED
  BY <1>1, <1>2, <1>3, <1>4, <1>5, <1>6 DEF Level

\* Until a run dies, every step keeps the contracts level.
LEMMA LevelStep == IInv /\ LossInv /\ LevelInv /\ [Next]_vars => LevelInv'
<1> SUFFICES ASSUME IInv, LossInv, LevelInv, [Next]_vars, crashes' = 0 PROVE Level'
  BY DEF LevelInv
<1>0. /\ now \in Times /\ frontier \in [Contracts -> Times \cup {NoTime}]
      /\ crashes \in Nat /\ pc \in PCs /\ to \in Times \cup {NoTime} /\ to <= now
      /\ todo \subseteq Contracts
  BY ConstantsAssumption DEF IInv, TypeOK, LossInv
<1>00. Level
  BY <1>0 DEF LevelInv, Next, Run, Tick, StartContract, QuerySucceeds, QueryFails, GiveUp, Save,
     FinishContract, ClearCache, Crash, ClockTicks, IndexerCatchesUp, vars
<1>1. CASE Tick
  BY <1>0, <1>00, <1>1 DEF Tick, ghosts, IInv, LocalsOK, Level, Finished, InWindows
<1>2. ASSUME NEW c \in Contracts, StartContract(c) PROVE Level'
  BY <1>00, <1>2, LevelStart
<1>3. CASE QuerySucceeds
  <2>1. CASE batch' = {}
    BY <1>0, <1>00, <1>3, <2>1, LevelAdvance DEF QuerySucceeds, InWindows
  <2>2. CASE batch' # {}
    BY <1>00, <1>3, <2>2 DEF QuerySucceeds, Level, Finished, InWindows
  <2> QED
    BY <2>1, <2>2
<1>4. CASE QueryFails
  BY <1>00, <1>4 DEF QueryFails, ghosts, Level, Finished, InWindows
<1>5. CASE GiveUp
  BY <1>0, <1>00, <1>5, LevelAdvance DEF GiveUp, InWindows
<1>6. CASE Save
  BY <1>0, <1>00, <1>6, LevelAdvance DEF Save, InWindows
<1>7. CASE FinishContract
  BY <1>0, <1>00, <1>7, ConstantsAssumption
  DEF FinishContract, local, ghosts, Level, Finished, InWindows, IInv, LocalsOK
<1>8. CASE ClearCache
  <2>1. \A c \in Contracts : frontier[c] = to
    BY <1>00, <1>8 DEF ClearCache, Level, Finished, InWindows
  <2> QED
    BY <1>0, <1>00, <1>8, <2>1 DEF ClearCache, LocalsGone, ghosts, Level, Finished, InWindows
<1>9. CASE Crash
  BY <1>0, <1>9 DEF Crash
<1>10. CASE ClockTicks
  <2>1. /\ now' = now + 1
        /\ UNCHANGED <<pc, todo, cur, from, to, lo, frontier>>
    BY <1>10 DEF ClockTicks, local, ghosts
  <2>2. \A c \in Contracts : frontier[c] <= now'
    BY <1>0, <1>00, <2>1, ConstantsAssumption DEF Level
  <2> QED
    BY <1>00, <2>1, <2>2 DEF Level, Finished, InWindows
<1>11. CASE IndexerCatchesUp
  BY <1>00, <1>11 DEF IndexerCatchesUp, local, ghosts, Level, Finished, InWindows
<1>12. CASE UNCHANGED vars
  BY <1>00, <1>12 DEF vars, local, ghosts, Level, Finished, InWindows
<1> QED
  BY <1>1, <1>2, <1>3, <1>4, <1>5, <1>6, <1>7, <1>8, <1>9, <1>10, <1>11, <1>12
  DEF Next, Run

\* In a good environment no window is completed without the rows it asked for,
\* and only a resume point inherited after a crash passes over an action.
LEMMA LossStep ==
    ASSUME GoodEnvironment
    PROVE  IInv /\ LossInv /\ LevelInv /\ [Next]_vars => LossInv'
<1> SUFFICES ASSUME IInv, LossInv, LevelInv, [Next]_vars PROVE LossInv'
  OBVIOUS
<1> USE DEF LossInv, Behind
<1>0. now \in Times /\ head \in Times /\ pc \in PCs /\ crashes \in Nat
      /\ to \in Times \cup {NoTime} /\ from \in Times \cup {NoTime}
  BY ConstantsAssumption DEF IInv, TypeOK
<1>1. CASE Tick
  BY <1>0, <1>1, ConstantsAssumption DEF Tick, ghosts
<1>2. ASSUME NEW c \in Contracts, StartContract(c) PROVE LossInv'
  <2>1. /\ to' = (IF to = NoTime THEN now ELSE to)
        /\ UNCHANGED <<chain, now, head, stored, crashes, frontier>>
        /\ passedOver' = passedOver \cup
             {a \in Of(c) : frontier[c] < chain[a].incl /\ chain[a].incl < lo'}
        /\ lo' = (IF from' = NoTime THEN FirstBlock ELSE from')
    BY <1>2 DEF StartContract
  <2>2. from' = NoTime \/ \E b \in stored : chain[b].tx = from'
    BY <1>2, LastTransactionFacts DEF StartContract, IInv
  <2>3. ASSUME NEW a \in Of(c), frontier[c] < chain[a].incl, chain[a].incl < lo'
        PROVE  crashes > 0 /\ Behind(a)
    <3>1. a \in Actions /\ chain[a].incl \in Times /\ chain[a].contract = c
          /\ frontier[c] \in Times \cup {NoTime}
      BY ChainFacts DEF IInv, TypeOK, Of
    <3>2. lo' # FirstBlock /\ from' # NoTime /\ lo' = from'
      BY <2>1, <2>3, <3>1, ConstantsAssumption
    <3>3. PICK b \in stored : chain[b].tx = lo'
      BY <2>2, <3>2
    <3>4. /\ chain[b].tx <= chain[b].incl /\ chain[b].tx \in Times /\ chain[b].incl \in Times
          /\ chain[b].incl <= frontier[chain[b].contract]
      BY ChainFacts DEF IInv, TypeOK, StoredBelowFrontier
    <3>5. chain[b].contract # c
      BY <2>3, <3>1, <3>3, <3>4, ConstantsAssumption
    <3>6. crashes # 0
      <4> SUFFICES ASSUME crashes = 0 PROVE FALSE
        OBVIOUS
      <4>1. lo' = FirstBlock \/ lo' <= frontier[c]
        BY <1>2, LevelStart DEF LevelInv
      <4> QED
        BY <2>3, <3>1, <3>2, <3>3, <3>4, <4>1, ConstantsAssumption
    <3> QED
      BY <1>0, <2>3, <3>1, <3>3, <3>5, <3>6
  <2>4. \A a \in passedOver' : crashes' > 0 /\ Behind(a)'
    BY <2>1, <2>3
  <2>5. to' <= now'
    BY <1>0, <2>1, ConstantsAssumption
  <2> QED
    BY <2>1, <2>2, <2>4, <2>5
<1>3. CASE QuerySucceeds
  <2>1. Window \subseteq Visible
    <3> SUFFICES ASSUME NEW a \in Window PROVE chain[a].incl <= head
      BY DEF Window, Visible, Of
    <3>1. a \in Actions /\ chain[a].incl \in Times /\ chain[a].incl <= WindowEnd
      BY ChainFacts DEF IInv, TypeOK, Window, Of
    <3>2. WindowEnd \in Times /\ to \in Times /\ WindowEnd <= to /\ to <= head
      BY <1>3, WindowEndFacts DEF QuerySucceeds, IInv, LocalsOK
    <3> QED
      BY <1>0, <3>1, <3>2, ConstantsAssumption
  <2> QED
    BY <1>3, <2>1 DEF QuerySucceeds
<1>4. CASE QueryFails
  BY <1>4 DEF QueryFails, ghosts
<1>5. CASE GiveUp
  BY <1>5, ConstantsAssumption DEF GiveUp, GoodEnvironment, IInv, TypeOK
<1>6. CASE Save
  <2>1. stored \subseteq stored' /\ UNCHANGED <<chain, now, head, to, from, passedOver, crashes>>
    BY <1>6 DEF Save
  <2> QED
    BY <2>1
<1>7. CASE FinishContract
  BY <1>7 DEF FinishContract, local, ghosts
<1>8. CASE ClearCache
  BY <1>0, <1>8, ConstantsAssumption DEF ClearCache, LocalsGone, ghosts
<1>9. CASE Crash
  BY <1>0, <1>9, ConstantsAssumption DEF Crash, LocalsGone, ghosts
<1>10. CASE ClockTicks
  <2>1. now' = now + 1 /\ head' \in head .. now' /\ now' - head' <= 0
        /\ UNCHANGED <<chain, stored, from, to, crashes, passedOver>>
    BY <1>10 DEF ClockTicks, GoodEnvironment, local, ghosts
  <2>2. now' \in Int /\ head' \in Int /\ head' <= now' /\ to \in Int
    BY <1>0, <2>1, ConstantsAssumption
  <2>3. head' = now'
    BY <2>1, <2>2
  <2>4. to' <= now'
    <3>1. now \in Int /\ to <= now /\ to' = to
      BY <1>0, <2>1, ConstantsAssumption
    <3> QED
      BY <2>1, <2>2, <3>1
  <2> QED
    BY <2>1, <2>3, <2>4
<1>11. CASE IndexerCatchesUp
  BY <1>0, <1>11, ConstantsAssumption DEF IndexerCatchesUp
<1>12. CASE UNCHANGED vars
  BY <1>12 DEF vars, local, ghosts
<1> QED
  BY <1>1, <1>2, <1>3, <1>4, <1>5, <1>6, <1>7, <1>8, <1>9, <1>10, <1>11, <1>12
  DEF Next, Run

\* The indexer starts level with the clock, the contracts with each other,
\* and nothing is passed over.
LEMMA LossInit == Init => LossInv /\ LevelInv
  BY ConstantsAssumption DEF Init, LossInv, LevelInv, Level, Finished, InWindows

\* With an indexer that is not behind, and at most as many failures in a row
\* as there are retries, an action of any contract is lost only behind a
\* stored one of another contract, after a crash.
THEOREM NoLoss ==
    ASSUME GoodEnvironment PROVE Spec => []LostOnlyBehindAnother
<1>1. Init => IInv /\ LossInv /\ LevelInv
  BY IInvInit, LossInit
<1>2. IInv /\ LossInv /\ LevelInv /\ [Next]_vars => (IInv /\ LossInv /\ LevelInv)'
  BY IInvStep, LossStep, LevelStep
<1>3. IInv /\ LossInv => LostOnlyBehindAnother
  BY DEF IInv, FrontierCovers, Covered, LossInv, Behind, LostOnlyBehindAnother
<1> QED
  BY <1>1, <1>2, <1>3, PTL DEF Spec

\* One contract has no other to be behind: with one contract nothing is lost.
COROLLARY NoLossOfOne ==
    ASSUME GoodEnvironment, OneContract
    PROVE  Spec => [](\A a \in Actions : chain[a].incl <= frontier[chain[a].contract] => a \in stored)
<1>1. TypeOK /\ LostOnlyBehindAnother
      => \A a \in Actions : chain[a].incl <= frontier[chain[a].contract] => a \in stored
  BY ChainFacts DEF LostOnlyBehindAnother, OneContract, TypeOK
<1> QED
  BY <1>1, TypeCorrect, NoLoss, PTL

============================================================================
