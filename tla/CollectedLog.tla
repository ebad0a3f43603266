---------------------------- MODULE CollectedLog ----------------------------
(***************************************************************************)
(* What the receipt log promises its readers, without runs, windows,       *)
(* retries, crashes or resume points.                                      *)
(*                                                                         *)
(* Per contract there is a point in time up to which collection is done:   *)
(* every action of the chain up to there is in the log or is lost.  The    *)
(* point only moves forward, the log only grows, and it grows at its end.  *)
(* An action that was lost may still be found.                             *)
(***************************************************************************)
EXTENDS Integers

CONSTANTS Contracts, Actions, Times, NoTime

VARIABLES
    chain,  \* contract, tx and incl (times) of every action
    log,    \* actions collected
    lost,   \* actions that were due and are not in the log
    done    \* per contract, the time up to which collection is done

vars == <<chain, log, lost, done>>

Init ==
    /\ log = {} /\ lost = {}
    /\ done = [c \in Contracts |-> NoTime]

\* Collection of c is done up to w.  What it adds to the log was not included
\* before a transaction of the contract that the log has already.
Complete(c, w) ==
    /\ done' = [done EXCEPT ![c] = IF @ < w THEN w ELSE @]
    /\ log \subseteq log'
    /\ \A a \in log' \ log :
          /\ chain[a].contract = c /\ chain[a].incl <= w
          /\ \A b \in log : chain[b].contract = c => chain[b].tx <= chain[a].incl
    /\ lost \ log' \subseteq lost'
    /\ lost' \cap log' = {}
    /\ \A a \in Actions :
          chain[a].contract = c /\ chain[a].incl <= done'[c] => a \in log' \cup lost'
    /\ UNCHANGED chain

\* Actions are found missing before the collection that misses them is done.
Overlook ==
    /\ lost \subseteq lost' /\ lost' \subseteq Actions \ log
    /\ UNCHANGED <<chain, log, done>>

Next == (\E c \in Contracts, w \in Times : Complete(c, w)) \/ Overlook

Spec == Init /\ [][Next]_vars

=============================================================================
