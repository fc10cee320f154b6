---------------------------- MODULE BoundedPool ----------------------------
(* What storage/pool.rs promises: at most Max callers have a connection, a  *)
(* caller has at most one, and gives it back.                               *)
EXTENDS Naturals, FiniteSets

CONSTANTS Threads, Max
VARIABLE lent  \* the callers that have a connection

Init == lent = {}

Lend(t) == /\ t \notin lent
           /\ Cardinality(lent) < Max
           /\ lent' = lent \union {t}

GiveBack(t) == /\ t \in lent
               /\ lent' = lent \ {t}

Next == \E t \in Threads : Lend(t) \/ GiveBack(t)
Spec == Init /\ [][Next]_lent
=============================================================================
