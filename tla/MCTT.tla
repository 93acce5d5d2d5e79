-------------------------------- MODULE MCTT --------------------------------
(* The table on its own: one search after another, as in a long game. *)
EXTENDS TT

CONSTANT MaxSearches

\* The searches before this one have ended; this one's thread stores results.
Next ==
    \/ /\ \A t \in Threads : op[t] = Idle
       /\ gen < MaxSearches
       /\ NewSearch
    \/ \E t \in Threads :
          \/ \E k \in Keys, e \in Evaluators, d \in Depths, b \in Bounds :
                StartStore(t, k, e, d, b)
          \/ TableStep(t)

Spec == TableInit /\ [][Next]_tableVars

\* Store values a slot "by its depth, discounted heavily if it is from an older
\* search": an entry the current search is about to write is not discounted.
FreshNotDiscounted ==
    \A t \in Threads :
        op[t].pc = "write" => Value(op[t].new) = op[t].new.depth
=============================================================================
