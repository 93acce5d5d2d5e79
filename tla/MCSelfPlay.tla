----------------------------- MODULE MCSelfPlay -----------------------------
(* TLC instances of SelfPlay. *)
EXTENDS SelfPlay, TLC

\* Unit 1 is empty, the others yield one position.
YieldBarOne == [u \in Index |-> IF u = 1 THEN 0 ELSE 1]
=============================================================================
