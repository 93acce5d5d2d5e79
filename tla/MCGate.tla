------------------------------- MODULE MCGate -------------------------------
(***************************************************************************)
(* TLC instances of Gate.  One won pair crosses the upper bound, two lost  *)
(* ones the lower; a straggler of the other kind pulls the score back      *)
(* inside, and pairs that alternate leave the match without a verdict.     *)
(***************************************************************************)
EXTENDS Gate

Won  == [wins |-> 2, losses |-> 0, draws |-> 0]
Lost == [wins |-> 0, losses |-> 2, draws |-> 0]
TwoOutcomes == {Won, Lost}

Lead(t)   == t.wins - t.losses
MinusFour == -4
=============================================================================
