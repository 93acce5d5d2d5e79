--------------------------- MODULE MCCoordinator ---------------------------
(***************************************************************************)
(* The TLC instance of Coordinator: what each unit yields.                 *)
(***************************************************************************)
EXTENDS Coordinator

\* Unit 1 is empty; no single unit reaches a target of 3.
YieldOfFour == [u \in Index |-> IF u = 1 THEN 0 ELSE 2]
=============================================================================
