---------------------------- MODULE MCDashboard ----------------------------
(***************************************************************************)
(* TLC instances of Dashboard.                                             *)
(***************************************************************************)
EXTENDS Dashboard

TornLine == Rec("torn", 0, "no")

\* One request of every kind but the two that only scale the workers.
LoopRequests ==
    {<<"start", 0, "guarded">>, <<"stop", 0, "guarded">>, <<"train", 0, "guarded">>,
     <<"gate", 0, "guarded">>, <<"advance", 1, "guarded">>}

Asks(ops) == {r \in LoopRequests : r[1] \in ops}

\* The loop once round; everything before an advance, with stops; two gatekeepers that may
\* run at once.
LoopSessions ==
    {[asks |-> Asks({"start", "train", "gate", "advance"}), gates |-> 1],
     [asks |-> Asks({"start", "stop", "train", "gate"}), gates |-> 1],
     [asks |-> Asks({"train", "gate", "advance"}), gates |-> 2]}
=============================================================================
