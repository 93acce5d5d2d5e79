------------------------------- MODULE MCTree -------------------------------
(***************************************************************************)
(* TLC instances of Tree: a graph of eleven positions with transpositions  *)
(* at different distances from the root, and two lines of positions whose  *)
(* evaluation never changes, for what lies beyond it.                      *)
(***************************************************************************)
EXTENDS Tree

Inner == 1 .. 16
\* Lines whose outcome is settled: positions that stay good or bad for us, and
\* a mate k moves away, given by us or to us.
Good(k) == 20 + k
Bad(k) == 40 + k
WeMate(k) == 60 + k
TheyMate(k) == 70 + k
Lines == 20 .. 79
AllPositions == Inner \cup Lines

\* Positions with us to move, the side to move at the start.
Ours == {1, 4, 5, 6, 10, 11, 12, 13, 14, 16}
    \cup {n \in 20 .. 59 : n % 2 = 0} \cup {n \in 60 .. 69 : n % 2 = 1} \cup {n \in 70 .. 79 : n % 2 = 0}

Along(n) == CASE n \in 20 .. 38 \cup 40 .. 58 -> <<n + 1>>
              [] n \in {39, 59, WeMate(0), TheyMate(0)} -> <<>>
              [] n \in 61 .. 69 \cup 71 .. 79 -> <<n - 1>>

Settled == 20 .. 59

\* The replies to be chosen: of 3, of 4, 5 and 16 (ours), and of 8.
Graph(m3, m4, m5, m16, m8, rough) ==
    LET moves == [n \in AllPositions |->
            CASE n = 1 -> <<2, 3>>
              [] n = 2 -> <<4, 5>>
              [] n = 3 -> IF rough THEN <<12, 13, 14>> \o Reverse(m3) ELSE m3
              [] n = 4 -> m4 [] n = 5 -> m5 [] n = 16 -> m16 [] n = 8 -> m8
              [] n = 6 -> <<9>>
              [] n = 7 -> <<11>>
              [] n = 9 -> <<4>>
              [] n \in {10, 15} -> <<>>
              [] n = 11 -> <<15>>
              [] n \in {12, 13, 14} -> <<Good(1)>>
              [] n \in Lines -> Along(n)]
        white == [n \in AllPositions |->
            CASE n \in 20 .. 39 -> 40
              [] n \in 40 .. 59 -> -40
              [] rough /\ n \in 70 .. 79 -> 45
              [] rough /\ n \in {2, 3, 4, 7, 8, 9} -> 500
              [] OTHER -> 0]
    IN [moves |-> moves,
        captures |-> [n \in AllPositions |-> CASE n = 8 -> {10} [] n = 4 -> {7} [] n = 7 -> {11} [] OTHER -> {}],
        checks |-> {6, 15, WeMate(0), TheyMate(0)},
        dead |-> {},
        eval |-> [n \in AllPositions |-> IF n \in Ours THEN white[n] ELSE -white[n]],
        null |-> [n \in AllPositions |->
            IF ~rough THEN NoMove
            ELSE CASE n = 3 -> 4 [] n = 2 -> 6 [] n = 4 -> 9 [] n = 5 -> 9 [] n = 8 -> 11 [] OTHER -> NoMove]]

\* Nothing is pruned on a guess.
Calm(g) == \A n \in Inner : Abs(g.eval[n]) <= 40 /\ g.null[n] = NoMove /\ Len(g.moves[n]) < 5

\* Choices for positions the others leave out would repeat graphs.
SomeGraphs ==
    {Graph(m3, m4, m5, m16, m8, rough) :
        m3 \in {<<5, 6>>}, m16 \in {<<WeMate(2)>>},
        m4 \in {<<7, 8>>, <<WeMate(2)>>, <<TheyMate(3)>>}, m5 \in {<<8>>, <<Bad(1)>>},
        m8 \in {<<10, 11>>, <<TheyMate(2)>>}, rough \in BOOLEAN}
    \cup
    {Graph(m3, m4, m5, m16, m8, rough) :
        m3 \in {<<16, 6>>, <<16>>}, m16 \in {<<WeMate(2)>>, <<TheyMate(1)>>},
        m4 \in {<<7, 8>>, <<WeMate(2)>>, <<TheyMate(3)>>}, m5 \in {<<8>>, <<Bad(1)>>},
        m8 \in {<<10, 11>>}, rough \in BOOLEAN}

-----------------------------------------------------------------------------
(* The value of a position, by the definition alone. *)

\* A mate is a move further away from the position before.
Earlier(v) == IF v > MateScore - MaxMateDepth THEN v - 1
              ELSE IF v < -(MateScore - MaxMateDepth) THEN v + 1 ELSE v

Best(S) == CHOOSE v \in S : \A w \in S : w <= v

RECURSIVE Value(_)
Value(n) ==
    IF n \in Settled THEN graph.eval[n]
    ELSE IF n \in graph.dead THEN DrawScore
    ELSE IF graph.moves[n] = <<>> THEN (IF InCheck(n) THEN -MateScore ELSE DrawScore)
    ELSE Best({Earlier(-Value(m)) : m \in ToSet(graph.moves[n])})

\* How many moves a line can have before its value is settled.
RECURSIVE Height(_)
Height(n) ==
    IF n \in Settled \/ graph.moves[n] = <<>> THEN 0
    ELSE 1 + Best({Height(m) : m \in ToSet(graph.moves[n])})

\* Quiescence without windows.
RECURSIVE Quiet(_)
Quiet(n) ==
    IF n \in graph.dead THEN DrawScore
    ELSE IF InCheck(n) /\ Forcing(n) = <<>> THEN -MateScore
    ELSE Best({Earlier(-Quiet(m)) : m \in ToSet(Forcing(n))}
              \cup (IF InCheck(n) THEN {} ELSE {graph.eval[n]}))

RECURSIVE Away(_, _)
Away(v, k) == IF k = 0 THEN v ELSE Away(Earlier(-v), k - 1)
-----------------------------------------------------------------------------
(* Properties *)

Reported == depth > 0

\* A mate the search reports can be forced, within the distance reported, however
\* the table, the prunings and abandoned or helping threads came into it
\* (tt.go:241, search_test.go TestFindsForcedMate).
MatesSound ==
    Reported /\ IsMateScore(score) =>
        IF score > 0 THEN Value(root) >= score ELSE Value(root) <= score

\* Where nothing is pruned on a guess, an iteration deep enough to reach the end
\* of every line, or to a forced mate, reports the value of the position
\* (search.go:10, "the best one the evaluation and depth can justify").
ScoreExact ==
    LET v == Value(root)
        mateIn == MateScore - Abs(v)
    IN  Reported /\ Calm(graph) /\ (depth >= Height(root) \/ (IsMateScore(v) /\ depth >= mateIn))
            => score = v

\* The line reported is legal and ends where the score comes from: at the depth
\* searched, in the value of quiescence there, or at the end of the game
\* (negamax.go:93-95, search_test.go TestPrincipalVariationIsLegal).
LineLeads ==
    LET k == Len(pv)
        At(i) == IF i = 0 THEN root ELSE pv[i]
    IN  Reported =>
        /\ k > 0 /\ \A i \in 1 .. k : Contains(graph.moves[At(i - 1)], pv[i])
        /\ k <= depth
        /\ k < depth => graph.moves[At(k)] = <<>>
        /\ Calm(graph) => score = Away(IF k = depth THEN Quiet(At(k)) ELSE Value(At(k)), k)
=============================================================================
