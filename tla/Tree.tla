-------------------------------- MODULE Tree --------------------------------
(***************************************************************************)
(* The search of internal/search (negamax.go; searchRoot and iterate of    *)
(* search.go; Probe, Store and the mate scores of tt.go) over a small      *)
(* graph of positions instead of chess: alpha-beta with a null window and  *)
(* re-search, mate distance pruning, reverse futility, the null move, late *)
(* move reductions, quiescence, aspiration windows and a table that keeps  *)
(* what earlier iterations, abandoned ones, helper threads and earlier     *)
(* searches of the game found.                                             *)
(*                                                                         *)
(* A position is a number, and a move is the position it leads to.  No     *)
(* position comes up twice on a path, so repetition and the fifty-move     *)
(* rule do not arise.  A table slot is a position (TT.tla has the slots),  *)
(* and a move the table suggests is tried first, the others in a fixed     *)
(* order (ordering.go: which order it is must not matter).                 *)
(***************************************************************************)
EXTENDS Integers, SequencesExt

CONSTANTS
    Graphs,        \* positions and moves: see GraphsOK
    Positions,
    MaxDepth,      \* bound: iterations of a search
    Limits,        \* node counts at which a search is told to stop
    MaxSearches,   \* bound: searches of one game
    MaxHelps,      \* bound: iterations of helper threads that matter
    Ahead          \* how far they are ahead

NoMove == 0
MaxPly == 2 * MaxDepth + 4

\* moves: legal moves in base order; captures: those quiescence looks at;
\* checks, dead: positions in check, and drawn whatever is played; null: the
\* position after passing, or NoMove where passing is not tried.
ASSUME GraphsOK ==
    \A g \in Graphs :
        /\ g.moves \in [Positions -> Seq(Positions)]
        /\ g.captures \in [Positions -> SUBSET Positions]
        /\ g.checks \subseteq Positions /\ g.dead \subseteq Positions
        /\ g.eval \in [Positions -> Int]
        /\ g.null \in [Positions -> Positions \cup {NoMove}]

VARIABLES
    graph, table,
    root, depth,     \* the search: its position and the iterations completed
    score, pv,       \* and what the last of them reported
    over,            \* it was told to stop
    searches, helps

vars == <<graph, table, root, depth, score, pv, over, searches, helps>>

-----------------------------------------------------------------------------
(* eval.go: scores. *)

Infinite == 32000
MateScore == 31000
MaxMateDepth == 256
DrawScore == 0

Abs(x) == IF x < 0 THEN -x ELSE x
IsMateScore(s) == Abs(s) > MateScore - MaxMateDepth
Larger(a, b) == IF a > b THEN a ELSE b
Smaller(a, b) == IF a < b THEN a ELSE b

-----------------------------------------------------------------------------
(* tt.go. *)

NoEntry == [move |-> NoMove, score |-> 0, depth |-> 0, bound |-> "none"]

\* adjustMateScoreToTT: from the root's distance to the node's.
ScoreToTT(s, ply) ==
    CASE s >= MateScore - MaxMateDepth -> s + ply
      [] s <= -(MateScore - MaxMateDepth) -> s - ply
      [] OTHER -> s

\* Mutant: the node's distance is taken for the root's.
ScoreAsStored(s, ply) == s

\* adjustMateScoreFromTT.
ScoreFromTT(s, ply) ==
    CASE s >= MateScore - MaxMateDepth -> s - ply
      [] s <= -(MateScore - MaxMateDepth) -> s + ply
      [] OTHER -> s

Probe(tt, n, d, ply, alpha, beta) ==
    LET e == tt[n]
        s == ScoreFromTT(e.score, ply)
    IN  [move |-> e.move, score |-> s,
         usable |-> /\ e.bound # "none" /\ e.depth >= d
                    /\ \/ e.bound = "exact"
                       \/ e.bound = "lower" /\ s >= beta
                       \/ e.bound = "upper" /\ s <= alpha]

\* A deeper exact entry of the position stays.
Store(tt, n, m, s, d, ply, b) ==
    IF tt[n].bound = "exact" /\ tt[n].depth > d /\ b # "exact" THEN tt
    ELSE [tt EXCEPT ![n] = [move |-> m, score |-> ScoreToTT(s, ply), depth |-> d, bound |-> b]]

-----------------------------------------------------------------------------
(* The search state: the table, pv by ply, the nodes counted, the count at *)
(* which the search is told to stop (0: none), and whether it noticed.     *)

Fresh(tt, limit) ==
    [tt |-> tt, pv |-> [p \in 0 .. MaxPly |-> <<>>], nodes |-> 0, limit |-> limit, aborted |-> FALSE]

\* What a call returns: its score, and the state it leaves.
Found(s, st) == [score |-> s, st |-> st]
Negated(r) == Found(-r.score, r.st)

CheckStop(st) ==
    IF st.limit > 0 /\ st.nodes >= st.limit THEN [st EXCEPT !.aborted = TRUE] ELSE st

\* Mutant: the score of a child that was abandoned is used.
NeverAborted(st) == FALSE

\* The test after every child.
Aborted(st) == st.aborted

UpdatePV(st, m, ply) == [st EXCEPT !.pv[ply] = <<m>> \o st.pv[ply + 1]]

Ordered(n, ttMove) ==
    LET ms == graph.moves[n] IN
    IF Contains(ms, ttMove) THEN <<ttMove>> \o SelectSeq(ms, LAMBDA m : m # ttMove) ELSE ms

InCheck(n) == n \in graph.checks
Mated(ply) == -MateScore + ply

-----------------------------------------------------------------------------
(* quiescence. *)

\* Every capture wins a pawn.
CaptureValue == 100
DeltaMargin == 200

\* GenerateCaptures: every evasion when in check.
Forcing(n) ==
    IF InCheck(n) THEN graph.moves[n]
    ELSE SelectSeq(graph.moves[n], LAMBDA m : m \in graph.captures[n])

HopelessCapture(n, best, alpha) ==
    ~InCheck(n) /\ ~IsMateScore(alpha) /\ best + CaptureValue + DeltaMargin < alpha

RECURSIVE Quiescence(_, _, _, _, _), Captures(_, _, _, _, _, _, _)

Captures(st, n, alpha, beta, ply, best, todo) ==
    IF todo = <<>> THEN Found(best, st)
    ELSE IF HopelessCapture(n, best, alpha)
    THEN Captures(st, n, alpha, beta, ply, best, Tail(todo))
    ELSE LET r == Negated(Quiescence(st, Head(todo), -beta, -alpha, ply + 1))
             better == Larger(best, r.score)
             raised == Larger(alpha, better)
         IN  IF Aborted(r.st) THEN Found(0, r.st)
             ELSE IF raised >= beta /\ r.score > alpha THEN Found(better, r.st)
             ELSE Captures(r.st, n, raised, beta, ply, better, Tail(todo))

Quiescence(st0, n, alpha, beta, ply) ==
    LET st == CheckStop([st0 EXCEPT !.nodes = @ + 1])
        stand == IF InCheck(n) THEN -Infinite ELSE graph.eval[n]
    IN  IF st.aborted THEN Found(0, st)
        ELSE IF n \in graph.dead THEN Found(DrawScore, st)
        ELSE IF stand >= beta THEN Found(stand, st)
        ELSE IF InCheck(n) /\ Forcing(n) = <<>> THEN Found(Mated(ply), st)
        ELSE Captures(st, n, Larger(alpha, stand), beta, ply, stand, Forcing(n))

-----------------------------------------------------------------------------
(* negamax. *)

\* Mutant: on the principal variation too.
TableCutsEverywhere(hit, onPV, ply) == hit.usable /\ ply > 0

\* A cut-off by the table would lose the line behind the score.
TableCuts(hit, onPV, ply) == hit.usable /\ ~onPV /\ ply > 0

ReverseFutile(d, static, beta) == d <= 6 /\ static - 120 * d >= beta /\ ~IsMateScore(beta)

TriesNull(n, d, static, beta, allowNull) ==
    allowNull /\ d >= 3 /\ static >= beta /\ graph.null[n] # NoMove

\* The late move reduction of the move that i others went before.
Reduction(n, m, d, i, onPV) ==
    IF d >= 3 /\ m \notin graph.captures[n] /\ ~InCheck(n) /\ i >= 4
    THEN Smaller(Larger(1 + i \div 12 - (IF onPV THEN 1 ELSE 0), 0), d - 2)
    ELSE 0

RECURSIVE Negamax(_, _, _, _, _, _, _), Moves(_, _, _, _, _, _, _, _, _, _, _)

\* One move: the full window for the first, and for the others a null window
\* first, at reduced depth, then at full depth, then the full window.
Child(st, n, m, i, alpha, beta, d, ply, onPV) ==
    LET Full(s) == Negated(Negamax(s, m, -beta, -alpha, d - 1, ply + 1, TRUE))
        Null(s, r) == Negated(Negamax(s, m, -alpha - 1, -alpha, d - 1 - r, ply + 1, TRUE))
        reduction == Reduction(n, m, d, i, onPV)
        scout == Null(st, reduction)
        again == IF scout.score > alpha /\ reduction > 0 THEN Null(scout.st, 0) ELSE scout
    IN  IF i = 0 THEN Full(st)
        ELSE IF again.score > alpha /\ again.score < beta THEN Full(again.st)
        ELSE again

\* The moves still to be searched, and the best, the best move and the bound so far.
Moves(st, n, i, todo, alpha, beta, d, ply, onPV, best, kind) ==
    IF todo = <<>>
    THEN Found(best.score, [st EXCEPT !.tt = Store(@, n, best.move, best.score, d, ply, kind)])
    ELSE LET m == Head(todo)
             r == Child(st, n, m, i, alpha, beta, d, ply, onPV)
             now == IF r.score > best.score THEN [score |-> r.score, move |-> m] ELSE best
             raises == r.score > best.score /\ r.score > alpha
         IN  IF Aborted(r.st) THEN Found(0, r.st)
             ELSE IF ~raises
             THEN Moves(r.st, n, i + 1, Tail(todo), alpha, beta, d, ply, onPV, now, kind)
             ELSE LET cut == r.score >= beta IN
                  Moves(UpdatePV(r.st, m, ply), n, i + 1, IF cut THEN <<>> ELSE Tail(todo),
                        r.score, beta, d, ply, onPV, now, IF cut THEN "lower" ELSE "exact")

Expand(st, n, alpha, beta, d, ply, onPV, ttMove) ==
    IF graph.moves[n] = <<>>
    THEN Found(IF InCheck(n) THEN Mated(ply) ELSE DrawScore, st)
    ELSE Moves(st, n, 0, Ordered(n, ttMove), alpha, beta, d, ply, onPV,
               [score |-> -Infinite, move |-> NoMove], "upper")

\* Past the table: what may be cut without looking at the moves.
Node(st, n, alpha, beta, d, ply, onPV, allowNull, ttMove) ==
    LET static == graph.eval[n]
        prunes == ~onPV /\ ~InCheck(n) /\ ply > 0
        passed == Negated(Negamax(st, graph.null[n], -beta, -beta + 1, d - (3 + d \div 6), ply + 1, FALSE))
    IN  IF prunes /\ ReverseFutile(d, static, beta) THEN Found(static, st)
        ELSE IF ~(prunes /\ TriesNull(n, d, static, beta, allowNull))
        THEN Expand(st, n, alpha, beta, d, ply, onPV, ttMove)
        ELSE IF Aborted(passed.st) THEN Found(0, passed.st)
        ELSE IF passed.score >= beta /\ ~IsMateScore(passed.score) THEN passed
        ELSE Expand(passed.st, n, alpha, beta, d, ply, onPV, ttMove)

Negamax(st0, n, alpha0, beta0, d, ply, allowNull) ==
    LET entered == CheckStop([st0 EXCEPT !.pv[ply] = <<>>])
        st == [entered EXCEPT !.nodes = @ + 1]
        alpha == IF ply = 0 THEN alpha0 ELSE Larger(alpha0, -MateScore + ply)
        beta == IF ply = 0 THEN beta0 ELSE Smaller(beta0, MateScore - ply - 1)
        onPV == beta0 - alpha0 > 1
        hit == Probe(st.tt, n, d, ply, alpha, beta)
    IN  IF entered.aborted THEN Found(0, entered)
        ELSE IF d <= 0 THEN Quiescence(entered, n, alpha0, beta0, ply)
        ELSE IF ply > 0 /\ n \in graph.dead THEN Found(DrawScore, st)
        ELSE IF alpha >= beta THEN Found(alpha, st)
        ELSE IF TableCuts(hit, onPV, ply) THEN Found(hit.score, st)
        ELSE Node(st, n, alpha, beta, d, ply, onPV, allowNull, hit.move)

-----------------------------------------------------------------------------
(* searchRoot: widen until the score is inside the window. *)

\* Integer division truncates.
Half(x) == IF x < 0 THEN -((-x) \div 2) ELSE x \div 2

RECURSIVE Aspire(_, _, _, _, _), Widen(_, _, _, _, _)
Aspire(st, d, alpha, beta, window) ==
    Widen(Negamax(st, root, alpha, beta, d, 0, TRUE), d, alpha, beta, window)

Widen(r, d, alpha, beta, window) ==
    LET twice == 2 * window
        low  == IF r.score <= alpha THEN alpha - window ELSE alpha
        high == IF r.score <= alpha THEN Half(alpha + beta) ELSE beta + window
    IN  IF r.st.aborted \/ (alpha < r.score /\ r.score < beta) THEN r
        ELSE IF twice > 1000 THEN Aspire(r.st, d, -Infinite, Infinite, twice)
        ELSE Aspire(r.st, d, low, high, twice)

SearchRoot(limit, d) ==
    IF d >= 4 /\ ~IsMateScore(score)
    THEN Aspire(Fresh(table, limit), d, score - 25, score + 25, 25)
    ELSE Aspire(Fresh(table, limit), d, -Infinite, Infinite, 25)

-----------------------------------------------------------------------------
Start(n) == root' = n /\ depth' = 0 /\ score' = 0 /\ pv' = <<>> /\ over' = FALSE

Init ==
    /\ graph \in Graphs
    /\ table = [n \in Positions |-> NoEntry]
    /\ root = 1 /\ depth = 0 /\ score = 0 /\ pv = <<>> /\ over = FALSE
    /\ searches = 1 /\ helps = 0

\* iterate: one iteration, reported.  Only an infinite search goes on from a mate.
Iterate ==
    /\ ~over /\ depth < MaxDepth
    /\ LET r == SearchRoot(0, depth + 1) IN
        table' = r.st.tt /\ score' = r.score /\ pv' = r.st.pv[0]
    /\ depth' = depth + 1
    /\ UNCHANGED <<graph, root, over, searches, helps>>

\* One that the stop catches: the previous iteration's result stands, and the
\* table keeps the nodes that were finished.
Abandon(limit) ==
    /\ ~over /\ depth < MaxDepth
    /\ LET r == SearchRoot(limit, depth + 1) IN r.st.aborted /\ table' = r.st.tt
    /\ over' = TRUE
    /\ UNCHANGED <<graph, root, depth, score, pv, searches, helps>>

\* A helper thread is a ply or two ahead and leaves its entries behind; the score
\* it centres its window on is taken to be the main thread's.
Help(ahead) ==
    /\ ~over /\ helps < MaxHelps /\ helps' = helps + 1
    /\ depth + ahead <= MaxDepth
    /\ table' = SearchRoot(0, depth + ahead).st.tt
    /\ UNCHANGED <<graph, root, depth, score, pv, over, searches>>

\* The next search keeps the table: of the position again, or after our move and
\* a reply.
NextSearch ==
    /\ depth > 0 \/ over
    /\ searches < MaxSearches /\ searches' = searches + 1
    /\ \/ Start(root)
       \/ \E m \in ToSet(graph.moves[root]) : \E n \in ToSet(graph.moves[m]) :
            /\ pv # <<>> => m = pv[1]
            /\ graph.moves[n] # <<>> /\ m \notin graph.dead /\ n \notin graph.dead
            /\ Start(n)
    /\ UNCHANGED <<graph, table, helps>>

Next ==
    \/ Iterate \/ NextSearch
    \/ \E l \in Limits : Abandon(l)
    \/ \E a \in Ahead : Help(a)

Spec == Init /\ [][Next]_vars
=============================================================================
