-------------------------------- MODULE Line --------------------------------
(***************************************************************************)
(* A game and the line a search thread is looking at: chess.Position with  *)
(* its history, and the thread's evaluator, moved together by make,        *)
(* unmake, makeNull and unmakeNull of search/negamax.go.                   *)
(*                                                                         *)
(* The game is played from a FEN (uci position, self-play, a Lichess       *)
(* game); each of its positions may be the root of a search.  Alpha-beta   *)
(* decides which children of a node are visited, which is left open: any   *)
(* legal move, in any order, as often as it likes.  Quiescence makes a     *)
(* subset of these moves.                                                  *)
(***************************************************************************)
EXTENDS Rules, Laws, Sample, Incremental

CONSTANT Starts  \* FENs, each with bounds: plies of the game, plies of a line

\* A target on the mover's own back rank has no square behind it to look at; a clock
\* below zero, which ParseFEN takes too, would keep repetitions from being found.
ASSUME StartsAssumption ==
  \A start \in Starts :
    /\ start.fen \in FENs /\ start.fen.halfmove \in Nat
    /\ start.fen.epSquare # NoSquare => start.fen.epSquare - PawnPush(start.fen.side) \in Squares

\* A game starts from no FEN of two kinds that ParseFEN takes: one whose flags name two
\* rooks for one wing, as "HG" may (the right of the wing is then lost with either),
\* and one with a target on a back rank.  GeneratorExact is only claimed of the others.
OrdinaryStarts ==
  \A start \in Starts :
    LET fen == start.fen
        named == UNION {FlagMeans(Placed(fen), fen.castling[i]) : i \in DOMAIN fen.castling}
    IN  /\ \A f, g \in named : f.right = g.right => f.rook = g.rook
        /\ fen.epSquare # NoSquare => Rank(fen.epSquare) \notin {0, 7}

\* A training record names a castling rook by its wing and a target by its file, which
\* says where they are when castling rooks stand in corners and targets behind a double
\* push.  SampleRoundTrips is only claimed of starts where they do.
ClassicalStarts ==
  \A start \in Starts : Valid(start.fen) =>
    LET p == ParseFEN(start.fen)
    IN  /\ p.chess960 \/ \A r \in p.castling : File(p.castlingRook[r]) \in {0, 7}
        /\ p.epSquare # NoSquare => Rank(p.epSquare) = (IF p.side = White THEN 5 ELSE 2)

VARIABLES
  pos,            \* the position
  history,        \* its undo records, oldest first
  root,           \* how many of them are moves of the game
  line,           \* auxiliary: the position before each move of history
  bounds          \* auxiliary: the bounds of this start

vars == <<pos, history, root, line, bounds, accVars>>

Ply == Len(history) - root

Init ==
  \E start \in Starts :
    /\ Valid(start.fen)
    /\ pos = ParseFEN(start.fen)
    /\ history = <<>> /\ line = <<>> /\ root = 0
    /\ bounds = start.bounds
    /\ stack = <<Refresh(pos)>> /\ overflowDepth = 0

-----------------------------------------------------------------------------
\* MakeMove on the position, with what it records.
MakesMove(m) ==
  /\ pos' = MakeMove(pos, m)
  /\ history' = Append(history, Undo(pos, m))
  /\ line' = Append(line, pos)

\* A node other than the root is scored as a draw before anything is tried in it.
ScoredAsDraw ==
  Ply > 0 /\ (IsRepetition(pos, history) \/ IsFiftyMoveRule(pos) \/ IsDeadPosition(pos))

HasNonPawnMaterial ==
  \E pt \in {"knight", "bishop", "rook", "queen"} : PiecesOf(pos, pos.side, pt) # {}

\* The game goes on; the next search resets its evaluator at the new root.
Play ==
  /\ Ply = 0 /\ root < bounds.game
  /\ \E m \in GenerateLegalMoves(pos) : MakesMove(m)
  /\ root' = root + 1
  /\ stack' = <<Refresh(pos')>> /\ overflowDepth' = 0
  /\ UNCHANGED bounds

\* The evaluator is told first: the delta is read off the position before the move.
Make ==
  /\ ~ScoredAsDraw /\ Ply < bounds.line
  /\ \E m \in GenerateLegalMoves(pos) : Push(pos, m) /\ MakesMove(m)
  /\ UNCHANGED <<root, bounds>>

Unmake ==
  /\ Ply > 0 /\ Last(history).move # MoveNone
  /\ pos' = UnmakeMove(pos, Last(history))
  /\ history' = Front(history) /\ line' = Front(line)
  /\ Pop
  /\ UNCHANGED <<root, bounds>>

\* Never at the root, in check, twice in a row, or with king and pawns only.
MakeNull ==
  /\ Ply > 0 /\ ~ScoredAsDraw /\ Ply < bounds.line
  /\ ~InCheck(pos) /\ HasNonPawnMaterial
  /\ Last(history).move # MoveNone
  /\ pos' = MakeNullMove(pos)
  /\ history' = Append(history, NullUndo(pos))
  /\ line' = Append(line, pos)
  /\ PushNull
  /\ UNCHANGED <<root, bounds>>

UnmakeNull ==
  /\ Ply > 0 /\ Last(history).move = MoveNone
  /\ pos' = UnmakeNullMove(pos, Last(history))
  /\ history' = Front(history) /\ line' = Front(line)
  /\ Pop
  /\ UNCHANGED <<root, bounds>>

Next == Play \/ Make \/ Unmake \/ MakeNull \/ UnmakeNull
Spec == Init /\ [][Next]_vars

-----------------------------------------------------------------------------
(***************************************************************************)
(* Properties.                                                             *)
(***************************************************************************)
\* Whatever was tried below a node, unmaking gives back the very position that was
\* there: board, key, rights, target and both clocks (position.go, UnmakeMove).
UnmakeRestores ==
  [][Len(history') < Len(history) => pos' = Last(line)]_vars

\* The evaluator reads the accumulator of the position on the board, at every node of
\* a line, also past the stack's limit and on the way back from there (incremental.go).
EvaluationCurrent ==
  /\ Len(stack) \in 1..Cap
  /\ Read(pos) = Refresh(pos)

\* Neither king is ever taken.
KingsStand == \A c \in Colors : PiecesOf(pos, c, "king") # {}

\* The situation, as the laws of chess compare positions.
SituationOf(p) ==
  [board |-> p.board, side |-> p.side, ep |-> p.epSquare,
   rights |-> {[color |-> r[1], rook |-> p.castlingRook[r]] : r \in p.castling}]

\* The moves generated lead to exactly the situations the laws allow, none twice, with
\* the rights and the en passant target the laws give; no move takes a king; and
\* GenerateCaptures gives all moves in check and otherwise those that take or promote
\* (movegen.go).
GeneratorExact ==
  LET moves == GenerateLegalMoves(pos)
      results == {SituationOf(MakeMove(pos, m)) : m \in moves}
      Forcing(m) ==
        \/ m.kind = "promotion"
        \/ Cardinality(Occupied(MakeMove(pos, m))) < Cardinality(Occupied(pos))
  IN  /\ KingsStand
      /\ results = Successors(SituationOf(pos))
      /\ Cardinality(moves) = Cardinality(results)
      /\ GenerateCaptures(pos) = {m \in moves : InCheck(pos) \/ Forcing(m)}

\* Comparing keys back to the last irreversible move finds exactly the earlier
\* occurrences of the same situation, null moves of the search apart: a null move
\* hides what came before it (rules.go, RepetitionCount).
RepetitionExact ==
  LET afterNull == {i \in DOMAIN history :
                      \A j \in DOMAIN history : j >= i => history[j].move # MoveNone}
  IN  RepetitionCount(pos, history)
        = Cardinality({i \in afterNull : SituationOf(line[i]) = SituationOf(pos)})

\* A position found dead stays dead whatever is played, and is not mate: the search
\* scores it, and a game is ended, without looking further (rules.go).
DeadForever ==
  IsDeadPosition(pos) =>
    /\ Outcome(pos, history) # "checkmate"
    /\ \A m \in GenerateLegalMoves(pos) : IsDeadPosition(MakeMove(pos, m))

\* A training record gives back the position it was made from: pieces, side, rights,
\* target and key, all but the clocks, although it keeps only the target's file and four
\* bits of rights; and no position of a game is refused on the way back, so that the
\* trainer's reader takes all that a worker wrote (train/format.go).  The key of the
\* decoded position is computed from scratch, the one on the board was updated by moves.
SampleRoundTrips ==
  Encodable(pos) =>
    \E decoded \in DecodeSample(EncodeSample(pos)) :
      /\ SituationOf(decoded) = SituationOf(pos)
      /\ decoded.key = pos.key /\ Agrees(pos)
=============================================================================
