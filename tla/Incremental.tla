---------------------------- MODULE Incremental ----------------------------
(***************************************************************************)
(* The incremental network evaluator, internal/nnue: one accumulator per   *)
(* ply, each made from the one before by the features that a move turns    *)
(* on and off.  A half of an accumulator is the sum of the rows of its     *)
(* features; it is modelled as how often each row is in the sum, which     *)
(* determines it whatever the weights are.                                 *)
(*                                                                         *)
(* stack[1..Len(stack)] are the slots 0..sp of the code; what lies above   *)
(* sp is never read.  Every thread calls Reset before it searches, so the  *)
(* flag valid is always true here.                                         *)
(***************************************************************************)
EXTENDS Position

CONSTANT Cap  \* slots of the stack, maxStack in the code

ASSUME CapAssumption == Cap \in Nat \ {0}

VARIABLES stack, overflowDepth

accVars == <<stack, overflowDepth>>

-----------------------------------------------------------------------------
\* Black sees the board turned around: ranks flipped, colors swapped.
FeatureIndex(perspective, pc, s) ==
  IF perspective = White THEN <<pc, s>>
  ELSE <<MakePiece(Opposite(Color(pc)), Type(pc)), MakeSquare(File(s), 7 - Rank(s))>>

\* Row f once more (n = 1) or once less (n = -1) in a sum; only rows that count are kept.
Weigh(half, f, n) ==
  LET count == n + (IF f \in DOMAIN half THEN half[f] ELSE 0)
  IN  IF count = 0 THEN [g \in DOMAIN half \ {f} |-> half[g]]
      ELSE [g \in DOMAIN half \cup {f} |-> IF g = f THEN count ELSE half[g]]

AddFeature(acc, pc, s) == [c \in Colors |-> Weigh(acc[c], FeatureIndex(c, pc, s), 1)]
RemoveFeature(acc, pc, s) == [c \in Colors |-> Weigh(acc[c], FeatureIndex(c, pc, s), -1)]
MoveFeature(acc, pc, from, to) == AddFeature(RemoveFeature(acc, pc, from), pc, to)

\* From scratch: no two squares have the same feature.
Refresh(p) ==
  [c \in Colors |->
     [f \in {FeatureIndex(c, p.board[s], s) : s \in Occupied(p)} |-> 1]]

\* The accumulator after m, from the position before it.
Delta(acc, p, m) ==
  LET us == p.side
      pc == p.board[m.from]
      taken == IF p.board[m.to] = NoPiece THEN acc ELSE RemoveFeature(acc, p.board[m.to], m.to)
  IN  CASE m.kind = "castling" ->
             LET r == CastlingRight(us, m)
                 lifted == RemoveFeature(RemoveFeature(acc, pc, m.from), p.board[m.to], m.to)
             IN  AddFeature(AddFeature(lifted, pc, CastlingKingTo(r)),
                            p.board[m.to], CastlingRookTo(r))
        [] m.kind = "enPassant" ->
             MoveFeature(RemoveFeature(acc, MakePiece(Opposite(us), "pawn"), m.to - PawnPush(us)),
                         pc, m.from, m.to)
        [] m.kind = "promotion" ->
             AddFeature(RemoveFeature(taken, pc, m.from), MakePiece(us, m.promotion), m.to)
        [] OTHER -> MoveFeature(taken, pc, m.from, m.to)

-----------------------------------------------------------------------------
Reset(p) ==
  /\ stack' = <<Refresh(p)>>
  /\ overflowDepth' = 0

\* Mutant: beyond the limit a flag instead of a count.
PushFlagged(acc) ==
  IF Len(stack) >= Cap
    THEN overflowDepth' = 1 /\ UNCHANGED stack
    ELSE stack' = Append(stack, acc) /\ UNCHANGED overflowDepth

\* At the limit a push is only counted: sp must not leave the array.
PushAcc(acc) ==
  IF Len(stack) >= Cap
    THEN overflowDepth' = overflowDepth + 1 /\ UNCHANGED stack
    ELSE stack' = Append(stack, acc) /\ UNCHANGED overflowDepth

Push(p, m) == PushAcc(Delta(Last(stack), p, m))
PushNull == PushAcc(Last(stack))

\* Virtual levels are unwound first.
Pop ==
  IF overflowDepth > 0
    THEN overflowDepth' = overflowDepth - 1 /\ UNCHANGED stack
    ELSE stack' = Front(stack) /\ UNCHANGED overflowDepth

\* The accumulator that Evaluate reads for the position p.
Read(p) == IF overflowDepth > 0 THEN Refresh(p) ELSE Last(stack)
=============================================================================
