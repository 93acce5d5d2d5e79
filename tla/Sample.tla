------------------------------- MODULE Sample -------------------------------
(***************************************************************************)
(* The packed training record (internal/train/format.go): what a position  *)
(* is reduced to, and the FEN it is rebuilt through.  Pieces are written   *)
(* in the order of the squares, and read back against the occupancy.  The  *)
(* score, the ply and the result are copied as they are.                   *)
(***************************************************************************)
EXTENDS Position

\* The en passant field: a file, or 8.
NoFile == 8

\* EncodeSample refuses Chess960: four bits do not say where the rooks stand.
Encodable(p) == ~p.chess960 /\ Cardinality(Occupied(p)) <= 32

\* Occupied squares are counted from a1.
Place(s, occ) == Cardinality({t \in occ : t <= s})

EncodeSample(p) ==
  LET occ == Occupied(p)
  IN  [occupied |-> occ,
       pieces |-> [k \in 1..Cardinality(occ) |-> p.board[CHOOSE s \in occ : Place(s, occ) = k]],
       side |-> p.side,
       castling |-> p.castling,
       epFile |-> IF p.epSquare = NoSquare THEN NoFile ELSE File(p.epSquare)]

\* CastlingRights.String: KQkq.
Flags(rights) ==
  LET Flag(c, w) ==
        IF <<c, w>> \in rights THEN <<[color |-> c, wing |-> w, file |-> 0]>> ELSE <<>>
  IN  Flag(White, "king") \o Flag(White, "queen") \o Flag(Black, "king") \o Flag(Black, "queen")

\* Mutant: the target is taken for one of the side to move's own pawns.
TargetOfMover(side, file) ==
  IF file = NoFile THEN NoSquare ELSE MakeSquare(file, IF side = White THEN 2 ELSE 5)

\* The rank follows from the side to move.
Target(side, file) ==
  IF file = NoFile THEN NoSquare ELSE MakeSquare(file, IF side = White THEN 5 ELSE 2)

\* The clocks are not kept.
BuildFEN(r) ==
  [board |-> [s \in Squares |->
      IF s \in r.occupied THEN r.pieces[Place(s, r.occupied)] ELSE NoPiece],
   side |-> r.side,
   castling |-> Flags(r.castling),
   epSquare |-> Target(r.side, r.epFile),
   halfmove |-> 0, fullmove |-> 1]

\* DecodeSample: nothing, where ParseFEN refuses the position.
DecodeSample(r) ==
  LET fen == BuildFEN(r) IN IF Valid(fen) THEN {ParseFEN(fen)} ELSE {}
=============================================================================
