------------------------------ MODULE MoveGen ------------------------------
(***************************************************************************)
(* Legal move generation, movegen.go: moves are legal by construction, out *)
(* of a check mask and a pin mask, and en passant by trial.  A MoveList is *)
(* the set of its moves; that no move is listed twice is in the shape of   *)
(* the sets below, which do not overlap.                                   *)
(***************************************************************************)
EXTENDS Position

\* Pieces of either color whose removal exposes the king of color c to a slider.
BlockersForKing(p, c) ==
  LET ksq == KingSquare(p, c)
      lines == p.byType["rook"] \cup p.byType["queen"]
      diagonals == p.byType["bishop"] \cup p.byType["queen"]
      snipers == ((RookAttacks(ksq, {}) \cap lines) \cup (BishopAttacks(ksq, {}) \cap diagonals))
                   \cap p.byColor[Opposite(c)]
      occupancy == Occupied(p) \ snipers
      betweens == {BetweenBB[ksq][s] \cap occupancy : s \in snipers}
  IN  UNION {b \in betweens : Cardinality(b) = 1}

\* The king leaves the occupancy, or it would hide the squares behind it from a slider.
KingMoves(p, ksq, them, occ, targets) ==
  {Normal(ksq, to) : to \in {t \in KingAttacks[ksq] \cap targets :
                               AttackersTo(p, t, occ \ {ksq}) \cap p.byColor[them] = {}}}

\* Any square of the king's way, both ends included.
KingPathAttacked(p, from, to, by) ==
  \E s \in {from, to} \cup BetweenBB[from][to] : IsAttacked(p, s, by)

\* Mutant: the rook's leaving is not considered.
CastlingUnshielded(p, r, occ) ==
  /\ r \in p.castling
  /\ occ \cap p.castlingPath[r] = {}
  /\ p.board[p.castlingRook[r]] = MakePiece(r[1], "rook")
  /\ ~KingPathAttacked(p, KingSquare(p, r[1]), CastlingKingTo(r), Opposite(r[1]))

CastlingAllowed(p, r, occ) ==
  LET us == r[1]
      them == Opposite(us)
      rookFrom == p.castlingRook[r]
      kingTo == CastlingKingTo(r)
  IN  /\ r \in p.castling
      /\ occ \cap p.castlingPath[r] = {}
      /\ p.board[rookFrom] = MakePiece(us, "rook")
      /\ ~KingPathAttacked(p, KingSquare(p, us), kingTo, them)
      \* The rook that castles may have shielded the king's destination.
      /\ RookAttacks(kingTo, SymDiff(occ, {rookFrom}))
           \cap (p.byType["rook"] \cup p.byType["queen"]) \cap p.byColor[them] = {}

CastlingMoves(p, us, occ) ==
  {Castling(KingSquare(p, us), p.castlingRook[r])
   : r \in {q \in ColorRights(us) : CastlingAllowed(p, q, occ)}}

PinMask(ksq, pinned, from) == IF from \in pinned THEN LineBB[ksq][from] ELSE Squares

PieceMoves(p, us, targets, pinned, ksq, occ) ==
  UNION {UNION {{Normal(from, to)
                 : to \in AttacksFrom(pt, us, from, occ) \cap targets \cap PinMask(ksq, pinned, from)}
                : from \in PiecesOf(p, us, pt)}
         : pt \in {"knight", "bishop", "rook", "queen"}}

PawnMove(from, to, promoRank) ==
  IF Rank(to) # promoRank THEN {Normal(from, to)}
  ELSE {Promotion(from, to, pt) : pt \in {"queen", "rook", "bishop", "knight"}}

\* One square ahead if it is empty, and from the start rank two.  The square jumped
\* over need not be a target: a double push may block a check the single one does not.
Pushes(from, us, quietTargets, occ) ==
  LET to == from + PawnPush(us)
      to2 == to + PawnPush(us)
      startRank == IF us = White THEN 1 ELSE 6
  IN  IF to \in occ THEN {}
      ELSE quietTargets \cap
             ({to} \cup (IF Rank(from) = startRank /\ to2 \notin occ THEN {to2} ELSE {}))

PawnMoves(p, us, targets, quietTargets, pinned, ksq, occ) ==
  LET theirPieces == p.byColor[Opposite(us)]
      promoRank == IF us = White THEN 7 ELSE 0
      Targets(from) ==
        PinMask(ksq, pinned, from) \cap
          (Pushes(from, us, quietTargets, occ) \cup (PawnAttacks[us][from] \cap theirPieces \cap targets))
      Takes(from) ==
        /\ p.epSquare # NoSquare
        /\ p.epSquare \in PawnAttacks[us][from]
        /\ EnPassantLegal(p, from, p.epSquare, us, ksq, occ)
      pawns == PiecesOf(p, us, "pawn")
  IN  (UNION {UNION {PawnMove(from, to, promoRank) : to \in Targets(from)} : from \in pawns})
        \cup {EnPassant(from, p.epSquare) : from \in {s \in pawns : Takes(s)}}

Generate(p, capturesOnly) ==
  LET us == p.side
      them == Opposite(us)
      ksq == KingSquare(p, us)
      occ == Occupied(p)
      checkers == Checkers(p)
      \* Evasions are never restricted to captures.
      restricted == capturesOnly /\ checkers = {}
      notOurs == IF restricted THEN p.byColor[them] ELSE Squares \ p.byColor[us]
      targets == IF checkers = {} THEN notOurs
                 ELSE checkers \cup BetweenBB[ksq][Min(checkers)]
      quietTargets == IF restricted THEN RankBB(0) \cup RankBB(7) ELSE targets
      pinned == BlockersForKing(p, us) \cap p.byColor[us]
      kingMoves == KingMoves(p, ksq, them, occ, notOurs)
  IN  IF Cardinality(checkers) > 1 THEN kingMoves
      ELSE kingMoves
             \cup (IF checkers = {} /\ ~restricted THEN CastlingMoves(p, us, occ) ELSE {})
             \cup PawnMoves(p, us, targets, quietTargets, pinned, ksq, occ)
             \cup PieceMoves(p, us, targets, pinned, ksq, occ)

GenerateLegalMoves(p) == Generate(p, FALSE)
GenerateCaptures(p) == Generate(p, TRUE)
=============================================================================
