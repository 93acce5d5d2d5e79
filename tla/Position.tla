------------------------------ MODULE Position ------------------------------
(***************************************************************************)
(* A chess position as internal/chess keeps it: a mailbox, sets of squares *)
(* by piece type and by color, and a Zobrist key, all updated by the move. *)
(* A key is the set of the random values combined into it; XOR is the      *)
(* symmetric difference, so two keys are equal when the same values were   *)
(* combined (64-bit collisions are left out, as by the code's comments).   *)
(*                                                                         *)
(* Bitboards and mailbox are kept apart, as in the code, so that they can  *)
(* come to disagree.                                                       *)
(***************************************************************************)
EXTENDS Board, SequencesExt

\* A castling right is also the index of its tables.
Wings == {"king", "queen"}
Rights == Colors \X Wings
ColorRights(c) == {c} \X Wings
HomeRank(c) == IF c = White THEN 0 ELSE 7
CastlingKingTo(r) == MakeSquare(IF r[2] = "king" THEN 6 ELSE 2, HomeRank(r[1]))
CastlingRookTo(r) == MakeSquare(IF r[2] = "king" THEN 5 ELSE 3, HomeRank(r[1]))

\* Moves.  The destination of castling is the rook's square.
Normal(from, to) == [from |-> from, to |-> to, kind |-> "normal", promotion |-> "none"]
Promotion(from, to, pt) == [from |-> from, to |-> to, kind |-> "promotion", promotion |-> pt]
EnPassant(from, to) == [from |-> from, to |-> to, kind |-> "enPassant", promotion |-> "none"]
Castling(from, to) == [from |-> from, to |-> to, kind |-> "castling", promotion |-> "none"]
MoveNone == Normal(0, 0)
CastlingRight(c, m) == <<c, IF m.to > m.from THEN "king" ELSE "queen">>

-----------------------------------------------------------------------------
(***************************************************************************)
(* Zobrist values.                                                         *)
(***************************************************************************)
ZPiece(pc, s) == {<<"piece", pc, s>>}
ZCastling(rights) == {<<"castling", rights>>}
ZEPFile(s) == {<<"ep", File(s)>>}
ZSide == {<<"side">>}

ComputeKey(p) ==
  (UNION {ZPiece(p.board[s], s) : s \in {t \in Squares : p.board[t] # NoPiece}})
    \cup ZCastling(p.castling)
    \cup (IF p.epSquare # NoSquare THEN ZEPFile(p.epSquare) ELSE {})
    \cup (IF p.side = Black THEN ZSide ELSE {})

PutPiece(p, pc, s) ==
  [p EXCEPT !.board[s] = pc,
            !.byType[Type(pc)] = @ \cup {s},
            !.byColor[Color(pc)] = @ \cup {s},
            !.key = SymDiff(@, ZPiece(pc, s))]

RemovePiece(p, s) ==
  LET pc == p.board[s]
  IN  [p EXCEPT !.board[s] = NoPiece,
                !.byType[Type(pc)] = @ \ {s},
                !.byColor[Color(pc)] = @ \ {s},
                !.key = SymDiff(@, ZPiece(pc, s))]

MovePiece(p, from, to) ==
  LET pc == p.board[from]
  IN  [p EXCEPT !.board = [@ EXCEPT ![from] = NoPiece, ![to] = pc],
                !.byType[Type(pc)] = SymDiff(@, {from, to}),
                !.byColor[Color(pc)] = SymDiff(@, {from, to}),
                !.key = SymDiff(@, SymDiff(ZPiece(pc, from), ZPiece(pc, to)))]

-----------------------------------------------------------------------------
(***************************************************************************)
(* What the rest of the package asks of a position.                        *)
(***************************************************************************)
Occupied(p) == p.byColor[White] \cup p.byColor[Black]
PiecesOf(p, c, pt) == p.byColor[c] \cap p.byType[pt]
KingSquare(p, c) == Min(PiecesOf(p, c, "king"))

AttackersTo(p, s, occ) ==
  (UNION {PawnAttacks[Opposite(c)][s] \cap PiecesOf(p, c, "pawn") : c \in Colors})
    \cup (KnightAttacks[s] \cap p.byType["knight"])
    \cup (KingAttacks[s] \cap p.byType["king"])
    \cup (RookAttacks(s, occ) \cap (p.byType["rook"] \cup p.byType["queen"]))
    \cup (BishopAttacks(s, occ) \cap (p.byType["bishop"] \cup p.byType["queen"]))
IsAttacked(p, s, by) == AttackersTo(p, s, Occupied(p)) \cap p.byColor[by] # {}
Checkers(p) ==
  AttackersTo(p, KingSquare(p, p.side), Occupied(p)) \cap p.byColor[Opposite(p.side)]
InCheck(p) == Checkers(p) # {}
IsCapture(p, m) ==
  m.kind = "enPassant" \/ (m.kind # "castling" /\ p.board[m.to] # NoPiece)

\* Whether capturing en passant leaves the king safe: two pawns leave one rank,
\* which no pin mask foresees, so the occupancy afterwards is tried out.
EnPassantLegal(p, from, to, us, ksq, occ) ==
  LET them == Opposite(us)
      capSq == to - PawnPush(us)
      occAfter == (occ \ {from, capSq}) \cup {to}
      theirs(pts) == p.byColor[them] \cap UNION {p.byType[pt] : pt \in pts}
  IN  /\ RookAttacks(ksq, occAfter) \cap theirs({"rook", "queen"}) = {}
      /\ BishopAttacks(ksq, occAfter) \cap theirs({"bishop", "queen"}) = {}
      /\ KnightAttacks[ksq] \cap theirs({"knight"}) = {}
      /\ PawnAttacks[us][ksq] \cap (theirs({"pawn"}) \ {capSq}) = {}

EPCaptureAvailable(p, epSq, capturer) ==
  LET them == Opposite(capturer)
  IN  /\ p.board[epSq] = NoPiece
      /\ p.board[epSq - PawnPush(capturer)] = MakePiece(them, "pawn")
      /\ \E from \in PawnAttacks[them][epSq] \cap PiecesOf(p, capturer, "pawn") :
           EnPassantLegal(p, from, epSq, capturer, KingSquare(p, capturer), Occupied(p))

-----------------------------------------------------------------------------
(***************************************************************************)
(* Making and unmaking a move.                                             *)
(***************************************************************************)
Captured(p, m) ==
  CASE m.kind = "enPassant" -> MakePiece(Opposite(p.side), "pawn")
    [] m.kind = "castling" -> NoPiece
    [] OTHER -> p.board[m.to]

\* What MakeMove appends to the history.
Undo(p, m) ==
  [move |-> m, captured |-> Captured(p, m), castling |-> p.castling,
   epSquare |-> p.epSquare, halfmove |-> p.halfmove, key |-> p.key]

ClearEP(p) ==
  IF p.epSquare = NoSquare THEN p
  ELSE [p EXCEPT !.key = SymDiff(@, ZEPFile(p.epSquare)), !.epSquare = NoSquare]

Cleared(p, s) == IF p.board[s] = NoPiece THEN p ELSE RemovePiece(p, s)

\* The pieces after m.  Castling lifts both before it places either: in Chess960
\* the four squares overlap freely.
Relocated(p, m) ==
  LET us == p.side
  IN  CASE m.kind = "castling" ->
             LET r == CastlingRight(us, m)
                 lifted == RemovePiece(RemovePiece(p, m.from), m.to)
             IN  PutPiece(PutPiece(lifted, MakePiece(us, "king"), CastlingKingTo(r)),
                          MakePiece(us, "rook"), CastlingRookTo(r))
        [] m.kind = "enPassant" ->
             MovePiece(RemovePiece(p, m.to - PawnPush(us)), m.from, m.to)
        [] m.kind = "promotion" ->
             PutPiece(RemovePiece(Cleared(p, m.to), m.from), MakePiece(us, m.promotion), m.to)
        [] OTHER -> MovePiece(Cleared(p, m.to), m.from, m.to)

\* A double push leaves a target only if it can be captured: positions compare equal
\* for repetition when the same moves are available.
WithEP(p, m, moved) ==
  LET epSq == m.from + PawnPush(Color(moved))
  IN  IF /\ m.kind = "normal" /\ Type(moved) = "pawn" /\ Abs(m.to - m.from) = 16
         /\ EPCaptureAvailable(p, epSq, Opposite(Color(moved)))
      THEN [p EXCEPT !.epSquare = epSq, !.key = SymDiff(@, ZEPFile(epSq))]
      ELSE p

\* Touching a king's or rook's home square revokes the rights tied to it.
WithRights(p, m) ==
  LET rights == p.castling \cap p.crMask[m.from] \cap p.crMask[m.to]
  IN  IF rights = p.castling THEN p
      ELSE [p EXCEPT !.castling = rights,
                     !.key = SymDiff(@, SymDiff(ZCastling(p.castling), ZCastling(rights)))]

PassTurn(p) ==
  [p EXCEPT !.side = Opposite(@),
            !.fullmove = IF p.side = Black THEN @ + 1 ELSE @,
            !.key = SymDiff(@, ZSide)]

Irreversible(p, m) ==
  m.kind # "castling" /\ (Captured(p, m) # NoPiece \/ Type(p.board[m.from]) = "pawn")

MakeMove(p, m) ==
  LET moved == p.board[m.from]
      after == WithRights(WithEP(Relocated(ClearEP(p), m), m, moved), m)
  IN  [PassTurn(after) EXCEPT !.halfmove = IF Irreversible(p, m) THEN 0 ELSE @ + 1]

\* Mutant: what a promotion took is not put back.
PutBackPlainly(p, u) ==
  LET us == p.side
      m == u.move
      r == CastlingRight(us, m)
      lifted == RemovePiece(RemovePiece(p, CastlingKingTo(r)), CastlingRookTo(r))
      back == MovePiece(p, m.to, m.from)
  IN  CASE m.kind = "castling" ->
             PutPiece(PutPiece(lifted, MakePiece(us, "king"), m.from), MakePiece(us, "rook"), m.to)
        [] m.kind = "enPassant" ->
             PutPiece(back, MakePiece(Opposite(us), "pawn"), m.to - PawnPush(us))
        [] m.kind = "promotion" ->
             PutPiece(RemovePiece(p, m.to), MakePiece(us, "pawn"), m.from)
        [] OTHER -> IF u.captured = NoPiece THEN back ELSE PutPiece(back, u.captured, m.to)

\* The pieces before u.move, with the side already given back.
PutBack(p, u) ==
  LET us == p.side
      m == u.move
      Recapture(q) == IF u.captured = NoPiece THEN q ELSE PutPiece(q, u.captured, m.to)
  IN  CASE m.kind = "castling" ->
             LET r == CastlingRight(us, m)
                 lifted == RemovePiece(RemovePiece(p, CastlingKingTo(r)), CastlingRookTo(r))
             IN  PutPiece(PutPiece(lifted, MakePiece(us, "king"), m.from),
                          MakePiece(us, "rook"), m.to)
        [] m.kind = "enPassant" ->
             PutPiece(MovePiece(p, m.to, m.from), MakePiece(Opposite(us), "pawn"),
                      m.to - PawnPush(us))
        [] m.kind = "promotion" ->
             Recapture(PutPiece(RemovePiece(p, m.to), MakePiece(us, "pawn"), m.from))
        [] OTHER -> Recapture(MovePiece(p, m.to, m.from))

TakeBackTurn(p) ==
  [p EXCEPT !.side = Opposite(@), !.fullmove = IF p.side = White THEN @ - 1 ELSE @]

\* The fields a move destroys come from the record.
Restored(p, u) ==
  [p EXCEPT !.castling = u.castling, !.epSquare = u.epSquare,
            !.halfmove = u.halfmove, !.key = u.key]

UnmakeMove(p, u) == Restored(PutBack(TakeBackTurn(p), u), u)

\* Mutant: the clock runs on over a null move.
NullMoveCounted(p) == [PassTurn(ClearEP(p)) EXCEPT !.halfmove = @ + 1]

\* A null move passes the turn; the clock is reset so that repetition does not look
\* back past it.
MakeNullMove(p) == [PassTurn(ClearEP(p)) EXCEPT !.halfmove = 0]
NullUndo(p) == [Undo(p, MoveNone) EXCEPT !.captured = NoPiece]
UnmakeNullMove(p, u) == Restored(TakeBackTurn(p), u)

-----------------------------------------------------------------------------
(***************************************************************************)
(* A position from a FEN.  fen gives the pieces, the side, the castling    *)
(* flags in order (a wing, or the file of a rook), a target and clocks.    *)
(***************************************************************************)
FlagSet == [color : Colors, wing : Wings \cup {"file"}, file : 0..7]
FENs == [board : [Squares -> Pieces \cup {NoPiece}], side : Colors, castling : Seq(FlagSet),
         epSquare : Squares \cup {NoSquare}, halfmove : Int, fullmove : Int]

\* The outermost rook on that side of a king on its back rank.
FindCastlingRook(p, c, wing) ==
  LET ksq == KingSquare(p, c)
      Outside(s, t) == IF wing = "king" THEN s > t ELSE s < t
      rooks == {s \in RankBB(HomeRank(c)) :
                  p.board[s] = MakePiece(c, "rook") /\ Outside(s, ksq)}
  IN  {s \in rooks : Rank(ksq) = HomeRank(c) /\ \A t \in rooks \ {s} : Outside(s, t)}

\* The right and rook a flag names, if the board supports it.
FlagMeans(p, flag) ==
  IF flag.wing \in Wings
    THEN {[right |-> <<flag.color, flag.wing>>, rook |-> s]
          : s \in FindCastlingRook(p, flag.color, flag.wing)}
    ELSE LET ksq == KingSquare(p, flag.color)
         IN  {[right |-> <<flag.color, IF s > ksq THEN "king" ELSE "queen">>, rook |-> s]
              : s \in {t \in {MakeSquare(flag.file, HomeRank(flag.color))} :
                         /\ p.board[t] = MakePiece(flag.color, "rook")
                         /\ Rank(ksq) = HomeRank(flag.color)}}

SetCastlingRight(p, r, rookFrom) ==
  LET kingFrom == KingSquare(p, r[1])
      kingTo == CastlingKingTo(r)
      rookTo == CastlingRookTo(r)
      path == (BetweenBB[kingFrom][kingTo] \cup BetweenBB[rookFrom][rookTo]
                 \cup {kingTo, rookTo}) \ {kingFrom, rookFrom}
      mask == [p.crMask EXCEPT ![kingFrom] = @ \ ColorRights(r[1]), ![rookFrom] = @ \ {r}]
  IN  [p EXCEPT !.castling = @ \cup {r},
                !.castlingRook[r] = rookFrom,
                !.castlingPath[r] = path,
                !.crMask = mask]

ParseFlag(p, flag) ==
  LET found == FlagMeans(p, flag)
      q == [p EXCEPT !.chess960 = @ \/ flag.wing \notin Wings]
  IN  IF found = {} THEN p
      ELSE LET f == CHOOSE g \in found : TRUE IN SetCastlingRight(q, f.right, f.rook)

\* The board of the FEN with no rights and no target yet.
Placed(fen) ==
  [board |-> fen.board,
   byType |-> [pt \in PieceTypes |-> {s \in Squares : Type(fen.board[s]) = pt}],
   byColor |-> [c \in Colors |-> {s \in Squares : Color(fen.board[s]) = c}],
   side |-> fen.side, chess960 |-> FALSE, castling |-> {}, epSquare |-> NoSquare,
   halfmove |-> fen.halfmove, fullmove |-> fen.fullmove, key |-> {},
   castlingRook |-> [r \in Rights |-> NoSquare],
   castlingPath |-> [r \in Rights |-> {}],
   crMask |-> [s \in Squares |-> Rights]]

\* The FENs that are not refused.
Valid(fen) ==
  LET p == Placed(fen)
  IN  /\ \A c \in Colors : Cardinality(PiecesOf(p, c, "king")) = 1
      /\ ~IsAttacked(p, KingSquare(p, Opposite(p.side)), p.side)
      /\ p.byType["pawn"] \cap (RankBB(0) \cup RankBB(7)) = {}

\* Castling flags without a rook and targets nobody can use are dropped.
ParseFEN(fen) ==
  LET p == FoldLeft(ParseFlag, Placed(fen), fen.castling)
      useful == fen.epSquare # NoSquare /\ EPCaptureAvailable(p, fen.epSquare, p.side)
      q == [p EXCEPT !.epSquare = IF useful THEN fen.epSquare ELSE NoSquare]
  IN  [q EXCEPT !.key = ComputeKey(q)]

-----------------------------------------------------------------------------
\* The redundant representations agree: each bitboard with the mailbox, and the key
\* with a computation from scratch.
Agrees(p) ==
  /\ \A pt \in PieceTypes : p.byType[pt] = {s \in Squares : Type(p.board[s]) = pt}
  /\ \A c \in Colors : p.byColor[c] = {s \in Squares : Color(p.board[s]) = c}
  /\ p.key = ComputeKey(p)
=============================================================================
