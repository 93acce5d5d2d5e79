------------------------------- MODULE Board -------------------------------
(***************************************************************************)
(* The board of internal/chess: squares, colored pieces, and the attack    *)
(* tables of attacks.go.  A Bitboard is a set of squares.  The magic       *)
(* tables are an index of slidingAttacks, which is what is written here.   *)
(***************************************************************************)
EXTENDS Integers, Sequences, FiniteSets, FiniteSetsExt

White == "white"
Black == "black"
Colors == {White, Black}
Opposite(c) == IF c = White THEN Black ELSE White

PieceTypes == {"pawn", "knight", "bishop", "rook", "queen", "king"}
MakePiece(c, pt) == <<c, pt>>
Color(pc) == pc[1]
Type(pc) == pc[2]
Pieces == Colors \X PieceTypes
NoPiece == <<"none", "none">>

Squares == 0..63
NoSquare == 64
File(s) == s % 8
Rank(s) == s \div 8
MakeSquare(file, rank) == rank * 8 + file
RankBB(rank) == {s \in Squares : Rank(s) = rank}

North == 8
South == -8
East == 1
West == -1
PawnPush(c) == IF c = White THEN North ELSE South

-----------------------------------------------------------------------------
Abs(x) == IF x < 0 THEN -x ELSE x

\* The square delta away from s, unless that leaves the board or wraps round it.
SafeDestination(s, delta) ==
  {to \in {s + delta} : to \in Squares /\ Abs(File(to) - File(s)) <= 2}

Leaps(s, deltas) == UNION {SafeDestination(s, d) : d \in deltas}

KnightAttacks == [s \in Squares |-> Leaps(s, {-17, -15, -10, -6, 6, 10, 15, 17})]
KingAttacks == [s \in Squares |-> Leaps(s, {-9, -8, -7, -1, 1, 7, 8, 9})]
PawnAttacks ==
  [c \in Colors |-> [s \in Squares |-> Leaps(s, {PawnPush(c) + East, PawnPush(c) + West})]]

BishopDirs == {North + East, North + West, South + East, South + West}
RookDirs == {North, South, East, West}

\* The squares passed from s in direction d up to the edge of the board, by distance.
Walk(s, d) ==
  LET way == {k \in 1..7 : \A i \in 1..k : SafeDestination(s + (i - 1) * d, d) # {}}
  IN  [k \in way |-> s + k * d]
Ray == [d \in BishopDirs \cup RookDirs |-> [s \in Squares |-> Walk(s, d)]]

\* Outward from s until the edge or an occupied square, which is included.
SlidingAttacks(s, occ, dirs) ==
  UNION {LET ray == Ray[d][s]
         IN  {ray[i] : i \in {j \in DOMAIN ray : \A k \in 1..(j - 1) : ray[k] \notin occ}}
         : d \in dirs}
RookAttacks(s, occ) == SlidingAttacks(s, occ, RookDirs)
BishopAttacks(s, occ) == SlidingAttacks(s, occ, BishopDirs)
QueenAttacks(s, occ) == RookAttacks(s, occ) \cup BishopAttacks(s, occ)

AttacksFrom(pt, c, s, occ) ==
  CASE pt = "pawn" -> PawnAttacks[c][s]
    [] pt = "knight" -> KnightAttacks[s]
    [] pt = "bishop" -> BishopAttacks(s, occ)
    [] pt = "rook" -> RookAttacks(s, occ)
    [] pt = "queen" -> QueenAttacks(s, occ)
    [] pt = "king" -> KingAttacks[s]

\* The direction set on which b is seen from a on an empty board, if any: at most one.
Alignment(a, b) == {dirs \in {BishopDirs, RookDirs} : b \in SlidingAttacks(a, {}, dirs)}

\* The squares strictly between two aligned squares, else none.
BetweenBB ==
  [a \in Squares |-> [b \in Squares |->
     UNION {SlidingAttacks(a, {b}, dirs) \cap SlidingAttacks(b, {a}, dirs)
            : dirs \in Alignment(a, b)}]]

\* The whole line through two aligned squares, else none.
LineBB ==
  [a \in Squares |-> [b \in Squares |->
     UNION {(SlidingAttacks(a, {}, dirs) \cap SlidingAttacks(b, {}, dirs)) \cup {a, b}
            : dirs \in Alignment(a, b)}]]
=============================================================================
