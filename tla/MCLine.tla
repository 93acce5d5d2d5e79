------------------------------- MODULE MCLine -------------------------------
(***************************************************************************)
(* Starting positions for Line, each chosen for a rule that is easy to get *)
(* wrong, with how many plies of a game and of a search line are tried.    *)
(* Diagrams have rank 8 on top, as in a FEN.                               *)
(***************************************************************************)
EXTENDS Line

P == MakePiece(White, "pawn")
N == MakePiece(White, "knight")
B == MakePiece(White, "bishop")
R == MakePiece(White, "rook")
Q == MakePiece(White, "queen")
K == MakePiece(White, "king")
p == MakePiece(Black, "pawn")
n == MakePiece(Black, "knight")
b == MakePiece(Black, "bishop")
r == MakePiece(Black, "rook")
q == MakePiece(Black, "queen")
k == MakePiece(Black, "king")
o == NoPiece
row == <<o, o, o, o, o, o, o, o>>

\* Castling flags: classical ones name a wing, Shredder ones the file of a rook.
Wing(c, w) == [color |-> c, wing |-> w, file |-> 0]
RookFile(c, f) == [color |-> c, wing |-> "file", file |-> f]
Classical == <<Wing(White, "king"), Wing(White, "queen"), Wing(Black, "king"), Wing(Black, "queen")>>

Start(diagram, side, castling, halfmove, game, searched) ==
  [fen |-> [board |-> [s \in Squares |-> diagram[8 - Rank(s)][File(s) + 1]],
            side |-> side, castling |-> castling, epSquare |-> NoSquare,
            halfmove |-> halfmove, fullmove |-> 1],
   bounds |-> [game |-> game, line |-> searched]]

\* Chess960: king and rook change places (black), or castle past another rook (white).
Overlapping == Start(<<<<o, o, o, o, o, k, r, o>>,
                       <<o, o, o, o, o, p, p, o>>,
                       row, row, row,
                       <<p, o, p, o, o, o, o, o>>,
                       <<P, P, P, o, o, o, o, o>>,
                       <<R, K, R, o, o, o, o, o>>>>, White,
  <<RookFile(White, 0), RookFile(White, 2), RookFile(Black, 6)>>, 0, 0, 3)

\* Chess960: the castling rook shields its king from the queen behind it.
Shielded == Start(<<<<o, o, o, o, o, o, o, k>>, row, row, row, row, row, row,
                    <<q, R, K, o, o, o, o, o>>>>, White, <<RookFile(White, 1)>>, 0, 0, 2)

\* After c7c5 taking en passant would bare the rank: no target may be recorded.
BareRank == Start(<<<<o, o, o, o, k, o, o, o>>,
                    <<o, o, p, o, o, o, o, o>>, row,
                    <<K, P, o, o, o, o, o, r>>,
                    row, row, row, row>>, Black, <<>>, 0, 0, 2)

\* After d7d5+ only taking en passant removes the checker; e5 or c5 may take.
CheckByPush == Start(<<<<o, o, o, o, o, o, o, k>>,
                       <<o, o, o, p, o, o, o, p>>, row,
                       <<o, o, P, o, P, o, o, P>>,
                       <<o, o, o, o, K, o, o, o>>,
                       row, row, row>>, Black, <<>>, 0, 0, 3)

\* A promotion that takes a rook on its home square, and its right with it.
TakesHomeRook == Start(<<<<r, o, o, o, k, o, o, r>>,
                         <<o, P, o, o, o, o, o, o>>,
                         row, row, row, row,
                         <<o, o, o, o, o, o, p, P>>,
                         <<o, o, o, o, o, o, K, o>>>>, White, Classical, 0, 0, 2)

\* Kings that can only walk their back ranks, and a white pawn to move instead.
Corridors == Start(<<<<o, o, o, o, o, o, o, k>>,
                     <<o, o, o, o, o, p, o, p>>,
                     <<o, o, o, o, o, P, o, P>>,
                     <<o, o, o, o, p, o, o, o>>, row,
                     <<p, o, p, o, o, o, o, o>>,
                     <<P, o, P, o, o, o, P, o>>,
                     <<K, o, o, o, o, o, o, o>>>>, White, <<>>, 3, 4, 2)

\* The same with a rook that can castle: its right is lost on the way.
LostRight == Start(<<<<o, o, o, o, o, o, o, k>>,
                     <<o, o, o, o, o, p, o, p>>,
                     <<o, o, o, o, o, P, o, P>>,
                     row, row,
                     <<p, p, p, o, o, o, o, o>>,
                     <<P, P, P, o, o, o, o, o>>,
                     <<R, K, o, o, o, o, o, o>>>>, White, <<RookFile(White, 0)>>, 0, 1, 5)

\* A wall no king passes, and one with an undefended pawn in a king's reach.
Wall == Start(<<<<o, o, o, o, k, o, o, o>>, row,
                <<p, o, p, o, p, o, p, o>>,
                <<P, p, P, p, P, p, P, p>>,
                <<o, P, o, P, o, P, o, P>>, row, row,
                <<o, o, o, o, K, o, o, o>>>>, White, <<>>, 0, 1, 1)
Breach == Start(<<<<o, o, o, o, k, o, o, o>>, row, row,
                  <<p, o, o, o, o, o, o, o>>,
                  <<P, o, K, o, o, o, o, o>>, row, row, row>>, White, <<>>, 0, 0, 3)

\* Bishops on one color, and a knight to be taken.
FewPieces == Start(<<<<b, o, o, o, o, o, o, k>>,
                     <<o, N, o, o, o, o, o, o>>,
                     row, row, row, row, row,
                     <<K, o, o, o, o, B, o, o>>>>, Black, <<>>, 0, 0, 2)

\* Pins on a file and a diagonal, a check to be blocked, a double check to come.
Pins == Start(<<<<o, o, o, o, r, o, o, k>>,
                <<o, o, o, o, o, o, o, o>>,
                row,
                <<o, o, o, o, o, o, o, q>>,
                <<o, b, o, o, n, o, o, o>>, row,
                <<o, o, o, P, o, o, P, o>>,
                <<o, o, o, o, K, N, o, R>>>>, Black, <<Wing(White, "king")>>, 0, 0, 2)

\* The ninety-ninth quiet ply has been played and there is a mate in one.
LastQuietPly == Start(<<<<o, o, o, o, o, o, o, k>>, row,
                        <<o, o, o, o, o, o, K, o>>, row, row, row, row,
                        <<R, o, o, o, o, o, o, o>>>>, White, <<>>, 99, 0, 1)

\* A middle game with castling on both wings, pins, captures and promotions near.
Crowded == Start(<<<<r, o, o, o, k, o, o, r>>,
                   <<p, o, p, p, q, p, b, o>>,
                   <<b, n, o, o, p, n, p, o>>,
                   <<o, o, o, P, N, o, o, o>>,
                   <<o, p, o, o, P, o, o, o>>,
                   <<o, o, N, o, o, Q, o, p>>,
                   <<P, P, P, B, B, P, P, P>>,
                   <<R, o, o, o, K, o, o, R>>>>, White, Classical, 0, 0, 1)

AllStarts == {Overlapping, Shielded, BareRank, CheckByPush, TakesHomeRook, Corridors,
              LostRight, Wall, Breach, FewPieces, Pins, LastQuietPly, Crowded}

\* ParseFEN refuses none of them.
ASSUME StartsAreValid == \A start \in AllStarts : Valid(start.fen)

\* GeneratorExact and SampleRoundTrips are claimed of all of them.
ASSUME StartsAreOrdinary == OrdinaryStarts /\ ClassicalStarts
=============================================================================
