-------------------------------- MODULE Laws --------------------------------
(***************************************************************************)
(* The laws of chess, as the promise the move generator is held to: by     *)
(* files and ranks on a plain board, each move tried and its position      *)
(* looked at.  Nothing here is shared with the tables, masks and sets of   *)
(* the generator but the names of squares and pieces.                      *)
(*                                                                         *)
(* A situation is what the laws compare for repetition: the board, the     *)
(* side to move, the castling rights (each with its rook's square) and the *)
(* square on which a pawn can be taken en passant, if it can be.           *)
(***************************************************************************)
EXTENDS Position

Across(a, b) == File(b) - File(a)
Up(a, b) == Rank(b) - Rank(a)
Forward(c) == IF c = White THEN 1 ELSE -1

\* The squares between two squares in line, by direction and distance.
Way ==
  [a \in Squares |-> [b \in Squares |->
     LET n == Max({Abs(Across(a, b)), Abs(Up(a, b))})
         aligned == \/ Across(a, b) = 0 \/ Up(a, b) = 0
                    \/ Abs(Across(a, b)) = Abs(Up(a, b))
     IN  IF n < 2 \/ ~aligned THEN {}
         ELSE {MakeSquare(File(a) + (k * Across(a, b)) \div n, Rank(a) + (k * Up(a, b)) \div n)
               : k \in 1..(n - 1)}]]

\* How a piece moves when nothing is in its way.
Reaches(pc, a, b) ==
  LET dx == Abs(Across(a, b))
      dy == Abs(Up(a, b))
      straight == dx = 0 \/ dy = 0
      diagonal == dx = dy
  IN  /\ a # b
      /\ CASE Type(pc) = "pawn" -> dx = 1 /\ Up(a, b) = Forward(Color(pc))
           [] Type(pc) = "knight" -> {dx, dy} = {1, 2}
           [] Type(pc) = "bishop" -> diagonal
           [] Type(pc) = "rook" -> straight
           [] Type(pc) = "queen" -> straight \/ diagonal
           [] Type(pc) = "king" -> Max({dx, dy}) = 1

Attacks(board, a, b) ==
  /\ board[a] # NoPiece
  /\ Reaches(board[a], a, b)
  /\ \A s \in Way[a][b] : board[s] = NoPiece

Threatened(board, s, by) == \E a \in Squares : Color(board[a]) = by /\ Attacks(board, a, s)

Safe(board, c) ==
  \A s \in Squares : board[s] = MakePiece(c, "king") => ~Threatened(board, s, Opposite(c))

-----------------------------------------------------------------------------
\* En passant: a pawn on a file beside the target takes the pawn behind it.
EPResult(board, a, target) ==
  [board EXCEPT ![a] = NoPiece, ![MakeSquare(File(target), Rank(a))] = NoPiece,
                ![target] = board[a]]
EPResults(sit, target) ==
  {EPResult(sit.board, a, target)
   : a \in {s \in Squares : /\ sit.board[s] = MakePiece(sit.side, "pawn")
                            /\ Reaches(sit.board[s], s, target)}}

\* The target counts only if some capture on it is legal.
EPTarget(board, mover, target) ==
  LET c == Opposite(mover)
  IN  IF \E b \in EPResults([board |-> board, side |-> c], target) : Safe(b, c)
      THEN target ELSE NoSquare

\* Rights stay while king and rook stand where they stood.
Kept(rights, before, after) ==
  {r \in rights :
     /\ after[r.rook] = MakePiece(r.color, "rook")
     /\ \A s \in Squares : before[s] = MakePiece(r.color, "king") => after[s] = before[s]}

Situation(board, c, rights, ep) ==
  [board |-> board, side |-> Opposite(c), rights |-> rights, ep |-> ep]

-----------------------------------------------------------------------------
PieceResults(sit, a) ==
  {[sit.board EXCEPT ![a] = NoPiece, ![b] = sit.board[a]]
   : b \in {s \in Squares : Attacks(sit.board, a, s) /\ Color(sit.board[s]) # sit.side}}

\* A pawn ends on an empty square ahead or on a piece it attacks; on the last rank it
\* becomes another piece.
PawnEnds(sit, a) ==
  LET ahead == a + 8 * Forward(sit.side)
      twice == ahead + 8 * Forward(sit.side)
      first == Rank(a) = (IF sit.side = White THEN 1 ELSE 6)
      free == sit.board[ahead] = NoPiece
  IN  (IF free THEN {ahead} ELSE {})
        \cup (IF first /\ free /\ sit.board[twice] = NoPiece THEN {twice} ELSE {})
        \cup {s \in Squares : Color(sit.board[s]) = Opposite(sit.side) /\ Attacks(sit.board, a, s)}

PawnResults(sit, a, b) ==
  {[sit.board EXCEPT ![a] = NoPiece, ![b] = MakePiece(sit.side, pt)]
   : pt \in IF Rank(b) \in {0, 7} THEN {"queen", "rook", "bishop", "knight"} ELSE {"pawn"}}

\* King and rook change places if nothing else is on their ways and the king is not
\* threatened where it is, where it passes or where it ends.
Castles(sit) ==
  {r \in sit.rights : r.color = sit.side}
CastlingResult(sit, r, k) ==
  [sit.board EXCEPT ![k] = NoPiece, ![r.rook] = NoPiece,
                    ![MakeSquare(IF r.rook > k THEN 6 ELSE 2, Rank(k))] = MakePiece(r.color, "king"),
                    ![MakeSquare(IF r.rook > k THEN 5 ELSE 3, Rank(k))] = MakePiece(r.color, "rook")]
MayCastle(sit, r, k) ==
  LET kingTo == MakeSquare(IF r.rook > k THEN 6 ELSE 2, Rank(k))
      rookTo == MakeSquare(IF r.rook > k THEN 5 ELSE 3, Rank(k))
  IN  /\ \A s \in Way[k][kingTo] \cup Way[r.rook][rookTo] \cup {kingTo, rookTo} :
           s \notin {k, r.rook} => sit.board[s] = NoPiece
      /\ \A s \in Way[k][kingTo] \cup {k, kingTo} : ~Threatened(sit.board, s, Opposite(sit.side))

-----------------------------------------------------------------------------
\* Every situation a legal move leads to.
Successors(sit) ==
  LET us == sit.side
      mine == {s \in Squares : Color(sit.board[s]) = us}
      pawns == {s \in mine : Type(sit.board[s]) = "pawn"}
      king == CHOOSE s \in mine : Type(sit.board[s]) = "king"
      Plain(b) == Situation(b, us, Kept(sit.rights, sit.board, b), NoSquare)
      Pushed(a, to, b) ==
        IF Abs(Up(a, to)) = 2
          THEN [Plain(b) EXCEPT !.ep = EPTarget(b, us, (a + to) \div 2)]
          ELSE Plain(b)
  IN  {Plain(b) : b \in {c \in UNION {PieceResults(sit, a) : a \in mine \ pawns} : Safe(c, us)}}
        \cup (UNION {UNION {{Pushed(a, to, b)
                             : b \in {c \in PawnResults(sit, a, to) : Safe(c, us)}}
                            : to \in PawnEnds(sit, a)}
                     : a \in pawns})
        \cup (IF sit.ep = NoSquare THEN {}
              ELSE {Plain(b) : b \in {c \in EPResults(sit, sit.ep) : Safe(c, us)}})
        \cup {Situation(CastlingResult(sit, r, king), us,
                        {q \in sit.rights : q.color # us}, NoSquare)
              : r \in {q \in Castles(sit) : /\ MayCastle(sit, q, king)
                                            /\ Safe(CastlingResult(sit, q, king), us)}}
=============================================================================
