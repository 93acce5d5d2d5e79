---------------------------- MODULE Rules_proofs ----------------------------
(***************************************************************************)
(* What rules.go says of a position's future, and what movegen.go makes of *)
(* it, for every position.                                                 *)
(*                                                                         *)
(* Dead positions.  With frozen pawns only kings move, and neither can     *)
(* come to a pawn it may take: the flood fill of KingReachableSquares is   *)
(* the least set closed under a king's steps between the walls, and the    *)
(* walls stay as no pawn moves.  With too little material every check is   *)
(* given on squares of one shade, so the king steps to one of the other,   *)
(* away from the other king; and no move adds material, as there is no     *)
(* pawn to promote.                                                        *)
(*                                                                         *)
(* The generator.  The ways and attacks of Laws are those of the tables    *)
(* (WayIsBetween, AttacksAre), what a move leaves of rights and target is  *)
(* what the laws leave (RightsAfter, TargetAfter), so each of the four     *)
(* kinds of move leads to the situations of that kind (ResultsAre).  Two   *)
(* moves lead to two boards (MovesDiffer), and a move gains something just *)
(* when it promotes or leaves fewer men (CapturesAre, GainsAre).  All this *)
(* takes a position to be Ordinary; moves keep it so, and ParseFEN starts  *)
(* from one unless two of its flags name one wing (ParsedOrdinary).        *)
(*                                                                         *)
(* Training records.  Men are read back by their place in the order of the *)
(* squares (PlacesDiffer), a flag names the rook in the corner             *)
(* (CornerRook), the target's rank follows from the side to move, and the  *)
(* FEN is one that ParseFEN takes (DecodedValid).  This takes a position   *)
(* to be Recordable; moves keep it so, and ParseFEN starts from one when   *)
(* castling rooks and target are where a game has them.                    *)
(***************************************************************************)
EXTENDS Line_proofs

-----------------------------------------------------------------------------
(***************************************************************************)
(* Where a king can get to, KingReachableSquares of rules.go.              *)
(***************************************************************************)
Grown(reach, walls) == (reach \cup UNION {KingAttacks[s] : s \in reach}) \ walls

\* A king does not leave these squares if only the walls stop it.
Enclosed(S, walls) == \A s \in S : \A t \in KingAttacks[s] : t \in walls \/ t \in S

\* The least such set around some squares.
Enclosure(reach, walls) ==
    {s \in Squares : \A S \in SUBSET Squares : reach \subseteq S /\ Enclosed(S, walls) => s \in S}

\* One round of the flood fill.
LEMMA GrownFacts ==
    ASSUME NEW walls, NEW reach \in SUBSET Squares, reach \cap walls = {}
    PROVE  /\ Grown(reach, walls) \in SUBSET Squares /\ Grown(reach, walls) \cap walls = {}
           /\ reach \subseteq Grown(reach, walls)
           /\ Grown(reach, walls) = reach => Enclosure(reach, walls) = reach
           /\ Enclosure(Grown(reach, walls), walls) = Enclosure(reach, walls)
<1>1. \A s \in reach : \A t \in KingAttacks[s] : t \in Squares
  BY KingAttacksLand
<1>2. Grown(reach, walls) \in SUBSET Squares /\ Grown(reach, walls) \cap walls = {}
      /\ reach \subseteq Grown(reach, walls)
  BY <1>1 DEF Grown
<1>3. ASSUME NEW S \in SUBSET Squares, Enclosed(S, walls)
      PROVE  reach \subseteq S <=> Grown(reach, walls) \subseteq S
  BY <1>2, <1>3 DEF Grown, Enclosed
<1>4. Enclosure(Grown(reach, walls), walls) = Enclosure(reach, walls)
  BY <1>3 DEF Enclosure
<1>5. Grown(reach, walls) = reach => Enclosure(reach, walls) = reach
  <2>1. ASSUME Grown(reach, walls) = reach PROVE Enclosed(reach, walls)
    BY <2>1 DEF Grown, Enclosed
  <2>. QED BY <2>1 DEF Enclosure
<1>. QED BY <1>2, <1>4, <1>5

\* The least enclosure encloses.
LEMMA EnclosureFacts ==
    ASSUME NEW walls, NEW reach \in SUBSET Squares, reach \cap walls = {}
    PROVE  /\ Enclosure(reach, walls) \in SUBSET Squares /\ reach \subseteq Enclosure(reach, walls)
           /\ Enclosed(Enclosure(reach, walls), walls)
           /\ \A S \in SUBSET Squares : reach \subseteq S /\ Enclosed(S, walls)
                                          => Enclosure(reach, walls) \subseteq S
<1>1. ASSUME NEW s \in Enclosure(reach, walls), NEW t \in KingAttacks[s], t \notin walls
      PROVE  t \in Enclosure(reach, walls)
  <2>1. s \in Squares /\ t \in Squares
    BY <1>1, KingAttacksLand DEF Enclosure
  <2>. QED BY <1>1, <2>1 DEF Enclosure, Enclosed
<1>2. Enclosed(Enclosure(reach, walls), walls)
  BY <1>1 DEF Enclosed
<1>. QED BY <1>2 DEF Enclosure

\* One more round of the flood.
Flooded(f, walls) ==
    [reach \in SUBSET Squares |->
       IF Grown(reach, walls) = reach THEN reach ELSE f[Grown(reach, walls)]]

\* The flood has a value everywhere,
LEMMA FloodExists ==
    ASSUME NEW walls
    PROVE  \E f : f = Flooded(f, walls)
<1>. DEFINE f == [reach \in SUBSET Squares |->
               IF Grown(reach, walls) = reach THEN reach
               ELSE Enclosure(Grown(reach, walls), walls)]
<1>1. ASSUME NEW reach \in SUBSET Squares, Grown(reach, walls) # reach
      PROVE  f[reach] = f[Grown(reach, walls)]
  <2>. DEFINE next == Grown(reach, walls)
  <2>1. next \in SUBSET Squares /\ next \cap walls = {}
    BY KingAttacksLand DEF Grown
  <2>2. f[reach] = Enclosure(next, walls)
    BY <1>1
  <2>3. f[next] = IF Grown(next, walls) = next THEN next ELSE Enclosure(Grown(next, walls), walls)
    BY <2>1
  <2>4. f[reach] = f[next]
    <3>. HIDE DEF next, f
    <3>. QED BY <2>1, <2>2, <2>3, GrownFacts
  <2>. QED BY <2>4
<1>2. \A reach \in SUBSET Squares :
        f[reach] = IF Grown(reach, walls) = reach THEN reach ELSE f[Grown(reach, walls)]
  BY <1>1
<1>3. f = [reach \in SUBSET Squares |-> f[reach]]
  OBVIOUS
<1>4. f = Flooded(f, walls)
  <2>. HIDE DEF f
  <2>. QED BY <1>2, <1>3 DEF Flooded
<1>. QED BY <1>4

\* and it is the enclosure: a round that adds nothing is the last, and each other adds
\* a square.
LEMMA FloodEncloses ==
    ASSUME NEW walls, NEW f, f = Flooded(f, walls),
           NEW start \in SUBSET Squares, start \cap walls = {}
    PROVE  f[start] = Enclosure(start, walls)
<1>. DEFINE Wrong == {reach \in SUBSET Squares : reach \cap walls = {} /\ f[reach] # Enclosure(reach, walls)}
            Sizes == {Cardinality(reach) : reach \in Wrong}
            n == Cardinality(Squares)
<1>1. SUFFICES ASSUME Wrong # {} PROVE FALSE
  OBVIOUS
<1>2. n \in Nat /\ \A x \in Sizes : x \in Nat /\ x <= n
  <2>1. IsFiniteSet(Squares) /\ \A S \in SUBSET Squares : IsFiniteSet(S) /\ Cardinality(S) \in Nat
    BY SquaresFinite
  <2>2. \A S \in SUBSET Squares : Cardinality(S) <= Cardinality(Squares)
    BY <2>1, FS_Subset
  <2>. QED BY <2>1, <2>2
<1>3. PICK j \in Sizes : \A x \in Sizes : x <= j
  <2>1. Sizes # {}
    BY <1>1
  <2>. HIDE DEF Sizes, n
  <2>. QED BY <1>2, <2>1, GreatestOf
<1>4. PICK reach \in Wrong : j = Cardinality(reach)
  BY <1>3
<1>. DEFINE next == Grown(reach, walls)
<1>5. f[reach] = IF next = reach THEN reach ELSE f[next]
  BY <1>4 DEF Flooded
<1>6. /\ next \in SUBSET Squares /\ next \cap walls = {} /\ reach \subseteq next
      /\ next = reach => Enclosure(reach, walls) = reach
      /\ Enclosure(next, walls) = Enclosure(reach, walls)
  BY <1>4, GrownFacts
<1>7. CASE next = reach
  BY <1>4, <1>5, <1>6, <1>7
<1>8. CASE next # reach
  <2>1. next \in Wrong
    BY <1>4, <1>5, <1>6, <1>8
  <2>2. Cardinality(reach) < Cardinality(next)
    <3>1. IsFiniteSet(next) /\ Cardinality(next) \in Nat /\ Cardinality(reach) \in Nat
      BY <1>4, <1>6, SquaresFinite
    <3>. HIDE DEF next
    <3>. QED BY <1>6, <1>8, <3>1, FS_Subset
  <2>3. Cardinality(next) \in Sizes /\ Cardinality(next) \in Nat /\ Cardinality(reach) \in Nat
    BY <1>2, <1>3, <1>4, <2>1
  <2>. HIDE DEF Sizes, next
  <2>. QED BY <1>3, <1>4, <2>2, <2>3
<1>. QED BY <1>7, <1>8

\* The flood fill ends with it.
LEMMA KingReaches ==
    ASSUME NEW from \in Squares, NEW walls, from \notin walls
    PROVE  KingReachableSquares(from, walls) = Enclosure({from}, walls)
<1>. DEFINE f == CHOOSE g : g = Flooded(g, walls)
<1>1. f = Flooded(f, walls)
  BY FloodExists
<1>2. KingReachableSquares(from, walls) = f[{from}]
  BY DEF KingReachableSquares, Flooded, Grown
<1>. HIDE DEF f
<1>. QED BY <1>1, <1>2, FloodEncloses

\* A king goes back where it came from.
LEMMA KingBothWays ==
    ASSUME NEW s \in Squares, NEW t \in Squares, t \in KingAttacks[s]
    PROVE  s \in KingAttacks[t]
<1>1. PICK d \in Directions : At(s, d, 1, t)
  BY KingSteps
<1>2. At(t, -d, 1, s) /\ -d \in Directions
  <2>1. 1 \in 0..7
    OBVIOUS
  <2>. QED BY <1>1, <2>1, Backwards
<1>. QED BY <1>2, KingSteps

-----------------------------------------------------------------------------
(***************************************************************************)
(* Blocked positions: pawns and kings only, and nothing to take.           *)
(***************************************************************************)
\* The walls are where their pawns attack, and every pawn.
Walls(p, c) ==
    p.byType["pawn"] \cup PawnAttackSpan(PiecesOf(p, Opposite(c), "pawn"), Opposite(c))

\* What a blocked board holds.
LEMMA BlockedMen ==
    ASSUME NEW p, Legal(p), IsBlockedDeadPosition(p)
    PROVE  /\ \A s \in Squares : Type(p.board[s]) \in {"pawn", "king"} \/ p.board[s] = NoPiece
           /\ p.castling = {} /\ p.epSquare = NoSquare
<1>1. Consistent(p) /\ p.board \in Boards /\ p.castling \subseteq Rights /\ \A r \in p.castling : RightSound(p, r)
  BY DEF Legal, Sound, Consistent
<1>2. \A pt \in PieceTypes : p.byType[pt] = {s \in Squares : Type(p.board[s]) = pt}
  BY <1>1 DEF Consistent, TypesOf
<1>3. \A s \in Squares : Type(p.board[s]) \notin {"knight", "bishop", "rook", "queen"}
  BY <1>2 DEF IsBlockedDeadPosition, PieceTypes
<1>4. \A s \in Squares : p.board[s] \in Pieces \/ p.board[s] = NoPiece
  BY <1>1 DEF Boards
<1>5. \A s \in Squares : Type(p.board[s]) \in {"pawn", "king"} \/ p.board[s] = NoPiece
  BY <1>3, <1>4, PieceFacts DEF PieceTypes
<1>6. ASSUME NEW r \in p.castling PROVE FALSE
  <2>1. p.castlingRook[r] \in Squares /\ p.board[p.castlingRook[r]] = MakePiece(r[1], "rook")
    BY <1>1 DEF RightSound
  <2>2. Type(p.board[p.castlingRook[r]]) = "rook"
    BY <2>1 DEF MakePiece, Type
  <2>. QED BY <1>3, <2>1, <2>2
<1>. QED BY <1>5, <1>6 DEF IsBlockedDeadPosition

\* The pawn attacks of a color, on the board.
LEMMA SpanIs ==
    ASSUME NEW p, Consistent(p), NEW c \in Colors, NEW t \in Squares
    PROVE  t \in PawnAttackSpan(PiecesOf(p, c, "pawn"), c) <=>
             \E a \in Squares : p.board[a] = MakePiece(c, "pawn") /\ t \in PawnAttacks[c][a]
  BY PiecesStand DEF PawnAttackSpan, PieceTypes

\* A king on a square that enemy pawns do not attack, apart from the other king, is
\* not in check.
LEMMA BlockedNoCheck ==
    ASSUME NEW p, Legal(p), IsBlockedDeadPosition(p)
    PROVE  ~InCheck(p)
<1>. DEFINE us == p.side
            them == Opposite(us)
            b == p.board
            k == KingSquare(p, us)
<1>1. /\ us \in Colors /\ them \in Colors /\ Sound(p) /\ BothKings(p) /\ Consistent(p)
      /\ KingSafe(b, them) /\ b \in Boards
  BY ManTypes DEF Legal, Sound, Consistent
<1>2. /\ k \in Squares /\ b[k] = MakePiece(us, "king")
      /\ Checkers(p) = {a \in Squares : Color(b[a]) = them /\ Assails(b[a], a, k, Manned(b))}
  BY <1>1, CheckersAre
<1>. SUFFICES ASSUME NEW a \in Squares, Color(b[a]) = them, Assails(b[a], a, k, Manned(b))
              PROVE  FALSE
  BY <1>2 DEF InCheck
<1>3. b[a] = MakePiece(them, "pawn") \/ b[a] = MakePiece(them, "king")
  <2>1. b[a] # NoPiece /\ b[a] \in Pieces
    BY <1>1, PieceFacts DEF Boards
  <2>2. Type(b[a]) \in {"pawn", "king"}
    BY <2>1, BlockedMen
  <2>. QED BY <2>1, <2>2, PieceFacts
<1>4. CASE b[a] = MakePiece(them, "pawn")
  <2>1. k \in PawnAttacks[them][a]
    <3>. HIDE DEF b, them, k
    <3>. QED BY <1>1, <1>2, <1>4, PawnAssails
  <2>2. k \notin PawnAttackSpan(PiecesOf(p, them, "pawn"), them)
    BY <1>1 DEF IsBlockedDeadPosition, KingShutOut
  <2>. QED BY <1>1, <1>2, <1>4, <2>1, <2>2, SpanIs
<1>5. CASE b[a] = MakePiece(them, "king")
  <2>1. a \notin KingAttacks[k]
    <3>. HIDE DEF b, them, k, us
    <3>. QED BY <1>1, <1>2, <1>5, KingsApart DEF them
  <2>2. k \in KingAttacks[a]
    <3>. HIDE DEF b, them, k
    <3>. QED BY <1>2, <1>5, KingAssails
  <2>3. a \in KingAttacks[k]
    BY <1>2, <2>2, KingBothWays
  <2>. QED BY <2>1, <2>3
<1>. QED BY <1>3, <1>4, <1>5

\* The walls hold: a square the flood reaches is no wall, and the king that stands on
\* one of them next to a pawn could take it.
LEMMA KingWalled ==
    ASSUME NEW p, Legal(p), IsBlockedDeadPosition(p), NEW c \in Colors
    PROVE  LET k == KingSquare(p, c)
               reach == KingReachableSquares(k, Walls(p, c))
           IN  /\ k \in Squares /\ p.board[k] = MakePiece(c, "king") /\ k \notin Walls(p, c)
               /\ reach = Enclosure({k}, Walls(p, c)) /\ k \in reach /\ Enclosed(reach, Walls(p, c))
               /\ \A s \in PiecesOf(p, Opposite(c), "pawn") :
                    s \in PawnAttackSpan(PiecesOf(p, Opposite(c), "pawn"), Opposite(c))
                      \/ reach \cap KingAttacks[s] = {}
<1>. DEFINE k == KingSquare(p, c)
            walls == Walls(p, c)
            reach == KingReachableSquares(k, walls)
<1>1. Consistent(p) /\ BothKings(p) /\ KingShutOut(p, c)
  BY DEF Legal, Sound, IsBlockedDeadPosition
<1>2. k \in Squares /\ p.board[k] = MakePiece(c, "king")
  BY <1>1, KingStands DEF BothKings
<1>3. k \notin walls
  <2>1. k \notin p.byType["pawn"]
    <3>1. p.byType["pawn"] = {s \in Squares : Type(p.board[s]) = "pawn"}
      BY <1>1 DEF Consistent, TypesOf, PieceTypes
    <3>2. Type(p.board[k]) = "king"
      BY <1>2 DEF MakePiece, Type
    <3>. QED BY <3>1, <3>2
  <2>. QED BY <1>1, <2>1 DEF Walls, KingShutOut
<1>4. reach = Enclosure({k}, walls)
  BY <1>2, <1>3, KingReaches
<1>5. k \in reach /\ Enclosed(reach, walls)
  <2>1. {k} \in SUBSET Squares /\ {k} \cap walls = {}
    BY <1>2, <1>3
  <2>. HIDE DEF k, walls, reach
  <2>2. {k} \subseteq Enclosure({k}, walls) /\ Enclosed(Enclosure({k}, walls), walls)
    BY <2>1, EnclosureFacts
  <2>. QED BY <1>4, <2>2
<1>6. \A s \in PiecesOf(p, Opposite(c), "pawn") :
        s \in PawnAttackSpan(PiecesOf(p, Opposite(c), "pawn"), Opposite(c)) \/ reach \cap KingAttacks[s] = {}
  BY <1>1 DEF KingShutOut, Walls
<1>. QED BY <1>2, <1>3, <1>4, <1>5, <1>6

\* Only kings move, to empty squares.
LEMMA BlockedMoves ==
    ASSUME NEW p, Legal(p), IsBlockedDeadPosition(p), NEW m \in GenerateLegalMoves(p)
    PROVE  LET k == KingSquare(p, p.side)
           IN  \E t \in KingAttacks[k] : m = Normal(k, t) /\ p.board[t] = NoPiece
<1>. DEFINE us == p.side
            them == Opposite(us)
            b == p.board
            k == KingSquare(p, us)
<1>1. /\ us \in Colors /\ them \in Colors /\ Opposite(them) = us /\ them # us /\ Sound(p) /\ BothKings(p)
      /\ Consistent(p) /\ KingsOnce(p) /\ b \in Boards /\ LawfulMove(p, m) /\ Playable(b, us, m)
  BY ManTypes, GeneratesTheLaws, GeneratedPlayable DEF Legal, Sound, Consistent
<1>2. /\ \A s \in Squares : Type(b[s]) \in {"pawn", "king"} \/ b[s] = NoPiece
      /\ p.castling = {} /\ p.epSquare = NoSquare
  BY BlockedMen
<1>3. \A s \in Squares : b[s] \in Pieces \/ b[s] = NoPiece
  BY <1>1 DEF Boards
<1>4. ~PassantCan(p, m) /\ ~CastleCan(p, m)
  BY <1>2 DEF PassantCan, CastleCan
<1>5. b[m.to] # MakePiece(them, "king")
  BY <1>1, KingNotTaken
<1>6. \A c \in Colors : PiecesOf(p, c, "pawn") = {s \in Squares : b[s] = MakePiece(c, "pawn")}
  BY <1>1, PiecesStand DEF PieceTypes
<1>7. p.byType["pawn"] = {s \in Squares : Type(b[s]) = "pawn"}
  BY <1>1 DEF Consistent, TypesOf, PieceTypes
<1>8. ~PawnCan(b, us, m)
  <2>. SUFFICES ASSUME NEW f \in Squares, NEW t \in Squares, b[f] = MakePiece(us, "pawn"), PawnGoes(b, us, f, t),
                       m \in PawnMove(f, t, IF us = White THEN 7 ELSE 0)
                PROVE  FALSE
    BY DEF PawnCan
  <2>1. m.to = t
    BY DEF PawnMove, Normal, Promotion
  <2>2. Type(b[f + PawnPush(us)]) = "pawn" /\ f + PawnPush(us) \in Squares
    BY <1>1, <1>6, <1>7 DEF IsBlockedDeadPosition, PawnsFrozen
  <2>3. b[f + PawnPush(us)] # NoPiece
    BY <2>2, PieceFacts DEF PieceTypes
  <2>4. t \in PawnAttacks[us][f] /\ Color(b[t]) = them
    BY <2>3 DEF PawnGoes
  <2>5. b[t] = MakePiece(them, "pawn")
    <3>1. b[t] \in Pieces
      BY <1>1, <1>3, <2>4, PieceFacts
    <3>2. Type(b[t]) \in {"pawn", "king"} /\ b[t] = MakePiece(them, Type(b[t]))
      BY <1>2, <2>4, <3>1, PieceFacts
    <3>. QED BY <1>5, <2>1, <3>2
  <2>. QED BY <1>1, <1>6, <2>4, <2>5 DEF IsBlockedDeadPosition, PawnsFrozen
<1>9. PieceCan(b, us, m)
  BY <1>1, <1>4, <1>8 DEF LawfulMove
<1>10. PICK f \in Squares, t \in Squares : /\ m = Normal(f, t) /\ Color(b[f]) = us /\ Type(b[f]) # "pawn"
                                           /\ Color(b[t]) # us /\ Assails(b[f], f, t, Manned(b))
  BY <1>9 DEF PieceCan
<1>11. m.from = f /\ m.to = t /\ m.kind = "normal"
  BY <1>10 DEF Normal
<1>12. f = k /\ b[k] = MakePiece(us, "king") /\ t \in KingAttacks[k]
  <2>1. b[f] \in Pieces
    BY <1>1, <1>3, <1>10, PieceFacts
  <2>2. b[f] = MakePiece(us, "king")
    BY <1>2, <1>10, <2>1, PieceFacts
  <2>3. f = k
    BY <1>1, <2>2, KingFound
  <2>. HIDE DEF k, b, us
  <2>4. t \in KingAttacks[f]
    BY <1>10, <2>2, KingAssails
  <2>. QED BY <2>2, <2>3, <2>4
<1>13. CASE b[t] = NoPiece
  BY <1>10, <1>12, <1>13
<1>14. CASE b[t] # NoPiece
  <2>1. b[t] = MakePiece(them, "pawn")
    <3>1. b[t] \in Pieces
      BY <1>3, <1>14
    <3>2. Color(b[t]) = them
      BY <1>1, <1>10, <3>1, PieceFacts DEF Colors, Opposite
    <3>3. Type(b[t]) \in {"pawn", "king"} /\ b[t] = MakePiece(them, Type(b[t]))
      BY <1>2, <1>14, <3>1, <3>2, PieceFacts
    <3>. QED BY <1>5, <1>11, <3>3
  <2>2. t \in PiecesOf(p, them, "pawn")
    BY <1>1, <1>6, <2>1
  <2>3. t \notin PawnAttackSpan(PiecesOf(p, them, "pawn"), them)
    <3>. SUFFICES ASSUME NEW a \in Squares, b[a] = MakePiece(them, "pawn"), t \in PawnAttacks[them][a]
                  PROVE  FALSE
      BY <1>1, SpanIs
    <3>. DEFINE d == BoardAfter(b, us, m)
    <3>1. KingSafe(d, us)
      BY <1>1 DEF LawfulMove, LeavesSafe
    <3>2. a # t /\ a # f
      <4>1. a # t
        BY <1>1, PawnAttacksLand
      <4>2. MakePiece(them, "pawn") # MakePiece(us, "king")
        BY DEF MakePiece
      <4>. QED BY <1>12, <4>1, <4>2
    <3>3. d = [b EXCEPT ![f] = NoPiece, ![t] = b[f]]
      BY <1>11 DEF BoardAfter
    <3>4. d[a] = b[a] /\ d[t] = MakePiece(us, "king")
      BY <1>1, <1>12, <3>2, <3>3 DEF Boards
    <3>5. Color(d[a]) = them
      BY <1>1, <3>4, PieceFacts DEF PieceTypes
    <3>. HIDE DEF d, b, us, them
    <3>6. Assails(d[a], a, t, Manned(d))
      BY <1>1, <3>4, PawnAssails
    <3>. QED BY <3>1, <3>4, <3>5, <3>6 DEF KingSafe, them
  <2>4. k \in KingReachableSquares(k, Walls(p, us)) /\ KingReachableSquares(k, Walls(p, us)) \cap KingAttacks[t] = {}
    BY <1>1, <2>2, <2>3, KingWalled
  <2>5. k \in KingAttacks[t]
    BY <1>12, KingBothWays
  <2>. QED BY <2>4, <2>5
<1>. QED BY <1>13, <1>14

\* What a blocked position comes to when a king steps to an empty square.
LEMMA BlockedStays ==
    ASSUME NEW p, Legal(p), IsBlockedDeadPosition(p), NEW m \in GenerateLegalMoves(p)
    PROVE  IsBlockedDeadPosition(MakeMove(p, m))
<1>. DEFINE us == p.side
            them == Opposite(us)
            b == p.board
            k == KingSquare(p, us)
            q == MakeMove(p, m)
            d == BoardAfter(b, us, m)
<1>1. /\ us \in Colors /\ them \in Colors /\ Opposite(them) = us /\ them # us /\ Sound(p) /\ BothKings(p)
      /\ Consistent(p) /\ KingsOnce(p) /\ b \in Boards /\ Playable(b, us, m)
  BY ManTypes, GeneratedPlayable DEF Legal, Sound, Consistent
<1>2. PICK t \in KingAttacks[k] : m = Normal(k, t) /\ b[t] = NoPiece
  BY BlockedMoves
<1>3. k \in Squares /\ b[k] = MakePiece(us, "king") /\ t \in Squares /\ t # k
  BY <1>1, <1>2, KingStands, KingAttacksLand DEF BothKings
<1>4. m.from = k /\ m.to = t /\ m.kind = "normal" /\ d = [b EXCEPT ![k] = NoPiece, ![t] = MakePiece(us, "king")]
  BY <1>2, <1>3 DEF Normal, BoardAfter
<1>5. /\ d[k] = NoPiece /\ d[t] = MakePiece(us, "king")
      /\ \A s \in Squares \ {k, t} : d[s] = b[s]
  BY <1>1, <1>3, <1>4 DEF Boards
<1>6. /\ Legal(q) /\ Consistent(q) /\ KingsOnce(q) /\ BothKings(q) /\ q.board = d /\ q.side = them
      /\ KingSafe(d, us)
  BY <1>1, GeneratedMovesAreLegal, MoveMade DEF Legal, Sound
<1>7. q.epSquare = NoSquare
  <2>1. Type(b[m.from]) # "pawn"
    BY <1>3, <1>4 DEF MakePiece, Type
  <2>. QED BY <1>1, <2>1, MoveMade
<1>. HIDE DEF q, d
\* No man but the king has moved.
<1>8. \A pt \in PieceTypes \ {"king"} :
        /\ q.byType[pt] = p.byType[pt]
        /\ \A c \in Colors : PiecesOf(q, c, pt) = PiecesOf(p, c, pt)
  <2>. TAKE pt \in PieceTypes \ {"king"}
  <2>1. \A s \in Squares, c \in Colors : /\ Type(d[s]) = pt <=> Type(b[s]) = pt
                                         /\ d[s] = MakePiece(c, pt) <=> b[s] = MakePiece(c, pt)
    <3>1. /\ Type(d[k]) # pt /\ Type(b[k]) # pt /\ Type(d[t]) # pt /\ Type(b[t]) # pt
          /\ \A c \in Colors : Type(MakePiece(c, pt)) = pt
      BY <1>1, <1>2, <1>3, <1>5, PieceFacts DEF PieceTypes
    <3>. HIDE DEF b, k
    <3>. QED BY <1>5, <3>1
  <2>2. q.byType[pt] = {s \in Squares : Type(d[s]) = pt} /\ p.byType[pt] = {s \in Squares : Type(b[s]) = pt}
    BY <1>1, <1>6 DEF Consistent, TypesOf
  <2>3. \A c \in Colors : /\ PiecesOf(q, c, pt) = {s \in Squares : d[s] = MakePiece(c, pt)}
                          /\ PiecesOf(p, c, pt) = {s \in Squares : b[s] = MakePiece(c, pt)}
    BY <1>1, <1>6, PiecesStand
  <2>. HIDE DEF b
  <2>4. q.byType[pt] = p.byType[pt]
    BY <1>1, <2>1, <2>2
  <2>5. \A c \in Colors : PiecesOf(q, c, pt) = PiecesOf(p, c, pt)
    BY <2>1, <2>3
  <2>. QED BY <2>4, <2>5
<1>9. \A c \in Colors : Walls(q, c) = Walls(p, c)
  BY <1>8, ManTypes DEF Walls, PieceTypes
<1>10. KingShutOut(q, them)
  <2>1. KingSquare(q, them) = KingSquare(p, them)
    <3>. DEFINE e == KingSquare(p, them)
    <3>1. e \in Squares /\ b[e] = MakePiece(them, "king")
      BY <1>1, KingStands DEF BothKings
    <3>2. e # k /\ e # t
      <4>1. MakePiece(them, "king") # MakePiece(us, "king") /\ MakePiece(them, "king") # NoPiece
        BY <1>1, ManTypes DEF MakePiece
      <4>. QED BY <1>2, <1>3, <3>1, <4>1
    <3>3. d[e] = MakePiece(them, "king")
      BY <1>5, <3>1, <3>2
    <3>. HIDE DEF e
    <3>. QED BY <1>1, <1>6, <3>1, <3>3, KingFound DEF e
  <2>2. KingShutOut(p, them)
    BY <1>1 DEF IsBlockedDeadPosition
  <2>3. q.byType["pawn"] = p.byType["pawn"] /\ PiecesOf(q, Opposite(them), "pawn") = PiecesOf(p, Opposite(them), "pawn")
    BY <1>1, <1>8 DEF PieceTypes
  <2>. QED BY <2>1, <2>2, <2>3 DEF KingShutOut
<1>11. KingShutOut(q, us)
  <2>. DEFINE walls == Walls(p, us)
              old == KingReachableSquares(k, walls)
              new == KingReachableSquares(t, walls)
              theirPawns == PiecesOf(p, them, "pawn")
              attacked == PawnAttackSpan(theirPawns, them)
  <2>1. KingSquare(q, us) = t
    BY <1>1, <1>3, <1>5, <1>6, KingFound
  <2>2. t \notin attacked
    <3>. SUFFICES ASSUME NEW a \in Squares, b[a] = MakePiece(them, "pawn"), t \in PawnAttacks[them][a]
                  PROVE  FALSE
      BY <1>1, <1>3, SpanIs
    <3>1. a # t /\ a # k
      <4>1. MakePiece(them, "pawn") # MakePiece(us, "king") /\ MakePiece(them, "pawn") # NoPiece
        BY <1>1, ManTypes DEF MakePiece
      <4>. QED BY <1>2, <1>3, <4>1
    <3>2. d[a] = b[a] /\ Color(d[a]) = them
      BY <1>1, <1>5, <3>1, PieceFacts DEF PieceTypes
    <3>. HIDE DEF b, us, them, k
    <3>3. Assails(d[a], a, t, Manned(d))
      BY <1>1, <1>3, <3>2, PawnAssails
    <3>. QED BY <1>3, <1>5, <1>6, <3>2, <3>3 DEF KingSafe, them
  <2>3. t \notin walls
    <3>1. t \notin p.byType["pawn"]
      <4>1. p.byType["pawn"] = {s \in Squares : Type(b[s]) = "pawn"}
        BY <1>1 DEF Consistent, TypesOf, PieceTypes
      <4>. QED BY <1>2, <4>1, PieceFacts DEF PieceTypes
    <3>. QED BY <2>2, <3>1 DEF Walls
  <2>4. k \in old /\ Enclosed(old, walls) /\ old = Enclosure({k}, walls) /\ k \notin walls
    BY <1>1, KingWalled
  <2>5. old \in SUBSET Squares
    BY <2>4 DEF Enclosure
  <2>6. t \in old
    BY <1>2, <2>3, <2>4 DEF Enclosed
  <2>7. new \subseteq old
    <3>1. new = Enclosure({t}, walls)
      BY <1>3, <2>3, KingReaches
    <3>2. {t} \in SUBSET Squares /\ {t} \cap walls = {} /\ {t} \subseteq old
      BY <1>3, <2>3, <2>6
    <3>. HIDE DEF new, old, walls
    <3>. QED BY <2>4, <2>5, <3>1, <3>2, EnclosureFacts
  <2>8. \A s \in theirPawns : s \in attacked \/ old \cap KingAttacks[s] = {}
    BY <1>1, KingWalled
  <2>9. /\ PiecesOf(q, them, "pawn") = theirPawns
        /\ q.byType["pawn"] \cup PawnAttackSpan(PiecesOf(q, them, "pawn"), them) = walls
    BY <1>1, <1>8 DEF PieceTypes, Walls
  <2>. HIDE DEF walls, old, attacked, theirPawns
  <2>10. \A s \in theirPawns \ attacked : new \cap KingAttacks[s] = {}
    BY <2>7, <2>8
  <2>11. Opposite(us) = them
    OBVIOUS
  <2>. HIDE DEF us, them
  <2>. QED BY <2>1, <2>2, <2>9, <2>10, <2>11 DEF KingShutOut, attacked
<1>12. \A c \in Colors : PawnsFrozen(q, c)
  BY <1>8, ManTypes DEF IsBlockedDeadPosition, PawnsFrozen, PieceTypes
<1>13. \A c \in Colors : KingShutOut(q, c)
  BY <1>1, <1>10, <1>11 DEF Colors, Opposite
<1>14. \A pt \in {"pawn", "knight", "bishop", "rook", "queen"} : q.byType[pt] = p.byType[pt]
  BY <1>8 DEF PieceTypes
<1>. QED BY <1>7, <1>12, <1>13, <1>14 DEF IsBlockedDeadPosition, q

-----------------------------------------------------------------------------
(***************************************************************************)
(* Too little material: a bishop keeps to the squares of one color, a      *)
(* knight changes it, and a king has squares of the other to go to.        *)
(***************************************************************************)
Shade(s) == (File(s) + Rank(s)) % 2

\* Two shades.
LEMMA ShadesOf ==
    /\ \A s \in Squares : Shade(s) \in {0, 1}
    /\ \A s, a \in Squares, d \in BishopDirs, k \in 1..7 : At(s, d, k, a) => Shade(s) = Shade(a)
    /\ \A s, a \in Squares, d \in RookDirs : At(s, d, 1, a) => Shade(s) # Shade(a)
    /\ \A s, a \in Squares : a \in KnightAttacks[s] => Shade(s) # Shade(a)
<1>1. \A s \in Squares : File(s) \in 0..7 /\ Rank(s) \in 0..7
  BY Coordinates
<1>2. \A s \in Squares : Shade(s) \in {0, 1}
  BY <1>1 DEF Shade
<1>3. ASSUME NEW s \in Squares, NEW a \in Squares, NEW d \in BishopDirs, NEW k \in 1..7, At(s, d, k, a)
      PROVE  Shade(s) = Shade(a)
  <2>1. DX(d) \in {-1, 1} /\ DY(d) \in {-1, 1}
    BY DEF BishopDirs, DX, DY, North, South, East, West
  <2>2. File(a) = File(s) + k * DX(d) /\ Rank(a) = Rank(s) + k * DY(d)
    BY <1>3 DEF At
  <2>3. \E j \in {k, 0, -k} : File(a) + Rank(a) = File(s) + Rank(s) + 2 * j
    BY <1>1, <2>1, <2>2
  <2>. QED BY <1>1, <2>3 DEF Shade
<1>4. ASSUME NEW s \in Squares, NEW a \in Squares, NEW d \in RookDirs, At(s, d, 1, a)
      PROVE  Shade(s) # Shade(a)
  <2>1. File(a) + Rank(a) - (File(s) + Rank(s)) \in {-1, 1}
    BY <1>1, <1>4 DEF At, RookDirs, DX, DY, North, South, East, West
  <2>. QED BY <1>1, <2>1 DEF Shade
<1>5. ASSUME NEW s \in Squares, NEW a \in Squares, a \in KnightAttacks[s]
      PROVE  Shade(s) # Shade(a)
  <2>1. File(a) + Rank(a) - (File(s) + Rank(s)) \in {-3, -1, 1, 3}
    BY <1>1, <1>5, KnightSteps
  <2>. QED BY <1>1, <2>1 DEF Shade
<1>. QED BY <1>2, <1>3, <1>4, <1>5

\* A set of squares that counts at most one, without counting.
LEMMA AtMostOne ==
    ASSUME NEW S \in SUBSET Squares
    PROVE  Cardinality(S) <= 1 <=> \A s, t \in S : s = t
<1>1. IsFiniteSet(S) /\ Cardinality(S) \in Nat
  BY SquaresFinite
<1>2. ASSUME Cardinality(S) <= 1, NEW s \in S, NEW t \in S, s # t PROVE FALSE
  <2>1. {s, t} \subseteq S /\ Cardinality({s, t}) = 2
    BY <1>2, PairCounts
  <2>. QED BY <1>1, <1>2, <2>1, FS_Subset
<1>3. ASSUME \A s, t \in S : s = t, ~(Cardinality(S) <= 1) PROVE FALSE
  <2>1. Cardinality(S) > 1
    BY <1>1, <1>3
  <2>. QED BY <1>3, <2>1, TwoCheckers
<1>. QED BY <1>2, <1>3

Minor(b, s) == Type(b[s]) \in {"knight", "bishop"}
Scarce(b) ==
    /\ \A s \in Squares : Type(b[s]) \in {"knight", "bishop", "king"} \/ b[s] = NoPiece
    /\ \/ \A s, t \in Squares : Minor(b, s) /\ Minor(b, t) => s = t
       \/ \A s, t \in Squares : Minor(b, s) /\ Minor(b, t) =>
            Type(b[s]) = "bishop" /\ Type(b[t]) = "bishop" /\ Shade(s) = Shade(t)

\* Too little material, as the code counts it.
LEMMA InsufficientIsScarce ==
    ASSUME NEW p, Consistent(p)
    PROVE  IsInsufficientMaterial(p) <=> Scarce(p.board)
<1>. DEFINE b == p.board
<1>1. /\ \A pt \in PieceTypes : p.byType[pt] = {s \in Squares : Type(b[s]) = pt}
      /\ \A s \in Squares : b[s] \in Pieces \/ b[s] = NoPiece
  BY DEF Consistent, TypesOf, Boards
<1>. HIDE DEF b
<1>2. p.byType["pawn"] \cup p.byType["rook"] \cup p.byType["queen"] = {} <=>
        \A s \in Squares : Type(b[s]) \in {"knight", "bishop", "king"} \/ b[s] = NoPiece
  <2>1. \A s \in Squares : b[s] # NoPiece <=> Type(b[s]) \in PieceTypes
    BY <1>1, PieceFacts
  <2>2. p.byType["pawn"] \cup p.byType["rook"] \cup p.byType["queen"] =
          {s \in Squares : Type(b[s]) \in {"pawn", "rook", "queen"}}
    BY <1>1 DEF PieceTypes
  <2>. QED BY <2>1, <2>2 DEF PieceTypes
<1>. DEFINE minors == p.byType["knight"] \cup p.byType["bishop"]
<1>3. minors = {s \in Squares : Minor(b, s)}
  BY <1>1 DEF PieceTypes, Minor
<1>4. Cardinality(minors) <= 1 <=> \A s, t \in Squares : Minor(b, s) /\ Minor(b, t) => s = t
  <2>1. minors \in SUBSET Squares
    BY <1>3
  <2>. HIDE DEF minors
  <2>. QED BY <1>3, <2>1, AtMostOne
<1>5. /\ p.byType["knight"] = {s \in Squares : Type(b[s]) = "knight"}
      /\ p.byType["bishop"] = {s \in Squares : Type(b[s]) = "bishop"}
  BY <1>1 DEF PieceTypes
<1>6. DarkSquares = {s \in Squares : Shade(s) = 0}
  BY DEF DarkSquares, Shade
<1>7. p.byType["knight"] = {} /\ (p.byType["bishop"] \subseteq DarkSquares \/ p.byType["bishop"] \cap DarkSquares = {})
        <=> \A s, t \in Squares : Minor(b, s) /\ Minor(b, t) =>
              Type(b[s]) = "bishop" /\ Type(b[t]) = "bishop" /\ Shade(s) = Shade(t)
  BY <1>5, <1>6, ShadesOf DEF Minor
<1>. QED BY <1>2, <1>4, <1>7 DEF IsInsufficientMaterial, Scarce, b

\* What a piece of such a position assails has a known shade.
LEMMA ScarceAttack ==
    ASSUME NEW pc, NEW a \in Squares, NEW s \in Squares, NEW occ, Assails(pc, a, s, occ)
    PROVE  /\ Type(pc) = "bishop" => Shade(a) = Shade(s)
           /\ Type(pc) = "knight" => Shade(a) # Shade(s)
<1>1. ASSUME Type(pc) = "bishop" PROVE Shade(a) = Shade(s)
  <2>1. SlideDirs("bishop") = BishopDirs
    BY DEF SlideDirs
  <2>2. PICK d \in BishopDirs, k \in 1..7 : At(s, d, k, a)
    BY <1>1, <2>1 DEF Assails, Touches, Sees
  <2>. QED BY <2>2, ShadesOf
<1>2. ASSUME Type(pc) = "knight" PROVE Shade(a) # Shade(s)
  <2>1. SlideDirs("knight") = {}
    BY DEF SlideDirs
  <2>2. a \in KnightAttacks[s]
    BY <1>2, <2>1 DEF Assails, Touches
  <2>. QED BY <2>2, ShadesOf
<1>. QED BY <1>1, <1>2

\* In such a position only pieces move, so that it stays one.
LEMMA ScarceMoves ==
    ASSUME NEW p, Legal(p), Scarce(p.board), NEW m \in GenerateLegalMoves(p)
    PROVE  PieceCan(p.board, p.side, m)
<1>. DEFINE b == p.board
<1>1. Sound(p) /\ BothKings(p) /\ LawfulMove(p, m) /\ \A r \in p.castling : RightSound(p, r)
  BY GeneratesTheLaws DEF Legal, Sound
<1>2. \A s \in Squares : \A c : b[s] # MakePiece(c, "pawn") /\ b[s] # MakePiece(c, "rook")
  BY DEF Scarce, MakePiece, Type, NoPiece
<1>3. ~PawnCan(b, p.side, m) /\ ~PassantCan(p, m)
  BY <1>2 DEF PawnCan, PassantCan
<1>4. ~CastleCan(p, m)
  BY <1>1, <1>2 DEF CastleCan, RightSound
<1>. QED BY <1>1, <1>3, <1>4 DEF LawfulMove

\* It stays so.
LEMMA ScarceStays ==
    ASSUME NEW p, Legal(p), Scarce(p.board), NEW m \in GenerateLegalMoves(p)
    PROVE  Scarce(MakeMove(p, m).board)
<1>. DEFINE us == p.side
            b == p.board
            d == BoardAfter(b, us, m)
<1>1. Sound(p) /\ BothKings(p) /\ Consistent(p) /\ us \in Colors /\ b \in Boards /\ Playable(b, us, m)
  BY GeneratedPlayable DEF Legal, Sound, Consistent
<1>2. MakeMove(p, m).board = d
  BY <1>1, MoveMade
<1>3. PICK f \in Squares, t \in Squares : m = Normal(f, t) /\ Assails(b[f], f, t, Manned(b))
  BY ScarceMoves DEF PieceCan
<1>4. f # t /\ d = [b EXCEPT ![f] = NoPiece, ![t] = b[f]]
  BY <1>1, <1>3 DEF Normal, BoardAfter, Playable
<1>5. d[f] = NoPiece /\ d[t] = b[f] /\ \A s \in Squares \ {f, t} : d[s] = b[s]
  BY <1>1, <1>4 DEF Boards
<1>. HIDE DEF d, b
\* Where the man on s came from.
<1>. DEFINE Origin(s) == IF s = t THEN f ELSE s
<1>6. ~Minor(d, f)
  BY <1>5 DEF Minor, NoPiece, Type
<1>7. \A s \in Squares : Minor(d, s) => s # f /\ d[s] = b[Origin(s)] /\ Minor(b, Origin(s))
  BY <1>5, <1>6 DEF Minor
<1>8. \A s, x \in Squares \ {f} : Origin(s) = Origin(x) => s = x
  OBVIOUS
<1>9. \A s \in Squares : Minor(d, s) /\ Type(d[s]) = "bishop" => Shade(Origin(s)) = Shade(s)
  <2>1. Type(b[f]) = "bishop" => Shade(f) = Shade(t)
    BY <1>3, ScarceAttack
  <2>. QED BY <1>5, <2>1
<1>10. \A s \in Squares : Type(d[s]) \in {"knight", "bishop", "king"} \/ d[s] = NoPiece
  BY <1>5 DEF Scarce, b
<1>11. \A s \in Squares : Origin(s) \in Squares
  OBVIOUS
<1>. HIDE DEF Origin
<1>12. CASE \A s, x \in Squares : Minor(b, s) /\ Minor(b, x) => s = x
  BY <1>7, <1>8, <1>10, <1>11, <1>12, <1>2 DEF Scarce
<1>13. CASE \A s, x \in Squares : Minor(b, s) /\ Minor(b, x) =>
              Type(b[s]) = "bishop" /\ Type(b[x]) = "bishop" /\ Shade(s) = Shade(x)
  <2>1. \A s, x \in Squares : Minor(d, s) /\ Minor(d, x) =>
              Type(d[s]) = "bishop" /\ Type(d[x]) = "bishop" /\ Shade(s) = Shade(x)
    BY <1>7, <1>9, <1>11, <1>13
  <2>. QED BY <1>2, <1>10, <2>1 DEF Scarce
<1>. QED BY <1>12, <1>13 DEF Scarce, b

\* One step, by files and ranks.
LEMMA OneStep ==
    ASSUME NEW s \in Squares, NEW t \in Squares, NEW d \in Directions
    PROVE  At(s, d, 1, t) <=> File(t) - File(s) = DX(d) /\ Rank(t) - Rank(s) = DY(d)
<1>1. /\ File(s) \in 0..7 /\ Rank(s) \in 0..7 /\ File(t) \in 0..7 /\ Rank(t) \in 0..7
      /\ DX(d) \in {-1, 0, 1} /\ DY(d) \in {-1, 0, 1}
  BY Coordinates, DirectionCases
<1>2. 1 * DX(d) = DX(d) /\ 1 * DY(d) = DY(d)
  BY <1>1
<1>. QED BY <1>1, <1>2 DEF At

\* A king's step goes at most one file and one rank away.
LEMMA KingNear ==
    ASSUME NEW s \in Squares, NEW t \in Squares
    PROVE  t \in KingAttacks[s] <=> /\ File(t) - File(s) \in {-1, 0, 1} /\ Rank(t) - Rank(s) \in {-1, 0, 1}
                                    /\ t # s
<1>1. /\ File(s) \in 0..7 /\ Rank(s) \in 0..7 /\ File(t) \in 0..7 /\ Rank(t) \in 0..7
      /\ (File(s) = File(t) /\ Rank(s) = Rank(t) => s = t)
  BY Coordinates
<1>2. ASSUME t \in KingAttacks[s]
      PROVE  File(t) - File(s) \in {-1, 0, 1} /\ Rank(t) - Rank(s) \in {-1, 0, 1} /\ t # s
  <2>1. PICK d \in Directions : At(s, d, 1, t)
    BY <1>2, KingSteps
  <2>. QED BY <1>2, <2>1, OneStep, DirectionCases, KingAttacksLand
<1>3. ASSUME File(t) - File(s) \in {-1, 0, 1}, Rank(t) - Rank(s) \in {-1, 0, 1}, t # s
      PROVE  t \in KingAttacks[s]
  <2>. DEFINE dx == File(t) - File(s)
              dy == Rank(t) - Rank(s)
  <2>1. dx \in {-1, 0, 1} /\ dy \in {-1, 0, 1} /\ ~(dx = 0 /\ dy = 0)
    BY <1>1, <1>3
  <2>. HIDE DEF dx, dy
  <2>2. \E d \in Directions : DX(d) = dx /\ DY(d) = dy
    BY <2>1, DirectionSets DEF DX, DY
  <2>. QED BY <2>2, OneStep, KingSteps DEF dx, dy
<1>. QED BY <1>2, <1>3

\* There is a square beside any other on its file, and one on its rank.
LEMMA Beside ==
    ASSUME NEW s \in Squares
    PROVE  /\ \E d \in RookDirs, t \in Squares : At(s, d, 1, t) /\ File(t) = File(s)
           /\ \E d \in RookDirs, t \in Squares : At(s, d, 1, t) /\ Rank(t) = Rank(s)
<1>1. File(s) \in 0..7 /\ Rank(s) \in 0..7
  BY Coordinates
<1>2. ASSUME NEW x \in 0..7, NEW y \in 0..7, NEW d \in RookDirs, x = File(s) + DX(d), y = Rank(s) + DY(d)
      PROVE  LET t == MakeSquare(x, y) IN t \in Squares /\ At(s, d, 1, t) /\ File(t) = x /\ Rank(t) = y
  <2>. DEFINE t == MakeSquare(x, y)
  <2>1. t \in Squares /\ File(t) = x /\ Rank(t) = y
    BY Coordinates
  <2>2. d \in Directions /\ DX(d) \in {-1, 0, 1} /\ DY(d) \in {-1, 0, 1}
    BY DirectionCases DEF Directions
  <2>. HIDE DEF t
  <2>3. At(s, d, 1, t)
    BY <1>1, <1>2, <2>1, <2>2, OneStep
  <2>. QED BY <2>1, <2>3 DEF t
<1>3. \A d \in {8, -8, 1, -1} : d \in RookDirs
  BY DEF RookDirs, North, South, East, West
<1>4. DX(8) = 0 /\ DY(8) = 1 /\ DX(-8) = 0 /\ DY(-8) = -1 /\ DX(1) = 1 /\ DY(1) = 0 /\ DX(-1) = -1 /\ DY(-1) = 0
  BY DEF DX, DY
<1>5. \E d \in {8, -8} : Rank(s) + DY(d) \in 0..7 /\ File(s) + DX(d) = File(s)
  BY <1>1, <1>4
<1>6. \E d \in {1, -1} : File(s) + DX(d) \in 0..7 /\ Rank(s) + DY(d) = Rank(s)
  BY <1>1, <1>4
<1>7. \E d \in RookDirs, t \in Squares : At(s, d, 1, t) /\ File(t) = File(s)
  <2>1. PICK d \in {8, -8} : Rank(s) + DY(d) \in 0..7 /\ File(s) + DX(d) = File(s)
    BY <1>5
  <2>. QED BY <1>1, <1>2, <1>3, <2>1
<1>8. \E d \in RookDirs, t \in Squares : At(s, d, 1, t) /\ Rank(t) = Rank(s)
  <2>1. PICK d \in {1, -1} : File(s) + DX(d) \in 0..7 /\ Rank(s) + DY(d) = Rank(s)
    BY <1>6
  <2>. QED BY <1>1, <1>2, <1>3, <2>1
<1>. QED BY <1>7, <1>8

\* A step of the king along a file or a rank that keeps away from the other king.
LEMMA StepAway ==
    ASSUME NEW k \in Squares, NEW e \in Squares, e # k, e \notin KingAttacks[k]
    PROVE  \E t \in KingAttacks[k] : Shade(t) # Shade(k) /\ t # e /\ e \notin KingAttacks[t]
<1>1. /\ File(k) \in 0..7 /\ Rank(k) \in 0..7 /\ File(e) \in 0..7 /\ Rank(e) \in 0..7
      /\ \A t \in Squares : File(t) \in 0..7 /\ Rank(t) \in 0..7
  BY Coordinates
<1>2. File(e) - File(k) \notin {-1, 0, 1} \/ Rank(e) - Rank(k) \notin {-1, 0, 1}
  BY KingNear
<1>3. ASSUME NEW t \in Squares, File(e) - File(t) \notin {-1, 0, 1} \/ Rank(e) - Rank(t) \notin {-1, 0, 1}
      PROVE  t # e /\ e \notin KingAttacks[t]
  BY <1>1, <1>3, KingNear
<1>4. ASSUME NEW d \in RookDirs, NEW t \in Squares, At(k, d, 1, t)
      PROVE  t \in KingAttacks[k] /\ Shade(t) # Shade(k)
  BY <1>4, KingSteps, ShadesOf DEF Directions
<1>5. CASE File(e) - File(k) \notin {-1, 0, 1}
  <2>1. PICK d \in RookDirs, t \in Squares : At(k, d, 1, t) /\ File(t) = File(k)
    BY Beside
  <2>. QED BY <1>3, <1>4, <1>5, <2>1
<1>6. CASE Rank(e) - Rank(k) \notin {-1, 0, 1}
  <2>1. PICK d \in RookDirs, t \in Squares : At(k, d, 1, t) /\ Rank(t) = Rank(k)
    BY Beside
  <2>. QED BY <1>3, <1>4, <1>6, <2>1
<1>. QED BY <1>2, <1>5, <1>6

\* A king in check goes to a square of the other shade.
LEMMA ScarceEscape ==
    ASSUME NEW p, Legal(p), Scarce(p.board), InCheck(p)
    PROVE  GenerateLegalMoves(p) # {}
<1>. DEFINE us == p.side
            them == Opposite(us)
            b == p.board
            k == KingSquare(p, us)
            e == KingSquare(p, them)
<1>1. /\ us \in Colors /\ them \in Colors /\ Opposite(them) = us /\ them # us /\ Sound(p) /\ BothKings(p)
      /\ Consistent(p) /\ KingsOnce(p) /\ b \in Boards /\ KingSafe(b, them)
  BY ManTypes DEF Legal, Sound, Consistent
<1>2. /\ k \in Squares /\ b[k] = MakePiece(us, "king")
      /\ Checkers(p) = {a \in Squares : Color(b[a]) = them /\ Assails(b[a], a, k, Manned(b))}
  BY <1>1, CheckersAre
<1>3. e \in Squares /\ b[e] = MakePiece(them, "king")
  BY <1>1, KingStands DEF BothKings
<1>4. /\ \A s \in Squares : b[s] \in Pieces \/ b[s] = NoPiece
      /\ \A s \in Squares : Type(b[s]) \in {"knight", "bishop", "king"} \/ b[s] = NoPiece
  BY <1>1 DEF Boards, Scarce
<1>5. \A c \in Colors, s \in Squares : Color(b[s]) = c => b[s] = MakePiece(c, "king") \/ Minor(b, s)
  BY <1>4, PieceFacts DEF Minor
<1>6. PICK a \in Squares : Color(b[a]) = them /\ Assails(b[a], a, k, Manned(b))
  BY <1>2 DEF InCheck
<1>7. e \notin KingAttacks[k] /\ e # k
  <2>1. MakePiece(us, "king") # MakePiece(them, "king")
    BY <1>1 DEF MakePiece
  <2>. HIDE DEF b, k, e, us, them
  <2>. QED BY <1>1, <1>2, <1>3, <2>1, KingsApart DEF them
<1>8. \A s \in Squares : b[s] = MakePiece(them, "king") => s = e
  BY <1>1, <1>3 DEF KingsOnce
<1>. HIDE DEF b, k, e, us, them
<1>9. \A x, s \in Squares : b[x] = MakePiece(them, "king") /\ Assails(b[x], x, s, Manned(b)) => e \in KingAttacks[s]
  BY <1>3, <1>8, KingAssails, KingBothWays
<1>10. Minor(b, a)
  BY <1>1, <1>2, <1>5, <1>6, <1>7, <1>9
<1>11. \A s \in Squares : Minor(b, s) => /\ Type(b[s]) = "bishop" => Shade(s) = Shade(k)
                                         /\ Type(b[s]) = "knight" => Shade(s) # Shade(k)
                                         /\ Color(b[s]) = us => Shade(s) = Shade(k)
  <2>1. /\ Type(b[a]) = "bishop" => Shade(a) = Shade(k)
        /\ Type(b[a]) = "knight" => Shade(a) # Shade(k)
    BY <1>2, <1>6, ScarceAttack
  <2>2. CASE \A s, t \in Squares : Minor(b, s) /\ Minor(b, t) => s = t
    <3>1. \A s \in Squares : Minor(b, s) => s = a
      BY <1>10, <2>2
    <3>. QED BY <1>1, <1>6, <2>1, <3>1
  <2>3. CASE \A s, t \in Squares : Minor(b, s) /\ Minor(b, t) =>
               Type(b[s]) = "bishop" /\ Type(b[t]) = "bishop" /\ Shade(s) = Shade(t)
    <3>1. \A s \in Squares : Minor(b, s) => Type(b[s]) = "bishop" /\ Shade(s) = Shade(k)
      BY <1>10, <2>1, <2>3
    <3>. QED BY <3>1
  <2>. QED BY <2>2, <2>3 DEF Scarce, b
<1>12. PICK t \in KingAttacks[k] : Shade(t) # Shade(k) /\ t # e /\ e \notin KingAttacks[t]
  BY <1>2, <1>3, <1>7, StepAway
<1>13. t \in Squares /\ t # k
  BY <1>2, <1>12, KingAttacksLand
<1>. DEFINE m == Normal(k, t)
            d == BoardAfter(b, us, m)
<1>14. Color(b[t]) # us
  <2>1. b[t] # MakePiece(us, "king")
    BY <1>1, <1>2, <1>13 DEF KingsOnce, b
  <2>. QED BY <1>1, <1>5, <1>11, <1>12, <1>13, <2>1
<1>15. Color(b[k]) = us /\ Type(b[k]) = "king"
  BY <1>1, <1>2, PieceFacts DEF PieceTypes
<1>16. PieceCan(b, us, m)
  <2>1. Assails(b[k], k, t, Manned(b))
    BY <1>2, <1>12, <1>13, KingAssails
  <2>. QED BY <1>2, <1>13, <1>14, <1>15, <2>1 DEF PieceCan
<1>17. KingSafe(d, us)
  <2>1. d = [b EXCEPT ![k] = NoPiece, ![t] = b[k]]
    BY DEF BoardAfter, Normal
  <2>2. d[k] = NoPiece /\ d[t] = MakePiece(us, "king") /\ \A s \in Squares \ {k, t} : d[s] = b[s]
    BY <1>1, <1>2, <1>13, <2>1 DEF Boards
  <2>. HIDE DEF d, m
  <2>. SUFFICES ASSUME NEW x \in Squares, NEW s \in Squares, d[s] = MakePiece(us, "king"), Color(d[x]) = them,
                       Assails(d[x], x, s, Manned(d))
                PROVE  FALSE
    BY DEF KingSafe, them
  <2>3. s = t
    <3>1. s # k
      BY <1>1, <2>2, PieceFacts DEF PieceTypes
    <3>2. \A y \in Squares : b[y] = MakePiece(us, "king") => y = k
      BY <1>1, <1>2 DEF KingsOnce, b
    <3>. QED BY <2>2, <3>1, <3>2
  <2>4. x \notin {k, t} /\ d[x] = b[x]
    <3>1. Color(d[k]) # them /\ Color(d[t]) # them
      BY <1>1, <2>2, PieceFacts DEF PieceTypes
    <3>. QED BY <2>2, <3>1
  <2>5. CASE b[x] = MakePiece(them, "king")
    <3>1. t \in KingAttacks[x]
      BY <1>13, <2>3, <2>4, <2>5, KingAssails
    <3>. QED BY <1>8, <1>12, <1>13, <2>5, <3>1, KingBothWays
  <2>6. CASE Minor(b, x)
    <3>1. /\ Type(b[x]) = "bishop" => Shade(x) = Shade(t)
          /\ Type(b[x]) = "knight" => Shade(x) # Shade(t)
      BY <1>13, <2>3, <2>4, ScarceAttack
    <3>2. Shade(x) \in {0, 1} /\ Shade(t) \in {0, 1} /\ Shade(k) \in {0, 1}
      BY <1>2, <1>13, ShadesOf
    <3>. QED BY <1>11, <1>12, <2>6, <3>1, <3>2 DEF Minor
  <2>. QED BY <1>1, <1>5, <2>4, <2>5, <2>6
<1>18. m \in GenerateLegalMoves(p)
  BY <1>1, <1>16, <1>17, PiecesFound DEF LeavesSafe, b, us
<1>. QED BY <1>18

-----------------------------------------------------------------------------
\* In a dead position the side to move is not mated, and each of its moves leaves the
\* position dead (rules.go:357): for every blocked board of pawns and kings, however
\* they are placed, and for every board with too little material.
THEOREM DeadStaysDead ==
    ASSUME NEW p, Legal(p), IsDeadPosition(p)
    PROVE  /\ ~(InCheck(p) /\ GenerateLegalMoves(p) = {})
           /\ \A m \in GenerateLegalMoves(p) : IsDeadPosition(MakeMove(p, m))
<1>1. Consistent(p)
  BY DEF Legal, Sound
<1>2. CASE IsInsufficientMaterial(p)
  <2>1. Scarce(p.board)
    BY <1>1, <1>2, InsufficientIsScarce
  <2>2. ASSUME NEW m \in GenerateLegalMoves(p) PROVE IsInsufficientMaterial(MakeMove(p, m))
    <3>1. Consistent(MakeMove(p, m))
      BY GeneratedMovesAreLegal DEF Legal, Sound
    <3>. QED BY <2>1, <3>1, ScarceStays, InsufficientIsScarce
  <2>. QED BY <2>1, <2>2, ScarceEscape DEF IsDeadPosition
<1>3. CASE IsBlockedDeadPosition(p)
  BY <1>3, BlockedNoCheck, BlockedStays DEF IsDeadPosition
<1>. QED BY <1>2, <1>3 DEF IsDeadPosition

\* Along any game and any line, no move leads out of a dead position and nobody is
\* mated in it.
THEOREM DeadForeverHolds == Spec => []DeadForever
<1>1. LineInv => DeadForever
  <2>. SUFFICES ASSUME LineInv, IsDeadPosition(pos) PROVE DeadForever
    BY DEF DeadForever
  <2>1. Legal(pos)
    BY LineFacts
  <2>2. ~(InCheck(pos) /\ GenerateLegalMoves(pos) = {})
    BY <2>1, DeadStaysDead
  <2>3. Outcome(pos, history) # "checkmate"
    BY <2>2 DEF Outcome
  <2>4. \A m \in GenerateLegalMoves(pos) : IsDeadPosition(MakeMove(pos, m))
    BY <2>1, DeadStaysDead
  <2>. QED BY <2>3, <2>4 DEF DeadForever
<1>. QED BY <1>1, LineInvariant, PTL

-----------------------------------------------------------------------------
(***************************************************************************)
(* Laws of the squares: ways and attacks by files and ranks are those of   *)
(* the tables.                                                             *)
(***************************************************************************)
\* The steps of a way, one at a time.
LEMMA Parts ==
    ASSUME NEW n \in 1..7, NEW i \in 1..7, NEW e \in {-1, 0, 1}
    PROVE  (i * (n * e)) \div n = i * e
<1>1. CASE e = 0
  BY <1>1
<1>2. CASE e = 1
  <2>1. \A j \in 1..7 : (i * j) \div j = i
    OBVIOUS
  <2>. QED BY <1>2, <2>1
<1>3. CASE e = -1
  <2>1. /\ (i * (1 * (-1))) \div 1 = -i /\ (i * (2 * (-1))) \div 2 = -i /\ (i * (3 * (-1))) \div 3 = -i
        /\ (i * (4 * (-1))) \div 4 = -i /\ (i * (5 * (-1))) \div 5 = -i /\ (i * (6 * (-1))) \div 6 = -i
        /\ (i * (7 * (-1))) \div 7 = -i
    OBVIOUS
  <2>. QED BY <1>3, <2>1
<1>. QED BY <1>1, <1>2, <1>3

\* How far two squares on a line are apart.
LEMMA Apart ==
    ASSUME NEW s \in Squares, NEW d \in Directions, NEW k \in 1..7, NEW t \in Squares, At(s, d, k, t)
    PROVE  /\ Across(s, t) = k * DX(d) /\ Up(s, t) = k * DY(d)
           /\ Max({Abs(Across(s, t)), Abs(Up(s, t))}) = k
           /\ Across(s, t) = 0 \/ Up(s, t) = 0 \/ Abs(Across(s, t)) = Abs(Up(s, t))
<1>. DEFINE x == Across(s, t)
            y == Up(s, t)
<1>1. /\ File(s) \in 0..7 /\ Rank(s) \in 0..7 /\ File(t) \in 0..7 /\ Rank(t) \in 0..7
      /\ DX(d) \in {-1, 0, 1} /\ DY(d) \in {-1, 0, 1} /\ ~(DX(d) = 0 /\ DY(d) = 0)
  BY Coordinates, DirectionCases
<1>2. /\ k * DX(d) \in {-k, 0, k} /\ k * DY(d) \in {-k, 0, k}
      /\ ~(k * DX(d) = 0 /\ k * DY(d) = 0)
  BY <1>1
<1>3. x = k * DX(d) /\ y = k * DY(d)
  <2>. DEFINE kx == k * DX(d)
              ky == k * DY(d)
  <2>0. kx \in {-k, 0, k} /\ ky \in {-k, 0, k}
    BY <1>2
  <2>1. File(t) = File(s) + kx /\ Rank(t) = Rank(s) + ky /\ kx \in Int /\ ky \in Int
    <3>1. File(t) = File(s) + kx /\ Rank(t) = Rank(s) + ky
      BY DEF At
    <3>. HIDE DEF kx, ky
    <3>. QED BY <2>0, <3>1
  <2>. HIDE DEF kx, ky
  <2>2. File(t) - File(s) = kx /\ Rank(t) - Rank(s) = ky
    BY <1>1, <2>1
  <2>. QED BY <2>2 DEF Across, Up, kx, ky
<1>. HIDE DEF x, y
<1>4. x \in {-k, 0, k} /\ y \in {-k, 0, k} /\ ~(x = 0 /\ y = 0)
  BY <1>2, <1>3
<1>5. Abs(x) \in {0, k} /\ Abs(y) \in {0, k} /\ (Abs(x) = k \/ Abs(y) = k)
      /\ (x = 0 \/ y = 0 \/ Abs(x) = Abs(y))
  BY <1>4 DEF Abs
<1>6. Max({Abs(x), Abs(y)}) = k
  <2>1. k \in {Abs(x), Abs(y)} /\ \A z \in {Abs(x), Abs(y)} : k >= z
    BY <1>5
  <2>2. Max({Abs(x), Abs(y)}) \in {Abs(x), Abs(y)} /\ \A z \in {Abs(x), Abs(y)} : Max({Abs(x), Abs(y)}) >= z
    BY <2>1 DEF Max
  <2>. QED BY <1>5, <2>1, <2>2
<1>. QED BY <1>3, <1>5, <1>6 DEF x, y

\* The squares the laws put between two squares are those of the table,
LEMMA WayIs ==
    ASSUME NEW s \in Squares, NEW d \in Directions, NEW k \in 1..7, NEW t \in Squares, At(s, d, k, t)
    PROVE  Way[s][t] = BetweenBB[s][t]
<1>. DEFINE x == Across(s, t)
            y == Up(s, t)
<1>1. Way[s][t] = IF k < 2 THEN {} ELSE
        {MakeSquare(File(s) + (i * x) \div k, Rank(s) + (i * y) \div k) : i \in 1..(k - 1)}
  BY Apart DEF Way
<1>2. BetweenBB[s][t] = {u \in Squares : InWay(s, d, k, u)}
  BY BetweenIs
<1>3. ASSUME NEW i \in 1..(k - 1)
      PROVE  LET u == MakeSquare(File(s) + (i * x) \div k, Rank(s) + (i * y) \div k)
             IN  u \in Squares /\ At(s, d, i, u)
  <2>1. i \in 1..7 /\ i \in 0..k /\ k \in 0..7
    OBVIOUS
  <2>2. (i * x) \div k = i * DX(d) /\ (i * y) \div k = i * DY(d)
    <3>1. x = k * DX(d) /\ y = k * DY(d) /\ DX(d) \in {-1, 0, 1} /\ DY(d) \in {-1, 0, 1}
      <4>1. DX(d) \in {-1, 0, 1} /\ DY(d) \in {-1, 0, 1}
        BY DirectionCases
      <4>2. x = k * DX(d) /\ y = k * DY(d)
        BY Apart
      <4>. QED BY <4>1, <4>2
    <3>2. (i * (k * DX(d))) \div k = i * DX(d) /\ (i * (k * DY(d))) \div k = i * DY(d)
      BY <2>1, <3>1, Parts
    <3>. HIDE DEF x, y
    <3>. QED BY <3>1, <3>2
  <2>. DEFINE v == s + i * d
  <2>3. v \in Squares /\ At(s, d, i, v)
    BY <2>1, PassedOnBoard
  <2>4. /\ File(v) = File(s) + i * DX(d) /\ Rank(v) = Rank(s) + i * DY(d)
        /\ v = 8 * Rank(v) + File(v) /\ File(v) \in 0..7 /\ Rank(v) \in 0..7
    BY <2>3, Coordinates DEF At
  <2>5. MakeSquare(File(v), Rank(v)) = v
    BY <2>4 DEF MakeSquare
  <2>. HIDE DEF v, x, y
  <2>. QED BY <2>2, <2>3, <2>4, <2>5
<1>4. ASSUME NEW u \in Squares, InWay(s, d, k, u)
      PROVE  \E i \in 1..(k - 1) : u = MakeSquare(File(s) + (i * x) \div k, Rank(s) + (i * y) \div k)
  <2>1. PICK i \in 1..(k - 1) : At(s, d, i, u)
    BY <1>4 DEF InWay
  <2>2. At(s, d, i, MakeSquare(File(s) + (i * x) \div k, Rank(s) + (i * y) \div k))
        /\ MakeSquare(File(s) + (i * x) \div k, Rank(s) + (i * y) \div k) \in Squares
    BY <1>3
  <2>. QED BY <2>1, <2>2, OnePlace
<1>5. k < 2 => \A u : ~InWay(s, d, k, u)
  BY DEF InWay
<1>. HIDE DEF x, y
<1>6. CASE k < 2
  BY <1>1, <1>2, <1>5, <1>6
<1>7. CASE ~(k < 2)
  <2>1. \A u \in Way[s][t] : u \in Squares /\ InWay(s, d, k, u)
    BY <1>1, <1>3, <1>7 DEF InWay
  <2>2. \A u \in Squares : InWay(s, d, k, u) => u \in Way[s][t]
    BY <1>1, <1>4, <1>7
  <2>. QED BY <1>2, <2>1, <2>2
<1>. QED BY <1>6, <1>7

\* also where the squares are not on one line and there are none.
LEMMA WayIsBetween ==
    ASSUME NEW s \in Squares, NEW t \in Squares
    PROVE  Way[s][t] = BetweenBB[s][t]
<1>1. CASE \E d \in Directions, k \in 1..7 : At(s, d, k, t)
  BY <1>1, WayIs
<1>2. CASE \A d \in Directions, k \in 1..7 : ~At(s, d, k, t)
  <2>1. BetweenBB[s][t] = {}
    BY <1>2, BetweenNone
  <2>. DEFINE x == Across(s, t)
              y == Up(s, t)
              n == Max({Abs(x), Abs(y)})
  <2>2. SUFFICES ASSUME ~(n < 2), x = 0 \/ y = 0 \/ Abs(x) = Abs(y) PROVE FALSE
    BY <2>1 DEF Way
  <2>3. /\ File(s) \in 0..7 /\ Rank(s) \in 0..7 /\ File(t) \in 0..7 /\ Rank(t) \in 0..7
    BY Coordinates
  <2>4. x \in -7..7 /\ y \in -7..7
    BY <2>3 DEF Across, Up
  <2>5. n \in {Abs(x), Abs(y)}
    <3>1. Abs(x) \in 0..7 /\ Abs(y) \in 0..7
      BY <2>4 DEF Abs
    <3>2. \E z \in {Abs(x), Abs(y)} : \A w \in {Abs(x), Abs(y)} : z >= w
      BY <3>1
    <3>. QED BY <3>2 DEF Max
  <2>. HIDE DEF n
  <2>6. \E k \in 1..7, ex \in {-1, 0, 1}, ey \in {-1, 0, 1} : x = k * ex /\ y = k * ey /\ ~(ex = 0 /\ ey = 0)
    <3>. HIDE DEF x, y
    <3>. DEFINE sx == IF x < 0 THEN -1 ELSE IF x = 0 THEN 0 ELSE 1
                sy == IF y < 0 THEN -1 ELSE IF y = 0 THEN 0 ELSE 1
    <3>1. Abs(x) \in 0..7 /\ Abs(y) \in 0..7 /\ x = Abs(x) * sx /\ y = Abs(y) * sy
      BY <2>4 DEF Abs
    <3>2. CASE x = 0
      <4>1. Abs(y) \in 1..7 /\ x = Abs(y) * 0 /\ y = Abs(y) * sy /\ sy # 0 /\ sy \in {-1, 0, 1}
        BY <2>2, <2>4, <2>5, <3>1, <3>2 DEF Abs
      <4>. QED BY <4>1
    <3>3. CASE y = 0
      <4>1. Abs(x) \in 1..7 /\ y = Abs(x) * 0 /\ x = Abs(x) * sx /\ sx # 0 /\ sx \in {-1, 0, 1}
        BY <2>2, <2>4, <2>5, <3>1, <3>3 DEF Abs
      <4>. QED BY <4>1
    <3>4. CASE x # 0 /\ y # 0
      <4>1. Abs(x) \in 1..7 /\ y = Abs(x) * sy /\ x = Abs(x) * sx /\ sx # 0 /\ sx \in {-1, 0, 1} /\ sy \in {-1, 0, 1}
        BY <2>2, <2>4, <3>1, <3>4 DEF Abs
      <4>. QED BY <4>1
    <3>. QED BY <3>2, <3>3, <3>4
  <2>7. PICK k \in 1..7, ex \in {-1, 0, 1}, ey \in {-1, 0, 1} : x = k * ex /\ y = k * ey /\ ~(ex = 0 /\ ey = 0)
    BY <2>6
  <2>8. PICK d \in Directions : DX(d) = ex /\ DY(d) = ey
    <3>1. \E d \in Directions : DX(d) = ex /\ DY(d) = ey
      BY <2>7, DirectionSets DEF DX, DY
    <3>. QED BY <3>1
  <2>9. At(s, d, k, t)
    <3>1. File(t) = File(s) + x /\ Rank(t) = Rank(s) + y
      BY <2>3 DEF Across, Up
    <3>. HIDE DEF x, y
    <3>. QED BY <2>7, <2>8, <3>1 DEF At
  <2>. QED BY <1>2, <2>9
<1>. QED BY <1>1, <1>2

\* Squares in line, by the distances in files and ranks.
LEMMA LinesAre ==
    ASSUME NEW s \in Squares, NEW t \in Squares, s # t
    PROVE  LET x == Abs(Across(s, t))
               y == Abs(Up(s, t))
           IN  /\ x = y <=> \E d \in BishopDirs, k \in 1..7 : At(s, d, k, t)
               /\ x = 0 \/ y = 0 <=> \E d \in RookDirs, k \in 1..7 : At(s, d, k, t)
<1>. DEFINE x == Across(s, t)
            y == Up(s, t)
<1>1. /\ File(s) \in 0..7 /\ Rank(s) \in 0..7 /\ File(t) \in 0..7 /\ Rank(t) \in 0..7
      /\ ~(File(s) = File(t) /\ Rank(s) = Rank(t))
  BY Coordinates
<1>2. /\ x \in -7..7 /\ y \in -7..7 /\ ~(x = 0 /\ y = 0)
      /\ File(t) = File(s) + x /\ Rank(t) = Rank(s) + y
  BY <1>1 DEF Across, Up
<1>3. ASSUME NEW d \in Directions, NEW k \in 1..7
      PROVE  At(s, d, k, t) <=> x = k * DX(d) /\ y = k * DY(d)
  <2>1. ASSUME At(s, d, k, t) PROVE x = k * DX(d) /\ y = k * DY(d)
    BY <2>1, Apart
  <2>2. ASSUME x = k * DX(d), y = k * DY(d) PROVE At(s, d, k, t)
    <3>. HIDE DEF x, y
    <3>. QED BY <1>2, <2>2 DEF At
  <2>. QED BY <2>1, <2>2
<1>. HIDE DEF x, y
<1>9. /\ Abs(x) \in 0..7 /\ (x = Abs(x) \/ x = -Abs(x)) /\ Abs(y) \in 0..7 /\ (y = Abs(y) \/ y = -Abs(y))
       /\ (Abs(x) = 0 <=> x = 0) /\ (Abs(y) = 0 <=> y = 0) /\ ~(x = 0 /\ y = 0)
  <2>1. /\ Abs(x) \in 0..7 /\ (x = Abs(x) \/ x = -Abs(x)) /\ (Abs(x) = 0 <=> x = 0)
    BY <1>2 DEF Abs
  <2>2. /\ Abs(y) \in 0..7 /\ (y = Abs(y) \/ y = -Abs(y)) /\ (Abs(y) = 0 <=> y = 0)
    BY <1>2 DEF Abs
  <2>. QED BY <1>2, <2>1, <2>2
<1>4. ASSUME NEW d \in BishopDirs, NEW k \in 1..7, x = k * DX(d), y = k * DY(d) PROVE Abs(x) = Abs(y)
  <2>1. DX(d) \in {-1, 1} /\ DY(d) \in {-1, 1}
    BY DEF BishopDirs, DX, DY, North, South, East, West
  <2>2. x \in {-k, k} /\ y \in {-k, k}
    BY <1>4, <2>1
  <2>. QED BY <2>2 DEF Abs
<1>5. ASSUME NEW d \in RookDirs, NEW k \in 1..7, x = k * DX(d), y = k * DY(d) PROVE x = 0 \/ y = 0
  <2>1. DX(d) = 0 \/ DY(d) = 0
    BY DEF RookDirs, DX, DY, North, South, East, West
  <2>. QED BY <1>5, <2>1
<1>6. ASSUME Abs(x) = Abs(y) PROVE \E d \in BishopDirs, k \in 1..7 : x = k * DX(d) /\ y = k * DY(d)
  <2>1. /\ Abs(x) \in 1..7
        /\ x = Abs(x) \/ x = -Abs(x)
        /\ y = Abs(x) \/ y = -Abs(x)
    <3>1. Abs(x) \in 1..7
      BY <1>6, <1>9
    <3>2. y = Abs(x) \/ y = -Abs(x)
      BY <1>6, <1>9
    <3>. QED BY <1>9, <3>1, <3>2
  <2>. DEFINE k == Abs(x)
  <2>2. \E d \in BishopDirs : x = k * DX(d) /\ y = k * DY(d)
    <3>1. /\ {9, 7, -7, -9} \subseteq BishopDirs
          /\ DX(9) = 1 /\ DY(9) = 1 /\ DX(-7) = 1 /\ DY(-7) = -1
          /\ DX(7) = -1 /\ DY(7) = 1 /\ DX(-9) = -1 /\ DY(-9) = -1
      BY DEF BishopDirs, DX, DY, North, South, East, West
    <3>2. k \in 1..7 /\ (x = k \/ x = -k) /\ (y = k \/ y = -k)
      BY <2>1
    <3>. HIDE DEF k
    <3>3. \A e \in {-1, 1} : k * e = IF e = 1 THEN k ELSE -k
      BY <3>2
    <3>4. \E e \in {-1, 1} : x = k * e
      BY <3>2, <3>3
    <3>5. \E e \in {-1, 1} : y = k * e
      BY <3>2, <3>3
    <3>6. \A e \in {-1, 1}, g \in {-1, 1} : \E d \in {9, 7, -7, -9} : DX(d) = e /\ DY(d) = g
      BY <3>1
    <3>. QED BY <3>1, <3>4, <3>5, <3>6
  <2>. QED BY <2>1, <2>2
<1>7. ASSUME x = 0 \/ y = 0 PROVE \E d \in RookDirs, k \in 1..7 : x = k * DX(d) /\ y = k * DY(d)
  <2>. DEFINE k == IF x = 0 THEN Abs(y) ELSE Abs(x)
  <2>1. k \in 1..7 /\ ((x = 0 /\ y \in {-k, k}) \/ (y = 0 /\ x \in {-k, k}))
    <3>1. CASE x = 0
      BY <1>9, <3>1
    <3>2. CASE x # 0
      BY <1>7, <1>9, <3>2
    <3>. QED BY <3>1, <3>2
  <2>. HIDE DEF k
  <2>2. /\ {8, -8, 1, -1} \subseteq RookDirs
        /\ DX(8) = 0 /\ DY(8) = 1 /\ DX(-8) = 0 /\ DY(-8) = -1
        /\ DX(1) = 1 /\ DY(1) = 0 /\ DX(-1) = -1 /\ DY(-1) = 0
    BY DEF RookDirs, DX, DY, North, South, East, West
  <2>3. k * 0 = 0 /\ k * 1 = k /\ k * (-1) = -k
    BY <2>1
  <2>4. \E d \in {8, -8, 1, -1} : x = k * DX(d) /\ y = k * DY(d)
    BY <2>1, <2>2, <2>3
  <2>. QED BY <2>1, <2>2, <2>4
<1>8. BishopDirs \subseteq Directions /\ RookDirs \subseteq Directions
  BY DEF Directions
<1>10. Abs(x) = Abs(y) <=> \E d \in BishopDirs, k \in 1..7 : At(s, d, k, t)
  BY <1>3, <1>4, <1>6, <1>8
<1>11. x = 0 \/ y = 0 <=> \E d \in RookDirs, k \in 1..7 : At(s, d, k, t)
  BY <1>3, <1>5, <1>7, <1>8
<1>. QED BY <1>10, <1>11, <1>9 DEF x, y

\* Nothing is in the way of a step, or of a leap.
LEMMA StepsFree ==
    ASSUME NEW s \in Squares, NEW t \in Squares, t \in KingAttacks[s] \/ t \in KnightAttacks[s]
    PROVE  Way[s][t] = {}
<1>1. CASE t \in KingAttacks[s]
  <2>1. PICK d \in Directions : At(s, d, 1, t)
    BY <1>1, KingSteps
  <2>2. BetweenBB[s][t] = {u \in Squares : InWay(s, d, 1, u)}
    BY <2>1, BetweenIs
  <2>3. \A u : ~InWay(s, d, 1, u)
    BY DEF InWay
  <2>. QED BY <2>2, <2>3, WayIsBetween
<1>2. CASE t \in KnightAttacks[s]
  <2>1. \A d \in Directions, k \in 1..7 : ~At(s, d, k, t)
    BY <1>2, KnightAside
  <2>. QED BY <2>1, BetweenNone, WayIsBetween
<1>. QED BY <1>1, <1>2

\* What slides.
LEMMA SlidersReach ==
    ASSUME NEW b \in Boards, NEW a \in Squares, NEW s \in Squares, a # s,
           NEW dirs, dirs \in SUBSET Directions, \A d \in dirs : -d \in dirs
    PROVE  (\E d \in dirs, k \in 1..7 : Sees(s, d, k, a, Manned(b))) <=>
             (\E d \in dirs, k \in 1..7 : At(a, d, k, s)) /\ \A u \in Way[a][s] : b[u] = NoPiece
<1>1. ASSUME NEW d \in dirs, NEW k \in 1..7, Sees(s, d, k, a, Manned(b))
      PROVE  (\E e \in dirs, j \in 1..7 : At(a, e, j, s)) /\ \A u \in Way[a][s] : b[u] = NoPiece
  <2>1. At(s, d, k, a) /\ k \in 0..7 /\ d \in Directions /\ \A u \in Manned(b) : ~InWay(s, d, k, u)
    BY <1>1 DEF Sees
  <2>2. At(a, -d, k, s) /\ -d \in dirs /\ -d \in Directions
    BY <2>1, Backwards
  <2>3. Way[a][s] = {u \in Squares : InWay(a, -d, k, u)}
    BY <2>2, BetweenIs, WayIsBetween
  <2>4. \A u \in Squares : InWay(a, -d, k, u) => InWay(s, -(-d), k, u)
    BY <2>1, <2>2, Backwards
  <2>5. -(-d) = d
    BY <2>1, DirectionCases
  <2>. QED BY <2>1, <2>2, <2>3, <2>4, <2>5 DEF Manned
<1>2. ASSUME NEW d \in dirs, NEW k \in 1..7, At(a, d, k, s), \A u \in Way[a][s] : b[u] = NoPiece
      PROVE  \E e \in dirs, j \in 1..7 : Sees(s, e, j, a, Manned(b))
  <2>1. d \in Directions /\ k \in 0..7 /\ -d \in dirs /\ -d \in Directions
    BY DirectionCases
  <2>2. At(s, -d, k, a)
    BY <1>2, <2>1, Backwards
  <2>3. Way[a][s] = {u \in Squares : InWay(a, d, k, u)}
    BY <1>2, <2>1, BetweenIs, WayIsBetween
  <2>4. \A u \in Squares : InWay(s, -d, k, u) => InWay(a, -(-d), k, u)
    BY <2>1, <2>2, Backwards
  <2>5. -(-d) = d
    BY <2>1, DirectionCases
  <2>6. \A u \in Manned(b) : ~InWay(s, -d, k, u)
    BY <1>2, <2>3, <2>4, <2>5 DEF Manned
  <2>. QED BY <2>1, <2>2, <2>6 DEF Sees
<1>. QED BY <1>1, <1>2

\* A knight's leap, by distances.
LEMMA LeapsAre ==
    ASSUME NEW a \in Squares, NEW s \in Squares
    PROVE  a \in KnightAttacks[s] <=> {Abs(Across(a, s)), Abs(Up(a, s))} = {1, 2}
<1>. DEFINE x == Across(a, s)
            y == Up(a, s)
<1>1. /\ File(s) \in 0..7 /\ Rank(s) \in 0..7 /\ File(a) \in 0..7 /\ Rank(a) \in 0..7
  BY Coordinates
<1>2. x \in Int /\ y \in Int /\ File(a) - File(s) = -x /\ Rank(a) - Rank(s) = -y
  BY <1>1 DEF Across, Up
<1>3. a \in KnightAttacks[s] <=> \/ -x \in {-1, 1} /\ -y \in {-2, 2}
                                 \/ -x \in {-2, 2} /\ -y \in {-1, 1}
  BY <1>2, KnightSteps
<1>. HIDE DEF x, y
<1>4. \A z \in Int : /\ Abs(z) \in Int /\ (Abs(z) = 1 <=> -z \in {-1, 1}) /\ (Abs(z) = 2 <=> -z \in {-2, 2})
  BY DEF Abs
<1>5. \A v, w \in Int : {v, w} = {1, 2} <=> (v = 1 /\ w = 2) \/ (v = 2 /\ w = 1)
  OBVIOUS
<1>6. a \in KnightAttacks[s] <=> \/ Abs(x) = 1 /\ Abs(y) = 2
                                 \/ Abs(x) = 2 /\ Abs(y) = 1
  BY <1>2, <1>3, <1>4
<1>7. {Abs(x), Abs(y)} = {1, 2} <=> (Abs(x) = 1 /\ Abs(y) = 2) \/ (Abs(x) = 2 /\ Abs(y) = 1)
  BY <1>2, <1>4, <1>5
<1>. QED BY <1>6, <1>7 DEF x, y

\* Attacks by the laws are those the generator's tables give.
LEMMA AttacksAre ==
    ASSUME NEW b \in Boards, NEW a \in Squares, NEW s \in Squares, b[a] # NoPiece
    PROVE  Attacks(b, a, s) <=> Assails(b[a], a, s, Manned(b))
<1>. DEFINE pc == b[a]
            x == Across(a, s)
            y == Up(a, s)
            free == \A u \in Way[a][s] : b[u] = NoPiece
<1>1. pc \in Pieces /\ Type(pc) \in PieceTypes /\ Color(pc) \in Colors /\ pc = MakePiece(Color(pc), Type(pc))
  BY PieceFacts DEF Boards
<1>2. /\ File(s) \in 0..7 /\ Rank(s) \in 0..7 /\ File(a) \in 0..7 /\ Rank(a) \in 0..7
  BY Coordinates
<1>3. x \in -7..7 /\ y \in -7..7 /\ File(s) - File(a) = x /\ Rank(s) - Rank(a) = y
  BY <1>2 DEF Across, Up
<1>4. Attacks(b, a, s) <=> Reaches(pc, a, s) /\ free
  BY DEF Attacks
<1>. HIDE DEF pc
<1>5. CASE a = s
  <2>1. ~Reaches(pc, a, s)
    BY <1>5 DEF Reaches
  <2>2. ~Assails(pc, a, s, Manned(b))
    BY <1>1, <1>5, NoSelfAttack
  <2>. QED BY <1>4, <2>1, <2>2 DEF pc
<1>6. CASE Type(pc) = "pawn"
  <2>1. Assails(pc, a, s, Manned(b)) <=> s \in PawnAttacks[Color(pc)][a]
    BY <1>1, <1>6, PawnAssails DEF pc
  <2>2. s \in PawnAttacks[Color(pc)][a] <=> a # s /\ Abs(x) = 1 /\ y = Forward(Color(pc))
    <3>. DEFINE c == Color(pc)
    <3>1. c \in Colors /\ PawnPush(c) + East \in Directions /\ PawnPush(c) + West \in Directions
      BY <1>1, PawnDirections
    <3>2. s \in PawnAttacks[c][a] <=> At(a, PawnPush(c) + East, 1, s) \/ At(a, PawnPush(c) + West, 1, s)
      BY <3>1, PawnSteps
    <3>3. /\ DX(PawnPush(c) + East) = 1 /\ DY(PawnPush(c) + East) = Forward(c)
          /\ DX(PawnPush(c) + West) = -1 /\ DY(PawnPush(c) + West) = Forward(c)
      BY <3>1 DEF Colors, PawnPush, East, West, North, South, DX, DY, Forward, White, Black
    <3>4. Abs(x) = 1 <=> x \in {1, -1}
      BY <1>3 DEF Abs
    <3>5. Forward(c) # 0
      BY DEF Forward
    <3>6. s = a => y = 0
      BY <1>2 DEF Up
    <3>. HIDE DEF c, x, y
    <3>. QED BY <1>3, <3>1, <3>2, <3>3, <3>4, <3>5, <3>6, OneStep DEF c
  <2>3. s \in PawnAttacks[Color(pc)][a] => free
    <3>1. ASSUME s \in PawnAttacks[Color(pc)][a] PROVE s \in KingAttacks[a]
      BY <1>1, <3>1, PawnSteps, PawnDirections, KingSteps
    <3>. QED BY <3>1, StepsFree
  <2>4. Reaches(pc, a, s) <=> a # s /\ Abs(x) = 1 /\ y = Forward(Color(pc))
    BY <1>6 DEF Reaches
  <2>. HIDE DEF x, y, free
  <2>. QED BY <1>4, <2>1, <2>2, <2>3, <2>4 DEF pc
<1>7. CASE Type(pc) = "knight"
  <2>1. Assails(pc, a, s, Manned(b)) <=> a \in KnightAttacks[s]
    BY <1>7 DEF Assails, Touches, SlideDirs
  <2>2. Reaches(pc, a, s) <=> a # s /\ {Abs(x), Abs(y)} = {1, 2}
    BY <1>7 DEF Reaches
  <2>3. a \in KnightAttacks[s] => free
    BY KnightAside, StepsFree
  <2>4. a \in KnightAttacks[s] => a # s
    BY ShadesOf
  <2>. HIDE DEF free
  <2>. QED BY <1>4, <2>1, <2>2, <2>3, <2>4, LeapsAre DEF pc
<1>8. CASE Type(pc) = "king"
  <2>1. Assails(pc, a, s, Manned(b)) <=> s \in KingAttacks[a]
    BY <1>1, <1>8, KingAssails DEF pc
  <2>2. Reaches(pc, a, s) <=> a # s /\ Max({Abs(x), Abs(y)}) = 1
    BY <1>8 DEF Reaches
  <2>3. s \in KingAttacks[a] <=> x \in {-1, 0, 1} /\ y \in {-1, 0, 1} /\ s # a
    BY <1>3, KingNear
  <2>4. s # a => ~(x = 0 /\ y = 0)
    <3>1. File(s) = File(a) /\ Rank(s) = Rank(a) => s = a
      BY Coordinates
    <3>. HIDE DEF x, y
    <3>. QED BY <1>2, <1>3, <3>1
  <2>5. s \in KingAttacks[a] => free
    BY StepsFree
  <2>6. ~(x = 0 /\ y = 0) => (Max({Abs(x), Abs(y)}) = 1 <=> x \in {-1, 0, 1} /\ y \in {-1, 0, 1})
    <3>. HIDE DEF x, y
    <3>1. Abs(x) \in 0..7 /\ Abs(y) \in 0..7 /\ (Abs(x) <= 1 <=> x \in {-1, 0, 1}) /\ (Abs(y) <= 1 <=> y \in {-1, 0, 1})
          /\ (Abs(x) = 0 <=> x = 0) /\ (Abs(y) = 0 <=> y = 0)
      <4>1. Abs(x) \in 0..7 /\ (Abs(x) <= 1 <=> x \in {-1, 0, 1}) /\ (Abs(x) = 0 <=> x = 0)
        BY <1>3 DEF Abs
      <4>2. Abs(y) \in 0..7 /\ (Abs(y) <= 1 <=> y \in {-1, 0, 1}) /\ (Abs(y) = 0 <=> y = 0)
        BY <1>3 DEF Abs
      <4>. QED BY <4>1, <4>2
    <3>2. \E z \in {Abs(x), Abs(y)} : \A w \in {Abs(x), Abs(y)} : z >= w
      BY <3>1
    <3>3. Max({Abs(x), Abs(y)}) \in {Abs(x), Abs(y)} /\ \A w \in {Abs(x), Abs(y)} : Max({Abs(x), Abs(y)}) >= w
      BY <3>2 DEF Max
    <3>. QED BY <3>1, <3>3
  <2>. HIDE DEF free, x, y
  <2>. QED BY <1>4, <2>1, <2>2, <2>3, <2>4, <2>5, <2>6 DEF pc
<1>9. CASE a # s /\ Type(pc) \in {"bishop", "rook", "queen"}
  <2>. DEFINE dirs == SlideDirs(Type(pc))
  <2>1. dirs \in SUBSET Directions /\ \A d \in dirs : -d \in dirs
    BY SlideDirsKnown
  <2>2. Assails(pc, a, s, Manned(b)) <=> \E d \in dirs, k \in 1..7 : Sees(s, d, k, a, Manned(b))
    BY <1>9 DEF Assails, Touches
  <2>3. Reaches(pc, a, s) <=> \E d \in dirs, k \in 1..7 : At(a, d, k, s)
    <3>1. /\ Abs(x) = Abs(y) <=> \E d \in BishopDirs, k \in 1..7 : At(a, d, k, s)
          /\ Abs(x) = 0 \/ Abs(y) = 0 <=> \E d \in RookDirs, k \in 1..7 : At(a, d, k, s)
      BY <1>9, LinesAre
    <3>2. CASE Type(pc) = "bishop"
      <4>1. dirs = BishopDirs
        BY <3>2 DEF SlideDirs
      <4>2. Reaches(pc, a, s) <=> Abs(x) = Abs(y)
        BY <1>9, <3>2 DEF Reaches
      <4>. HIDE DEF dirs, x, y
      <4>. QED BY <3>1, <4>1, <4>2
    <3>3. CASE Type(pc) = "rook"
      <4>1. dirs = RookDirs
        BY <3>3 DEF SlideDirs
      <4>2. Reaches(pc, a, s) <=> Abs(x) = 0 \/ Abs(y) = 0
        BY <1>9, <3>3 DEF Reaches
      <4>. HIDE DEF dirs, x, y
      <4>. QED BY <3>1, <4>1, <4>2
    <3>4. CASE Type(pc) = "queen"
      <4>1. dirs = BishopDirs \cup RookDirs
        BY <3>4 DEF SlideDirs
      <4>2. Reaches(pc, a, s) <=> Abs(x) = Abs(y) \/ Abs(x) = 0 \/ Abs(y) = 0
        BY <1>9, <3>4 DEF Reaches
      <4>. HIDE DEF dirs, x, y
      <4>. QED BY <3>1, <4>1, <4>2
    <3>. QED BY <1>9, <3>2, <3>3, <3>4
  <2>. HIDE DEF dirs, x, y
  <2>. QED BY <1>4, <1>9, <2>1, <2>2, <2>3, SlidersReach DEF pc
<1>. QED BY <1>1, <1>5, <1>6, <1>7, <1>8, <1>9 DEF PieceTypes

-----------------------------------------------------------------------------
(***************************************************************************)
(* What the laws call threatened and safe, and the target of a double push.*)
(***************************************************************************)
\* Threatened by the laws is attacked by the generator's tables,
LEMMA ThreatenedIs ==
    ASSUME NEW b \in Boards, NEW s \in Squares, NEW c \in Colors
    PROVE  Threatened(b, s, c) <=> Attacked(b, c, s)
<1>1. \A a \in Squares : Color(b[a]) = c => b[a] # NoPiece
  BY ColoredIsMan
<1>2. \A a \in Squares : Color(b[a]) = c => (Attacks(b, a, s) <=> Assails(b[a], a, s, Manned(b)))
  BY <1>1, AttacksAre
<1>. QED BY <1>2 DEF Threatened, Attacked

\* and safe is what the generator leaves the king.
LEMMA SafeIs ==
    ASSUME NEW b \in Boards, NEW c \in Colors
    PROVE  Safe(b, c) <=> KingSafe(b, c)
<1>1. Opposite(c) \in Colors
  BY DEF Opposite, Colors
<1>2. \A s \in Squares : Threatened(b, s, Opposite(c)) <=> Attacked(b, Opposite(c), s)
  BY <1>1, ThreatenedIs
<1>. QED BY <1>2 DEF Safe, KingSafe, Attacked

\* What is asked of the pieces only.
LEMMA SameBoard ==
    ASSUME NEW p, Consistent(p), NEW q, Consistent(q), q.board = p.board
    PROVE  /\ q.byType = p.byType /\ q.byColor = p.byColor /\ Occupied(q) = Occupied(p)
           /\ \A c : KingSquare(q, c) = KingSquare(p, c)
           /\ \A f, t, us, k, occ : EnPassantLegal(q, f, t, us, k, occ) <=> EnPassantLegal(p, f, t, us, k, occ)
           /\ \A e, c : EPCaptureAvailable(q, e, c) <=> EPCaptureAvailable(p, e, c)
<1>1. q.byType = p.byType /\ q.byColor = p.byColor
  BY DEF Consistent
<1>2. Occupied(q) = Occupied(p) /\ \A c, pt : PiecesOf(q, c, pt) = PiecesOf(p, c, pt)
  BY <1>1 DEF Occupied, PiecesOf
<1>3. \A c : KingSquare(q, c) = KingSquare(p, c)
  BY <1>2 DEF KingSquare
<1>4. \A f, t, us, k, occ : EnPassantLegal(q, f, t, us, k, occ) <=> EnPassantLegal(p, f, t, us, k, occ)
  BY <1>1 DEF EnPassantLegal
<1>5. \A e, c : EPCaptureAvailable(q, e, c) <=> EPCaptureAvailable(p, e, c)
  BY <1>2, <1>3, <1>4 DEF EPCaptureAvailable
<1>. QED BY <1>1, <1>2, <1>3, <1>4, <1>5

\* A pawn reaches what the table of its attacks holds.
LEMMA PawnReach ==
    ASSUME NEW b \in Boards, NEW us \in Colors, NEW f \in Squares, NEW e \in Squares, b[f] = MakePiece(us, "pawn")
    PROVE  /\ f \in PawnAttacks[Opposite(us)][e] <=> e \in PawnAttacks[us][f]
           /\ Reaches(b[f], f, e) <=> e \in PawnAttacks[us][f]
<1>1. Type(b[f]) = "pawn" /\ Color(b[f]) = us
  BY PieceFacts DEF PieceTypes
<1>2. \A occ : Assails(b[f], f, e, occ) <=> e \in PawnAttacks[us][f]
  BY PawnAssails
<1>3. Assails(b[f], f, e, {}) <=> f \in PawnAttacks[Opposite(us)][e]
  BY <1>1 DEF Assails, Touches, SlideDirs
<1>4. /\ File(e) \in 0..7 /\ Rank(e) \in 0..7 /\ File(f) \in 0..7 /\ Rank(f) \in 0..7
  BY Coordinates
<1>5. e \in PawnAttacks[us][f] <=>
        (File(e) = File(f) + 1 \/ File(e) = File(f) - 1) /\ Rank(e) = Rank(f) + Forward(us)
  <2>1. e \in PawnAttacks[us][f] <=> At(f, PawnPush(us) + East, 1, e) \/ At(f, PawnPush(us) + West, 1, e)
    BY PawnSteps
  <2>. QED BY <1>4, <2>1 DEF At, DX, DY, PawnPush, North, South, East, West, Colors, White, Black, Forward
<1>6. f # e /\ Reaches(b[f], f, e) <=> e \in PawnAttacks[us][f]
  <2>1. Reaches(b[f], f, e) <=> f # e /\ Abs(Across(f, e)) = 1 /\ Up(f, e) = Forward(us)
    BY <1>1 DEF Reaches
  <2>. QED BY <1>4, <1>5, <2>1 DEF Across, Up, Abs, Forward
<1>7. Reaches(b[f], f, e) => f # e
  BY DEF Reaches
<1>. QED BY <1>2, <1>3, <1>6, <1>7

\* What the laws make of the board en passant is what the move makes of it.
LEMMA EPResultIs ==
    ASSUME NEW b \in Boards, NEW us \in Colors, NEW f \in Squares, NEW e \in PawnAttacks[us][f]
    PROVE  /\ e \in Squares /\ e - PawnPush(us) \in Squares /\ e # f /\ e - PawnPush(us) # f
           /\ EPResult(b, f, e) = BoardAfter(b, us, EnPassant(f, e))
<1>. DEFINE cap == e - PawnPush(us)
            x == b[f]
<1>1. e \in Squares /\ e # f
  BY PawnAttacksLand
<1>2. At(f, PawnPush(us) + East, 1, e) \/ At(f, PawnPush(us) + West, 1, e)
  BY <1>1, PawnSteps
<1>3. /\ File(e) \in 0..7 /\ Rank(e) \in 0..7 /\ File(f) \in 0..7 /\ Rank(f) \in 0..7
      /\ e = 8 * Rank(e) + File(e) /\ f = 8 * Rank(f) + File(f)
  BY <1>1, Coordinates
<1>4. /\ File(e) # File(f) /\ 8 * Rank(e) = 8 * Rank(f) + PawnPush(us)
  BY <1>2, <1>3 DEF At, DX, DY, PawnPush, North, South, East, West, Colors, White, Black
<1>5. /\ MakeSquare(File(e), Rank(f)) = cap /\ cap \in Squares /\ cap # f /\ cap # e
  <2>1. MakeSquare(File(e), Rank(f)) \in Squares
    BY <1>3, Coordinates
  <2>2. MakeSquare(File(e), Rank(f)) = cap
    BY <1>3, <1>4 DEF MakeSquare, PawnPush, North, South
  <2>3. cap # f
    BY <1>3, <1>4, <2>2 DEF MakeSquare
  <2>4. cap # e
    BY <1>3 DEF PawnPush, North, South
  <2>. QED BY <2>1, <2>2, <2>3, <2>4
<1>6. EPResult(b, f, e) = [b EXCEPT ![f] = NoPiece, ![cap] = NoPiece, ![e] = x]
  BY <1>5 DEF EPResult
<1>7. BoardAfter(b, us, EnPassant(f, e)) = [b EXCEPT ![cap] = NoPiece, ![f] = NoPiece, ![e] = x]
  BY DEF BoardAfter, EnPassant
<1>8. [b EXCEPT ![f] = NoPiece, ![cap] = NoPiece, ![e] = x] = [b EXCEPT ![cap] = NoPiece, ![f] = NoPiece, ![e] = x]
  <2>. HIDE DEF cap, x
  <2>. QED BY <1>1, <1>5 DEF Boards
<1>. QED BY <1>1, <1>5, <1>6, <1>7, <1>8

\* The trial of an en passant capture is right on both sides.
LEMMA PassantTried ==
    ASSUME NEW p, Legal(p), p.epSquare # NoSquare, NEW f \in Squares,
           p.board[f] = MakePiece(p.side, "pawn"), p.epSquare \in PawnAttacks[p.side][f]
    PROVE  EnPassantLegal(p, f, p.epSquare, p.side, KingSquare(p, p.side), Occupied(p))
             <=> LeavesSafe(p, EnPassant(f, p.epSquare))
<1>. DEFINE m == EnPassant(f, p.epSquare)
<1>1. /\ Sound(p) /\ BothKings(p) /\ p.side \in Colors /\ p.board \in Boards /\ TargetSound(p)
      /\ KingSafe(p.board, Opposite(p.side))
  BY DEF Legal, Sound, Consistent
<1>2. m.kind = "enPassant" /\ m.from = f /\ m.to = p.epSquare
  BY DEF EnPassant
<1>. HIDE DEF m
<1>3. ASSUME EnPassantLegal(p, f, p.epSquare, p.side, KingSquare(p, p.side), Occupied(p))
      PROVE  LeavesSafe(p, m)
  <2>1. TakesEnPassant(p, m)
    BY <1>2, <1>3 DEF TakesEnPassant
  <2>2. p.epSquare # f
    BY <1>1, PawnAttacksLand
  <2>3. Playable(p.board, p.side, m)
    <3>1. p.board[f] \in Pieces /\ Color(p.board[f]) = p.side
      BY <1>1, PieceFacts DEF PieceTypes
    <3>. QED BY <1>1, <1>2, <2>2, <3>1 DEF Playable, TargetSound
  <2>. QED BY <1>1, <2>1, <2>3, EnPassantSafe DEF LeavesSafe
<1>4. ASSUME LeavesSafe(p, m)
      PROVE  EnPassantLegal(p, f, p.epSquare, p.side, KingSquare(p, p.side), Occupied(p))
  <2>1. PassantCan(p, m)
    BY DEF PassantCan, m
  <2>2. m \in GenerateLegalMoves(p)
    BY <1>1, <1>4, <2>1, PassantFound
  <2>3. m \notin KingMoves(p, KingSquare(p, p.side), Opposite(p.side), Occupied(p), Squares \ p.byColor[p.side])
    BY <1>2 DEF KingMoves, Normal
  <2>4. m \notin CastlingMoves(p, p.side, Occupied(p))
    BY <1>2 DEF CastlingMoves, Castling
  <2>5. ~Covered(p, m)
    BY <1>2 DEF Covered
  <2>6. TakesEnPassant(p, m)
    BY <1>1, <2>2, <2>3, <2>4, <2>5, GeneratedKinds
  <2>. QED BY <1>2, <2>6 DEF TakesEnPassant
<1>. QED BY <1>3, <1>4 DEF m

\* The position with a target set, whether it can be used or not.
LEMMA TwinLegal ==
    ASSUME NEW q, Legal(q), NEW e \in Squares, q.board[e] = NoPiece,
           e - PawnPush(q.side) \in Squares, q.board[e - PawnPush(q.side)] = MakePiece(Opposite(q.side), "pawn")
    PROVE  \E h : /\ Legal(h) /\ h.epSquare = e /\ h.side = q.side /\ h.board = q.board
<1>. DEFINE twin == [q EXCEPT !.epSquare = e]
            h == [twin EXCEPT !.key = ComputeKey(twin)]
<1>1. /\ Sound(q) /\ BothKings(q) /\ KingSafe(q.board, Opposite(q.side)) /\ Consistent(q) /\ IsPosition(q)
      /\ KingsOnce(q) /\ \A r \in q.castling : RightSound(q, r)
  BY DEF Legal, Sound, Consistent
<1>2. /\ AlikeBut(q, twin, {"epSquare", "key"}) /\ twin.epSquare = e
  BY <1>1 DEF AlikeBut, IsPosition, Fields
<1>3. /\ AlikeBut(q, h, {"epSquare", "key"}) /\ h.epSquare = e /\ h.key = ComputeKey(twin)
  <2>. HIDE DEF twin
  <2>. QED BY <1>2 DEF AlikeBut, IsPosition, Fields
<1>. HIDE DEF twin, h
<1>4. Consistent(h) /\ h.board = q.board /\ Consistent(twin) /\ twin.board = q.board
  BY <1>1, <1>2, <1>3, AlikeFacts
<1>5. \A f \in {"side", "fullmove", "halfmove", "castling", "castlingRook", "castlingPath", "crMask"} :
        h[f] = q[f] /\ twin[f] = q[f]
  BY <1>2, <1>3 DEF AlikeBut, Fields
<1>6. Keyed(h)
  <2>1. h.castling = twin.castling /\ h.side = twin.side /\ h.board = twin.board /\ h.epSquare = twin.epSquare
    BY <1>2, <1>3, <1>4, <1>5
  <2>. QED BY <1>3, <2>1 DEF Keyed, ComputeKey
<1>7. BothKings(h) /\ KingsOnce(h) /\ \A c : KingSquare(h, c) = KingSquare(q, c)
  BY <1>1, <1>4, SameKings
<1>8. \A r \in h.castling : RightSound(h, r)
  <2>. SUFFICES ASSUME NEW r \in h.castling PROVE RightSound(h, r)
    OBVIOUS
  <2>1. RightSound(q, r)
    BY <1>1, <1>5
  <2>. QED BY <1>4, <1>5, <1>7, <2>1, RightCarried
<1>9. TargetSound(h)
  BY <1>3, <1>4, <1>5 DEF TargetSound
<1>10. Sound(h)
  BY <1>1, <1>4, <1>5, <1>6, <1>7, <1>8, <1>9 DEF Sound
<1>11. Legal(h)
  BY <1>1, <1>4, <1>5, <1>7, <1>10 DEF Legal
<1>. QED BY <1>3, <1>4, <1>5, <1>11

\* A target can be used if, and only if, a capture on it is legal.
LEMMA TargetIs ==
    ASSUME NEW q, Legal(q), NEW e \in Squares, q.board[e] = NoPiece,
           e - PawnPush(q.side) \in Squares, q.board[e - PawnPush(q.side)] = MakePiece(Opposite(q.side), "pawn")
    PROVE  EPCaptureAvailable(q, e, q.side) <=>
             \E c \in EPResults([board |-> q.board, side |-> q.side], e) : Safe(c, q.side)
<1>. DEFINE us == q.side
            b == q.board
            k == KingSquare(q, us)
            Takes(f) == f \in Squares /\ b[f] = MakePiece(us, "pawn") /\ e \in PawnAttacks[us][f]
<1>1. us \in Colors /\ Consistent(q) /\ b \in Boards
  BY DEF Legal, Sound, Consistent
<1>2. PICK h : Legal(h) /\ h.epSquare = e /\ h.side = us /\ h.board = b
  BY TwinLegal
<1>3. Consistent(h) /\ e # NoSquare
  BY <1>2 DEF Legal, Sound, Squares, NoSquare
<1>4. \A f : Takes(f) => (EnPassantLegal(q, f, e, us, k, Occupied(q)) <=> LeavesSafe(h, EnPassant(f, e)))
  <2>. SUFFICES ASSUME NEW f, Takes(f)
                PROVE  EnPassantLegal(q, f, e, us, k, Occupied(q)) <=> LeavesSafe(h, EnPassant(f, e))
    OBVIOUS
  <2>1. EnPassantLegal(h, f, e, us, KingSquare(h, us), Occupied(h)) <=> LeavesSafe(h, EnPassant(f, e))
    BY <1>2, <1>3, PassantTried
  <2>2. KingSquare(h, us) = k /\ Occupied(h) = Occupied(q)
    BY <1>1, <1>2, <1>3, SameBoard
  <2>3. EnPassantLegal(h, f, e, us, k, Occupied(q)) <=> EnPassantLegal(q, f, e, us, k, Occupied(q))
    BY <1>1, <1>2, <1>3, SameBoard
  <2>. QED BY <2>1, <2>2, <2>3
<1>5. \A f : Takes(f) => (LeavesSafe(h, EnPassant(f, e)) <=> Safe(EPResult(b, f, e), us))
  <2>. SUFFICES ASSUME NEW f, Takes(f)
                PROVE  LeavesSafe(h, EnPassant(f, e)) <=> Safe(EPResult(b, f, e), us)
    OBVIOUS
  <2>1. EPResult(b, f, e) = BoardAfter(b, us, EnPassant(f, e))
    BY <1>1, EPResultIs
  <2>2. EPResult(b, f, e) \in Boards
    BY <1>1 DEF EPResult, Boards
  <2>. QED BY <1>1, <1>2, <2>1, <2>2, SafeIs DEF LeavesSafe
<1>6. EPCaptureAvailable(q, e, us) <=> \E f : Takes(f) /\ EnPassantLegal(q, f, e, us, k, Occupied(q))
  <2>1. PiecesOf(q, us, "pawn") = {s \in Squares : b[s] = MakePiece(us, "pawn")}
    BY <1>1, PiecesStand DEF PieceTypes
  <2>2. \A f \in Squares : b[f] = MakePiece(us, "pawn") =>
            (f \in PawnAttacks[Opposite(us)][e] <=> e \in PawnAttacks[us][f])
    BY <1>1, PawnReach
  <2>3. \A f : f \in PawnAttacks[Opposite(us)][e] \cap PiecesOf(q, us, "pawn") <=> Takes(f)
    BY <2>1, <2>2
  <2>. HIDE DEF Takes
  <2>. QED BY <2>3 DEF EPCaptureAvailable
<1>7. (\E c \in EPResults([board |-> b, side |-> us], e) : Safe(c, us)) <=> \E f : Takes(f) /\ Safe(EPResult(b, f, e), us)
  <2>1. \A f \in Squares : b[f] = MakePiece(us, "pawn") => (Reaches(b[f], f, e) <=> e \in PawnAttacks[us][f])
    BY <1>1, PawnReach
  <2>2. EPResults([board |-> b, side |-> us], e) = {EPResult(b, f, e) : f \in {s \in Squares : Takes(s)}}
    BY <2>1 DEF EPResults
  <2>. HIDE DEF Takes
  <2>3. \A f : Takes(f) => f \in Squares
    BY DEF Takes
  <2>. QED BY <2>2, <2>3
<1>. HIDE DEF Takes
<1>. QED BY <1>4, <1>5, <1>6, <1>7

-----------------------------------------------------------------------------
(***************************************************************************)
(* What a generated move changes.                                          *)
(***************************************************************************)
\* Each kind of move in its own way.
LEMMA CanKinds ==
    ASSUME NEW p, NEW m
    PROVE  /\ PieceCan(p.board, p.side, m) => m.kind = "normal" /\ Type(p.board[m.from]) # "pawn"
           /\ PawnCan(p.board, p.side, m) => m.kind \in {"normal", "promotion"}
           /\ PassantCan(p, m) => m.kind = "enPassant"
           /\ CastleCan(p, m) => m.kind = "castling"
<1>1. PieceCan(p.board, p.side, m) => m.kind = "normal" /\ Type(p.board[m.from]) # "pawn"
  BY DEF PieceCan, Normal
<1>2. PawnCan(p.board, p.side, m) => m.kind \in {"normal", "promotion"}
  BY DEF PawnCan, PawnMove, Normal, Promotion
<1>3. PassantCan(p, m) => m.kind = "enPassant"
  BY DEF PassantCan, EnPassant
<1>4. CastleCan(p, m) => m.kind = "castling"
  BY DEF CastleCan, Castling
<1>. QED BY <1>1, <1>2, <1>3, <1>4

\* Moves other than castling: one man goes to a square without one of its color, and
\* only en passant empties another square.
Goes(b, d, us, m) ==
    /\ d \in Boards /\ m.from \in Squares /\ m.to \in Squares /\ m.from # m.to
    /\ Color(b[m.from]) = us /\ Color(b[m.to]) # us
    /\ d[m.from] = NoPiece /\ d[m.to] \in Pieces /\ Color(d[m.to]) = us
    /\ \A s \in Squares \ {m.from, m.to} :
         \/ d[s] = b[s] /\ (m.kind = "enPassant" => s # m.to - PawnPush(us))
         \/ /\ m.kind = "enPassant" /\ s = m.to - PawnPush(us)
            /\ b[s] = MakePiece(Opposite(us), "pawn") /\ d[s] = NoPiece

\* Every generated move but castling goes like this,
LEMMA MoveGoes ==
    ASSUME NEW p, Legal(p), NEW m \in GenerateLegalMoves(p), m.kind # "castling"
    PROVE  /\ Goes(p.board, BoardAfter(p.board, p.side, m), p.side, m)
           /\ m.kind = "enPassant" => /\ m.to - PawnPush(p.side) \in Squares \ {m.from, m.to}
                                      /\ p.board[m.from] = MakePiece(p.side, "pawn")
                                      /\ BoardAfter(p.board, p.side, m)[m.to] = MakePiece(p.side, "pawn")
<1>. DEFINE b == p.board
            us == p.side
            d == BoardAfter(b, us, m)
<1>1. /\ Sound(p) /\ BothKings(p) /\ us \in Colors /\ b \in Boards /\ Consistent(p)
      /\ p.epSquare # NoSquare => TargetSound(p)
  BY DEF Legal, Sound, Consistent
<1>2. Playable(b, us, m)
  BY <1>1, GeneratedPlayable
<1>3. PieceCan(b, us, m) \/ PawnCan(b, us, m) \/ PassantCan(p, m)
  BY <1>1, GeneratedCan, CanKinds
<1>4. m.from \in Squares /\ m.to \in Squares /\ m.from # m.to /\ Color(b[m.from]) = us
  BY <1>2 DEF Playable
<1>5. CASE m.kind \in {"normal", "promotion"}
  <2>1. Color(b[m.to]) # us
    <3>1. CASE PieceCan(b, us, m)
      BY <3>1 DEF PieceCan, Normal
    <3>2. CASE PawnCan(b, us, m)
      BY <1>1, <3>2, PawnGoesSomewhere DEF PawnCan
    <3>. QED BY <1>3, <1>5, <3>1, <3>2, CanKinds
  <2>2. /\ \A s \in Squares \ {m.from, m.to} : d[s] = b[s]
        /\ d[m.from] = NoPiece /\ d[m.to] \in Pieces /\ Color(d[m.to]) = us
    BY <1>1, <1>2, <1>5, PlainMove
  <2>3. d \in Boards
    <3>1. \A x \in Pieces : [b EXCEPT ![m.from] = NoPiece, ![m.to] = x] \in Boards
      BY <1>1 DEF Boards
    <3>2. b[m.from] \in Pieces /\ (m.kind = "promotion" => MakePiece(us, m.promotion) \in Pieces)
      BY <1>1, <1>2, ManTypes DEF Playable
    <3>. QED BY <1>5, <3>1, <3>2 DEF BoardAfter
  <2>. HIDE DEF d
  <2>4. Goes(b, d, us, m)
    BY <1>4, <1>5, <2>1, <2>2, <2>3 DEF Goes
  <2>. QED BY <1>5, <2>4 DEF d
<1>6. CASE m.kind = "enPassant"
  <2>1. PICK f \in Squares : /\ m = EnPassant(f, p.epSquare) /\ b[f] = MakePiece(us, "pawn") /\ p.epSquare # NoSquare
                             /\ p.epSquare \in PawnAttacks[us][f]
    BY <1>3, <1>6, CanKinds DEF PassantCan
  <2>. DEFINE e == p.epSquare
              cap == e - PawnPush(us)
              x == b[f]
  <2>2. m.from = f /\ m.to = e
    BY <2>1 DEF EnPassant
  <2>3. e \in Squares /\ cap \in Squares /\ e # f /\ cap # f
    BY <1>1, <2>1, EPResultIs
  <2>4. b[e] = NoPiece /\ b[cap] = MakePiece(Opposite(us), "pawn") /\ cap # e
    BY <1>1, <2>1 DEF TargetSound, PawnPush, North, South, Squares
  <2>5. d = [b EXCEPT ![cap] = NoPiece, ![f] = NoPiece, ![e] = x]
    BY <1>6, <2>2 DEF BoardAfter
  <2>6. x \in Pieces /\ Color(x) = us /\ x = MakePiece(us, "pawn")
    BY <1>1, <2>1, PieceFacts DEF PieceTypes
  <2>. HIDE DEF e, cap, x, d
  <2>7. /\ d \in Boards /\ d[f] = NoPiece /\ d[e] = x /\ d[cap] = NoPiece
        /\ \A s \in Squares \ {f, e, cap} : d[s] = b[s]
    BY <1>1, <2>3, <2>4, <2>5, <2>6 DEF Boards
  <2>8. Color(b[e]) # us
    BY <1>1, <2>4, PieceFacts
  <2>9. cap = m.to - PawnPush(us)
    BY <2>2 DEF cap
  <2>10. Goes(b, d, us, m)
    BY <1>4, <1>6, <2>2, <2>3, <2>4, <2>6, <2>7, <2>8, <2>9 DEF Goes
  <2>. QED BY <2>1, <2>2, <2>3, <2>4, <2>6, <2>7, <2>9, <2>10 DEF d
<1>. QED BY <1>2, <1>5, <1>6 DEF Playable

\* Castling: king and rook leave their squares for the two of their right.
Castled(p, d, m, r, k, rook) ==
    LET t == CastlingKingTo(r)
        x == CastlingRookTo(r)
        us == p.side
    IN  /\ r \in p.castling /\ r[1] = us /\ m = Castling(k, rook) /\ rook = p.castlingRook[r]
        /\ k = KingSquare(p, us) /\ RightSound(p, r) /\ r = CastlingRight(us, m)
        /\ k \in Squares /\ rook \in Squares /\ t \in Squares /\ x \in Squares /\ t # x /\ k # rook
        /\ p.board[k] = MakePiece(us, "king") /\ p.board[rook] = MakePiece(us, "rook")
        /\ \A s \in {t, x} : s \in {k, rook} \/ p.board[s] = NoPiece
        /\ d \in Boards /\ d[t] = MakePiece(us, "king") /\ d[x] = MakePiece(us, "rook")
        /\ \A s \in {k, rook} \ {t, x} : d[s] = NoPiece
        /\ \A s \in Squares \ {k, rook, t, x} : d[s] = p.board[s]

\* and castling like this.
LEMMA MoveCastles ==
    ASSUME NEW p, Legal(p), NEW m, CastleCan(p, m)
    PROVE  \E r, k, rook : Castled(p, BoardAfter(p.board, p.side, m), m, r, k, rook)
<1>. DEFINE b == p.board
            us == p.side
            d == BoardAfter(b, us, m)
            k == KingSquare(p, us)
<1>1. /\ Sound(p) /\ BothKings(p) /\ us \in Colors /\ b \in Boards /\ Consistent(p)
      /\ p.castling \subseteq Rights /\ \A r \in p.castling : RightSound(p, r)
  BY DEF Legal, Sound, Consistent
<1>2. PICK r \in p.castling :
        /\ r[1] = us /\ m = Castling(k, p.castlingRook[r])
        /\ \A s \in {CastlingKingTo(r), CastlingRookTo(r)} :
             s \notin {k, p.castlingRook[r]} => b[s] = NoPiece
  BY DEF CastleCan
<1>. DEFINE rook == p.castlingRook[r]
            t == CastlingKingTo(r)
            x == CastlingRookTo(r)
<1>3. /\ rook \in Squares /\ b[rook] = MakePiece(us, "rook") /\ (rook > k <=> r[2] = "king") /\ RightSound(p, r)
  BY <1>1, <1>2 DEF RightSound
<1>4. k \in Squares /\ b[k] = MakePiece(us, "king")
  BY <1>1, KingStands DEF BothKings
<1>5. k # rook
  BY <1>3, <1>4 DEF MakePiece
<1>6. r \in Rights /\ r = <<r[1], r[2]>> /\ r[2] \in {"king", "queen"}
  BY <1>1 DEF Rights, Wings
<1>7. m.kind = "castling" /\ m.from = k /\ m.to = rook /\ r = CastlingRight(us, m)
  BY <1>2, <1>3, <1>6 DEF Castling, CastlingRight
<1>8. t \in Squares /\ x \in Squares /\ t # x
  BY <1>1, <1>7, CastlingSquares
<1>9. d = [b EXCEPT ![k] = NoPiece, ![rook] = NoPiece, ![t] = MakePiece(us, "king"), ![x] = MakePiece(us, "rook")]
  BY <1>7 DEF BoardAfter
<1>10. MakePiece(us, "king") \in Pieces /\ MakePiece(us, "rook") \in Pieces
  BY <1>1, ManTypes DEF PromotionTypes
<1>. HIDE DEF k, rook, t, x, d
<1>11. /\ d \in Boards /\ d[t] = MakePiece(us, "king") /\ d[x] = MakePiece(us, "rook")
       /\ \A s \in {k, rook} \ {t, x} : d[s] = NoPiece
       /\ \A s \in Squares \ {k, rook, t, x} : d[s] = b[s]
  BY <1>1, <1>3, <1>4, <1>5, <1>8, <1>9, <1>10 DEF Boards
<1>12. Castled(p, d, m, r, k, rook)
  BY <1>2, <1>3, <1>4, <1>5, <1>7, <1>8, <1>11 DEF Castled, k, rook, t, x
<1>. QED BY <1>12 DEF d

-----------------------------------------------------------------------------
(***************************************************************************)
(* The rights and the target a move leaves.                                *)
(***************************************************************************)
RightsOf(p) == {[color |-> r[1], rook |-> p.castlingRook[r]] : r \in p.castling}

\* A right is revoked on its king's and its rook's square and on no other.
RightsExact(p) ==
    \A r \in p.castling : \A s \in Squares :
        s # KingSquare(p, r[1]) /\ s # p.castlingRook[r] => r \in p.crMask[s]

\* After a move those rights are left that the laws leave,
LEMMA RightsAfter ==
    ASSUME NEW p, Legal(p), RightsExact(p), NEW m \in GenerateLegalMoves(p)
    PROVE  LET q == MakeMove(p, m)
           IN  RightsOf(q) = IF m.kind = "castling" THEN {x \in RightsOf(p) : x.color # p.side}
                             ELSE Kept(RightsOf(p), p.board, q.board)
<1>. DEFINE q == MakeMove(p, m)
            us == p.side
            b == p.board
            d == q.board
            King(r) == KingSquare(p, r[1])
            Rook(r) == p.castlingRook[r]
            Img(r) == [color |-> r[1], rook |-> Rook(r)]
<1>1. /\ Sound(p) /\ BothKings(p) /\ us \in Colors /\ b \in Boards /\ Consistent(p) /\ KingsOnce(p)
      /\ p.castling \subseteq Rights /\ \A r \in p.castling : RightSound(p, r)
  BY DEF Legal, Sound, Consistent
<1>2. Playable(b, us, m)
  BY <1>1, GeneratedPlayable
<1>3. /\ d = BoardAfter(b, us, m) /\ q.castling = p.castling \cap p.crMask[m.from] \cap p.crMask[m.to]
      /\ q.castlingRook = p.castlingRook
  BY <1>1, <1>2, MoveMade
<1>4. m.from \in Squares /\ m.to \in Squares
  BY <1>2 DEF Playable
<1>5. ASSUME NEW r \in p.castling
      PROVE  /\ r[1] \in Colors /\ Rook(r) \in Squares /\ b[Rook(r)] = MakePiece(r[1], "rook")
             /\ King(r) \in Squares /\ b[King(r)] = MakePiece(r[1], "king")
             /\ r \notin p.crMask[King(r)] /\ r \notin p.crMask[Rook(r)]
  <2>1. r[1] \in Colors /\ RightSound(p, r)
    BY <1>1 DEF Rights
  <2>2. King(r) \in Squares /\ b[King(r)] = MakePiece(r[1], "king")
    BY <1>1, <2>1, KingStands DEF BothKings
  <2>. QED BY <2>1, <2>2 DEF RightSound
<1>6. ASSUME NEW r \in p.castling
      PROVE  r \in q.castling <=> m.from \notin {King(r), Rook(r)} /\ m.to \notin {King(r), Rook(r)}
  <2>. HIDE DEF q
  <2>. QED BY <1>3, <1>4, <1>5 DEF RightsExact
<1>7. RightsOf(q) = {Img(r) : r \in q.castling} /\ RightsOf(p) = {Img(r) : r \in p.castling}
  <2>. HIDE DEF q
  <2>. QED BY <1>3 DEF RightsOf
<1>8. q.castling \subseteq p.castling
  BY <1>3
<1>9. CASE m.kind # "castling"
  <2>1. Goes(b, d, us, m)
    BY <1>3, <1>9, MoveGoes
  <2>. HIDE DEF q, d
  <2>2. ASSUME NEW r \in p.castling
        PROVE  r \in q.castling <=> /\ d[Rook(r)] = MakePiece(r[1], "rook")
                                    /\ \A s \in Squares : b[s] = MakePiece(r[1], "king") => d[s] = b[s]
    <3>1. \A s \in Squares : b[s] = MakePiece(r[1], "king") => s = King(r)
      BY <1>1, <1>5 DEF KingsOnce
    <3>2. \A s \in Squares \ {m.from, m.to} : b[s] = d[s] \/ b[s] = MakePiece(Opposite(us), "pawn")
      BY <2>1 DEF Goes
    <3>3. /\ \A c : MakePiece(r[1], "rook") # MakePiece(c, "pawn") /\ MakePiece(r[1], "king") # MakePiece(c, "pawn")
          /\ MakePiece(r[1], "rook") # NoPiece /\ MakePiece(r[1], "king") # NoPiece
      BY DEF MakePiece, NoPiece
    <3>4. /\ d[m.from] = NoPiece /\ Color(d[m.to]) = us /\ Color(b[m.to]) # us
      BY <2>1 DEF Goes
    <3>. HIDE DEF King, Rook
    <3>5. ASSUME r \in q.castling
          PROVE  d[Rook(r)] = b[Rook(r)] /\ d[King(r)] = b[King(r)]
      BY <1>5, <1>6, <3>2, <3>3, <3>5
    <3>6. ASSUME d[Rook(r)] = b[Rook(r)], d[King(r)] = b[King(r)]
          PROVE  r \in q.castling
      BY <1>5, <1>6, <3>3, <3>4, <3>6
    <3>. QED BY <1>5, <3>1, <3>5, <3>6
  <2>3. Kept({Img(r) : r \in p.castling}, b, d) = {Img(r) : r \in q.castling}
    <3>1. \A r : Img(r).color = r[1] /\ Img(r).rook = Rook(r)
      OBVIOUS
    <3>. HIDE DEF Img, Rook
    <3>. QED BY <1>8, <2>2, <3>1 DEF Kept
  <2>. QED BY <1>7, <1>9, <2>3 DEF q, d
<1>10. CASE m.kind = "castling"
  <2>1. CastleCan(p, m)
    BY <1>1, <1>10, GeneratedCan, CanKinds
  <2>2. PICK r, k, rook : Castled(p, BoardAfter(b, us, m), m, r, k, rook)
    BY <2>1, MoveCastles
  <2>3. /\ m.from = k /\ m.to = rook /\ k = KingSquare(p, us)
        /\ b[k] = MakePiece(us, "king") /\ b[rook] = MakePiece(us, "rook")
    BY <2>2 DEF Castled, Castling
  <2>4. ASSUME NEW x \in p.castling PROVE x \in q.castling <=> x[1] # us
    <3>1. ASSUME x[1] = us PROVE x \notin q.castling
      BY <1>6, <2>3, <3>1
    <3>2. ASSUME x[1] # us PROVE x \in q.castling
      <4>1. \A t, u : MakePiece(x[1], t) # MakePiece(us, u)
        BY <3>2 DEF MakePiece
      <4>. HIDE DEF King, Rook, q
      <4>. QED BY <1>5, <1>6, <2>3, <4>1
    <3>. QED BY <3>1, <3>2
  <2>5. {y \in {Img(x) : x \in p.castling} : y.color # us} = {Img(x) : x \in q.castling}
    <3>1. \A x : Img(x).color = x[1]
      OBVIOUS
    <3>. HIDE DEF Img, q
    <3>. QED BY <1>8, <2>4, <3>1
  <2>. QED BY <1>7, <1>10, <2>5
<1>. QED BY <1>9, <1>10

\* A pawn's move that is no promotion.
LEMMA PawnWent ==
    ASSUME NEW p, Legal(p), NEW m \in GenerateLegalMoves(p), m.kind = "normal", Type(p.board[m.from]) = "pawn"
    PROVE  /\ PawnGoes(p.board, p.side, m.from, m.to) /\ p.board[m.from] = MakePiece(p.side, "pawn")
           /\ m = Normal(m.from, m.to) /\ m.from \in Squares /\ m.to \in Squares
           /\ Rank(m.to) # (IF p.side = White THEN 7 ELSE 0)
           /\ Abs(m.to - m.from) = 16 =>
                /\ m.to = m.from + PawnPush(p.side) + PawnPush(p.side)
                /\ Rank(m.from) = (IF p.side = White THEN 1 ELSE 6)
                /\ p.board[m.from + PawnPush(p.side)] = NoPiece /\ p.board[m.to] = NoPiece
<1>. DEFINE b == p.board
            us == p.side
            last == IF us = White THEN 7 ELSE 0
<1>1. Sound(p) /\ BothKings(p) /\ us \in Colors
  BY DEF Legal, Sound
<1>2. PawnCan(b, us, m)
  BY <1>1, GeneratedCan, CanKinds
<1>3. PICK f, t \in Squares : b[f] = MakePiece(us, "pawn") /\ PawnGoes(b, us, f, t) /\ m \in PawnMove(f, t, last)
  BY <1>2 DEF PawnCan
<1>4. m = Normal(f, t) /\ Rank(t) # last /\ m.from = f /\ m.to = t
  BY <1>3 DEF PawnMove, Normal, Promotion
<1>5. ASSUME Abs(t - f) = 16
      PROVE  /\ t = f + PawnPush(us) + PawnPush(us) /\ Rank(f) = (IF us = White THEN 1 ELSE 6)
             /\ b[f + PawnPush(us)] = NoPiece /\ b[t] = NoPiece
  <2>1. t \notin PawnAttacks[us][f]
    BY <1>1, <1>5, PawnAttacksLand
  <2>2. t # f + PawnPush(us)
    BY <1>5 DEF Abs, PawnPush, North, South, Squares
  <2>. QED BY <1>3, <2>1, <2>2 DEF PawnGoes
<1>. QED BY <1>3, <1>4, <1>5

\* and the target that the laws leave.
LEMMA TargetAfter ==
    ASSUME NEW p, Legal(p), NEW m \in GenerateLegalMoves(p)
    PROVE  LET q == MakeMove(p, m)
           IN  q.epSquare = IF m.kind = "normal" /\ Type(p.board[m.from]) = "pawn" /\ Abs(m.to - m.from) = 16
                              THEN EPTarget(q.board, p.side, m.from + PawnPush(p.side)) ELSE NoSquare
<1>. DEFINE us == p.side
            them == Opposite(us)
            moved == p.board[m.from]
            e == m.from + PawnPush(us)
            after == BoardAfter(p.board, us, m)
            p1 == ClearEP(p)
            p2 == Relocated(p1, m)
            p3 == WithEP(p2, m, moved)
            p4 == WithRights(p3, m)
            p5 == PassTurn(p4)
            q == MakeMove(p, m)
            Double == m.kind = "normal" /\ Type(moved) = "pawn" /\ Abs(m.to - m.from) = 16
<1>1. Sound(p) /\ BothKings(p) /\ us \in Colors /\ Consistent(p) /\ IsPosition(p) /\ p.board \in Boards
  BY DEF Legal, Sound, Consistent
<1>2. Playable(p.board, us, m)
  BY <1>1, GeneratedPlayable
<1>3. /\ Consistent(p1) /\ p1.board = p.board /\ p1.epSquare = NoSquare /\ IsPosition(p1) /\ p1.side = us
  <2>1. AlikeBut(p, p1, {"epSquare", "key"}) /\ p1.epSquare = NoSquare
    BY <1>1, EPCleared
  <2>. HIDE DEF p1
  <2>2. p1.side = us
    BY <2>1 DEF AlikeBut, Fields
  <2>. QED BY <1>1, <2>1, <2>2, AlikeFacts DEF Consistent
<1>4. Becomes(p1, p2, after)
  <2>. HIDE DEF p1
  <2>1. Playable(p1.board, p1.side, m)
    BY <1>2, <1>3
  <2>2. Becomes(p1, Relocated(p1, m), BoardAfter(p1.board, p1.side, m))
    BY <1>1, <1>3, <2>1, Relocates
  <2>. QED BY <1>3, <2>2
<1>5. /\ Consistent(p2) /\ p2.board = after /\ IsPosition(p2) /\ p2.epSquare = NoSquare
  <2>. HIDE DEF p1, p2, after
  <2>1. /\ Consistent(p2) /\ p2.board = after
        /\ \A f \in Fields \ {"board", "byType", "byColor", "key"} : p2[f] = p1[f]
    BY <1>3, <1>4, BecomesFacts
  <2>. QED BY <1>3, <2>1 DEF Consistent, Fields
<1>6. Color(moved) = us
  BY <1>2 DEF Playable
<1>7. p3.epSquare = IF Double /\ EPCaptureAvailable(p2, e, them) THEN e ELSE NoSquare
  <2>1. p3 = IF Double /\ EPCaptureAvailable(p2, e, them)
               THEN [p2 EXCEPT !.epSquare = e, !.key = SymDiff(@, ZEPFile(e))] ELSE p2
    BY <1>6 DEF WithEP
  <2>. HIDE DEF p2, p3, e, them, Double
  <2>2. "epSquare" \in DOMAIN p2
    BY <1>5 DEF IsPosition, Fields
  <2>. QED BY <1>5, <2>1, <2>2
<1>8. AlikeBut(p2, p3, {"epSquare", "key"}) /\ IsPosition(p3) /\ Consistent(p3) /\ p3.board = after
  <2>. HIDE DEF p2, moved, after
  <2>1. AlikeBut(p2, p3, {"epSquare", "key"})
    BY <1>5, EPRecorded
  <2>. HIDE DEF p3
  <2>. QED BY <1>5, <2>1, AlikeFacts DEF Consistent
<1>9. AlikeBut(p3, p4, {"castling", "key"}) /\ IsPosition(p4) /\ p4.side \in Colors
  <2>. HIDE DEF p1, p2, p3
  <2>1. AlikeBut(p3, p4, {"castling", "key"})
    BY <1>8, RightsRevoked
  <2>2. p2.side = p1.side
    <3>1. \A f \in Fields \ {"board", "byType", "byColor", "key"} : p2[f] = p1[f]
      BY <1>3, <1>4, BecomesFacts
    <3>. QED BY <3>1 DEF Fields
  <2>. HIDE DEF p4
  <2>. QED BY <1>1, <1>3, <1>8, <2>1, <2>2 DEF AlikeBut, Fields
<1>10. AlikeBut(p4, p5, {"side", "fullmove", "key"}) /\ IsPosition(p5)
  <2>. HIDE DEF p4
  <2>1. AlikeBut(p4, p5, {"side", "fullmove", "key"})
    BY <1>9, TurnPassed
  <2>. QED BY <2>1 DEF AlikeBut
<1>11. AlikeBut(p5, q, {"halfmove"})
  <2>1. q = [p5 EXCEPT !.halfmove = IF Irreversible(p, m) THEN 0 ELSE @ + 1]
    BY DEF MakeMove
  <2>. HIDE DEF p5, q
  <2>. QED BY <1>10, <2>1 DEF AlikeBut, IsPosition, Fields
<1>12. q.epSquare = p3.epSquare
  <2>. HIDE DEF p3, p4, p5, q
  <2>. QED BY <1>9, <1>10, <1>11 DEF AlikeBut, Fields
<1>13. Legal(q) /\ Consistent(q) /\ q.board = after /\ q.side = them /\ after \in Boards
  <2>1. Legal(q)
    BY GeneratedMovesAreLegal
  <2>2. q.board = after /\ q.side = them
    BY <1>1, <1>2, MoveMade
  <2>. HIDE DEF q, after
  <2>. QED BY <2>1, <2>2 DEF Legal, Sound, Consistent
<1>. HIDE DEF p1, p2, p3, p4, p5, q
<1>14. CASE ~Double
  BY <1>7, <1>12, <1>14 DEF q
<1>15. CASE Double
  <2>1. /\ p.board[m.from] = MakePiece(us, "pawn") /\ m.from \in Squares /\ m.to \in Squares
        /\ m.to = m.from + PawnPush(us) + PawnPush(us) /\ m = Normal(m.from, m.to)
        /\ p.board[e] = NoPiece
    BY <1>15, PawnWent
  <2>2. /\ e \in Squares /\ e # NoSquare /\ e - PawnPush(them) = m.to /\ e # m.from /\ e # m.to /\ m.from # m.to
    BY <1>1, <2>1 DEF Squares, NoSquare, PawnPush, North, South, Colors, White, Black, Opposite
  <2>3. after = [p.board EXCEPT ![m.from] = NoPiece, ![m.to] = p.board[m.from]]
    BY <1>15 DEF BoardAfter
  <2>. HIDE DEF after, e
  <2>4. after[e] = NoPiece /\ after[m.to] = MakePiece(us, "pawn")
    BY <1>1, <2>1, <2>2, <2>3 DEF Boards
  <2>5. us = Opposite(them)
    BY <1>1 DEF Opposite, Colors, White, Black
  <2>6. EPCaptureAvailable(q, e, them) <=> \E c \in EPResults([board |-> after, side |-> them], e) : Safe(c, them)
    <3>1. /\ q.board[e] = NoPiece /\ e - PawnPush(q.side) \in Squares
          /\ q.board[e - PawnPush(q.side)] = MakePiece(Opposite(q.side), "pawn")
      BY <1>13, <2>1, <2>2, <2>4, <2>5
    <3>2. EPCaptureAvailable(q, e, q.side) <=>
            \E c \in EPResults([board |-> q.board, side |-> q.side], e) : Safe(c, q.side)
      BY <1>13, <2>2, <3>1, TargetIs
    <3>. QED BY <1>13, <3>2
  <2>7. EPCaptureAvailable(q, e, them) <=> EPCaptureAvailable(p2, e, them)
    BY <1>5, <1>13, SameBoard
  <2>8. EPTarget(after, us, e) = IF EPCaptureAvailable(p2, e, them) THEN e ELSE NoSquare
    BY <2>6, <2>7 DEF EPTarget
  <2>. QED BY <1>7, <1>12, <1>13, <1>15, <2>8 DEF q, e
<1>. QED BY <1>14, <1>15

-----------------------------------------------------------------------------
(***************************************************************************)
(* The situations the laws allow, and the moves that lead to them.         *)
(***************************************************************************)
NoEdgePawns(b) == \A s \in Squares : Type(b[s]) = "pawn" => Rank(s) \notin {0, 7}

\* What is read off a situation.
LEMMA SituationIs ==
    ASSUME NEW p
    PROVE  /\ SituationOf(p).board = p.board /\ SituationOf(p).side = p.side
           /\ SituationOf(p).ep = p.epSquare /\ SituationOf(p).rights = RightsOf(p)
           /\ SituationOf(p) = Situation(p.board, Opposite(p.side), RightsOf(p), p.epSquare) \/ p.side \notin Colors
  BY DEF SituationOf, RightsOf, Situation, Opposite, Colors

\* Where a move leads to.
Led(p, m, d) ==
    Situation(d, p.side,
              IF m.kind = "castling" THEN {x \in RightsOf(p) : x.color # p.side} ELSE Kept(RightsOf(p), p.board, d),
              IF m.kind = "normal" /\ Type(p.board[m.from]) = "pawn" /\ Abs(m.to - m.from) = 16
                THEN EPTarget(d, p.side, m.from + PawnPush(p.side)) ELSE NoSquare)

\* The situation a generated move leads to.
LEMMA LedTo ==
    ASSUME NEW p, Legal(p), RightsExact(p), NEW m \in GenerateLegalMoves(p)
    PROVE  SituationOf(MakeMove(p, m)) = Led(p, m, BoardAfter(p.board, p.side, m))
<1>. DEFINE q == MakeMove(p, m)
            d == BoardAfter(p.board, p.side, m)
<1>1. Sound(p) /\ BothKings(p) /\ p.side \in Colors /\ Consistent(p)
  BY DEF Legal, Sound
<1>2. q.board = d /\ q.side = Opposite(p.side)
  BY <1>1, GeneratedPlayable, MoveMade
<1>3. /\ RightsOf(q) = IF m.kind = "castling" THEN {x \in RightsOf(p) : x.color # p.side}
                         ELSE Kept(RightsOf(p), p.board, d)
  BY <1>2, RightsAfter
<1>4. q.epSquare = IF m.kind = "normal" /\ Type(p.board[m.from]) = "pawn" /\ Abs(m.to - m.from) = 16
                     THEN EPTarget(d, p.side, m.from + PawnPush(p.side)) ELSE NoSquare
  BY <1>2, TargetAfter
<1>. HIDE DEF q, d
<1>5. SituationOf(q) = Situation(d, p.side, RightsOf(q), q.epSquare)
  BY <1>2 DEF SituationOf, Situation, RightsOf
<1>. QED BY <1>3, <1>4, <1>5 DEF Led, q, d

\* The laws, read as one condition on the situation after the move.
PlainTo(p, d) == Situation(d, p.side, Kept(RightsOf(p), p.board, d), NoSquare)

ByPiece(p, x) ==
    \E a, t \in Squares :
      LET d == [p.board EXCEPT ![a] = NoPiece, ![t] = p.board[a]]
      IN  /\ Color(p.board[a]) = p.side /\ Type(p.board[a]) # "pawn"
          /\ Attacks(p.board, a, t) /\ Color(p.board[t]) # p.side
          /\ Safe(d, p.side) /\ x = PlainTo(p, d)

ByPawn(p, x) ==
    \E a \in Squares :
      /\ Color(p.board[a]) = p.side /\ Type(p.board[a]) = "pawn"
      /\ \E to \in PawnEnds(SituationOf(p), a) : \E d \in PawnResults(SituationOf(p), a, to) :
           /\ Safe(d, p.side)
           /\ x = IF Abs(Up(a, to)) = 2 THEN [PlainTo(p, d) EXCEPT !.ep = EPTarget(d, p.side, (a + to) \div 2)]
                  ELSE PlainTo(p, d)

ByPassant(p, x) ==
    /\ p.epSquare # NoSquare
    /\ \E d \in EPResults(SituationOf(p), p.epSquare) : Safe(d, p.side) /\ x = PlainTo(p, d)

TheKing(p) ==
    CHOOSE s \in {t \in Squares : Color(p.board[t]) = p.side} : Type(p.board[s]) = "king"

ByCastling(p, x) ==
    \E r \in Castles(SituationOf(p)) :
      LET d == CastlingResult(SituationOf(p), r, TheKing(p))
      IN  /\ MayCastle(SituationOf(p), r, TheKing(p)) /\ Safe(d, p.side)
          /\ x = Situation(d, p.side, {y \in RightsOf(p) : y.color # p.side}, NoSquare)

\* The situations the laws allow are those of four kinds of move.
LEMMA SuccessorIs ==
    ASSUME NEW p, NEW x
    PROVE  x \in Successors(SituationOf(p)) <=> ByPiece(p, x) \/ ByPawn(p, x) \/ ByPassant(p, x) \/ ByCastling(p, x)
<1>. DEFINE sit == SituationOf(p)
            us == p.side
            mine == {s \in Squares : Color(p.board[s]) = us}
            pawns == {s \in mine : Type(p.board[s]) = "pawn"}
            Pushed(a, to, d) ==
              IF Abs(Up(a, to)) = 2 THEN [PlainTo(p, d) EXCEPT !.ep = EPTarget(d, us, (a + to) \div 2)]
              ELSE PlainTo(p, d)
            A == {PlainTo(p, d) : d \in {c \in UNION {PieceResults(sit, a) : a \in mine \ pawns} : Safe(c, us)}}
            B == UNION {UNION {{Pushed(a, to, d) : d \in {c \in PawnResults(sit, a, to) : Safe(c, us)}}
                               : to \in PawnEnds(sit, a)}
                        : a \in pawns}
            C == IF p.epSquare = NoSquare THEN {}
                 ELSE {PlainTo(p, d) : d \in {c \in EPResults(sit, p.epSquare) : Safe(c, us)}}
            D == {Situation(CastlingResult(sit, r, TheKing(p)), us, {y \in RightsOf(p) : y.color # us}, NoSquare)
                  : r \in {y \in Castles(sit) : /\ MayCastle(sit, y, TheKing(p))
                                                /\ Safe(CastlingResult(sit, y, TheKing(p)), us)}}
<1>1. sit.board = p.board /\ sit.side = us /\ sit.ep = p.epSquare /\ sit.rights = RightsOf(p)
  BY SituationIs
<1>. HIDE DEF sit
<1>2. Successors(sit) = A \cup B \cup C \cup D
  BY <1>1 DEF Successors, PlainTo, TheKing
<1>3. x \in A <=> ByPiece(p, x)
  <2>1. \A a : PieceResults(sit, a) = {[p.board EXCEPT ![a] = NoPiece, ![t] = p.board[a]]
                                       : t \in {s \in Squares : Attacks(p.board, a, s) /\ Color(p.board[s]) # us}}
    BY <1>1 DEF PieceResults
  <2>2. x \in A <=> \E a \in mine \ pawns : \E d \in PieceResults(sit, a) : Safe(d, us) /\ x = PlainTo(p, d)
    OBVIOUS
  <2>3. ASSUME NEW a \in mine \ pawns, NEW d
        PROVE  d \in PieceResults(sit, a) <=>
                 \E t \in Squares : /\ Attacks(p.board, a, t) /\ Color(p.board[t]) # us
                                    /\ d = [p.board EXCEPT ![a] = NoPiece, ![t] = p.board[a]]
    BY <2>1
  <2>4. \A a : a \in mine \ pawns <=> a \in Squares /\ Color(p.board[a]) = us /\ Type(p.board[a]) # "pawn"
    OBVIOUS
  <2>. DEFINE E(a, t) == [p.board EXCEPT ![a] = NoPiece, ![t] = p.board[a]]
  <2>5. ByPiece(p, x) <=>
          \E a, t \in Squares : /\ Color(p.board[a]) = us /\ Type(p.board[a]) # "pawn"
                                /\ Attacks(p.board, a, t) /\ Color(p.board[t]) # us
                                /\ Safe(E(a, t), us) /\ x = PlainTo(p, E(a, t))
    BY DEF ByPiece
  <2>6. \A a \in mine \ pawns : \A d :
          d \in PieceResults(sit, a) <=> \E t \in Squares : /\ Attacks(p.board, a, t) /\ Color(p.board[t]) # us
                                                           /\ d = E(a, t)
    BY <2>3
  <2>. HIDE DEF A, E, mine, pawns
  <2>. QED BY <2>2, <2>4, <2>5, <2>6
<1>4. x \in B <=> ByPawn(p, x)
  <2>1. x \in B <=> \E a \in pawns : \E to \in PawnEnds(sit, a) : \E d \in PawnResults(sit, a, to) :
                      Safe(d, us) /\ x = Pushed(a, to, d)
    <3>. HIDE DEF Pushed, pawns
    <3>. QED OBVIOUS
  <2>. HIDE DEF B
  <2>. QED BY <2>1 DEF ByPawn, sit
<1>5. x \in C <=> ByPassant(p, x)
  BY DEF ByPassant, sit
<1>6. x \in D <=> ByCastling(p, x)
  BY DEF ByCastling, sit
<1>. HIDE DEF A, B, C, D
<1>. QED BY <1>2, <1>3, <1>4, <1>5, <1>6 DEF sit

\* Each kind leads where the generated moves of that kind lead: pieces and king,
LEMMA PieceLeads ==
    ASSUME NEW p, Legal(p), RightsExact(p), NEW x
    PROVE  ByPiece(p, x) <=> \E m \in GenerateLegalMoves(p) :
                               PieceCan(p.board, p.side, m) /\ x = SituationOf(MakeMove(p, m))
<1>. DEFINE b == p.board
            us == p.side
            D(a, t) == [b EXCEPT ![a] = NoPiece, ![t] = b[a]]
<1>1. us \in Colors /\ b \in Boards
  BY DEF Legal, Sound, Consistent
<1>2. ASSUME NEW a \in Squares, NEW t \in Squares
      PROVE  /\ BoardAfter(b, us, Normal(a, t)) = D(a, t)
             /\ Safe(D(a, t), us) <=> LeavesSafe(p, Normal(a, t))
             /\ Type(b[a]) # "pawn" => Led(p, Normal(a, t), D(a, t)) = PlainTo(p, D(a, t))
  <2>1. BoardAfter(b, us, Normal(a, t)) = D(a, t)
    BY DEF BoardAfter, Normal
  <2>2. D(a, t) \in Boards
    BY <1>1 DEF Boards
  <2>3. Type(b[a]) # "pawn" => Led(p, Normal(a, t), D(a, t)) = PlainTo(p, D(a, t))
    <3>1. Normal(a, t).kind = "normal" /\ Normal(a, t).from = a
      BY DEF Normal
    <3>. HIDE DEF D
    <3>. QED BY <3>1 DEF Led, PlainTo
  <2>. HIDE DEF D
  <2>. QED BY <1>1, <2>1, <2>2, <2>3, SafeIs DEF LeavesSafe
<1>3. ASSUME NEW a \in Squares, NEW t \in Squares, Color(b[a]) = us
      PROVE  Attacks(b, a, t) <=> Assails(b[a], a, t, Manned(b))
  BY <1>1, <1>3, ColoredIsMan, AttacksAre
<1>. HIDE DEF D
<1>4. ASSUME ByPiece(p, x)
      PROVE  \E m \in GenerateLegalMoves(p) : PieceCan(b, us, m) /\ x = SituationOf(MakeMove(p, m))
  <2>1. PICK a \in Squares, t \in Squares :
          /\ Color(b[a]) = us /\ Type(b[a]) # "pawn" /\ Attacks(b, a, t) /\ Color(b[t]) # us
          /\ Safe(D(a, t), us) /\ x = PlainTo(p, D(a, t))
    BY <1>4 DEF ByPiece, D
  <2>2. PieceCan(b, us, Normal(a, t))
    BY <1>3, <2>1 DEF PieceCan
  <2>3. Normal(a, t) \in GenerateLegalMoves(p)
    BY <1>2, <2>1, <2>2, GeneratesTheLaws DEF LawfulMove
  <2>4. SituationOf(MakeMove(p, Normal(a, t))) = x
    BY <1>2, <2>1, <2>3, LedTo
  <2>. QED BY <2>2, <2>3, <2>4
<1>5. ASSUME NEW m \in GenerateLegalMoves(p), PieceCan(b, us, m), x = SituationOf(MakeMove(p, m))
      PROVE  ByPiece(p, x)
  <2>1. PICK a \in Squares, t \in Squares :
          /\ m = Normal(a, t) /\ Color(b[a]) = us /\ Type(b[a]) # "pawn"
          /\ Color(b[t]) # us /\ Assails(b[a], a, t, Manned(b))
    BY <1>5 DEF PieceCan
  <2>2. LeavesSafe(p, m)
    BY GeneratesTheLaws DEF LawfulMove
  <2>3. x = PlainTo(p, D(a, t))
    BY <1>2, <1>5, <2>1, LedTo
  <2>. QED BY <1>2, <1>3, <2>1, <2>2, <2>3 DEF ByPiece, D
<1>. QED BY <1>4, <1>5

\* en passant,
LEMMA PassantLeads ==
    ASSUME NEW p, Legal(p), RightsExact(p), NEW x
    PROVE  ByPassant(p, x) <=> \E m \in GenerateLegalMoves(p) : PassantCan(p, m) /\ x = SituationOf(MakeMove(p, m))
<1>. DEFINE b == p.board
            us == p.side
            e == p.epSquare
<1>1. us \in Colors /\ b \in Boards /\ SituationOf(p).board = b /\ SituationOf(p).side = us
      /\ (e # NoSquare => e \in Squares)
  BY SituationIs DEF Legal, Sound, Consistent, TargetSound
<1>2. ASSUME NEW f \in Squares, b[f] = MakePiece(us, "pawn"), e \in PawnAttacks[us][f]
      PROVE  /\ BoardAfter(b, us, EnPassant(f, e)) = EPResult(b, f, e)
             /\ Safe(EPResult(b, f, e), us) <=> LeavesSafe(p, EnPassant(f, e))
             /\ Led(p, EnPassant(f, e), EPResult(b, f, e)) = PlainTo(p, EPResult(b, f, e))
  <2>1. BoardAfter(b, us, EnPassant(f, e)) = EPResult(b, f, e)
    BY <1>1, <1>2, EPResultIs
  <2>2. EPResult(b, f, e) \in Boards
    BY <1>1 DEF EPResult, Boards
  <2>3. Led(p, EnPassant(f, e), EPResult(b, f, e)) = PlainTo(p, EPResult(b, f, e))
    BY DEF Led, PlainTo, EnPassant
  <2>. QED BY <1>1, <2>1, <2>2, <2>3, SafeIs DEF LeavesSafe
<1>3. e # NoSquare => EPResults(SituationOf(p), e) =
        {EPResult(b, f, e) : f \in {s \in Squares : b[s] = MakePiece(us, "pawn") /\ e \in PawnAttacks[us][s]}}
  <2>. HAVE e # NoSquare
  <2>1. \A s \in Squares : b[s] = MakePiece(us, "pawn") => (Reaches(b[s], s, e) <=> e \in PawnAttacks[us][s])
    BY <1>1, PawnReach
  <2>. QED BY <1>1, <2>1 DEF EPResults
<1>4. ASSUME ByPassant(p, x)
      PROVE  \E m \in GenerateLegalMoves(p) : PassantCan(p, m) /\ x = SituationOf(MakeMove(p, m))
  <2>1. PICK f \in Squares : /\ e # NoSquare /\ b[f] = MakePiece(us, "pawn") /\ e \in PawnAttacks[us][f]
                             /\ Safe(EPResult(b, f, e), us) /\ x = PlainTo(p, EPResult(b, f, e))
    BY <1>3, <1>4 DEF ByPassant
  <2>2. PassantCan(p, EnPassant(f, e))
    BY <2>1 DEF PassantCan
  <2>3. EnPassant(f, e) \in GenerateLegalMoves(p)
    BY <1>2, <2>1, <2>2, GeneratesTheLaws DEF LawfulMove
  <2>4. SituationOf(MakeMove(p, EnPassant(f, e))) = x
    BY <1>2, <2>1, <2>3, LedTo
  <2>. QED BY <2>2, <2>3, <2>4
<1>5. ASSUME NEW m \in GenerateLegalMoves(p), PassantCan(p, m), x = SituationOf(MakeMove(p, m))
      PROVE  ByPassant(p, x)
  <2>1. PICK f \in Squares : /\ e # NoSquare /\ m = EnPassant(f, e) /\ b[f] = MakePiece(us, "pawn")
                             /\ e \in PawnAttacks[us][f]
    BY <1>5 DEF PassantCan
  <2>2. LeavesSafe(p, m)
    BY GeneratesTheLaws DEF LawfulMove
  <2>3. x = PlainTo(p, EPResult(b, f, e))
    BY <1>2, <1>5, <2>1, LedTo
  <2>. QED BY <1>2, <1>3, <2>1, <2>2, <2>3 DEF ByPassant
<1>. QED BY <1>4, <1>5

-----------------------------------------------------------------------------
\* A pawn goes one rank ahead, or two.
LEMMA PawnRanks ==
    ASSUME NEW b, NEW us \in Colors, NEW a \in Squares, NEW t \in Squares, PawnGoes(b, us, a, t), Rank(a) \notin {0, 7}
    PROVE  /\ Rank(t) \in {0, 7} <=> Rank(t) = (IF us = White THEN 7 ELSE 0)
           /\ Abs(Up(a, t)) = 2 <=> Abs(t - a) = 16
           /\ Abs(Up(a, t)) = 2 => /\ Rank(t) \notin {0, 7} /\ (a + t) \div 2 = a + PawnPush(us)
<1>1. /\ File(a) \in 0..7 /\ Rank(a) \in 0..7 /\ a = 8 * Rank(a) + File(a)
      /\ File(t) \in 0..7 /\ Rank(t) \in 0..7 /\ t = 8 * Rank(t) + File(t)
  BY Coordinates
<1>2. (us = White /\ PawnPush(us) = 8) \/ (us # White /\ PawnPush(us) = -8)
  BY DEF Colors, White, Black, PawnPush, North, South
<1>3. CASE t = a + PawnPush(us)
  BY <1>1, <1>2, <1>3 DEF Abs, Up
<1>4. CASE t = a + PawnPush(us) + PawnPush(us) /\ Rank(a) = (IF us = White THEN 1 ELSE 6)
  <2>1. (a + t) \div 2 = a + PawnPush(us)
    <3>1. a + t = 2 * (a + PawnPush(us)) /\ a + PawnPush(us) \in Int
      BY <1>2, <1>4 DEF Squares
    <3>. QED BY <3>1
  <2>2. CASE us = White
    <3>1. t = a + 16 /\ Rank(a) = 1 /\ Rank(t) = 3
      BY <1>1, <1>2, <1>4, <2>2
    <3>. QED BY <2>1, <2>2, <3>1 DEF Abs, Up, Squares
  <2>3. CASE us # White
    <3>1. t = a - 16 /\ Rank(a) = 6 /\ Rank(t) = 4
      BY <1>1, <1>2, <1>4, <2>3
    <3>. QED BY <2>1, <2>3, <3>1 DEF Abs, Up, Squares
  <2>. QED BY <2>2, <2>3
<1>5. CASE t \in PawnAttacks[us][a]
  <2>1. At(a, PawnPush(us) + East, 1, t) \/ At(a, PawnPush(us) + West, 1, t)
    BY <1>5, PawnSteps
  <2>2. Rank(t) = Rank(a) + (IF us = White THEN 1 ELSE -1)
    BY <1>1, <1>2, <2>1 DEF At, DX, DY, North, South, East, West
  <2>3. Abs(t - a) # 16
    BY <1>5, PawnAttacksLand
  <2>. QED BY <1>1, <1>2, <2>2, <2>3 DEF Abs, Up
<1>. QED BY <1>3, <1>4, <1>5 DEF PawnGoes

\* Where a pawn may end by the laws, and what stands there then.
LEMMA PawnEndsAre ==
    ASSUME NEW p, p.board \in Boards, p.side \in Colors, NEW a \in Squares,
           p.board[a] = MakePiece(p.side, "pawn"), Rank(a) \notin {0, 7}, NEW t
    PROVE  t \in PawnEnds(SituationOf(p), a) <=> t \in Squares /\ PawnGoes(p.board, p.side, a, t)
<1>. DEFINE b == p.board
            us == p.side
            sit == SituationOf(p)
            ahead == a + 8 * Forward(us)
            twice == ahead + 8 * Forward(us)
<1>1. sit.board = b /\ sit.side = us
  BY SituationIs
<1>2. \/ us = White /\ PawnPush(us) = 8 /\ Forward(us) = 1
      \/ us # White /\ PawnPush(us) = -8 /\ Forward(us) = -1
  BY DEF Colors, White, Black, PawnPush, North, South, Forward
<1>3. File(a) \in 0..7 /\ Rank(a) \in 0..7 /\ a = 8 * Rank(a) + File(a)
  BY Coordinates
<1>4. /\ ahead = a + PawnPush(us) /\ twice = a + PawnPush(us) + PawnPush(us) /\ ahead \in Squares
      /\ Rank(a) = (IF us = White THEN 1 ELSE 6) => twice \in Squares
  BY <1>2, <1>3 DEF Squares
<1>5. \A s \in Squares : Attacks(b, a, s) <=> s \in PawnAttacks[us][a]
  <2>1. b[a] # NoPiece
    BY PieceFacts DEF PieceTypes
  <2>. QED BY <2>1, AttacksAre, PawnAssails
<1>. HIDE DEF sit, ahead, twice
<1>6. t \in PawnEnds(sit, a) <=>
        \/ t = ahead /\ b[ahead] = NoPiece
        \/ t = twice /\ Rank(a) = (IF us = White THEN 1 ELSE 6) /\ b[ahead] = NoPiece /\ b[twice] = NoPiece
        \/ t \in Squares /\ Color(b[t]) = Opposite(us) /\ Attacks(b, a, t)
  BY <1>1 DEF PawnEnds, ahead, twice
<1>7. \A s : s \in PawnAttacks[us][a] => s \in Squares
  BY PawnAttacksLand
<1>. QED BY <1>4, <1>5, <1>6, <1>7 DEF PawnGoes, sit

\* A pawn ends as itself, or promoted on the last rank.
LEMMA PawnResultsAre ==
    ASSUME NEW p, p.board \in Boards, p.side \in Colors, NEW a \in Squares, NEW t \in Squares,
           p.board[a] = MakePiece(p.side, "pawn"), PawnGoes(p.board, p.side, a, t), Rank(a) \notin {0, 7}, NEW d
    PROVE  d \in PawnResults(SituationOf(p), a, t) <=>
             \E m \in PawnMove(a, t, IF p.side = White THEN 7 ELSE 0) : d = BoardAfter(p.board, p.side, m)
<1>. DEFINE b == p.board
            us == p.side
            sit == SituationOf(p)
            last == IF us = White THEN 7 ELSE 0
            D(pt) == [b EXCEPT ![a] = NoPiece, ![t] = MakePiece(us, pt)]
<1>1. sit.board = b /\ sit.side = us
  BY SituationIs
<1>2. Rank(t) \in {0, 7} <=> Rank(t) = last
  BY PawnRanks
<1>3. BoardAfter(b, us, Normal(a, t)) = D("pawn") /\ \A pt : BoardAfter(b, us, Promotion(a, t, pt)) = D(pt)
  BY DEF BoardAfter, Normal, Promotion
<1>. HIDE DEF sit, last
<1>4. d \in PawnResults(sit, a, t) <=>
        \E pt \in (IF Rank(t) \in {0, 7} THEN {"queen", "rook", "bishop", "knight"} ELSE {"pawn"}) : d = D(pt)
  BY <1>1 DEF PawnResults
<1>. HIDE DEF D
<1>5. CASE Rank(t) = last
  BY <1>2, <1>3, <1>4, <1>5 DEF PawnMove, sit, last
<1>6. CASE Rank(t) # last
  BY <1>2, <1>3, <1>4, <1>6 DEF PawnMove, sit, last
<1>. QED BY <1>5, <1>6

\* pawns,
LEMMA PawnLeads ==
    ASSUME NEW p, Legal(p), RightsExact(p), NoEdgePawns(p.board), NEW x
    PROVE  ByPawn(p, x) <=> \E m \in GenerateLegalMoves(p) :
                              PawnCan(p.board, p.side, m) /\ x = SituationOf(MakeMove(p, m))
<1>. DEFINE b == p.board
            us == p.side
            sit == SituationOf(p)
            last == IF us = White THEN 7 ELSE 0
            To(a, t, d) == IF Abs(Up(a, t)) = 2 THEN [PlainTo(p, d) EXCEPT !.ep = EPTarget(d, us, (a + t) \div 2)]
                           ELSE PlainTo(p, d)
<1>1. us \in Colors /\ b \in Boards /\ Sound(p) /\ BothKings(p)
  BY DEF Legal, Sound, Consistent
<1>2. ASSUME NEW a \in Squares
      PROVE  /\ Color(b[a]) = us /\ Type(b[a]) = "pawn" <=> b[a] = MakePiece(us, "pawn")
             /\ b[a] = MakePiece(us, "pawn") => Rank(a) \notin {0, 7}
  <2>1. b[a] \in Pieces \cup {NoPiece}
    BY <1>1 DEF Boards
  <2>2. Color(b[a]) = us => b[a] \in Pieces
    BY <1>1, <2>1, PieceFacts
  <2>3. Color(b[a]) = us /\ Type(b[a]) = "pawn" <=> b[a] = MakePiece(us, "pawn")
    BY <1>1, <2>2, PieceFacts DEF PieceTypes
  <2>. QED BY <2>3 DEF NoEdgePawns
<1>3. ASSUME NEW a \in Squares, NEW t \in Squares, b[a] = MakePiece(us, "pawn"), PawnGoes(b, us, a, t),
             NEW m \in PawnMove(a, t, last)
      PROVE  /\ PawnCan(b, us, m)
             /\ Safe(BoardAfter(b, us, m), us) <=> LeavesSafe(p, m)
             /\ Led(p, m, BoardAfter(b, us, m)) = To(a, t, BoardAfter(b, us, m))
  <2>. DEFINE d == BoardAfter(b, us, m)
  <2>1. PawnCan(b, us, m)
    BY <1>3 DEF PawnCan
  <2>2. /\ m.kind \in {"normal", "promotion"} /\ m.from = a /\ m.to = t /\ Playable(b, us, m)
        /\ m.kind = "normal" <=> Rank(t) # last
    <3>1. m.kind \in {"normal", "promotion"} /\ m.from = a /\ m.to = t /\ Playable(b, us, m)
      BY <1>1, <1>3, PawnGoesSomewhere
    <3>2. m.kind = "normal" <=> Rank(t) # last
      BY <1>3 DEF PawnMove, Normal, Promotion
    <3>. QED BY <3>1, <3>2
  <2>3. d \in Boards
    <3>1. \A y \in Pieces : [b EXCEPT ![m.from] = NoPiece, ![m.to] = y] \in Boards
      BY <1>1 DEF Boards
    <3>2. b[m.from] \in Pieces /\ (m.kind = "promotion" => MakePiece(us, m.promotion) \in Pieces)
      BY <1>1, <2>2, ManTypes DEF Playable
    <3>. QED BY <2>2, <3>1, <3>2 DEF BoardAfter
  <2>. HIDE DEF d
  <2>4. Safe(d, us) <=> LeavesSafe(p, m)
    BY <1>1, <2>3, SafeIs DEF LeavesSafe, d
  <2>5. Type(b[a]) = "pawn"
    BY <1>1, <1>3, PieceFacts DEF PieceTypes
  <2>6. /\ Rank(t) \in {0, 7} <=> Rank(t) = last
        /\ Abs(Up(a, t)) = 2 <=> Abs(t - a) = 16
        /\ Abs(Up(a, t)) = 2 => /\ Rank(t) \notin {0, 7} /\ (a + t) \div 2 = a + PawnPush(us)
    BY <1>1, <1>2, <1>3, PawnRanks
  <2>. HIDE DEF last
  <2>7. CASE Abs(Up(a, t)) = 2
    <3>1. m.kind = "normal" /\ Abs(m.to - m.from) = 16 /\ (a + t) \div 2 = m.from + PawnPush(us)
      BY <2>2, <2>6, <2>7
    <3>2. Led(p, m, d) = Situation(d, us, Kept(RightsOf(p), b, d), EPTarget(d, us, m.from + PawnPush(us)))
      BY <2>2, <2>5, <3>1 DEF Led
    <3>3. To(a, t, d) = Situation(d, us, Kept(RightsOf(p), b, d), EPTarget(d, us, m.from + PawnPush(us)))
      BY <2>7, <3>1 DEF PlainTo, Situation
    <3>. QED BY <2>1, <2>4, <3>2, <3>3 DEF d
  <2>8. CASE Abs(Up(a, t)) # 2
    <3>1. m.kind # "castling" /\ Abs(m.to - m.from) # 16
      BY <2>2, <2>6, <2>8
    <3>2. Led(p, m, d) = PlainTo(p, d)
      BY <2>2, <3>1 DEF Led, PlainTo
    <3>3. To(a, t, d) = PlainTo(p, d)
      BY <2>8
    <3>. QED BY <2>1, <2>4, <3>2, <3>3 DEF d
  <2>. QED BY <2>7, <2>8
<1>. HIDE DEF To, last
<1>4. ASSUME ByPawn(p, x)
      PROVE  \E m \in GenerateLegalMoves(p) : PawnCan(b, us, m) /\ x = SituationOf(MakeMove(p, m))
  <2>1. PICK a \in Squares :
          /\ b[a] = MakePiece(us, "pawn") /\ Rank(a) \notin {0, 7}
          /\ \E t \in PawnEnds(sit, a) : \E d \in PawnResults(sit, a, t) : Safe(d, us) /\ x = To(a, t, d)
    BY <1>2, <1>4 DEF ByPawn, To
  <2>2. PICK t \in Squares : PawnGoes(b, us, a, t) /\ \E d \in PawnResults(sit, a, t) : Safe(d, us) /\ x = To(a, t, d)
    BY <1>1, <2>1, PawnEndsAre
  <2>3. PICK m \in PawnMove(a, t, last) : Safe(BoardAfter(b, us, m), us) /\ x = To(a, t, BoardAfter(b, us, m))
    BY <1>1, <2>1, <2>2, PawnResultsAre DEF last
  <2>4. PawnCan(b, us, m) /\ LeavesSafe(p, m) /\ Led(p, m, BoardAfter(b, us, m)) = x
    BY <1>3, <2>1, <2>2, <2>3
  <2>5. m \in GenerateLegalMoves(p)
    BY <2>4, GeneratesTheLaws DEF LawfulMove
  <2>6. SituationOf(MakeMove(p, m)) = x
    BY <2>4, <2>5, LedTo
  <2>. QED BY <2>4, <2>5, <2>6
<1>5. ASSUME NEW m \in GenerateLegalMoves(p), PawnCan(b, us, m), x = SituationOf(MakeMove(p, m))
      PROVE  ByPawn(p, x)
  <2>1. PICK a \in Squares, t \in Squares : b[a] = MakePiece(us, "pawn") /\ PawnGoes(b, us, a, t) /\ m \in PawnMove(a, t, last)
    BY <1>5 DEF PawnCan, last
  <2>. DEFINE d == BoardAfter(b, us, m)
  <2>2. LeavesSafe(p, m)
    BY GeneratesTheLaws DEF LawfulMove
  <2>3. Safe(d, us) /\ x = To(a, t, d)
    BY <1>3, <1>5, <2>1, <2>2, LedTo
  <2>4. t \in PawnEnds(sit, a) /\ d \in PawnResults(sit, a, t)
    BY <1>1, <1>2, <2>1, PawnEndsAre, PawnResultsAre DEF last
  <2>5. Color(b[a]) = us /\ Type(b[a]) = "pawn"
    BY <1>2, <2>1
  <2>. HIDE DEF d
  <2>. QED BY <2>3, <2>4, <2>5 DEF ByPawn, To
<1>. QED BY <1>4, <1>5

-----------------------------------------------------------------------------
\* Castling, as the laws have it for a right of the side to move.
LEMMA RightCastles ==
    ASSUME NEW p, Legal(p), NEW r \in p.castling, r[1] = p.side
    PROVE  LET k == KingSquare(p, p.side)
               rook == p.castlingRook[r]
               t == CastlingKingTo(r)
               x == CastlingRookTo(r)
               y == [color |-> r[1], rook |-> rook]
           IN  /\ CastlingResult(SituationOf(p), y, k) = BoardAfter(p.board, p.side, Castling(k, rook))
               /\ BoardAfter(p.board, p.side, Castling(k, rook)) \in Boards
               /\ MayCastle(SituationOf(p), y, k) <=>
                    /\ \A s \in BetweenBB[k][t] \cup BetweenBB[rook][x] \cup {t, x} :
                         s \notin {k, rook} => p.board[s] = NoPiece
                    /\ \A s \in BetweenBB[k][t] \cup {k, t} : ~Attacked(p.board, Opposite(p.side), s)
<1>. DEFINE b == p.board
            us == p.side
            k == KingSquare(p, us)
            rook == p.castlingRook[r]
            t == CastlingKingTo(r)
            x == CastlingRookTo(r)
            y == [color |-> r[1], rook |-> rook]
            m == Castling(k, rook)
            sit == SituationOf(p)
<1>1. /\ us \in Colors /\ b \in Boards /\ Consistent(p) /\ RightSound(p, r) /\ r \in Rights
      /\ PiecesOf(p, us, "king") # {} /\ Opposite(us) \in Colors
  BY DEF Legal, Sound, Consistent, BothKings, Opposite, Colors
<1>2. sit.board = b /\ sit.side = us
  BY SituationIs
<1>3. k \in Squares /\ b[k] = MakePiece(us, "king")
  BY <1>1, KingStands
<1>4. /\ rook \in Squares /\ b[rook] = MakePiece(us, "rook") /\ (rook > k <=> r[2] = "king")
      /\ Rank(k) = HomeRank(us) /\ Rank(rook) = HomeRank(us)
  BY <1>1 DEF RightSound
<1>5. /\ t \in Squares /\ x \in Squares /\ r[2] \in {"king", "queen"} /\ t # x
      /\ MakeSquare(IF rook > k THEN 6 ELSE 2, Rank(k)) = t
      /\ MakeSquare(IF rook > k THEN 5 ELSE 3, Rank(k)) = x
  <2>1. t \in Squares /\ x \in Squares /\ r[2] \in {"king", "queen"} /\ t # x
    BY <1>1, CastlingPlaces
  <2>. HIDE DEF k, rook
  <2>. QED BY <1>4, <2>1 DEF CastlingKingTo, CastlingRookTo
<1>6. m.kind = "castling" /\ m.from = k /\ m.to = rook /\ r = CastlingRight(us, m)
  <2>1. r = <<r[1], r[2]>>
    BY <1>1 DEF Rights, Wings
  <2>2. m.kind = "castling" /\ m.from = k /\ m.to = rook
    BY DEF Castling
  <2>. HIDE DEF m
  <2>. QED BY <1>4, <1>5, <2>1, <2>2 DEF CastlingRight
<1>7. BoardAfter(b, us, m) =
        [b EXCEPT ![k] = NoPiece, ![rook] = NoPiece, ![t] = MakePiece(us, "king"), ![x] = MakePiece(us, "rook")]
  <2>. HIDE DEF m
  <2>. QED BY <1>6 DEF BoardAfter
<1>8. MakePiece(us, "king") \in Pieces /\ MakePiece(us, "rook") \in Pieces
  BY <1>1, ManTypes DEF PromotionTypes
<1>9. BoardAfter(b, us, m) \in Boards
  <2>. HIDE DEF k, rook, t, x, m
  <2>. QED BY <1>1, <1>7, <1>8 DEF Boards
<1>10. CastlingResult(sit, y, k) = BoardAfter(b, us, m)
  <2>1. y.rook = rook /\ y.color = us
    OBVIOUS
  <2>. HIDE DEF k, rook, t, x, m, y, sit
  <2>. QED BY <1>2, <1>5, <1>7, <2>1 DEF CastlingResult
<1>11. MayCastle(sit, y, k) <=>
          /\ \A s \in Way[k][t] \cup Way[rook][x] \cup {t, x} : s \notin {k, rook} => b[s] = NoPiece
          /\ \A s \in Way[k][t] \cup {k, t} : ~Threatened(b, s, Opposite(us))
  <2>1. y.rook = rook
    OBVIOUS
  <2>. HIDE DEF k, rook, t, x, m, y, sit
  <2>. QED BY <1>2, <1>5, <2>1 DEF MayCastle
<1>12. Way[k][t] = BetweenBB[k][t] /\ Way[rook][x] = BetweenBB[rook][x]
  BY <1>3, <1>4, <1>5, WayIsBetween
<1>13. \A s \in BetweenBB[k][t] \cup {k, t} : s \in Squares
  BY <1>3, <1>5, BetweenOnBoard
<1>14. \A s \in Squares : Threatened(b, s, Opposite(us)) <=> Attacked(b, Opposite(us), s)
  BY <1>1, ThreatenedIs
<1>. HIDE DEF k, rook, t, x, m, y, sit
<1>. QED BY <1>9, <1>10, <1>11, <1>12, <1>13, <1>14 DEF k, rook, t, x, m, y, sit

\* The king of the laws is on the king's square.
LEMMA TheKingIs ==
    ASSUME NEW p, Legal(p)
    PROVE  TheKing(p) = KingSquare(p, p.side)
<1>. DEFINE b == p.board
            us == p.side
            k == KingSquare(p, us)
            mine == {t \in Squares : Color(b[t]) = us}
<1>1. /\ us \in Colors /\ b \in Boards /\ Consistent(p) /\ KingsOnce(p) /\ PiecesOf(p, us, "king") # {}
  BY DEF Legal, Sound, Consistent, BothKings
<1>2. k \in Squares /\ b[k] = MakePiece(us, "king")
  BY <1>1, KingStands
<1>3. k \in mine /\ Type(b[k]) = "king"
  BY <1>1, <1>2, PieceFacts DEF PieceTypes
<1>4. ASSUME NEW s \in mine, Type(b[s]) = "king" PROVE s = k
  <2>1. b[s] \in Pieces
    BY <1>1, PieceFacts DEF Boards
  <2>2. b[s] = MakePiece(us, "king")
    BY <1>4, <2>1, PieceFacts
  <2>. QED BY <1>1, <1>2, <2>2 DEF KingsOnce
<1>. HIDE DEF k, mine
<1>. QED BY <1>3, <1>4 DEF TheKing, k, mine

\* and castling.
LEMMA CastlingLeads ==
    ASSUME NEW p, Legal(p), RightsExact(p), NEW x
    PROVE  ByCastling(p, x) <=> \E m \in GenerateLegalMoves(p) : CastleCan(p, m) /\ x = SituationOf(MakeMove(p, m))
<1>. DEFINE b == p.board
            us == p.side
            k == KingSquare(p, us)
            M(r) == Castling(k, p.castlingRook[r])
            Y(r) == [color |-> r[1], rook |-> p.castlingRook[r]]
            sit == SituationOf(p)
            After(d) == Situation(d, us, {y \in RightsOf(p) : y.color # us}, NoSquare)
<1>1. us \in Colors
  BY DEF Legal, Sound
<1>2. TheKing(p) = k
  BY TheKingIs
<1>3. \A y : y \in Castles(sit) <=> \E r \in p.castling : r[1] = us /\ y = Y(r)
  <2>1. sit.side = us /\ sit.rights = RightsOf(p)
    BY SituationIs
  <2>2. \A r : Y(r).color = r[1]
    OBVIOUS
  <2>. HIDE DEF sit
  <2>3. Castles(sit) = {y \in {Y(r) : r \in p.castling} : y.color = us}
    BY <2>1 DEF Castles, RightsOf
  <2>. HIDE DEF Y
  <2>. QED BY <2>2, <2>3
<1>4. ASSUME NEW r \in p.castling, r[1] = us
      PROVE  /\ CastlingResult(sit, Y(r), k) = BoardAfter(b, us, M(r))
             /\ Safe(BoardAfter(b, us, M(r)), us) <=> LeavesSafe(p, M(r))
             /\ Led(p, M(r), BoardAfter(b, us, M(r))) = After(BoardAfter(b, us, M(r)))
  <2>. DEFINE d == BoardAfter(b, us, M(r))
  <2>1. CastlingResult(sit, Y(r), k) = d /\ d \in Boards
    BY <1>4, RightCastles
  <2>2. M(r).kind = "castling"
    BY DEF Castling
  <2>. HIDE DEF d, M
  <2>3. Led(p, M(r), d) = After(d)
    BY <2>2 DEF Led
  <2>4. Safe(d, us) <=> LeavesSafe(p, M(r))
    BY <1>1, <2>1, SafeIs DEF LeavesSafe, d
  <2>. QED BY <2>1, <2>3, <2>4 DEF d
<1>5. ASSUME NEW r \in p.castling, r[1] = us
      PROVE  MayCastle(sit, Y(r), k) <=>
               /\ \A s \in BetweenBB[k][CastlingKingTo(r)] \cup BetweenBB[p.castlingRook[r]][CastlingRookTo(r)]
                             \cup {CastlingKingTo(r), CastlingRookTo(r)} :
                    s \notin {k, p.castlingRook[r]} => b[s] = NoPiece
               /\ \A s \in BetweenBB[k][CastlingKingTo(r)] \cup {k, CastlingKingTo(r)} : ~Attacked(b, Opposite(us), s)
  BY <1>5, RightCastles
<1>6. \A m : CastleCan(p, m) <=> \E r \in p.castling : r[1] = us /\ m = M(r) /\ MayCastle(sit, Y(r), k)
  <2>. HIDE DEF sit, Y, k
  <2>. QED BY <1>5 DEF CastleCan, k
<1>7. ByCastling(p, x) <=> \E y \in Castles(sit) :
        MayCastle(sit, y, k) /\ Safe(CastlingResult(sit, y, k), us) /\ x = After(CastlingResult(sit, y, k))
  BY <1>2 DEF ByCastling
<1>. HIDE DEF M, Y, sit, After, k
<1>8. ASSUME ByCastling(p, x)
      PROVE  \E m \in GenerateLegalMoves(p) : CastleCan(p, m) /\ x = SituationOf(MakeMove(p, m))
  <2>1. PICK r \in p.castling : /\ r[1] = us /\ MayCastle(sit, Y(r), k) /\ Safe(CastlingResult(sit, Y(r), k), us)
                                /\ x = After(CastlingResult(sit, Y(r), k))
    BY <1>3, <1>7, <1>8
  <2>2. CastleCan(p, M(r)) /\ LeavesSafe(p, M(r))
    BY <1>4, <1>6, <2>1
  <2>3. M(r) \in GenerateLegalMoves(p)
    BY <2>2, GeneratesTheLaws DEF LawfulMove
  <2>4. SituationOf(MakeMove(p, M(r))) = x
    BY <1>4, <2>1, <2>3, LedTo
  <2>. QED BY <2>2, <2>3, <2>4
<1>9. ASSUME NEW m \in GenerateLegalMoves(p), CastleCan(p, m), x = SituationOf(MakeMove(p, m))
      PROVE  ByCastling(p, x)
  <2>1. PICK r \in p.castling : r[1] = us /\ m = M(r) /\ MayCastle(sit, Y(r), k)
    BY <1>6, <1>9
  <2>2. LeavesSafe(p, m)
    BY GeneratesTheLaws DEF LawfulMove
  <2>3. x = After(CastlingResult(sit, Y(r), k)) /\ Safe(CastlingResult(sit, Y(r), k), us)
    BY <1>4, <1>9, <2>1, <2>2, LedTo
  <2>. QED BY <1>3, <1>7, <2>1, <2>3
<1>. QED BY <1>8, <1>9

\* The moves generated lead to the situations the laws allow.
LEMMA ResultsAre ==
    ASSUME NEW p, Legal(p), RightsExact(p), NoEdgePawns(p.board)
    PROVE  {SituationOf(MakeMove(p, m)) : m \in GenerateLegalMoves(p)} = Successors(SituationOf(p))
<1>1. Sound(p) /\ BothKings(p)
  BY DEF Legal
<1>2. ASSUME NEW x
      PROVE  x \in Successors(SituationOf(p)) <=> \E m \in GenerateLegalMoves(p) : x = SituationOf(MakeMove(p, m))
  BY <1>1, SuccessorIs, PieceLeads, PawnLeads, PassantLeads, CastlingLeads, GeneratedCan
<1>. QED BY <1>2

-----------------------------------------------------------------------------
(***************************************************************************)
(* Two generated moves never lead to one board.                            *)
(***************************************************************************)
\* The shapes of a generated move.
LEMMA MoveShapes ==
    ASSUME NEW p, Legal(p), NEW m \in GenerateLegalMoves(p), m.kind # "castling"
    PROVE  LET last == IF p.side = White THEN 7 ELSE 0
           IN  \/ m = Normal(m.from, m.to) /\ PieceCan(p.board, p.side, m)
               \/ /\ m = Normal(m.from, m.to) /\ Type(p.board[m.from]) = "pawn" /\ Rank(m.to) # last
               \/ /\ m = Promotion(m.from, m.to, m.promotion) /\ Type(p.board[m.from]) = "pawn" /\ Rank(m.to) = last
               \/ m = EnPassant(m.from, m.to)
<1>. DEFINE b == p.board
            us == p.side
            last == IF us = White THEN 7 ELSE 0
<1>1. Sound(p) /\ BothKings(p) /\ us \in Colors
  BY DEF Legal, Sound
<1>2. PieceCan(b, us, m) \/ PawnCan(b, us, m) \/ PassantCan(p, m)
  BY <1>1, GeneratedCan, CanKinds
<1>3. PieceCan(b, us, m) => m = Normal(m.from, m.to)
  BY DEF PieceCan, Normal
<1>4. PassantCan(p, m) => m = EnPassant(m.from, m.to)
  BY DEF PassantCan, EnPassant
<1>5. ASSUME PawnCan(b, us, m)
      PROVE  /\ Type(b[m.from]) = "pawn"
             /\ \/ m = Normal(m.from, m.to) /\ Rank(m.to) # last
                \/ m = Promotion(m.from, m.to, m.promotion) /\ Rank(m.to) = last
  <2>1. PICK f, t \in Squares : b[f] = MakePiece(us, "pawn") /\ m \in PawnMove(f, t, last)
    BY <1>5 DEF PawnCan
  <2>2. Type(b[f]) = "pawn"
    BY <1>1, <2>1, PieceFacts DEF PieceTypes
  <2>3. \/ m = Normal(f, t) /\ Rank(t) # last
        \/ Rank(t) = last /\ \E pt : m = Promotion(f, t, pt)
    BY <2>1 DEF PawnMove
  <2>. HIDE DEF last
  <2>. QED BY <2>2, <2>3 DEF Normal, Promotion
<1>. HIDE DEF last
<1>. QED BY <1>2, <1>3, <1>4, <1>5 DEF last

\* The squares of a move can be read off the board it leads to,
LEMMA SameEnds ==
    ASSUME NEW b, NEW d, NEW us \in Colors, NEW m, NEW n, Goes(b, d, us, m), Goes(b, d, us, n)
    PROVE  m.from = n.from /\ m.to = n.to
<1>1. Opposite(us) # us /\ Color(NoPiece) # us /\ Color(MakePiece(Opposite(us), "pawn")) = Opposite(us)
  BY DEF Colors, White, Black, Opposite, NoPiece, Color, MakePiece
<1>2. \A s \in Squares : Color(b[s]) = us /\ Color(d[s]) # us => s = m.from
  BY <1>1 DEF Goes
<1>3. \A s \in Squares : Color(b[s]) # us /\ Color(d[s]) = us => s = m.to
  BY <1>1 DEF Goes
<1>. QED BY <1>1, <1>2, <1>3 DEF Goes

\* and its kind and promotion too,
LEMMA PlainDiffer ==
    ASSUME NEW p, Legal(p), NEW m \in GenerateLegalMoves(p), NEW n \in GenerateLegalMoves(p),
           m.kind # "castling", n.kind # "castling",
           BoardAfter(p.board, p.side, m) = BoardAfter(p.board, p.side, n)
    PROVE  m = n
<1>. DEFINE b == p.board
            us == p.side
            d == BoardAfter(b, us, m)
<1>1. us \in Colors
  BY DEF Legal, Sound
<1>2. Goes(b, d, us, m) /\ Goes(b, d, us, n)
  BY MoveGoes
<1>3. m.from = n.from /\ m.to = n.to
  BY <1>1, <1>2, SameEnds
<1>4. ASSUME NEW i \in GenerateLegalMoves(p), i.kind = "enPassant", NEW j \in GenerateLegalMoves(p), j.kind # "castling",
             j.kind # "enPassant", i.from = j.from, i.to = j.to, BoardAfter(b, us, i) = BoardAfter(b, us, j)
      PROVE  FALSE
  <2>. DEFINE cap == i.to - PawnPush(us)
              e == BoardAfter(b, us, i)
  <2>1. Goes(b, e, us, i) /\ cap \in Squares \ {i.from, i.to}
    BY <1>4, MoveGoes
  <2>2. Goes(b, e, us, j)
    BY <1>4, MoveGoes
  <2>. HIDE DEF cap, e
  <2>3. b[cap] # NoPiece /\ e[cap] = NoPiece
    BY <1>4, <2>1 DEF Goes, cap, MakePiece, NoPiece
  <2>4. e[cap] = b[cap]
    BY <1>4, <2>1, <2>2 DEF Goes
  <2>. QED BY <2>3, <2>4
<1>5. CASE m.kind = "enPassant" /\ n.kind = "enPassant"
  <2>1. m = EnPassant(m.from, m.to) /\ n = EnPassant(n.from, n.to)
    <3>1. \A f, t, pt : Normal(f, t).kind # "enPassant" /\ Promotion(f, t, pt).kind # "enPassant"
      BY DEF Normal, Promotion
    <3>. QED BY <1>5, <3>1, MoveShapes
  <2>. QED BY <1>3, <2>1
<1>6. CASE m.kind # "enPassant" /\ n.kind # "enPassant"
  <2>. DEFINE last == IF us = White THEN 7 ELSE 0
  <2>1. ASSUME NEW i \in GenerateLegalMoves(p), i.kind # "castling", i.kind # "enPassant"
        PROVE  \/ i = Normal(i.from, i.to) /\ (Type(b[i.from]) = "pawn" => Rank(i.to) # last)
               \/ /\ i = Promotion(i.from, i.to, i.promotion) /\ Type(b[i.from]) = "pawn" /\ Rank(i.to) = last
    <3>1. \A f, t : EnPassant(f, t).kind = "enPassant"
      BY DEF EnPassant
    <3>2. PieceCan(b, us, i) => Type(b[i.from]) # "pawn"
      BY CanKinds
    <3>. HIDE DEF last
    <3>. QED BY <2>1, <3>1, <3>2, MoveShapes DEF last
  <2>. HIDE DEF last
  <2>2. CASE Type(b[m.from]) = "pawn" /\ Rank(m.to) = last
    <3>1. m = Promotion(m.from, m.to, m.promotion) /\ n = Promotion(m.from, m.to, n.promotion)
      BY <1>3, <1>6, <2>1, <2>2
    <3>2. \A i : i = Promotion(i.from, i.to, i.promotion) => BoardAfter(b, us, i)
                   = [b EXCEPT ![i.from] = NoPiece, ![i.to] = MakePiece(us, i.promotion)]
      BY DEF BoardAfter, Promotion
    <3>3. b \in Boards /\ m.from \in Squares /\ m.to \in Squares /\ m.from # m.to
      BY <1>2 DEF Legal, Sound, Consistent, Goes
    <3>4. MakePiece(us, m.promotion) = MakePiece(us, n.promotion)
      <4>. DEFINE G(y) == [b EXCEPT ![m.from] = NoPiece, ![m.to] = y]
      <4>1. BoardAfter(b, us, m) = G(MakePiece(us, m.promotion))
        BY <3>1, <3>2
      <4>2. BoardAfter(b, us, n) = G(MakePiece(us, n.promotion))
        BY <1>3, <3>1, <3>2
      <4>3. \A y : G(y)[m.to] = y
        BY <3>3 DEF Boards
      <4>. HIDE DEF G
      <4>4. G(MakePiece(us, m.promotion)) = G(MakePiece(us, n.promotion))
        BY <4>1, <4>2
      <4>. QED BY <4>3, <4>4
    <3>5. m.promotion = n.promotion
      BY <3>4 DEF MakePiece
    <3>. QED BY <3>1, <3>5
  <2>3. CASE ~(Type(b[m.from]) = "pawn" /\ Rank(m.to) = last)
    BY <1>3, <1>6, <2>1, <2>3
  <2>. QED BY <2>2, <2>3
<1>. QED BY <1>3, <1>4, <1>5, <1>6

\* and the same of castling, to either wing;
LEMMA CastlingsDiffer ==
    ASSUME NEW p, Legal(p), NEW m, NEW n, CastleCan(p, m), CastleCan(p, n),
           BoardAfter(p.board, p.side, m) = BoardAfter(p.board, p.side, n)
    PROVE  m = n
<1>. DEFINE b == p.board
            us == p.side
            d == BoardAfter(b, us, m)
<1>1. us \in Colors /\ KingsOnce(p) /\ p.castling \subseteq Rights
  BY DEF Legal, Sound
<1>2. PICK r, k, rook : Castled(p, d, m, r, k, rook)
  BY MoveCastles
<1>3. PICK q, j, tower : Castled(p, d, n, q, j, tower)
  BY MoveCastles
<1>. DEFINE t == CastlingKingTo(r)
            u == CastlingKingTo(q)
<1>4. \A s \in Squares : b[s] = MakePiece(us, "king") => s = k
  BY <1>1, <1>2 DEF Castled, KingsOnce
<1>5. MakePiece(us, "king") # MakePiece(us, "rook") /\ MakePiece(us, "king") # NoPiece
  BY DEF MakePiece, NoPiece
<1>6. \A s \in Squares : d[s] = MakePiece(us, "king") => s = t
  <2>. HIDE DEF d
  <2>. QED BY <1>2, <1>4, <1>5 DEF Castled
<1>7. u = t
  BY <1>3, <1>6 DEF Castled
<1>8. r = q
  <2>1. r \in Rights /\ q \in Rights /\ r[1] = us /\ q[1] = us
    BY <1>1, <1>2, <1>3 DEF Castled
  <2>2. \A x \in Rights : /\ x = <<x[1], x[2]>> /\ x[2] \in {"king", "queen"}
                          /\ x[2] = "king" => File(CastlingKingTo(x)) = 6
                          /\ x[2] = "queen" => File(CastlingKingTo(x)) = 2
    BY CastlingPlaces DEF Rights, Wings
  <2>3. r[2] = q[2]
    BY <1>7, <2>1, <2>2
  <2>. QED BY <2>1, <2>2, <2>3
<1>. QED BY <1>2, <1>3, <1>8 DEF Castled

\* A king or a rook that goes alone does not do what castling does: the king would go
\* two files, or the rook jump over it.
LEMMA CastlingApart ==
    ASSUME NEW p, Legal(p), NEW m, CastleCan(p, m), NEW n \in GenerateLegalMoves(p), n.kind # "castling"
    PROVE  BoardAfter(p.board, p.side, m) # BoardAfter(p.board, p.side, n)
<1>. DEFINE b == p.board
            us == p.side
            d == BoardAfter(b, us, m)
            King == MakePiece(us, "king")
            Tower == MakePiece(us, "rook")
<1>. SUFFICES ASSUME d = BoardAfter(b, us, n) PROVE FALSE
  OBVIOUS
<1>1. us \in Colors /\ KingsOnce(p) /\ p.castling \subseteq Rights /\ b \in Boards
  BY DEF Legal, Sound, Consistent
<1>2. PICK r, k, rook : Castled(p, d, m, r, k, rook)
  BY MoveCastles
<1>. DEFINE t == CastlingKingTo(r)
            x == CastlingRookTo(r)
<1>3. Goes(b, d, us, n)
  BY MoveGoes
<1>4. /\ King # Tower /\ King # NoPiece /\ Tower # NoPiece /\ Color(King) = us /\ Color(Tower) = us
      /\ Color(NoPiece) # us /\ Opposite(us) # us /\ Type(King) = "king" /\ Type(Tower) = "rook"
      /\ Color(MakePiece(Opposite(us), "pawn")) = Opposite(us)
  BY <1>1 DEF Colors, White, Black, Opposite, MakePiece, NoPiece, Color, Type
<1>5. /\ k \in Squares /\ rook \in Squares /\ t \in Squares /\ x \in Squares /\ t # x /\ k # rook
      /\ b[k] = King /\ b[rook] = Tower /\ d[t] = King /\ d[x] = Tower
      /\ \A s \in {t, x} : s \in {k, rook} \/ b[s] = NoPiece
      /\ \A s \in {k, rook} \ {t, x} : d[s] = NoPiece
      /\ r \in Rights /\ r[1] = us /\ RightSound(p, r) /\ rook = p.castlingRook[r] /\ k = KingSquare(p, us)
  BY <1>1, <1>2 DEF Castled
<1>6. /\ rook > k <=> r[2] = "king"
      /\ Rank(k) = HomeRank(us) /\ Rank(rook) = HomeRank(us) /\ Rank(t) = HomeRank(us) /\ Rank(x) = HomeRank(us)
      /\ \/ r[2] = "king" /\ File(t) = 6 /\ File(x) = 5
         \/ r[2] = "queen" /\ File(t) = 2 /\ File(x) = 3
  BY <1>5, CastlingPlaces DEF RightSound
<1>7. /\ File(k) \in 0..7 /\ k = 8 * Rank(k) + File(k)
      /\ File(rook) \in 0..7 /\ rook = 8 * Rank(rook) + File(rook) /\ Rank(k) \in 0..7
      /\ File(t) \in 0..7 /\ t = 8 * Rank(t) + File(t) /\ File(x) \in 0..7 /\ x = 8 * Rank(x) + File(x)
  BY <1>5, Coordinates
<1>8. /\ r[2] = "king" => File(rook) > File(k)
      /\ r[2] = "queen" => File(rook) < File(k)
  BY <1>5, <1>6, <1>7
<1>9. Type(b[n.from]) \in {"king", "rook"} =>
        PieceCan(b, us, n) /\ d[n.to] = b[n.from]
  <2>. HAVE Type(b[n.from]) \in {"king", "rook"}
  <2>1. n.kind # "enPassant"
    BY PieceFacts, MoveGoes DEF Legal, Sound, PieceTypes
  <2>2. PieceCan(b, us, n) /\ n = Normal(n.from, n.to)
    <3>1. \A f, s : EnPassant(f, s).kind = "enPassant"
      BY DEF EnPassant
    <3>. QED BY <2>1, <3>1, MoveShapes
  <2>3. n.from \in Squares /\ n.to \in Squares /\ n.from # n.to
    BY <1>3 DEF Goes
  <2>4. BoardAfter(b, us, n) = [b EXCEPT ![n.from] = NoPiece, ![n.to] = b[n.from]]
    BY <2>2 DEF BoardAfter, Normal
  <2>5. d[n.to] = b[n.from]
    BY <1>1, <2>3, <2>4 DEF Boards
  <2>. QED BY <2>2, <2>5
<1>10. Type(b[n.from]) \in {"king", "rook"} => Attacks(b, n.from, n.to)
  <2>. HAVE Type(b[n.from]) \in {"king", "rook"}
  <2>1. PieceCan(b, us, n)
    BY <1>9
  <2>2. PICK f \in Squares, s \in Squares : n = Normal(f, s) /\ Color(b[f]) = us /\ Assails(b[f], f, s, Manned(b))
    BY <2>1 DEF PieceCan
  <2>3. n.from = f /\ n.to = s
    BY <2>2 DEF Normal
  <2>4. b[f] # NoPiece
    BY <1>1, <2>2, ColoredIsMan
  <2>. QED BY <1>1, <2>2, <2>3, <2>4, AttacksAre
<1>. HIDE DEF t, x, d, King, Tower
<1>11. CASE t = k
  <2>1. x # rook
    <3>1. ASSUME x = rook PROVE FALSE
      BY <1>6, <1>7, <1>8, <1>11, <3>1
    <3>. QED BY <3>1
  <2>2. d[rook] = NoPiece
    BY <1>5, <1>11, <2>1
  <2>3. n.from = rook
    BY <1>3, <1>4, <1>5, <2>2 DEF Goes
  <2>4. n.to = x
    BY <1>3, <1>4, <1>5, <1>11, <2>1 DEF Goes
  <2>5. Attacks(b, rook, x)
    BY <1>4, <1>5, <1>10, <2>3, <2>4
  <2>6. k \in Way[rook][x]
    <3>1. Up(rook, x) = 0 /\ Rank(rook) = Rank(k)
      BY <1>6, <1>7 DEF Up
    <3>2. CASE r[2] = "king"
      <4>1. File(rook) = 7 /\ File(x) = 5 /\ File(k) = 6
        BY <1>6, <1>7, <1>8, <1>11, <3>2
      <4>2. Way[rook][x] = BetweenBB[rook][x] /\ West \in Directions /\ DX(West) = -1 /\ DY(West) = 0
        BY <1>5, WayIsBetween DEF Directions, RookDirs, DX, DY, North, South, East, West
      <4>3. At(rook, West, 2, x) /\ At(rook, West, 1, k)
        BY <1>6, <1>7, <3>1, <4>1, <4>2 DEF At
      <4>4. InWay(rook, West, 2, k)
        BY <4>3 DEF InWay
      <4>. QED BY <1>5, <4>2, <4>3, <4>4, BetweenIs
    <3>3. CASE r[2] = "queen"
      <4>1. File(rook) \in 0..1 /\ File(x) = 3 /\ File(k) = 2
        BY <1>6, <1>7, <1>8, <1>11, <3>3
      <4>2. Way[rook][x] = BetweenBB[rook][x] /\ East \in Directions /\ DX(East) = 1 /\ DY(East) = 0
        BY <1>5, WayIsBetween DEF Directions, RookDirs, DX, DY, North, South, East, West
      <4>. DEFINE far == 3 - File(rook)
      <4>3. far \in 1..7 /\ far - 1 \in 1 .. (far - 1) /\ At(rook, East, far, x) /\ At(rook, East, far - 1, k)
        BY <1>6, <1>7, <3>1, <4>1, <4>2 DEF At
      <4>. HIDE DEF far
      <4>4. InWay(rook, East, far, k)
        BY <4>3 DEF InWay
      <4>. QED BY <1>5, <4>2, <4>3, <4>4, BetweenIs
    <3>. QED BY <1>6, <3>2, <3>3
  <2>. QED BY <1>4, <1>5, <2>5, <2>6 DEF Attacks
<1>12. CASE t # k
  <2>1. d[k] # King
    BY <1>4, <1>5, <1>12
  <2>2. n.from = k
    <3>1. ASSUME n.from # k PROVE FALSE
      <4>1. k # n.to
        BY <1>3, <1>4, <1>5 DEF Goes
      <4>2. d[k] = b[k] \/ b[k] = MakePiece(Opposite(us), "pawn")
        BY <1>3, <1>5, <3>1, <4>1 DEF Goes
      <4>. QED BY <1>4, <1>5, <2>1, <4>2
    <3>. QED BY <3>1
  <2>3. Attacks(b, k, n.to) /\ d[n.to] = King
    BY <1>4, <1>5, <1>9, <1>10, <2>2
  <2>4. t = n.to
    <3>1. ASSUME t # n.to PROVE FALSE
      <4>1. d[t] = b[t] \/ d[t] = NoPiece
        BY <1>3, <1>5, <2>2, <3>1 DEF Goes
      <4>2. b[t] = King
        BY <1>4, <1>5, <4>1
      <4>. QED BY <1>1, <1>5, <1>12, <4>2 DEF KingsOnce, King
    <3>. QED BY <3>1
  <2>5. rook # t
    BY <1>3, <1>4, <1>5, <2>4 DEF Goes
  <2>6. rook = x
    <3>1. ASSUME rook # x PROVE FALSE
      <4>1. d[rook] = NoPiece
        BY <1>5, <2>5, <3>1
      <4>2. d[rook] = b[rook] \/ b[rook] = MakePiece(Opposite(us), "pawn")
        BY <1>3, <1>5, <2>2, <2>4, <2>5 DEF Goes
      <4>. QED BY <1>4, <1>5, <4>1, <4>2
    <3>. QED BY <3>1
  <2>7. Reaches(b[k], k, t)
    BY <2>3, <2>4 DEF Attacks
  <2>8. Max({Abs(Across(k, t)), Abs(Up(k, t))}) = 1
    BY <1>4, <1>5, <2>7 DEF Reaches
  <2>9. Up(k, t) = 0 /\ Abs(Across(k, t)) > 1 /\ Abs(Across(k, t)) \in Int
    BY <1>6, <1>7, <1>8, <2>6 DEF Up, Across, Abs
  <2>10. Max({Abs(Across(k, t)), Abs(Up(k, t))}) >= Abs(Across(k, t))
    <3>1. Abs(Up(k, t)) = 0
      BY <2>9 DEF Abs
    <3>2. \E z \in {Abs(Across(k, t)), Abs(Up(k, t))} : \A w \in {Abs(Across(k, t)), Abs(Up(k, t))} : z >= w
      BY <2>9, <3>1
    <3>. QED BY <3>2 DEF Max
  <2>. QED BY <2>8, <2>9, <2>10
<1>. QED BY <1>11, <1>12

\* Hence generated moves that lead to one board are one move.
LEMMA MovesDiffer ==
    ASSUME NEW p, Legal(p), NEW m \in GenerateLegalMoves(p), NEW n \in GenerateLegalMoves(p),
           BoardAfter(p.board, p.side, m) = BoardAfter(p.board, p.side, n)
    PROVE  m = n
<1>1. \A i \in GenerateLegalMoves(p) : i.kind = "castling" => CastleCan(p, i)
  BY GeneratedCan, CanKinds DEF Legal
<1>. QED BY <1>1, PlainDiffer, CastlingsDiffer, CastlingApart

-----------------------------------------------------------------------------
\* As many results as moves.
Every == {"normal", "promotion", "enPassant", "castling"}
Become == {"none", "queen", "rook", "bishop", "knight"}

\* There are finitely many,
LEMMA MovesAreFew ==
    ASSUME NEW p, Legal(p)
    PROVE  IsFiniteSet(GenerateLegalMoves(p))
<1>. DEFINE Quads == (Squares \X Squares) \X (Every \X Become)
            F(q) == [from |-> q[1][1], to |-> q[1][2], kind |-> q[2][1], promotion |-> q[2][2]]
            All == {F(q) : q \in Quads}
<1>1. IsFiniteSet(Squares) /\ IsFiniteSet(Every) /\ IsFiniteSet(Become)
  <2>1. IsFiniteSet(Squares)
    <3>. DEFINE n == 63
    <3>1. n \in Int /\ 0 \in Int /\ Squares = 0 .. n
      BY DEF Squares
    <3>. HIDE DEF n
    <3>. QED BY <3>1, FS_Interval
  <2>2. /\ Every = {"normal"} \cup {"promotion"} \cup {"enPassant"} \cup {"castling"}
        /\ Become = {"none"} \cup {"queen"} \cup {"rook"} \cup {"bishop"} \cup {"knight"}
    BY DEF Every, Become
  <2>3. \A S, T : IsFiniteSet(S) /\ IsFiniteSet(T) => IsFiniteSet(S \cup T)
    BY FS_Union
  <2>4. \A x : IsFiniteSet({x})
    BY FS_Singleton
  <2>. QED BY <2>1, <2>2, <2>3, <2>4
<1>2. IsFiniteSet(Quads)
  <2>1. \A S, T : IsFiniteSet(S) /\ IsFiniteSet(T) => IsFiniteSet(S \X T)
    BY FS_Product
  <2>. QED BY <1>1, <2>1
<1>3. IsFiniteSet(All)
  <2>. DEFINE f == [q \in Quads |-> F(q)]
  <2>1. f \in Surjection(Quads, All)
    <3>. HIDE DEF Quads, F
    <3>. QED BY DEF Surjection
  <2>. HIDE DEF Quads, F, All, f
  <2>. QED BY <1>2, <2>1, FS_Surjection
<1>4. ASSUME NEW m \in GenerateLegalMoves(p) PROVE m \in All
  <2>1. m.from \in Squares /\ m.to \in Squares
    BY GeneratedPlayable DEF Legal, Playable
  <2>2. \E kind \in Every, pt \in Become : m = [from |-> m.from, to |-> m.to, kind |-> kind, promotion |-> pt]
    <3>1. CASE m.kind = "castling"
      <4>1. CastleCan(p, m)
        BY <3>1, GeneratedCan, CanKinds DEF Legal
      <4>. QED BY <4>1 DEF CastleCan, Castling, Every, Become
    <3>2. CASE PieceCan(p.board, p.side, m)
      BY <3>2 DEF PieceCan, Normal, Every, Become
    <3>3. CASE PawnCan(p.board, p.side, m)
      BY <3>3 DEF PawnCan, PawnMove, Normal, Promotion, Every, Become
    <3>4. CASE PassantCan(p, m)
      BY <3>4 DEF PassantCan, EnPassant, Every, Become
    <3>. QED BY <3>1, <3>2, <3>3, <3>4, GeneratedCan, CanKinds DEF Legal
  <2>3. PICK kind \in Every, pt \in Become : m = [from |-> m.from, to |-> m.to, kind |-> kind, promotion |-> pt]
    BY <2>2
  <2>. DEFINE q == <<<<m.from, m.to>>, <<kind, pt>>>>
  <2>4. q \in Quads /\ m = F(q)
    BY <2>1, <2>3
  <2>. HIDE DEF Quads, F, q
  <2>. QED BY <2>4
<1>. HIDE DEF All
<1>. QED BY <1>3, <1>4, FS_Subset

\* and so as many situations as moves.
LEMMA NoneTwice ==
    ASSUME NEW p, Legal(p)
    PROVE  Cardinality(GenerateLegalMoves(p)) =
             Cardinality({SituationOf(MakeMove(p, m)) : m \in GenerateLegalMoves(p)})
<1>. DEFINE moves == GenerateLegalMoves(p)
            R(m) == SituationOf(MakeMove(p, m))
            results == {R(m) : m \in moves}
            f == [m \in moves |-> R(m)]
<1>1. ASSUME NEW m \in moves, NEW n \in moves, R(m) = R(n)
      PROVE  m = n
  <2>1. \A i \in moves : R(i).board = BoardAfter(p.board, p.side, i)
    <3>1. \A i \in moves : MakeMove(p, i).board = BoardAfter(p.board, p.side, i)
      BY GeneratedPlayable, MoveMade DEF Legal, Sound
    <3>. QED BY <3>1, SituationIs
  <2>. QED BY <1>1, <2>1, MovesDiffer
<1>2. IsFiniteSet(moves)
  BY MovesAreFew
<1>. HIDE DEF R, moves
<1>3. f \in Surjection(moves, results) /\ f \in Injection(moves, results)
  BY <1>1 DEF Surjection, Injection, IsInjective
<1>. HIDE DEF f, results
<1>4. Cardinality(results) = Cardinality(moves)
  BY <1>2, <1>3, FS_Surjection
<1>. QED BY <1>4 DEF results, moves, R

-----------------------------------------------------------------------------
(***************************************************************************)
(* Captures and promotions.                                                *)
(***************************************************************************)
\* What the generator restricts itself to when it is asked for captures only.
Gains(p, m) == m.to \in p.byColor[Opposite(p.side)] \/ m.kind \in {"promotion", "enPassant"}

\* Both generators, out of check.
LEMMA CapturesIs ==
    ASSUME NEW p, Checkers(p) = {}, NEW m
    PROVE  LET us == p.side
               k == KingSquare(p, us)
               occ == Occupied(p)
               theirs == p.byColor[Opposite(us)]
               others == Squares \ p.byColor[us]
               edge == RankBB(0) \cup RankBB(7)
               pinned == BlockersForKing(p, us) \cap p.byColor[us]
           IN  /\ m \in GenerateLegalMoves(p) <=>
                    \/ m \in KingMoves(p, k, Opposite(us), occ, others)
                    \/ m \in CastlingMoves(p, us, occ)
                    \/ m \in PawnMoves(p, us, others, others, pinned, k, occ)
                    \/ m \in PieceMoves(p, us, others, pinned, k, occ)
               /\ m \in GenerateCaptures(p) <=>
                    \/ m \in KingMoves(p, k, Opposite(us), occ, theirs)
                    \/ m \in PawnMoves(p, us, theirs, edge, pinned, k, occ)
                    \/ m \in PieceMoves(p, us, theirs, pinned, k, occ)
<1>1. ~(Cardinality(Checkers(p)) > 1)
  BY FS_EmptySet
<1>. QED BY <1>1 DEF GenerateLegalMoves, GenerateCaptures, Generate

\* In check they are the same.
LEMMA InCheckSame ==
    ASSUME NEW p, InCheck(p)
    PROVE  GenerateCaptures(p) = GenerateLegalMoves(p)
  BY DEF InCheck, GenerateLegalMoves, GenerateCaptures, Generate

\* A push to an edge of the board is a promotion.
LEMMA PushesRestricted ==
    ASSUME NEW us \in Colors, NEW from \in Squares, NEW occ, NEW others, Squares \ occ \subseteq others,
           others \subseteq Squares, NEW to
    PROVE  to \in Pushes(from, us, RankBB(0) \cup RankBB(7), occ) <=>
             /\ to \in Pushes(from, us, others, occ) /\ Rank(to) = (IF us = White THEN 7 ELSE 0)
<1>. DEFINE one == from + PawnPush(us)
            two == from + PawnPush(us) + PawnPush(us)
            Free == \/ to = one /\ one \notin occ
                    \/ to = two /\ one \notin occ /\ two \notin occ /\ Rank(from) = (IF us = White THEN 1 ELSE 6)
            edge == RankBB(0) \cup RankBB(7)
<1>1. \A quiet : to \in Pushes(from, us, quiet, occ) <=> to \in quiet /\ Free
  BY DEF Pushes
<1>2. Free /\ to \in Squares => (to \in edge <=> Rank(to) = (IF us = White THEN 7 ELSE 0))
  <2>. HAVE Free /\ to \in Squares
  <2>1. /\ File(to) \in 0..7 /\ Rank(to) \in 0..7 /\ to = 8 * Rank(to) + File(to)
        /\ File(from) \in 0..7 /\ Rank(from) \in 0..7 /\ from = 8 * Rank(from) + File(from)
    BY Coordinates
  <2>2. (us = White /\ PawnPush(us) = 8) \/ (us # White /\ PawnPush(us) = -8)
    BY DEF Colors, White, Black, PawnPush, North, South
  <2>3. to = one \/ to = two
    OBVIOUS
  <2>4. /\ us = White => Rank(to) # 0
        /\ us # White => Rank(to) # 7
    BY <2>1, <2>2, <2>3
  <2>5. to \in edge <=> Rank(to) = 0 \/ Rank(to) = 7
    BY DEF RankBB
  <2>. QED BY <2>4, <2>5
<1>3. Free => to \notin occ
  OBVIOUS
<1>4. edge \subseteq Squares
  BY DEF RankBB
<1>. HIDE DEF Free, edge
<1>5. Free /\ Rank(to) = (IF us = White THEN 7 ELSE 0) /\ to \in others => to \in edge
  BY <1>2
<1>6. Free /\ to \in edge => to \in others
  BY <1>3, <1>4
<1>. QED BY <1>1, <1>2, <1>4, <1>5, <1>6 DEF edge

\* A pawn goes there, or takes en passant.
Steps(p, us, targets, quiet, occ, from, to) ==
    \/ to \in Pushes(from, us, quiet, occ)
    \/ to \in PawnAttacks[us][from] /\ to \in p.byColor[Opposite(us)] /\ to \in targets
Passes(p, us, k, occ, m, from) ==
    /\ m = EnPassant(from, p.epSquare) /\ p.epSquare # NoSquare
    /\ p.epSquare \in PawnAttacks[us][from]
    /\ EnPassantLegal(p, from, p.epSquare, us, k, occ)

\* The moves of pawns, one by one,
LEMMA PawnMovesIs ==
    ASSUME NEW p, NEW us, NEW targets, NEW quiet, NEW pinned, NEW k, NEW occ, NEW m
    PROVE  m \in PawnMoves(p, us, targets, quiet, pinned, k, occ) <=>
             \E from \in PiecesOf(p, us, "pawn") :
               \/ \E to \in PinMask(k, pinned, from) :
                    Steps(p, us, targets, quiet, occ, from, to) /\ m \in PawnMove(from, to, IF us = White THEN 7 ELSE 0)
               \/ Passes(p, us, k, occ, m, from)
<1>. DEFINE pawns == PiecesOf(p, us, "pawn")
            promoRank == IF us = White THEN 7 ELSE 0
            Ts(x) == PinMask(k, pinned, x)
                          \cap (Pushes(x, us, quiet, occ)
                                  \cup (PawnAttacks[us][x] \cap p.byColor[Opposite(us)] \cap targets))
            Takes(x) == /\ p.epSquare # NoSquare
                        /\ p.epSquare \in PawnAttacks[us][x]
                        /\ EnPassantLegal(p, x, p.epSquare, us, k, occ)
            F(x) == UNION {PawnMove(x, to, promoRank) : to \in Ts(x)}
<1>1. PawnMoves(p, us, targets, quiet, pinned, k, occ) =
        (UNION {F(x) : x \in pawns}) \cup {EnPassant(x, p.epSquare) : x \in {s \in pawns : Takes(s)}}
  BY DEF PawnMoves
<1>2. \A x : m \in F(x) <=> \E to \in Ts(x) : m \in PawnMove(x, to, promoRank)
  OBVIOUS
<1>3. \A x, to : to \in Ts(x) <=> /\ to \in PinMask(k, pinned, x)
                                  /\ Steps(p, us, targets, quiet, occ, x, to)
  BY DEF Steps
<1>. HIDE DEF pawns, promoRank, Ts, F
<1>4. m \in PawnMoves(p, us, targets, quiet, pinned, k, occ) <=>
        \E x \in pawns : m \in F(x) \/ Passes(p, us, k, occ, m, x)
  BY <1>1 DEF Passes
<1>. QED BY <1>2, <1>3, <1>4 DEF pawns, promoRank

\* and those of them that gain.
LEMMA PawnsRestricted ==
    ASSUME NEW p, Consistent(p), p.side \in Colors, NEW pinned, NEW k, NEW m
    PROVE  LET us == p.side
               theirs == p.byColor[Opposite(us)]
               others == Squares \ p.byColor[us]
           IN  m \in PawnMoves(p, us, theirs, RankBB(0) \cup RankBB(7), pinned, k, Occupied(p)) <=>
                 m \in PawnMoves(p, us, others, others, pinned, k, Occupied(p)) /\ Gains(p, m)
<1>. DEFINE us == p.side
            occ == Occupied(p)
            theirs == p.byColor[Opposite(us)]
            others == Squares \ p.byColor[us]
            edge == RankBB(0) \cup RankBB(7)
            last == IF us = White THEN 7 ELSE 0
            pawns == PiecesOf(p, us, "pawn")
            Goes1(x, to) == Steps(p, us, others, others, occ, x, to)
            Goes2(x, to) == Steps(p, us, theirs, edge, occ, x, to)
<1>1. /\ theirs = {s \in Squares : Color(p.board[s]) = Opposite(us)}
      /\ p.byColor[us] = {s \in Squares : Color(p.board[s]) = us} /\ Opposite(us) # us /\ Opposite(us) \in Colors
  BY PiecesStand, ManTypes
<1>2. occ = p.byColor[us] \cup theirs
  BY DEF Occupied, Colors, Opposite, White, Black
<1>3. theirs \subseteq others /\ Squares \ occ \subseteq others /\ others \subseteq Squares /\ pawns \subseteq Squares
  BY <1>1, <1>2 DEF PiecesOf
<1>4. ASSUME NEW x \in pawns, NEW to, m \in PawnMove(x, to, last)
      PROVE  Goes2(x, to) <=> Goes1(x, to) /\ Gains(p, m)
  <2>1. m.to = to /\ (m.kind = "promotion" <=> Rank(to) = last) /\ m.kind # "enPassant"
    BY <1>4 DEF PawnMove, Normal, Promotion
  <2>2. Gains(p, m) <=> to \in theirs \/ Rank(to) = last
    BY <2>1 DEF Gains
  <2>3. to \in Pushes(x, us, edge, occ) <=> to \in Pushes(x, us, others, occ) /\ Rank(to) = last
    BY <1>3, PushesRestricted
  <2>4. to \in Pushes(x, us, others, occ) => to \notin theirs
    BY <1>2 DEF Pushes
  <2>. HIDE DEF theirs, others, edge, last
  <2>. QED BY <1>3, <2>2, <2>3, <2>4 DEF Steps, theirs
<1>5. ASSUME NEW x, Passes(p, us, k, occ, m, x) PROVE Gains(p, m)
  BY <1>5 DEF Gains, EnPassant, Passes
<1>6. m \in PawnMoves(p, us, others, others, pinned, k, occ) <=>
        \E x \in pawns : (\E to \in PinMask(k, pinned, x) : Goes1(x, to) /\ m \in PawnMove(x, to, last)) \/ Passes(p, us, k, occ, m, x)
  BY PawnMovesIs
<1>7. m \in PawnMoves(p, us, theirs, edge, pinned, k, occ) <=>
        \E x \in pawns : (\E to \in PinMask(k, pinned, x) : Goes2(x, to) /\ m \in PawnMove(x, to, last)) \/ Passes(p, us, k, occ, m, x)
  BY PawnMovesIs
<1>. HIDE DEF Goes1, Goes2, pawns, last, theirs, others, edge, occ
<1>8. m \in PawnMoves(p, us, theirs, edge, pinned, k, occ) <=>
        m \in PawnMoves(p, us, others, others, pinned, k, occ) /\ Gains(p, m)
  BY <1>4, <1>5, <1>6, <1>7
<1>. QED BY <1>8 DEF theirs, others, edge, occ

\* GenerateCaptures gives the generated moves that gain.
LEMMA CapturesAre ==
    ASSUME NEW p, Legal(p), ~InCheck(p), NEW m
    PROVE  m \in GenerateCaptures(p) <=> m \in GenerateLegalMoves(p) /\ Gains(p, m)
<1>. DEFINE us == p.side
            k == KingSquare(p, us)
            occ == Occupied(p)
            theirs == p.byColor[Opposite(us)]
            others == Squares \ p.byColor[us]
            edge == RankBB(0) \cup RankBB(7)
            pinned == BlockersForKing(p, us) \cap p.byColor[us]
<1>1. us \in Colors /\ Consistent(p) /\ Checkers(p) = {}
  BY DEF Legal, Sound, InCheck
<1>2. theirs \subseteq others
  BY <1>1, PiecesStand, ManTypes
<1>3. m \in KingMoves(p, k, Opposite(us), occ, theirs) <=>
        m \in KingMoves(p, k, Opposite(us), occ, others) /\ Gains(p, m)
  <2>1. \A ts : m \in KingMoves(p, k, Opposite(us), occ, ts) <=>
          \E t \in KingAttacks[k] : /\ t \in ts /\ m = Normal(k, t)
                                    /\ AttackersTo(p, t, occ \ {k}) \cap p.byColor[Opposite(us)] = {}
    BY DEF KingMoves
  <2>2. \A f, t : Gains(p, Normal(f, t)) <=> t \in theirs
    BY DEF Gains, Normal
  <2>. HIDE DEF theirs, others, k, occ
  <2>. QED BY <1>2, <2>1, <2>2
<1>4. m \in PieceMoves(p, us, theirs, pinned, k, occ) <=>
        m \in PieceMoves(p, us, others, pinned, k, occ) /\ Gains(p, m)
  <2>1. \A ts : m \in PieceMoves(p, us, ts, pinned, k, occ) <=>
          \E pt \in {"knight", "bishop", "rook", "queen"} : \E f \in PiecesOf(p, us, pt) :
            \E t \in AttacksFrom(pt, us, f, occ) : t \in ts /\ t \in PinMask(k, pinned, f) /\ m = Normal(f, t)
    <3>. TAKE ts
    <3>. DEFINE G(pt, f) == {Normal(f, t) : t \in AttacksFrom(pt, us, f, occ) \cap ts \cap PinMask(k, pinned, f)}
                H(pt) == UNION {G(pt, f) : f \in PiecesOf(p, us, pt)}
    <3>1. PieceMoves(p, us, ts, pinned, k, occ) = UNION {H(pt) : pt \in {"knight", "bishop", "rook", "queen"}}
      BY DEF PieceMoves
    <3>2. \A pt, f : m \in G(pt, f) <=>
            \E t \in AttacksFrom(pt, us, f, occ) : t \in ts /\ t \in PinMask(k, pinned, f) /\ m = Normal(f, t)
      OBVIOUS
    <3>. HIDE DEF G
    <3>3. \A pt : m \in H(pt) <=> \E f \in PiecesOf(p, us, pt) : m \in G(pt, f)
      OBVIOUS
    <3>. HIDE DEF H
    <3>4. m \in PieceMoves(p, us, ts, pinned, k, occ) <=> \E pt \in {"knight", "bishop", "rook", "queen"} : m \in H(pt)
      BY <3>1
    <3>. QED BY <3>2, <3>3, <3>4, Zenon
  <2>2. \A f, t : Gains(p, Normal(f, t)) <=> t \in theirs
    BY DEF Gains, Normal
  <2>. HIDE DEF theirs, others, k, occ, pinned
  <2>. QED BY <1>2, <2>1, <2>2
<1>5. m \in CastlingMoves(p, us, occ) => ~Gains(p, m)
  <2>. HAVE m \in CastlingMoves(p, us, occ)
  <2>1. m.kind = "castling"
    BY DEF CastlingMoves, Castling
  <2>2. CastleCan(p, m)
    BY CastlingCan DEF Legal
  <2>3. PICK r, j, rook : Castled(p, BoardAfter(p.board, us, m), m, r, j, rook)
    BY <2>2, MoveCastles
  <2>4. m.to = rook /\ rook \in Squares /\ p.board[rook] = MakePiece(us, "rook")
    BY <2>3 DEF Castled, Castling
  <2>5. Color(p.board[m.to]) = us
    BY <1>1, <2>4, PieceFacts DEF PieceTypes
  <2>6. m.to \notin theirs
    BY <1>1, <2>5, PiecesStand, ManTypes
  <2>. QED BY <2>1, <2>6 DEF Gains
<1>6. m \in PawnMoves(p, us, theirs, edge, pinned, k, occ) <=>
        m \in PawnMoves(p, us, others, others, pinned, k, occ) /\ Gains(p, m)
  BY <1>1, PawnsRestricted
<1>. QED BY <1>1, <1>3, <1>4, <1>5, <1>6, CapturesIs

-----------------------------------------------------------------------------
\* How many men there are, and how a move changes that.
LEMMA MenAreFew ==
    ASSUME NEW b
    PROVE  IsFiniteSet(Manned(b)) /\ Cardinality(Manned(b)) \in Nat
<1>1. IsFiniteSet(Squares)
  <2>. DEFINE n == 63
  <2>1. n \in Int /\ 0 \in Int /\ Squares = 0 .. n
    BY DEF Squares
  <2>. HIDE DEF n
  <2>. QED BY <2>1, FS_Interval
<1>2. Manned(b) \in SUBSET Squares
  BY DEF Manned
<1>. QED BY <1>1, <1>2, FS_Subset, FS_CardinalityType

\* Where one man goes from f to t, one fewer is left if t was taken.
LEMMA OneMoved ==
    ASSUME NEW S, IsFiniteSet(S), NEW f \in S, NEW t, t # f
    PROVE  /\ IsFiniteSet((S \ {f}) \cup {t})
           /\ Cardinality((S \ {f}) \cup {t}) = IF t \in S THEN Cardinality(S) - 1 ELSE Cardinality(S)
<1>1. Cardinality(S) \in Nat
  BY FS_CardinalityType
<1>2. IsFiniteSet(S \ {f}) /\ Cardinality(S \ {f}) = Cardinality(S) - 1
  BY FS_RemoveElement
<1>3. /\ IsFiniteSet((S \ {f}) \cup {t})
      /\ Cardinality((S \ {f}) \cup {t}) =
           IF t \in S \ {f} THEN Cardinality(S \ {f}) ELSE Cardinality(S \ {f}) + 1
  BY <1>2, FS_AddElement
<1>. QED BY <1>1, <1>2, <1>3

\* The moves that gain: those that promote or leave fewer men.
LEMMA GainsAre ==
    ASSUME NEW p, Legal(p), NEW m \in GenerateLegalMoves(p)
    PROVE  Gains(p, m) <=> \/ m.kind = "promotion"
                           \/ Cardinality(Occupied(MakeMove(p, m))) < Cardinality(Occupied(p))
<1>. DEFINE b == p.board
            us == p.side
            d == BoardAfter(b, us, m)
            n == Cardinality(Manned(b))
<1>1. us \in Colors /\ Consistent(p) /\ b \in Boards /\ Sound(p) /\ BothKings(p) /\ Opposite(us) \in Colors /\ Opposite(us) # us
  BY ManTypes DEF Legal, Sound, Consistent
<1>2. Occupied(p) = Manned(b) /\ Occupied(MakeMove(p, m)) = Manned(d)
  BY <1>1, GeneratedPlayable, MoveMade, RefreshReadsBoard
<1>3. IsFiniteSet(Manned(b)) /\ n \in Nat
  BY MenAreFew
<1>4. \A s \in Squares : s \in p.byColor[Opposite(us)] <=> Color(b[s]) = Opposite(us)
  BY <1>1, PiecesStand
<1>5. \A s \in Squares : Color(b[s]) # us => (Color(b[s]) = Opposite(us) <=> s \in Manned(b))
  <2>1. \A s \in Squares : b[s] \in Pieces \cup {NoPiece}
    BY <1>1 DEF Boards
  <2>2. \A pc \in Pieces : Color(pc) # us => Color(pc) = Opposite(us)
    BY <1>1, PieceFacts DEF Colors, Opposite
  <2>3. Color(NoPiece) # Opposite(us)
    BY <1>1, PieceFacts
  <2>. QED BY <2>1, <2>2, <2>3, PieceFacts DEF Manned
<1>6. CASE m.kind = "castling"
  <2>1. CastleCan(p, m)
    BY <1>1, <1>6, GeneratedCan, CanKinds
  <2>2. PICK r, k, rook : Castled(p, d, m, r, k, rook)
    BY <2>1, MoveCastles
  <2>. DEFINE t == CastlingKingTo(r)
              x == CastlingRookTo(r)
              S == Manned(b) \ {k}
              T == S \ {rook}
  <2>3. k \in Squares /\ rook \in Squares /\ t \in Squares /\ x \in Squares /\ t # x /\ k # rook
        /\ b[k] # NoPiece /\ b[rook] # NoPiece /\ d[t] # NoPiece /\ d[x] # NoPiece
        /\ (\A s \in {t, x} : s \in {k, rook} \/ b[s] = NoPiece)
        /\ (\A s \in {k, rook} \ {t, x} : d[s] = NoPiece)
        /\ (\A s \in Squares \ {k, rook, t, x} : d[s] = b[s])
        /\ m.to = rook /\ Color(b[rook]) = us
    BY <1>1, <2>2, PieceFacts DEF Castled, Castling, PieceTypes
  <2>4. t \notin T /\ x \notin T /\ rook \in S /\ k \in Manned(b) /\ Manned(d) = (T \cup {t}) \cup {x}
    <3>. HIDE DEF d, t, x
    <3>. QED BY <2>3 DEF Manned
  <2>. HIDE DEF t, x, d, n
  <2>5. IsFiniteSet(S) /\ Cardinality(S) = n - 1
    BY <1>3, <2>4, FS_RemoveElement DEF n
  <2>6. IsFiniteSet(T) /\ Cardinality(T) = n - 2
    <3>. HIDE DEF S
    <3>1. IsFiniteSet(T) /\ Cardinality(T) = Cardinality(S) - 1
      BY <2>4, <2>5, FS_RemoveElement
    <3>. HIDE DEF T
    <3>. QED BY <1>3, <2>5, <3>1
  <2>. HIDE DEF T, S
  <2>7. IsFiniteSet(T \cup {t}) /\ Cardinality(T \cup {t}) = n - 1
    <3>1. IsFiniteSet(T \cup {t}) /\ Cardinality(T \cup {t}) = Cardinality(T) + 1
      BY <2>4, <2>6, FS_AddElement
    <3>. QED BY <1>3, <2>6, <3>1
  <2>8. Cardinality(Manned(d)) = n
    <3>1. x \notin T \cup {t}
      BY <2>3, <2>4
    <3>2. Cardinality((T \cup {t}) \cup {x}) = Cardinality(T \cup {t}) + 1
      BY <2>7, <3>1, FS_AddElement
    <3>. QED BY <1>3, <2>4, <2>7, <3>2
  <2>9. ~Gains(p, m)
    BY <1>1, <1>4, <1>6, <2>3 DEF Gains
  <2>. QED BY <1>2, <1>3, <1>6, <2>8, <2>9 DEF n, d
<1>7. CASE m.kind # "castling"
  <2>1. Goes(b, d, us, m)
    BY <1>7, MoveGoes
  <2>. DEFINE f == m.from
              t == m.to
              cap == t - PawnPush(us)
  <2>2. /\ f \in Squares /\ t \in Squares /\ f # t /\ Color(b[f]) = us /\ Color(b[t]) # us
        /\ f \in Manned(b) /\ d[f] = NoPiece /\ d[t] # NoPiece
    BY <1>1, <2>1, ColoredIsMan, PieceFacts DEF Goes, Manned
  <2>3. IsFiniteSet((Manned(b) \ {f}) \cup {t}) /\ Cardinality((Manned(b) \ {f}) \cup {t}) = IF t \in Manned(b) THEN n - 1 ELSE n
    BY <1>3, <2>2, OneMoved
  <2>4. CASE m.kind # "enPassant"
    <3>1. Manned(d) = (Manned(b) \ {f}) \cup {t}
      <4>. HIDE DEF d, f, t
      <4>. QED BY <2>1, <2>2, <2>4 DEF Goes, Manned, f, t
    <3>2. Gains(p, m) <=> t \in Manned(b) \/ m.kind = "promotion"
      BY <1>4, <1>5, <2>2, <2>4 DEF Gains
    <3>3. Cardinality(Manned(d)) < n <=> t \in Manned(b)
      BY <1>3, <2>3, <3>1
    <3>. QED BY <1>2, <3>2, <3>3
  <2>5. CASE m.kind = "enPassant"
    <3>1. cap \in Squares \ {f, t}
      BY <1>7, <2>5, MoveGoes
    <3>2. b[cap] # NoPiece /\ d[cap] = NoPiece /\ \A s \in Squares \ {f, t, cap} : d[s] = b[s]
      <4>1. MakePiece(Opposite(us), "pawn") # NoPiece
        BY <1>1, ManTypes
      <4>. HIDE DEF d, f, t
      <4>. QED BY <2>1, <2>5, <3>1, <4>1 DEF Goes, f, t
    <3>3. Manned(d) = ((Manned(b) \ {f}) \cup {t}) \ {cap}
      <4>. HIDE DEF d, f, t, cap
      <4>. QED BY <2>2, <3>1, <3>2 DEF Manned
    <3>4. cap \in (Manned(b) \ {f}) \cup {t}
      <4>. HIDE DEF f, t, cap
      <4>. QED BY <3>1, <3>2 DEF Manned
    <3>5. Cardinality(Manned(d)) < n
      <4>. DEFINE U == (Manned(b) \ {f}) \cup {t}
      <4>1. Cardinality(U \ {cap}) = Cardinality(U) - 1
        <5>. HIDE DEF f, t, cap
        <5>. QED BY <2>3, <3>4, FS_RemoveElement
      <4>. QED BY <1>3, <2>3, <3>3, <4>1
    <3>6. Gains(p, m)
      BY <2>5 DEF Gains
    <3>. QED BY <1>2, <3>5, <3>6
  <2>. QED BY <2>4, <2>5
<1>. QED BY <1>6, <1>7

\* GeneratorExact, of any position.
ExactIn(p) ==
    LET moves == GenerateLegalMoves(p)
        results == {SituationOf(MakeMove(p, m)) : m \in moves}
        Forcing(m) ==
          \/ m.kind = "promotion"
          \/ Cardinality(Occupied(MakeMove(p, m))) < Cardinality(Occupied(p))
    IN  /\ \A c \in Colors : PiecesOf(p, c, "king") # {}
        /\ results = Successors(SituationOf(p))
        /\ Cardinality(moves) = Cardinality(results)
        /\ GenerateCaptures(p) = {m \in moves : InCheck(p) \/ Forcing(m)}

\* It holds at every legal position whose rights are revoked on their own squares only.
LEMMA ExactAt ==
    ASSUME NEW p, Legal(p), RightsExact(p), NoEdgePawns(p.board)
    PROVE  ExactIn(p)
<1>. DEFINE moves == GenerateLegalMoves(p)
            Forcing(m) ==
              \/ m.kind = "promotion"
              \/ Cardinality(Occupied(MakeMove(p, m))) < Cardinality(Occupied(p))
<1>1. \A c \in Colors : PiecesOf(p, c, "king") # {}
  BY DEF Legal, BothKings
<1>2. GenerateCaptures(p) = {m \in moves : InCheck(p) \/ Forcing(m)}
  <2>1. CASE InCheck(p)
    BY <2>1, InCheckSame
  <2>2. CASE ~InCheck(p)
    <3>1. \A m : m \in GenerateCaptures(p) <=> m \in moves /\ Gains(p, m)
      BY <2>2, CapturesAre
    <3>2. \A m \in moves : Gains(p, m) <=> Forcing(m)
      BY GainsAre
    <3>. HIDE DEF moves, Forcing
    <3>. QED BY <2>2, <3>1, <3>2
  <2>. QED BY <2>1, <2>2
<1>. QED BY <1>1, <1>2, ResultsAre, NoneTwice DEF ExactIn

-----------------------------------------------------------------------------
(***************************************************************************)
(* Ordinary positions, from which the generator gives what the laws allow. *)
(***************************************************************************)
Ordinary(p) ==
    /\ NoEdgePawns(p.board) /\ RightsExact(p)
    /\ p.epSquare # NoSquare => Rank(p.epSquare) \notin {0, 7}

\* No pawn stays on a back rank,
LEMMA PawnsStayInside ==
    ASSUME NEW p, Legal(p), NoEdgePawns(p.board), p.epSquare # NoSquare => Rank(p.epSquare) \notin {0, 7},
           NEW m \in GenerateLegalMoves(p)
    PROVE  NoEdgePawns(MakeMove(p, m).board)
<1>. DEFINE us == p.side
            b == p.board
            d == BoardAfter(b, us, m)
            last == IF us = White THEN 7 ELSE 0
<1>1. /\ Sound(p) /\ BothKings(p) /\ us \in Colors /\ b \in Boards /\ Consistent(p)
      /\ NoEdgePawns(b)
  BY DEF Legal, Sound, Consistent
<1>2. MakeMove(p, m).board = d
  BY <1>1, GeneratedPlayable, MoveMade
<1>3. Type(NoPiece) # "pawn" /\ \A c \in Colors : \A t \in PieceTypes : Type(MakePiece(c, t)) = t
  BY PieceFacts DEF PieceTypes
<1>4. CASE m.kind = "castling"
  <2>1. CastleCan(p, m)
    BY <1>1, <1>4, GeneratedCan, CanKinds
  <2>2. PICK r, k, rook : Castled(p, d, m, r, k, rook)
    BY <2>1, MoveCastles
  <2>. DEFINE t == CastlingKingTo(r)
              x == CastlingRookTo(r)
  <2>3. /\ d[t] = MakePiece(us, "king") /\ d[x] = MakePiece(us, "rook")
        /\ \A s \in {k, rook} \ {t, x} : d[s] = NoPiece
        /\ \A s \in Squares \ {k, rook, t, x} : d[s] = b[s]
    BY <2>2 DEF Castled
  <2>4. Type(MakePiece(us, "king")) # "pawn" /\ Type(MakePiece(us, "rook")) # "pawn"
    BY <1>1, <1>3 DEF PieceTypes
  <2>. HIDE DEF d, t, x
  <2>5. \A s \in Squares : Type(d[s]) = "pawn" => d[s] = b[s]
    BY <1>3, <2>3, <2>4
  <2>. QED BY <1>1, <1>2, <2>5 DEF NoEdgePawns
<1>5. CASE m.kind # "castling"
  <2>1. Goes(b, d, us, m)
    BY <1>5, MoveGoes
  <2>2. Rank(m.to) \in {0, 7} => Type(d[m.to]) # "pawn"
    <3>0. m.from \in Squares /\ m.to \in Squares /\ m.from # m.to /\ Color(b[m.from]) = us
      BY <2>1 DEF Goes
    <3>1. CASE m = Normal(m.from, m.to) /\ PieceCan(b, us, m)
      <4>1. d[m.to] = b[m.from]
        BY <1>1, <3>0, <3>1 DEF BoardAfter, Boards, Normal
      <4>2. Type(b[m.from]) # "pawn"
        BY <3>1 DEF PieceCan, Normal
      <4>. QED BY <4>1, <4>2
    <3>2. CASE m = Normal(m.from, m.to) /\ Type(b[m.from]) = "pawn" /\ Rank(m.to) # last
      <4>1. m.kind = "normal"
        BY <3>2 DEF Normal
      <4>2. PawnGoes(b, us, m.from, m.to)
        BY <3>2, <4>1, PawnWent
      <4>3. Rank(m.from) \notin {0, 7}
        BY <1>1, <3>0, <3>2 DEF NoEdgePawns
      <4>. QED BY <1>1, <3>0, <3>2, <4>2, <4>3, PawnRanks
    <3>3. CASE m = Promotion(m.from, m.to, m.promotion) /\ Type(b[m.from]) = "pawn"
      <4>1. m.kind = "promotion"
        BY <3>3 DEF Promotion
      <4>2. PawnCan(b, us, m)
        BY <1>1, <4>1, GeneratedCan, CanKinds
      <4>3. m.promotion \in PieceTypes \ {"pawn"}
        BY <4>1, <4>2 DEF PawnCan, PawnMove, Normal, Promotion, PieceTypes
      <4>4. d[m.to] = MakePiece(us, m.promotion)
        BY <1>1, <3>0, <4>1 DEF BoardAfter, Boards
      <4>. QED BY <1>1, <1>3, <4>3, <4>4
    <3>4. CASE m = EnPassant(m.from, m.to)
      <4>1. PassantCan(p, m)
        <5>1. m.kind = "enPassant"
          BY <3>4 DEF EnPassant
        <5>. QED BY <1>1, <5>1, GeneratedCan, CanKinds
      <4>. QED BY <4>1 DEF PassantCan, EnPassant
    <3>. QED BY <1>5, <3>1, <3>2, <3>3, <3>4, MoveShapes
  <2>. HIDE DEF d
  <2>3. \A s \in Squares \ {m.to} : Type(d[s]) = "pawn" => d[s] = b[s]
    BY <1>3, <2>1 DEF Goes
  <2>. QED BY <1>1, <1>2, <2>2, <2>3 DEF NoEdgePawns
<1>. QED BY <1>4, <1>5

\* a right that is kept is revoked where it was,
LEMMA RightsStayExact ==
    ASSUME NEW p, Legal(p), RightsExact(p), NEW m \in GenerateLegalMoves(p)
    PROVE  RightsExact(MakeMove(p, m))
<1>. DEFINE q == MakeMove(p, m)
            us == p.side
            b == p.board
            d == q.board
            King(r) == KingSquare(p, r[1])
<1>1. /\ Sound(p) /\ BothKings(p) /\ us \in Colors /\ b \in Boards /\ Consistent(p) /\ KingsOnce(p)
      /\ p.castling \subseteq Rights /\ \A r \in p.castling : RightSound(p, r)
  BY DEF Legal, Sound, Consistent
<1>2. Playable(b, us, m)
  BY <1>1, GeneratedPlayable
<1>3. /\ d = BoardAfter(b, us, m) /\ q.castling = p.castling \cap p.crMask[m.from] \cap p.crMask[m.to]
      /\ q.castlingRook = p.castlingRook /\ q.crMask = p.crMask
  BY <1>1, <1>2, MoveMade
<1>4. m.from \in Squares /\ m.to \in Squares
  BY <1>2 DEF Playable
<1>5. Legal(q) /\ Sound(q) /\ BothKings(q) /\ KingsOnce(q) /\ Consistent(q)
  BY GeneratedMovesAreLegal DEF Legal, Sound
<1>. HIDE DEF q
<1>6. ASSUME NEW r \in q.castling
      PROVE  KingSquare(q, r[1]) = KingSquare(p, r[1])
  <2>1. r \in p.castling /\ r[1] \in Colors /\ RightSound(p, r) /\ r \in p.crMask[m.from] /\ r \in p.crMask[m.to]
    BY <1>1, <1>3 DEF Rights
  <2>2. King(r) \in Squares /\ b[King(r)] = MakePiece(r[1], "king")
    BY <1>1, <2>1, KingStands DEF BothKings
  <2>3. m.from # King(r) /\ m.to # King(r)
    BY <2>1 DEF RightSound
  <2>4. KingSquare(q, r[1]) \in Squares /\ d[KingSquare(q, r[1])] = MakePiece(r[1], "king")
    BY <1>5, <2>1, KingStands DEF BothKings
  <2>5. d[King(r)] = b[King(r)]
    <3>1. CASE m.kind # "castling"
      <4>1. Goes(b, d, us, m)
        BY <1>3, <3>1, MoveGoes
      <4>2. MakePiece(r[1], "king") # MakePiece(Opposite(us), "pawn")
        BY DEF MakePiece
      <4>. HIDE DEF King
      <4>. QED BY <2>2, <2>3, <4>1, <4>2 DEF Goes
    <3>2. CASE m.kind = "castling"
      <4>1. CastleCan(p, m)
        BY <1>1, <3>2, GeneratedCan, CanKinds
      <4>2. PICK x, k, rook : Castled(p, d, m, x, k, rook)
        BY <1>3, <4>1, MoveCastles
      <4>3. m.from = k /\ m.to = rook /\ (\A s \in {CastlingKingTo(x), CastlingRookTo(x)} : s \in {k, rook} \/ b[s] = NoPiece)
            /\ \A s \in Squares \ {k, rook, CastlingKingTo(x), CastlingRookTo(x)} : d[s] = b[s]
        BY <4>2 DEF Castled, Castling
      <4>4. MakePiece(r[1], "king") # NoPiece
        BY DEF MakePiece, NoPiece
      <4>. HIDE DEF King
      <4>. QED BY <2>2, <2>3, <4>3, <4>4
    <3>. QED BY <3>1, <3>2
  <2>. HIDE DEF King
  <2>6. KingSquare(q, r[1]) = King(r)
    BY <1>5, <2>1, <2>2, <2>4, <2>5 DEF KingsOnce
  <2>. QED BY <2>6 DEF King
<1>7. RightsExact(q)
  BY <1>3, <1>6 DEF RightsExact
<1>. QED BY <1>7 DEF q

\* and a target is on no back rank.
LEMMA TargetStaysInside ==
    ASSUME NEW p, Legal(p), NEW m \in GenerateLegalMoves(p), MakeMove(p, m).epSquare # NoSquare
    PROVE  Rank(MakeMove(p, m).epSquare) \notin {0, 7}
<1>. DEFINE q == MakeMove(p, m)
            us == p.side
            e == m.from + PawnPush(us)
<1>1. m.kind = "normal" /\ Type(p.board[m.from]) = "pawn" /\ Abs(m.to - m.from) = 16 /\ q.epSquare = EPTarget(q.board, us, e)
  BY TargetAfter
<1>2. Rank(m.from) = (IF us = White THEN 1 ELSE 6) /\ m.from \in Squares
  BY <1>1, PawnWent
<1>3. us \in Colors
  BY DEF Legal, Sound
<1>4. q.epSquare = e
  BY <1>1 DEF EPTarget
<1>5. Rank(e) \notin {0, 7}
  BY <1>2, <1>3 DEF Squares, Rank, PawnPush, North, South, Colors, White, Black
<1>. QED BY <1>4, <1>5

\* A move keeps a position ordinary,
LEMMA OrdinaryMove ==
    ASSUME NEW p, Legal(p), Ordinary(p), NEW m \in GenerateLegalMoves(p)
    PROVE  Ordinary(MakeMove(p, m))
  BY PawnsStayInside, RightsStayExact, TargetStaysInside DEF Ordinary

\* and so does a null move.
LEMMA OrdinaryNull ==
    ASSUME NEW p, Legal(p), Ordinary(p)
    PROVE  Ordinary(MakeNullMove(p))
<1>. DEFINE q == MakeNullMove(p)
<1>1. Consistent(p) /\ p.side \in Colors
  BY DEF Legal, Sound
<1>2. /\ Consistent(q) /\ q.board = p.board /\ q.epSquare = NoSquare
      /\ q.castling = p.castling /\ q.castlingRook = p.castlingRook /\ q.crMask = p.crMask
  BY <1>1, NullMoveMade
<1>. HIDE DEF q
<1>3. \A c : KingSquare(q, c) = KingSquare(p, c)
  BY <1>1, <1>2, SameKings
<1>4. Ordinary(q)
  BY <1>2, <1>3 DEF Ordinary, RightsExact
<1>. QED BY <1>4 DEF q

\* The rights and rooks the flags of a FEN name.
Named(fen) == UNION {FlagMeans(Placed(fen), fen.castling[i]) : i \in DOMAIN fen.castling}

\* Rights and masks are those of flags that are parsed.
Traced(p, fen) ==
    /\ \A r \in p.castling : [right |-> r, rook |-> p.castlingRook[r]] \in Named(fen)
    /\ \A s \in Squares : \A r \in Rights :
         r \in p.crMask[s] \/ s = KingSquare(p, r[1]) \/ [right |-> r, rook |-> s] \in Named(fen)

\* Parsing a flag keeps this,
LEMMA FlagTraced ==
    ASSUME NEW fen \in FENs, Valid(fen), NEW p, Flagged(p, fen), Traced(p, fen),
           NEW i \in DOMAIN fen.castling, fen.castling[i] \in FlagSet
    PROVE  Traced(ParseFlag(p, fen.castling[i]), fen)
<1>. DEFINE flag == fen.castling[i]
            found == FlagMeans(p, flag)
            base == Placed(fen)
            q == [p EXCEPT !.chess960 = @ \/ flag.wing \notin Wings]
            f == CHOOSE g \in found : TRUE
            w == ParseFlag(p, flag)
<1>1. Consistent(base) /\ BothKings(base) /\ base.board = fen.board /\ Consistent(p) /\ p.board = fen.board
  BY PlacedFacts DEF Placed, Flagged
<1>2. BothKings(p) /\ \A c : KingSquare(p, c) = KingSquare(base, c)
  <2>. HIDE DEF base
  <2>. QED BY <1>1, SameKings
<1>3. Flagged(w, fen)
  BY <1>2, FlagParsed
<1>4. found \subseteq Named(fen)
  <2>1. FlagMeans(p, flag) = FlagMeans(base, flag)
    <3>. HIDE DEF base, flag
    <3>. QED BY <1>1, <1>2 DEF FlagMeans, FindCastlingRook
  <2>. QED BY <2>1 DEF Named
<1>5. CASE found = {}
  BY <1>5 DEF ParseFlag
<1>6. CASE found # {}
  <2>. DEFINE r == f.right
              rook == f.rook
              king == KingSquare(q, r[1])
  <2>1. f \in found
    BY <1>6
  <2>2. w = SetCastlingRight(q, r, rook)
    BY <1>6 DEF ParseFlag
  <2>3. r \in Rights /\ rook \in Squares
    BY <1>1, <1>2, <2>1, FlagFound
  <2>4. f = [right |-> r, rook |-> rook]
    <3>. HIDE DEF f, r, rook
    <3>1. \E x, y : f = [right |-> x, rook |-> y]
      BY <2>1 DEF FlagMeans
    <3>. QED BY <3>1 DEF r, rook
  <2>5. [right |-> r, rook |-> rook] \in Named(fen)
    <3>. HIDE DEF f, found
    <3>. QED BY <1>4, <2>1, <2>4
  <2>6. IsPosition(p)
    BY <1>1 DEF Consistent
  <2>7. /\ q.board = p.board /\ q.castling = p.castling /\ q.castlingRook = p.castlingRook /\ q.crMask = p.crMask
        /\ q.byType = p.byType /\ q.byColor = p.byColor /\ IsPosition(q)
    <3>1. q = [p EXCEPT !.chess960 = q.chess960]
      BY <2>6 DEF IsPosition, Fields
    <3>. HIDE DEF q
    <3>. QED BY <2>6, <3>1 DEF IsPosition, Fields
  <2>8. king = KingSquare(p, r[1])
    BY <2>7 DEF KingSquare, PiecesOf
  <2>. HIDE DEF q, f, w, king
  <2>. DEFINE mask == [p.crMask EXCEPT ![king] = @ \ ColorRights(r[1]), ![rook] = @ \ {r}]
  <2>9. /\ w.castling = p.castling \cup {r} /\ w.castlingRook = [p.castlingRook EXCEPT ![r] = rook]
        /\ w.crMask = mask
    <3>. DEFINE path == (BetweenBB[king][CastlingKingTo(r)] \cup BetweenBB[rook][CastlingRookTo(r)]
                           \cup {CastlingKingTo(r), CastlingRookTo(r)}) \ {king, rook}
    <3>1. w = [q EXCEPT !.castling = @ \cup {r}, !.castlingRook[r] = rook, !.castlingPath[r] = path,
                        !.crMask = [q.crMask EXCEPT ![king] = @ \ ColorRights(r[1]), ![rook] = @ \ {r}]]
      BY <2>2 DEF SetCastlingRight, king
    <3>. HIDE DEF path
    <3>2. w = [q EXCEPT !.castling = q.castling \cup {r}, !.castlingRook = [q.castlingRook EXCEPT ![r] = rook],
                        !.castlingPath = [q.castlingPath EXCEPT ![r] = path],
                        !.crMask = [q.crMask EXCEPT ![king] = @ \ ColorRights(r[1]), ![rook] = @ \ {r}]]
      BY <3>1
    <3>. QED BY <2>7, <3>2 DEF IsPosition, Fields
  <2>10. \A c : KingSquare(w, c) = KingSquare(p, c)
    BY <1>1, <1>3, SameKings DEF Flagged
  <2>11. king \in Squares
    <3>1. r[1] \in Colors
      BY <2>3 DEF Rights
    <3>. QED BY <1>1, <1>2, <2>8, <3>1, KingStands DEF BothKings
  <2>12. p.crMask = [s \in Squares |-> p.crMask[s]] /\ p.castlingRook = [x \in Rights |-> p.castlingRook[x]]
         /\ p.castling \subseteq Rights
    BY DEF Flagged
  <2>. HIDE DEF r, rook
  <2>13. ASSUME NEW x \in w.castling PROVE [right |-> x, rook |-> w.castlingRook[x]] \in Named(fen)
    <3>1. CASE x = r
      <4>1. w.castlingRook[x] = rook
        BY <2>3, <2>9, <2>12, <3>1
      <4>. QED BY <2>5, <3>1, <4>1
    <3>2. CASE x # r
      <4>1. x \in p.castling /\ w.castlingRook[x] = p.castlingRook[x]
        BY <2>9, <2>12, <3>2
      <4>. QED BY <4>1 DEF Traced
    <3>. QED BY <3>1, <3>2
  <2>14. ASSUME NEW s \in Squares, NEW x \in Rights
         PROVE  x \in w.crMask[s] \/ s = KingSquare(w, x[1]) \/ [right |-> x, rook |-> s] \in Named(fen)
    <3>1. x \in p.crMask[s] \/ s = KingSquare(p, x[1]) \/ [right |-> x, rook |-> s] \in Named(fen)
      BY DEF Traced
    <3>2. x \in p.crMask[s] => x \in mask[s] \/ (s = king /\ x \in ColorRights(r[1])) \/ (s = rook /\ x = r)
      BY <2>3, <2>11, <2>12
    <3>3. x \in ColorRights(r[1]) => x[1] = r[1]
      BY DEF ColorRights
    <3>. HIDE DEF mask
    <3>4. CASE s = king /\ x \in ColorRights(r[1])
      BY <2>8, <2>10, <3>3, <3>4 DEF r
    <3>5. CASE s = rook /\ x = r
      BY <2>5, <3>5
    <3>. QED BY <2>9, <2>10, <3>1, <3>2, <3>4, <3>5
  <2>. QED BY <2>13, <2>14 DEF Traced, w
<1>. QED BY <1>5, <1>6

\* and parsing all of them.
LEMMA FlagsTraced ==
    ASSUME NEW fen \in FENs, Valid(fen)
    PROVE  Traced(AllParsed(Placed(fen), fen.castling), fen)
<1>. DEFINE flags == fen.castling
            n == Len(flags)
            base == Placed(fen)
<1>0. flags \in Seq(FlagSet)
  BY DEF FENs
<1>1. n \in Nat /\ (\A i \in 1 .. n : flags[i] \in FlagSet) /\ DOMAIN flags = 1 .. n
  <2>. HIDE DEF flags
  <2>. QED BY <1>0, LenProperties, ElementOfSeq
<1>2. Consistent(base) /\ BothKings(base) /\ base.board = fen.board
  BY PlacedFacts DEF Placed
<1>3. Flagged(base, fen) /\ Traced(base, fen)
  <2>1. /\ base.side = fen.side /\ base.fullmove = fen.fullmove /\ base.epSquare = NoSquare
        /\ base.halfmove = fen.halfmove
        /\ base.castling = {} /\ base.castlingRook = [r \in Rights |-> NoSquare]
        /\ base.castlingPath = [r \in Rights |-> {}] /\ base.crMask = [s \in Squares |-> Rights]
    BY DEF Placed
  <2>. HIDE DEF base
  <2>2. Flagged(base, fen)
    BY <1>2, <2>1 DEF Flagged
  <2>3. Traced(base, fen)
    BY <2>1 DEF Traced
  <2>. QED BY <2>2, <2>3
<1>. HIDE DEF flags, n, base
<1>4. PICK f : /\ f[0] = base
               /\ \A i \in 1 .. n : f[i] = ParseFlag(f[i - 1], flags[i])
               /\ AllParsed(base, flags) = f[n]
  BY <1>0, FlagsInOrder DEF n
<1>. DEFINE Bad == {i \in 0 .. n : ~(Flagged(f[i], fen) /\ Traced(f[i], fen))}
<1>5. Bad = {}
  <2>. SUFFICES ASSUME Bad # {} PROVE FALSE
    OBVIOUS
  <2>1. PICK k \in Bad : \A i \in Bad : k <= i
    <3>1. Bad \in SUBSET Nat
      BY <1>1
    <3>. HIDE DEF Bad
    <3>. QED BY <3>1, LeastOf
  <2>2. k \in 0 .. n /\ ~(Flagged(f[k], fen) /\ Traced(f[k], fen)) /\ k # 0
    BY <1>3, <1>4, <2>1
  <2>3. k - 1 \in 0 .. n /\ k \in 1 .. n /\ ~(k <= k - 1)
    BY <1>1, <2>2
  <2>4. Flagged(f[k - 1], fen) /\ Traced(f[k - 1], fen)
    BY <2>1, <2>3
  <2>5. BothKings(f[k - 1])
    BY <1>2, <2>4, SameKings DEF Flagged
  <2>6. Flagged(ParseFlag(f[k - 1], flags[k]), fen)
    BY <1>1, <2>3, <2>4, <2>5, FlagParsed
  <2>7. Traced(ParseFlag(f[k - 1], flags[k]), fen)
    <3>1. k \in DOMAIN flags /\ flags[k] \in FlagSet
      BY <1>1, <2>3
    <3>. QED BY <2>4, <3>1, FlagTraced DEF flags
  <2>. HIDE DEF Bad
  <2>. QED BY <1>4, <2>2, <2>3, <2>6, <2>7
<1>6. Traced(f[n], fen)
  <2>1. n \in 0 .. n
    BY <1>1
  <2>. QED BY <1>5, <2>1
<1>. QED BY <1>4, <1>6 DEF base, flags

\* ParseFEN takes no pawn on a back rank.
LEMMA ParsedInside ==
    ASSUME NEW fen \in FENs, Valid(fen)
    PROVE  NoEdgePawns(fen.board)
<1>. DEFINE base == Placed(fen)
<1>1. base.byType["pawn"] \cap (RankBB(0) \cup RankBB(7)) = {}
  BY DEF Valid
<1>2. base.byType["pawn"] = {s \in Squares : Type(fen.board[s]) = "pawn"}
  BY DEF Placed, PieceTypes
<1>. HIDE DEF base
<1>. QED BY <1>1, <1>2 DEF NoEdgePawns, RankBB

\* A FEN whose flags name one rook for each wing gives an ordinary position.
LEMMA ParsedOrdinary ==
    ASSUME NEW fen \in FENs, Valid(fen), fen.halfmove \in Nat,
           fen.epSquare # NoSquare => fen.epSquare - PawnPush(fen.side) \in Squares,
           \A f, g \in Named(fen) : f.right = g.right => f.rook = g.rook,
           fen.epSquare # NoSquare => Rank(fen.epSquare) \notin {0, 7}
    PROVE  Ordinary(ParseFEN(fen))
<1>. DEFINE p == AllParsed(Placed(fen), fen.castling)
            useful == fen.epSquare # NoSquare /\ EPCaptureAvailable(p, fen.epSquare, p.side)
            q == [p EXCEPT !.epSquare = IF useful THEN fen.epSquare ELSE NoSquare]
            r == [q EXCEPT !.key = ComputeKey(q)]
<1>1. Flagged(p, fen) /\ Traced(p, fen)
  BY FlagsParsed, FlagsTraced
<1>2. ParseFEN(fen) = r
  BY DEF ParseFEN, AllParsed
<1>3. Legal(r) /\ r.board = fen.board
  BY <1>2, ParsedLegal, ParsedSound
<1>. HIDE DEF p, useful
<1>4. IsPosition(p) /\ Consistent(p) /\ p.board = fen.board /\ p.castling \subseteq Rights
  BY <1>1 DEF Flagged, Consistent
<1>5. AlikeBut(p, q, {"epSquare"}) /\ q.epSquare = IF useful THEN fen.epSquare ELSE NoSquare
  BY <1>4 DEF AlikeBut, IsPosition, Fields
<1>. HIDE DEF q
<1>6. AlikeBut(q, r, {"key"})
  BY <1>5 DEF AlikeBut, IsPosition, Fields
<1>. HIDE DEF r
<1>7. /\ r.castling = p.castling /\ r.castlingRook = p.castlingRook /\ r.crMask = p.crMask
      /\ r.epSquare = q.epSquare
  BY <1>5, <1>6 DEF AlikeBut, Fields
<1>8. \A c : KingSquare(r, c) = KingSquare(p, c)
  BY <1>3, <1>4, SameKings DEF Legal, Sound
<1>9. RightsExact(r)
  <2>. SUFFICES ASSUME NEW x \in p.castling, NEW s \in Squares, s # KingSquare(p, x[1]), x \notin p.crMask[s]
                PROVE  s = p.castlingRook[x]
    BY <1>7, <1>8 DEF RightsExact
  <2>. DEFINE a == [right |-> x, rook |-> s]
              c == [right |-> x, rook |-> p.castlingRook[x]]
  <2>1. a \in Named(fen) /\ c \in Named(fen)
    BY <1>1, <1>4 DEF Traced
  <2>2. a.right = c.right /\ a.rook = s /\ c.rook = p.castlingRook[x]
    OBVIOUS
  <2>. HIDE DEF a, c
  <2>. QED BY <2>1, <2>2
<1>10. NoEdgePawns(r.board)
  BY <1>3, ParsedInside
<1>11. r.epSquare # NoSquare => Rank(r.epSquare) \notin {0, 7}
  BY <1>5, <1>7
<1>. QED BY <1>2, <1>9, <1>10, <1>11 DEF Ordinary

-----------------------------------------------------------------------------
(***************************************************************************)
(* A training record gives back its position, EncodeSample and             *)
(* DecodeSample of train/format.go.                                        *)
(***************************************************************************)
\* No two men have one place in the order of the squares,
LEMMA PlacesDiffer ==
    ASSUME NEW S \in SUBSET Squares
    PROVE  \A s \in S : /\ Place(s, S) \in 1 .. Cardinality(S)
                        /\ \A t \in S : Place(s, S) = Place(t, S) => s = t
<1>. DEFINE Upto(s) == {t \in S : t <= s}
<1>1. IsFiniteSet(S)
  <2>1. IsFiniteSet(Squares)
    <3>. DEFINE n == 63
    <3>1. n \in Int /\ 0 \in Int /\ Squares = 0 .. n
      BY DEF Squares
    <3>. HIDE DEF n
    <3>. QED BY <3>1, FS_Interval
  <2>. QED BY <2>1, FS_Subset
<1>2. \A s \in S : IsFiniteSet(Upto(s))
  <2>1. \A s \in S : Upto(s) \in SUBSET S
    OBVIOUS
  <2>. HIDE DEF Upto
  <2>. QED BY <1>1, <2>1, FS_Subset
<1>3. ASSUME NEW s \in S PROVE Place(s, S) \in 1 .. Cardinality(S)
  <2>1. s \in Upto(s) /\ Upto(s) \in SUBSET S
    BY DEF Squares
  <2>2. Place(s, S) = Cardinality(Upto(s))
    BY DEF Place
  <2>. HIDE DEF Upto
  <2>3. Cardinality(Upto(s)) \in Nat /\ Cardinality(S) \in Nat /\ Cardinality(Upto(s)) <= Cardinality(S)
    BY <1>1, <2>1, FS_Subset, FS_CardinalityType
  <2>4. Cardinality(Upto(s)) # 0
    BY <1>2, <2>1, FS_EmptySet
  <2>. QED BY <2>2, <2>3, <2>4
<1>4. ASSUME NEW s \in S, NEW t \in S, s < t PROVE Place(s, S) # Place(t, S)
  <2>1. \A u \in S : u \in Int
    BY DEF Squares
  <2>2. Upto(s) \in SUBSET Upto(t) /\ t \in Upto(t) /\ t \notin Upto(s)
    <3>1. \A u \in S : u <= s => u <= t
      BY <1>4, <2>1
    <3>2. t <= t /\ ~(t <= s)
      BY <1>4, <2>1
    <3>. QED BY <3>1, <3>2
  <2>3. Place(s, S) = Cardinality(Upto(s)) /\ Place(t, S) = Cardinality(Upto(t))
    BY DEF Place
  <2>. HIDE DEF Upto
  <2>. QED BY <1>2, <2>2, <2>3, FS_Subset
<1>5. \A s, t \in S : s = t \/ s < t \/ t < s
  BY DEF Squares
<1>. QED BY <1>3, <1>4, <1>5

\* so the board is read back.
LEMMA BoardReadBack ==
    ASSUME NEW p, Consistent(p)
    PROVE  BuildFEN(EncodeSample(p)).board = p.board
<1>. DEFINE b == p.board
            occ == Manned(b)
            n == Cardinality(occ)
            pieces == [k \in 1 .. n |-> b[CHOOSE s \in occ : Place(s, occ) = k]]
<1>1. b \in Boards /\ Occupied(p) = occ
  BY RefreshReadsBoard DEF Consistent
<1>2. BuildFEN(EncodeSample(p)).board =
        [s \in Squares |-> IF s \in occ THEN pieces[Place(s, occ)] ELSE NoPiece]
  BY <1>1 DEF BuildFEN, EncodeSample
<1>3. occ \in SUBSET Squares
  BY DEF Manned
<1>4. ASSUME NEW s \in occ PROVE pieces[Place(s, occ)] = b[s]
  <2>. HIDE DEF occ
  <2>1. Place(s, occ) \in 1 .. n /\ \A t \in occ : Place(s, occ) = Place(t, occ) => s = t
    BY <1>3, PlacesDiffer
  <2>2. (CHOOSE t \in occ : Place(t, occ) = Place(s, occ)) = s
    BY <2>1
  <2>. QED BY <2>1, <2>2
<1>5. \A s \in Squares \ occ : b[s] = NoPiece
  BY DEF Manned
<1>. HIDE DEF occ, pieces
<1>6. b = [s \in Squares |-> b[s]]
  BY <1>1 DEF Boards
<1>. QED BY <1>2, <1>3, <1>4, <1>5, <1>6

-----------------------------------------------------------------------------
\* The flag KQkq has for a right.
FlagOf(r) == [color |-> r[1], wing |-> r[2], file |-> 0]

\* There is one flag for each right and no other,
LEMMA FlagsAre ==
    ASSUME NEW rights \in SUBSET Rights
    PROVE  /\ Flags(rights) \in Seq(FlagSet)
           /\ \A i \in DOMAIN Flags(rights) : \E r \in rights : Flags(rights)[i] = FlagOf(r)
           /\ \A r \in rights : \E i \in DOMAIN Flags(rights) : Flags(rights)[i] = FlagOf(r)
<1>. DEFINE F(c, w) == IF <<c, w>> \in rights THEN <<[color |-> c, wing |-> w, file |-> 0]>> ELSE <<>>
            One(s, X) == /\ s \in Seq(FlagSet)
                         /\ \A i \in DOMAIN s : \E r \in rights \cap X : s[i] = FlagOf(r)
                         /\ \A r \in rights \cap X : \E i \in DOMAIN s : s[i] = FlagOf(r)
<1>1. ASSUME NEW c \in Colors, NEW w \in Wings PROVE One(F(c, w), {<<c, w>>})
  <2>1. [color |-> c, wing |-> w, file |-> 0] \in FlagSet
    BY DEF FlagSet
  <2>2. FlagOf(<<c, w>>) = [color |-> c, wing |-> w, file |-> 0]
    BY DEF FlagOf
  <2>3. CASE <<c, w>> \in rights
    <3>. DEFINE g == [color |-> c, wing |-> w, file |-> 0]
                s == <<g>>
    <3>1. F(c, w) = s /\ s \in Seq(FlagSet) /\ DOMAIN s = {1} /\ s[1] = g
      BY <2>1, <2>3
    <3>. HIDE DEF g, s, F
    <3>. QED BY <2>2, <2>3, <3>1 DEF g
  <2>4. CASE <<c, w>> \notin rights
    <3>1. F(c, w) = <<>> /\ DOMAIN <<>> = {} /\ <<>> \in Seq(FlagSet)
      BY <2>4
    <3>. HIDE DEF F
    <3>. QED BY <2>4, <3>1
  <2>. QED BY <2>3, <2>4
<1>2. ASSUME NEW s, NEW t, NEW X, NEW Y, One(s, X), One(t, Y) PROVE One(s \o t, X \cup Y)
  <2>. DEFINE u == s \o t
              m == Len(s)
              n == Len(t)
  <2>1. s \in Seq(FlagSet) /\ t \in Seq(FlagSet)
    BY <1>2
  <2>2. m \in Nat /\ n \in Nat /\ DOMAIN s = 1 .. m /\ DOMAIN t = 1 .. n
    BY <2>1, LenProperties
  <2>3. /\ u \in Seq(FlagSet) /\ Len(u) = m + n
        /\ \A i \in 1 .. (m + n) : u[i] = IF i <= m THEN s[i] ELSE t[i - m]
    BY <2>1, ConcatProperties
  <2>4. DOMAIN u = 1 .. (m + n)
    BY <2>3, LenProperties
  <2>. HIDE DEF u, m, n
  <2>5. \A i \in 1 .. (m + n) : \E r \in rights \cap (X \cup Y) : u[i] = FlagOf(r)
    <3>. SUFFICES ASSUME NEW i \in 1 .. (m + n) PROVE \E r \in rights \cap (X \cup Y) : u[i] = FlagOf(r)
      OBVIOUS
    <3>1. CASE i <= m
      <4>1. i \in DOMAIN s /\ u[i] = s[i]
        BY <2>2, <2>3, <3>1
      <4>. QED BY <1>2, <4>1
    <3>2. CASE ~(i <= m)
      <4>1. i - m \in DOMAIN t /\ u[i] = t[i - m]
        BY <2>2, <2>3, <3>2
      <4>. QED BY <1>2, <4>1
    <3>. QED BY <3>1, <3>2
  <2>6. ASSUME NEW r \in rights \cap (X \cup Y) PROVE \E i \in 1 .. (m + n) : u[i] = FlagOf(r)
    <3>1. CASE r \in X
      <4>1. PICK i \in DOMAIN s : s[i] = FlagOf(r)
        BY <1>2, <2>6, <3>1
      <4>2. i \in 1 .. (m + n) /\ u[i] = s[i]
        BY <2>2, <2>3, <4>1
      <4>. QED BY <4>1, <4>2
    <3>2. CASE r \in Y
      <4>1. PICK i \in DOMAIN t : t[i] = FlagOf(r)
        BY <1>2, <2>6, <3>2
      <4>2. i + m \in 1 .. (m + n) /\ u[i + m] = t[i]
        BY <2>2, <2>3, <4>1
      <4>. QED BY <4>1, <4>2
    <3>. QED BY <3>1, <3>2
  <2>. QED BY <2>3, <2>4, <2>5, <2>6 DEF u
<1>3. Flags(rights) = F(White, "king") \o F(White, "queen") \o F(Black, "king") \o F(Black, "queen")
  BY DEF Flags
<1>4. White \in Colors /\ Black \in Colors /\ "king" \in Wings /\ "queen" \in Wings
  BY DEF Colors, Wings
<1>. DEFINE All == ({<<White, "king">>} \cup {<<White, "queen">>}) \cup {<<Black, "king">>} \cup {<<Black, "queen">>}
<1>5. rights \cap All = rights
  BY DEF Rights, Colors, Wings
<1>. HIDE DEF F, One
<1>6. One(Flags(rights), All)
  <2>1. /\ One(F(White, "king"), {<<White, "king">>}) /\ One(F(White, "queen"), {<<White, "queen">>})
        /\ One(F(Black, "king"), {<<Black, "king">>}) /\ One(F(Black, "queen"), {<<Black, "queen">>})
    BY <1>1, <1>4
  <2>2. One(F(White, "king") \o F(White, "queen"), {<<White, "king">>} \cup {<<White, "queen">>})
    BY <1>2, <2>1
  <2>3. One(F(White, "king") \o F(White, "queen") \o F(Black, "king"),
            ({<<White, "king">>} \cup {<<White, "queen">>}) \cup {<<Black, "king">>})
    BY <1>2, <2>1, <2>2
  <2>4. One(F(White, "king") \o F(White, "queen") \o F(Black, "king") \o F(Black, "queen"), All)
    BY <1>2, <2>1, <2>3 DEF All
  <2>. QED BY <1>3, <2>4
<1>. HIDE DEF All
<1>. QED BY <1>5, <1>6 DEF One

\* and it names the rook in the corner.
LEMMA CornerRook ==
    ASSUME NEW p, Consistent(p), BothKings(p), NEW q, Consistent(q), q.board = p.board,
           NEW r \in Rights, RightSound(p, r), File(p.castlingRook[r]) \in {0, 7}
    PROVE  FlagMeans(q, FlagOf(r)) = {[right |-> r, rook |-> p.castlingRook[r]]}
<1>. DEFINE c == r[1]
            w == r[2]
            k == KingSquare(p, c)
            x == p.castlingRook[r]
<1>1. c \in Colors /\ w \in Wings /\ r = <<c, w>>
  BY DEF Rights
<1>2. k \in Squares /\ p.board[k] = MakePiece(c, "king")
  BY <1>1, KingStands DEF BothKings
<1>3. KingSquare(q, c) = k
  BY SameKings
<1>4. /\ x \in Squares /\ p.board[x] = MakePiece(c, "rook") /\ (x > k <=> w = "king")
      /\ Rank(k) = HomeRank(c) /\ Rank(x) = HomeRank(c) /\ File(x) \in {0, 7}
  BY DEF RightSound
<1>5. x # k
  <2>1. MakePiece(c, "king") # MakePiece(c, "rook")
    BY DEF MakePiece
  <2>. HIDE DEF c, k, x
  <2>. QED BY <1>2, <1>4, <2>1
<1>6. FlagMeans(q, FlagOf(r)) = {[right |-> <<c, w>>, rook |-> s] : s \in FindCastlingRook(q, c, w)}
  BY <1>1 DEF FlagMeans, FlagOf
<1>. HIDE DEF c, w, k, x
<1>7. /\ k = 8 * Rank(k) + File(k) /\ x = 8 * Rank(x) + File(x) /\ File(k) \in 0..7
      /\ k \in Int /\ x \in Int
  BY <1>2, <1>4, Coordinates
<1>8. Rank(x) \in Int
  BY <1>4, Coordinates
<1>9. ASSUME NEW s \in Squares, Rank(s) = Rank(x)
      PROVE  s \in (8 * Rank(x)) .. (8 * Rank(x) + 7) /\ s \in Int
  <2>1. s = 8 * Rank(s) + File(s) /\ File(s) \in 0..7 /\ s \in Int
    BY Coordinates
  <2>. QED BY <1>9, <1>8, <2>1
<1>10. CASE w = "king"
  <2>1. File(x) = 7
    BY <1>4, <1>7, <1>8, <1>10
  <2>2. \A s \in Squares : Rank(s) = Rank(x) => s <= x
    BY <1>7, <1>9, <1>8, <2>1
  <2>3. FindCastlingRook(q, c, w) =
          {s \in {t \in RankBB(HomeRank(c)) : q.board[t] = MakePiece(c, "rook") /\ t > k} :
             Rank(k) = HomeRank(c) /\ \A t \in {u \in RankBB(HomeRank(c)) : q.board[u] = MakePiece(c, "rook") /\ u > k} \ {s} : s > t}
    BY <1>3, <1>10 DEF FindCastlingRook
  <2>4. \A s, t \in Squares : s = t \/ s > t \/ t > s
    BY DEF Squares
  <2>5. \A s \in Squares : Rank(s) = Rank(x) /\ s # x => x > s /\ ~(s > x)
    BY <1>4, <1>7, <1>9, <2>2, <2>4
  <2>6. FindCastlingRook(q, c, w) = {x}
    BY <1>4, <1>10, <2>3, <2>5 DEF RankBB
  <2>. QED BY <1>1, <1>6, <2>6 DEF x
<1>11. CASE w = "queen"
  <2>1. File(x) = 0
    BY <1>4, <1>5, <1>7, <1>8, <1>11
  <2>2. \A s \in Squares : Rank(s) = Rank(x) => x <= s
    BY <1>7, <1>9, <1>8, <2>1
  <2>3. FindCastlingRook(q, c, w) =
          {s \in {t \in RankBB(HomeRank(c)) : q.board[t] = MakePiece(c, "rook") /\ t < k} :
             Rank(k) = HomeRank(c) /\ \A t \in {u \in RankBB(HomeRank(c)) : q.board[u] = MakePiece(c, "rook") /\ u < k} \ {s} : s < t}
    BY <1>3, <1>11 DEF FindCastlingRook
  <2>4. \A s, t \in Squares : s = t \/ s < t \/ t < s
    BY DEF Squares
  <2>5. \A s \in Squares : Rank(s) = Rank(x) /\ s # x => x < s /\ ~(s < x)
    BY <1>4, <1>7, <1>9, <2>2, <2>4
  <2>6. x < k
    BY <1>4, <1>5, <1>7, <1>11
  <2>7. FindCastlingRook(q, c, w) = {x}
    BY <1>4, <1>11, <2>3, <2>5, <2>6 DEF RankBB
  <2>. QED BY <1>1, <1>6, <2>7 DEF x
<1>. QED BY <1>1, <1>10, <1>11 DEF Wings

\* What a flag may name.
Meant(fen, i) == FlagMeans(Placed(fen), fen.castling[i])

\* A flag adds what it names and takes nothing back,
LEMMA FlagGives ==
    ASSUME NEW fen \in FENs, Valid(fen), NEW p, Flagged(p, fen),
           NEW i \in DOMAIN fen.castling, fen.castling[i] \in FlagSet
    PROVE  LET w == ParseFlag(p, fen.castling[i])
           IN  /\ p.castling \subseteq w.castling
               /\ Meant(fen, i) # {} => \E g \in Meant(fen, i) : g.right \in w.castling
<1>. DEFINE flag == fen.castling[i]
            found == FlagMeans(p, flag)
            base == Placed(fen)
            q == [p EXCEPT !.chess960 = @ \/ flag.wing \notin Wings]
            f == CHOOSE g \in found : TRUE
            w == ParseFlag(p, flag)
<1>1. Consistent(base) /\ base.board = fen.board /\ Consistent(p) /\ p.board = fen.board
  BY PlacedFacts DEF Placed, Flagged
<1>2. \A c : KingSquare(p, c) = KingSquare(base, c)
  <2>. HIDE DEF base
  <2>. QED BY <1>1, SameKings
<1>3. found = Meant(fen, i)
  <2>1. FlagMeans(p, flag) = FlagMeans(base, flag)
    <3>. HIDE DEF base, flag
    <3>. QED BY <1>1, <1>2 DEF FlagMeans, FindCastlingRook
  <2>. QED BY <2>1 DEF Meant
<1>4. CASE found = {}
  BY <1>3, <1>4 DEF ParseFlag
<1>5. CASE found # {}
  <2>1. f \in found
    BY <1>5
  <2>2. w = SetCastlingRight(q, f.right, f.rook)
    BY <1>5 DEF ParseFlag
  <2>3. IsPosition(p)
    BY <1>1 DEF Consistent
  <2>4. q.castling = p.castling /\ IsPosition(q)
    <3>1. q = [p EXCEPT !.chess960 = q.chess960]
      BY <2>3 DEF IsPosition, Fields
    <3>. HIDE DEF q
    <3>. QED BY <2>3, <3>1 DEF IsPosition, Fields
  <2>. HIDE DEF q, f
  <2>5. w.castling = q.castling \cup {f.right}
    <3>. DEFINE r == f.right
                king == KingSquare(q, r[1])
                path == (BetweenBB[king][CastlingKingTo(r)] \cup BetweenBB[f.rook][CastlingRookTo(r)]
                           \cup {CastlingKingTo(r), CastlingRookTo(r)}) \ {king, f.rook}
                mask == [q.crMask EXCEPT ![king] = @ \ ColorRights(r[1]), ![f.rook] = @ \ {r}]
    <3>1. w = [q EXCEPT !.castling = @ \cup {r}, !.castlingRook[r] = f.rook, !.castlingPath[r] = path,
                        !.crMask = mask]
      BY <2>2 DEF SetCastlingRight
    <3>. HIDE DEF path, mask, w, king, r
    <3>2. w = [q EXCEPT !.castling = q.castling \cup {r}, !.castlingRook = [q.castlingRook EXCEPT ![r] = f.rook],
                        !.castlingPath = [q.castlingPath EXCEPT ![r] = path], !.crMask = mask]
      BY <3>1
    <3>3. w.castling = q.castling \cup {r}
      BY <2>4, <3>2 DEF IsPosition, Fields
    <3>. QED BY <3>3 DEF r
  <2>. HIDE DEF w, found
  <2>6. p.castling \subseteq w.castling /\ f \in Meant(fen, i) /\ f.right \in w.castling
    BY <1>3, <2>1, <2>4, <2>5
  <2>. QED BY <2>6 DEF w
<1>. QED BY <1>4, <1>5

\* so every flag that names something has its right in the end.
LEMMA FlagsGiven ==
    ASSUME NEW fen \in FENs, Valid(fen)
    PROVE  \A i \in DOMAIN fen.castling : Meant(fen, i) # {} =>
             \E g \in Meant(fen, i) : g.right \in AllParsed(Placed(fen), fen.castling).castling
<1>. DEFINE flags == fen.castling
            n == Len(flags)
            base == Placed(fen)
<1>0. flags \in Seq(FlagSet)
  BY DEF FENs
<1>1. n \in Nat /\ (\A i \in 1 .. n : flags[i] \in FlagSet) /\ DOMAIN flags = 1 .. n
  <2>. HIDE DEF flags
  <2>. QED BY <1>0, LenProperties, ElementOfSeq
<1>2. Consistent(base) /\ BothKings(base) /\ base.board = fen.board
  BY PlacedFacts DEF Placed
<1>3. Flagged(base, fen)
  <2>1. /\ base.side = fen.side /\ base.fullmove = fen.fullmove /\ base.epSquare = NoSquare
        /\ base.halfmove = fen.halfmove
        /\ base.castling = {} /\ base.castlingRook = [r \in Rights |-> NoSquare]
        /\ base.castlingPath = [r \in Rights |-> {}] /\ base.crMask = [s \in Squares |-> Rights]
    BY DEF Placed
  <2>. HIDE DEF base
  <2>. QED BY <1>2, <2>1 DEF Flagged
<1>. HIDE DEF flags, n, base
<1>4. PICK f : /\ f[0] = base
               /\ \A i \in 1 .. n : f[i] = ParseFlag(f[i - 1], flags[i])
               /\ AllParsed(base, flags) = f[n]
  BY <1>0, FlagsInOrder DEF n
<1>. DEFINE Given(k) == \A i \in 1 .. k : Meant(fen, i) # {} => \E g \in Meant(fen, i) : g.right \in f[k].castling
            Bad == {k \in 0 .. n : ~(Flagged(f[k], fen) /\ Given(k))}
<1>5. Bad = {}
  <2>. SUFFICES ASSUME Bad # {} PROVE FALSE
    OBVIOUS
  <2>1. PICK k \in Bad : \A i \in Bad : k <= i
    <3>1. Bad \in SUBSET Nat
      BY <1>1
    <3>. HIDE DEF Bad
    <3>. QED BY <3>1, LeastOf
  <2>0. Given(0)
    OBVIOUS
  <2>. HIDE DEF Given
  <2>2. k \in 0 .. n /\ ~(Flagged(f[k], fen) /\ Given(k)) /\ k # 0
    BY <1>3, <1>4, <2>0, <2>1
  <2>3. k - 1 \in 0 .. n /\ k \in 1 .. n /\ ~(k <= k - 1)
    BY <1>1, <2>2
  <2>4. Flagged(f[k - 1], fen) /\ Given(k - 1)
    BY <2>1, <2>3
  <2>5. BothKings(f[k - 1])
    BY <1>2, <2>4, SameKings DEF Flagged
  <2>6. f[k] = ParseFlag(f[k - 1], flags[k]) /\ flags[k] \in FlagSet /\ k \in DOMAIN flags
    BY <1>1, <1>4, <2>3
  <2>7. Flagged(f[k], fen)
    BY <2>4, <2>5, <2>6, FlagParsed
  <2>8. /\ f[k - 1].castling \subseteq f[k].castling
        /\ Meant(fen, k) # {} => \E g \in Meant(fen, k) : g.right \in f[k].castling
    BY <2>4, <2>6, FlagGives DEF flags
  <2>9. \A i \in 1 .. k : i = k \/ i \in 1 .. (k - 1)
    BY <2>3, <1>1
  <2>10. Given(k)
    BY <2>4, <2>8, <2>9 DEF Given
  <2>. QED BY <2>2, <2>7, <2>10
<1>6. Given(n)
  <2>1. n \in 0 .. n
    BY <1>1
  <2>. HIDE DEF Given
  <2>. QED BY <1>5, <2>1
<1>. HIDE DEF Meant
<1>. QED BY <1>1, <1>4, <1>6 DEF base, flags

-----------------------------------------------------------------------------
\* A position whose record says where its castling rooks and its target are.
Recordable(p) ==
    /\ NoEdgePawns(p.board)
    /\ p.chess960 \/ \A r \in p.castling : File(p.castlingRook[r]) \in {0, 7}
    /\ p.epSquare # NoSquare => /\ Rank(p.epSquare) = (IF p.side = White THEN 5 ELSE 2)
                                /\ EPCaptureAvailable(p, p.epSquare, p.side)

Decoded(p) == BuildFEN(EncodeSample(p))

\* The target is read back,
LEMMA TargetReadBack ==
    ASSUME NEW p, Legal(p), Recordable(p)
    PROVE  Decoded(p).epSquare = p.epSquare
<1>1. Decoded(p).epSquare = Target(p.side, IF p.epSquare = NoSquare THEN NoFile ELSE File(p.epSquare))
  BY DEF Decoded, BuildFEN, EncodeSample
<1>2. CASE p.epSquare = NoSquare
  BY <1>1, <1>2 DEF Target
<1>3. CASE p.epSquare # NoSquare
  <2>1. p.epSquare \in Squares /\ Rank(p.epSquare) = (IF p.side = White THEN 5 ELSE 2)
    BY <1>3 DEF Legal, Sound, TargetSound, Recordable
  <2>2. p.epSquare = 8 * Rank(p.epSquare) + File(p.epSquare) /\ File(p.epSquare) \in 0..7 /\ Rank(p.epSquare) \in 0..7
    BY <2>1, Coordinates
  <2>3. File(p.epSquare) # NoFile
    BY <2>2 DEF NoFile
  <2>4. Decoded(p).epSquare = MakeSquare(File(p.epSquare), Rank(p.epSquare))
    BY <1>1, <1>3, <2>1, <2>3 DEF Target
  <2>. QED BY <2>2, <2>4 DEF MakeSquare
<1>. QED BY <1>2, <1>3

\* the FEN is one that is taken,
LEMMA DecodedValid ==
    ASSUME NEW p, Legal(p), Recordable(p)
    PROVE  LET fen == Decoded(p)
           IN  /\ fen \in FENs /\ Valid(fen)
               /\ fen.board = p.board /\ fen.side = p.side /\ fen.castling = Flags(p.castling)
<1>. DEFINE fen == Decoded(p)
            base == Placed(fen)
<1>1. /\ Sound(p) /\ BothKings(p) /\ Consistent(p) /\ KingsOnce(p) /\ p.board \in Boards
      /\ p.side \in Colors /\ p.castling \in SUBSET Rights
  BY DEF Legal, Sound, Consistent
<1>2. fen.board = p.board
  BY <1>1, BoardReadBack DEF Decoded
<1>3. fen.side = p.side /\ fen.castling = Flags(p.castling) /\ fen.halfmove = 0 /\ fen.fullmove = 1
  BY DEF Decoded, BuildFEN, EncodeSample
<1>4. fen.epSquare \in Squares \cup {NoSquare}
  BY <1>1, TargetReadBack DEF Sound, TargetSound
<1>5. fen \in FENs
  <2>1. fen = [board |-> fen.board, side |-> fen.side, castling |-> fen.castling, epSquare |-> fen.epSquare,
               halfmove |-> fen.halfmove, fullmove |-> fen.fullmove]
    BY DEF Decoded, BuildFEN
  <2>2. fen.castling \in Seq(FlagSet)
    BY <1>1, <1>3, FlagsAre
  <2>3. fen.board \in [Squares -> Pieces \cup {NoPiece}] /\ fen.halfmove \in Int /\ fen.fullmove \in Int
    BY <1>1, <1>2, <1>3 DEF Boards
  <2>. HIDE DEF fen
  <2>. QED BY <1>1, <1>3, <1>4, <2>1, <2>2, <2>3 DEF FENs
<1>. HIDE DEF fen
<1>6. Consistent(base) /\ base.board = p.board /\ base.side = p.side
  <2>1. base.board = fen.board /\ base.byType = TypesOf(fen.board) /\ base.byColor = ColorsOf(fen.board)
    BY DEF Placed, TypesOf, ColorsOf
  <2>2. IsPosition(base) /\ base.side = fen.side
    BY DEF Placed, IsPosition, Fields
  <2>. HIDE DEF base
  <2>. QED BY <1>1, <1>2, <1>3, <2>1, <2>2 DEF Consistent
<1>7. Valid(fen)
  <2>. HIDE DEF base
  <2>1. base.byType = p.byType /\ base.byColor = p.byColor /\ Occupied(base) = Occupied(p)
        /\ \A c : KingSquare(base, c) = KingSquare(p, c)
    BY <1>1, <1>6, SameBoard
  <2>2. ASSUME NEW c \in Colors PROVE Cardinality(PiecesOf(base, c, "king")) = 1
    <3>1. PiecesOf(base, c, "king") = PiecesOf(p, c, "king")
      BY <2>1 DEF PiecesOf
    <3>2. PiecesOf(p, c, "king") # {}
      BY <1>1 DEF BothKings
    <3>3. \A s \in PiecesOf(p, c, "king") : s \in Squares /\ p.board[s] = MakePiece(c, "king")
      BY <1>1, PiecesStand DEF PieceTypes
    <3>4. \A s, t \in PiecesOf(p, c, "king") : s = t
      BY <1>1, <3>3 DEF KingsOnce
    <3>5. \E k : PiecesOf(p, c, "king") = {k}
      BY <3>2, <3>4
    <3>. QED BY <3>1, <3>5, FS_Singleton
  <2>3. ~IsAttacked(base, KingSquare(base, Opposite(base.side)), base.side)
    <3>1. ~IsAttacked(p, KingSquare(p, Opposite(p.side)), p.side)
      BY SafeIsNotAttacked
    <3>. QED BY <1>6, <2>1, <3>1 DEF IsAttacked, AttackersTo, PiecesOf
  <2>4. base.byType["pawn"] \cap (RankBB(0) \cup RankBB(7)) = {}
    <3>1. p.byType["pawn"] = {s \in Squares : Type(p.board[s]) = "pawn"}
      BY <1>1 DEF Consistent, TypesOf, PieceTypes
    <3>. QED BY <2>1, <3>1 DEF Recordable, NoEdgePawns, RankBB
  <2>. QED BY <2>2, <2>3, <2>4 DEF Valid, base
<1>. QED BY <1>2, <1>3, <1>5, <1>7 DEF fen

\* its flags give the rights there were, with their rooks,
LEMMA RightsReadBack ==
    ASSUME NEW p, Legal(p), Recordable(p), ~p.chess960
    PROVE  LET q == AllParsed(Placed(Decoded(p)), Decoded(p).castling)
           IN  /\ Flagged(q, Decoded(p)) /\ q.castling = p.castling
               /\ \A r \in p.castling : q.castlingRook[r] = p.castlingRook[r]
<1>. DEFINE fen == Decoded(p)
            flags == fen.castling
            base == Placed(fen)
            q == AllParsed(base, flags)
<1>1. /\ Sound(p) /\ BothKings(p) /\ Consistent(p) /\ p.castling \in SUBSET Rights
      /\ \A r \in p.castling : RightSound(p, r)
  BY DEF Legal, Sound
<1>2. /\ fen \in FENs /\ Valid(fen) /\ fen.board = p.board /\ flags = Flags(p.castling)
  BY DecodedValid
<1>. HIDE DEF fen
<1>3. Consistent(base) /\ base.board = p.board
  <2>1. base.board = fen.board
    BY DEF Placed
  <2>. QED BY <1>2, <2>1, PlacedFacts
<1>4. Flagged(q, fen) /\ Traced(q, fen)
  BY <1>2, FlagsParsed, FlagsTraced
<1>5. ASSUME NEW r \in p.castling
      PROVE  FlagMeans(base, FlagOf(r)) = {[right |-> r, rook |-> p.castlingRook[r]]}
  <2>1. File(p.castlingRook[r]) \in {0, 7}
    BY DEF Recordable
  <2>. HIDE DEF base
  <2>. QED BY <1>1, <1>3, <1>5, <2>1, CornerRook
<1>6. /\ \A i \in DOMAIN flags : \E r \in p.castling : flags[i] = FlagOf(r)
      /\ \A r \in p.castling : \E i \in DOMAIN flags : flags[i] = FlagOf(r)
  BY <1>1, <1>2, FlagsAre
<1>7. \A g \in Named(fen) : \E r \in p.castling : g = [right |-> r, rook |-> p.castlingRook[r]]
  <2>. SUFFICES ASSUME NEW g \in Named(fen)
                PROVE  \E r \in p.castling : g = [right |-> r, rook |-> p.castlingRook[r]]
    OBVIOUS
  <2>1. PICK i \in DOMAIN flags : g \in FlagMeans(base, flags[i])
    BY DEF Named
  <2>. HIDE DEF base, flags
  <2>2. PICK r \in p.castling : flags[i] = FlagOf(r)
    BY <1>6
  <2>. QED BY <1>5, <2>1, <2>2
<1>8. \A r \in q.castling : r \in p.castling /\ q.castlingRook[r] = p.castlingRook[r]
  <2>. SUFFICES ASSUME NEW r \in q.castling PROVE r \in p.castling /\ q.castlingRook[r] = p.castlingRook[r]
    OBVIOUS
  <2>. HIDE DEF q
  <2>. DEFINE g == [right |-> r, rook |-> q.castlingRook[r]]
  <2>1. g \in Named(fen)
    BY <1>4 DEF Traced
  <2>2. g.right = r /\ g.rook = q.castlingRook[r]
    OBVIOUS
  <2>. HIDE DEF g
  <2>. QED BY <1>7, <2>1, <2>2
<1>9. \A r \in p.castling : r \in q.castling
  <2>. SUFFICES ASSUME NEW r \in p.castling PROVE r \in q.castling
    OBVIOUS
  <2>1. PICK i \in DOMAIN flags : flags[i] = FlagOf(r)
    BY <1>6
  <2>2. Meant(fen, i) = {[right |-> r, rook |-> p.castlingRook[r]]}
    BY <1>5, <2>1 DEF Meant
  <2>3. \E g \in Meant(fen, i) : g.right \in q.castling
    <3>1. Meant(fen, i) # {}
      BY <2>2
    <3>. QED BY <1>2, <3>1, FlagsGiven
  <2>. HIDE DEF q
  <2>. QED BY <2>2, <2>3
<1>. HIDE DEF q
<1>10. Flagged(q, fen) /\ q.castling = p.castling /\ \A r \in p.castling : q.castlingRook[r] = p.castlingRook[r]
  BY <1>4, <1>8, <1>9
<1>. QED BY <1>10 DEF q, fen

\* and with them all that a situation and its key are made of.
LEMMA RecordReadBack ==
    ASSUME NEW p, Legal(p), Recordable(p), ~p.chess960
    PROVE  LET d == ParseFEN(Decoded(p))
           IN  /\ DecodeSample(EncodeSample(p)) = {d}
               /\ SituationOf(d) = SituationOf(p) /\ d.key = p.key
<1>. DEFINE fen == Decoded(p)
            q == AllParsed(Placed(fen), fen.castling)
            useful == fen.epSquare # NoSquare /\ EPCaptureAvailable(q, fen.epSquare, q.side)
            e == [q EXCEPT !.epSquare = IF useful THEN fen.epSquare ELSE NoSquare]
            d == [e EXCEPT !.key = ComputeKey(e)]
<1>1. fen \in FENs /\ Valid(fen) /\ fen.board = p.board /\ fen.side = p.side /\ fen.epSquare = p.epSquare
  BY DecodedValid, TargetReadBack
<1>2. DecodeSample(EncodeSample(p)) = {ParseFEN(fen)}
  BY <1>1 DEF DecodeSample, Decoded
<1>3. ParseFEN(fen) = d
  BY DEF ParseFEN, AllParsed
<1>4. /\ Flagged(q, fen) /\ q.castling = p.castling
      /\ \A r \in p.castling : q.castlingRook[r] = p.castlingRook[r]
  BY RightsReadBack
<1>. HIDE DEF q, fen
<1>5. /\ Consistent(q) /\ IsPosition(q) /\ q.board = p.board /\ q.side = p.side
      /\ Consistent(p) /\ Keyed(p)
  BY <1>1, <1>4 DEF Flagged, Consistent, Legal, Sound
<1>6. useful <=> p.epSquare # NoSquare
  BY <1>1, <1>5, SameBoard DEF Recordable
<1>. HIDE DEF useful
<1>7. AlikeBut(q, e, {"epSquare"}) /\ e.epSquare = p.epSquare
  <2>1. e.epSquare = IF useful THEN fen.epSquare ELSE NoSquare
    BY <1>5 DEF IsPosition, Fields
  <2>2. AlikeBut(q, e, {"epSquare"})
    BY <1>5 DEF AlikeBut, IsPosition, Fields
  <2>. QED BY <1>1, <1>6, <2>1, <2>2
<1>. HIDE DEF e
<1>8. AlikeBut(e, d, {"key"}) /\ d.key = ComputeKey(e)
  BY <1>7 DEF AlikeBut, IsPosition, Fields
<1>. HIDE DEF d
<1>9. e.board = p.board /\ e.side = p.side /\ e.castling = p.castling /\ e.castlingRook = q.castlingRook
  BY <1>4, <1>5, <1>7 DEF AlikeBut, Fields
<1>10. /\ d.board = p.board /\ d.side = p.side /\ d.castling = p.castling /\ d.castlingRook = q.castlingRook
       /\ d.epSquare = p.epSquare
  BY <1>7, <1>8, <1>9 DEF AlikeBut, Fields
<1>11. d.key = p.key
  BY <1>5, <1>7, <1>8, <1>9 DEF Keyed, ComputeKey
<1>12. SituationOf(d) = SituationOf(p)
  BY <1>4, <1>10 DEF SituationOf
<1>. QED BY <1>2, <1>3, <1>11, <1>12 DEF fen

\* A move leaves a target only behind a double push, for a capture that is there;
LEMMA TargetRecordable ==
    ASSUME NEW p, Legal(p), NEW m \in GenerateLegalMoves(p), MakeMove(p, m).epSquare # NoSquare
    PROVE  LET q == MakeMove(p, m)
           IN  /\ Rank(q.epSquare) = (IF q.side = White THEN 5 ELSE 2)
               /\ EPCaptureAvailable(q, q.epSquare, q.side)
<1>. DEFINE q == MakeMove(p, m)
            us == p.side
            e == m.from + PawnPush(us)
<1>1. /\ m.kind = "normal" /\ Type(p.board[m.from]) = "pawn" /\ Abs(m.to - m.from) = 16
      /\ q.epSquare = EPTarget(q.board, us, e)
  BY TargetAfter
<1>2. Rank(m.from) = (IF us = White THEN 1 ELSE 6) /\ m.from \in Squares
  BY <1>1, PawnWent
<1>3. us \in Colors /\ Sound(p) /\ BothKings(p) /\ Consistent(p)
  BY DEF Legal, Sound
<1>4. Legal(q) /\ q.side = Opposite(us)
  BY <1>3, GeneratedMovesAreLegal, GeneratedPlayable, MoveMade
<1>. HIDE DEF q
<1>5. q.epSquare = e /\ \E b \in EPResults([board |-> q.board, side |-> Opposite(us)], e) : Safe(b, Opposite(us))
  BY <1>1 DEF EPTarget, q
<1>6. Rank(e) = (IF q.side = White THEN 5 ELSE 2)
  BY <1>2, <1>3, <1>4 DEF Squares, Rank, PawnPush, North, South, Colors, White, Black, Opposite
<1>7. TargetSound(q)
  BY <1>4 DEF Legal, Sound, q
<1>8. EPCaptureAvailable(q, e, q.side)
  <2>1. /\ e \in Squares /\ q.board[e] = NoPiece /\ e - PawnPush(q.side) \in Squares
        /\ q.board[e - PawnPush(q.side)] = MakePiece(Opposite(q.side), "pawn")
    BY <1>5, <1>7 DEF TargetSound
  <2>2. \E c \in EPResults([board |-> q.board, side |-> q.side], e) : Safe(c, q.side)
    BY <1>4, <1>5
  <2>. HIDE DEF e
  <2>. QED BY <1>4, <2>1, <2>2, TargetIs
<1>. QED BY <1>5, <1>6, <1>8 DEF q

\* a move keeps a position recordable,
LEMMA RecordableMove ==
    ASSUME NEW p, Legal(p), Recordable(p), NEW m \in GenerateLegalMoves(p)
    PROVE  Recordable(MakeMove(p, m))
<1>. DEFINE q == MakeMove(p, m)
<1>1. Sound(p) /\ BothKings(p) /\ Consistent(p) /\ p.side \in Colors
  BY DEF Legal, Sound
<1>2. /\ q.castling = p.castling \cap p.crMask[m.from] \cap p.crMask[m.to]
      /\ q.chess960 = p.chess960 /\ q.castlingRook = p.castlingRook
  BY <1>1, GeneratedPlayable, MoveMade
<1>3. NoEdgePawns(q.board)
  <2>1. p.epSquare # NoSquare => Rank(p.epSquare) \notin {0, 7}
    BY DEF Recordable
  <2>. QED BY <2>1, PawnsStayInside DEF Recordable
<1>4. q.epSquare # NoSquare => /\ Rank(q.epSquare) = (IF q.side = White THEN 5 ELSE 2)
                               /\ EPCaptureAvailable(q, q.epSquare, q.side)
  BY TargetRecordable
<1>. HIDE DEF q
<1>5. Recordable(q)
  BY <1>2, <1>3, <1>4 DEF Recordable
<1>. QED BY <1>5 DEF q

\* so does a null move,
LEMMA RecordableNull ==
    ASSUME NEW p, Legal(p), Recordable(p)
    PROVE  Recordable(MakeNullMove(p))
<1>1. Consistent(p) /\ p.side \in Colors
  BY DEF Legal, Sound
<1>. DEFINE q == MakeNullMove(p)
<1>2. /\ q.board = p.board /\ q.epSquare = NoSquare /\ q.castling = p.castling
      /\ q.chess960 = p.chess960 /\ q.castlingRook = p.castlingRook
  BY <1>1, NullMoveMade
<1>. HIDE DEF q
<1>3. Recordable(q)
  BY <1>2 DEF Recordable
<1>. QED BY <1>3 DEF q

\* and ParseFEN starts from one, where rooks and target are in their usual places.
LEMMA ParsedRecordable ==
    ASSUME NEW fen \in FENs, Valid(fen), fen.halfmove \in Nat,
           fen.epSquare # NoSquare => fen.epSquare - PawnPush(fen.side) \in Squares,
           ParseFEN(fen).chess960 \/ \A r \in ParseFEN(fen).castling : File(ParseFEN(fen).castlingRook[r]) \in {0, 7},
           ParseFEN(fen).epSquare # NoSquare =>
             Rank(ParseFEN(fen).epSquare) = (IF ParseFEN(fen).side = White THEN 5 ELSE 2)
    PROVE  Recordable(ParseFEN(fen))
<1>. DEFINE p == AllParsed(Placed(fen), fen.castling)
            useful == fen.epSquare # NoSquare /\ EPCaptureAvailable(p, fen.epSquare, p.side)
            q == [p EXCEPT !.epSquare = IF useful THEN fen.epSquare ELSE NoSquare]
            r == [q EXCEPT !.key = ComputeKey(q)]
<1>1. Flagged(p, fen)
  BY FlagsParsed
<1>2. ParseFEN(fen) = r
  BY DEF ParseFEN, AllParsed
<1>3. Legal(r) /\ r.board = fen.board /\ r.side = fen.side
  BY <1>2, ParsedLegal, ParsedSound
<1>. HIDE DEF p
<1>4. IsPosition(p) /\ Consistent(p) /\ p.board = fen.board /\ p.side = fen.side
  BY <1>1 DEF Flagged, Consistent
<1>5. r.epSquare # NoSquare => r.epSquare = fen.epSquare /\ useful
  <2>. HIDE DEF useful
  <2>1. AlikeBut(p, q, {"epSquare"}) /\ q.epSquare = IF useful THEN fen.epSquare ELSE NoSquare
    BY <1>4 DEF AlikeBut, IsPosition, Fields
  <2>. HIDE DEF q
  <2>2. r.epSquare = q.epSquare
    BY <2>1 DEF AlikeBut, IsPosition, Fields
  <2>. QED BY <2>1, <2>2
<1>. HIDE DEF q, r
<1>6. r.epSquare # NoSquare => EPCaptureAvailable(r, r.epSquare, r.side)
  BY <1>3, <1>4, <1>5, SameBoard DEF Legal, Sound
<1>7. NoEdgePawns(r.board)
  BY <1>3, ParsedInside
<1>. QED BY <1>2, <1>6, <1>7 DEF Recordable

-----------------------------------------------------------------------------
(***************************************************************************)
(* Along every game and line.                                              *)
(***************************************************************************)
\* What starts of either kind lead to.
Suited(p) == (OrdinaryStarts => Ordinary(p)) /\ (ClassicalStarts => Recordable(p))
AllSuited == \A i \in 1 .. Len(Passed) : Suited(Passed[i])
SuitedInv == LineInv /\ AllSuited

\* A move and a null move keep it.
LEMMA SuitedMove ==
    ASSUME NEW p, Legal(p), Suited(p), NEW m \in GenerateLegalMoves(p)
    PROVE  Suited(MakeMove(p, m))
  BY OrdinaryMove, RecordableMove DEF Suited

LEMMA SuitedNull ==
    ASSUME NEW p, Legal(p), Suited(p)
    PROVE  Suited(MakeNullMove(p))
  BY OrdinaryNull, RecordableNull DEF Suited

\* Where a game starts,
LEMMA InitSuited ==
    ASSUME Init
    PROVE  SuitedInv
<1>1. PICK start \in Starts : Valid(start.fen) /\ pos = ParseFEN(start.fen)
  BY DEF Init
<1>2. LineInv
  BY InitLine
<1>3. Suited(pos)
  <2>. DEFINE fen == start.fen
  <2>1. /\ fen \in FENs /\ Valid(fen) /\ fen.halfmove \in Nat /\ pos = ParseFEN(fen)
        /\ fen.epSquare # NoSquare => fen.epSquare - PawnPush(fen.side) \in Squares
    BY <1>1, StartsAssumption
  <2>2. ASSUME OrdinaryStarts PROVE Ordinary(pos)
    <3>1. /\ \A f, g \in Named(fen) : f.right = g.right => f.rook = g.rook
          /\ fen.epSquare # NoSquare => Rank(fen.epSquare) \notin {0, 7}
      BY <2>2 DEF OrdinaryStarts, Named
    <3>. QED BY <2>1, <3>1, ParsedOrdinary
  <2>3. ASSUME ClassicalStarts PROVE Recordable(pos)
    <3>1. /\ pos.chess960 \/ \A r \in pos.castling : File(pos.castlingRook[r]) \in {0, 7}
          /\ pos.epSquare # NoSquare => Rank(pos.epSquare) = (IF pos.side = White THEN 5 ELSE 2)
      BY <2>1, <2>3 DEF ClassicalStarts
    <3>. QED BY <2>1, <3>1, ParsedRecordable
  <2>. QED BY <2>2, <2>3 DEF Suited
<1>4. history = <<>> /\ Len(history) = 0
  BY DEF Init
<1>5. Len(Passed) = 1 /\ Passed[1] = pos
  <2>1. \A n \in Nat : n = 0 => n + 1 = 1
    OBVIOUS
  <2>2. Len(history) \in Nat /\ Len(Passed) = Len(history) + 1 /\ Passed[Len(Passed)] = pos
    BY <1>2, LineFacts
  <2>. QED BY <1>4, <2>1, <2>2
<1>6. AllSuited
  BY <1>3, <1>5 DEF AllSuited
<1>. QED BY <1>2, <1>6 DEF SuitedInv

\* A step down,
LEMMA SuitedGrows ==
    ASSUME SuitedInv, Passed' = Append(Passed, pos'), Suited(pos')
    PROVE  AllSuited'
<1>1. IsSeq(Passed) /\ \A i \in 1 .. Len(Passed) : Suited(Passed[i])
  BY LineFacts DEF SuitedInv, AllSuited
<1>. DEFINE ps == Passed
            pt == Passed'
            n == Len(ps)
<1>2. n \in Nat /\ Len(pt) = n + 1 /\ (\A i \in 1 .. n : pt[i] = ps[i]) /\ pt[n + 1] = pos'
  BY <1>1, Appended
<1>3. \A i \in 1 .. (n + 1) : i \in 1 .. n \/ i = n + 1
  BY <1>2
<1>4. \A i \in 1 .. n : Suited(ps[i])
  BY <1>1
<1>. HIDE DEF ps, pt, n
<1>5. \A i \in 1 .. Len(pt) : Suited(pt[i])
  BY <1>2, <1>3, <1>4
<1>. QED BY <1>5 DEF AllSuited, pt

\* and every step.
LEMMA SuitedStep ==
    ASSUME SuitedInv, [Next]_vars
    PROVE  SuitedInv'
<1>1. LineInv'
  BY LineStep DEF SuitedInv
<1>. SUFFICES AllSuited'
  BY <1>1 DEF SuitedInv
<1>2. Legal(pos) /\ Suited(pos) /\ LineInv
  <2>1. /\ LineInv /\ Legal(pos) /\ Len(history) \in Nat /\ Len(Passed) = Len(history) + 1
        /\ Passed[Len(Passed)] = pos
    BY LineFacts DEF SuitedInv
  <2>2. Len(Passed) \in 1 .. Len(Passed)
    BY <2>1
  <2>. QED BY <2>1, <2>2 DEF SuitedInv, AllSuited
<1>3. ASSUME NEW m \in GenerateLegalMoves(pos), MakesMove(m)
      PROVE  AllSuited'
  <2>1. /\ pos' = MakeMove(pos, m) /\ history' = Append(history, Undo(pos, m))
        /\ line' = Append(line, pos)
    BY <1>3 DEF MakesMove
  <2>2. Passed' = Append(Passed, pos')
    BY <1>2, <2>1, MoveReaches, LineGrows
  <2>. QED BY <1>2, <2>1, <2>2, SuitedMove, SuitedGrows
<1>4. CASE Play
  BY <1>3, <1>4 DEF Play
<1>5. CASE Make
  BY <1>3, <1>5 DEF Make
<1>6. CASE MakeNull
  <2>1. /\ pos' = MakeNullMove(pos) /\ history' = Append(history, NullUndo(pos))
        /\ line' = Append(line, pos)
    BY <1>6 DEF MakeNull
  <2>2. Legal(pos') /\ Reached(pos, NullUndo(pos), pos')
    BY <1>2, <1>6, <2>1, NullMoveLegal DEF Reached, MakeNull
  <2>3. Passed' = Append(Passed, pos')
    BY <1>2, <2>1, <2>2, LineGrows
  <2>. QED BY <1>2, <2>1, <2>3, SuitedNull, SuitedGrows
<1>7. CASE Unmake \/ UnmakeNull
  <2>1. pos' = Last(line) /\ line' = Front(line) /\ Ply > 0
    BY <1>2, <1>7, UnmakeStep DEF Unmake, UnmakeNull
  <2>2. IsSeq(line) /\ Len(line) > 0 /\ Len(line) \in Nat
    BY <1>2, <2>1, LineFacts DEF Ply
  <2>3. Passed' = line
    BY <2>1, <2>2, Fronted DEF Passed
  <2>4. Len(Passed) = Len(line) + 1 /\ \A i \in 1 .. Len(line) : Passed[i] = line[i]
    BY <2>2, Appended DEF Passed
  <2>5. \A i \in 1 .. Len(line) : i \in 1 .. (Len(line) + 1)
    BY <2>2
  <2>. QED BY <2>3, <2>4, <2>5 DEF SuitedInv, AllSuited
<1>8. CASE UNCHANGED vars
  BY <1>8 DEF vars, SuitedInv, AllSuited, Passed
<1>. QED BY <1>4, <1>5, <1>6, <1>7, <1>8 DEF Next

\* At every position of a game and at every node of a line the moves generated lead to
\* exactly the situations the laws allow, none twice, with the rights and the target the
\* laws give, and GenerateCaptures gives those that gain something, or all in check
\* (movegen.go): from every ordinary start, for games and lines of any length.
THEOREM GeneratorExactHolds == OrdinaryStarts => (Spec => []GeneratorExact)
<1>. SUFFICES ASSUME OrdinaryStarts PROVE Spec => []GeneratorExact
  OBVIOUS
<1>1. Init => SuitedInv
  BY InitSuited
<1>2. SuitedInv /\ [Next]_vars => SuitedInv'
  BY SuitedStep
<1>3. SuitedInv => GeneratorExact
  <2>. SUFFICES ASSUME SuitedInv PROVE GeneratorExact
    OBVIOUS
  <2>1. /\ LineInv /\ Legal(pos) /\ Len(history) \in Nat /\ Len(Passed) = Len(history) + 1
        /\ Passed[Len(Passed)] = pos
    BY LineFacts DEF SuitedInv
  <2>2. Len(Passed) \in 1 .. Len(Passed)
    BY <2>1
  <2>3. Ordinary(pos)
    BY <2>1, <2>2 DEF SuitedInv, AllSuited, Suited
  <2>4. RightsExact(pos) /\ NoEdgePawns(pos.board)
    BY <2>3 DEF Ordinary
  <2>5. ExactIn(pos)
    BY <2>1, <2>4, ExactAt
  <2>. QED BY <2>5 DEF ExactIn, GeneratorExact, KingsStand
<1>. QED BY <1>1, <1>2, <1>3, PTL DEF Spec

\* A record that EncodeSample makes of any position of a game or of a search is taken by
\* DecodeSample and gives back its board, side, rights, target and key (train/format.go):
\* from every start with castling rooks in corners, for games and lines of any length.
THEOREM SampleRoundTripsHolds == ClassicalStarts => (Spec => []SampleRoundTrips)
<1>. SUFFICES ASSUME ClassicalStarts PROVE Spec => []SampleRoundTrips
  OBVIOUS
<1>1. Init => SuitedInv
  BY InitSuited
<1>2. SuitedInv /\ [Next]_vars => SuitedInv'
  BY SuitedStep
<1>3. SuitedInv => SampleRoundTrips
  <2>. SUFFICES ASSUME SuitedInv, Encodable(pos)
                PROVE  \E decoded \in DecodeSample(EncodeSample(pos)) :
                         /\ SituationOf(decoded) = SituationOf(pos)
                         /\ decoded.key = pos.key /\ Agrees(pos)
    BY DEF SampleRoundTrips
  <2>1. /\ LineInv /\ Legal(pos) /\ Len(history) \in Nat /\ Len(Passed) = Len(history) + 1
        /\ Passed[Len(Passed)] = pos
    BY LineFacts DEF SuitedInv
  <2>2. Len(Passed) \in 1 .. Len(Passed)
    BY <2>1
  <2>3. Recordable(pos) /\ ~pos.chess960
    BY <2>1, <2>2 DEF SuitedInv, AllSuited, Suited, Encodable
  <2>4. Agrees(pos)
    BY <2>1 DEF Legal, Sound, Consistent, Agrees, TypesOf, ColorsOf, Keyed
  <2>. DEFINE decoded == ParseFEN(Decoded(pos))
  <2>5. /\ DecodeSample(EncodeSample(pos)) = {decoded}
        /\ SituationOf(decoded) = SituationOf(pos) /\ decoded.key = pos.key
    BY <2>1, <2>3, RecordReadBack
  <2>. HIDE DEF decoded
  <2>. QED BY <2>4, <2>5
<1>. QED BY <1>1, <1>2, <1>3, PTL DEF Spec
=============================================================================
