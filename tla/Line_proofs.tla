---------------------------- MODULE Line_proofs ----------------------------
(***************************************************************************)
(* Proofs about chess.Position, the generator and a line of moves, for     *)
(* every FEN that is not refused, every bound and every length of a line:  *)
(*                                                                         *)
(*   - making a move or passing changes mailbox, bitboards and key alike,  *)
(*     and unmaking gives the position back, field by field;               *)
(*   - the accumulator after a delta is the one refreshed from the board;  *)
(*   - what ParseFEN accepts is sound, and moves keep it so: rights with   *)
(*     their rooks and ways, the target behind a pawn, one king a side;    *)
(*   - a generated move never leaves its own king attacked nor takes the   *)
(*     other: squares as places on files and ranks, attacks as what a man  *)
(*     sees along a line, then one lemma for each kind of move;            *)
(*   - so a line, moves tried and taken back in any order, is a chain of   *)
(*     legal positions with their records and accumulators: LineInv;       *)
(*   - irreversible moves use something up, so that looking for equal keys *)
(*     back to the last of them misses no earlier occurrence;              *)
(*   - a move that a mask leaves out would leave the king attacked, so the *)
(*     generator finds every move of the laws and no other.                *)
(***************************************************************************)
EXTENDS Line, SequenceTheorems, FiniteSetTheorems, WellFoundedInduction, TLAPS

\* A set of naturals that is not empty has a least member.
LEMMA LeastOf ==
    ASSUME NEW S \in SUBSET Nat, S # {}
    PROVE  Min(S) \in S /\ \A n \in S : Min(S) <= n
<1>. DEFINE Below == {0 .. n : n \in S}
<1>1. Below \subseteq FiniteSubsetsOf(Nat) /\ Below # {}
  <2>1. \A n \in S : 0 .. n \in SUBSET Nat /\ IsFiniteSet(0 .. n)
    BY FS_Interval
  <2>. QED BY <2>1 DEF FiniteSubsetsOf
<1>2. PICK B \in Below : \A C \in Below : ~(<<C, B>> \in StrictSubsetOrdering(Nat))
  <2>. HIDE DEF Below
  <2>. QED BY <1>1, FS_StrictSubsetOrderingWellFounded, WFMin
<1>3. PICK m \in S : B = 0 .. m
  OBVIOUS
<1>4. ASSUME NEW n \in S, n < m PROVE FALSE
  <2>1. 0 .. n \subseteq 0 .. m /\ 0 .. n # 0 .. m
    BY <1>4
  <2>2. <<0 .. n, B>> \in StrictSubsetOrdering(Nat)
    BY <1>3, <2>1 DEF StrictSubsetOrdering
  <2>. QED BY <1>2, <2>2
<1>5. \A n \in S : m <= n
  BY <1>4
<1>. QED BY <1>5 DEF Min

\* Numbers up to n have a greatest one.
LEMMA GreatestOf ==
    ASSUME NEW n \in Nat, NEW S, S # {}, \A x \in S : x \in Nat /\ x <= n
    PROVE  \E j \in S : \A x \in S : x <= j
<1>. DEFINE T == {k \in 0 .. n : n - k \in S}
<1>1. T \in SUBSET Nat
  OBVIOUS
<1>2. \A x \in S : n - x \in T
  OBVIOUS
<1>3. T # {}
  BY <1>2
<1>. HIDE DEF T
<1>4. PICK k \in T : \A x \in T : k <= x
  BY <1>1, <1>3, LeastOf
<1>5. k \in Nat /\ n - k \in S
  BY <1>4 DEF T
<1>6. \A x \in S : x <= n - k
  BY <1>2, <1>4, <1>5
<1>. QED BY <1>5, <1>6

\* The greatest of some numbers up to k + 1, that one included.
LEMMA MaxOfUpTo ==
    ASSUME NEW k \in Nat, NEW s \in SUBSET (1 .. (k + 1)), k + 1 \in s
    PROVE  Max(s) = k + 1
<1>1. \E x \in s : \A y \in s : x >= y
  <2>1. \A y \in s : k + 1 >= y
    OBVIOUS
  <2>. QED BY <2>1
<1>2. Max(s) \in s /\ \A y \in s : Max(s) >= y
  BY <1>1 DEF Max
<1>3. Max(s) \in 1 .. (k + 1) /\ Max(s) >= k + 1
  BY <1>2
<1>. QED BY <1>3

AllParsed(base, flags) == FoldLeft(ParseFlag, base, flags)

\* Folding the flags parses one after the other.
LEMMA FlagsInOrder ==
    ASSUME NEW base, NEW flags \in Seq(FlagSet)
    PROVE  \E f : /\ f[0] = base
                  /\ \A i \in 1 .. Len(flags) : f[i] = ParseFlag(f[i - 1], flags[i])
                  /\ AllParsed(base, flags) = f[Len(flags)]
<1>. DEFINE n == Len(flags)
<1>0. n \in Nat /\ DOMAIN flags = 1 .. n
  BY LenProperties
<1>. HIDE DEF n
<1>. DEFINE Iter(g, k) == [s \in SUBSET (1 .. k) |->
                             IF s = {} THEN base
                             ELSE ParseFlag(g[s \ {Max(s)}], flags[Max(s)])]
            Undefined == {k \in Nat : ~\E g : g = Iter(g, k)}
<1>1. \E g : g = Iter(g, 0)
  <2>. DEFINE g == [s \in SUBSET (1 .. 0) |-> base]
  <2>1. \A s \in SUBSET (1 .. 0) : s = {}
    OBVIOUS
  <2>. QED BY <2>1
<1>2. ASSUME NEW k \in Nat, NEW g, g = Iter(g, k) PROVE \E h : h = Iter(h, k + 1)
  <2>. DEFINE h == [s \in SUBSET (1 .. (k + 1)) |->
                      IF k + 1 \in s THEN ParseFlag(g[s \ {k + 1}], flags[k + 1]) ELSE g[s]]
  <2>1. ASSUME NEW s \in SUBSET (1 .. (k + 1)), k + 1 \in s
        PROVE  h[s] = ParseFlag(h[s \ {Max(s)}], flags[Max(s)])
    BY <2>1, MaxOfUpTo
  <2>2. ASSUME NEW s \in SUBSET (1 .. (k + 1)), k + 1 \notin s
        PROVE  s \in SUBSET (1 .. k) /\ h[s] = g[s]
    BY <2>2
  <2>3. ASSUME NEW s \in SUBSET (1 .. (k + 1)), k + 1 \notin s
        PROVE  h[s] = IF s = {} THEN base ELSE ParseFlag(h[s \ {Max(s)}], flags[Max(s)])
    <3>1. s \in SUBSET (1 .. k) /\ h[s] = g[s]
      BY <2>2, <2>3
    <3>. DEFINE t == s \ {Max(s)}
    <3>2. t \in SUBSET (1 .. (k + 1)) /\ k + 1 \notin t
      BY <2>3
    <3>3. h[t] = g[t]
      <4>. HIDE DEF t
      <4>. QED BY <2>2, <3>2
    <3>. QED BY <1>2, <3>1, <3>3
  <2>4. ASSUME NEW s \in SUBSET (1 .. (k + 1))
        PROVE  h[s] = IF s = {} THEN base ELSE ParseFlag(h[s \ {Max(s)}], flags[Max(s)])
    BY <2>1, <2>3
  <2>5. h = [s \in SUBSET (1 .. (k + 1)) |-> h[s]]
    OBVIOUS
  <2>6. h = Iter(h, k + 1)
    <3>. HIDE DEF h
    <3>. QED BY <2>4, <2>5
  <2>. QED BY <2>6
<1>3. Undefined = {}
  <2>. SUFFICES ASSUME Undefined # {} PROVE FALSE
    OBVIOUS
  <2>1. PICK m \in Undefined : \A k \in Undefined : m <= k
    <3>1. Undefined \in SUBSET Nat
      OBVIOUS
    <3>. HIDE DEF Undefined
    <3>. QED BY <3>1, LeastOf
  <2>2. m \in Nat /\ m # 0 /\ ~\E g : g = Iter(g, m)
    <3>. HIDE DEF Iter
    <3>. QED BY <1>1, <2>1
  <2>3. m - 1 \in Nat /\ m - 1 \notin Undefined
    <3>1. m - 1 \in Nat /\ ~(m <= m - 1)
      BY <2>2
    <3>. HIDE DEF Undefined
    <3>. QED BY <2>1, <3>1
  <2>4. PICK g : g = Iter(g, m - 1)
    <3>. HIDE DEF Iter
    <3>. QED BY <2>3
  <2>5. \E h : h = Iter(h, (m - 1) + 1)
    <3>. HIDE DEF Iter
    <3>. QED BY <1>2, <2>3, <2>4
  <2>6. (m - 1) + 1 = m
    BY <2>2
  <2>. HIDE DEF Iter
  <2>. QED BY <2>2, <2>5, <2>6
<1>. DEFINE iter == CHOOSE g : g = Iter(g, n)
<1>4. iter = Iter(iter, n)
  <2>1. \E g : g = Iter(g, n)
    <3>. HIDE DEF Iter
    <3>. QED BY <1>0, <1>3
  <2>. HIDE DEF Iter
  <2>. QED BY <2>1
<1>5. AllParsed(base, flags) = iter[1 .. n]
  BY <1>0 DEF AllParsed, FoldLeft, MapThenFoldSet
<1>6. ASSUME NEW i \in 1 .. n PROVE iter[1 .. i] = ParseFlag(iter[1 .. (i - 1)], flags[i])
  <2>. DEFINE s == 1 .. i
  <2>1. s \in SUBSET (1 .. n) /\ s # {}
    BY <1>0
  <2>2. Max(s) = i
    <3>1. i - 1 \in Nat /\ s \in SUBSET (1 .. ((i - 1) + 1)) /\ (i - 1) + 1 = i /\ (i - 1) + 1 \in s
      OBVIOUS
    <3>. HIDE DEF s
    <3>. QED BY <3>1, MaxOfUpTo
  <2>3. s \ {i} = 1 .. (i - 1)
    OBVIOUS
  <2>4. iter[s] = ParseFlag(iter[s \ {Max(s)}], flags[Max(s)])
    <3>. HIDE DEF s, iter
    <3>. QED BY <1>4, <2>1
  <2>. HIDE DEF iter
  <2>. QED BY <2>2, <2>3, <2>4
<1>7. iter[1 .. 0] = base
  <2>1. 1 .. 0 = {} /\ {} \in SUBSET (1 .. n)
    OBVIOUS
  <2>. HIDE DEF iter
  <2>. QED BY <1>4, <2>1
<1>. DEFINE f == [i \in 0 .. n |-> iter[1 .. i]]
<1>8. f[0] = base /\ f[n] = AllParsed(base, flags)
  <2>1. 0 \in 0 .. n /\ n \in 0 .. n
    BY <1>0
  <2>. HIDE DEF iter
  <2>. QED BY <1>5, <1>7, <2>1
<1>9. \A i \in 1 .. n : f[i] = ParseFlag(f[i - 1], flags[i])
  <2>1. \A i \in 1 .. n : i \in 0 .. n /\ i - 1 \in 0 .. n
    BY <1>0
  <2>. HIDE DEF iter
  <2>. QED BY <1>6, <2>1
<1>. HIDE DEF f
<1>. QED BY <1>8, <1>9 DEF n

-----------------------------------------------------------------------------
(***************************************************************************)
(* The pieces of a position.                                               *)
(***************************************************************************)
Boards == [Squares -> Pieces \cup {NoPiece}]
TypesOf(b) == [pt \in PieceTypes |-> {s \in Squares : Type(b[s]) = pt}]
ColorsOf(b) == [c \in Colors |-> {s \in Squares : Color(b[s]) = c}]

Fields == {"board", "byType", "byColor", "side", "chess960", "castling", "epSquare", "halfmove",
           "fullmove", "key", "castlingRook", "castlingPath", "crMask"}
IsPosition(p) == p = [f \in Fields |-> p[f]]

\* The bitboards agree with the mailbox.
Consistent(p) ==
    /\ IsPosition(p)
    /\ p.board \in Boards
    /\ p.byType = TypesOf(p.board) /\ p.byColor = ColorsOf(p.board)

\* p with other pieces, in all three representations.
Setting(p, b, k) ==
    [p EXCEPT !.board = b, !.byType = TypesOf(b), !.byColor = ColorsOf(b), !.key = k]

\* A man is its color and its type; no piece has neither.
LEMMA PieceFacts ==
    /\ \A pc \in Pieces : /\ Type(pc) \in PieceTypes /\ Color(pc) \in Colors
                          /\ pc = MakePiece(Color(pc), Type(pc)) /\ pc # NoPiece
    /\ \A c \in Colors, pt \in PieceTypes :
         MakePiece(c, pt) \in Pieces /\ Color(MakePiece(c, pt)) = c /\ Type(MakePiece(c, pt)) = pt
    /\ Type(NoPiece) \notin PieceTypes /\ Color(NoPiece) \notin Colors
  BY DEF Pieces, PieceTypes, Colors, White, Black, Type, Color, MakePiece, NoPiece

\* What Setting changes, and what it leaves.
LEMMA SettingFacts ==
    ASSUME NEW p, IsPosition(p), NEW b, NEW k
    PROVE  /\ IsPosition(Setting(p, b, k))
           /\ Setting(p, b, k).board = b /\ Setting(p, b, k).key = k
           /\ Setting(p, b, k).byType = TypesOf(b) /\ Setting(p, b, k).byColor = ColorsOf(b)
           /\ \A f \in Fields \ {"board", "byType", "byColor", "key"} : Setting(p, b, k)[f] = p[f]
           /\ \A c, j : Setting(Setting(p, b, k), c, j) = Setting(p, c, j)
  BY DEF IsPosition, Setting, Fields

\* A position whose representations are all of one mailbox is consistent.
LEMMA SettingConsistent ==
    ASSUME NEW p, IsPosition(p), NEW b \in Boards, NEW k
    PROVE  Consistent(Setting(p, b, k))
  BY SettingFacts DEF Consistent

\* A consistent position is set to its own pieces.
LEMMA SettingItself ==
    ASSUME NEW p, Consistent(p)
    PROVE  Setting(p, p.board, p.key) = p
<1>1. IsPosition(p) /\ IsPosition(Setting(p, p.board, p.key))
  BY SettingFacts DEF Consistent
<1>2. \A f \in Fields : Setting(p, p.board, p.key)[f] = p[f]
  BY <1>1, SettingFacts DEF Consistent
<1>. QED BY <1>1, <1>2 DEF IsPosition

\* Changing one square of the mailbox changes that square in each bitboard.
LEMMA SquareChanged ==
    ASSUME NEW b \in Boards, NEW s \in Squares, NEW x \in Pieces \cup {NoPiece}
    PROVE  /\ [b EXCEPT ![s] = x] \in Boards
           /\ TypesOf([b EXCEPT ![s] = x]) =
                [pt \in PieceTypes |-> IF Type(x) = pt THEN TypesOf(b)[pt] \cup {s}
                                                      ELSE TypesOf(b)[pt] \ {s}]
           /\ ColorsOf([b EXCEPT ![s] = x]) =
                [c \in Colors |-> IF Color(x) = c THEN ColorsOf(b)[c] \cup {s}
                                                  ELSE ColorsOf(b)[c] \ {s}]
<1>. DEFINE d == [b EXCEPT ![s] = x]
<1>1. d \in Boards /\ d[s] = x /\ \A t \in Squares \ {s} : d[t] = b[t]
  BY DEF Boards
<1>. HIDE DEF d
<1>2. ASSUME NEW pt \in PieceTypes
      PROVE  TypesOf(d)[pt] = IF Type(x) = pt THEN TypesOf(b)[pt] \cup {s} ELSE TypesOf(b)[pt] \ {s}
  BY <1>1 DEF TypesOf
<1>3. ASSUME NEW c \in Colors
      PROVE  ColorsOf(d)[c] = IF Color(x) = c THEN ColorsOf(b)[c] \cup {s} ELSE ColorsOf(b)[c] \ {s}
  BY <1>1 DEF ColorsOf
<1>4. TypesOf(d) = [pt \in PieceTypes |-> TypesOf(d)[pt]] /\ ColorsOf(d) = [c \in Colors |-> ColorsOf(d)[c]]
  BY DEF TypesOf, ColorsOf
<1>5. TypesOf(d) = [pt \in PieceTypes |-> IF Type(x) = pt THEN TypesOf(b)[pt] \cup {s}
                                                         ELSE TypesOf(b)[pt] \ {s}]
  BY <1>2, <1>4
<1>6. ColorsOf(d) = [c \in Colors |-> IF Color(x) = c THEN ColorsOf(b)[c] \cup {s}
                                                     ELSE ColorsOf(b)[c] \ {s}]
  BY <1>3, <1>4
<1>. QED BY <1>1, <1>5, <1>6 DEF d

\* PutPiece on an empty square changes mailbox, bitboards and key alike.
LEMMA PiecePut ==
    ASSUME NEW p, Consistent(p), NEW s \in Squares, NEW pc \in Pieces, p.board[s] = NoPiece
    PROVE  /\ [p.board EXCEPT ![s] = pc] \in Boards
           /\ PutPiece(p, pc, s) = Setting(p, [p.board EXCEPT ![s] = pc], SymDiff(p.key, ZPiece(pc, s)))
<1>. DEFINE b == p.board
            d == [p.board EXCEPT ![s] = pc]
<1>1. b \in Boards /\ p.byType = TypesOf(b) /\ p.byColor = ColorsOf(b)
  BY DEF Consistent
<1>2. /\ d \in Boards
      /\ TypesOf(d) = [pt \in PieceTypes |-> IF Type(pc) = pt THEN TypesOf(b)[pt] \cup {s}
                                                             ELSE TypesOf(b)[pt] \ {s}]
      /\ ColorsOf(d) = [c \in Colors |-> IF Color(pc) = c THEN ColorsOf(b)[c] \cup {s}
                                                         ELSE ColorsOf(b)[c] \ {s}]
  BY <1>1, SquareChanged
<1>3. /\ \A pt \in PieceTypes : TypesOf(b)[pt] \ {s} = TypesOf(b)[pt]
      /\ \A c \in Colors : ColorsOf(b)[c] \ {s} = ColorsOf(b)[c]
  BY PieceFacts DEF TypesOf, ColorsOf
<1>4. TypesOf(d) = [TypesOf(b) EXCEPT ![Type(pc)] = @ \cup {s}]
  BY <1>2, <1>3, PieceFacts DEF TypesOf
<1>5. ColorsOf(d) = [ColorsOf(b) EXCEPT ![Color(pc)] = @ \cup {s}]
  BY <1>2, <1>3, PieceFacts DEF ColorsOf
<1>. HIDE DEF b, d
<1>6. PutPiece(p, pc, s) = [p EXCEPT !.board = [p.board EXCEPT ![s] = pc],
                                     !.byType = [p.byType EXCEPT ![Type(pc)] = @ \cup {s}],
                                     !.byColor = [p.byColor EXCEPT ![Color(pc)] = @ \cup {s}],
                                     !.key = SymDiff(p.key, ZPiece(pc, s))]
  BY DEF PutPiece
<1>. QED BY <1>1, <1>2, <1>4, <1>5, <1>6 DEF Setting, b, d

\* So does RemovePiece.
LEMMA PieceRemoved ==
    ASSUME NEW p, Consistent(p), NEW s \in Squares, p.board[s] # NoPiece
    PROVE  /\ [p.board EXCEPT ![s] = NoPiece] \in Boards
           /\ RemovePiece(p, s) = Setting(p, [p.board EXCEPT ![s] = NoPiece],
                                          SymDiff(p.key, ZPiece(p.board[s], s)))
<1>. DEFINE b == p.board
            pc == p.board[s]
            d == [p.board EXCEPT ![s] = NoPiece]
<1>1. b \in Boards /\ p.byType = TypesOf(b) /\ p.byColor = ColorsOf(b) /\ pc \in Pieces
  BY DEF Consistent, Boards
<1>2. /\ d \in Boards
      /\ TypesOf(d) = [pt \in PieceTypes |-> TypesOf(b)[pt] \ {s}]
      /\ ColorsOf(d) = [c \in Colors |-> ColorsOf(b)[c] \ {s}]
  <2>1. \A pt \in PieceTypes : Type(NoPiece) # pt
    BY PieceFacts
  <2>2. \A c \in Colors : Color(NoPiece) # c
    BY PieceFacts
  <2>3. /\ d \in Boards
        /\ TypesOf(d) = [pt \in PieceTypes |-> IF Type(NoPiece) = pt THEN TypesOf(b)[pt] \cup {s}
                                                                  ELSE TypesOf(b)[pt] \ {s}]
        /\ ColorsOf(d) = [c \in Colors |-> IF Color(NoPiece) = c THEN ColorsOf(b)[c] \cup {s}
                                                               ELSE ColorsOf(b)[c] \ {s}]
    <3>1. NoPiece \in Pieces \cup {NoPiece} /\ d = [b EXCEPT ![s] = NoPiece]
      OBVIOUS
    <3>. HIDE DEF b, d
    <3>. QED BY <1>1, <3>1, SquareChanged
  <2>. HIDE DEF b, d
  <2>4. TypesOf(d) = [pt \in PieceTypes |-> TypesOf(b)[pt] \ {s}]
    BY <2>1, <2>3
  <2>5. ColorsOf(d) = [c \in Colors |-> ColorsOf(b)[c] \ {s}]
    BY <2>2, <2>3
  <2>. QED BY <2>3, <2>4, <2>5
<1>3. /\ \A pt \in PieceTypes : pt # Type(pc) => TypesOf(b)[pt] \ {s} = TypesOf(b)[pt]
      /\ \A c \in Colors : c # Color(pc) => ColorsOf(b)[c] \ {s} = ColorsOf(b)[c]
  BY <1>1, PieceFacts DEF TypesOf, ColorsOf
<1>4. TypesOf(d) = [TypesOf(b) EXCEPT ![Type(pc)] = @ \ {s}]
  BY <1>2, <1>3, <1>1, PieceFacts DEF TypesOf
<1>5. ColorsOf(d) = [ColorsOf(b) EXCEPT ![Color(pc)] = @ \ {s}]
  BY <1>2, <1>3, <1>1, PieceFacts DEF ColorsOf
<1>. HIDE DEF b, d, pc
<1>6. RemovePiece(p, s) = [p EXCEPT !.board = [p.board EXCEPT ![s] = NoPiece],
                                    !.byType = [p.byType EXCEPT ![Type(pc)] = @ \ {s}],
                                    !.byColor = [p.byColor EXCEPT ![Color(pc)] = @ \ {s}],
                                    !.key = SymDiff(p.key, ZPiece(pc, s))]
  BY DEF RemovePiece, pc
<1>7. RemovePiece(p, s) = Setting(p, d, SymDiff(p.key, ZPiece(pc, s)))
  BY <1>1, <1>4, <1>5, <1>6 DEF Setting, b, d
<1>8. d \in Boards
  BY <1>2
<1>. QED BY <1>7, <1>8 DEF d, pc

\* So does MovePiece to an empty square, although it flips bits.
LEMMA PieceMoved ==
    ASSUME NEW p, Consistent(p), NEW from \in Squares, NEW to \in Squares, from # to,
           p.board[from] # NoPiece, p.board[to] = NoPiece
    PROVE  /\ [p.board EXCEPT ![from] = NoPiece, ![to] = p.board[from]] \in Boards
           /\ MovePiece(p, from, to) =
                Setting(p, [p.board EXCEPT ![from] = NoPiece, ![to] = p.board[from]],
                        SymDiff(p.key, SymDiff(ZPiece(p.board[from], from), ZPiece(p.board[from], to))))
<1>. DEFINE b == p.board
            pc == p.board[from]
            d == [p.board EXCEPT ![from] = NoPiece, ![to] = pc]
<1>1. b \in Boards /\ p.byType = TypesOf(b) /\ p.byColor = ColorsOf(b) /\ pc \in Pieces
  BY DEF Consistent, Boards
<1>2. /\ d \in Boards /\ d[from] = NoPiece /\ d[to] = pc /\ b[to] = NoPiece /\ b[from] = pc
      /\ \A s \in Squares \ {from, to} : d[s] = b[s]
  BY <1>1 DEF Boards
<1>. HIDE DEF b, d, pc
<1>3. ASSUME NEW pt \in PieceTypes
      PROVE  TypesOf(d)[pt] = IF pt = Type(pc) THEN SymDiff(TypesOf(b)[pt], {from, to}) ELSE TypesOf(b)[pt]
  BY <1>1, <1>2, PieceFacts DEF TypesOf, SymDiff
<1>4. ASSUME NEW c \in Colors
      PROVE  ColorsOf(d)[c] = IF c = Color(pc) THEN SymDiff(ColorsOf(b)[c], {from, to}) ELSE ColorsOf(b)[c]
  BY <1>1, <1>2, PieceFacts DEF ColorsOf, SymDiff
<1>5. TypesOf(d) = [TypesOf(b) EXCEPT ![Type(pc)] = SymDiff(@, {from, to})]
  BY <1>3, <1>1, PieceFacts DEF TypesOf
<1>6. ColorsOf(d) = [ColorsOf(b) EXCEPT ![Color(pc)] = SymDiff(@, {from, to})]
  BY <1>4, <1>1, PieceFacts DEF ColorsOf
<1>7. MovePiece(p, from, to) =
        [p EXCEPT !.board = [p.board EXCEPT ![from] = NoPiece, ![to] = pc],
                  !.byType = [p.byType EXCEPT ![Type(pc)] = SymDiff(@, {from, to})],
                  !.byColor = [p.byColor EXCEPT ![Color(pc)] = SymDiff(@, {from, to})],
                  !.key = SymDiff(p.key, SymDiff(ZPiece(pc, from), ZPiece(pc, to)))]
  BY DEF MovePiece, pc
<1>. QED BY <1>1, <1>2, <1>5, <1>6, <1>7 DEF Setting, b, d, pc

\* The values of the pieces in a key, and what may stand beside them.
PieceKey(b) == UNION {ZPiece(b[s], s) : s \in {t \in Squares : b[t] # NoPiece}}
NoPieces(R) == \A x \in R : x[1] # "piece"

\* q is p with the pieces b; its key has changed by the pieces alone.
Becomes(p, q, b) ==
    /\ b \in Boards
    /\ q = Setting(p, b, q.key)
    /\ \A R : NoPieces(R) /\ p.key = PieceKey(p.board) \cup R => q.key = PieceKey(b) \cup R

\* Changes of the pieces follow one another.
LEMMA BecomesFacts ==
    ASSUME NEW p, IsPosition(p), NEW q, NEW b, Becomes(p, q, b)
    PROVE  /\ Consistent(q) /\ q.board = b
           /\ \A f \in Fields \ {"board", "byType", "byColor", "key"} : q[f] = p[f]
           /\ \A r, c : Becomes(q, r, c) => Becomes(p, r, c)
<1>1. b \in Boards /\ q = Setting(p, b, q.key)
  BY DEF Becomes
<1>2. Consistent(q) /\ q.board = b
  BY <1>1, SettingConsistent, SettingFacts
<1>3. \A f \in Fields \ {"board", "byType", "byColor", "key"} : q[f] = p[f]
  BY <1>1, SettingFacts
<1>4. ASSUME NEW r, NEW c, Becomes(q, r, c) PROVE Becomes(p, r, c)
  <2>1. r = Setting(q, c, r.key) /\ c \in Boards
    BY <1>4 DEF Becomes
  <2>2. r = Setting(p, c, r.key)
    BY <1>1, <2>1, SettingFacts
  <2>. QED BY <1>2, <1>4, <2>1, <2>2 DEF Becomes
<1>. QED BY <1>2, <1>3, <1>4

\* What one square contributes to the key.
LEMMA PieceKeyChanged ==
    ASSUME NEW b \in Boards, NEW s \in Squares, NEW x \in Pieces \cup {NoPiece}
    PROVE  PieceKey([b EXCEPT ![s] = x]) =
             (PieceKey(b) \ ZPiece(b[s], s)) \cup (IF x = NoPiece THEN {} ELSE ZPiece(x, s))
<1>. DEFINE d == [b EXCEPT ![s] = x]
<1>1. d[s] = x /\ \A t \in Squares \ {s} : d[t] = b[t]
  BY DEF Boards
<1>2. \A c, z : z \in PieceKey(c) <=> \E t \in Squares : c[t] # NoPiece /\ z = <<"piece", c[t], t>>
  BY DEF PieceKey, ZPiece
<1>3. \A y, t : ZPiece(y, t) = {<<"piece", y, t>>}
  BY DEF ZPiece
<1>. HIDE DEF d
<1>4. ASSUME NEW z
      PROVE  z \in PieceKey(d) <=>
               z \in (PieceKey(b) \ ZPiece(b[s], s)) \cup (IF x = NoPiece THEN {} ELSE ZPiece(x, s))
  <2>1. CASE \E y : \E t \in Squares \ {s} : z = <<"piece", y, t>>
    BY <1>1, <1>2, <1>3, <2>1
  <2>2. CASE ~\E y : \E t \in Squares \ {s} : z = <<"piece", y, t>>
    BY <1>1, <1>2, <1>3, <2>2
  <2>. QED BY <2>1, <2>2
<1>. QED BY <1>4 DEF d

\* The three primitives change the key by the pieces they change: PutPiece,
LEMMA PutBecomes ==
    ASSUME NEW p, Consistent(p), NEW s \in Squares, NEW pc \in Pieces, p.board[s] = NoPiece
    PROVE  Becomes(p, PutPiece(p, pc, s), [p.board EXCEPT ![s] = pc])
<1>. DEFINE q == PutPiece(p, pc, s)
            d == [p.board EXCEPT ![s] = pc]
<1>1. d \in Boards /\ q = Setting(p, d, SymDiff(p.key, ZPiece(pc, s)))
  BY PiecePut
<1>2. q.key = SymDiff(p.key, ZPiece(pc, s))
  BY <1>1, SettingFacts DEF Consistent
<1>3. ASSUME NEW R, NoPieces(R), p.key = PieceKey(p.board) \cup R
      PROVE  q.key = PieceKey(d) \cup R
  <2>1. PieceKey(d) = (PieceKey(p.board) \ ZPiece(p.board[s], s)) \cup ZPiece(pc, s)
    BY PieceKeyChanged, PieceFacts DEF Consistent
  <2>2. ZPiece(p.board[s], s) \cap PieceKey(p.board) = {} /\ ZPiece(pc, s) \cap PieceKey(p.board) = {}
    BY DEF ZPiece, PieceKey
  <2>3. ZPiece(pc, s) \cap R = {}
    BY <1>3 DEF NoPieces, ZPiece
  <2>. HIDE DEF q, d
  <2>. QED BY <1>2, <1>3, <2>1, <2>2, <2>3 DEF SymDiff
<1>. HIDE DEF q, d
<1>. QED BY <1>1, <1>2, <1>3 DEF Becomes, q, d

\* RemovePiece,
LEMMA RemoveBecomes ==
    ASSUME NEW p, Consistent(p), NEW s \in Squares, p.board[s] # NoPiece
    PROVE  Becomes(p, RemovePiece(p, s), [p.board EXCEPT ![s] = NoPiece])
<1>. DEFINE q == RemovePiece(p, s)
            d == [p.board EXCEPT ![s] = NoPiece]
<1>1. d \in Boards /\ q = Setting(p, d, SymDiff(p.key, ZPiece(p.board[s], s)))
  BY PieceRemoved
<1>2. q.key = SymDiff(p.key, ZPiece(p.board[s], s))
  BY <1>1, SettingFacts DEF Consistent
<1>3. ASSUME NEW R, NoPieces(R), p.key = PieceKey(p.board) \cup R
      PROVE  q.key = PieceKey(d) \cup R
  <2>1. PieceKey(d) = PieceKey(p.board) \ ZPiece(p.board[s], s)
    BY PieceKeyChanged DEF Consistent
  <2>2. ZPiece(p.board[s], s) \subseteq PieceKey(p.board)
    BY DEF ZPiece, PieceKey
  <2>3. ZPiece(p.board[s], s) \cap R = {}
    BY <1>3 DEF NoPieces, ZPiece
  <2>. HIDE DEF q, d
  <2>. QED BY <1>2, <1>3, <2>1, <2>2, <2>3 DEF SymDiff
<1>. HIDE DEF q, d
<1>. QED BY <1>1, <1>2, <1>3 DEF Becomes, q, d

\* and MovePiece.
LEMMA MoveBecomes ==
    ASSUME NEW p, Consistent(p), NEW from \in Squares, NEW to \in Squares, from # to,
           p.board[from] # NoPiece, p.board[to] = NoPiece
    PROVE  Becomes(p, MovePiece(p, from, to),
                   [p.board EXCEPT ![from] = NoPiece, ![to] = p.board[from]])
<1>. DEFINE q == MovePiece(p, from, to)
            pc == p.board[from]
            c == [p.board EXCEPT ![from] = NoPiece]
            d == [c EXCEPT ![to] = pc]
            z == SymDiff(ZPiece(pc, from), ZPiece(pc, to))
<1>1. d \in Boards /\ q = Setting(p, d, SymDiff(p.key, z))
  BY PieceMoved
<1>2. q.key = SymDiff(p.key, z)
  BY <1>1, SettingFacts DEF Consistent
<1>3. ASSUME NEW R, NoPieces(R), p.key = PieceKey(p.board) \cup R
      PROVE  q.key = PieceKey(d) \cup R
  <2>1. pc \in Pieces /\ c \in Boards /\ c[to] = NoPiece
    BY DEF Consistent, Boards
  <2>2. PieceKey(c) = PieceKey(p.board) \ ZPiece(pc, from)
    BY PieceKeyChanged DEF Consistent
  <2>3. PieceKey(d) = (PieceKey(c) \ ZPiece(NoPiece, to)) \cup ZPiece(pc, to)
    <3>. HIDE DEF c, pc
    <3>. QED BY <2>1, PieceKeyChanged, PieceFacts
  <2>4. /\ ZPiece(pc, from) \subseteq PieceKey(p.board)
        /\ ZPiece(pc, to) \cap PieceKey(p.board) = {} /\ ZPiece(NoPiece, to) \cap PieceKey(p.board) = {}
        /\ ZPiece(pc, from) \cap ZPiece(pc, to) = {}
    BY DEF ZPiece, PieceKey
  <2>5. ZPiece(pc, from) \cap R = {} /\ ZPiece(pc, to) \cap R = {}
    BY <1>3 DEF NoPieces, ZPiece
  <2>. HIDE DEF q, c, d, pc
  <2>. QED BY <1>2, <1>3, <2>2, <2>3, <2>4, <2>5 DEF SymDiff
<1>. HIDE DEF q, z
<1>. QED BY <1>1, <1>2, <1>3 DEF Becomes, q

-----------------------------------------------------------------------------
(***************************************************************************)
(* Moves.                                                                  *)
(***************************************************************************)
PromotionTypes == {"queen", "rook", "bishop", "knight"}

\* A move of color us that fits the pieces b: what the generator's moves have in common.
Playable(b, us, m) ==
    /\ m.kind \in {"normal", "promotion", "enPassant", "castling"}
    /\ m.from \in Squares /\ m.to \in Squares /\ m.from # m.to
    /\ b[m.from] \in Pieces /\ Color(b[m.from]) = us
    /\ m.kind = "normal" /\ Type(b[m.from]) = "pawn" /\ Abs(m.to - m.from) = 16 =>
         m.to = m.from + 2 * PawnPush(us)
    /\ m.kind = "promotion" =>
         b[m.from] = MakePiece(us, "pawn") /\ m.promotion \in PromotionTypes
    /\ m.kind = "enPassant" =>
         /\ b[m.from] = MakePiece(us, "pawn") /\ b[m.to] = NoPiece
         /\ m.to - PawnPush(us) \in Squares
         /\ b[m.to - PawnPush(us)] = MakePiece(Opposite(us), "pawn")
    /\ m.kind = "castling" =>
         /\ b[m.from] = MakePiece(us, "king") /\ b[m.to] = MakePiece(us, "rook")
         /\ \A s \in {CastlingKingTo(CastlingRight(us, m)), CastlingRookTo(CastlingRight(us, m))} :
              s \in {m.from, m.to} \/ b[s] = NoPiece

\* The pieces after m.
BoardAfter(b, us, m) ==
    LET r == CastlingRight(us, m)
    IN  CASE m.kind = "castling" ->
               [b EXCEPT ![m.from] = NoPiece, ![m.to] = NoPiece,
                         ![CastlingKingTo(r)] = MakePiece(us, "king"),
                         ![CastlingRookTo(r)] = MakePiece(us, "rook")]
          [] m.kind = "enPassant" ->
               [b EXCEPT ![m.to - PawnPush(us)] = NoPiece, ![m.from] = NoPiece, ![m.to] = b[m.from]]
          [] m.kind = "promotion" ->
               [b EXCEPT ![m.from] = NoPiece, ![m.to] = MakePiece(us, m.promotion)]
          [] OTHER -> [b EXCEPT ![m.from] = NoPiece, ![m.to] = b[m.from]]

\* Castling puts king and rook on two different squares.
LEMMA CastlingSquares ==
    ASSUME NEW us \in Colors, NEW m
    PROVE  LET r == CastlingRight(us, m)
           IN  /\ CastlingKingTo(r) \in Squares /\ CastlingRookTo(r) \in Squares
               /\ CastlingKingTo(r) # CastlingRookTo(r)
  BY DEF CastlingRight, CastlingKingTo, CastlingRookTo, MakeSquare, HomeRank, Squares, Colors, White, Black

\* The men a move can make, and the two colors.
LEMMA ManTypes ==
    ASSUME NEW us \in Colors
    PROVE  /\ \A pt \in {"pawn", "king"} \cup PromotionTypes : MakePiece(us, pt) \in Pieces
           /\ NoPiece \notin Pieces
           /\ Opposite(us) \in Colors /\ Opposite(us) # us /\ Opposite(Opposite(us)) = us
  BY DEF PromotionTypes, MakePiece, Pieces, PieceTypes, NoPiece, Opposite, Colors, White, Black

\* Relocated gives the pieces after the move, whatever its kind.
LEMMA Relocates ==
    ASSUME NEW p, Consistent(p), NEW m, p.side \in Colors, Playable(p.board, p.side, m)
    PROVE  Becomes(p, Relocated(p, m), BoardAfter(p.board, p.side, m))
<1>. DEFINE us == p.side
            b == p.board
            from == m.from
            to == m.to
            result == BoardAfter(b, us, m)
<1>1. /\ from \in Squares /\ to \in Squares /\ from # to /\ b \in Boards /\ b[from] \in Pieces
      /\ b[from] # NoPiece /\ IsPosition(p) /\ us \in Colors
  BY ManTypes DEF Playable, Consistent
<1>2. CASE m.kind = "castling"
  <2>. DEFINE kingTo == CastlingKingTo(CastlingRight(us, m))
              rookTo == CastlingRookTo(CastlingRight(us, m))
              K == MakePiece(us, "king")
              R == MakePiece(us, "rook")
              p1 == RemovePiece(p, from)
              b1 == [b EXCEPT ![from] = NoPiece]
              p2 == RemovePiece(p1, to)
              b2 == [b1 EXCEPT ![to] = NoPiece]
              p3 == PutPiece(p2, K, kingTo)
              b3 == [b2 EXCEPT ![kingTo] = K]
              p4 == PutPiece(p3, R, rookTo)
              b4 == [b3 EXCEPT ![rookTo] = R]
  <2>1. /\ b[to] = R /\ K \in Pieces /\ R \in Pieces /\ R # NoPiece
        /\ kingTo \in Squares /\ rookTo \in Squares /\ kingTo # rookTo
        /\ \A s \in {kingTo, rookTo} : s \in {from, to} \/ b[s] = NoPiece
    BY <1>1, <1>2, ManTypes, CastlingSquares DEF Playable, PromotionTypes
  <2>2. Relocated(p, m) = p4 /\ result = b4
    BY <1>2 DEF Relocated, BoardAfter
  <2>. HIDE DEF kingTo, rookTo, K, R
  <2>3. b1[to] # NoPiece /\ b2[kingTo] = NoPiece /\ b3[rookTo] = NoPiece
    BY <1>1, <2>1 DEF Boards
  <2>4. Becomes(p, p1, b1)
    BY <1>1, RemoveBecomes
  <2>5. Consistent(p1) /\ p1.board = b1 /\ IsPosition(p1)
    BY <1>1, <2>4, BecomesFacts DEF Consistent
  <2>6. Becomes(p1, p2, b2)
    <3>. HIDE DEF b1, p1
    <3>. QED BY <1>1, <2>3, <2>5, RemoveBecomes
  <2>7. Consistent(p2) /\ p2.board = b2 /\ IsPosition(p2)
    BY <2>5, <2>6, BecomesFacts DEF Consistent
  <2>8. Becomes(p2, p3, b3)
    <3>. HIDE DEF b2, p2
    <3>. QED BY <2>1, <2>3, <2>7, PutBecomes
  <2>9. Consistent(p3) /\ p3.board = b3 /\ IsPosition(p3)
    BY <2>7, <2>8, BecomesFacts DEF Consistent
  <2>10. Becomes(p3, p4, b4)
    <3>. HIDE DEF b3, p3
    <3>. QED BY <2>1, <2>3, <2>9, PutBecomes
  <2>. HIDE DEF p1, p2, p3, p4, b1, b2, b3, b4, result
  <2>11. Becomes(p, p4, b4)
    BY <1>1, <2>4, <2>5, <2>6, <2>7, <2>8, <2>10, BecomesFacts
  <2>. QED BY <2>2, <2>11 DEF result
<1>3. CASE m.kind = "enPassant"
  <2>. DEFINE cap == to - PawnPush(us)
              p1 == RemovePiece(p, cap)
              b1 == [b EXCEPT ![cap] = NoPiece]
              p2 == MovePiece(p1, from, to)
              b2 == [b1 EXCEPT ![from] = NoPiece, ![to] = b1[from]]
  <2>1. cap \in Squares /\ b[cap] # NoPiece /\ b[to] = NoPiece /\ cap # from
    <3>1. cap \in Squares /\ b[cap] = MakePiece(Opposite(us), "pawn") /\ b[to] = NoPiece
      BY <1>3 DEF Playable
    <3>2. Opposite(us) \in Colors /\ Opposite(us) # us /\ "pawn" \in PieceTypes
      BY <1>1, ManTypes DEF PieceTypes
    <3>3. Color(b[cap]) = Opposite(us) /\ b[cap] \in Pieces
      BY <3>1, <3>2, PieceFacts
    <3>4. Color(b[from]) = us
      BY DEF Playable
    <3>. HIDE DEF cap
    <3>. QED BY <3>1, <3>2, <3>3, <3>4, PieceFacts
  <2>2. Relocated(p, m) = p2
    BY <1>3 DEF Relocated
  <2>. HIDE DEF cap
  <2>3. b1[to] = NoPiece /\ b1[from] = b[from]
    BY <1>1, <2>1 DEF Boards
  <2>4. result = b2
    BY <1>3, <2>3 DEF BoardAfter, cap
  <2>5. Becomes(p, p1, b1)
    BY <1>1, <2>1, RemoveBecomes
  <2>6. Consistent(p1) /\ p1.board = b1 /\ IsPosition(p1)
    BY <1>1, <2>5, BecomesFacts DEF Consistent
  <2>7. Becomes(p1, p2, b2)
    <3>. HIDE DEF b1, p1
    <3>. QED BY <1>1, <2>3, <2>6, MoveBecomes
  <2>. HIDE DEF p1, p2, b1, b2, result
  <2>. QED BY <1>1, <2>2, <2>4, <2>5, <2>7, BecomesFacts DEF result
<1>. DEFINE p1 == Cleared(p, to)
            b1 == [b EXCEPT ![to] = NoPiece]
<1>4. Consistent(p1) /\ p1.board = b1 /\ IsPosition(p1) /\ \A r, c : Becomes(p1, r, c) => Becomes(p, r, c)
  <2>1. CASE b[to] = NoPiece
    BY <1>1, <2>1 DEF Cleared, Consistent, Boards
  <2>2. CASE b[to] # NoPiece
    <3>1. p1 = RemovePiece(p, to)
      BY <2>2 DEF Cleared
    <3>2. Becomes(p, p1, b1)
      BY <1>1, <2>2, <3>1, RemoveBecomes
    <3>. HIDE DEF p1, b1
    <3>. QED BY <1>1, <3>2, BecomesFacts DEF Consistent
  <2>. QED BY <2>1, <2>2
<1>5. b1[from] = b[from] /\ b1[to] = NoPiece /\ b1 \in Boards
  BY <1>1 DEF Boards
<1>6. CASE m.kind = "promotion"
  <2>. DEFINE p2 == RemovePiece(p1, from)
              b2 == [b1 EXCEPT ![from] = NoPiece]
              p3 == PutPiece(p2, MakePiece(us, m.promotion), to)
              b3 == [b2 EXCEPT ![to] = MakePiece(us, m.promotion)]
  <2>1. MakePiece(us, m.promotion) \in Pieces
    BY <1>1, <1>6, ManTypes DEF Playable
  <2>2. Relocated(p, m) = p3 /\ result = b3
    BY <1>1, <1>6 DEF Relocated, BoardAfter, Boards
  <2>3. b2[to] = NoPiece
    BY <1>1 DEF Boards
  <2>4. Becomes(p1, p2, b2)
    <3>. HIDE DEF p1, b1
    <3>. QED BY <1>1, <1>4, <1>5, RemoveBecomes
  <2>5. Consistent(p2) /\ p2.board = b2 /\ IsPosition(p2)
    <3>. HIDE DEF p1, b1
    <3>. QED BY <1>4, <2>4, BecomesFacts DEF Consistent
  <2>6. Becomes(p2, p3, b3)
    <3>. HIDE DEF p2, b2
    <3>. QED BY <1>1, <2>1, <2>3, <2>5, PutBecomes
  <2>. HIDE DEF p1, p2, p3, b1, b2, b3, result
  <2>. QED BY <1>4, <2>2, <2>4, <2>6, BecomesFacts DEF result
<1>7. CASE m.kind = "normal"
  <2>. DEFINE p2 == MovePiece(p1, from, to)
              b2 == [b1 EXCEPT ![from] = NoPiece, ![to] = b1[from]]
  <2>1. Relocated(p, m) = p2 /\ result = b2
    BY <1>1, <1>5, <1>7 DEF Relocated, BoardAfter, Boards
  <2>2. Becomes(p1, p2, b2)
    <3>. HIDE DEF p1, b1
    <3>. QED BY <1>1, <1>4, <1>5, MoveBecomes
  <2>. HIDE DEF p1, p2, b1, b2, result
  <2>. QED BY <1>4, <2>1, <2>2 DEF result
<1>. QED BY <1>2, <1>3, <1>6, <1>7 DEF Playable

\* PutBack gives the pieces before the move, from the record of what was captured.
LEMMA PutsBack ==
    ASSUME NEW q, Consistent(q), q.side \in Colors, NEW m, NEW b \in Boards,
           Playable(b, q.side, m), q.board = BoardAfter(b, q.side, m),
           NEW u, u.move = m, m.kind \in {"normal", "promotion"} => u.captured = b[m.to]
    PROVE  Becomes(q, PutBack(q, u), b)
<1>. DEFINE us == q.side
            from == m.from
            to == m.to
            d == q.board
<1>1. /\ from \in Squares /\ to \in Squares /\ from # to /\ b \in Boards /\ b[from] \in Pieces
      /\ b[from] # NoPiece /\ IsPosition(q) /\ us \in Colors /\ d \in Boards
  BY ManTypes DEF Playable, Consistent
<1>2. CASE m.kind = "castling"
  <2>. DEFINE kingTo == CastlingKingTo(CastlingRight(us, m))
              rookTo == CastlingRookTo(CastlingRight(us, m))
              K == MakePiece(us, "king")
              R == MakePiece(us, "rook")
              p1 == RemovePiece(q, kingTo)
              b1 == [d EXCEPT ![kingTo] = NoPiece]
              p2 == RemovePiece(p1, rookTo)
              b2 == [b1 EXCEPT ![rookTo] = NoPiece]
              p3 == PutPiece(p2, K, from)
              b3 == [b2 EXCEPT ![from] = K]
              p4 == PutPiece(p3, R, to)
              b4 == [b3 EXCEPT ![to] = R]
  <2>1. /\ b[from] = K /\ b[to] = R /\ K \in Pieces /\ R \in Pieces /\ R # NoPiece /\ K # NoPiece
        /\ kingTo \in Squares /\ rookTo \in Squares /\ kingTo # rookTo
        /\ \A s \in {kingTo, rookTo} : s \in {from, to} \/ b[s] = NoPiece
    BY <1>1, <1>2, ManTypes, CastlingSquares DEF Playable, PromotionTypes
  <2>2. PutBack(q, u) = p4
    BY <1>2 DEF PutBack
  <2>3. d = [b EXCEPT ![from] = NoPiece, ![to] = NoPiece, ![kingTo] = K, ![rookTo] = R]
    BY <1>2 DEF BoardAfter
  <2>. HIDE DEF kingTo, rookTo, K, R, d
  <2>4. d[kingTo] # NoPiece /\ b1[rookTo] # NoPiece /\ b2[from] = NoPiece /\ b3[to] = NoPiece
    BY <1>1, <2>1, <2>3 DEF Boards
  <2>5. b4 = b
    <3>1. b = [s \in Squares |-> b[s]] /\ b4 = [s \in Squares |-> b4[s]]
      BY <1>1 DEF Boards
    <3>2. ASSUME NEW s \in Squares PROVE b4[s] = b[s]
      BY <1>1, <2>1, <2>3, <3>2 DEF Boards
    <3>. HIDE DEF b4
    <3>. QED BY <3>1, <3>2
  <2>6. Becomes(q, p1, b1)
    BY <2>1, <2>4, RemoveBecomes DEF d
  <2>7. Consistent(p1) /\ p1.board = b1 /\ IsPosition(p1)
    BY <1>1, <2>6, BecomesFacts DEF Consistent
  <2>8. Becomes(p1, p2, b2)
    <3>. HIDE DEF b1, p1
    <3>. QED BY <2>1, <2>4, <2>7, RemoveBecomes
  <2>9. Consistent(p2) /\ p2.board = b2 /\ IsPosition(p2)
    BY <2>7, <2>8, BecomesFacts DEF Consistent
  <2>10. Becomes(p2, p3, b3)
    <3>. HIDE DEF b2, p2
    <3>. QED BY <1>1, <2>1, <2>4, <2>9, PutBecomes
  <2>11. Consistent(p3) /\ p3.board = b3 /\ IsPosition(p3)
    BY <2>9, <2>10, BecomesFacts DEF Consistent
  <2>12. Becomes(p3, p4, b4)
    <3>. HIDE DEF b3, p3
    <3>. QED BY <1>1, <2>1, <2>4, <2>11, PutBecomes
  <2>. HIDE DEF p1, p2, p3, p4, b1, b2, b3, b4
  <2>13. Becomes(q, p4, b4)
    BY <1>1, <2>6, <2>7, <2>8, <2>9, <2>10, <2>12, BecomesFacts
  <2>. QED BY <2>2, <2>5, <2>13
<1>3. CASE m.kind = "enPassant"
  <2>. DEFINE cap == to - PawnPush(us)
              pawn == MakePiece(Opposite(us), "pawn")
              p1 == MovePiece(q, to, from)
              b1 == [d EXCEPT ![to] = NoPiece, ![from] = d[to]]
              p2 == PutPiece(p1, pawn, cap)
              b2 == [b1 EXCEPT ![cap] = pawn]
  <2>1. /\ cap \in Squares /\ b[cap] = pawn /\ b[to] = NoPiece /\ pawn \in Pieces
        /\ pawn # NoPiece /\ cap # from
    <3>1. cap \in Squares /\ b[cap] = pawn /\ b[to] = NoPiece
      BY <1>3 DEF Playable
    <3>2. Opposite(us) \in Colors /\ Opposite(us) # us /\ "pawn" \in PieceTypes
      BY <1>1, ManTypes DEF PieceTypes
    <3>3. Color(b[cap]) = Opposite(us) /\ pawn \in Pieces
      BY <3>1, <3>2, PieceFacts
    <3>4. Color(b[from]) = us
      BY DEF Playable
    <3>. HIDE DEF cap, pawn
    <3>. QED BY <3>1, <3>2, <3>3, <3>4, PieceFacts
  <2>2. PutBack(q, u) = p2
    BY <1>3 DEF PutBack
  <2>3. d = [b EXCEPT ![cap] = NoPiece, ![from] = NoPiece, ![to] = b[from]]
    BY <1>3 DEF BoardAfter
  <2>. HIDE DEF cap, pawn, d
  <2>4. d[to] # NoPiece /\ d[from] = NoPiece /\ b1[cap] = NoPiece
    BY <1>1, <2>1, <2>3 DEF Boards
  <2>5. b2 = b
    <3>1. b = [s \in Squares |-> b[s]] /\ b2 = [s \in Squares |-> b2[s]]
      BY <1>1 DEF Boards
    <3>2. ASSUME NEW s \in Squares PROVE b2[s] = b[s]
      BY <1>1, <2>1, <2>3, <3>2 DEF Boards
    <3>. HIDE DEF b2
    <3>. QED BY <3>1, <3>2
  <2>6. Becomes(q, p1, b1)
    BY <1>1, <2>4, MoveBecomes DEF d
  <2>7. Consistent(p1) /\ p1.board = b1 /\ IsPosition(p1)
    BY <1>1, <2>6, BecomesFacts DEF Consistent
  <2>8. Becomes(p1, p2, b2)
    <3>. HIDE DEF b1, p1
    <3>. QED BY <2>1, <2>4, <2>7, PutBecomes
  <2>. HIDE DEF p1, p2, b1, b2
  <2>. QED BY <1>1, <2>2, <2>5, <2>6, <2>8, BecomesFacts
<1>. DEFINE bare == [b EXCEPT ![to] = NoPiece]
            Recaptured(p) == IF u.captured = NoPiece THEN p ELSE PutPiece(p, u.captured, to)
<1>4. ASSUME NEW p, Becomes(q, p, bare), m.kind \in {"normal", "promotion"}
      PROVE  Becomes(q, Recaptured(p), b)
  <2>1. Consistent(p) /\ p.board = bare
    BY <1>1, <1>4, BecomesFacts
  <2>2. bare[to] = NoPiece /\ u.captured = b[to] /\ (b[to] # NoPiece => b[to] \in Pieces)
    BY <1>1, <1>4 DEF Boards
  <2>3. CASE b[to] = NoPiece
    <3>1. bare = b
      BY <1>1, <2>3 DEF Boards
    <3>. QED BY <1>4, <2>2, <2>3, <3>1
  <2>4. CASE b[to] # NoPiece
    <3>1. [bare EXCEPT ![to] = b[to]] = b
      BY <1>1 DEF Boards
    <3>2. Becomes(p, PutPiece(p, b[to], to), [bare EXCEPT ![to] = b[to]])
      <4>. HIDE DEF bare
      <4>. QED BY <1>1, <2>1, <2>2, <2>4, PutBecomes
    <3>3. Becomes(p, Recaptured(p), b)
      <4>. HIDE DEF bare
      <4>. QED BY <2>2, <2>4, <3>1, <3>2
    <3>. HIDE DEF bare, Recaptured
    <3>. QED BY <1>1, <1>4, <3>3, BecomesFacts
  <2>. QED BY <2>3, <2>4
<1>5. CASE m.kind = "promotion"
  <2>. DEFINE p1 == RemovePiece(q, to)
              b1 == [d EXCEPT ![to] = NoPiece]
              p2 == PutPiece(p1, MakePiece(us, "pawn"), from)
              b2 == [b1 EXCEPT ![from] = MakePiece(us, "pawn")]
  <2>1. /\ MakePiece(us, m.promotion) \in Pieces /\ MakePiece(us, "pawn") \in Pieces
        /\ b[from] = MakePiece(us, "pawn")
    BY <1>1, <1>5, ManTypes DEF Playable
  <2>2. d = [b EXCEPT ![from] = NoPiece, ![to] = MakePiece(us, m.promotion)]
    BY <1>5 DEF BoardAfter
  <2>3. PutBack(q, u) = Recaptured(p2)
    BY <1>5 DEF PutBack
  <2>. HIDE DEF d
  <2>4. d[to] # NoPiece /\ b1[from] = NoPiece /\ b2 = bare
    BY <1>1, <2>1, <2>2, ManTypes DEF Boards
  <2>5. Becomes(q, p1, b1)
    BY <1>1, <2>4, RemoveBecomes DEF d
  <2>6. Consistent(p1) /\ p1.board = b1 /\ IsPosition(p1)
    BY <1>1, <2>5, BecomesFacts DEF Consistent
  <2>7. Becomes(p1, p2, b2)
    <3>. HIDE DEF b1, p1
    <3>. QED BY <1>1, <2>1, <2>4, <2>6, PutBecomes
  <2>. HIDE DEF p1, p2, b1, b2, bare, Recaptured
  <2>8. Becomes(q, p2, bare)
    BY <1>1, <2>4, <2>5, <2>7, BecomesFacts
  <2>. QED BY <1>4, <1>5, <2>3, <2>8
<1>6. CASE m.kind = "normal"
  <2>. DEFINE p1 == MovePiece(q, to, from)
              b1 == [d EXCEPT ![to] = NoPiece, ![from] = d[to]]
  <2>1. d = [b EXCEPT ![from] = NoPiece, ![to] = b[from]]
    BY <1>6 DEF BoardAfter
  <2>2. PutBack(q, u) = Recaptured(p1)
    BY <1>6 DEF PutBack
  <2>. HIDE DEF d
  <2>3. d[to] # NoPiece /\ d[from] = NoPiece /\ b1 = bare
    BY <1>1, <2>1 DEF Boards
  <2>4. Becomes(q, p1, b1)
    BY <1>1, <2>3, MoveBecomes DEF d
  <2>. HIDE DEF p1, b1, bare, Recaptured
  <2>. QED BY <1>4, <1>6, <2>2, <2>3, <2>4
<1>. QED BY <1>2, <1>3, <1>5, <1>6 DEF Playable

\* The key is the one computed from scratch.
Keyed(p) == p.key = ComputeKey(p)

\* q is p but for the fields F, none of them a representation of the pieces.
AlikeBut(p, q, F) == IsPosition(q) /\ \A f \in Fields \ F : q[f] = p[f]

\* Fields other than the pieces do not disturb their representations.
LEMMA AlikeFacts ==
    ASSUME NEW p, Consistent(p), NEW q, NEW F, AlikeBut(p, q, F), {"board", "byType", "byColor"} \cap F = {}
    PROVE  Consistent(q) /\ q.board = p.board
  BY DEF Consistent, AlikeBut, Fields

\* What a key holds beside the pieces.
Rest(p) ==
    ZCastling(p.castling) \cup (IF p.epSquare # NoSquare THEN ZEPFile(p.epSquare) ELSE {})
      \cup (IF p.side = Black THEN ZSide ELSE {})

\* A key from scratch is that of the pieces and the rest.
LEMMA KeyOfParts ==
    ASSUME NEW p
    PROVE  NoPieces(Rest(p)) /\ ComputeKey(p) = PieceKey(p.board) \cup Rest(p)
<1>1. NoPieces(Rest(p))
  BY DEF NoPieces, Rest, ZCastling, ZEPFile, ZSide
<1>2. ComputeKey(p) = PieceKey(p.board) \cup Rest(p)
  <2>. DEFINE e == IF p.epSquare # NoSquare THEN ZEPFile(p.epSquare) ELSE {}
              t == IF p.side = Black THEN ZSide ELSE {}
              c == ZCastling(p.castling)
  <2>1. ComputeKey(p) = PieceKey(p.board) \cup c \cup e \cup t
    BY DEF ComputeKey, PieceKey
  <2>2. Rest(p) = c \cup e \cup t
    BY DEF Rest
  <2>. HIDE DEF c, e, t
  <2>. QED BY <2>1, <2>2
<1>. QED BY <1>1, <1>2

\* A key that was right is right after the pieces have changed.
LEMMA PiecesKeyed ==
    ASSUME NEW p, IsPosition(p), NEW q, NEW b, Becomes(p, q, b), Keyed(p)
    PROVE  Keyed(q)
<1>1. q.board = b /\ q.castling = p.castling /\ q.epSquare = p.epSquare /\ q.side = p.side
  BY BecomesFacts DEF Fields
<1>2. Rest(q) = Rest(p)
  BY <1>1 DEF Rest
<1>. QED BY <1>1, <1>2, KeyOfParts DEF Becomes, Keyed

\* ClearEP removes the target, from the key too.
LEMMA EPCleared ==
    ASSUME NEW p, IsPosition(p)
    PROVE  /\ AlikeBut(p, ClearEP(p), {"epSquare", "key"}) /\ ClearEP(p).epSquare = NoSquare
           /\ Keyed(p) => Keyed(ClearEP(p))
<1>. DEFINE q == ClearEP(p)
<1>1. CASE p.epSquare = NoSquare
  BY <1>1 DEF ClearEP, AlikeBut
<1>2. CASE p.epSquare # NoSquare
  <2>1. AlikeBut(p, q, {"epSquare", "key"}) /\ q.epSquare = NoSquare
    BY <1>2 DEF ClearEP, AlikeBut, IsPosition, Fields
  <2>2. q.key = SymDiff(p.key, ZEPFile(p.epSquare))
    BY <1>2 DEF ClearEP, IsPosition, Fields
  <2>3. q.board = p.board /\ q.castling = p.castling /\ q.side = p.side
    BY <2>1 DEF AlikeBut, Fields
  <2>. HIDE DEF q
  <2>4. ZEPFile(p.epSquare) \cap PieceKey(p.board) = {}
    BY DEF ZEPFile, PieceKey, ZPiece
  <2>5. Rest(q) = Rest(p) \ ZEPFile(p.epSquare) /\ ZEPFile(p.epSquare) \subseteq Rest(p)
    BY <1>2, <2>1, <2>3 DEF Rest, ZEPFile, ZCastling, ZSide
  <2>6. Keyed(p) => Keyed(q)
    BY <2>2, <2>3, <2>4, <2>5, KeyOfParts DEF Keyed, SymDiff
  <2>. QED BY <2>1, <2>6 DEF q
<1>. QED BY <1>1, <1>2

\* WithEP records a target only where a capture is possible, in the key too.
LEMMA EPRecorded ==
    ASSUME NEW p, IsPosition(p), p.epSquare = NoSquare, NEW m, NEW moved
    PROVE  LET q == WithEP(p, m, moved)
               epSq == m.from + PawnPush(Color(moved))
           IN  /\ AlikeBut(p, q, {"epSquare", "key"})
               /\ \/ q.epSquare = NoSquare
                  \/ /\ q.epSquare = epSq
                     /\ m.kind = "normal" /\ Type(moved) = "pawn" /\ Abs(m.to - m.from) = 16
                     /\ EPCaptureAvailable(p, epSq, Opposite(Color(moved)))
               /\ epSq # NoSquare /\ Keyed(p) => Keyed(q)
<1>. DEFINE epSq == m.from + PawnPush(Color(moved))
            q == WithEP(p, m, moved)
            Available == /\ m.kind = "normal" /\ Type(moved) = "pawn" /\ Abs(m.to - m.from) = 16
                         /\ EPCaptureAvailable(p, epSq, Opposite(Color(moved)))
<1>1. CASE ~Available
  BY <1>1 DEF WithEP, AlikeBut
<1>2. CASE Available
  <2>1. q = [p EXCEPT !.epSquare = epSq, !.key = SymDiff(@, ZEPFile(epSq))]
    BY <1>2 DEF WithEP
  <2>. HIDE DEF epSq, q
  <2>2. AlikeBut(p, q, {"epSquare", "key"}) /\ q.epSquare = epSq /\ q.key = SymDiff(p.key, ZEPFile(epSq))
    BY <2>1 DEF AlikeBut, IsPosition, Fields
  <2>3. q.board = p.board /\ q.castling = p.castling /\ q.side = p.side
    BY <2>2 DEF AlikeBut, Fields
  <2>4. ZEPFile(epSq) \cap PieceKey(p.board) = {}
    BY DEF ZEPFile, PieceKey, ZPiece
  <2>5. epSq # NoSquare => Rest(q) = Rest(p) \cup ZEPFile(epSq) /\ ZEPFile(epSq) \cap Rest(p) = {}
    BY <2>2, <2>3 DEF Rest, ZEPFile, ZCastling, ZSide
  <2>6. epSq # NoSquare /\ Keyed(p) => Keyed(q)
    BY <2>2, <2>3, <2>4, <2>5, KeyOfParts DEF Keyed, SymDiff
  <2>. QED BY <1>2, <2>2, <2>6 DEF epSq, q
<1>. QED BY <1>1, <1>2

\* WithRights keeps the rights that neither square revokes, in the key too.
LEMMA RightsRevoked ==
    ASSUME NEW p, IsPosition(p), NEW m
    PROVE  LET q == WithRights(p, m)
           IN  /\ AlikeBut(p, q, {"castling", "key"})
               /\ q.castling = p.castling \cap p.crMask[m.from] \cap p.crMask[m.to]
               /\ Keyed(p) => Keyed(q)
<1>. DEFINE q == WithRights(p, m)
            rights == p.castling \cap p.crMask[m.from] \cap p.crMask[m.to]
<1>1. CASE rights = p.castling
  BY <1>1 DEF WithRights, AlikeBut
<1>2. CASE rights # p.castling
  <2>1. q = [p EXCEPT !.castling = rights,
                      !.key = SymDiff(@, SymDiff(ZCastling(p.castling), ZCastling(rights)))]
    BY <1>2 DEF WithRights
  <2>. HIDE DEF rights, q
  <2>2. /\ AlikeBut(p, q, {"castling", "key"}) /\ q.castling = rights
        /\ q.key = SymDiff(p.key, SymDiff(ZCastling(p.castling), ZCastling(rights)))
    BY <2>1 DEF AlikeBut, IsPosition, Fields
  <2>3. q.board = p.board /\ q.epSquare = p.epSquare /\ q.side = p.side
    BY <2>2 DEF AlikeBut, Fields
  <2>4. /\ ZCastling(p.castling) \cap PieceKey(p.board) = {} /\ ZCastling(rights) \cap PieceKey(p.board) = {}
        /\ ZCastling(p.castling) \cap ZCastling(rights) = {}
    BY <1>2 DEF ZCastling, PieceKey, ZPiece
  <2>5. /\ Rest(q) = (Rest(p) \ ZCastling(p.castling)) \cup ZCastling(rights)
        /\ ZCastling(rights) \cap Rest(p) = {} /\ ZCastling(p.castling) \subseteq Rest(p)
    BY <1>2, <2>2, <2>3 DEF Rest, ZEPFile, ZCastling, ZSide
  <2>6. Keyed(p) => Keyed(q)
    BY <2>2, <2>3, <2>4, <2>5, KeyOfParts DEF Keyed, SymDiff
  <2>. QED BY <2>2, <2>6 DEF rights, q
<1>. QED BY <1>1, <1>2

\* PassTurn changes side and move number, and the side in the key.
LEMMA TurnPassed ==
    ASSUME NEW p, IsPosition(p), p.side \in Colors
    PROVE  LET q == PassTurn(p)
           IN  /\ AlikeBut(p, q, {"side", "fullmove", "key"})
               /\ q.side = Opposite(p.side)
               /\ q.fullmove = IF p.side = Black THEN p.fullmove + 1 ELSE p.fullmove
               /\ Keyed(p) => Keyed(q)
<1>. DEFINE q == PassTurn(p)
<1>1. /\ AlikeBut(p, q, {"side", "fullmove", "key"}) /\ q.side = Opposite(p.side)
      /\ q.fullmove = IF p.side = Black THEN p.fullmove + 1 ELSE p.fullmove
      /\ q.key = SymDiff(p.key, ZSide)
  BY DEF PassTurn, AlikeBut, IsPosition, Fields
<1>. HIDE DEF q
<1>2. q.board = p.board /\ q.epSquare = p.epSquare /\ q.castling = p.castling
  BY <1>1 DEF AlikeBut, Fields
<1>3. ZSide \cap PieceKey(p.board) = {}
  BY DEF ZSide, PieceKey, ZPiece
<1>4. Rest(q) = SymDiff(Rest(p), ZSide)
  <2>1. CASE p.side = White
    BY <1>1, <1>2, <2>1 DEF Rest, SymDiff, ZSide, ZCastling, ZEPFile, Opposite, White, Black
  <2>2. CASE p.side = Black
    BY <1>1, <1>2, <2>2 DEF Rest, SymDiff, ZSide, ZCastling, ZEPFile, Opposite, White, Black
  <2>. QED BY <2>1, <2>2 DEF Colors
<1>5. Keyed(p) => Keyed(q)
  BY <1>1, <1>2, <1>3, <1>4, KeyOfParts DEF Keyed, SymDiff
<1>. QED BY <1>1, <1>5 DEF q

-----------------------------------------------------------------------------
(***************************************************************************)
(* A move made, and taken back.                                            *)
(***************************************************************************)
\* A double push passes over a square of the board.
LEMMA PushPasses ==
    ASSUME NEW us \in Colors, NEW from \in Squares, from + 2 * PawnPush(us) \in Squares
    PROVE  /\ from + PawnPush(us) \in Squares /\ from + PawnPush(us) # NoSquare
           /\ (from + PawnPush(us)) - PawnPush(Opposite(us)) = from + 2 * PawnPush(us)
  BY DEF Squares, NoSquare, PawnPush, North, South, Colors, White, Black, Opposite

\* What a move makes of every field of a position.
LEMMA MoveMade ==
    ASSUME NEW p, Consistent(p), p.side \in Colors, NEW m, Playable(p.board, p.side, m)
    PROVE  LET q == MakeMove(p, m)
               epSq == m.from + PawnPush(p.side)
           IN  /\ Consistent(q) /\ q.board = BoardAfter(p.board, p.side, m)
               /\ q.side = Opposite(p.side)
               /\ q.fullmove = IF p.side = Black THEN p.fullmove + 1 ELSE p.fullmove
               /\ q.halfmove = IF Irreversible(p, m) THEN 0 ELSE p.halfmove + 1
               /\ q.castling = p.castling \cap p.crMask[m.from] \cap p.crMask[m.to]
               /\ \A f \in {"chess960", "castlingRook", "castlingPath", "crMask"} : q[f] = p[f]
               /\ \/ q.epSquare = NoSquare
                  \/ /\ q.epSquare = epSq /\ epSq \in Squares
                     /\ m.kind = "normal" /\ Type(p.board[m.from]) = "pawn"
                     /\ m.to = m.from + 2 * PawnPush(p.side) /\ q.board[epSq] = NoPiece
               /\ Keyed(p) => Keyed(q)
<1>. DEFINE us == p.side
            moved == p.board[m.from]
            epSq == m.from + PawnPush(us)
            after == BoardAfter(p.board, us, m)
            p1 == ClearEP(p)
            p2 == Relocated(p1, m)
            p3 == WithEP(p2, m, moved)
            p4 == WithRights(p3, m)
            p5 == PassTurn(p4)
            q == MakeMove(p, m)
<1>1. /\ Consistent(p1) /\ p1.board = p.board /\ AlikeBut(p, p1, {"epSquare", "key"})
      /\ p1.epSquare = NoSquare /\ (Keyed(p) => Keyed(p1)) /\ IsPosition(p1) /\ p1.side = us
  <2>1. IsPosition(p)
    BY DEF Consistent
  <2>2. AlikeBut(p, p1, {"epSquare", "key"}) /\ p1.epSquare = NoSquare /\ (Keyed(p) => Keyed(p1))
    BY <2>1, EPCleared
  <2>. HIDE DEF p1
  <2>3. p1.side = us
    BY <2>2 DEF AlikeBut, Fields
  <2>. QED BY <2>2, <2>3, AlikeFacts DEF Consistent
<1>2. Becomes(p1, p2, after)
  <2>. HIDE DEF p1
  <2>. QED BY <1>1, Relocates
<1>3. /\ Consistent(p2) /\ p2.board = after /\ IsPosition(p2)
      /\ \A f \in Fields \ {"board", "byType", "byColor", "key"} : p2[f] = p1[f]
      /\ Keyed(p) => Keyed(p2)
  <2>. HIDE DEF p1, p2, after
  <2>. QED BY <1>1, <1>2, BecomesFacts, PiecesKeyed DEF Consistent
<1>4. p2.epSquare = NoSquare /\ Color(moved) = us
  BY <1>1, <1>3 DEF Fields, Playable
<1>5. /\ AlikeBut(p2, p3, {"epSquare", "key"})
      /\ \/ p3.epSquare = NoSquare
         \/ /\ p3.epSquare = epSq
            /\ m.kind = "normal" /\ Type(moved) = "pawn" /\ Abs(m.to - m.from) = 16
            /\ EPCaptureAvailable(p2, epSq, Opposite(us))
      /\ epSq # NoSquare /\ Keyed(p2) => Keyed(p3)
  <2>. HIDE DEF p1, p2, after, moved
  <2>. QED BY <1>3, <1>4, EPRecorded
<1>6. m.kind = "normal" /\ Type(moved) = "pawn" /\ Abs(m.to - m.from) = 16 =>
        m.to = m.from + 2 * PawnPush(us) /\ epSq \in Squares /\ epSq # NoSquare
  BY PushPasses DEF Playable
<1>7. Keyed(p2) => Keyed(p3)
  <2>1. CASE epSq # NoSquare
    BY <1>5, <2>1
  <2>2. CASE epSq = NoSquare
    <3>1. p3 = p2
      BY <1>6, <2>2 DEF WithEP
    <3>. QED BY <3>1
  <2>. QED BY <2>1, <2>2
<1>8. Consistent(p3) /\ p3.board = after /\ IsPosition(p3)
  <2>. HIDE DEF p2, p3, after
  <2>. QED BY <1>3, <1>5, AlikeFacts DEF Consistent
<1>9. /\ AlikeBut(p3, p4, {"castling", "key"})
      /\ p4.castling = p3.castling \cap p3.crMask[m.from] \cap p3.crMask[m.to]
      /\ Keyed(p3) => Keyed(p4)
  <2>. HIDE DEF p3
  <2>. QED BY <1>8, RightsRevoked
<1>10. Consistent(p4) /\ p4.board = after /\ IsPosition(p4) /\ p4.side = us
  <2>. HIDE DEF p1, p2, p3, p4, after
  <2>1. Consistent(p4) /\ p4.board = after /\ IsPosition(p4)
    BY <1>8, <1>9, AlikeFacts DEF Consistent
  <2>2. p4.side = us
    BY <1>1, <1>3, <1>5, <1>9 DEF AlikeBut, Fields
  <2>. QED BY <2>1, <2>2
<1>11. /\ AlikeBut(p4, p5, {"side", "fullmove", "key"}) /\ p5.side = Opposite(us)
       /\ p5.fullmove = IF us = Black THEN p4.fullmove + 1 ELSE p4.fullmove
       /\ Keyed(p4) => Keyed(p5)
  <2>. HIDE DEF p4
  <2>. QED BY <1>10, TurnPassed
<1>12. Consistent(p5) /\ p5.board = after /\ IsPosition(p5)
  <2>. HIDE DEF p4, p5, after
  <2>. QED BY <1>10, <1>11, AlikeFacts DEF Consistent
<1>13. /\ AlikeBut(p5, q, {"halfmove"})
       /\ q.halfmove = IF Irreversible(p, m) THEN 0 ELSE p5.halfmove + 1
  <2>1. q = [p5 EXCEPT !.halfmove = IF Irreversible(p, m) THEN 0 ELSE @ + 1]
    BY DEF MakeMove
  <2>. HIDE DEF p5, q
  <2>. QED BY <1>12, <2>1 DEF AlikeBut, IsPosition, Fields
<1>. HIDE DEF p1, p2, p3, p4, p5, q, after
<1>14. Consistent(q) /\ q.board = after
  BY <1>12, <1>13, AlikeFacts
<1>15. q.key = p5.key /\ q.castling = p5.castling /\ q.epSquare = p5.epSquare /\ q.side = p5.side /\ q.fullmove = p5.fullmove
  BY <1>13 DEF AlikeBut, Fields
<1>16. Keyed(p5) => Keyed(q)
  BY <1>12, <1>14, <1>15 DEF Keyed, ComputeKey
<1>17. Keyed(p) => Keyed(q)
  BY <1>3, <1>7, <1>9, <1>11, <1>16
<1>18. /\ p4.fullmove = p.fullmove /\ p3.castling = p.castling /\ p3.crMask = p.crMask
       /\ q.castling = p4.castling /\ q.epSquare = p3.epSquare
       /\ \A f \in {"chess960", "castlingRook", "castlingPath", "crMask"} : q[f] = p[f]
  BY <1>1, <1>3, <1>5, <1>9, <1>11, <1>13 DEF AlikeBut, Fields
<1>19. EPCaptureAvailable(p2, epSq, Opposite(us)) => q.board[epSq] = NoPiece
  BY <1>3, <1>14 DEF EPCaptureAvailable
<1>20. \/ q.epSquare = NoSquare
       \/ /\ q.epSquare = epSq /\ epSq \in Squares
          /\ m.kind = "normal" /\ Type(moved) = "pawn"
          /\ m.to = m.from + 2 * PawnPush(us) /\ q.board[epSq] = NoPiece
  BY <1>5, <1>6, <1>18, <1>19
<1>21. q.castling = p.castling \cap p.crMask[m.from] \cap p.crMask[m.to]
  BY <1>9, <1>18
<1>22. q.side = Opposite(us) /\ q.fullmove = IF us = Black THEN p.fullmove + 1 ELSE p.fullmove
  BY <1>11, <1>15, <1>18
<1>23. p5.halfmove = p.halfmove
  BY <1>1, <1>3, <1>5, <1>9, <1>11 DEF AlikeBut, Fields
<1>. QED BY <1>13, <1>14, <1>17, <1>18, <1>20, <1>21, <1>22, <1>23 DEF q, after

\* Giving the turn back.
LEMMA TurnTakenBack ==
    ASSUME NEW p, IsPosition(p), p.side \in Colors
    PROVE  LET q == TakeBackTurn(p)
           IN  /\ AlikeBut(p, q, {"side", "fullmove"})
               /\ q.side = Opposite(p.side)
               /\ q.fullmove = IF p.side = White THEN p.fullmove - 1 ELSE p.fullmove
  BY DEF TakeBackTurn, AlikeBut, IsPosition, Fields

\* What comes from the record.
LEMMA Restores ==
    ASSUME NEW p, IsPosition(p), NEW u
    PROVE  LET q == Restored(p, u)
           IN  /\ AlikeBut(p, q, {"castling", "epSquare", "halfmove", "key"})
               /\ q.castling = u.castling /\ q.epSquare = u.epSquare
               /\ q.halfmove = u.halfmove /\ q.key = u.key
  BY DEF Restored, AlikeBut, IsPosition, Fields

\* The move number there and back.
LEMMA Renumbered ==
    ASSUME NEW us \in Colors, NEW n \in Int,
           NEW k, k = IF us = Black THEN n + 1 ELSE n
    PROVE  (IF Opposite(us) = White THEN k - 1 ELSE k) = n
  BY DEF Colors, White, Black, Opposite

\* Unmaking a move gives back the very position it was made in: all three
\* representations of the pieces, rights, target, clocks and key (position.go).
THEOREM UnmakeInvertsMake ==
    ASSUME NEW p, Consistent(p), p.side \in Colors, p.fullmove \in Int,
           NEW m, Playable(p.board, p.side, m)
    PROVE  UnmakeMove(MakeMove(p, m), Undo(p, m)) = p
<1>. DEFINE us == p.side
            u == Undo(p, m)
            q == MakeMove(p, m)
            q1 == TakeBackTurn(q)
            q2 == PutBack(q1, u)
            q3 == Restored(q2, u)
<1>1. /\ Consistent(q) /\ q.board = BoardAfter(p.board, us, m) /\ q.side = Opposite(us)
      /\ q.fullmove = IF us = Black THEN p.fullmove + 1 ELSE p.fullmove
      /\ \A f \in {"chess960", "castlingRook", "castlingPath", "crMask"} : q[f] = p[f]
      /\ IsPosition(q) /\ IsPosition(p)
  BY MoveMade DEF Consistent
<1>2. /\ u.move = m /\ u.castling = p.castling /\ u.epSquare = p.epSquare
      /\ u.halfmove = p.halfmove /\ u.key = p.key
      /\ m.kind \in {"normal", "promotion"} => u.captured = p.board[m.to]
  BY DEF Undo, Captured
<1>. HIDE DEF q, u
<1>3. q.side \in Colors /\ Opposite(q.side) = us
  BY <1>1, ManTypes
<1>4. /\ AlikeBut(q, q1, {"side", "fullmove"}) /\ q1.side = us /\ q1.fullmove = p.fullmove
  <2>1. /\ AlikeBut(q, q1, {"side", "fullmove"}) /\ q1.side = us
        /\ q1.fullmove = IF q.side = White THEN q.fullmove - 1 ELSE q.fullmove
    BY <1>1, <1>3, TurnTakenBack
  <2>2. (IF q.side = White THEN q.fullmove - 1 ELSE q.fullmove) = p.fullmove
    BY <1>1, Renumbered
  <2>. QED BY <2>1, <2>2
<1>5. Consistent(q1) /\ q1.board = BoardAfter(p.board, us, m) /\ IsPosition(q1)
  <2>. HIDE DEF q1
  <2>. QED BY <1>1, <1>4, AlikeFacts DEF Consistent
<1>6. Becomes(q1, q2, p.board)
  <2>1. p.board \in Boards
    BY DEF Consistent
  <2>. HIDE DEF q1
  <2>. QED BY <1>2, <1>4, <1>5, <2>1, PutsBack
<1>7. /\ Consistent(q2) /\ q2.board = p.board /\ IsPosition(q2)
      /\ \A f \in Fields \ {"board", "byType", "byColor", "key"} : q2[f] = q1[f]
  <2>. HIDE DEF q1, q2
  <2>. QED BY <1>5, <1>6, BecomesFacts DEF Consistent
<1>8. /\ AlikeBut(q2, q3, {"castling", "epSquare", "halfmove", "key"})
      /\ q3.castling = p.castling /\ q3.epSquare = p.epSquare
      /\ q3.halfmove = p.halfmove /\ q3.key = p.key
  <2>. HIDE DEF q2
  <2>. QED BY <1>2, <1>7, Restores
<1>. HIDE DEF q1, q2, q3
<1>9. q3.byType = p.byType /\ q3.byColor = p.byColor /\ q3.board = p.board
  BY <1>7, <1>8 DEF AlikeBut, Fields, Consistent
<1>10. q3.side = us /\ q3.fullmove = p.fullmove /\
       \A f \in {"chess960", "castlingRook", "castlingPath", "crMask"} : q3[f] = p[f]
  BY <1>1, <1>4, <1>7, <1>8 DEF AlikeBut, Fields
<1>11. \A f \in Fields : q3[f] = p[f]
  BY <1>8, <1>9, <1>10 DEF Fields
<1>12. q3 = p
  BY <1>1, <1>8, <1>11 DEF AlikeBut, IsPosition
<1>. QED BY <1>12 DEF UnmakeMove, q, u, q1, q2, q3

\* What a null move makes of a position.
LEMMA NullMoveMade ==
    ASSUME NEW p, Consistent(p), p.side \in Colors
    PROVE  LET q == MakeNullMove(p)
           IN  /\ Consistent(q) /\ q.board = p.board /\ q.side = Opposite(p.side)
               /\ q.fullmove = IF p.side = Black THEN p.fullmove + 1 ELSE p.fullmove
               /\ q.epSquare = NoSquare /\ q.halfmove = 0
               /\ \A f \in {"castling", "chess960", "castlingRook", "castlingPath", "crMask"} : q[f] = p[f]
               /\ Keyed(p) => Keyed(q)
<1>. DEFINE us == p.side
            p1 == ClearEP(p)
            p2 == PassTurn(p1)
            q == MakeNullMove(p)
<1>1. /\ AlikeBut(p, p1, {"epSquare", "key"}) /\ p1.epSquare = NoSquare /\ (Keyed(p) => Keyed(p1))
  BY EPCleared DEF Consistent
<1>. HIDE DEF p1
<1>2. Consistent(p1) /\ p1.board = p.board /\ IsPosition(p1) /\ p1.side = us /\ p1.fullmove = p.fullmove
  <2>1. Consistent(p1) /\ p1.board = p.board /\ IsPosition(p1)
    BY <1>1, AlikeFacts DEF Consistent
  <2>2. p1.side = us /\ p1.fullmove = p.fullmove
    BY <1>1 DEF AlikeBut, Fields
  <2>. QED BY <2>1, <2>2
<1>3. /\ AlikeBut(p1, p2, {"side", "fullmove", "key"}) /\ p2.side = Opposite(us)
      /\ p2.fullmove = IF us = Black THEN p.fullmove + 1 ELSE p.fullmove
      /\ Keyed(p1) => Keyed(p2)
  BY <1>2, TurnPassed
<1>. HIDE DEF p2
<1>4. Consistent(p2) /\ p2.board = p.board /\ IsPosition(p2)
  BY <1>2, <1>3, AlikeFacts DEF Consistent
<1>5. AlikeBut(p2, q, {"halfmove"}) /\ q.halfmove = 0
  <2>1. q = [p2 EXCEPT !.halfmove = 0]
    BY DEF MakeNullMove, p1, p2
  <2>. HIDE DEF q
  <2>. QED BY <1>4, <2>1 DEF AlikeBut, IsPosition, Fields
<1>. HIDE DEF q
<1>6. Consistent(q) /\ q.board = p.board
  BY <1>4, <1>5, AlikeFacts
<1>7. /\ q.side = Opposite(us) /\ q.epSquare = NoSquare
      /\ q.fullmove = IF us = Black THEN p.fullmove + 1 ELSE p.fullmove
      /\ \A f \in {"castling", "chess960", "castlingRook", "castlingPath", "crMask"} : q[f] = p[f]
  BY <1>1, <1>3, <1>5 DEF AlikeBut, Fields
<1>8. Keyed(p2) => Keyed(q)
  <2>1. q.key = p2.key /\ q.castling = p2.castling /\ q.epSquare = p2.epSquare /\ q.side = p2.side
    BY <1>5 DEF AlikeBut, Fields
  <2>. QED BY <1>4, <1>6, <2>1 DEF Keyed, ComputeKey
<1>. QED BY <1>1, <1>3, <1>5, <1>6, <1>7, <1>8 DEF q

\* The same for the null moves of the search.
THEOREM UnmakeInvertsNullMove ==
    ASSUME NEW p, Consistent(p), p.side \in Colors, p.fullmove \in Int
    PROVE  UnmakeNullMove(MakeNullMove(p), NullUndo(p)) = p
<1>. DEFINE us == p.side
            u == NullUndo(p)
            q == MakeNullMove(p)
            q1 == TakeBackTurn(q)
            q2 == Restored(q1, u)
<1>1. /\ Consistent(q) /\ q.board = p.board /\ q.side = Opposite(us)
      /\ q.fullmove = IF us = Black THEN p.fullmove + 1 ELSE p.fullmove
      /\ \A f \in {"chess960", "castlingRook", "castlingPath", "crMask"} : q[f] = p[f]
      /\ IsPosition(q) /\ IsPosition(p)
  BY NullMoveMade DEF Consistent
<1>2. u.castling = p.castling /\ u.epSquare = p.epSquare /\ u.halfmove = p.halfmove /\ u.key = p.key
  BY DEF NullUndo, Undo
<1>. HIDE DEF q, u
<1>3. q.side \in Colors /\ Opposite(q.side) = us
  BY <1>1, ManTypes
<1>4. AlikeBut(q, q1, {"side", "fullmove"}) /\ q1.side = us /\ q1.fullmove = p.fullmove
  <2>1. /\ AlikeBut(q, q1, {"side", "fullmove"}) /\ q1.side = us
        /\ q1.fullmove = IF q.side = White THEN q.fullmove - 1 ELSE q.fullmove
    BY <1>1, <1>3, TurnTakenBack
  <2>2. (IF q.side = White THEN q.fullmove - 1 ELSE q.fullmove) = p.fullmove
    BY <1>1, Renumbered
  <2>. QED BY <2>1, <2>2
<1>. HIDE DEF q1
<1>5. /\ AlikeBut(q1, q2, {"castling", "epSquare", "halfmove", "key"})
      /\ q2.castling = p.castling /\ q2.epSquare = p.epSquare
      /\ q2.halfmove = p.halfmove /\ q2.key = p.key
  BY <1>2, <1>4, Restores DEF AlikeBut
<1>. HIDE DEF q2
<1>6. q2.board = p.board /\ q2.byType = p.byType /\ q2.byColor = p.byColor
  BY <1>1, <1>4, <1>5 DEF AlikeBut, Fields, Consistent
<1>7. \A f \in {"side", "fullmove", "chess960", "castlingRook", "castlingPath", "crMask"} : q2[f] = p[f]
  BY <1>1, <1>4, <1>5 DEF AlikeBut, Fields
<1>8. \A f \in Fields : q2[f] = p[f]
  BY <1>5, <1>6, <1>7 DEF Fields
<1>9. q2 = p
  BY <1>1, <1>5, <1>8 DEF AlikeBut, IsPosition
<1>. QED BY <1>9 DEF UnmakeNullMove, q, u, q1, q2

-----------------------------------------------------------------------------
(***************************************************************************)
(* The network's input features.                                           *)
(***************************************************************************)
Manned(b) == {t \in Squares : b[t] # NoPiece}
FeatureSet(c, b) == {FeatureIndex(c, b[s], s) : s \in Manned(b)}
FeaturesOf(b) == [c \in Colors |-> [f \in FeatureSet(c, b) |-> 1]]

\* The accumulator of a position depends on its mailbox only.
LEMMA RefreshReadsBoard ==
    ASSUME NEW p, Consistent(p)
    PROVE  Occupied(p) = Manned(p.board) /\ Refresh(p) = FeaturesOf(p.board)
<1>1. \A s \in Squares : Color(p.board[s]) \in Colors <=> p.board[s] # NoPiece
  BY PieceFacts DEF Consistent, Boards
<1>2. Occupied(p) = Manned(p.board)
  BY <1>1 DEF Consistent, Occupied, Manned, ColorsOf, Colors
<1>. QED BY <1>2 DEF Refresh, FeaturesOf, FeatureSet

\* No two pieces on two squares have the same feature, from either side.
LEMMA FeaturesDiffer ==
    ASSUME NEW c \in Colors, NEW x \in Pieces, NEW y \in Pieces, NEW s \in Squares, NEW t \in Squares,
           FeatureIndex(c, x, s) = FeatureIndex(c, y, t)
    PROVE  x = y /\ s = t
<1>1. CASE c = White
  BY <1>1 DEF FeatureIndex
<1>2. CASE c # White
  <2>1. /\ MakePiece(Opposite(Color(x)), Type(x)) = MakePiece(Opposite(Color(y)), Type(y))
        /\ MakeSquare(File(s), 7 - Rank(s)) = MakeSquare(File(t), 7 - Rank(t))
    BY <1>2 DEF FeatureIndex
  <2>2. s = t
    BY <2>1 DEF MakeSquare, File, Rank, Squares
  <2>3. Opposite(Color(x)) = Opposite(Color(y)) /\ Type(x) = Type(y)
    BY <2>1 DEF MakePiece
  <2>4. Color(x) = Color(y)
    BY <2>3, PieceFacts DEF Opposite, Colors, White, Black
  <2>. QED BY <2>2, <2>3, <2>4, PieceFacts
<1>. QED BY <1>1, <1>2

\* A piece added to the accumulator is a piece added to the board,
LEMMA FeatureAdded ==
    ASSUME NEW b \in Boards, NEW s \in Squares, NEW x \in Pieces, b[s] = NoPiece
    PROVE  AddFeature(FeaturesOf(b), x, s) = FeaturesOf([b EXCEPT ![s] = x])
<1>. DEFINE d == [b EXCEPT ![s] = x]
<1>1. d[s] = x /\ (\A t \in Squares \ {s} : d[t] = b[t]) /\ x # NoPiece
  BY PieceFacts DEF Boards
<1>. HIDE DEF d
<1>2. Manned(d) = Manned(b) \cup {s} /\ s \notin Manned(b)
  BY <1>1 DEF Manned
<1>3. \A t \in Manned(b) : t \in Squares /\ t # s /\ b[t] \in Pieces /\ d[t] = b[t]
  BY <1>1 DEF Manned, Boards
<1>4. ASSUME NEW c \in Colors
      PROVE  Weigh(FeaturesOf(b)[c], FeatureIndex(c, x, s), 1) = FeaturesOf(d)[c]
  <2>. DEFINE f == FeatureIndex(c, x, s)
              half == [g \in FeatureSet(c, b) |-> 1]
  <2>1. FeatureSet(c, d) = FeatureSet(c, b) \cup {f}
    BY <1>1, <1>2, <1>3 DEF FeatureSet
  <2>2. f \notin FeatureSet(c, b)
    BY <1>3, FeaturesDiffer DEF FeatureSet
  <2>3. DOMAIN half = FeatureSet(c, b) /\ \A g \in FeatureSet(c, b) : half[g] = 1
    OBVIOUS
  <2>4. FeaturesOf(b)[c] = half /\ FeaturesOf(d)[c] = [g \in FeatureSet(c, d) |-> 1]
    BY DEF FeaturesOf
  <2>. HIDE DEF f, half
  <2>5. Weigh(half, f, 1) = [g \in DOMAIN half \cup {f} |-> IF g = f THEN 1 ELSE half[g]]
    BY <2>2, <2>3 DEF Weigh
  <2>6. [g \in DOMAIN half \cup {f} |-> IF g = f THEN 1 ELSE half[g]] = [g \in FeatureSet(c, d) |-> 1]
    BY <2>1, <2>3
  <2>. QED BY <2>4, <2>5, <2>6 DEF f
<1>5. FeaturesOf(d) = [c \in Colors |-> FeaturesOf(d)[c]]
  BY DEF FeaturesOf
<1>6. AddFeature(FeaturesOf(b), x, s) = [c \in Colors |-> FeaturesOf(d)[c]]
  BY <1>4 DEF AddFeature
<1>. QED BY <1>5, <1>6 DEF d

\* a piece removed one removed,
LEMMA FeatureRemoved ==
    ASSUME NEW b \in Boards, NEW s \in Squares, b[s] # NoPiece
    PROVE  RemoveFeature(FeaturesOf(b), b[s], s) = FeaturesOf([b EXCEPT ![s] = NoPiece])
<1>. DEFINE d == [b EXCEPT ![s] = NoPiece]
            x == b[s]
<1>1. d[s] = NoPiece /\ (\A t \in Squares \ {s} : d[t] = b[t]) /\ x \in Pieces
  BY DEF Boards
<1>. HIDE DEF d
<1>2. Manned(d) = Manned(b) \ {s} /\ s \in Manned(b)
  BY <1>1 DEF Manned
<1>3. \A t \in Manned(d) : t \in Squares /\ t # s /\ b[t] \in Pieces /\ d[t] = b[t]
  BY <1>1 DEF Manned, Boards
<1>4. ASSUME NEW c \in Colors
      PROVE  Weigh(FeaturesOf(b)[c], FeatureIndex(c, x, s), -1) = FeaturesOf(d)[c]
  <2>. DEFINE f == FeatureIndex(c, x, s)
              half == [g \in FeatureSet(c, b) |-> 1]
  <2>1. f \in FeatureSet(c, b)
    BY <1>2 DEF FeatureSet
  <2>2. FeatureSet(c, d) = FeatureSet(c, b) \ {f}
    <3>1. \A t \in Manned(d) : FeatureIndex(c, d[t], t) # f
      BY <1>1, <1>3, FeaturesDiffer
    <3>2. \A t \in Manned(b) : t = s \/ (t \in Manned(d) /\ d[t] = b[t])
      BY <1>1, <1>2 DEF Manned
    <3>3. \A t \in Manned(d) : t \in Manned(b) /\ d[t] = b[t]
      BY <1>2, <1>3
    <3>. QED BY <3>1, <3>2, <3>3 DEF FeatureSet
  <2>3. DOMAIN half = FeatureSet(c, b) /\ \A g \in FeatureSet(c, b) : half[g] = 1
    OBVIOUS
  <2>4. FeaturesOf(b)[c] = half /\ FeaturesOf(d)[c] = [g \in FeatureSet(c, d) |-> 1]
    BY DEF FeaturesOf
  <2>. HIDE DEF f, half
  <2>5. Weigh(half, f, -1) = [g \in DOMAIN half \ {f} |-> half[g]]
    BY <2>1, <2>3 DEF Weigh
  <2>6. [g \in DOMAIN half \ {f} |-> half[g]] = [g \in FeatureSet(c, d) |-> 1]
    BY <2>2, <2>3
  <2>. QED BY <2>4, <2>5, <2>6 DEF f
<1>5. FeaturesOf(d) = [c \in Colors |-> FeaturesOf(d)[c]]
  BY DEF FeaturesOf
<1>6. RemoveFeature(FeaturesOf(b), x, s) = [c \in Colors |-> FeaturesOf(d)[c]]
  BY <1>4 DEF RemoveFeature
<1>. QED BY <1>5, <1>6 DEF d

\* and a piece moved one moved.
LEMMA FeatureMoved ==
    ASSUME NEW b \in Boards, NEW from \in Squares, NEW to \in Squares, from # to,
           b[from] # NoPiece, b[to] = NoPiece
    PROVE  MoveFeature(FeaturesOf(b), b[from], from, to)
             = FeaturesOf([b EXCEPT ![from] = NoPiece, ![to] = b[from]])
<1>. DEFINE d == [b EXCEPT ![from] = NoPiece]
            x == b[from]
<1>1. d \in Boards /\ d[to] = NoPiece /\ x \in Pieces
  BY DEF Boards
<1>2. RemoveFeature(FeaturesOf(b), x, from) = FeaturesOf(d)
  BY FeatureRemoved
<1>3. AddFeature(FeaturesOf(d), x, to) = FeaturesOf([d EXCEPT ![to] = x])
  <2>. HIDE DEF d, x
  <2>. QED BY <1>1, FeatureAdded
<1>. QED BY <1>2, <1>3 DEF MoveFeature

\* Whatever the move, the features it turns on and off are those of the pieces it
\* leaves: the accumulator after it is the one computed from scratch (incremental.go).
THEOREM DeltaExact ==
    ASSUME NEW p, Consistent(p), p.side \in Colors, NEW m, Playable(p.board, p.side, m)
    PROVE  Delta(Refresh(p), p, m) = Refresh(MakeMove(p, m))
<1>. DEFINE us == p.side
            b == p.board
            from == m.from
            to == m.to
            result == BoardAfter(b, us, m)
<1>1. /\ from \in Squares /\ to \in Squares /\ from # to /\ b \in Boards /\ b[from] \in Pieces
      /\ b[from] # NoPiece /\ us \in Colors
  BY ManTypes DEF Playable, Consistent
<1>2. Refresh(p) = FeaturesOf(b)
  BY RefreshReadsBoard
<1>3. Refresh(MakeMove(p, m)) = FeaturesOf(result)
  <2>1. Consistent(MakeMove(p, m)) /\ MakeMove(p, m).board = result
    BY MoveMade
  <2>. HIDE DEF result
  <2>. QED BY <2>1, RefreshReadsBoard
<1>4. CASE m.kind = "castling"
  <2>. DEFINE kingTo == CastlingKingTo(CastlingRight(us, m))
              rookTo == CastlingRookTo(CastlingRight(us, m))
              K == MakePiece(us, "king")
              R == MakePiece(us, "rook")
              b1 == [b EXCEPT ![from] = NoPiece]
              b2 == [b1 EXCEPT ![to] = NoPiece]
              b3 == [b2 EXCEPT ![kingTo] = K]
              b4 == [b3 EXCEPT ![rookTo] = R]
  <2>1. /\ b[from] = K /\ b[to] = R /\ K \in Pieces /\ R \in Pieces /\ R # NoPiece /\ K # NoPiece
        /\ kingTo \in Squares /\ rookTo \in Squares /\ kingTo # rookTo
        /\ \A s \in {kingTo, rookTo} : s \in {from, to} \/ b[s] = NoPiece
    BY <1>1, <1>4, ManTypes, CastlingSquares DEF Playable, PromotionTypes
  <2>2. Delta(FeaturesOf(b), p, m) =
          AddFeature(AddFeature(RemoveFeature(RemoveFeature(FeaturesOf(b), K, from), R, to),
                                K, kingTo), R, rookTo)
    BY <1>4, <2>1 DEF Delta
  <2>3. result = b4
    BY <1>4 DEF BoardAfter
  <2>. HIDE DEF kingTo, rookTo, K, R, b, result
  <2>4. /\ b1 \in Boards /\ b1[to] = R /\ b2 \in Boards /\ b2[kingTo] = NoPiece
        /\ b3 \in Boards /\ b3[rookTo] = NoPiece
    BY <1>1, <2>1 DEF Boards
  <2>5. RemoveFeature(FeaturesOf(b), K, from) = FeaturesOf(b1)
    BY <1>1, <2>1, FeatureRemoved
  <2>6. RemoveFeature(FeaturesOf(b1), R, to) = FeaturesOf(b2)
    <3>. HIDE DEF b1
    <3>. QED BY <1>1, <2>1, <2>4, FeatureRemoved
  <2>7. AddFeature(FeaturesOf(b2), K, kingTo) = FeaturesOf(b3)
    <3>. HIDE DEF b2
    <3>. QED BY <2>1, <2>4, FeatureAdded
  <2>8. AddFeature(FeaturesOf(b3), R, rookTo) = FeaturesOf(b4)
    <3>. HIDE DEF b3
    <3>. QED BY <2>1, <2>4, FeatureAdded
  <2>. HIDE DEF b1, b2, b3, b4
  <2>. QED BY <1>2, <1>3, <2>2, <2>3, <2>5, <2>6, <2>7, <2>8
<1>5. CASE m.kind = "enPassant"
  <2>. DEFINE cap == to - PawnPush(us)
              pawn == MakePiece(Opposite(us), "pawn")
              b1 == [b EXCEPT ![cap] = NoPiece]
              b2 == [b1 EXCEPT ![from] = NoPiece, ![to] = b[from]]
  <2>1. cap \in Squares /\ b[cap] = pawn /\ b[cap] # NoPiece /\ b[to] = NoPiece /\ cap # from
    <3>1. cap \in Squares /\ b[cap] = pawn /\ b[to] = NoPiece
      BY <1>5 DEF Playable
    <3>2. Opposite(us) \in Colors /\ Opposite(us) # us /\ "pawn" \in PieceTypes
      BY <1>1, ManTypes DEF PieceTypes
    <3>3. Color(b[cap]) = Opposite(us) /\ b[cap] \in Pieces
      BY <3>1, <3>2, PieceFacts
    <3>4. Color(b[from]) = us
      BY DEF Playable
    <3>. HIDE DEF cap, pawn
    <3>. QED BY <3>1, <3>2, <3>3, <3>4, PieceFacts
  <2>2. Delta(FeaturesOf(b), p, m) =
          MoveFeature(RemoveFeature(FeaturesOf(b), pawn, cap), b[from], from, to)
    BY <1>5 DEF Delta
  <2>3. result = b2
    BY <1>5 DEF BoardAfter
  <2>. HIDE DEF cap, pawn, b, result
  <2>4. b1 \in Boards /\ b1[from] = b[from] /\ b1[to] = NoPiece
    BY <1>1, <2>1 DEF Boards
  <2>5. RemoveFeature(FeaturesOf(b), pawn, cap) = FeaturesOf(b1)
    BY <1>1, <2>1, FeatureRemoved
  <2>6. MoveFeature(FeaturesOf(b1), b[from], from, to) = FeaturesOf(b2)
    <3>. HIDE DEF b1
    <3>. QED BY <1>1, <2>4, FeatureMoved
  <2>. HIDE DEF b1, b2
  <2>. QED BY <1>2, <1>3, <2>2, <2>3, <2>5, <2>6
<1>. DEFINE bare == [b EXCEPT ![to] = NoPiece]
            taken == IF b[to] = NoPiece THEN FeaturesOf(b) ELSE RemoveFeature(FeaturesOf(b), b[to], to)
<1>6. taken = FeaturesOf(bare)
  <2>1. CASE b[to] = NoPiece
    <3>1. bare = b
      BY <1>1, <2>1 DEF Boards
    <3>. QED BY <2>1, <3>1
  <2>2. CASE b[to] # NoPiece
    BY <1>1, <2>2, FeatureRemoved
  <2>. QED BY <2>1, <2>2
<1>7. bare \in Boards /\ bare[from] = b[from] /\ bare[to] = NoPiece
  BY <1>1 DEF Boards
<1>8. CASE m.kind = "promotion"
  <2>. DEFINE x == MakePiece(us, m.promotion)
              b1 == [bare EXCEPT ![from] = NoPiece]
              b2 == [b1 EXCEPT ![to] = x]
  <2>1. x \in Pieces
    BY <1>1, <1>8, ManTypes DEF Playable
  <2>2. Delta(FeaturesOf(b), p, m) = AddFeature(RemoveFeature(taken, b[from], from), x, to)
    BY <1>8 DEF Delta
  <2>3. result = b2
    BY <1>1, <1>8 DEF BoardAfter, Boards
  <2>. HIDE DEF x, taken, result, b
  <2>4. b1 \in Boards /\ b1[to] = NoPiece
    BY <1>1, <1>7 DEF Boards
  <2>5. RemoveFeature(FeaturesOf(bare), b[from], from) = FeaturesOf(b1)
    <3>. HIDE DEF bare
    <3>. QED BY <1>1, <1>7, FeatureRemoved
  <2>6. AddFeature(FeaturesOf(b1), x, to) = FeaturesOf(b2)
    <3>. HIDE DEF b1
    <3>. QED BY <1>1, <2>1, <2>4, FeatureAdded
  <2>. HIDE DEF b1, b2, bare
  <2>. QED BY <1>2, <1>3, <1>6, <2>2, <2>3, <2>5, <2>6
<1>9. CASE m.kind = "normal"
  <2>. DEFINE b2 == [bare EXCEPT ![from] = NoPiece, ![to] = b[from]]
  <2>1. Delta(FeaturesOf(b), p, m) = MoveFeature(taken, b[from], from, to)
    BY <1>9 DEF Delta
  <2>2. result = b2
    BY <1>1, <1>9 DEF BoardAfter, Boards
  <2>3. MoveFeature(FeaturesOf(bare), b[from], from, to) = FeaturesOf(b2)
    <3>. HIDE DEF bare, b
    <3>. QED BY <1>1, <1>7, FeatureMoved
  <2>. HIDE DEF taken, result, b, bare, b2
  <2>. QED BY <1>2, <1>3, <1>6, <2>1, <2>2, <2>3
<1>. QED BY <1>4, <1>5, <1>8, <1>9 DEF Playable

-----------------------------------------------------------------------------
(***************************************************************************)
(* The attack tables stay on the board and lead away from their square.    *)
(***************************************************************************)
Directions == BishopDirs \cup RookDirs

\* Attacks land on the board, elsewhere: leaps,
LEMMA LeapsLand ==
    ASSUME NEW s \in Squares, NEW deltas, 0 \notin deltas, deltas \subseteq Int, NEW to \in Leaps(s, deltas)
    PROVE  to \in Squares /\ to # s
<1>1. PICK d \in deltas : to \in SafeDestination(s, d)
  BY DEF Leaps
<1>2. to = s + d /\ to \in Squares
  BY <1>1 DEF SafeDestination
<1>3. d \in Int /\ d # 0 /\ s \in Int
  BY DEF Squares
<1>4. s + d # s
  BY <1>3
<1>. QED BY <1>2, <1>4

\* rays,
LEMMA RaysLand ==
    ASSUME NEW s \in Squares, NEW d \in Directions, NEW k \in DOMAIN Ray[d][s]
    PROVE  Ray[d][s][k] \in Squares /\ Ray[d][s][k] # s
<1>1. Ray[d][s] = Walk(s, d)
  BY DEF Ray, Directions
<1>2. k \in 1..7 /\ SafeDestination(s + (k - 1) * d, d) # {} /\ Ray[d][s][k] = s + k * d
  BY <1>1 DEF Walk
<1>3. s + (k - 1) * d + d \in Squares
  BY <1>2 DEF SafeDestination
<1>4. d \in {9, 7, -7, -9, 8, -8, 1, -1} /\ s \in Int
  BY DEF Directions, BishopDirs, RookDirs, North, South, East, West, Squares
<1>5. s + (k - 1) * d + d = s + k * d /\ s + k * d # s
  BY <1>2, <1>4
<1>. QED BY <1>2, <1>3, <1>5

\* slides,
LEMMA SlidesLand ==
    ASSUME NEW s \in Squares, NEW occ, NEW dirs \in SUBSET Directions,
           NEW to \in SlidingAttacks(s, occ, dirs)
    PROVE  to \in Squares /\ to # s
  BY RaysLand DEF SlidingAttacks

\* the attacks of the pieces,
LEMMA AttacksLand ==
    ASSUME NEW pt \in {"knight", "bishop", "rook", "queen"}, NEW c, NEW s \in Squares, NEW occ,
           NEW to \in AttacksFrom(pt, c, s, occ)
    PROVE  to \in Squares /\ to # s
<1>1. BishopDirs \in SUBSET Directions /\ RookDirs \in SUBSET Directions
  BY DEF Directions
<1>2. CASE pt = "knight"
  <2>. DEFINE deltas == {-17, -15, -10, -6, 6, 10, 15, 17}
  <2>1. to \in Leaps(s, deltas) /\ 0 \notin deltas /\ deltas \subseteq Int
    BY <1>2 DEF AttacksFrom, KnightAttacks
  <2>. HIDE DEF deltas
  <2>. QED BY <2>1, LeapsLand
<1>3. CASE pt = "bishop"
  BY <1>1, <1>3, SlidesLand DEF AttacksFrom, BishopAttacks
<1>4. CASE pt = "rook"
  BY <1>1, <1>4, SlidesLand DEF AttacksFrom, RookAttacks
<1>5. CASE pt = "queen"
  BY <1>1, <1>5, SlidesLand DEF AttacksFrom, QueenAttacks, BishopAttacks, RookAttacks
<1>. QED BY <1>2, <1>3, <1>4, <1>5

\* the squares between two others,
LEMMA BetweenOnBoard ==
    ASSUME NEW a \in Squares, NEW b \in Squares
    PROVE  BetweenBB[a][b] \subseteq Squares
<1>1. BetweenBB[a][b] = UNION {SlidingAttacks(a, {b}, dirs) \cap SlidingAttacks(b, {a}, dirs)
                               : dirs \in Alignment(a, b)}
  BY DEF BetweenBB
<1>2. Alignment(a, b) \subseteq SUBSET Directions
  BY DEF Alignment, Directions
<1>. QED BY <1>1, <1>2, SlidesLand

\* the attacks of a pawn, which are no double step,
LEMMA PawnAttacksLand ==
    ASSUME NEW c \in Colors, NEW s \in Squares, NEW to \in PawnAttacks[c][s]
    PROVE  to \in Squares /\ to # s /\ Abs(to - s) # 16
<1>. DEFINE deltas == {PawnPush(c) + East, PawnPush(c) + West}
<1>1. to \in Leaps(s, deltas)
  BY DEF PawnAttacks
<1>2. 0 \notin deltas /\ deltas \subseteq Int /\ \A d \in deltas : d \in {9, 7, -7, -9}
  BY DEF PawnPush, North, South, East, West
<1>. HIDE DEF deltas
<1>3. to \in Squares /\ to # s
  BY <1>1, <1>2, LeapsLand
<1>4. \E d \in {9, 7, -7, -9} : to = s + d
  BY <1>1, <1>2 DEF Leaps, SafeDestination
<1>5. Abs(to - s) # 16
  BY <1>4 DEF Abs, Squares
<1>. QED BY <1>3, <1>5

\* and those of a king.
LEMMA KingAttacksLand ==
    ASSUME NEW s \in Squares, NEW to \in KingAttacks[s]
    PROVE  to \in Squares /\ to # s
<1>. DEFINE deltas == {-9, -8, -7, -1, 1, 7, 8, 9}
<1>1. to \in Leaps(s, deltas) /\ 0 \notin deltas /\ deltas \subseteq Int
  BY DEF KingAttacks
<1>. HIDE DEF deltas
<1>. QED BY <1>1, LeapsLand

\* What the bitboards say is on the board.
LEMMA PiecesStand ==
    ASSUME NEW p, Consistent(p), NEW c \in Colors
    PROVE  /\ p.byColor[c] = {s \in Squares : Color(p.board[s]) = c}
           /\ \A pt \in PieceTypes :
                PiecesOf(p, c, pt) = {s \in Squares : p.board[s] = MakePiece(c, pt)}
<1>1. \A s \in Squares : p.board[s] \in Pieces \/ p.board[s] = NoPiece
  BY DEF Consistent, Boards
<1>2. p.byColor[c] = {s \in Squares : Color(p.board[s]) = c}
  BY DEF Consistent, ColorsOf
<1>3. \A pt \in PieceTypes : p.byType[pt] = {s \in Squares : Type(p.board[s]) = pt}
  BY DEF Consistent, TypesOf
<1>4. \A pt \in PieceTypes, s \in Squares :
        Color(p.board[s]) = c /\ Type(p.board[s]) = pt <=> p.board[s] = MakePiece(c, pt)
  BY <1>1, PieceFacts
<1>. QED BY <1>2, <1>3, <1>4 DEF PiecesOf

\* A king that is there is where KingSquare looks.
LEMMA KingStands ==
    ASSUME NEW p, Consistent(p), NEW c \in Colors, PiecesOf(p, c, "king") # {}
    PROVE  KingSquare(p, c) \in Squares /\ p.board[KingSquare(p, c)] = MakePiece(c, "king")
<1>1. PiecesOf(p, c, "king") = {s \in Squares : p.board[s] = MakePiece(c, "king")}
  BY PiecesStand DEF PieceTypes
<1>2. PiecesOf(p, c, "king") \in SUBSET Nat
  BY <1>1 DEF Squares
<1>3. KingSquare(p, c) \in PiecesOf(p, c, "king")
  BY <1>2, LeastOf DEF KingSquare
<1>. QED BY <1>1, <1>3

-----------------------------------------------------------------------------
(***************************************************************************)
(* A sound position: what ParseFEN establishes, moves keep, and the        *)
(* generator relies on.                                                    *)
(***************************************************************************)
\* At most one king of each color.
KingsOnce(p) ==
    \A c \in Colors : \A s, t \in Squares :
      p.board[s] = MakePiece(c, "king") /\ p.board[t] = MakePiece(c, "king") => s = t

\* A right that is held: its rook stands on its side of the king, the way that must be
\* free is that of king and rook, and a move from or to either square revokes it.
RightSound(p, r) ==
    LET king == KingSquare(p, r[1])
        rook == p.castlingRook[r]
    IN  /\ rook \in Squares /\ p.board[rook] = MakePiece(r[1], "rook")
        /\ rook > king <=> r[2] = "king"
        /\ Rank(king) = HomeRank(r[1]) /\ Rank(rook) = HomeRank(r[1])
        /\ p.castlingPath[r] =
             (BetweenBB[king][CastlingKingTo(r)] \cup BetweenBB[rook][CastlingRookTo(r)]
                \cup {CastlingKingTo(r), CastlingRookTo(r)}) \ {king, rook}
        /\ r \notin p.crMask[king] /\ r \notin p.crMask[rook]

\* What is the same of two positions carries a right over.
LEMMA RightCarried ==
    ASSUME NEW p, NEW r, RightSound(p, r), NEW q, KingSquare(q, r[1]) = KingSquare(p, r[1]),
           q.castlingRook[r] = p.castlingRook[r], q.castlingPath[r] = p.castlingPath[r],
           q.board[p.castlingRook[r]] = p.board[p.castlingRook[r]],
           q.crMask[KingSquare(p, r[1])] \subseteq p.crMask[KingSquare(p, r[1])],
           q.crMask[p.castlingRook[r]] \subseteq p.crMask[p.castlingRook[r]]
    PROVE  RightSound(q, r)
  BY DEF RightSound

\* A target is behind a pawn of the side not to move.
TargetSound(p) ==
    LET behind == p.epSquare - PawnPush(p.side)
    IN  /\ p.epSquare \in Squares /\ behind \in Squares
        /\ p.board[p.epSquare] = NoPiece /\ p.board[behind] = MakePiece(Opposite(p.side), "pawn")

Sound(p) ==
    /\ Consistent(p) /\ p.side \in Colors /\ p.fullmove \in Int /\ p.halfmove \in Nat /\ Keyed(p)
    /\ KingsOnce(p)
    /\ p.castling \subseteq Rights /\ \A r \in p.castling : RightSound(p, r)
    /\ p.epSquare # NoSquare => TargetSound(p)

BothKings(p) == \A c \in Colors : PiecesOf(p, c, "king") # {}

\* The generated moves fit the pieces: those of the king,
LEMMA KingMovesPlayable ==
    ASSUME NEW p, Sound(p), BothKings(p), NEW them, NEW occ, NEW targets,
           NEW m \in KingMoves(p, KingSquare(p, p.side), them, occ, targets)
    PROVE  Playable(p.board, p.side, m)
<1>. DEFINE ksq == KingSquare(p, p.side)
<1>1. ksq \in Squares /\ p.board[ksq] = MakePiece(p.side, "king") /\ p.side \in Colors
  BY KingStands DEF Sound, BothKings
<1>. HIDE DEF ksq
<1>2. PICK to \in KingAttacks[ksq] : m = Normal(ksq, to)
  BY DEF KingMoves, ksq
<1>3. to \in Squares /\ to # ksq
  BY <1>1, KingAttacksLand
<1>4. /\ m.kind = "normal" /\ m.from = ksq /\ m.to = to
  BY <1>2 DEF Normal
<1>5. /\ p.board[ksq] \in Pieces /\ Color(p.board[ksq]) = p.side /\ Type(p.board[ksq]) = "king"
  BY <1>1, PieceFacts DEF PieceTypes
<1>. QED BY <1>1, <1>3, <1>4, <1>5 DEF Playable

\* those of the pieces,
LEMMA PieceMovesPlayable ==
    ASSUME NEW p, Sound(p), NEW targets, NEW pinned, NEW ksq, NEW occ,
           NEW m \in PieceMoves(p, p.side, targets, pinned, ksq, occ)
    PROVE  Playable(p.board, p.side, m)
<1>1. PICK pt \in {"knight", "bishop", "rook", "queen"} :
        \E from \in PiecesOf(p, p.side, pt) :
          \E to \in AttacksFrom(pt, p.side, from, occ) : m = Normal(from, to)
  BY DEF PieceMoves
<1>2. PICK from, to : /\ from \in PiecesOf(p, p.side, pt) /\ to \in AttacksFrom(pt, p.side, from, occ)
                     /\ m = Normal(from, to)
  BY <1>1
<1>3. from \in Squares /\ p.board[from] = MakePiece(p.side, pt) /\ p.side \in Colors
  <2>1. Consistent(p) /\ p.side \in Colors /\ pt \in PieceTypes
    BY DEF Sound, PieceTypes
  <2>2. PiecesOf(p, p.side, pt) = {s \in Squares : p.board[s] = MakePiece(p.side, pt)}
    BY <2>1, PiecesStand
  <2>. QED BY <1>2, <2>1, <2>2
<1>4. to \in Squares /\ to # from
  BY <1>2, <1>3, AttacksLand
<1>5. m.kind = "normal" /\ m.from = from /\ m.to = to
  BY <1>2 DEF Normal
<1>6. p.board[from] \in Pieces /\ Color(p.board[from]) = p.side /\ Type(p.board[from]) # "pawn"
  BY <1>1, <1>3, PieceFacts DEF PieceTypes
<1>. QED BY <1>3, <1>4, <1>5, <1>6 DEF Playable

\* castling,
LEMMA CastlingPlayable ==
    ASSUME NEW p, Sound(p), BothKings(p), NEW m \in CastlingMoves(p, p.side, Occupied(p))
    PROVE  Playable(p.board, p.side, m)
<1>. DEFINE us == p.side
            ksq == KingSquare(p, us)
<1>1. ksq \in Squares /\ p.board[ksq] = MakePiece(us, "king") /\ us \in Colors
  BY KingStands DEF Sound, BothKings
<1>2. PICK r \in ColorRights(us) : CastlingAllowed(p, r, Occupied(p)) /\ m = Castling(ksq, p.castlingRook[r])
  BY DEF CastlingMoves
<1>. DEFINE rook == p.castlingRook[r]
<1>3. r[1] = us /\ r \in Rights /\ r = <<us, r[2]>> /\ r[2] \in {"king", "queen"}
  BY <1>1 DEF ColorRights, Rights, Wings
<1>4. r \in p.castling /\ Occupied(p) \cap p.castlingPath[r] = {} /\ p.board[rook] = MakePiece(us, "rook")
  BY <1>2, <1>3 DEF CastlingAllowed
<1>5. /\ rook \in Squares /\ (rook > ksq <=> r[2] = "king")
      /\ {CastlingKingTo(r), CastlingRookTo(r)} \ {ksq, rook} \subseteq p.castlingPath[r]
  BY <1>3, <1>4 DEF Sound, RightSound
<1>. HIDE DEF ksq, rook
<1>6. m.kind = "castling" /\ m.from = ksq /\ m.to = rook
  BY <1>2 DEF Castling, rook
<1>7. CastlingRight(us, m) = r
  BY <1>3, <1>5, <1>6 DEF CastlingRight
<1>8. CastlingKingTo(r) \in Squares /\ CastlingRookTo(r) \in Squares
  BY <1>1, <1>7, CastlingSquares
<1>9. \A s \in {CastlingKingTo(r), CastlingRookTo(r)} : s \in {ksq, rook} \/ p.board[s] = NoPiece
  <2>1. Occupied(p) = Manned(p.board)
    BY RefreshReadsBoard DEF Sound
  <2>. QED BY <1>4, <1>5, <1>8, <2>1 DEF Manned
<1>10. /\ p.board[ksq] \in Pieces /\ Color(p.board[ksq]) = us /\ ksq # rook
  <2>1. Type(p.board[ksq]) = "king" /\ Type(p.board[rook]) = "rook" /\ p.board[ksq] \in Pieces
        /\ Color(p.board[ksq]) = us
    BY <1>1, <1>4, PieceFacts DEF PieceTypes
  <2>. QED BY <2>1
<1>. QED BY <1>1, <1>4, <1>5, <1>6, <1>7, <1>9, <1>10 DEF Playable

\* A push goes one or two squares ahead.
LEMMA PushesLand ==
    ASSUME NEW us \in Colors, NEW from \in Squares, NEW quiet \in SUBSET Squares, NEW occ,
           NEW to \in Pushes(from, us, quiet, occ)
    PROVE  to \in Squares /\ to # from /\ (Abs(to - from) = 16 => to = from + 2 * PawnPush(us))
<1>1. to \in Squares /\ (to = from + PawnPush(us) \/ to = from + PawnPush(us) + PawnPush(us))
  BY DEF Pushes
<1>2. PawnPush(us) \in {8, -8} /\ from \in Int
  BY DEF PawnPush, North, South, Squares
<1>3. to # from /\ (Abs(to - from) = 16 => to = from + 2 * PawnPush(us))
  BY <1>1, <1>2 DEF Abs
<1>. QED BY <1>1, <1>3

\* and the moves of pawns, en passant included.
LEMMA PawnMovesPlayable ==
    ASSUME NEW p, Sound(p), NEW targets, NEW quiet \in SUBSET Squares, NEW pinned, NEW ksq, NEW occ,
           NEW m \in PawnMoves(p, p.side, targets, quiet, pinned, ksq, occ)
    PROVE  Playable(p.board, p.side, m)
<1>. DEFINE us == p.side
            pawns == PiecesOf(p, us, "pawn")
            promoRank == IF us = White THEN 7 ELSE 0
<1>1. us \in Colors /\ pawns = {s \in Squares : p.board[s] = MakePiece(us, "pawn")}
  BY PiecesStand DEF Sound, PieceTypes
<1>2. ASSUME NEW s \in pawns
      PROVE  /\ s \in Squares /\ p.board[s] = MakePiece(us, "pawn")
             /\ p.board[s] \in Pieces /\ Color(p.board[s]) = us /\ p.board[s] # NoPiece
  BY <1>1, ManTypes, PieceFacts DEF PieceTypes
<1>3. CASE \E from \in pawns :
             \E to \in Pushes(from, us, quiet, occ) \cup PawnAttacks[us][from] :
               m \in PawnMove(from, to, promoRank)
  <2>1. PICK from \in pawns : \E to \in Pushes(from, us, quiet, occ) \cup PawnAttacks[us][from] :
               m \in PawnMove(from, to, promoRank)
    BY <1>3
  <2>2. PICK to \in Pushes(from, us, quiet, occ) \cup PawnAttacks[us][from] :
               m \in PawnMove(from, to, promoRank)
    BY <2>1
  <2>3. from \in Squares
    BY <1>2
  <2>4. to \in Squares /\ to # from /\ (Abs(to - from) = 16 => to = from + 2 * PawnPush(us))
    <3>1. CASE to \in Pushes(from, us, quiet, occ)
      BY <1>1, <2>3, <3>1, PushesLand
    <3>2. CASE to \in PawnAttacks[us][from]
      BY <1>1, <2>3, <3>2, PawnAttacksLand
    <3>. QED BY <2>2, <3>1, <3>2
  <2>5. CASE m = Normal(from, to)
    <3>1. m.kind = "normal" /\ m.from = from /\ m.to = to
      BY <2>5 DEF Normal
    <3>. HIDE DEF pawns
    <3>. QED BY <1>2, <2>3, <2>4, <3>1 DEF Playable
  <2>6. CASE \E pt \in {"queen", "rook", "bishop", "knight"} : m = Promotion(from, to, pt)
    <3>1. m.kind = "promotion" /\ m.from = from /\ m.to = to /\ m.promotion \in PromotionTypes
      BY <2>6 DEF Promotion, PromotionTypes
    <3>. HIDE DEF pawns
    <3>. QED BY <1>2, <2>3, <2>4, <3>1 DEF Playable
  <2>. QED BY <2>2, <2>5, <2>6 DEF PawnMove
<1>4. CASE p.epSquare # NoSquare /\ \E from \in pawns : m = EnPassant(from, p.epSquare)
  <2>1. PICK from \in pawns : m = EnPassant(from, p.epSquare)
    BY <1>4
  <2>2. m.kind = "enPassant" /\ m.from = from /\ m.to = p.epSquare
    BY <2>1 DEF EnPassant
  <2>3. TargetSound(p)
    BY <1>4 DEF Sound
  <2>4. from # p.epSquare
    BY <1>2, <2>3 DEF TargetSound
  <2>. HIDE DEF pawns
  <2>. QED BY <1>2, <2>2, <2>3, <2>4 DEF Playable, TargetSound
<1>. HIDE DEF pawns
<1>. QED BY <1>3, <1>4 DEF PawnMoves, pawns

\* Every move that is generated fits the pieces, so that making it moves one.
LEMMA GeneratedPlayable ==
    ASSUME NEW p, Sound(p), BothKings(p), NEW m \in GenerateLegalMoves(p)
    PROVE  Playable(p.board, p.side, m)
<1>. DEFINE us == p.side
            them == Opposite(us)
            ksq == KingSquare(p, us)
            occ == Occupied(p)
            checkers == Checkers(p)
            notOurs == Squares \ p.byColor[us]
            targets == IF checkers = {} THEN notOurs ELSE checkers \cup BetweenBB[ksq][Min(checkers)]
            pinned == BlockersForKing(p, us) \cap p.byColor[us]
<1>1. \/ m \in KingMoves(p, ksq, them, occ, notOurs)
      \/ m \in CastlingMoves(p, us, occ)
      \/ m \in PawnMoves(p, us, targets, targets, pinned, ksq, occ)
      \/ m \in PieceMoves(p, us, targets, pinned, ksq, occ)
  BY DEF GenerateLegalMoves, Generate
<1>2. ksq \in Squares /\ us \in Colors /\ them \in Colors
  BY KingStands, ManTypes DEF Sound, BothKings
<1>3. checkers \in SUBSET Squares
  <2>1. p.byColor[them] \subseteq Squares
    BY <1>2, PiecesStand DEF Sound
  <2>. QED BY <2>1 DEF Checkers
<1>. HIDE DEF checkers, ksq, them
<1>4. targets \in SUBSET Squares
  <2>1. CASE checkers # {}
    <3>1. Min(checkers) \in Squares
      <4>1. checkers \in SUBSET Nat
        BY <1>3 DEF Squares
      <4>. QED BY <1>3, <2>1, <4>1, LeastOf
    <3>. QED BY <1>2, <1>3, <2>1, <3>1, BetweenOnBoard
  <2>. QED BY <2>1
<1>5. CASE m \in KingMoves(p, ksq, them, occ, notOurs)
  BY <1>5, KingMovesPlayable DEF ksq
<1>6. CASE m \in CastlingMoves(p, us, occ)
  BY <1>6, CastlingPlayable
<1>. HIDE DEF targets, pinned, notOurs
<1>7. CASE m \in PawnMoves(p, us, targets, targets, pinned, ksq, occ)
  BY <1>4, <1>7, PawnMovesPlayable
<1>8. CASE m \in PieceMoves(p, us, targets, pinned, ksq, occ)
  BY <1>8, PieceMovesPlayable
<1>. QED BY <1>1, <1>5, <1>6, <1>7, <1>8

\* Where the kings are after a move.
LEMMA KingsAfter ==
    ASSUME NEW b \in Boards, NEW us \in Colors, NEW m, Playable(b, us, m), NEW c \in Colors, NEW s \in Squares
    PROVE  LET d == BoardAfter(b, us, m)
               K == MakePiece(c, "king")
               arrival == IF m.kind = "castling" THEN CastlingKingTo(CastlingRight(us, m)) ELSE m.to
           IN  /\ d[s] = K => \/ b[s] = K /\ s \notin {m.from, m.to}
                              \/ b[m.from] = K /\ s = arrival
               /\ b[s] = K /\ s \notin {m.from, m.to} => d[s] = K
<1>. DEFINE d == BoardAfter(b, us, m)
            K == MakePiece(c, "king")
            from == m.from
            to == m.to
            kingTo == CastlingKingTo(CastlingRight(us, m))
            rookTo == CastlingRookTo(CastlingRight(us, m))
<1>1. /\ from \in Squares /\ to \in Squares /\ from # to /\ b[from] \in Pieces /\ K # NoPiece
      /\ kingTo \in Squares /\ rookTo \in Squares /\ kingTo # rookTo
  <2>1. K \in Pieces
    BY ManTypes
  <2>. QED BY <2>1, CastlingSquares, ManTypes DEF Playable
<1>2. \A x \in Colors, pt \in {"pawn", "rook"} \cup PromotionTypes : MakePiece(x, pt) # K
  BY DEF MakePiece, PromotionTypes
<1>3. CASE m.kind = "castling"
  <2>. DEFINE R == MakePiece(us, "rook")
              MyKing == MakePiece(us, "king")
  <2>1. b[from] = MyKing /\ b[to] = R /\ \A t \in {kingTo, rookTo} : t \in {from, to} \/ b[t] = NoPiece
    BY <1>3 DEF Playable
  <2>2. d = [b EXCEPT ![from] = NoPiece, ![to] = NoPiece, ![kingTo] = MyKing, ![rookTo] = R]
    BY <1>3 DEF BoardAfter
  <2>3. R # K
    BY <1>2
  <2>. HIDE DEF d, kingTo, rookTo, K, R, MyKing
  <2>4. d[s] = IF s = rookTo THEN R ELSE IF s = kingTo THEN MyKing
               ELSE IF s \in {from, to} THEN NoPiece ELSE b[s]
    BY <1>1, <2>2 DEF Boards
  <2>5. d[s] = K => (b[s] = K /\ s \notin {from, to}) \/ (b[from] = K /\ s = kingTo)
    BY <1>1, <2>1, <2>3, <2>4
  <2>6. b[s] = K /\ s \notin {from, to} => d[s] = K
    BY <1>1, <2>1, <2>3, <2>4
  <2>. QED BY <1>3, <2>5, <2>6 DEF d, K, kingTo
<1>4. CASE m.kind = "enPassant"
  <2>. DEFINE cap == to - PawnPush(us)
              pawn == MakePiece(Opposite(us), "pawn")
  <2>1. cap \in Squares /\ b[cap] = pawn /\ b[to] = NoPiece
    BY <1>4 DEF Playable
  <2>2. d = [b EXCEPT ![cap] = NoPiece, ![from] = NoPiece, ![to] = b[from]]
    BY <1>4 DEF BoardAfter
  <2>3. pawn # K
    BY <1>2, ManTypes
  <2>. HIDE DEF d, cap, K, pawn
  <2>4. d[s] = IF s = to THEN b[from] ELSE IF s \in {from, cap} THEN NoPiece ELSE b[s]
    BY <1>1, <2>1, <2>2 DEF Boards
  <2>5. d[s] = K => (b[s] = K /\ s \notin {from, to}) \/ (b[from] = K /\ s = to)
    BY <1>1, <2>4
  <2>6. b[s] = K /\ s \notin {from, to} => d[s] = K
    BY <2>1, <2>3, <2>4
  <2>. QED BY <1>4, <2>5, <2>6 DEF d, K
<1>5. CASE m.kind = "promotion"
  <2>1. d = [b EXCEPT ![from] = NoPiece, ![to] = MakePiece(us, m.promotion)]
    BY <1>5 DEF BoardAfter
  <2>2. MakePiece(us, m.promotion) # K
    BY <1>2, <1>5 DEF Playable
  <2>. HIDE DEF d, K
  <2>3. d[s] = IF s = to THEN MakePiece(us, m.promotion) ELSE IF s = from THEN NoPiece ELSE b[s]
    BY <1>1, <2>1 DEF Boards
  <2>4. d[s] = K => b[s] = K /\ s \notin {from, to}
    BY <1>1, <2>2, <2>3
  <2>5. b[s] = K /\ s \notin {from, to} => d[s] = K
    BY <2>3
  <2>. QED BY <1>5, <2>4, <2>5 DEF d, K
<1>6. CASE m.kind = "normal"
  <2>1. d = [b EXCEPT ![from] = NoPiece, ![to] = b[from]]
    BY <1>6 DEF BoardAfter
  <2>. HIDE DEF d, K
  <2>2. d[s] = IF s = to THEN b[from] ELSE IF s = from THEN NoPiece ELSE b[s]
    BY <1>1, <2>1 DEF Boards
  <2>3. d[s] = K => (b[s] = K /\ s \notin {from, to}) \/ (b[from] = K /\ s = to)
    BY <1>1, <2>2
  <2>4. b[s] = K /\ s \notin {from, to} => d[s] = K
    BY <2>2
  <2>. QED BY <1>6, <2>3, <2>4 DEF d, K
<1>. QED BY <1>3, <1>4, <1>5, <1>6 DEF Playable

\* There is one king to find.
LEMMA KingFound ==
    ASSUME NEW p, Consistent(p), KingsOnce(p), NEW c \in Colors, NEW s \in Squares,
           p.board[s] = MakePiece(c, "king")
    PROVE  KingSquare(p, c) = s
<1>1. s \in PiecesOf(p, c, "king")
  BY PiecesStand DEF PieceTypes
<1>2. KingSquare(p, c) \in Squares /\ p.board[KingSquare(p, c)] = MakePiece(c, "king")
  BY <1>1, KingStands
<1>. QED BY <1>2 DEF KingsOnce

\* A rook stays where it is when others move.
LEMMA RookStays ==
    ASSUME NEW b \in Boards, NEW us \in Colors, NEW m, Playable(b, us, m), NEW c \in Colors, NEW s \in Squares,
           b[s] = MakePiece(c, "rook"), s \notin {m.from, m.to}
    PROVE  BoardAfter(b, us, m)[s] = b[s]
<1>. DEFINE from == m.from
            to == m.to
            kingTo == CastlingKingTo(CastlingRight(us, m))
            rookTo == CastlingRookTo(CastlingRight(us, m))
<1>1. MakePiece(c, "rook") # NoPiece /\ MakePiece(c, "rook") # MakePiece(Opposite(us), "pawn")
  BY DEF MakePiece, NoPiece
<1>2. from \in Squares /\ to \in Squares
  BY DEF Playable
<1>3. CASE m.kind = "castling"
  <2>1. BoardAfter(b, us, m) = [b EXCEPT ![from] = NoPiece, ![to] = NoPiece, ![kingTo] = MakePiece(us, "king"),
                                         ![rookTo] = MakePiece(us, "rook")]
    BY <1>3 DEF BoardAfter
  <2>2. s \notin {kingTo, rookTo}
    BY <1>1, <1>3 DEF Playable
  <2>3. kingTo \in Squares /\ rookTo \in Squares
    BY CastlingSquares
  <2>. HIDE DEF from, to, kingTo, rookTo
  <2>. QED BY <1>2, <2>1, <2>2, <2>3 DEF Boards, from, to
<1>4. CASE m.kind = "enPassant"
  <2>. DEFINE cap == to - PawnPush(us)
  <2>1. BoardAfter(b, us, m) = [b EXCEPT ![cap] = NoPiece, ![from] = NoPiece, ![to] = b[from]]
    BY <1>4 DEF BoardAfter
  <2>2. cap \in Squares /\ s # cap
    BY <1>1, <1>4 DEF Playable
  <2>. HIDE DEF from, to, cap
  <2>. QED BY <1>2, <2>1, <2>2 DEF Boards, from, to
<1>5. CASE m.kind \in {"normal", "promotion"}
  <2>1. \E X : BoardAfter(b, us, m) = [b EXCEPT ![from] = NoPiece, ![to] = X]
    BY <1>5 DEF BoardAfter
  <2>. QED BY <1>2, <2>1 DEF Boards
<1>. QED BY <1>3, <1>4, <1>5 DEF Playable

\* A move that fits the pieces leaves a sound position: rights and target too.
LEMMA MoveKeepsSound ==
    ASSUME NEW p, Sound(p), BothKings(p), NEW m, Playable(p.board, p.side, m)
    PROVE  Sound(MakeMove(p, m))
<1>. DEFINE us == p.side
            b == p.board
            q == MakeMove(p, m)
            d == BoardAfter(b, us, m)
            epSq == m.from + PawnPush(us)
<1>1. /\ Consistent(q) /\ q.board = d /\ q.side = Opposite(us)
      /\ q.fullmove = IF us = Black THEN p.fullmove + 1 ELSE p.fullmove
      /\ q.halfmove = IF Irreversible(p, m) THEN 0 ELSE p.halfmove + 1
      /\ q.castling = p.castling \cap p.crMask[m.from] \cap p.crMask[m.to]
      /\ q.castlingRook = p.castlingRook /\ q.castlingPath = p.castlingPath /\ q.crMask = p.crMask
      /\ \/ q.epSquare = NoSquare
         \/ /\ q.epSquare = epSq /\ epSq \in Squares
            /\ m.kind = "normal" /\ Type(b[m.from]) = "pawn"
            /\ m.to = m.from + 2 * PawnPush(us) /\ q.board[epSq] = NoPiece
      /\ Keyed(q)
  BY MoveMade DEF Sound
<1>2. b \in Boards /\ us \in Colors /\ Consistent(p) /\ KingsOnce(p)
  BY DEF Sound, Consistent
<1>3. q.side \in Colors /\ q.fullmove \in Int /\ q.halfmove \in Nat
  <2>1. q.fullmove \in Int /\ q.halfmove \in Nat
    BY <1>1 DEF Sound
  <2>. QED BY <1>1, <1>2, <2>1, ManTypes
<1>. HIDE DEF q, d
<1>4. KingsOnce(q)
  <2>. SUFFICES ASSUME NEW c \in Colors, NEW s \in Squares, NEW t \in Squares,
                       d[s] = MakePiece(c, "king"), d[t] = MakePiece(c, "king")
                PROVE  s = t
    BY <1>1 DEF KingsOnce
  <2>. DEFINE K == MakePiece(c, "king")
              arrival == IF m.kind = "castling" THEN CastlingKingTo(CastlingRight(us, m)) ELSE m.to
  <2>1. \A x \in {s, t} : \/ b[x] = K /\ x \notin {m.from, m.to}
                          \/ b[m.from] = K /\ x = arrival
    BY <1>2, KingsAfter DEF d
  <2>2. m.from \in Squares
    BY DEF Playable
  <2>. HIDE DEF K, arrival
  <2>3. \A x, y \in Squares : b[x] = K /\ b[y] = K => x = y
    BY <1>2 DEF KingsOnce, K
  <2>. QED BY <2>1, <2>2, <2>3
<1>5. ASSUME NEW r \in q.castling PROVE RightSound(q, r)
  <2>. DEFINE c == r[1]
              k == KingSquare(p, c)
  <2>1. r \in p.castling /\ r \in p.crMask[m.from] /\ r \in p.crMask[m.to]
    BY <1>1, <1>5
  <2>2. RightSound(p, r) /\ c \in Colors
    BY <2>1 DEF Sound, Rights
  <2>3. k \in Squares /\ b[k] = MakePiece(c, "king")
    BY <1>2, <2>2, KingStands DEF BothKings
  <2>4. k \notin {m.from, m.to}
    BY <2>1, <2>2 DEF RightSound
  <2>. HIDE DEF k, c
  <2>5. d[k] = MakePiece(c, "king")
    BY <1>2, <2>2, <2>3, <2>4, KingsAfter DEF d
  <2>6. KingSquare(q, c) = k
    BY <1>1, <1>4, <2>2, <2>3, <2>5, KingFound
  <2>7. d[p.castlingRook[r]] = p.board[p.castlingRook[r]]
    <3>1. /\ p.castlingRook[r] \in Squares /\ b[p.castlingRook[r]] = MakePiece(c, "rook")
          /\ p.castlingRook[r] \notin {m.from, m.to}
      BY <2>1, <2>2 DEF RightSound, c
    <3>. QED BY <1>2, <2>2, <3>1, RookStays DEF d
  <2>. QED BY <1>1, <2>2, <2>6, <2>7, RightCarried DEF k, c
<1>6. ASSUME q.epSquare # NoSquare PROVE TargetSound(q)
  <2>1. /\ q.epSquare = epSq /\ epSq \in Squares /\ m.kind = "normal"
        /\ Type(b[m.from]) = "pawn" /\ m.to = m.from + 2 * PawnPush(us) /\ d[epSq] = NoPiece
    BY <1>1, <1>6
  <2>2. m.from \in Squares /\ m.to \in Squares /\ m.from # m.to /\ b[m.from] \in Pieces /\ Color(b[m.from]) = us
    BY DEF Playable
  <2>3. epSq - PawnPush(q.side) = m.to
    BY <1>1, <1>2, <2>1, <2>2, PushPasses
  <2>4. d[m.to] = b[m.from]
    BY <1>2, <2>1, <2>2 DEF d, BoardAfter, Boards
  <2>5. b[m.from] = MakePiece(us, "pawn")
    BY <2>1, <2>2, PieceFacts
  <2>6. Opposite(q.side) = us
    BY <1>1, <1>2, ManTypes
  <2>. HIDE DEF epSq
  <2>. QED BY <1>1, <2>1, <2>2, <2>3, <2>4, <2>5, <2>6 DEF TargetSound
<1>7. q.castling \subseteq Rights
  BY <1>1 DEF Sound
<1>8. Sound(q)
  BY <1>1, <1>3, <1>4, <1>5, <1>6, <1>7 DEF Sound
<1>. QED BY <1>8 DEF q

\* So does a null move.
LEMMA NullMoveKeepsSound ==
    ASSUME NEW p, Sound(p)
    PROVE  Sound(MakeNullMove(p))
<1>. DEFINE q == MakeNullMove(p)
<1>1. /\ Consistent(q) /\ q.board = p.board /\ q.side = Opposite(p.side)
      /\ q.fullmove = IF p.side = Black THEN p.fullmove + 1 ELSE p.fullmove
      /\ q.epSquare = NoSquare /\ q.castling = p.castling /\ q.halfmove = 0
      /\ q.castlingRook = p.castlingRook /\ q.castlingPath = p.castlingPath /\ q.crMask = p.crMask
      /\ Keyed(q)
  BY NullMoveMade DEF Sound
<1>. HIDE DEF q
<1>2. q.side \in Colors /\ q.fullmove \in Int /\ q.halfmove \in Nat
  <2>1. q.fullmove \in Int /\ q.halfmove \in Nat
    BY <1>1 DEF Sound
  <2>. QED BY <1>1, <2>1, ManTypes DEF Sound
<1>3. KingsOnce(q)
  BY <1>1 DEF Sound, KingsOnce
<1>4. ASSUME NEW r \in q.castling PROVE RightSound(q, r)
  <2>1. KingSquare(q, r[1]) = KingSquare(p, r[1])
    BY <1>1 DEF Sound, Consistent, KingSquare, PiecesOf
  <2>2. RightSound(p, r)
    BY <1>1 DEF Sound
  <2>. QED BY <1>1, <2>1, <2>2, RightCarried
<1>5. q.castling \subseteq Rights
  BY <1>1 DEF Sound
<1>6. Sound(q)
  BY <1>1, <1>2, <1>3, <1>4, <1>5 DEF Sound
<1>. QED BY <1>6 DEF q

-----------------------------------------------------------------------------
(***************************************************************************)
(* A position from a FEN is sound.                                         *)
(***************************************************************************)
LEMMA PlacedFacts ==
    ASSUME NEW fen \in FENs, Valid(fen)
    PROVE  LET p == Placed(fen)
           IN  Consistent(p) /\ BothKings(p) /\ KingsOnce(p)
<1>. DEFINE p == Placed(fen)
<1>1. fen.board \in Boards
  BY DEF FENs, Boards
<1>2. Consistent(p)
  <2>1. p.board = fen.board /\ p.byType = TypesOf(fen.board) /\ p.byColor = ColorsOf(fen.board)
    BY DEF Placed, TypesOf, ColorsOf
  <2>2. IsPosition(p)
    BY DEF Placed, IsPosition, Fields
  <2>. HIDE DEF p
  <2>. QED BY <1>1, <2>1, <2>2 DEF Consistent
<1>3. \A c \in Colors : Cardinality(PiecesOf(p, c, "king")) = 1
  BY DEF Valid
<1>. HIDE DEF p
<1>4. ASSUME NEW c \in Colors
      PROVE  \E k \in Squares : PiecesOf(p, c, "king") = {k}
  <2>1. PiecesOf(p, c, "king") \in SUBSET Squares
    BY <1>2, PiecesStand DEF PieceTypes
  <2>2. IsFiniteSet(PiecesOf(p, c, "king"))
    <3>1. IsFiniteSet(Squares)
      <4>. DEFINE n == 63
      <4>1. n \in Int /\ 0 \in Int /\ Squares = 0 .. n
        BY DEF Squares
      <4>. HIDE DEF n
      <4>. QED BY <4>1, FS_Interval
    <3>. QED BY <2>1, <3>1, FS_Subset
  <2>3. \E k : PiecesOf(p, c, "king") = {k}
    BY <1>3, <2>2, FS_Singleton
  <2>. QED BY <2>1, <2>3
<1>5. KingsOnce(p)
  <2>. SUFFICES ASSUME NEW c \in Colors, NEW s \in Squares, NEW t \in Squares,
                       p.board[s] = MakePiece(c, "king"), p.board[t] = MakePiece(c, "king")
                PROVE  s = t
    BY DEF KingsOnce
  <2>1. s \in PiecesOf(p, c, "king") /\ t \in PiecesOf(p, c, "king")
    BY <1>2, PiecesStand DEF PieceTypes
  <2>. QED BY <1>4, <2>1
<1>. QED BY <1>2, <1>4, <1>5 DEF BothKings, p

\* What holds while the flags are parsed.
Flagged(p, fen) ==
    /\ Consistent(p) /\ p.board = fen.board /\ p.side = fen.side /\ p.fullmove = fen.fullmove
    /\ p.halfmove = fen.halfmove /\ p.epSquare = NoSquare
    /\ p.castling \subseteq Rights /\ \A r \in p.castling : RightSound(p, r)
    /\ p.castlingRook = [r \in Rights |-> p.castlingRook[r]]
    /\ p.castlingPath = [r \in Rights |-> p.castlingPath[r]]
    /\ p.crMask = [s \in Squares |-> p.crMask[s]]

\* SetCastlingRight gives a right that is sound, and spoils none it gave before.
LEMMA RightSet ==
    ASSUME NEW fen, NEW p, Flagged(p, fen), BothKings(p), NEW r \in Rights, NEW rook \in Squares,
           p.board[rook] = MakePiece(r[1], "rook"),
           rook > KingSquare(p, r[1]) <=> r[2] = "king",
           Rank(KingSquare(p, r[1])) = HomeRank(r[1]), Rank(rook) = HomeRank(r[1])
    PROVE  Flagged(SetCastlingRight(p, r, rook), fen)
<1>. DEFINE king == KingSquare(p, r[1])
            kingTo == CastlingKingTo(r)
            rookTo == CastlingRookTo(r)
            path == (BetweenBB[king][kingTo] \cup BetweenBB[rook][rookTo] \cup {kingTo, rookTo})
                      \ {king, rook}
            mask == [p.crMask EXCEPT ![king] = @ \ ColorRights(r[1]), ![rook] = @ \ {r}]
            q == SetCastlingRight(p, r, rook)
<1>1. r[1] \in Colors /\ r = <<r[1], r[2]>> /\ r \in ColorRights(r[1])
  BY DEF Rights, ColorRights
<1>2. king \in Squares /\ p.board[king] = MakePiece(r[1], "king") /\ king # rook
  <2>1. king \in Squares /\ p.board[king] = MakePiece(r[1], "king")
    BY <1>1, KingStands DEF Flagged, BothKings
  <2>2. MakePiece(r[1], "king") # MakePiece(r[1], "rook")
    BY DEF MakePiece
  <2>. QED BY <2>1, <2>2
<1>3. q = [p EXCEPT !.castling = @ \cup {r}, !.castlingRook[r] = rook, !.castlingPath[r] = path,
                    !.crMask = mask]
  BY DEF SetCastlingRight
<1>4. path = (BetweenBB[king][kingTo] \cup BetweenBB[rook][rookTo] \cup {kingTo, rookTo}) \ {king, rook}
  OBVIOUS
<1>5. /\ mask = [s \in Squares |-> mask[s]] /\ r \notin mask[king] /\ r \notin mask[rook]
      /\ \A s \in Squares : mask[s] \subseteq p.crMask[s]
  <2>1. p.crMask = [s \in Squares |-> p.crMask[s]]
    BY DEF Flagged
  <2>. HIDE DEF king
  <2>. QED BY <1>1, <1>2, <2>1
<1>. HIDE DEF king, path, mask, q, kingTo, rookTo
<1>6. /\ AlikeBut(p, q, {"castling", "castlingRook", "castlingPath", "crMask"})
      /\ q.castling = p.castling \cup {r} /\ q.crMask = mask
      /\ q.castlingRook = [p.castlingRook EXCEPT ![r] = rook]
      /\ q.castlingPath = [p.castlingPath EXCEPT ![r] = path]
  <2>1. IsPosition(p)
    BY DEF Flagged, Consistent
  <2>2. q = [p EXCEPT !.castling = p.castling \cup {r},
                      !.castlingRook = [p.castlingRook EXCEPT ![r] = rook],
                      !.castlingPath = [p.castlingPath EXCEPT ![r] = path], !.crMask = mask]
    BY <1>3
  <2>. QED BY <2>1, <2>2 DEF AlikeBut, IsPosition, Fields
<1>7. Consistent(q) /\ q.board = p.board
  BY <1>6, AlikeFacts DEF Flagged
<1>8. /\ q.side = fen.side /\ q.fullmove = fen.fullmove /\ q.halfmove = fen.halfmove
      /\ q.epSquare = NoSquare /\ q.board = fen.board
  BY <1>6, <1>7 DEF AlikeBut, Fields, Flagged
<1>9. /\ q.castlingRook = [x \in Rights |-> q.castlingRook[x]]
      /\ q.castlingPath = [x \in Rights |-> q.castlingPath[x]]
      /\ q.castlingRook[r] = rook /\ q.castlingPath[r] = path
      /\ \A x \in Rights \ {r} : /\ q.castlingRook[x] = p.castlingRook[x]
                                 /\ q.castlingPath[x] = p.castlingPath[x]
  BY <1>6 DEF Flagged
<1>10. ASSUME NEW x \in q.castling PROVE RightSound(q, x)
  <2>1. KingSquare(q, x[1]) = KingSquare(p, x[1])
    BY <1>7 DEF Flagged, Consistent, KingSquare, PiecesOf
  <2>2. CASE x = r
    <3>1. KingSquare(q, r[1]) = king
      BY <2>1, <2>2 DEF king
    <3>2. rook \in Squares /\ q.board[rook] = MakePiece(r[1], "rook")
      BY <1>7
    <3>3. (rook > king <=> r[2] = "king") /\ Rank(king) = HomeRank(r[1]) /\ Rank(rook) = HomeRank(r[1])
      BY DEF king
    <3>4. r \notin q.crMask[king] /\ r \notin q.crMask[rook]
      BY <1>5, <1>6
    <3>5. q.castlingPath[r] = (BetweenBB[king][CastlingKingTo(r)] \cup BetweenBB[rook][CastlingRookTo(r)]
                                 \cup {CastlingKingTo(r), CastlingRookTo(r)}) \ {king, rook}
      BY <1>4, <1>9 DEF kingTo, rookTo
    <3>6. RightSound(q, r)
      BY <1>9, <3>1, <3>2, <3>3, <3>4, <3>5 DEF RightSound
    <3>. QED BY <2>2, <3>6
  <2>3. CASE x # r
    <3>1. x \in p.castling /\ x \in Rights \ {r}
      BY <1>6, <1>10, <2>3 DEF Flagged
    <3>2. RightSound(p, x) /\ x[1] \in Colors
      BY <3>1 DEF Flagged, Rights
    <3>3. KingSquare(p, x[1]) \in Squares
      BY <3>2, KingStands DEF BothKings, Flagged
    <3>4. p.castlingRook[x] \in Squares
      BY <3>2 DEF RightSound
    <3>5. /\ q.crMask[KingSquare(p, x[1])] \subseteq p.crMask[KingSquare(p, x[1])]
          /\ q.crMask[p.castlingRook[x]] \subseteq p.crMask[p.castlingRook[x]]
      BY <1>5, <1>6, <3>3, <3>4
    <3>. QED BY <1>7, <1>9, <2>1, <3>1, <3>2, <3>5, RightCarried
  <2>. QED BY <2>2, <2>3
<1>11. q.castling \subseteq Rights
  BY <1>6 DEF Flagged
<1>12. Flagged(q, fen)
  BY <1>5, <1>6, <1>7, <1>8, <1>9, <1>10, <1>11 DEF Flagged
<1>. QED BY <1>12 DEF q

\* A flag that is found names a rook of its color, on the side of its wing.
LEMMA FlagFound ==
    ASSUME NEW p, Consistent(p), BothKings(p), NEW flag \in FlagSet, NEW f \in FlagMeans(p, flag)
    PROVE  /\ f.right \in Rights /\ f.rook \in Squares
           /\ p.board[f.rook] = MakePiece(f.right[1], "rook")
           /\ f.rook > KingSquare(p, f.right[1]) <=> f.right[2] = "king"
           /\ Rank(KingSquare(p, f.right[1])) = HomeRank(f.right[1])
           /\ Rank(f.rook) = HomeRank(f.right[1])
<1>. DEFINE c == flag.color
            ksq == KingSquare(p, c)
<1>1. c \in Colors /\ flag.wing \in Wings \cup {"file"} /\ flag.file \in 0..7
  BY DEF FlagSet
<1>2. CASE flag.wing \in Wings
  <2>1. PICK s \in FindCastlingRook(p, c, flag.wing) : f = [right |-> <<c, flag.wing>>, rook |-> s]
    BY <1>2 DEF FlagMeans
  <2>2. /\ s \in Squares /\ p.board[s] = MakePiece(c, "rook")
        /\ IF flag.wing = "king" THEN s > ksq ELSE s < ksq
        /\ Rank(ksq) = HomeRank(c) /\ Rank(s) = HomeRank(c)
    BY <2>1 DEF FindCastlingRook, RankBB
  <2>3. f.right = <<c, flag.wing>> /\ f.rook = s
    BY <2>1
  <2>4. s > ksq <=> flag.wing = "king"
    <3>1. ksq \in Squares
      BY <1>1, KingStands DEF BothKings
    <3>. HIDE DEF ksq
    <3>. QED BY <2>2, <3>1 DEF Squares
  <2>. QED BY <1>1, <1>2, <2>2, <2>3, <2>4 DEF Rights
<1>3. CASE flag.wing \notin Wings
  <2>. DEFINE s == MakeSquare(flag.file, HomeRank(c))
              wing == IF s > ksq THEN "king" ELSE "queen"
  <2>1. /\ f = [right |-> <<c, wing>>, rook |-> s] /\ p.board[s] = MakePiece(c, "rook")
        /\ Rank(ksq) = HomeRank(c)
    BY <1>3 DEF FlagMeans
  <2>2. s \in Squares /\ Rank(s) = HomeRank(c)
    BY <1>1 DEF MakeSquare, HomeRank, Squares, Rank
  <2>3. wing \in Wings /\ (s > ksq <=> wing = "king")
    BY DEF Wings
  <2>. HIDE DEF s, wing
  <2>4. f.right = <<c, wing>> /\ f.rook = s
    BY <2>1
  <2>. QED BY <1>1, <2>1, <2>2, <2>3, <2>4 DEF Rights
<1>. QED BY <1>2, <1>3

\* The kings depend on the mailbox only.
LEMMA SameKings ==
    ASSUME NEW p, Consistent(p), NEW q, Consistent(q), q.board = p.board
    PROVE  /\ BothKings(p) => BothKings(q)
           /\ KingsOnce(p) => KingsOnce(q)
           /\ \A c : KingSquare(q, c) = KingSquare(p, c)
<1>1. q.byType = p.byType /\ q.byColor = p.byColor
  BY DEF Consistent
<1>. QED BY <1>1 DEF BothKings, KingsOnce, KingSquare, PiecesOf

\* A flag of the FEN gives sound rights only,
LEMMA FlagParsed ==
    ASSUME NEW fen, NEW p, Flagged(p, fen), BothKings(p), NEW flag \in FlagSet
    PROVE  Flagged(ParseFlag(p, flag), fen)
<1>. DEFINE found == FlagMeans(p, flag)
            q == [p EXCEPT !.chess960 = @ \/ flag.wing \notin Wings]
            f == CHOOSE g \in found : TRUE
<1>1. CASE found = {}
  BY <1>1 DEF ParseFlag
<1>2. CASE found # {}
  <2>1. f \in found
    BY <1>2
  <2>2. ParseFlag(p, flag) = SetCastlingRight(q, f.right, f.rook)
    BY <1>2 DEF ParseFlag
  <2>3. AlikeBut(p, q, {"chess960"})
    <3>1. IsPosition(p)
      BY DEF Flagged, Consistent
    <3>2. q = [p EXCEPT !.chess960 = q.chess960]
      BY <3>1 DEF IsPosition, Fields
    <3>. HIDE DEF q
    <3>. QED BY <3>1, <3>2 DEF AlikeBut, IsPosition, Fields
  <2>. HIDE DEF q, f, found
  <2>4. Consistent(q) /\ q.board = p.board /\ Consistent(p)
    BY <2>3, AlikeFacts DEF Flagged
  <2>5. BothKings(q) /\ \A c : KingSquare(q, c) = KingSquare(p, c)
    BY <2>4, SameKings
  <2>6. /\ q.castling = p.castling /\ q.castlingRook = p.castlingRook /\ q.crMask = p.crMask
        /\ q.castlingPath = p.castlingPath /\ q.side = p.side /\ q.fullmove = p.fullmove
        /\ q.epSquare = p.epSquare /\ q.halfmove = p.halfmove
    BY <2>3 DEF AlikeBut, Fields
  <2>7. Flagged(q, fen)
    <3>1. \A r \in q.castling : RightSound(q, r)
      <4>. SUFFICES ASSUME NEW r \in q.castling PROVE RightSound(q, r)
        OBVIOUS
      <4>1. RightSound(p, r)
        BY <2>6 DEF Flagged
      <4>. QED BY <2>4, <2>5, <2>6, <4>1, RightCarried
    <3>. QED BY <2>4, <2>6, <3>1 DEF Flagged
  <2>8. /\ f.right \in Rights /\ f.rook \in Squares /\ q.board[f.rook] = MakePiece(f.right[1], "rook")
        /\ f.rook > KingSquare(q, f.right[1]) <=> f.right[2] = "king"
        /\ Rank(KingSquare(q, f.right[1])) = HomeRank(f.right[1])
        /\ Rank(f.rook) = HomeRank(f.right[1])
    BY <2>1, <2>4, <2>5, FlagFound DEF found
  <2>. QED BY <2>2, <2>5, <2>7, <2>8, RightSet
<1>. QED BY <1>1, <1>2

\* and so do all of them.
LEMMA FlagsParsed ==
    ASSUME NEW fen \in FENs, Valid(fen)
    PROVE  Flagged(AllParsed(Placed(fen), fen.castling), fen)
<1>. DEFINE flags == fen.castling
            n == Len(flags)
            base == Placed(fen)
<1>0. flags \in Seq(FlagSet)
  BY DEF FENs
<1>1. n \in Nat /\ \A i \in 1 .. n : flags[i] \in FlagSet
  <2>. HIDE DEF flags
  <2>. QED BY <1>0, LenProperties, ElementOfSeq
<1>2. Consistent(base) /\ BothKings(base) /\ base.board = fen.board
  BY PlacedFacts DEF Placed
<1>3. Flagged(base, fen)
  <2>1. /\ base.side = fen.side /\ base.fullmove = fen.fullmove /\ base.epSquare = NoSquare
        /\ base.halfmove = fen.halfmove
        /\ base.castling = {} /\ base.castlingRook = [r \in Rights |-> NoSquare]
        /\ base.castlingPath = [r \in Rights |-> {}] /\ base.crMask = [s \in Squares |-> Rights]
    BY DEF Placed
  <2>. HIDE DEF base
  <2>. QED BY <1>2, <2>1 DEF Flagged
<1>. HIDE DEF flags, n, base
<1>4. PICK f : /\ f[0] = base
               /\ \A i \in 1 .. n : f[i] = ParseFlag(f[i - 1], flags[i])
               /\ AllParsed(base, flags) = f[n]
  BY <1>0, FlagsInOrder DEF n
<1>. DEFINE Bad == {i \in 0 .. n : ~Flagged(f[i], fen)}
<1>5. Bad = {}
  <2>. SUFFICES ASSUME Bad # {} PROVE FALSE
    OBVIOUS
  <2>1. PICK k \in Bad : \A i \in Bad : k <= i
    <3>1. Bad \in SUBSET Nat
      BY <1>1
    <3>. HIDE DEF Bad
    <3>. QED BY <3>1, LeastOf
  <2>2. k \in 0 .. n /\ ~Flagged(f[k], fen) /\ k # 0
    BY <1>3, <1>4, <2>1
  <2>3. k - 1 \in 0 .. n /\ k \in 1 .. n /\ ~(k <= k - 1)
    BY <1>1, <2>2
  <2>4. Flagged(f[k - 1], fen)
    BY <2>1, <2>3
  <2>5. BothKings(f[k - 1])
    BY <1>2, <2>4, SameKings DEF Flagged
  <2>6. Flagged(ParseFlag(f[k - 1], flags[k]), fen)
    BY <1>1, <2>3, <2>4, <2>5, FlagParsed
  <2>. HIDE DEF Bad
  <2>. QED BY <1>4, <2>2, <2>3, <2>6
<1>6. Flagged(f[n], fen)
  <2>1. n \in 0 .. n
    BY <1>1
  <2>. QED BY <1>5, <2>1
<1>. QED BY <1>4, <1>6 DEF base, flags

\* ParseFEN gives a sound position, provided that a target has a square behind it.
LEMMA ParsedSound ==
    ASSUME NEW fen \in FENs, Valid(fen), fen.halfmove \in Nat,
           fen.epSquare # NoSquare => fen.epSquare - PawnPush(fen.side) \in Squares
    PROVE  Sound(ParseFEN(fen)) /\ ParseFEN(fen).board = fen.board /\ ParseFEN(fen).side = fen.side
<1>. DEFINE p == AllParsed(Placed(fen), fen.castling)
            useful == fen.epSquare # NoSquare /\ EPCaptureAvailable(p, fen.epSquare, p.side)
            q == [p EXCEPT !.epSquare = IF useful THEN fen.epSquare ELSE NoSquare]
            r == [q EXCEPT !.key = ComputeKey(q)]
<1>1. Flagged(p, fen)
  BY FlagsParsed
<1>2. ParseFEN(fen) = r
  BY DEF ParseFEN, AllParsed
<1>3. fen.side \in Colors /\ fen.fullmove \in Int /\ fen.epSquare \in Squares \cup {NoSquare}
  BY DEF FENs
<1>. HIDE DEF p, useful
<1>4. IsPosition(p) /\ Consistent(p)
  BY <1>1 DEF Flagged, Consistent
<1>5. AlikeBut(p, q, {"epSquare"}) /\ q.epSquare = IF useful THEN fen.epSquare ELSE NoSquare
  BY <1>4 DEF AlikeBut, IsPosition, Fields
<1>. HIDE DEF q
<1>6. AlikeBut(q, r, {"key"}) /\ r.key = ComputeKey(q)
  BY <1>5 DEF AlikeBut, IsPosition, Fields
<1>. HIDE DEF r
<1>7. Consistent(q) /\ q.board = p.board
  BY <1>4, <1>5, AlikeFacts
<1>8. Consistent(r) /\ r.board = p.board
  BY <1>6, <1>7, AlikeFacts
<1>9. /\ r.castling = p.castling /\ r.side = p.side /\ r.fullmove = p.fullmove
      /\ r.halfmove = p.halfmove
      /\ r.castlingRook = p.castlingRook /\ r.castlingPath = p.castlingPath /\ r.crMask = p.crMask
      /\ r.epSquare = q.epSquare /\ r.castling = q.castling /\ r.side = q.side
  BY <1>5, <1>6 DEF AlikeBut, Fields
<1>10. Keyed(r)
  BY <1>6, <1>7, <1>8, <1>9 DEF Keyed, ComputeKey
<1>11. KingsOnce(r) /\ \A c : KingSquare(r, c) = KingSquare(p, c)
  <2>1. KingsOnce(p)
    <3>1. Placed(fen).board = fen.board
      BY DEF Placed
    <3>. QED BY <1>1, <1>4, <3>1, PlacedFacts, SameKings DEF Flagged
  <2>. QED BY <1>4, <1>8, <2>1, SameKings
<1>12. ASSUME NEW x \in r.castling PROVE RightSound(r, x)
  <2>1. RightSound(p, x)
    BY <1>1, <1>9 DEF Flagged
  <2>. QED BY <1>8, <1>9, <1>11, <2>1, RightCarried
<1>13. ASSUME r.epSquare # NoSquare PROVE TargetSound(r)
  <2>1. r.epSquare = fen.epSquare /\ useful
    BY <1>5, <1>9, <1>13
  <2>2. /\ fen.epSquare # NoSquare /\ p.board[fen.epSquare] = NoPiece
        /\ p.board[fen.epSquare - PawnPush(p.side)] = MakePiece(Opposite(p.side), "pawn")
    BY <2>1 DEF useful, EPCaptureAvailable
  <2>3. fen.epSquare \in Squares /\ fen.epSquare - PawnPush(p.side) \in Squares
    BY <1>1, <1>3, <2>2 DEF Flagged
  <2>. QED BY <1>8, <1>9, <2>1, <2>2, <2>3 DEF TargetSound
<1>14. r.castling \subseteq Rights /\ r.side \in Colors /\ r.fullmove \in Int /\ r.halfmove \in Nat
  BY <1>1, <1>3, <1>9 DEF Flagged
<1>15. Sound(r)
  BY <1>8, <1>10, <1>11, <1>12, <1>13, <1>14 DEF Sound
<1>16. r.board = fen.board /\ r.side = fen.side
  BY <1>1, <1>8, <1>9 DEF Flagged
<1>. QED BY <1>2, <1>15, <1>16

-----------------------------------------------------------------------------
(***************************************************************************)
(* Lines on the board, in coordinates.                                     *)
(***************************************************************************)
DX(d) == IF d \in {9, 1, -7} THEN 1 ELSE IF d \in {7, -1, -9} THEN -1 ELSE 0
DY(d) == IF d \in {9, 8, 7} THEN 1 ELSE IF d \in {-9, -8, -7} THEN -1 ELSE 0

\* t is k steps away from s in direction d.
At(s, d, k, t) == File(t) = File(s) + k * DX(d) /\ Rank(t) = Rank(s) + k * DY(d)

\* u is passed on the way of k steps from s in direction d.
InWay(s, d, k, u) == \E i \in 1 .. (k - 1) : At(s, d, i, u)

\* A square is its file and its rank.
LEMMA Coordinates ==
    /\ \A s \in Squares : /\ File(s) \in 0..7 /\ Rank(s) \in 0..7 /\ s = 8 * Rank(s) + File(s)
                          /\ s \in Int
    /\ \A s, t \in Squares : File(s) = File(t) /\ Rank(s) = Rank(t) => s = t
    /\ \A x, y \in 0..7 : /\ MakeSquare(x, y) \in Squares
                          /\ File(MakeSquare(x, y)) = x /\ Rank(MakeSquare(x, y)) = y
<1>1. \A s \in Squares : /\ File(s) \in 0..7 /\ Rank(s) \in 0..7 /\ s = 8 * Rank(s) + File(s)
                         /\ s \in Int
  BY DEF Squares, File, Rank
<1>2. \A x, y \in 0..7 : /\ MakeSquare(x, y) \in Squares
                         /\ File(MakeSquare(x, y)) = x /\ Rank(MakeSquare(x, y)) = y
  BY DEF Squares, File, Rank, MakeSquare
<1>. QED BY <1>1, <1>2

\* The eight directions as steps on file and rank.
LEMMA DirectionCases ==
    ASSUME NEW d \in Directions
    PROVE  /\ d \in Int /\ d = 8 * DY(d) + DX(d) /\ -d \in Directions
           /\ DX(-d) = -DX(d) /\ DY(-d) = -DY(d)
           /\ DX(d) \in {-1, 0, 1} /\ DY(d) \in {-1, 0, 1} /\ ~(DX(d) = 0 /\ DY(d) = 0)
           /\ \/ DX(d) = 1 /\ DY(d) = 1
              \/ DX(d) = -1 /\ DY(d) = 1
              \/ DX(d) = 1 /\ DY(d) = -1
              \/ DX(d) = -1 /\ DY(d) = -1
              \/ DX(d) = 0 /\ DY(d) = 1
              \/ DX(d) = 0 /\ DY(d) = -1
              \/ DX(d) = 1 /\ DY(d) = 0
              \/ DX(d) = -1 /\ DY(d) = 0
<1>1. d \in {9, 7, -7, -9, 8, -8, 1, -1}
  BY DEF Directions, BishopDirs, RookDirs, North, South, East, West
<1>. QED BY <1>1 DEF Directions, BishopDirs, RookDirs, North, South, East, West, DX, DY

\* One step along a direction, unless it leaves the board or wraps round it.
LEMMA SafeStep ==
    ASSUME NEW s \in Squares, NEW d \in Directions
    PROVE  /\ SafeDestination(s, d) # {} => s + d \in Squares /\ At(s, d, 1, s + d)
           /\ \A t \in Squares : At(s, d, 1, t) => t = s + d /\ SafeDestination(s, d) = {t}
<1>1. d \in {9, 7, -7, -9, 8, -8, 1, -1}
  BY DEF Directions, BishopDirs, RookDirs, North, South, East, West
<1>2. ASSUME SafeDestination(s, d) # {} PROVE s + d \in Squares /\ At(s, d, 1, s + d)
  <2>1. s + d \in Squares /\ Abs(File(s + d) - File(s)) <= 2
    BY <1>2 DEF SafeDestination
  <2>2. File(s + d) = File(s) + DX(d) /\ Rank(s + d) = Rank(s) + DY(d)
    BY <1>1, <2>1 DEF Squares, File, Rank, Abs, DX, DY
  <2>. QED BY <2>1, <2>2, DirectionCases DEF At
<1>3. ASSUME NEW t \in Squares, At(s, d, 1, t) PROVE t = s + d /\ SafeDestination(s, d) = {t}
  <2>1. File(t) = File(s) + DX(d) /\ Rank(t) = Rank(s) + DY(d)
    BY <1>3, DirectionCases DEF At
  <2>2. t = s + d
    <3>1. s = 8 * Rank(s) + File(s) /\ t = 8 * Rank(t) + File(t) /\ d = 8 * DY(d) + DX(d)
      BY Coordinates, DirectionCases
    <3>2. /\ File(s) \in 0..7 /\ Rank(s) \in 0..7
          /\ DX(d) \in {-1, 0, 1} /\ DY(d) \in {-1, 0, 1}
      BY Coordinates, DirectionCases
    <3>. QED BY <2>1, <3>1, <3>2
  <2>3. Abs(File(t) - File(s)) <= 2
    <3>1. DX(d) \in {-1, 0, 1} /\ File(s) \in 0..7
      BY Coordinates, DirectionCases
    <3>2. File(t) - File(s) \in {-1, 0, 1}
      BY <2>1, <3>1
    <3>. QED BY <3>2 DEF Abs
  <2>. QED BY <2>2, <2>3 DEF SafeDestination
<1>. QED BY <1>2, <1>3

\* Between two places on the board all places are on the board.
LEMMA Convex ==
    ASSUME NEW a \in 0..7, NEW c \in 0..7, NEW e \in {-1, 0, 1}, NEW k \in 0..7, c = a + k * e,
           NEW i \in 0..k
    PROVE  a + i * e \in 0..7
<1>1. CASE e = 1
  BY <1>1
<1>2. CASE e = 0
  BY <1>2
<1>3. CASE e = -1
  BY <1>3
<1>. QED BY <1>1, <1>2, <1>3

\* The square at a place of a line is the one the directions add up to.
LEMMA PlaceOf ==
    ASSUME NEW s \in Squares, NEW d \in Directions, NEW k \in 0..7, NEW t \in Squares, At(s, d, k, t)
    PROVE  t = s + k * d
<1>1. s = 8 * Rank(s) + File(s) /\ t = 8 * Rank(t) + File(t) /\ d = 8 * DY(d) + DX(d)
  BY Coordinates, DirectionCases
<1>2. /\ File(s) \in 0..7 /\ Rank(s) \in 0..7
      /\ DX(d) \in {-1, 0, 1} /\ DY(d) \in {-1, 0, 1}
  BY Coordinates, DirectionCases
<1>3. File(t) = File(s) + k * DX(d) /\ Rank(t) = Rank(s) + k * DY(d)
  BY DEF At
<1>4. 8 * (Rank(s) + k * DY(d)) + (File(s) + k * DX(d)) = (8 * Rank(s) + File(s)) + k * (8 * DY(d) + DX(d))
  <2>. DEFINE x == File(s)
              y == Rank(s)
              e == DX(d)
              g == DY(d)
  <2>1. x \in Int /\ y \in Int /\ e \in Int /\ g \in Int /\ k \in Int
    BY <1>2
  <2>. HIDE DEF x, y, e, g
  <2>2. k * (8 * g + e) = 8 * (k * g) + k * e
    BY <2>1
  <2>. QED BY <2>1, <2>2 DEF x, y, e, g
<1>. QED BY <1>1, <1>3, <1>4

\* The squares passed on the way are on the board.
LEMMA PassedOnBoard ==
    ASSUME NEW s \in Squares, NEW d \in Directions, NEW k \in 0..7, NEW t \in Squares, At(s, d, k, t),
           NEW i \in 0..k
    PROVE  s + i * d \in Squares /\ At(s, d, i, s + i * d)
<1>. DEFINE x == File(s) + i * DX(d)
            y == Rank(s) + i * DY(d)
<1>1. /\ File(s) \in 0..7 /\ Rank(s) \in 0..7 /\ File(t) \in 0..7 /\ Rank(t) \in 0..7
      /\ DX(d) \in {-1, 0, 1} /\ DY(d) \in {-1, 0, 1}
  BY Coordinates, DirectionCases
<1>2. File(t) = File(s) + k * DX(d) /\ Rank(t) = Rank(s) + k * DY(d)
  BY DEF At
<1>3. x \in 0..7
  BY <1>1, <1>2, Convex
<1>4. y \in 0..7
  BY <1>1, <1>2, Convex
<1>5. MakeSquare(x, y) \in Squares /\ File(MakeSquare(x, y)) = x /\ Rank(MakeSquare(x, y)) = y
  <2>. HIDE DEF x, y
  <2>. QED BY <1>3, <1>4, Coordinates
<1>6. At(s, d, i, MakeSquare(x, y))
  BY <1>5 DEF At
<1>7. i \in 0..7
  OBVIOUS
<1>. HIDE DEF x, y
<1>8. MakeSquare(x, y) = s + i * d
  BY <1>5, <1>6, <1>7, PlaceOf
<1>. QED BY <1>5, <1>6, <1>8

\* One step more.
LEMMA StepFurther ==
    ASSUME NEW s \in Squares, NEW d \in Directions, NEW i \in 0..6, NEW u \in Squares, At(s, d, i, u)
    PROVE  \A t : At(u, d, 1, t) <=> At(s, d, i + 1, t)
<1>1. /\ File(s) \in 0..7 /\ Rank(s) \in 0..7 /\ DX(d) \in {-1, 0, 1} /\ DY(d) \in {-1, 0, 1}
  BY Coordinates, DirectionCases
<1>2. File(u) + 1 * DX(d) = File(s) + (i + 1) * DX(d)
  BY <1>1 DEF At
<1>3. Rank(u) + 1 * DY(d) = Rank(s) + (i + 1) * DY(d)
  BY <1>1 DEF At
<1>. QED BY <1>2, <1>3 DEF At

\* What the ray in direction d holds.
LEMMA RayPlaces ==
    ASSUME NEW s \in Squares, NEW d \in Directions, NEW k \in 1..7, NEW t \in Squares
    PROVE  k \in DOMAIN Ray[d][s] /\ Ray[d][s][k] = t <=> At(s, d, k, t)
<1>1. Ray[d][s] = Walk(s, d)
  BY DEF Ray, Directions
<1>2. /\ k \in DOMAIN Ray[d][s] <=> \A i \in 1..k : SafeDestination(s + (i - 1) * d, d) # {}
      /\ k \in DOMAIN Ray[d][s] => Ray[d][s][k] = s + k * d
  BY <1>1 DEF Walk
<1>0. d \in Int /\ s \in Int
  BY DirectionCases, Coordinates
<1>3. ASSUME \A i \in 1..k : SafeDestination(s + (i - 1) * d, d) # {}
      PROVE  s + k * d \in Squares /\ At(s, d, k, s + k * d)
  <2>. DEFINE Bad == {i \in 0..k : ~(s + i * d \in Squares /\ At(s, d, i, s + i * d))}
  <2>1. 0 \notin Bad
    <3>1. s + 0 * d = s /\ 0 * DX(d) = 0 /\ 0 * DY(d) = 0
      BY <1>0, DirectionCases
    <3>2. File(s) + 0 = File(s) /\ Rank(s) + 0 = Rank(s)
      <4>1. File(s) \in 0..7 /\ Rank(s) \in 0..7
        BY Coordinates
      <4>. QED BY <4>1
    <3>. QED BY <3>1, <3>2 DEF At
  <2>2. Bad = {}
    <3>. SUFFICES ASSUME Bad # {} PROVE FALSE
      OBVIOUS
    <3>1. PICK i \in Bad : \A j \in Bad : i <= j
      <4>1. Bad \in SUBSET Nat
        OBVIOUS
      <4>. HIDE DEF Bad
      <4>. QED BY <4>1, LeastOf
    <3>2. i \in 1..k /\ ~(s + i * d \in Squares /\ At(s, d, i, s + i * d))
      BY <2>1, <3>1
    <3>3. i - 1 \in 0..6 /\ i - 1 \in 0..k /\ i - 1 \notin Bad /\ (i - 1) + 1 = i
      <4>1. i - 1 \in 0..6 /\ i - 1 \in 0..k /\ ~(i <= i - 1) /\ (i - 1) + 1 = i
        BY <3>2
      <4>. HIDE DEF Bad
      <4>. QED BY <3>1, <4>1
    <3>. DEFINE u == s + (i - 1) * d
    <3>4. u \in Squares /\ At(s, d, i - 1, u)
      BY <3>3
    <3>5. SafeDestination(u, d) # {}
      BY <1>3, <3>2
    <3>6. u + d = s + i * d
      BY <1>0, <3>2
    <3>. HIDE DEF u
    <3>7. u + d \in Squares /\ At(u, d, 1, u + d)
      BY <3>4, <3>5, SafeStep
    <3>8. At(s, d, i, u + d)
      <4>1. At(s, d, (i - 1) + 1, u + d)
        BY <3>3, <3>4, <3>7, StepFurther
      <4>. QED BY <3>3, <4>1
    <3>. QED BY <3>2, <3>6, <3>7, <3>8
  <2>3. k \in 0..k
    OBVIOUS
  <2>. QED BY <2>2, <2>3
<1>4. ASSUME At(s, d, k, t), NEW i \in 1..k
      PROVE  SafeDestination(s + (i - 1) * d, d) # {}
  <2>. DEFINE u == s + (i - 1) * d
              v == s + i * d
  <2>1. i - 1 \in 0..k /\ i \in 0..k /\ i - 1 \in 0..6 /\ (i - 1) + 1 = i /\ k \in 0..7
    OBVIOUS
  <2>2. u \in Squares /\ At(s, d, i - 1, u)
    BY <1>4, <2>1, PassedOnBoard
  <2>3. v \in Squares /\ At(s, d, i, v)
    BY <1>4, <2>1, PassedOnBoard
  <2>. HIDE DEF u, v
  <2>4. At(u, d, 1, v)
    <3>1. At(s, d, (i - 1) + 1, v)
      BY <2>1, <2>3
    <3>. QED BY <2>1, <2>2, <3>1, StepFurther
  <2>5. SafeDestination(u, d) = {v}
    BY <2>2, <2>3, <2>4, SafeStep
  <2>. QED BY <2>5 DEF u
<1>5. ASSUME At(s, d, k, t) PROVE t = s + k * d
  BY <1>5, PlaceOf
<1>. QED BY <1>2, <1>3, <1>4, <1>5

\* Two squares are on one line at most, in one way.
LEMMA OneLine ==
    ASSUME NEW s \in Squares, NEW t \in Squares, NEW d \in Directions, NEW e \in Directions,
           NEW k \in 1..7, NEW j \in 1..7, At(s, d, k, t), At(s, e, j, t)
    PROVE  d = e /\ k = j
<1>. DEFINE dx == DX(d)
            dy == DY(d)
            ex == DX(e)
            ey == DY(e)
<1>1. k * dx = j * ex /\ k * dy = j * ey
  <2>1. /\ File(s) + k * dx = File(s) + j * ex /\ Rank(s) + k * dy = Rank(s) + j * ey
    BY DEF At
  <2>2. /\ File(s) \in 0..7 /\ Rank(s) \in 0..7 /\ dx \in {-1, 0, 1} /\ dy \in {-1, 0, 1}
        /\ ex \in {-1, 0, 1} /\ ey \in {-1, 0, 1}
    BY Coordinates, DirectionCases
  <2>. HIDE DEF dx, dy, ex, ey
  <2>3. k * dx \in Int /\ j * ex \in Int /\ k * dy \in Int /\ j * ey \in Int
    BY <2>2
  <2>. QED BY <2>1, <2>2, <2>3
<1>2. /\ dx \in {-1, 0, 1} /\ dy \in {-1, 0, 1} /\ ex \in {-1, 0, 1} /\ ey \in {-1, 0, 1}
      /\ ~(dx = 0 /\ dy = 0) /\ ~(ex = 0 /\ ey = 0)
  BY DirectionCases
<1>3. d = 8 * dy + dx /\ e = 8 * ey + ex
  BY DirectionCases
<1>. HIDE DEF dx, dy, ex, ey
<1>4. dx = ex /\ (dx # 0 => k = j)
  BY <1>1, <1>2
<1>5. dy = ey /\ (dy # 0 => k = j)
  BY <1>1, <1>2
<1>. QED BY <1>2, <1>3, <1>4, <1>5

\* k steps lead to one square.
LEMMA OnePlace ==
    ASSUME NEW s \in Squares, NEW d, NEW k, NEW t \in Squares, NEW u \in Squares,
           At(s, d, k, t), At(s, d, k, u)
    PROVE  t = u
  BY Coordinates DEF At

\* The way back.
LEMMA Backwards ==
    ASSUME NEW s \in Squares, NEW t \in Squares, NEW d \in Directions, NEW k \in 0..7, At(s, d, k, t)
    PROVE  /\ At(t, -d, k, s) /\ -d \in Directions
           /\ \A i \in 0..k, u \in Squares : At(s, d, i, u) => At(t, -d, k - i, u)
           /\ \A u \in Squares : InWay(s, d, k, u) => InWay(t, -d, k, u)
<1>1. -d \in Directions /\ DX(-d) = -DX(d) /\ DY(-d) = -DY(d)
  BY DirectionCases
<1>2. ASSUME NEW i \in 0..k, NEW u \in Squares, At(s, d, i, u) PROVE At(t, -d, k - i, u)
  <2>. DEFINE dx == DX(d)
              dy == DY(d)
              f == File(s)
              r == Rank(s)
  <2>1. /\ File(t) = f + k * dx /\ Rank(t) = r + k * dy
        /\ File(u) = f + i * dx /\ Rank(u) = r + i * dy
    BY <1>2 DEF At
  <2>2. f \in 0..7 /\ r \in 0..7 /\ dx \in {-1, 0, 1} /\ dy \in {-1, 0, 1}
    BY Coordinates, DirectionCases
  <2>. HIDE DEF dx, dy, f, r
  <2>3. f + i * dx = (f + k * dx) + (k - i) * (-dx) /\ r + i * dy = (r + k * dy) + (k - i) * (-dy)
    BY <2>2
  <2>. QED BY <1>1, <2>1, <2>3 DEF At, dx, dy
<1>3. At(t, -d, k, s)
  <2>1. At(s, d, 0, s)
    <3>1. /\ File(s) \in 0..7 /\ Rank(s) \in 0..7 /\ DX(d) \in {-1, 0, 1} /\ DY(d) \in {-1, 0, 1}
      BY Coordinates, DirectionCases
    <3>2. File(s) + 0 * DX(d) = File(s) /\ Rank(s) + 0 * DY(d) = Rank(s)
      <4>. DEFINE dx == DX(d)
                  dy == DY(d)
                  f == File(s)
                  r == Rank(s)
      <4>1. dx \in Int /\ dy \in Int /\ f \in Int /\ r \in Int
        BY <3>1
      <4>. HIDE DEF dx, dy, f, r
      <4>2. f + 0 * dx = f /\ r + 0 * dy = r
        BY <4>1
      <4>. QED BY <4>2 DEF dx, dy, f, r
    <3>. QED BY <3>2 DEF At
  <2>2. k - 0 = k /\ 0 \in 0..k
    OBVIOUS
  <2>3. At(t, -d, k - 0, s)
    BY <1>2, <2>1, <2>2
  <2>. QED BY <2>2, <2>3
<1>4. ASSUME NEW u \in Squares, InWay(s, d, k, u) PROVE InWay(t, -d, k, u)
  <2>1. PICK i \in 1 .. (k - 1) : At(s, d, i, u)
    BY <1>4 DEF InWay
  <2>2. k - i \in 1 .. (k - 1) /\ i \in 0..k
    OBVIOUS
  <2>. QED BY <1>2, <2>1, <2>2 DEF InWay
<1>. QED BY <1>1, <1>2, <1>3, <1>4

\* The rest of the way.
LEMMA Onwards ==
    ASSUME NEW s \in Squares, NEW d \in Directions, NEW i \in 0..7, NEW u \in Squares, At(s, d, i, u),
           NEW k \in i..7, NEW t, At(s, d, k, t)
    PROVE  At(u, d, k - i, t)
<1>. DEFINE dx == DX(d)
            dy == DY(d)
            f == File(s)
            r == Rank(s)
<1>1. /\ File(t) = f + k * dx /\ Rank(t) = r + k * dy
      /\ File(u) = f + i * dx /\ Rank(u) = r + i * dy
  BY DEF At
<1>2. f \in 0..7 /\ r \in 0..7 /\ dx \in {-1, 0, 1} /\ dy \in {-1, 0, 1}
  BY Coordinates, DirectionCases
<1>. HIDE DEF dx, dy, f, r
<1>3. f + k * dx = (f + i * dx) + (k - i) * dx /\ r + k * dy = (r + i * dy) + (k - i) * dy
  BY <1>2
<1>. QED BY <1>1, <1>3 DEF At, dx, dy

\* From one side of a square to the other.
LEMMA FarSides ==
    ASSUME NEW s \in Squares, NEW d \in Directions, NEW i \in 1..7, NEW u \in Squares, At(s, d, i, u),
           NEW j \in 1..7, NEW t \in Squares, At(s, -d, j, t)
    PROVE  i + j \in 2..7 /\ At(u, -d, i + j, t) /\ At(u, -d, i, s)
<1>. DEFINE dx == DX(d)
            dy == DY(d)
            f == File(s)
            r == Rank(s)
<1>0. -d \in Directions /\ DX(-d) = -dx /\ DY(-d) = -dy
  BY DirectionCases
<1>1. /\ File(t) = f + j * (-dx) /\ Rank(t) = r + j * (-dy)
      /\ File(u) = f + i * dx /\ Rank(u) = r + i * dy
  BY <1>0 DEF At
<1>2. /\ f \in 0..7 /\ r \in 0..7 /\ dx \in {-1, 0, 1} /\ dy \in {-1, 0, 1} /\ ~(dx = 0 /\ dy = 0)
      /\ File(t) \in 0..7 /\ Rank(t) \in 0..7 /\ File(u) \in 0..7 /\ Rank(u) \in 0..7
  BY Coordinates, DirectionCases
<1>. HIDE DEF dx, dy, f, r
<1>3. i + j <= 7
  BY <1>1, <1>2
<1>4. /\ f + j * (-dx) = (f + i * dx) + (i + j) * (-dx)
      /\ r + j * (-dy) = (r + i * dy) + (i + j) * (-dy)
  BY <1>2
<1>5. i \in 0..7 /\ i + j \in 2..7
  BY <1>3
<1>6. At(u, -d, i, s)
  BY <1>5, Backwards
<1>. QED BY <1>0, <1>1, <1>4, <1>5, <1>6 DEF At

\* t is seen from s in direction d at a distance of k, with the squares of occ occupied.
Sees(s, d, k, t, occ) == At(s, d, k, t) /\ \A u \in occ : ~InWay(s, d, k, u)

\* What a sliding piece attacks is what it sees.
LEMMA SlidesSee ==
    ASSUME NEW s \in Squares, NEW t \in Squares, NEW occ \in SUBSET Squares, NEW dirs \in SUBSET Directions
    PROVE  t \in SlidingAttacks(s, occ, dirs) <=> \E d \in dirs, k \in 1..7 : Sees(s, d, k, t, occ)
<1>1. \A d \in Directions : DOMAIN Ray[d][s] \subseteq 1..7
  BY DEF Ray, Walk, Directions
<1>2. t \in SlidingAttacks(s, occ, dirs) <=>
        \E d \in dirs : \E k \in DOMAIN Ray[d][s] :
          t = Ray[d][s][k] /\ \A i \in 1 .. (k - 1) : Ray[d][s][i] \notin occ
  BY DEF SlidingAttacks
<1>3. ASSUME NEW d \in dirs, NEW k \in 1..7, At(s, d, k, t)
      PROVE  (\A i \in 1 .. (k - 1) : Ray[d][s][i] \notin occ) <=> \A u \in occ : ~InWay(s, d, k, u)
  <2>1. ASSUME NEW i \in 1 .. (k - 1), NEW u \in Squares
        PROVE  Ray[d][s][i] = u <=> At(s, d, i, u)
    <3>1. i \in 1..7 /\ i \in 0..k /\ k \in 0..7 /\ d \in Directions
      OBVIOUS
    <3>2. s + i * d \in Squares /\ At(s, d, i, s + i * d)
      BY <1>3, <3>1, PassedOnBoard
    <3>3. i \in DOMAIN Ray[d][s]
      BY <3>1, <3>2, RayPlaces
    <3>. QED BY <3>1, <3>3, RayPlaces
  <2>2. ASSUME NEW i \in 1 .. (k - 1), Ray[d][s][i] \in occ
        PROVE  \E u \in occ : InWay(s, d, k, u)
    BY <2>1, <2>2 DEF InWay
  <2>3. ASSUME NEW u \in occ, InWay(s, d, k, u)
        PROVE  \E i \in 1 .. (k - 1) : Ray[d][s][i] \in occ
    BY <2>1, <2>3 DEF InWay
  <2>. QED BY <2>2, <2>3
<1>4. ASSUME NEW d \in dirs, NEW k \in DOMAIN Ray[d][s], t = Ray[d][s][k],
             \A i \in 1 .. (k - 1) : Ray[d][s][i] \notin occ
      PROVE  k \in 1..7 /\ Sees(s, d, k, t, occ)
  <2>1. k \in 1..7 /\ d \in Directions
    BY <1>1
  <2>2. At(s, d, k, t)
    BY <1>4, <2>1, RayPlaces
  <2>. QED BY <1>3, <1>4, <2>1, <2>2 DEF Sees
<1>5. ASSUME NEW d \in dirs, NEW k \in 1..7, Sees(s, d, k, t, occ)
      PROVE  /\ k \in DOMAIN Ray[d][s] /\ t = Ray[d][s][k]
             /\ \A i \in 1 .. (k - 1) : Ray[d][s][i] \notin occ
  <2>1. At(s, d, k, t) /\ d \in Directions /\ \A u \in occ : ~InWay(s, d, k, u)
    BY <1>5 DEF Sees
  <2>2. k \in DOMAIN Ray[d][s] /\ t = Ray[d][s][k]
    BY <2>1, RayPlaces
  <2>. QED BY <1>3, <2>1, <2>2
<1>. QED BY <1>2, <1>4, <1>5

\* Diagonals and straight lines, each with its opposites.
LEMMA DirectionSets ==
    /\ BishopDirs \in SUBSET Directions /\ RookDirs \in SUBSET Directions
    /\ Directions = {9, 7, -7, -9, 8, -8, 1, -1}
    /\ BishopDirs \cap RookDirs = {}
    /\ \A dirs \in {BishopDirs, RookDirs}, d \in Directions : d \in dirs => -d \in dirs
    /\ \A d \in BishopDirs : DX(d) # 0 /\ DY(d) # 0
    /\ \A d \in RookDirs : DX(d) = 0 <=> DY(d) # 0
<1>1. BishopDirs = {9, 7, -7, -9} /\ RookDirs = {8, -8, 1, -1}
  BY DEF BishopDirs, RookDirs, North, South, East, West
<1>2. ASSUME NEW d \in {9, 7, -7, -9} PROVE -d \in {9, 7, -7, -9}
  OBVIOUS
<1>6. ASSUME NEW d \in {8, -8, 1, -1} PROVE -d \in {8, -8, 1, -1}
  OBVIOUS
<1>3. \A d \in {9, 7, -7, -9} : DX(d) # 0 /\ DY(d) # 0
  BY DEF DX, DY
<1>4. \A d \in {8, -8, 1, -1} : DX(d) = 0 <=> DY(d) # 0
  BY DEF DX, DY
<1>5. Directions = {9, 7, -7, -9, 8, -8, 1, -1} /\ BishopDirs \cap RookDirs = {}
  BY <1>1 DEF Directions
<1>. QED BY <1>1, <1>2, <1>3, <1>4, <1>5, <1>6 DEF Directions

\* Where two lines of one kind, through two squares of such a line, can meet.
LEMMA LinesMeet ==
    ASSUME NEW dx \in {-1, 0, 1}, NEW dy \in {-1, 0, 1}, NEW ex \in {-1, 0, 1}, NEW ey \in {-1, 0, 1},
           NEW gx \in {-1, 0, 1}, NEW gy \in {-1, 0, 1},
           \/ dx # 0 /\ dy # 0 /\ ex # 0 /\ ey # 0 /\ gx # 0 /\ gy # 0
           \/ (dx = 0 <=> dy # 0) /\ (ex = 0 <=> ey # 0) /\ (gx = 0 <=> gy # 0),
           NEW i \in 1..7, NEW j \in 1..7, NEW k \in 1..7,
           i * ex = k * dx + j * gx, i * ey = k * dy + j * gy
    PROVE  \/ ex = dx /\ ey = dy
           \/ ex = -dx /\ ey = -dy /\ gx = ex /\ gy = ey /\ j = i + k
<1>1. CASE dx = 1
  BY <1>1
<1>2. CASE dx = -1
  BY <1>2
<1>3. CASE dx = 0
  BY <1>3
<1>. QED BY <1>1, <1>2, <1>3

\* The same on the board.
LEMMA SlidesMeet ==
    ASSUME NEW dirs \in {BishopDirs, RookDirs}, NEW s \in Squares, NEW t \in Squares, NEW u \in Squares,
           NEW d \in dirs, NEW e \in dirs, NEW g \in dirs, NEW k \in 1..7, NEW i \in 1..7, NEW j \in 1..7,
           At(s, d, k, t), At(s, e, i, u), At(t, g, j, u)
    PROVE  e = d \/ (e = -d /\ g = -d /\ j = i + k)
<1>. DEFINE dx == DX(d)
            dy == DY(d)
            ex == DX(e)
            ey == DY(e)
            gx == DX(g)
            gy == DY(g)
            f == File(s)
            r == Rank(s)
<1>1. d \in Directions /\ e \in Directions /\ g \in Directions
  BY DirectionSets
<1>2. /\ d = 8 * dy + dx /\ e = 8 * ey + ex /\ g = 8 * gy + gx
      /\ dx \in {-1, 0, 1} /\ dy \in {-1, 0, 1} /\ ex \in {-1, 0, 1} /\ ey \in {-1, 0, 1}
      /\ gx \in {-1, 0, 1} /\ gy \in {-1, 0, 1}
  BY <1>1, DirectionCases
<1>3. \/ dx # 0 /\ dy # 0 /\ ex # 0 /\ ey # 0 /\ gx # 0 /\ gy # 0
      \/ (dx = 0 <=> dy # 0) /\ (ex = 0 <=> ey # 0) /\ (gx = 0 <=> gy # 0)
  BY DirectionSets
<1>4. /\ File(u) = f + i * ex /\ Rank(u) = r + i * ey /\ File(t) = f + k * dx /\ Rank(t) = r + k * dy
      /\ File(u) = File(t) + j * gx /\ Rank(u) = Rank(t) + j * gy
  BY DEF At
<1>5. f \in 0..7 /\ r \in 0..7
  BY Coordinates
<1>. HIDE DEF dx, dy, ex, ey, gx, gy, f, r
<1>6. i * ex = k * dx + j * gx /\ i * ey = k * dy + j * gy
  <2>1. /\ i * ex \in Int /\ k * dx \in Int /\ j * gx \in Int
        /\ i * ey \in Int /\ k * dy \in Int /\ j * gy \in Int
    BY <1>2
  <2>2. f + i * ex = (f + k * dx) + j * gx /\ r + i * ey = (r + k * dy) + j * gy
    BY <1>4
  <2>. DEFINE ie == i * ex
              kd == k * dx
              jg == j * gx
              iE == i * ey
              kD == k * dy
              jG == j * gy
  <2>. HIDE DEF ie, kd, jg, iE, kD, jG
  <2>3. f + ie = (f + kd) + jg /\ r + iE = (r + kD) + jG
    BY <2>2 DEF ie, kd, jg, iE, kD, jG
  <2>4. /\ ie \in Int /\ kd \in Int /\ jg \in Int /\ iE \in Int /\ kD \in Int /\ jG \in Int
        /\ f \in Int /\ r \in Int
    BY <1>5, <2>1 DEF ie, kd, jg, iE, kD, jG
  <2>5. ie = kd + jg /\ iE = kD + jG
    BY <2>3, <2>4
  <2>. QED BY <2>5 DEF ie, kd, jg, iE, kD, jG
<1>7. \/ ex = dx /\ ey = dy
      \/ ex = -dx /\ ey = -dy /\ gx = ex /\ gy = ey /\ j = i + k
  BY <1>2, <1>3, <1>6, LinesMeet
<1>. QED BY <1>2, <1>7

\* The way between two squares leaves both out.
LEMMA WayOnBoard ==
    ASSUME NEW s \in Squares, NEW t \in Squares, NEW d \in Directions, NEW k \in 1..7, At(s, d, k, t),
           NEW u, InWay(s, d, k, u)
    PROVE  u # s /\ u # t
<1>1. PICK i \in 1 .. (k - 1) : At(s, d, i, u)
  BY DEF InWay
<1>2. ASSUME u = t PROVE FALSE
  <2>1. i \in 1..7 /\ i # k
    OBVIOUS
  <2>. QED BY <1>1, <1>2, <2>1, OneLine
<1>3. ASSUME u = s PROVE FALSE
  <2>. DEFINE dx == DX(d)
              dy == DY(d)
              f == File(s)
              r == Rank(s)
  <2>1. f = f + i * dx /\ r = r + i * dy
    BY <1>1, <1>3 DEF At
  <2>2. f \in 0..7 /\ r \in 0..7
    BY Coordinates
  <2>3. dx \in {-1, 0, 1} /\ dy \in {-1, 0, 1} /\ ~(dx = 0 /\ dy = 0)
    BY DirectionCases
  <2>. HIDE DEF dx, dy, f, r
  <2>4. dx = 0 /\ dy = 0
    BY <2>1, <2>2, <2>3
  <2>. QED BY <2>3, <2>4
<1>. QED BY <1>2, <1>3

\* On an empty board everything on a line is seen.
LEMMA SeenOnEmpty ==
    ASSUME NEW e \in {BishopDirs, RookDirs}, NEW s \in Squares, NEW t \in Squares
    PROVE  t \in SlidingAttacks(s, {}, e) <=> \E g \in e, j \in 1..7 : At(s, g, j, t)
<1>1. e \in SUBSET Directions /\ {} \in SUBSET Squares
  BY DirectionSets
<1>2. t \in SlidingAttacks(s, {}, e) <=> \E g \in e, j \in 1..7 : Sees(s, g, j, t, {})
  BY <1>1, SlidesSee
<1>. QED BY <1>2 DEF Sees

\* On a line the directions of one kind are the only ones on which a square is seen.
LEMMA AlignedOn ==
    ASSUME NEW dirs \in {BishopDirs, RookDirs}, NEW d \in dirs, NEW s \in Squares, NEW t \in Squares,
           NEW k \in 1..7, At(s, d, k, t)
    PROVE  Alignment(s, t) = {dirs}
<1>1. \A e \in {BishopDirs, RookDirs} :
        t \in SlidingAttacks(s, {}, e) <=> \E g \in e, j \in 1..7 : At(s, g, j, t)
  BY SeenOnEmpty
<1>2. ASSUME NEW e \in {BishopDirs, RookDirs}, t \in SlidingAttacks(s, {}, e) PROVE e = dirs
  <2>1. PICK g \in e, j \in 1..7 : At(s, g, j, t)
    BY <1>1, <1>2
  <2>2. g = d
    BY <2>1, OneLine, DirectionSets
  <2>. QED BY <2>2, DirectionSets
<1>3. t \in SlidingAttacks(s, {}, dirs)
  BY <1>1
<1>. QED BY <1>2, <1>3 DEF Alignment

\* The squares between two on a line are those on the way.
LEMMA BetweenIs ==
    ASSUME NEW d \in Directions, NEW s \in Squares, NEW t \in Squares, NEW k \in 1..7, At(s, d, k, t)
    PROVE  BetweenBB[s][t] = {u \in Squares : InWay(s, d, k, u)}
<1>1. PICK dirs \in {BishopDirs, RookDirs} : d \in dirs
  BY DEF Directions
<1>2. BetweenBB[s][t] = SlidingAttacks(s, {t}, dirs) \cap SlidingAttacks(t, {s}, dirs)
  <2>1. BetweenBB[s][t] = UNION {SlidingAttacks(s, {t}, e) \cap SlidingAttacks(t, {s}, e)
                                 : e \in Alignment(s, t)}
    BY DEF BetweenBB
  <2>2. Alignment(s, t) = {dirs}
    BY <1>1, AlignedOn
  <2>. QED BY <2>1, <2>2
<1>3. dirs \in SUBSET Directions /\ -d \in dirs /\ {s} \in SUBSET Squares /\ {t} \in SUBSET Squares
  BY <1>1, DirectionSets
<1>4. ASSUME NEW u \in Squares, InWay(s, d, k, u)
      PROVE  u \in SlidingAttacks(s, {t}, dirs) /\ u \in SlidingAttacks(t, {s}, dirs)
  <2>1. PICK i \in 1 .. (k - 1) : At(s, d, i, u)
    BY <1>4 DEF InWay
  <2>2. i \in 1..7 /\ k - i \in 1..7 /\ i \in 0..k /\ k \in 0..7
    OBVIOUS
  <2>3. At(t, -d, k - i, u) /\ At(t, -d, k, s)
    BY <2>1, <2>2, Backwards
  <2>4. Sees(s, d, i, u, {t})
    <3>1. ASSUME InWay(s, d, i, t) PROVE FALSE
      <4>1. PICK j \in 1 .. (i - 1) : At(s, d, j, t)
        BY <3>1 DEF InWay
      <4>2. j \in 1..7 /\ j # k
        OBVIOUS
      <4>. QED BY <4>1, <4>2, OneLine
    <3>. QED BY <2>1, <3>1 DEF Sees
  <2>5. Sees(t, -d, k - i, u, {s})
    <3>1. ASSUME InWay(t, -d, k - i, s) PROVE FALSE
      <4>1. PICK j \in 1 .. ((k - i) - 1) : At(t, -d, j, s)
        BY <3>1 DEF InWay
      <4>2. j \in 1..7 /\ j # k
        OBVIOUS
      <4>. QED BY <1>3, <2>3, <4>1, <4>2, OneLine
    <3>. QED BY <2>3, <3>1 DEF Sees
  <2>. QED BY <1>1, <1>3, <2>2, <2>4, <2>5, SlidesSee
<1>5. ASSUME NEW u \in SlidingAttacks(s, {t}, dirs), u \in SlidingAttacks(t, {s}, dirs)
      PROVE  u \in Squares /\ InWay(s, d, k, u)
  <2>1. u \in Squares
    BY <1>3, SlidesLand
  <2>2. PICK e \in dirs, i \in 1..7 : Sees(s, e, i, u, {t})
    BY <1>3, <2>1, SlidesSee
  <2>3. PICK g \in dirs, j \in 1..7 : Sees(t, g, j, u, {s})
    BY <1>3, <1>5, <2>1, SlidesSee
  <2>4. /\ At(s, e, i, u) /\ ~InWay(s, e, i, t) /\ At(t, g, j, u) /\ ~InWay(t, g, j, s)
    BY <2>2, <2>3 DEF Sees
  <2>5. e = d \/ (e = -d /\ g = -d /\ j = i + k)
    BY <1>1, <2>1, <2>4, SlidesMeet
  <2>6. CASE e = d
    <3>1. ~(k \in 1 .. (i - 1))
      BY <2>4, <2>6 DEF InWay
    <3>2. ASSUME i = k PROVE FALSE
      <4>1. u = t
        BY <2>1, <2>4, <2>6, <3>2, OnePlace
      <4>2. g \in Directions
        BY <1>3
      <4>3. t # t
        BY <2>1, <2>3, <4>1, <1>3, SlidesLand, <1>5
      <4>. QED BY <4>3
    <3>3. i \in 1 .. (k - 1)
      BY <3>1, <3>2
    <3>. QED BY <2>1, <2>4, <2>6, <3>3 DEF InWay
  <2>7. CASE e = -d /\ g = -d /\ j = i + k
    <3>1. At(t, -d, k, s)
      <4>1. k \in 0..7
        OBVIOUS
      <4>. QED BY <4>1, Backwards
    <3>2. k \in 1 .. (j - 1)
      BY <2>7
    <3>. QED BY <2>4, <2>7, <3>1, <3>2 DEF InWay
  <2>. QED BY <2>5, <2>6, <2>7
<1>. QED BY <1>2, <1>4, <1>5

\* A square on the line through two squares.
LEMMA LineIs ==
    ASSUME NEW d \in Directions, NEW s \in Squares, NEW t \in Squares, NEW k \in 1..7, At(s, d, k, t),
           NEW u \in LineBB[s][t]
    PROVE  /\ u \in Squares
           /\ u = s \/ \E i \in 1..7 : At(s, d, i, u) \/ At(s, -d, i, u)
<1>1. PICK dirs \in {BishopDirs, RookDirs} : d \in dirs
  BY DEF Directions
<1>2. LineBB[s][t] = (SlidingAttacks(s, {}, dirs) \cap SlidingAttacks(t, {}, dirs)) \cup {s, t}
  <2>1. LineBB[s][t] = UNION {(SlidingAttacks(s, {}, e) \cap SlidingAttacks(t, {}, e)) \cup {s, t}
                              : e \in Alignment(s, t)}
    BY DEF LineBB
  <2>2. Alignment(s, t) = {dirs}
    BY <1>1, AlignedOn
  <2>. QED BY <2>1, <2>2
<1>3. dirs \in SUBSET Directions
  BY DirectionSets
<1>4. CASE u \in {s, t}
  BY <1>4
<1>5. CASE u \in SlidingAttacks(s, {}, dirs) /\ u \in SlidingAttacks(t, {}, dirs)
  <2>1. u \in Squares
    BY <1>3, <1>5, SlidesLand
  <2>2. PICK e \in dirs, i \in 1..7 : At(s, e, i, u)
    BY <1>3, <1>5, <2>1, SlidesSee DEF Sees
  <2>3. PICK g \in dirs, j \in 1..7 : At(t, g, j, u)
    BY <1>3, <1>5, <2>1, SlidesSee DEF Sees
  <2>4. e = d \/ e = -d
    BY <1>1, <2>1, <2>2, <2>3, SlidesMeet
  <2>. QED BY <2>1, <2>2, <2>4
<1>. QED BY <1>2, <1>4, <1>5

\* Neither end is between two squares.
LEMMA BetweenInside ==
    ASSUME NEW s \in Squares, NEW t \in Squares
    PROVE  s \notin BetweenBB[s][t] /\ BetweenBB[s][t] \subseteq Squares
<1>1. BetweenBB[s][t] = UNION {SlidingAttacks(s, {t}, e) \cap SlidingAttacks(t, {s}, e)
                               : e \in Alignment(s, t)}
  BY DEF BetweenBB
<1>2. Alignment(s, t) \subseteq SUBSET Directions
  BY DirectionSets DEF Alignment
<1>. QED BY <1>1, <1>2, SlidesLand

\* Squares on no common line have nothing between them.
LEMMA BetweenNone ==
    ASSUME NEW s \in Squares, NEW t \in Squares, \A d \in Directions, k \in 1..7 : ~At(s, d, k, t)
    PROVE  BetweenBB[s][t] = {}
<1>1. \A e \in {BishopDirs, RookDirs} : t \notin SlidingAttacks(s, {}, e)
  BY SeenOnEmpty, DirectionSets
<1>2. Alignment(s, t) = {}
  BY <1>1 DEF Alignment
<1>. QED BY <1>2 DEF BetweenBB

-----------------------------------------------------------------------------
(***************************************************************************)
(* The attacks of kings, knights and pawns.                                *)
(***************************************************************************)
LEMMA KingSteps ==
    ASSUME NEW s \in Squares, NEW t \in Squares
    PROVE  t \in KingAttacks[s] <=> \E d \in Directions : At(s, d, 1, t)
<1>1. KingAttacks[s] = UNION {SafeDestination(s, d) : d \in Directions}
  BY DirectionSets DEF KingAttacks, Leaps
<1>2. \A d \in Directions : SafeDestination(s, d) \subseteq {s + d}
  BY DEF SafeDestination
<1>3. ASSUME NEW d \in Directions PROVE t \in SafeDestination(s, d) <=> At(s, d, 1, t)
  BY <1>2, SafeStep
<1>. QED BY <1>1, <1>3

\* Pawns of one color attack in the directions from which those of the other do.
LEMMA PawnDirections ==
    ASSUME NEW c \in Colors
    PROVE  /\ PawnPush(c) + East \in Directions /\ PawnPush(c) + West \in Directions
           /\ PawnPush(c) \in Directions
           /\ PawnPush(Opposite(c)) + East = -(PawnPush(c) + West)
           /\ PawnPush(Opposite(c)) + West = -(PawnPush(c) + East)
  BY DirectionSets DEF PawnPush, North, South, East, West, Opposite, Colors, White, Black

\* A pawn attacks one step in its two directions.
LEMMA PawnSteps ==
    ASSUME NEW c \in Colors, NEW s \in Squares, NEW t \in Squares
    PROVE  t \in PawnAttacks[c][s] <=> At(s, PawnPush(c) + East, 1, t) \/ At(s, PawnPush(c) + West, 1, t)
<1>. DEFINE e == PawnPush(c) + East
            w == PawnPush(c) + West
<1>1. PawnAttacks[c][s] = SafeDestination(s, e) \cup SafeDestination(s, w)
  BY DEF PawnAttacks, Leaps
<1>2. e \in Directions /\ w \in Directions
  BY PawnDirections
<1>3. SafeDestination(s, e) \subseteq {s + e} /\ SafeDestination(s, w) \subseteq {s + w}
  BY DEF SafeDestination
<1>. HIDE DEF e, w
<1>4. t \in SafeDestination(s, e) <=> At(s, e, 1, t)
  BY <1>2, <1>3, SafeStep
<1>5. t \in SafeDestination(s, w) <=> At(s, w, 1, t)
  BY <1>2, <1>3, SafeStep
<1>. QED BY <1>1, <1>4, <1>5 DEF e, w

\* Knights leap to squares on no common line, and back.
LEMMA KnightSteps ==
    ASSUME NEW s \in Squares, NEW t \in Squares
    PROVE  t \in KnightAttacks[s] <=>
             \/ File(t) - File(s) \in {-1, 1} /\ Rank(t) - Rank(s) \in {-2, 2}
             \/ File(t) - File(s) \in {-2, 2} /\ Rank(t) - Rank(s) \in {-1, 1}
<1>. DEFINE deltas == {-17, -15, -10, -6, 6, 10, 15, 17}
            x == File(t) - File(s)
            y == Rank(t) - Rank(s)
<1>1. t \in KnightAttacks[s] <=> \E d \in deltas : t = s + d /\ Abs(x) <= 2
  BY DEF KnightAttacks, Leaps, SafeDestination
<1>2. t - s = 8 * y + x /\ x \in -7..7 /\ y \in -7..7 /\ s \in Int /\ t \in Int
  BY DEF Squares, File, Rank
<1>3. (\E d \in deltas : t = s + d) <=> 8 * y + x \in deltas
  <2>1. \A d \in deltas : d \in Int
    OBVIOUS
  <2>. HIDE DEF x, y, deltas
  <2>2. \A d \in deltas : t = s + d <=> t - s = d
    BY <1>2, <2>1
  <2>. QED BY <1>2, <2>2
<1>. HIDE DEF x, y
<1>4. 8 * y + x \in deltas /\ Abs(x) <= 2 <=> \/ x \in {-1, 1} /\ y \in {-2, 2}
                                              \/ x \in {-2, 2} /\ y \in {-1, 1}
  BY <1>2 DEF Abs
<1>. QED BY <1>1, <1>3, <1>4 DEF x, y

-----------------------------------------------------------------------------
(***************************************************************************)
(* Who attacks a square, read off the mailbox.                             *)
(***************************************************************************)
SlideDirs(pt) ==
    {d \in BishopDirs : pt \in {"bishop", "queen"}} \cup {d \in RookDirs : pt \in {"rook", "queen"}}

\* The piece pc on a attacks s wherever the others stand.
Touches(pc, a, s) ==
    \/ Type(pc) = "pawn" /\ a \in PawnAttacks[Opposite(Color(pc))][s]
    \/ Type(pc) = "knight" /\ a \in KnightAttacks[s]
    \/ Type(pc) = "king" /\ a \in KingAttacks[s]

\* The piece pc on a attacks s, with the squares of occ occupied.
Assails(pc, a, s, occ) ==
    Touches(pc, a, s) \/ \E d \in SlideDirs(Type(pc)), k \in 1..7 : Sees(s, d, k, a, occ)

\* A slider looks both ways.
LEMMA SlideDirsKnown ==
    ASSUME NEW pt
    PROVE  /\ SlideDirs(pt) \in SUBSET Directions
           /\ \A d \in SlideDirs(pt) : -d \in SlideDirs(pt)
  BY DirectionSets DEF SlideDirs

\* Sliding attacks by the type of the piece.
LEMMA SlidersSee ==
    ASSUME NEW s \in Squares, NEW a \in Squares, NEW occ \in SUBSET Squares, NEW pt
    PROVE  (\E d \in SlideDirs(pt), k \in 1..7 : Sees(s, d, k, a, occ)) <=>
             \/ pt \in {"rook", "queen"} /\ a \in RookAttacks(s, occ)
             \/ pt \in {"bishop", "queen"} /\ a \in BishopAttacks(s, occ)
<1>1. a \in RookAttacks(s, occ) <=> \E d \in RookDirs, k \in 1..7 : Sees(s, d, k, a, occ)
  BY SlidesSee, DirectionSets DEF RookAttacks
<1>2. a \in BishopAttacks(s, occ) <=> \E d \in BishopDirs, k \in 1..7 : Sees(s, d, k, a, occ)
  BY SlidesSee, DirectionSets DEF BishopAttacks
<1>. QED BY <1>1, <1>2 DEF SlideDirs

\* AttackersTo finds exactly the men that attack the square, read off the mailbox.
LEMMA AttackersSeen ==
    ASSUME NEW p, Consistent(p), NEW s \in Squares, NEW occ \in SUBSET Squares, NEW c \in Colors
    PROVE  AttackersTo(p, s, occ) \cap p.byColor[c] =
             {a \in Squares : Color(p.board[a]) = c /\ Assails(p.board[a], a, s, occ)}
<1>. DEFINE b == p.board
<1>1. /\ p.byColor[c] = {a \in Squares : Color(b[a]) = c}
      /\ \A pt \in PieceTypes : p.byType[pt] = {a \in Squares : Type(b[a]) = pt}
      /\ \A x \in Colors : PiecesOf(p, x, "pawn") = {a \in Squares : b[a] = MakePiece(x, "pawn")}
  BY PiecesStand DEF Consistent, TypesOf, PieceTypes
<1>2. \A a \in Squares : b[a] \in Pieces \/ b[a] = NoPiece
  BY DEF Consistent, Boards
<1>. HIDE DEF b
<1>3. ASSUME NEW a \in Squares, Color(b[a]) = c
      PROVE  a \in AttackersTo(p, s, occ) <=> Assails(b[a], a, s, occ)
  <2>1. /\ a \in p.byType["knight"] <=> Type(b[a]) = "knight"
        /\ a \in p.byType["king"] <=> Type(b[a]) = "king"
        /\ a \in p.byType["rook"] \cup p.byType["queen"] <=> Type(b[a]) \in {"rook", "queen"}
        /\ a \in p.byType["bishop"] \cup p.byType["queen"] <=> Type(b[a]) \in {"bishop", "queen"}
    BY <1>1 DEF PieceTypes
  <2>2. a \in UNION {PawnAttacks[Opposite(x)][s] \cap PiecesOf(p, x, "pawn") : x \in Colors}
          <=> Type(b[a]) = "pawn" /\ a \in PawnAttacks[Opposite(c)][s]
    <3>1. \A x \in Colors : a \in PiecesOf(p, x, "pawn") <=> x = c /\ Type(b[a]) = "pawn"
      <4>1. \A x \in Colors : a \in PiecesOf(p, x, "pawn") <=> b[a] = MakePiece(x, "pawn")
        BY <1>1
      <4>2. \A x \in Colors : b[a] = MakePiece(x, "pawn") <=> x = c /\ Type(b[a]) = "pawn"
        BY <1>2, <1>3, PieceFacts DEF PieceTypes
      <4>. QED BY <4>1, <4>2
    <3>. QED BY <3>1
  <2>3. Color(b[a]) = c
    BY <1>3
  <2>. QED BY <2>1, <2>2, <2>3, SlidersSee DEF AttackersTo, Assails, Touches
<1>. QED BY <1>1, <1>3 DEF b

\* No piece of the other color attacks the king of color c.
KingSafe(b, c) ==
    \A k, a \in Squares : b[k] = MakePiece(c, "king") /\ Color(b[a]) = Opposite(c)
                            => ~Assails(b[a], a, k, Manned(b))

\* A piece that alone shields its king from a slider is pinned.
LEMMA ShieldIsPinned ==
    ASSUME NEW p, Consistent(p), NEW us \in Colors, NEW k \in Squares, KingSquare(p, us) = k,
           NEW a \in Squares, Color(p.board[a]) = Opposite(us),
           NEW d \in SlideDirs(Type(p.board[a])), NEW n \in 1..7, At(k, d, n, a),
           NEW f \in Squares, Color(p.board[f]) = us, InWay(k, d, n, f),
           \A u \in Manned(p.board) : InWay(k, d, n, u) => u = f
    PROVE  f \in BlockersForKing(p, us) \cap p.byColor[us]
<1>. DEFINE b == p.board
            lines == p.byType["rook"] \cup p.byType["queen"]
            diagonals == p.byType["bishop"] \cup p.byType["queen"]
            snipers == ((RookAttacks(k, {}) \cap lines) \cup (BishopAttacks(k, {}) \cap diagonals))
                         \cap p.byColor[Opposite(us)]
            occupancy == Occupied(p) \ snipers
            shields == BetweenBB[k][a] \cap occupancy
<1>1. /\ \A c \in Colors : p.byColor[c] = {s \in Squares : Color(b[s]) = c}
      /\ \A pt \in PieceTypes : p.byType[pt] = {s \in Squares : Type(b[s]) = pt}
      /\ Occupied(p) = Manned(b) /\ Opposite(us) \in Colors /\ Opposite(us) # us
  BY ManTypes, RefreshReadsBoard DEF Consistent, TypesOf, ColorsOf
<1>2. a \in snipers
  <2>1. Sees(k, d, n, a, {})
    BY DEF Sees
  <2>2. \/ Type(b[a]) \in {"rook", "queen"} /\ a \in RookAttacks(k, {})
        \/ Type(b[a]) \in {"bishop", "queen"} /\ a \in BishopAttacks(k, {})
    BY <2>1, SlidersSee
  <2>. QED BY <1>1, <2>2 DEF PieceTypes
<1>3. f \in Manned(b) /\ f \notin snipers
  <2>1. b[f] # NoPiece
    BY PieceFacts
  <2>. QED BY <1>1, <2>1 DEF Manned
<1>4. shields = {f}
  <2>1. BetweenBB[k][a] = {u \in Squares : InWay(k, d, n, u)}
    BY BetweenIs, SlideDirsKnown
  <2>. HIDE DEF snipers
  <2>. QED BY <1>1, <1>3, <2>1
<1>5. Cardinality(shields) = 1
  BY <1>4, FS_Singleton
<1>6. f \in BlockersForKing(p, us)
  <2>1. BlockersForKing(p, us) = UNION {x \in {BetweenBB[k][s] \cap occupancy : s \in snipers} : Cardinality(x) = 1}
    BY DEF BlockersForKing
  <2>. HIDE DEF snipers, occupancy
  <2>. QED BY <1>2, <1>4, <1>5, <2>1
<1>. QED BY <1>1, <1>6

-----------------------------------------------------------------------------
(***************************************************************************)
(* No generated move leaves the king of the side that makes it attacked.   *)
(***************************************************************************)
\* From f to t nothing is jumped over, if the squares are on one line.
WayClear(f, t, occ) ==
    \A d \in Directions, m \in 1..7 : At(f, d, m, t) => \A u \in occ : ~InWay(f, d, m, u)

\* A knight leaps to squares that are on no line with its own, and back.
LEMMA KnightAside ==
    ASSUME NEW s \in Squares, NEW a \in Squares, a \in KnightAttacks[s]
    PROVE  /\ s \in KnightAttacks[a]
           /\ \A d \in Directions, k \in 1..7 : ~At(s, d, k, a) /\ ~At(a, d, k, s)
<1>1. ASSUME NEW d \in Directions, NEW k \in 1..7, At(s, d, k, a) PROVE FALSE
  <2>. DEFINE x == k * DX(d)
              y == k * DY(d)
  <2>1. File(a) = File(s) + x /\ Rank(a) = Rank(s) + y
    BY <1>1 DEF At
  <2>2. \/ x = 0 \/ y = 0 \/ x = y \/ x = -y
    BY DirectionCases
  <2>3. x \in Int /\ y \in Int /\ File(s) \in 0..7 /\ Rank(s) \in 0..7
    <3>. DEFINE dx == DX(d)
                dy == DY(d)
    <3>1. dx \in {-1, 0, 1} /\ dy \in {-1, 0, 1}
      BY DirectionCases
    <3>. HIDE DEF dx, dy
    <3>2. k * dx \in Int /\ k * dy \in Int
      BY <3>1
    <3>. QED BY <3>2, Coordinates DEF dx, dy
  <2>4. \/ File(a) - File(s) \in {-1, 1} /\ Rank(a) - Rank(s) \in {-2, 2}
        \/ File(a) - File(s) \in {-2, 2} /\ Rank(a) - Rank(s) \in {-1, 1}
    BY KnightSteps
  <2>. HIDE DEF x, y
  <2>. DEFINE f == File(s)
              r == Rank(s)
  <2>5. f \in Int /\ r \in Int
    BY <2>3
  <2>6. \/ (f + x) - f \in {-1, 1} /\ (r + y) - r \in {-2, 2}
        \/ (f + x) - f \in {-2, 2} /\ (r + y) - r \in {-1, 1}
    BY <2>1, <2>4
  <2>. HIDE DEF f, r
  <2>7. (f + x) - f = x /\ (r + y) - r = y
    BY <2>3, <2>5
  <2>. QED BY <2>2, <2>3, <2>6, <2>7
<1>2. s \in KnightAttacks[a]
  <2>1. /\ File(s) \in 0..7 /\ Rank(s) \in 0..7 /\ File(a) \in 0..7 /\ Rank(a) \in 0..7
    BY Coordinates
  <2>2. \/ File(a) - File(s) \in {-1, 1} /\ Rank(a) - Rank(s) \in {-2, 2}
        \/ File(a) - File(s) \in {-2, 2} /\ Rank(a) - Rank(s) \in {-1, 1}
    BY KnightSteps
  <2>. DEFINE x == File(s)
              y == Rank(s)
              v == File(a)
              w == Rank(a)
  <2>. HIDE DEF x, y, v, w
  <2>3. \/ x - v \in {-1, 1} /\ y - w \in {-2, 2}
        \/ x - v \in {-2, 2} /\ y - w \in {-1, 1}
    BY <2>1, <2>2 DEF x, y, v, w
  <2>. QED BY <2>3, KnightSteps DEF x, y, v, w
<1>3. ASSUME NEW d \in Directions, NEW k \in 1..7, At(a, d, k, s) PROVE FALSE
  <2>1. k \in 0..7
    OBVIOUS
  <2>. QED BY <1>1, <1>3, <2>1, Backwards
<1>. QED BY <1>1, <1>2, <1>3

\* A piece that touches a square has nothing between itself and the square.
LEMMA TouchesNear ==
    ASSUME NEW c \in Colors, NEW pc, Color(pc) = c, NEW a \in Squares, NEW s \in Squares, Touches(pc, a, s)
    PROVE  BetweenBB[s][a] = {}
<1>1. CASE Type(pc) = "knight" /\ a \in KnightAttacks[s]
  BY <1>1, KnightAside, BetweenNone
<1>2. ASSUME NEW d \in Directions, At(s, d, 1, a) PROVE BetweenBB[s][a] = {}
  <2>1. BetweenBB[s][a] = {u \in Squares : InWay(s, d, 1, u)}
    BY <1>2, BetweenIs
  <2>2. 1 .. (1 - 1) = {}
    OBVIOUS
  <2>. QED BY <2>1, <2>2 DEF InWay
<1>3. CASE Type(pc) = "king" /\ a \in KingAttacks[s]
  BY <1>2, <1>3, KingSteps
<1>4. CASE Type(pc) = "pawn" /\ a \in PawnAttacks[Opposite(c)][s]
  <2>1. Opposite(c) \in Colors
    BY ManTypes
  <2>. QED BY <1>2, <1>4, <2>1, PawnSteps, PawnDirections
<1>. QED BY <1>1, <1>3, <1>4 DEF Touches

\* What a slider sees once f has moved to t, which is neither its own square nor in
\* its way, was seen before or was shielded by f alone.
LEMMA Discovered ==
    ASSUME NEW k \in Squares, NEW d, NEW n, NEW a, NEW occ, NEW f, NEW t,
           Sees(k, d, n, a, (occ \ {f}) \cup {t}), ~Sees(k, d, n, a, occ)
    PROVE  f \in occ /\ InWay(k, d, n, f) /\ \A u \in occ : InWay(k, d, n, u) => u = f
  BY DEF Sees

\* A pinned piece that moves on its line stays between its king and the slider, or
\* takes it.
LEMMA PinnedShields ==
    ASSUME NEW k \in Squares, NEW a \in Squares, NEW d \in Directions, NEW n \in 1..7, At(k, d, n, a),
           NEW f \in Squares, InWay(k, d, n, f), NEW t \in LineBB[k][f], t # k, t # a,
           NEW occ \in SUBSET Squares, k \in occ, a \in occ, WayClear(f, t, occ), t # f
    PROVE  InWay(k, d, n, t)
<1>1. PICK i \in 1 .. (n - 1) : At(k, d, i, f)
  BY DEF InWay
<1>2. i \in 1..7 /\ i \in 0..7 /\ n - i \in 1..7 /\ n \in i..7
  OBVIOUS
<1>3. t \in Squares /\ \E j \in 1..7 : At(k, d, j, t) \/ At(k, -d, j, t)
  BY <1>1, <1>2, LineIs
<1>4. PICK j \in 1..7 : At(k, d, j, t) \/ At(k, -d, j, t)
  BY <1>3
<1>5. CASE At(k, -d, j, t)
  <2>1. i + j \in 2..7 /\ At(f, -d, i + j, t) /\ At(f, -d, i, k)
    BY <1>1, <1>2, <1>3, <1>5, FarSides
  <2>2. i \in 1 .. ((i + j) - 1) /\ i + j \in 1..7 /\ -d \in Directions
    BY <2>1, DirectionCases
  <2>3. InWay(f, -d, i + j, k)
    BY <2>1, <2>2 DEF InWay
  <2>. QED BY <2>1, <2>2, <2>3 DEF WayClear
<1>6. CASE At(k, d, j, t)
  <2>1. CASE j < n
    BY <1>6, <2>1 DEF InWay
  <2>2. CASE j = n
    BY <1>3, <1>6, <2>2, OnePlace
  <2>3. CASE j > n
    <3>1. j \in i..7 /\ j - i \in 1..7 /\ n - i \in 1 .. ((j - i) - 1)
      BY <1>2, <2>3
    <3>2. At(f, d, j - i, t) /\ At(f, d, n - i, a)
      BY <1>1, <1>2, <1>6, <3>1, Onwards
    <3>3. InWay(f, d, j - i, a)
      BY <3>1, <3>2 DEF InWay
    <3>. QED BY <3>1, <3>2, <3>3 DEF WayClear
  <2>. QED BY <2>1, <2>2, <2>3
<1>. QED BY <1>4, <1>5, <1>6

\* The squares on which the side to move may put a piece other than its king: in
\* check by one piece, where that piece is or on its way to the king.
Answers(p, k) ==
    LET checkers == Checkers(p)
    IN  IF checkers = {} THEN Squares \ p.byColor[p.side]
        ELSE checkers \cup BetweenBB[k][Min(checkers)]

\* The attackers of the king, one at most when other pieces may move.
LEMMA OneChecker ==
    ASSUME NEW p, Sound(p), BothKings(p), ~(Cardinality(Checkers(p)) > 1)
    PROVE  LET k == KingSquare(p, p.side)
               assailants == {a \in Squares : /\ Color(p.board[a]) = Opposite(p.side)
                                              /\ Assails(p.board[a], a, k, Manned(p.board))}
           IN  /\ k \in Squares /\ p.board[k] = MakePiece(p.side, "king")
               /\ Checkers(p) = assailants
               /\ \A a, x \in assailants : a = x
               /\ \A a \in assailants : Min(assailants) = a
<1>. DEFINE k == KingSquare(p, p.side)
            b == p.board
            them == Opposite(p.side)
            assailants == {a \in Squares : Color(b[a]) = them /\ Assails(b[a], a, k, Manned(b))}
<1>1. k \in Squares /\ b[k] = MakePiece(p.side, "king") /\ p.side \in Colors /\ them \in Colors
  BY KingStands, ManTypes DEF Sound, BothKings
<1>2. Checkers(p) = assailants
  <2>1. Occupied(p) = Manned(b) /\ Manned(b) \in SUBSET Squares /\ Consistent(p)
    BY RefreshReadsBoard DEF Sound, Manned
  <2>. HIDE DEF k, them
  <2>2. AttackersTo(p, k, Manned(b)) \cap p.byColor[them] = assailants
    BY <1>1, <2>1, AttackersSeen
  <2>. QED BY <2>1, <2>2 DEF Checkers, k, them
<1>3. assailants \in SUBSET (0..63) /\ IsFiniteSet(assailants)
  <2>1. assailants \in SUBSET (0..63)
    BY DEF Squares
  <2>. DEFINE top == 63
  <2>2. IsFiniteSet(0 .. top)
    <3>1. top \in Int
      OBVIOUS
    <3>. HIDE DEF top
    <3>. QED BY <3>1, FS_Interval
  <2>. HIDE DEF assailants
  <2>. QED BY <2>1, <2>2, FS_Subset
<1>. HIDE DEF assailants
<1>4. ASSUME NEW a \in assailants, NEW x \in assailants PROVE a = x
  <2>. SUFFICES ASSUME a # x PROVE FALSE
    OBVIOUS
  <2>1. {a, x} \subseteq assailants /\ IsFiniteSet({a, x}) /\ Cardinality({a, x}) = 2
    <3>1. IsFiniteSet({x}) /\ Cardinality({x}) = 1
      BY FS_Singleton
    <3>2. IsFiniteSet({x} \cup {a}) /\ Cardinality({x} \cup {a}) = Cardinality({x}) + 1
      BY <3>1, FS_AddElement
    <3>3. {x} \cup {a} = {a, x}
      OBVIOUS
    <3>. QED BY <3>1, <3>2, <3>3
  <2>2. Cardinality({a, x}) <= Cardinality(assailants)
    BY <1>3, <2>1, FS_Subset
  <2>3. Cardinality(assailants) \in Nat
    BY <1>3, FS_CardinalityType
  <2>. QED BY <1>2, <2>1, <2>2, <2>3
<1>5. ASSUME NEW a \in assailants PROVE Min(assailants) = a
  <2>1. assailants \in SUBSET Nat /\ assailants # {}
    BY <1>3, <1>5
  <2>2. Min(assailants) \in assailants
    BY <2>1, LeastOf
  <2>. QED BY <1>4, <2>2
<1>. QED BY <1>1, <1>2, <1>4, <1>5 DEF assailants

\* A move of another piece than the king, on the pin's line if there is one, to a
\* square that answers a check if there is one, leaves the king unattacked.
LEMMA KingStaysCovered ==
    ASSUME NEW p, Sound(p), BothKings(p), ~(Cardinality(Checkers(p)) > 1),
           NEW k \in Squares, k = KingSquare(p, p.side),
           NEW f \in Squares, Color(p.board[f]) = p.side, f # k,
           NEW t \in Squares, t # f, t \in Answers(p, k),
           t \in PinMask(k, BlockersForKing(p, p.side) \cap p.byColor[p.side], f),
           WayClear(f, t, Manned(p.board))
    PROVE  /\ t # k
           /\ \A a \in Squares :
                a # t /\ Color(p.board[a]) = Opposite(p.side)
                  => ~Assails(p.board[a], a, k, (Manned(p.board) \ {f}) \cup {t})
<1>. DEFINE b == p.board
            us == p.side
            them == Opposite(us)
            occ == Manned(b)
            assailants == {a \in Squares : Color(b[a]) = them /\ Assails(b[a], a, k, occ)}
<1>1. /\ b[k] = MakePiece(us, "king") /\ Checkers(p) = assailants
      /\ \A a, x \in assailants : a = x
      /\ \A a \in assailants : Min(assailants) = a
  BY OneChecker
<1>2. /\ us \in Colors /\ them \in Colors /\ them # us /\ Color(b[k]) = us
      /\ \A s \in Squares : Color(b[s]) \in Colors => s \in occ
      /\ occ \in SUBSET Squares /\ Consistent(p)
  BY <1>1, ManTypes, PieceFacts DEF Sound, Manned, PieceTypes
<1>3. p.byColor[us] = {s \in Squares : Color(b[s]) = us}
  BY <1>2, PiecesStand
<1>. HIDE DEF assailants, them, b, us, occ
<1>4. /\ assailants = {} => t \in Squares \ p.byColor[us]
      /\ \A a \in assailants : t = a \/ t \in BetweenBB[k][a]
  <2>1. CASE assailants = {}
    BY <1>1, <2>1 DEF Answers, us
  <2>2. ASSUME NEW a \in assailants PROVE t = a \/ t \in BetweenBB[k][a]
    <3>1. t \in assailants \/ t \in BetweenBB[k][Min(assailants)]
      BY <1>1, <2>2 DEF Answers
    <3>. QED BY <1>1, <3>1
  <2>. QED BY <2>1, <2>2
<1>5. \A a \in assailants : a \in Squares /\ Color(b[a]) = them /\ Assails(b[a], a, k, occ)
  BY DEF assailants
<1>6. t # k
  <2>1. CASE assailants = {}
    BY <1>2, <1>3, <1>4, <2>1
  <2>2. ASSUME NEW a \in assailants PROVE t # k
    <3>1. a # k
      BY <1>2, <1>5
    <3>. QED BY <1>4, <1>5, <3>1, <2>2, BetweenInside
  <2>. QED BY <2>1, <2>2
<1>7. ASSUME NEW a \in Squares, a # t, Color(b[a]) = them,
             Assails(b[a], a, k, (occ \ {f}) \cup {t})
      PROVE  FALSE
  <2>1. CASE Touches(b[a], a, k)
    <3>1. a \in assailants
      BY <1>7, <2>1 DEF Assails, assailants
    <3>2. BetweenBB[k][a] = {}
      BY <1>2, <1>7, <2>1, TouchesNear
    <3>. QED BY <1>4, <1>7, <3>1, <3>2
  <2>2. ASSUME NEW d \in SlideDirs(Type(b[a])), NEW n \in 1..7, Sees(k, d, n, a, (occ \ {f}) \cup {t})
        PROVE  FALSE
    <3>1. d \in Directions /\ At(k, d, n, a) /\ ~InWay(k, d, n, t)
      BY <2>2, SlideDirsKnown DEF Sees
    <3>2. CASE Sees(k, d, n, a, occ)
      <4>1. a \in assailants
        BY <1>7, <3>2 DEF Assails, assailants
      <4>2. BetweenBB[k][a] = {u \in Squares : InWay(k, d, n, u)}
        BY <3>1, BetweenIs
      <4>. QED BY <1>4, <1>7, <3>1, <4>1, <4>2
    <3>3. CASE ~Sees(k, d, n, a, occ)
      <4>1. /\ f \in occ /\ InWay(k, d, n, f)
            /\ \A u \in occ : InWay(k, d, n, u) => u = f
        BY <2>2, <3>3, Discovered
      <4>2. f \in BlockersForKing(p, us) \cap p.byColor[us]
        BY <1>2, <1>7, <2>2, <3>1, <4>1, ShieldIsPinned DEF b, us, them, occ
      <4>3. t \in LineBB[k][f]
        BY <4>2 DEF PinMask, us
      <4>4. k \in occ /\ a \in occ
        BY <1>2, <1>7
      <4>5. WayClear(f, t, occ)
        BY DEF occ, b
      <4>. QED BY <1>2, <1>6, <1>7, <3>1, <4>1, <4>3, <4>4, <4>5, PinnedShields
    <3>. QED BY <3>2, <3>3
  <2>. QED BY <1>7, <2>1, <2>2 DEF Assails
<1>. QED BY <1>6, <1>7 DEF b, us, them, occ

\* What a piece attacks it attacks as seen from there.
LEMMA AttacksAssail ==
    ASSUME NEW b, NEW us \in Colors, NEW pt \in {"knight", "bishop", "rook", "queen"}, NEW f \in Squares,
           b[f] = MakePiece(us, pt), NEW occ \in SUBSET Squares, NEW t \in AttacksFrom(pt, us, f, occ)
    PROVE  /\ t \in Squares /\ t # f /\ Assails(b[f], f, t, occ) /\ WayClear(f, t, occ)
<1>1. t \in Squares /\ t # f
  BY AttacksLand
<1>2. Type(b[f]) = pt /\ Color(b[f]) = us
  BY DEF MakePiece, Type, Color
<1>3. CASE pt = "knight"
  <2>1. t \in KnightAttacks[f]
    BY <1>3 DEF AttacksFrom
  <2>2. f \in KnightAttacks[t] /\ \A d \in Directions, m \in 1..7 : ~At(f, d, m, t)
    BY <1>1, <2>1, KnightAside
  <2>. QED BY <1>1, <1>2, <1>3, <2>2 DEF Assails, Touches, WayClear
<1>4. CASE pt # "knight"
  <2>1. \/ pt \in {"rook", "queen"} /\ t \in RookAttacks(f, occ)
        \/ pt \in {"bishop", "queen"} /\ t \in BishopAttacks(f, occ)
    BY <1>4 DEF AttacksFrom, QueenAttacks
  <2>2. PICK d \in SlideDirs(pt), n \in 1..7 : Sees(f, d, n, t, occ)
    BY <1>1, <2>1, SlidersSee
  <2>3. d \in Directions /\ -d \in SlideDirs(pt) /\ n \in 0..7
    BY SlideDirsKnown
  <2>4. At(f, d, n, t) /\ \A u \in occ : ~InWay(f, d, n, u)
    BY <2>2 DEF Sees
  <2>5. Sees(t, -d, n, f, occ)
    <3>. DEFINE e == -d
    <3>1. At(t, e, n, f) /\ e \in Directions
      BY <1>1, <2>3, <2>4, Backwards
    <3>2. -e = d
      BY <2>3, DirectionCases
    <3>. HIDE DEF e
    <3>3. \A u \in Squares : InWay(t, e, n, u) => InWay(f, -e, n, u)
      BY <1>1, <2>3, <3>1, Backwards
    <3>4. Sees(t, e, n, f, occ)
      BY <2>4, <3>1, <3>2, <3>3 DEF Sees
    <3>. QED BY <3>4 DEF e
  <2>6. WayClear(f, t, occ)
    BY <1>1, <2>3, <2>4, OneLine DEF WayClear
  <2>. QED BY <1>1, <1>2, <2>3, <2>5, <2>6 DEF Assails
<1>. QED BY <1>3, <1>4

-----------------------------------------------------------------------------
(***************************************************************************)
(* The moves that are generated, by what leaves the king safe.             *)
(***************************************************************************)
\* A pawn goes ahead to empty squares, over empty squares.
LEMMA PushesAdvance ==
    ASSUME NEW us \in Colors, NEW f \in Squares, NEW quiet \in SUBSET Squares, NEW occ \in SUBSET Squares,
           NEW t \in Pushes(f, us, quiet, occ)
    PROVE  t \in Squares /\ t \in quiet /\ t # f /\ t \notin occ /\ WayClear(f, t, occ)
<1>. DEFINE d == PawnPush(us)
<1>1. /\ t \in quiet /\ f + d \notin occ
      /\ t = f + d \/ (t = (f + d) + d /\ t \notin occ)
  BY DEF Pushes
<1>2. t \in Squares /\ t # f
  BY PushesLand
<1>3. d \in Directions /\ (d = 8 \/ d = -8)
  BY PawnDirections DEF PawnPush, North, South
<1>4. \E n \in 1..2 : At(f, d, n, t)
  <2>1. DX(d) = 0 /\ (d = 8 => DY(d) = 1) /\ (d = -8 => DY(d) = -1)
    BY <1>3 DEF DX, DY
  <2>. HIDE DEF d
  <2>2. CASE t = f + d
    <3>1. File(t) = File(f) /\ (d = 8 => Rank(t) = Rank(f) + 1) /\ (d = -8 => Rank(t) = Rank(f) - 1)
      BY <1>2, <1>3, <2>2 DEF Squares, File, Rank
    <3>2. File(f) \in 0..7 /\ Rank(f) \in 0..7
      BY Coordinates
    <3>3. At(f, d, 1, t)
      BY <1>3, <2>1, <3>1, <3>2 DEF At
    <3>. QED BY <3>3
  <2>3. CASE t = (f + d) + d
    <3>1. File(t) = File(f) /\ (d = 8 => Rank(t) = Rank(f) + 2) /\ (d = -8 => Rank(t) = Rank(f) - 2)
      BY <1>2, <1>3, <2>3 DEF Squares, File, Rank
    <3>2. File(f) \in 0..7 /\ Rank(f) \in 0..7
      BY Coordinates
    <3>3. At(f, d, 2, t)
      BY <1>3, <2>1, <3>1, <3>2 DEF At
    <3>. QED BY <3>3
  <2>. QED BY <1>1, <2>2, <2>3 DEF d
<1>. HIDE DEF d
<1>5. ASSUME NEW e \in Directions, NEW m \in 1..7, At(f, e, m, t), NEW u \in occ, InWay(f, e, m, u)
      PROVE  FALSE
  <2>1. PICK n \in 1..2 : At(f, d, n, t)
    BY <1>4
  <2>2. n \in 1..7
    OBVIOUS
  <2>3. e = d /\ m = n
    BY <1>2, <1>3, <1>5, <2>1, <2>2, OneLine
  <2>4. PICK i \in 1 .. (m - 1) : At(f, e, i, u)
    BY <1>5 DEF InWay
  <2>5. i = 1 /\ 1 \in 0..7 /\ u \in Squares
    BY <2>1, <2>3, <2>4
  <2>6. u = f + 1 * d
    BY <1>3, <2>3, <2>4, <2>5, PlaceOf
  <2>7. 1 * d = d
    BY <1>3
  <2>. QED BY <1>1, <2>6, <2>7
<1>6. t \notin occ
  BY <1>1
<1>. QED BY <1>1, <1>2, <1>5, <1>6 DEF WayClear

\* A pawn takes what it attacks.
LEMMA PawnTakes ==
    ASSUME NEW us \in Colors, NEW f \in Squares, NEW t \in PawnAttacks[us][f], NEW occ
    PROVE  /\ t \in Squares /\ t # f /\ WayClear(f, t, occ)
           /\ Assails(MakePiece(us, "pawn"), f, t, occ)
<1>. DEFINE e == PawnPush(us) + East
            w == PawnPush(us) + West
<1>1. t \in Squares /\ t # f
  BY PawnAttacksLand
<1>2. e \in Directions /\ w \in Directions
  BY PawnDirections
<1>3. PICK d \in {e, w} : At(f, d, 1, t)
  BY <1>1, PawnSteps
<1>4. d \in Directions
  BY <1>2
<1>5. f \in PawnAttacks[Opposite(us)][t]
  <2>1. At(t, -d, 1, f)
    <3>1. 1 \in 0..7
      OBVIOUS
    <3>. QED BY <1>1, <1>3, <1>4, <3>1, Backwards
  <2>2. Opposite(us) \in Colors
    BY ManTypes
  <2>3. -d \in {PawnPush(Opposite(us)) + East, PawnPush(Opposite(us)) + West}
    BY PawnDirections
  <2>. QED BY <1>1, <2>1, <2>2, <2>3, PawnSteps
<1>6. WayClear(f, t, occ)
  <2>. SUFFICES ASSUME NEW g \in Directions, NEW m \in 1..7, At(f, g, m, t), NEW u, InWay(f, g, m, u)
                PROVE  FALSE
    BY DEF WayClear
  <2>1. m = 1
    <3>1. 1 \in 1..7
      OBVIOUS
    <3>. QED BY <1>1, <1>3, <1>4, <3>1, OneLine
  <2>. QED BY <2>1 DEF InWay
<1>7. Type(MakePiece(us, "pawn")) = "pawn" /\ Color(MakePiece(us, "pawn")) = us
  BY PieceFacts DEF PieceTypes
<1>. QED BY <1>1, <1>5, <1>6, <1>7 DEF Assails, Touches

\* A move of a piece other than the king that answers the checks and the pins.
Covered(p, m) ==
    LET k == KingSquare(p, p.side)
        us == p.side
    IN  /\ m.kind \in {"normal", "promotion"}
        /\ m.from \in Squares /\ m.to \in Squares /\ m.from # m.to /\ m.from # k
        /\ Color(p.board[m.from]) = us /\ Type(p.board[m.from]) # "king"
        /\ m.to \in Answers(p, k)
        /\ m.to \in PinMask(k, BlockersForKing(p, us) \cap p.byColor[us], m.from)
        /\ WayClear(m.from, m.to, Manned(p.board))
        /\ \/ m.to \notin Manned(p.board)
           \/ Assails(p.board[m.from], m.from, m.to, Manned(p.board))

\* What a piece move is.
LEMMA PieceMovesAre ==
    ASSUME NEW p, NEW us, NEW targets, NEW pinned, NEW k, NEW occ,
           NEW m \in PieceMoves(p, us, targets, pinned, k, occ)
    PROVE  \E pt \in {"knight", "bishop", "rook", "queen"} :
             \E from \in PiecesOf(p, us, pt) :
               \E to \in AttacksFrom(pt, us, from, occ) \cap targets \cap PinMask(k, pinned, from) :
                 m = Normal(from, to)
<1>. DEFINE F(pt, from) == {Normal(from, to) : to \in AttacksFrom(pt, us, from, occ) \cap targets \cap PinMask(k, pinned, from)}
<1>1. PICK pt \in {"knight", "bishop", "rook", "queen"} : m \in UNION {F(pt, from) : from \in PiecesOf(p, us, pt)}
  BY DEF PieceMoves
<1>2. PICK from \in PiecesOf(p, us, pt) : m \in F(pt, from)
  BY <1>1
<1>. QED BY <1>2

\* The moves of the pieces answer checks and pins,
LEMMA PiecesCovered ==
    ASSUME NEW p, Sound(p), BothKings(p), NEW k, k = KingSquare(p, p.side),
           NEW m \in PieceMoves(p, p.side, Answers(p, k), BlockersForKing(p, p.side) \cap p.byColor[p.side],
                                k, Occupied(p))
    PROVE  Covered(p, m)
<1>. DEFINE us == p.side
            b == p.board
<1>. DEFINE targets == Answers(p, k)
            pinned == BlockersForKing(p, us) \cap p.byColor[us]
<1>11. m \in PieceMoves(p, us, targets, pinned, k, Occupied(p))
  OBVIOUS
<1>. HIDE DEF us, targets, pinned
<1>1. \E pt \in {"knight", "bishop", "rook", "queen"} :
        \E from \in PiecesOf(p, us, pt) :
          \E to \in AttacksFrom(pt, us, from, Occupied(p)) \cap targets \cap PinMask(k, pinned, from) :
            m = Normal(from, to)
  BY <1>11, PieceMovesAre
<1>2. PICK pt \in {"knight", "bishop", "rook", "queen"} :
        \E from \in PiecesOf(p, us, pt) :
          \E to \in AttacksFrom(pt, us, from, Occupied(p)) \cap targets \cap PinMask(k, pinned, from) :
            m = Normal(from, to)
  BY <1>1
<1>3. PICK from \in PiecesOf(p, us, pt) :
        \E to \in AttacksFrom(pt, us, from, Occupied(p)) \cap targets \cap PinMask(k, pinned, from) :
            m = Normal(from, to)
  BY <1>2
<1>10. PICK to \in AttacksFrom(pt, us, from, Occupied(p)) \cap targets \cap PinMask(k, pinned, from) :
            m = Normal(from, to)
  BY <1>3
<1>. USE DEF us, targets, pinned
<1>4. us \in Colors /\ pt \in PieceTypes /\ Consistent(p) /\ Occupied(p) = Manned(b)
  BY RefreshReadsBoard DEF Sound, PieceTypes
<1>5. from \in Squares /\ b[from] = MakePiece(us, pt)
  BY <1>3, <1>4, PiecesStand
<1>6. Color(b[from]) = us /\ Type(b[from]) = pt /\ pt # "king"
  BY <1>4, <1>5, PieceFacts
<1>7. from # k
  <2>1. b[k] = MakePiece(us, "king")
    BY <1>4, KingStands DEF BothKings
  <2>2. MakePiece(us, "king") # MakePiece(us, pt)
    BY <1>6 DEF MakePiece
  <2>. QED BY <1>5, <2>1, <2>2
<1>8. m.kind = "normal" /\ m.from = from /\ m.to = to
  BY <1>10 DEF Normal
<1>9. /\ to \in Squares /\ to # from /\ Assails(b[from], from, to, Manned(b))
      /\ WayClear(from, to, Manned(b))
  <2>1. Manned(b) \in SUBSET Squares
    BY DEF Manned
  <2>2. to \in AttacksFrom(pt, us, from, Manned(b))
    BY <1>10, <1>4
  <2>. HIDE DEF b
  <2>. QED BY <1>4, <1>5, <2>1, <2>2, AttacksAssail
<1>. QED BY <1>10, <1>5, <1>6, <1>7, <1>8, <1>9 DEF Covered

\* What a pawn move is.
LEMMA PawnMovesAre ==
    ASSUME NEW p, NEW us, NEW targets, NEW quiet, NEW pinned, NEW k, NEW occ,
           NEW m \in PawnMoves(p, us, targets, quiet, pinned, k, occ)
    PROVE  \E from \in PiecesOf(p, us, "pawn") :
             \/ \E to \in PinMask(k, pinned, from)
                          \cap (Pushes(from, us, quiet, occ)
                                  \cup (PawnAttacks[us][from] \cap p.byColor[Opposite(us)] \cap targets)) :
                  m \in PawnMove(from, to, IF us = White THEN 7 ELSE 0)
             \/ /\ m = EnPassant(from, p.epSquare) /\ p.epSquare # NoSquare
                /\ p.epSquare \in PawnAttacks[us][from]
                /\ EnPassantLegal(p, from, p.epSquare, us, k, occ)
<1>. DEFINE pawns == PiecesOf(p, us, "pawn")
            promoRank == IF us = White THEN 7 ELSE 0
            Ts(from) == PinMask(k, pinned, from)
                          \cap (Pushes(from, us, quiet, occ)
                                  \cup (PawnAttacks[us][from] \cap p.byColor[Opposite(us)] \cap targets))
            Takes(from) == /\ p.epSquare # NoSquare
                           /\ p.epSquare \in PawnAttacks[us][from]
                           /\ EnPassantLegal(p, from, p.epSquare, us, k, occ)
            F(from) == UNION {PawnMove(from, to, promoRank) : to \in Ts(from)}
<1>1. \/ m \in UNION {F(from) : from \in pawns}
      \/ m \in {EnPassant(from, p.epSquare) : from \in {s \in pawns : Takes(s)}}
  BY DEF PawnMoves
<1>2. CASE m \in UNION {F(from) : from \in pawns}
  <2>1. PICK from \in pawns : m \in F(from)
    BY <1>2
  <2>2. PICK to \in Ts(from) : m \in PawnMove(from, to, promoRank)
    BY <2>1
  <2>. QED BY <2>2
<1>3. CASE m \in {EnPassant(from, p.epSquare) : from \in {s \in pawns : Takes(s)}}
  <2>1. PICK from \in pawns : m = EnPassant(from, p.epSquare) /\ Takes(from)
    BY <1>3
  <2>. QED BY <2>1
<1>. QED BY <1>1, <1>2, <1>3

\* A capture en passant that the trial allows.
TakesEnPassant(p, m) ==
    /\ m.kind = "enPassant" /\ m.to = p.epSquare /\ p.epSquare # NoSquare
    /\ m.from \in Squares /\ p.board[m.from] = MakePiece(p.side, "pawn")
    /\ m.to \in PawnAttacks[p.side][m.from]
    /\ EnPassantLegal(p, m.from, m.to, p.side, KingSquare(p, p.side), Occupied(p))

\* The squares that answer a check are on the board.
LEMMA AnswersOnBoard ==
    ASSUME NEW p, Sound(p), BothKings(p), ~(Cardinality(Checkers(p)) > 1), NEW k, k = KingSquare(p, p.side)
    PROVE  Answers(p, k) \subseteq Squares
<1>. DEFINE checkers == Checkers(p)
<1>1. k \in Squares /\ checkers \subseteq Squares /\ \A a \in checkers : Min(checkers) = a
  BY OneChecker
<1>. HIDE DEF checkers
<1>2. CASE checkers = {}
  BY <1>2 DEF Answers, checkers
<1>3. CASE checkers # {}
  <2>1. Min(checkers) \in Squares
    BY <1>1, <1>3
  <2>2. BetweenBB[k][Min(checkers)] \subseteq Squares
    BY <1>1, <2>1, BetweenInside
  <2>. QED BY <1>1, <1>3, <2>2 DEF Answers, checkers
<1>. QED BY <1>2, <1>3

\* and so do those of pawns, or else capture en passant.
LEMMA PawnsCovered ==
    ASSUME NEW p, Sound(p), BothKings(p), ~(Cardinality(Checkers(p)) > 1),
           NEW k, k = KingSquare(p, p.side),
           NEW m \in PawnMoves(p, p.side, Answers(p, k), Answers(p, k),
                               BlockersForKing(p, p.side) \cap p.byColor[p.side], k, Occupied(p))
    PROVE  Covered(p, m) \/ TakesEnPassant(p, m)
<1>. DEFINE us == p.side
            b == p.board
            targets == Answers(p, k)
            pinned == BlockersForKing(p, us) \cap p.byColor[us]
            promoRank == IF us = White THEN 7 ELSE 0
            theirs == p.byColor[Opposite(us)]
            occ == Manned(b)
<1>1. us \in Colors /\ Consistent(p) /\ Occupied(p) = occ /\ occ \in SUBSET Squares
  BY RefreshReadsBoard DEF Sound, Manned
<1>2. PICK from \in PiecesOf(p, us, "pawn") :
             \/ \E to \in PinMask(k, pinned, from)
                          \cap (Pushes(from, us, targets, Occupied(p))
                                  \cup (PawnAttacks[us][from] \cap theirs \cap targets)) :
                  m \in PawnMove(from, to, promoRank)
             \/ /\ m = EnPassant(from, p.epSquare) /\ p.epSquare # NoSquare
                /\ p.epSquare \in PawnAttacks[us][from]
                /\ EnPassantLegal(p, from, p.epSquare, us, k, Occupied(p))
  <2>1. m \in PawnMoves(p, us, targets, targets, pinned, k, Occupied(p))
    OBVIOUS
  <2>. HIDE DEF us, targets, pinned
  <2>. QED BY <2>1, PawnMovesAre
<1>3. from \in Squares /\ b[from] = MakePiece(us, "pawn")
  BY <1>1, <1>2, PiecesStand DEF PieceTypes
<1>4. Color(b[from]) = us /\ Type(b[from]) = "pawn"
  BY <1>1, <1>3, PieceFacts DEF PieceTypes
<1>5. from # k
  <2>1. b[k] = MakePiece(us, "king")
    BY <1>1, KingStands DEF BothKings
  <2>2. MakePiece(us, "king") # MakePiece(us, "pawn")
    BY DEF MakePiece
  <2>. QED BY <1>3, <2>1, <2>2
<1>6. targets \in SUBSET Squares
  BY AnswersOnBoard
<1>7. CASE /\ m = EnPassant(from, p.epSquare) /\ p.epSquare # NoSquare
           /\ p.epSquare \in PawnAttacks[us][from]
           /\ EnPassantLegal(p, from, p.epSquare, us, k, Occupied(p))
  <2>1. m.kind = "enPassant" /\ m.from = from /\ m.to = p.epSquare
    BY <1>7 DEF EnPassant
  <2>. QED BY <1>3, <1>7, <2>1 DEF TakesEnPassant
<1>8. CASE \E to \in PinMask(k, pinned, from)
                          \cap (Pushes(from, us, targets, Occupied(p))
                                  \cup (PawnAttacks[us][from] \cap theirs \cap targets)) :
                  m \in PawnMove(from, to, promoRank)
  <2>1. PICK to \in PinMask(k, pinned, from)
                          \cap (Pushes(from, us, targets, occ)
                                  \cup (PawnAttacks[us][from] \cap theirs \cap targets)) :
                  m \in PawnMove(from, to, promoRank)
    BY <1>1, <1>8
  <2>2. m.kind \in {"normal", "promotion"} /\ m.from = from /\ m.to = to
    BY <2>1 DEF PawnMove, Normal, Promotion
  <2>3. /\ to \in Squares /\ to # from /\ to \in targets /\ WayClear(from, to, occ)
        /\ to \notin occ \/ Assails(b[from], from, to, occ)
    <3>. HIDE DEF targets, us, occ
    <3>1. CASE to \in Pushes(from, us, targets, occ)
      BY <1>1, <1>3, <1>6, <3>1, PushesAdvance
    <3>2. CASE to \in PawnAttacks[us][from] \cap theirs \cap targets
      <4>1. to \in PawnAttacks[us][from] /\ to \in targets
        BY <3>2
      <4>. QED BY <1>1, <1>3, <4>1, PawnTakes
    <3>. QED BY <2>1, <3>1, <3>2
  <2>. QED BY <1>3, <1>4, <1>5, <2>1, <2>2, <2>3 DEF Covered
<1>. QED BY <1>2, <1>7, <1>8

\* The moves of the generator, by how they leave the king safe.
LEMMA GeneratedKinds ==
    ASSUME NEW p, Sound(p), BothKings(p), NEW m \in GenerateLegalMoves(p),
           NEW k, k = KingSquare(p, p.side)
    PROVE  \/ m \in KingMoves(p, k, Opposite(p.side), Occupied(p), Squares \ p.byColor[p.side])
           \/ m \in CastlingMoves(p, p.side, Occupied(p))
           \/ ~(Cardinality(Checkers(p)) > 1) /\ Covered(p, m)
           \/ TakesEnPassant(p, m)
<1>. DEFINE us == p.side
            occ == Occupied(p)
            pinned == BlockersForKing(p, us) \cap p.byColor[us]
<1>1. \/ m \in KingMoves(p, k, Opposite(us), occ, Squares \ p.byColor[us])
      \/ m \in CastlingMoves(p, us, occ)
      \/ /\ ~(Cardinality(Checkers(p)) > 1)
         /\ \/ m \in PawnMoves(p, us, Answers(p, k), Answers(p, k), pinned, k, occ)
            \/ m \in PieceMoves(p, us, Answers(p, k), pinned, k, occ)
  BY DEF GenerateLegalMoves, Generate, Answers
<1>. QED BY <1>1, PawnsCovered, PiecesCovered

-----------------------------------------------------------------------------
(***************************************************************************)
(* The king is safe after each kind of move.                               *)
(***************************************************************************)
\* Fewer men hide fewer attacks.
LEMMA AssailsFewer ==
    ASSUME NEW pc, NEW a, NEW s, NEW occ, Assails(pc, a, s, occ), NEW fewer \in SUBSET occ
    PROVE  Assails(pc, a, s, fewer)
  BY DEF Assails, Sees

\* A move that takes one piece from its square to another.
LEMMA PlainMove ==
    ASSUME NEW b \in Boards, NEW us \in Colors, NEW m, Playable(b, us, m), m.kind \in {"normal", "promotion"}
    PROVE  LET d == BoardAfter(b, us, m)
           IN  /\ \A s \in Squares \ {m.from, m.to} : d[s] = b[s]
               /\ d[m.from] = NoPiece /\ d[m.to] \in Pieces /\ Color(d[m.to]) = us
               /\ Manned(d) = (Manned(b) \ {m.from}) \cup {m.to}
<1>. DEFINE d == BoardAfter(b, us, m)
            X == IF m.kind = "promotion" THEN MakePiece(us, m.promotion) ELSE b[m.from]
            from == m.from
            to == m.to
<1>1. from \in Squares /\ to \in Squares /\ from # to /\ b[from] \in Pieces /\ Color(b[from]) = us
  BY DEF Playable
<1>2. d = [b EXCEPT ![from] = NoPiece, ![to] = X]
  BY DEF BoardAfter
<1>3. X \in Pieces /\ Color(X) = us
  <2>1. CASE m.kind = "promotion"
    <3>1. m.promotion \in PromotionTypes /\ m.promotion \in PieceTypes
      BY <2>1 DEF Playable, PromotionTypes, PieceTypes
    <3>. QED BY <2>1, <3>1, ManTypes, PieceFacts
  <2>. QED BY <1>1, <2>1
<1>4. X # NoPiece
  BY <1>3, ManTypes
<1>. HIDE DEF d, X
<1>5. \A s \in Squares : d[s] = IF s = to THEN X ELSE IF s = from THEN NoPiece ELSE b[s]
  BY <1>1, <1>2 DEF Boards
<1>6. Manned(d) = (Manned(b) \ {from}) \cup {to}
  BY <1>1, <1>4, <1>5 DEF Manned
<1>. QED BY <1>1, <1>3, <1>5, <1>6 DEF d

\* The enemies on the board are where they were after such a move.
LEMMA EnemiesStay ==
    ASSUME NEW b \in Boards, NEW us \in Colors, NEW m, Playable(b, us, m), m.kind \in {"normal", "promotion"},
           NEW a \in Squares, Color(BoardAfter(b, us, m)[a]) = Opposite(us)
    PROVE  a # m.from /\ a # m.to /\ BoardAfter(b, us, m)[a] = b[a]
<1>1. Opposite(us) # us /\ Color(NoPiece) # Opposite(us)
  BY DEF Opposite, Color, NoPiece, Colors, White, Black
<1>. QED BY <1>1, PlainMove

\* The king is safe after a move that answers checks and pins,
LEMMA CoveredSafe ==
    ASSUME NEW p, Sound(p), BothKings(p), NEW m, Playable(p.board, p.side, m),
           ~(Cardinality(Checkers(p)) > 1), Covered(p, m)
    PROVE  KingSafe(BoardAfter(p.board, p.side, m), p.side)
<1>. DEFINE us == p.side
            b == p.board
            d == BoardAfter(b, us, m)
            k == KingSquare(p, us)
<1>1. us \in Colors /\ b \in Boards /\ Consistent(p) /\ KingsOnce(p)
  BY DEF Sound, Consistent
<1>2. k \in Squares /\ b[k] = MakePiece(us, "king")
  BY <1>1, KingStands DEF BothKings
<1>3. /\ m.kind \in {"normal", "promotion"} /\ m.from \in Squares /\ m.to \in Squares /\ m.from # m.to
      /\ Color(b[m.from]) = us /\ m.from # k /\ Type(b[m.from]) # "king"
      /\ m.to \in Answers(p, k) /\ m.to \in PinMask(k, BlockersForKing(p, us) \cap p.byColor[us], m.from)
      /\ WayClear(m.from, m.to, Manned(b))
  BY DEF Covered
<1>4. Type(MakePiece(us, "king")) = "king"
  BY <1>1, PieceFacts DEF PieceTypes
<1>5. Manned(d) = (Manned(b) \ {m.from}) \cup {m.to}
  BY <1>1, <1>3, PlainMove
<1>6. \A a \in Squares : a # m.to /\ Color(b[a]) = Opposite(us)
                  => ~Assails(b[a], a, k, (Manned(b) \ {m.from}) \cup {m.to})
  BY <1>2, <1>3, KingStaysCovered
<1>7. ASSUME NEW s \in Squares, NEW a \in Squares, d[s] = MakePiece(us, "king"), Color(d[a]) = Opposite(us)
      PROVE  ~Assails(d[a], a, s, Manned(d))
  <2>1. b[s] = MakePiece(us, "king")
    BY <1>1, <1>3, <1>4, <1>7, KingsAfter
  <2>2. s = k
    BY <1>1, <1>2, <2>1 DEF KingsOnce
  <2>3. a # m.to /\ d[a] = b[a]
    BY <1>1, <1>3, <1>7, EnemiesStay
  <2>. HIDE DEF d, k
  <2>. QED BY <1>5, <1>6, <1>7, <2>2, <2>3
<1>. QED BY <1>7 DEF KingSafe

\* after its own move,
LEMMA KingMoveSafe ==
    ASSUME NEW p, Sound(p), BothKings(p), NEW k, k = KingSquare(p, p.side),
           NEW m \in KingMoves(p, k, Opposite(p.side), Occupied(p), Squares \ p.byColor[p.side]),
           Playable(p.board, p.side, m)
    PROVE  KingSafe(BoardAfter(p.board, p.side, m), p.side)
<1>. DEFINE us == p.side
            them == Opposite(us)
            b == p.board
            d == BoardAfter(b, us, m)
            occ == Manned(b)
<1>1. us \in Colors /\ them \in Colors /\ b \in Boards /\ Consistent(p) /\ KingsOnce(p) /\ Occupied(p) = occ
  BY RefreshReadsBoard, ManTypes DEF Sound, Consistent
<1>2. k \in Squares /\ b[k] = MakePiece(us, "king")
  BY <1>1, KingStands DEF BothKings
<1>3. PICK t \in Squares : m = Normal(k, t) /\ AttackersTo(p, t, occ \ {k}) \cap p.byColor[them] = {}
  BY <1>1 DEF KingMoves
<1>4. m.kind = "normal" /\ m.from = k /\ m.to = t
  BY <1>3 DEF Normal
<1>5. Manned(d) = (occ \ {k}) \cup {t}
  BY <1>1, <1>4, PlainMove
<1>6. occ \ {k} \in SUBSET Squares
  BY DEF Manned
<1>7. \A a \in Squares : Color(b[a]) = them => ~Assails(b[a], a, t, occ \ {k})
  <2>. DEFINE less == occ \ {k}
  <2>1. less \in SUBSET Squares /\ AttackersTo(p, t, less) \cap p.byColor[them] = {}
    BY <1>3, <1>6
  <2>. HIDE DEF less, them
  <2>2. AttackersTo(p, t, less) \cap p.byColor[them] =
          {a \in Squares : Color(p.board[a]) = them /\ Assails(p.board[a], a, t, less)}
    BY <1>1, <2>1, AttackersSeen
  <2>3. \A a \in Squares : Color(b[a]) = them => ~Assails(b[a], a, t, less)
    BY <2>1, <2>2
  <2>. QED BY <2>3 DEF less
<1>8. ASSUME NEW s \in Squares, NEW a \in Squares, d[s] = MakePiece(us, "king"), Color(d[a]) = them
      PROVE  ~Assails(d[a], a, s, Manned(d))
  <2>1. \/ b[s] = MakePiece(us, "king") /\ s \notin {k, t}
        \/ s = t
    BY <1>1, <1>4, <1>8, KingsAfter
  <2>2. s = t
    BY <1>1, <1>2, <2>1 DEF KingsOnce
  <2>3. d[a] = b[a]
    BY <1>1, <1>4, <1>8, EnemiesStay
  <2>. HIDE DEF d, occ
  <2>. QED BY <1>5, <1>7, <1>8, <2>2, <2>3, AssailsFewer
<1>. QED BY <1>8 DEF KingSafe

\* Kings attack each other.
LEMMA KingsApart ==
    ASSUME NEW b, NEW us \in Colors, KingSafe(b, Opposite(us)), NEW k \in Squares, NEW a \in Squares,
           b[k] = MakePiece(us, "king"), b[a] = MakePiece(Opposite(us), "king")
    PROVE  a \notin KingAttacks[k]
<1>1. SUFFICES ASSUME a \in KingAttacks[k]
               PROVE  FALSE
  OBVIOUS
<1>2. PICK d \in Directions : At(k, d, 1, a)
  BY <1>1, KingSteps
<1>3. At(a, -d, 1, k) /\ -d \in Directions
  <2>1. 1 \in 0..7
    OBVIOUS
  <2>. QED BY <1>2, <2>1, Backwards
<1>4. k \in KingAttacks[a]
  BY <1>3, KingSteps
<1>5. Type(b[k]) = "king" /\ Color(b[k]) = Opposite(Opposite(us))
  BY ManTypes, PieceFacts DEF PieceTypes
<1>6. Assails(b[k], k, a, Manned(b))
  BY <1>4, <1>5 DEF Assails, Touches
<1>. QED BY <1>5, <1>6 DEF KingSafe

\* after a capture en passant,
LEMMA EnPassantSafe ==
    ASSUME NEW p, Sound(p), BothKings(p), KingSafe(p.board, Opposite(p.side)), NEW m,
           Playable(p.board, p.side, m), TakesEnPassant(p, m)
    PROVE  KingSafe(BoardAfter(p.board, p.side, m), p.side)
<1>. DEFINE us == p.side
            them == Opposite(us)
            b == p.board
            d == BoardAfter(b, us, m)
            k == KingSquare(p, us)
            from == m.from
            to == m.to
            cap == to - PawnPush(us)
            after == (Manned(b) \ {from, cap}) \cup {to}
<1>1. /\ us \in Colors /\ them \in Colors /\ Opposite(them) = us /\ b \in Boards /\ Consistent(p) /\ KingsOnce(p)
      /\ Occupied(p) = Manned(b)
  BY RefreshReadsBoard, ManTypes DEF Sound, Consistent
<1>2. k \in Squares /\ b[k] = MakePiece(us, "king")
  BY <1>1, KingStands DEF BothKings
<1>3. /\ m.kind = "enPassant" /\ from \in Squares /\ to \in Squares /\ from # to /\ cap \in Squares
      /\ b[from] = MakePiece(us, "pawn") /\ b[to] = NoPiece /\ b[cap] = MakePiece(them, "pawn")
  BY DEF Playable, TakesEnPassant
<1>4. MakePiece(us, "pawn") # NoPiece /\ MakePiece(us, "pawn") # MakePiece(us, "king") /\ cap # to /\ cap # from
  <2>1. MakePiece(us, "pawn") # MakePiece(them, "pawn") /\ MakePiece(them, "pawn") # NoPiece
    BY <1>1, ManTypes DEF MakePiece
  <2>. QED BY <1>1, <1>3, <2>1, ManTypes DEF MakePiece
<1>5. d = [b EXCEPT ![cap] = NoPiece, ![from] = NoPiece, ![to] = b[from]]
  BY <1>3 DEF BoardAfter
<1>. HIDE DEF d, cap, from, to, us, them, b, k
<1>6. \A s \in Squares : d[s] = IF s = to THEN b[from] ELSE IF s \in {from, cap} THEN NoPiece ELSE b[s]
  BY <1>1, <1>3, <1>4, <1>5 DEF Boards
<1>7. Manned(d) = after
  BY <1>3, <1>4, <1>6 DEF Manned
<1>8. after \in SUBSET Squares
  BY <1>3 DEF Manned
<1>9. EnPassantLegal(p, from, to, us, k, Manned(b))
  BY <1>1 DEF TakesEnPassant, from, to, us, k
<1>10. /\ RookAttacks(k, after) \cap (p.byColor[them] \cap UNION {p.byType[pt] : pt \in {"rook", "queen"}}) = {}
       /\ BishopAttacks(k, after) \cap (p.byColor[them] \cap UNION {p.byType[pt] : pt \in {"bishop", "queen"}}) = {}
       /\ KnightAttacks[k] \cap (p.byColor[them] \cap UNION {p.byType[pt] : pt \in {"knight"}}) = {}
       /\ PawnAttacks[us][k] \cap ((p.byColor[them] \cap UNION {p.byType[pt] : pt \in {"pawn"}}) \ {cap}) = {}
  BY <1>9 DEF EnPassantLegal, cap, them
<1>11. ASSUME NEW a \in Squares, Color(b[a]) = them, a # cap
       PROVE  ~Assails(b[a], a, k, after)
  <2>. DEFINE pt == Type(b[a])
  <2>1. a \in p.byColor[them] /\ pt \in PieceTypes /\ a \in p.byType[pt] /\ b[a] = MakePiece(them, pt)
    <3>1. b[a] \in Pieces \/ b[a] = NoPiece
      BY <1>1 DEF Boards
    <3>2. b[a] \in Pieces
      BY <1>1, <1>11, <3>1 DEF Color, NoPiece, Colors, White, Black
    <3>3. pt \in PieceTypes /\ b[a] = MakePiece(them, pt)
      BY <1>11, <3>2 DEF Pieces, Type, Color, MakePiece
    <3>. QED BY <1>1, <1>11, <3>3 DEF Consistent, TypesOf, ColorsOf, b
  <2>. HIDE DEF pt
  <2>2. ASSUME pt = "pawn"
        PROVE  a \notin PawnAttacks[Opposite(Color(b[a]))][k]
    BY <1>1, <1>10, <1>11, <2>1, <2>2
  <2>3. ASSUME pt = "knight"
        PROVE  a \notin KnightAttacks[k]
    BY <1>10, <2>1, <2>3
  <2>4. ASSUME pt = "king"
        PROVE  a \notin KingAttacks[k]
    <3>1. KingSafe(b, Opposite(us))
      BY DEF b, us
    <3>2. b[a] = MakePiece(Opposite(us), "king")
      BY <2>1, <2>4 DEF them
    <3>. QED BY <1>1, <1>2, <3>1, <3>2, KingsApart
  <2>5. ~(pt \in {"rook", "queen"} /\ a \in RookAttacks(k, after))
    BY <1>10, <2>1
  <2>6. ~(pt \in {"bishop", "queen"} /\ a \in BishopAttacks(k, after))
    BY <1>10, <2>1
  <2>. HIDE DEF after
  <2>7. ~\E e \in SlideDirs(pt), n \in 1..7 : Sees(k, e, n, a, after)
    BY <1>2, <1>8, <2>5, <2>6, SlidersSee
  <2>8. ~Touches(b[a], a, k)
    BY <2>2, <2>3, <2>4 DEF Touches, pt
  <2>. QED BY <2>7, <2>8 DEF Assails, pt
<1>12. ASSUME NEW s \in Squares, NEW a \in Squares, d[s] = MakePiece(us, "king"), Color(d[a]) = Opposite(us)
       PROVE  ~Assails(d[a], a, s, Manned(d))
  <2>1. b[s] = MakePiece(us, "king")
    BY <1>3, <1>4, <1>6, <1>12, ManTypes DEF MakePiece, NoPiece
  <2>2. s = k
    BY <1>1, <1>2, <2>1 DEF KingsOnce, b
  <2>3. Color(NoPiece) # them /\ Color(b[from]) # them /\ Opposite(us) = them
    <3>1. Color(MakePiece(us, "pawn")) = us
      BY <1>1, PieceFacts DEF PieceTypes
    <3>2. Color(NoPiece) # them
      BY <1>1 DEF Color, NoPiece, Colors, White, Black
    <3>3. us # Opposite(us)
      BY <1>1, ManTypes
    <3>. QED BY <1>3, <3>1, <3>2, <3>3 DEF them
  <2>4. a \notin {from, to, cap} /\ d[a] = b[a] /\ Color(b[a]) = them
    BY <1>6, <1>12, <2>3
  <2>. HIDE DEF after
  <2>. QED BY <1>7, <1>11, <2>2, <2>4
<1>. QED BY <1>12 DEF KingSafe, d, us, b

\* Where castling takes the king and the rook: side by side on their home rank.
LEMMA CastlingPlaces ==
    ASSUME NEW r \in Rights
    PROVE  LET t == CastlingKingTo(r)
               x == CastlingRookTo(r)
           IN  /\ t \in Squares /\ x \in Squares /\ Rank(t) = HomeRank(r[1]) /\ Rank(x) = HomeRank(r[1])
               /\ r[2] = "king" => File(t) = 6 /\ File(x) = 5
               /\ r[2] = "queen" => File(t) = 2 /\ File(x) = 3
               /\ r[2] \in {"king", "queen"}
<1>1. r[1] \in {White, Black} /\ r[2] \in {"king", "queen"}
  BY DEF Rights, Wings, Colors
<1>2. HomeRank(r[1]) \in {0, 7}
  BY DEF HomeRank
<1>3. /\ CastlingKingTo(r) = HomeRank(r[1]) * 8 + (IF r[2] = "king" THEN 6 ELSE 2)
      /\ CastlingRookTo(r) = HomeRank(r[1]) * 8 + (IF r[2] = "king" THEN 5 ELSE 3)
  BY DEF CastlingKingTo, CastlingRookTo, MakeSquare
<1>. QED BY <1>1, <1>2, <1>3 DEF Squares, File, Rank

\* Only its own rook, in the corner, is behind a king that stands beside its goal.
LEMMA KingHides ==
    ASSUME NEW r \in Rights, NEW k \in Squares, NEW rook \in Squares,
           Rank(k) = HomeRank(r[1]), Rank(rook) = HomeRank(r[1]), rook # k, rook > k <=> r[2] = "king",
           NEW e \in Directions, DY(e) = 0, NEW n \in 1..7, NEW a \in Squares,
           At(CastlingKingTo(r), e, n, a), ~InWay(CastlingKingTo(r), e, n, CastlingRookTo(r)),
           InWay(CastlingKingTo(r), e, n, k)
    PROVE  a = rook
<1>. DEFINE t == CastlingKingTo(r)
            x == CastlingRookTo(r)
            h == HomeRank(r[1])
<1>1. /\ t \in Squares /\ x \in Squares /\ Rank(t) = h /\ Rank(x) = h
      /\ r[2] = "king" => File(t) = 6 /\ File(x) = 5
      /\ r[2] = "queen" => File(t) = 2 /\ File(x) = 3
      /\ r[2] \in {"king", "queen"}
  BY CastlingPlaces
<1>2. DX(e) \in {1, -1}
  BY DEF Directions, BishopDirs, RookDirs, North, South, East, West, DX, DY
<1>3. h \in {0, 7}
  BY DEF HomeRank
<1>. HIDE DEF t, x, h
<1>4. PICK i \in 1 .. (n - 1) : At(t, e, i, k)
  BY DEF InWay, t
<1>5. /\ File(a) = File(t) + n * DX(e) /\ Rank(a) = h /\ File(k) = File(t) + i * DX(e)
  BY <1>1, <1>3, <1>4 DEF At, t
<1>6. /\ File(a) \in 0..7 /\ File(k) \in 0..7 /\ File(rook) \in 0..7 /\ File(t) \in 0..7
      /\ a = 8 * Rank(a) + File(a) /\ k = 8 * Rank(k) + File(k) /\ rook = 8 * Rank(rook) + File(rook)
  BY <1>1, Coordinates
<1>7. n \in 2..7 /\ 1 \in 1 .. (n - 1)
  BY <1>4
<1>8. File(x) # File(t) + DX(e)
  <2>1. ~At(t, e, 1, x)
    BY <1>7 DEF InWay, t, x
  <2>2. 1 * DX(e) = DX(e) /\ 1 * DY(e) = 0
    BY <1>2
  <2>. QED BY <1>1, <1>3, <2>1, <2>2 DEF At
<1>9. CASE r[2] = "king"
  <2>1. DX(e) = 1
    BY <1>1, <1>2, <1>8, <1>9
  <2>2. File(a) = 6 + n
    BY <1>1, <1>5, <1>9, <2>1
  <2>. QED BY <1>6, <1>7, <2>2
<1>10. CASE r[2] = "queen"
  <2>1. DX(e) = -1
    BY <1>1, <1>2, <1>8, <1>10
  <2>2. File(a) = 2 - n /\ File(k) = 2 - i
    BY <1>1, <1>4, <1>5, <1>10, <2>1
  <2>3. n = 2 /\ File(a) = 0 /\ File(k) = 1
    BY <1>4, <1>6, <1>7, <2>2
  <2>4. rook < k
    <3>1. ~(rook > k)
      BY <1>10
    <3>. QED BY <3>1 DEF Squares
  <2>5. File(rook) = 0
    BY <1>3, <1>6, <2>3, <2>4 DEF h
  <2>. QED BY <1>5, <1>6, <2>3, <2>5 DEF h
<1>. QED BY <1>1, <1>9, <1>10

\* Other lines leave the rank at once.
LEMMA RankLeft ==
    ASSUME NEW t \in Squares, NEW e \in Directions, DY(e) # 0, NEW n \in 1..7, NEW u, InWay(t, e, n, u)
    PROVE  Rank(u) # Rank(t)
<1>1. PICK i \in 1 .. (n - 1) : Rank(u) = Rank(t) + i * DY(e)
  BY DEF InWay, At
<1>2. DY(e) \in {1, -1}
  BY DEF Directions, BishopDirs, RookDirs, North, South, East, West, DY
<1>3. Rank(t) \in 0..7
  BY Coordinates
<1>. QED BY <1>1, <1>2, <1>3

\* and after castling, with king and rook anywhere on their rank.
LEMMA CastlingSafe ==
    ASSUME NEW p, Sound(p), BothKings(p), NEW m \in CastlingMoves(p, p.side, Occupied(p)),
           Playable(p.board, p.side, m)
    PROVE  KingSafe(BoardAfter(p.board, p.side, m), p.side)
<1>. DEFINE us == p.side
            them == Opposite(us)
            b == p.board
            d == BoardAfter(b, us, m)
            occ == Manned(b)
            k == KingSquare(p, us)
<1>1. us \in Colors /\ them \in Colors /\ them # us /\ b \in Boards /\ Consistent(p) /\ KingsOnce(p)
      /\ Occupied(p) = occ /\ occ \in SUBSET Squares
  BY RefreshReadsBoard, ManTypes DEF Sound, Consistent, Manned
<1>2. k \in Squares /\ b[k] = MakePiece(us, "king")
  BY <1>1, KingStands DEF BothKings
<1>3. PICK r \in ColorRights(us) : CastlingAllowed(p, r, Occupied(p)) /\ m = Castling(k, p.castlingRook[r])
  BY DEF CastlingMoves
<1>. DEFINE rook == p.castlingRook[r]
            t == CastlingKingTo(r)
            x == CastlingRookTo(r)
            less == occ \ {rook}
<1>4. r[1] = us /\ r \in Rights /\ r = <<us, r[2]>> /\ r[2] \in {"king", "queen"}
  BY <1>1, <1>3 DEF ColorRights, Rights, Wings
<1>5. /\ r \in p.castling /\ b[rook] = MakePiece(us, "rook")
      /\ ~KingPathAttacked(p, k, t, them)
      /\ RookAttacks(t, SymDiff(Occupied(p), {rook})) \cap (p.byType["rook"] \cup p.byType["queen"])
           \cap p.byColor[them] = {}
  BY <1>3, <1>4 DEF CastlingAllowed
<1>6. /\ rook \in Squares /\ (rook > k <=> r[2] = "king")
      /\ Rank(k) = HomeRank(us) /\ Rank(rook) = HomeRank(us)
  BY <1>4, <1>5 DEF Sound, RightSound
<1>7. t \in Squares /\ x \in Squares /\ Rank(t) = HomeRank(us) /\ t # x
  BY <1>4, CastlingPlaces
<1>8. rook # k /\ rook \in occ
  BY <1>2, <1>5, <1>6 DEF MakePiece, Manned, NoPiece
<1>9. SymDiff(occ, {rook}) = less
  BY <1>8 DEF SymDiff
<1>10. m.kind = "castling" /\ m.from = k /\ m.to = rook
  BY <1>3 DEF Castling
<1>11. CastlingRight(us, m) = r
  <2>1. IF rook > k THEN r[2] = "king" ELSE r[2] = "queen"
    BY <1>4, <1>6
  <2>. QED BY <1>4, <1>10, <2>1 DEF CastlingRight
<1>12. d = [b EXCEPT ![k] = NoPiece, ![rook] = NoPiece, ![t] = MakePiece(us, "king"),
                     ![x] = MakePiece(us, "rook")]
  BY <1>10, <1>11 DEF BoardAfter
<1>. HIDE DEF d, rook, t, x, k, them, us, less
<1>13. \A s \in Squares : d[s] = IF s = x THEN MakePiece(us, "rook") ELSE IF s = t THEN MakePiece(us, "king")
                                 ELSE IF s \in {k, rook} THEN NoPiece ELSE b[s]
  BY <1>1, <1>2, <1>6, <1>7, <1>12 DEF Boards
<1>14. Manned(d) = (occ \ {k, rook}) \cup {t, x}
  <2>1. MakePiece(us, "rook") # NoPiece /\ MakePiece(us, "king") # NoPiece
    BY DEF MakePiece, NoPiece
  <2>. QED BY <1>7, <1>13, <2>1 DEF Manned
<1>15. ASSUME NEW a \in Squares, Color(d[a]) = them
       PROVE  a \notin {k, rook, t, x} /\ d[a] = b[a] /\ Color(b[a]) = them
  <2>1. Color(MakePiece(us, "rook")) = us /\ Color(MakePiece(us, "king")) = us
    BY <1>1, PieceFacts DEF PieceTypes
  <2>2. Color(NoPiece) # them
    BY <1>1 DEF Color, NoPiece, Colors, White, Black
  <2>. QED BY <1>1, <1>13, <1>15, <2>1, <2>2
<1>16. \A a \in Squares : Color(b[a]) = them => ~Assails(b[a], a, t, occ)
  <2>1. AttackersTo(p, t, occ) \cap p.byColor[them] = {}
    BY <1>1, <1>5 DEF KingPathAttacked, IsAttacked
  <2>2. AttackersTo(p, t, occ) \cap p.byColor[them] =
          {a \in Squares : Color(p.board[a]) = them /\ Assails(p.board[a], a, t, occ)}
    <3>. HIDE DEF occ
    <3>. QED BY <1>1, <1>7, AttackersSeen
  <2>. QED BY <2>1, <2>2
<1>17. \A a \in Squares : Color(b[a]) = them /\ Type(b[a]) \in {"rook", "queen"} => a \notin RookAttacks(t, less)
  <2>1. RookAttacks(t, less) \cap (p.byType["rook"] \cup p.byType["queen"]) \cap p.byColor[them] = {}
    BY <1>1, <1>5, <1>9
  <2>2. \A a \in Squares : /\ Color(b[a]) = them => a \in p.byColor[them]
                           /\ Type(b[a]) \in {"rook", "queen"} => a \in p.byType["rook"] \cup p.byType["queen"]
    BY <1>1 DEF Consistent, TypesOf, ColorsOf, PieceTypes
  <2>. QED BY <2>1, <2>2
<1>18. less \in SUBSET Squares
  BY <1>1 DEF less
<1>. HIDE DEF b, occ
<1>19. ASSUME NEW a \in Squares, Color(d[a]) = them, Assails(d[a], a, t, Manned(d))
       PROVE  FALSE
  <2>1. a \notin {k, rook, t, x} /\ d[a] = b[a] /\ Color(b[a]) = them
    BY <1>15, <1>19
  <2>2. ~Touches(b[a], a, t) /\ ~\E e \in SlideDirs(Type(b[a])), n \in 1..7 : Sees(t, e, n, a, occ)
    BY <1>16, <2>1 DEF Assails
  <2>3. PICK e \in SlideDirs(Type(b[a])), n \in 1..7 : Sees(t, e, n, a, Manned(d))
    BY <1>19, <2>1, <2>2 DEF Assails
  <2>4. e \in Directions
    BY SlideDirsKnown
  <2>5. At(t, e, n, a) /\ ~InWay(t, e, n, x) /\ \A u \in occ \ {k, rook} : ~InWay(t, e, n, u)
    BY <1>14, <2>3 DEF Sees
  <2>6. CASE DY(e) # 0
    <3>1. ~InWay(t, e, n, k) /\ ~InWay(t, e, n, rook)
      BY <1>6, <1>7, <2>4, <2>6, RankLeft
    <3>2. Sees(t, e, n, a, occ)
      BY <2>5, <3>1 DEF Sees
    <3>. QED BY <2>2, <3>2
  <2>7. CASE DY(e) = 0
    <3>1. ~InWay(t, e, n, k)
      <4>1. InWay(t, e, n, k) => a = rook
        BY <1>2, <1>4, <1>6, <1>8, <2>4, <2>5, <2>7, KingHides DEF t, x
      <4>. QED BY <2>1, <4>1
    <3>2. Sees(t, e, n, a, less)
      BY <2>5, <3>1 DEF Sees, less
    <3>3. e \in RookDirs /\ Type(b[a]) \in {"rook", "queen"}
      <4>1. e \notin BishopDirs
        BY <2>4, <2>7, DirectionSets
      <4>. QED BY <4>1 DEF SlideDirs
    <3>4. a \in RookAttacks(t, less)
      BY <1>7, <1>18, <3>2, <3>3, DirectionSets, SlidesSee DEF RookAttacks
    <3>. QED BY <1>17, <2>1, <3>3, <3>4
  <2>. QED BY <2>6, <2>7
<1>20. ASSUME NEW s \in Squares, NEW a \in Squares, d[s] = MakePiece(us, "king"), Color(d[a]) = them
       PROVE  ~Assails(d[a], a, s, Manned(d))
  <2>1. s = t
    <3>1. MakePiece(us, "rook") # MakePiece(us, "king") /\ NoPiece # MakePiece(us, "king")
      BY DEF MakePiece, NoPiece
    <3>2. CASE s \notin {x, t, k, rook}
      <4>1. b[s] = MakePiece(us, "king")
        BY <1>13, <1>20, <3>2
      <4>2. s = k
        BY <1>1, <1>2, <4>1 DEF KingsOnce, b
      <4>. QED BY <3>2, <4>2
    <3>. QED BY <1>13, <1>20, <3>1, <3>2
  <2>. QED BY <1>19, <1>20, <2>1
<1>. QED BY <1>20 DEF KingSafe, d, b, us, them

-----------------------------------------------------------------------------
(***************************************************************************)
(* Legal positions.                                                        *)
(***************************************************************************)
\* A legal position: sound, with both kings, and the side that has moved is not in check.
Legal(p) == Sound(p) /\ BothKings(p) /\ KingSafe(p.board, Opposite(p.side))

\* No move goes where the enemy king stands.
LEMMA KingNotTaken ==
    ASSUME NEW p, Legal(p), NEW m \in GenerateLegalMoves(p), Playable(p.board, p.side, m)
    PROVE  p.board[m.to] # MakePiece(Opposite(p.side), "king")
<1>. DEFINE us == p.side
            them == Opposite(us)
            b == p.board
            k == KingSquare(p, us)
<1>1. /\ us \in Colors /\ them \in Colors /\ Opposite(them) = us /\ them # us /\ Consistent(p)
      /\ Sound(p) /\ BothKings(p) /\ KingSafe(b, them) /\ Occupied(p) = Manned(b)
  BY RefreshReadsBoard, ManTypes DEF Legal, Sound
<1>2. k \in Squares /\ b[k] = MakePiece(us, "king")
  BY <1>1, KingStands DEF BothKings
<1>3. m.from \in Squares /\ m.to \in Squares /\ Color(b[m.from]) = us
  BY DEF Playable
<1>4. MakePiece(them, "king") # NoPiece /\ MakePiece(them, "king") # MakePiece(us, "rook")
  BY <1>1, ManTypes DEF MakePiece
<1>5. CASE m \in KingMoves(p, k, them, Occupied(p), Squares \ p.byColor[us])
  <2>1. PICK t \in KingAttacks[k] : m = Normal(k, t)
    BY <1>5 DEF KingMoves
  <2>2. m.to = t
    BY <2>1 DEF Normal
  <2>. QED BY <1>1, <1>2, <1>3, <2>1, <2>2, KingsApart
<1>6. CASE m \in CastlingMoves(p, us, Occupied(p))
  <2>1. m.kind = "castling"
    BY <1>6 DEF CastlingMoves, Castling
  <2>. QED BY <1>4, <2>1 DEF Playable
<1>7. CASE Covered(p, m)
  <2>1. m.to \notin Manned(b) \/ Assails(b[m.from], m.from, m.to, Manned(b))
    BY <1>7 DEF Covered
  <2>. HIDE DEF b
  <2>2. CASE m.to \notin Manned(b)
    BY <1>3, <1>4, <2>2 DEF Manned, b
  <2>3. CASE Assails(b[m.from], m.from, m.to, Manned(b))
    BY <1>1, <1>3, <2>3 DEF KingSafe, b
  <2>. QED BY <2>1, <2>2, <2>3
<1>8. CASE TakesEnPassant(p, m)
  <2>1. b[m.to] = NoPiece
    BY <1>8 DEF TakesEnPassant, Playable
  <2>. QED BY <1>4, <2>1
<1>. QED BY <1>1, <1>5, <1>6, <1>7, <1>8, GeneratedKinds

\* Both kings are there after the move.
LEMMA KingsRemain ==
    ASSUME NEW p, Legal(p), NEW m \in GenerateLegalMoves(p), Playable(p.board, p.side, m), NEW c \in Colors
    PROVE  \E s \in Squares : BoardAfter(p.board, p.side, m)[s] = MakePiece(c, "king")
<1>. DEFINE us == p.side
            b == p.board
            d == BoardAfter(b, us, m)
            k == KingSquare(p, c)
            K == MakePiece(c, "king")
            from == m.from
            to == m.to
            kingTo == CastlingKingTo(CastlingRight(us, m))
            rookTo == CastlingRookTo(CastlingRight(us, m))
<1>1. us \in Colors /\ b \in Boards /\ Consistent(p) /\ k \in Squares /\ b[k] = K
  BY KingStands DEF Legal, Sound, BothKings, Consistent
<1>2. CASE k \notin {from, to}
  <2>. HIDE DEF d, K, k
  <2>. QED BY <1>1, <1>2, KingsAfter DEF d, K
<1>3. from \in Squares /\ to \in Squares /\ from # to /\ b[from] \in Pieces /\ Color(b[from]) = us
  BY DEF Playable
<1>4. Type(K) = "king" /\ Color(K) = c
  BY PieceFacts DEF PieceTypes
<1>5. CASE k = from
  <2>1. c = us
    BY <1>1, <1>3, <1>4, <1>5
  <2>2. CASE m.kind = "castling"
    <3>1. d = [b EXCEPT ![from] = NoPiece, ![to] = NoPiece, ![kingTo] = MakePiece(us, "king"),
                        ![rookTo] = MakePiece(us, "rook")]
      BY <2>2 DEF BoardAfter
    <3>2. kingTo \in Squares /\ rookTo \in Squares /\ kingTo # rookTo
      BY <1>1, CastlingSquares
    <3>. HIDE DEF d, kingTo, rookTo, K
    <3>3. d[kingTo] = MakePiece(us, "king")
      BY <1>1, <1>3, <3>1, <3>2 DEF Boards
    <3>. QED BY <2>1, <3>2, <3>3 DEF d, K
  <2>3. CASE m.kind = "normal"
    <3>1. d = [b EXCEPT ![from] = NoPiece, ![to] = b[from]]
      BY <2>3 DEF BoardAfter
    <3>. HIDE DEF d, K
    <3>2. d[to] = K
      BY <1>1, <1>3, <1>5, <3>1 DEF Boards
    <3>. QED BY <1>3, <3>2 DEF d, K
  <2>4. CASE m.kind \in {"promotion", "enPassant"}
    <3>1. b[from] = MakePiece(us, "pawn")
      BY <2>4 DEF Playable
    <3>. QED BY <1>1, <1>5, <3>1 DEF MakePiece
  <2>. QED BY <2>2, <2>3, <2>4 DEF Playable
<1>6. CASE k = to /\ c = us
  <2>1. CASE m \in KingMoves(p, k, Opposite(us), Occupied(p), Squares \ p.byColor[us])
    <3>1. m.from = k
      BY <2>1 DEF KingMoves, Normal
    <3>. QED BY <1>3, <1>6, <3>1
  <2>2. CASE m \in CastlingMoves(p, us, Occupied(p))
    <3>1. m.from = k
      BY <1>6, <2>2 DEF CastlingMoves, Castling
    <3>. QED BY <1>3, <1>6, <3>1
  <2>3. CASE ~(Cardinality(Checkers(p)) > 1) /\ Covered(p, m)
    <3>1. to # k
      <4>1. /\ Color(b[from]) = us /\ from # k /\ to \in Answers(p, k)
            /\ to \in PinMask(k, BlockersForKing(p, us) \cap p.byColor[us], from)
            /\ WayClear(from, to, Manned(b))
        BY <1>6, <2>3 DEF Covered
      <4>2. Sound(p) /\ BothKings(p) /\ k = KingSquare(p, us)
        BY <1>6 DEF Legal
      <4>. QED BY <1>1, <1>3, <2>3, <4>1, <4>2, KingStaysCovered
    <3>. QED BY <1>6, <3>1
  <2>4. CASE TakesEnPassant(p, m)
    <3>1. b[to] = NoPiece
      BY <2>4 DEF TakesEnPassant, Playable
    <3>. QED BY <1>1, <1>6, <3>1 DEF MakePiece, NoPiece
  <2>5. k = KingSquare(p, p.side) /\ Sound(p) /\ BothKings(p)
    BY <1>6 DEF Legal
  <2>. QED BY <2>1, <2>2, <2>3, <2>4, <2>5, GeneratedKinds
<1>7. CASE k = to /\ c # us
  <2>1. c = Opposite(us)
    BY <1>1, <1>7 DEF Opposite, Colors
  <2>. QED BY <1>1, <1>7, <2>1, KingNotTaken
<1>. QED BY <1>2, <1>5, <1>6, <1>7

\* A generated move leads from a legal position to a legal position: the generator's
\* masks for checks, pins, castling and en passant leave no king to be taken.
THEOREM GeneratedMovesAreLegal ==
    ASSUME NEW p, Legal(p), NEW m \in GenerateLegalMoves(p)
    PROVE  Legal(MakeMove(p, m))
<1>. DEFINE us == p.side
            b == p.board
            q == MakeMove(p, m)
            d == BoardAfter(b, us, m)
            k == KingSquare(p, us)
<1>1. /\ Sound(p) /\ BothKings(p) /\ KingSafe(b, Opposite(us)) /\ us \in Colors
      /\ Occupied(p) = Manned(b)
  BY RefreshReadsBoard DEF Legal, Sound
<1>2. Playable(b, us, m)
  BY <1>1, GeneratedPlayable
<1>3. Sound(q)
  BY <1>1, <1>2, MoveKeepsSound
<1>4. q.board = d /\ q.side = Opposite(us)
  BY <1>1, <1>2, MoveMade DEF Sound
<1>5. KingSafe(d, us)
  <2>1. CASE m \in KingMoves(p, k, Opposite(us), Occupied(p), Squares \ p.byColor[us])
    BY <1>1, <1>2, <2>1, KingMoveSafe
  <2>2. CASE m \in CastlingMoves(p, us, Occupied(p))
    BY <1>1, <1>2, <2>2, CastlingSafe
  <2>3. CASE ~(Cardinality(Checkers(p)) > 1) /\ Covered(p, m)
    BY <1>1, <1>2, <2>3, CoveredSafe
  <2>4. CASE TakesEnPassant(p, m)
    BY <1>1, <1>2, <2>4, EnPassantSafe
  <2>. QED BY <1>1, <2>1, <2>2, <2>3, <2>4, GeneratedKinds
<1>6. BothKings(q)
  <2>. SUFFICES ASSUME NEW c \in Colors PROVE PiecesOf(q, c, "king") # {}
    BY DEF BothKings
  <2>1. PICK s \in Squares : d[s] = MakePiece(c, "king")
    BY <1>2, KingsRemain
  <2>2. PiecesOf(q, c, "king") = {x \in Squares : q.board[x] = MakePiece(c, "king")}
    BY <1>3, PiecesStand DEF Sound, PieceTypes
  <2>. QED BY <1>4, <2>1, <2>2
<1>7. KingSafe(q.board, Opposite(q.side))
  <2>1. Opposite(q.side) = us
    BY <1>1, <1>4, ManTypes
  <2>. QED BY <1>4, <1>5, <2>1
<1>. QED BY <1>3, <1>6, <1>7 DEF Legal

\* What the guard of a null move and the test of a FEN establish.
LEMMA NotAttackedIsSafe ==
    ASSUME NEW p, Consistent(p), KingsOnce(p), NEW c \in Colors, NEW k \in Squares, k = KingSquare(p, c),
           AttackersTo(p, k, Occupied(p)) \cap p.byColor[Opposite(c)] = {}
    PROVE  KingSafe(p.board, c)
<1>. DEFINE occ == Manned(p.board)
            them == Opposite(c)
<1>1. Occupied(p) = occ /\ occ \in SUBSET Squares /\ them \in Colors
  BY RefreshReadsBoard, ManTypes DEF Manned
<1>2. AttackersTo(p, k, occ) \cap p.byColor[them] =
        {a \in Squares : Color(p.board[a]) = them /\ Assails(p.board[a], a, k, occ)}
  <2>. HIDE DEF occ, them
  <2>. QED BY <1>1, AttackersSeen
<1>3. \A a \in Squares : Color(p.board[a]) = them => ~Assails(p.board[a], a, k, occ)
  BY <1>1, <1>2
<1>4. \A s \in Squares : p.board[s] = MakePiece(c, "king") => s = k
  BY KingFound
<1>. QED BY <1>3, <1>4 DEF KingSafe

\* Passing out of check leads to a legal position.
LEMMA NullMoveLegal ==
    ASSUME NEW p, Legal(p), ~InCheck(p)
    PROVE  Legal(MakeNullMove(p))
<1>. DEFINE q == MakeNullMove(p)
            k == KingSquare(p, p.side)
<1>1. /\ Sound(p) /\ BothKings(p) /\ p.side \in Colors /\ Consistent(p) /\ KingsOnce(p)
  BY DEF Legal, Sound
<1>2. Sound(q)
  BY <1>1, NullMoveKeepsSound
<1>3. q.board = p.board /\ q.side = Opposite(p.side) /\ Consistent(q)
  BY <1>1, NullMoveMade DEF Sound
<1>4. k \in Squares
  BY <1>1, KingStands DEF BothKings
<1>5. AttackersTo(p, k, Occupied(p)) \cap p.byColor[Opposite(p.side)] = {}
  BY DEF InCheck, Checkers
<1>6. KingSafe(p.board, p.side)
  BY <1>1, <1>4, <1>5, NotAttackedIsSafe
<1>7. Opposite(q.side) = p.side
  BY <1>1, <1>3, ManTypes
<1>. HIDE DEF q
<1>8. BothKings(q)
  <2>. SUFFICES ASSUME NEW c \in Colors PROVE PiecesOf(q, c, "king") # {}
    BY DEF BothKings
  <2>1. /\ PiecesOf(q, c, "king") = {x \in Squares : q.board[x] = MakePiece(c, "king")}
        /\ PiecesOf(p, c, "king") = {x \in Squares : p.board[x] = MakePiece(c, "king")}
    BY <1>1, <1>3, PiecesStand DEF PieceTypes
  <2>. QED BY <1>1, <1>3, <2>1 DEF BothKings
<1>. QED BY <1>2, <1>3, <1>6, <1>7, <1>8 DEF Legal, q

\* A FEN that is not refused gives a legal position.
LEMMA ParsedLegal ==
    ASSUME NEW fen \in FENs, Valid(fen), fen.halfmove \in Nat,
           fen.epSquare # NoSquare => fen.epSquare - PawnPush(fen.side) \in Squares
    PROVE  Legal(ParseFEN(fen))
<1>. DEFINE q == ParseFEN(fen)
            p == Placed(fen)
            them == Opposite(p.side)
<1>1. Sound(q)
  BY ParsedSound
<1>2. /\ Consistent(p) /\ KingsOnce(p) /\ BothKings(p) /\ q.board = p.board /\ q.side = p.side
      /\ p.side \in Colors
  BY PlacedFacts, ParsedSound DEF Placed, FENs
<1>3. ~IsAttacked(p, KingSquare(p, them), p.side)
  BY DEF Valid
<1>4. them \in Colors /\ Opposite(them) = p.side
  BY <1>2, ManTypes
<1>. HIDE DEF p, q, them
<1>5. KingSafe(p.board, them)
  <2>1. KingSquare(p, them) \in Squares
    BY <1>2, <1>4, KingStands DEF BothKings
  <2>. QED BY <1>2, <1>3, <1>4, <2>1, NotAttackedIsSafe DEF IsAttacked
<1>6. BothKings(q)
  <2>. SUFFICES ASSUME NEW c \in Colors PROVE PiecesOf(q, c, "king") # {}
    BY DEF BothKings
  <2>1. Consistent(q)
    BY <1>1 DEF Sound
  <2>2. /\ PiecesOf(q, c, "king") = {x \in Squares : q.board[x] = MakePiece(c, "king")}
        /\ PiecesOf(p, c, "king") = {x \in Squares : p.board[x] = MakePiece(c, "king")}
    BY <1>2, <2>1, PiecesStand DEF PieceTypes
  <2>. QED BY <1>2, <2>2 DEF BothKings
<1>. QED BY <1>1, <1>2, <1>5, <1>6 DEF Legal, q, them

\* In a legal position the side that has moved is not in check.
LEMMA SafeIsNotAttacked ==
    ASSUME NEW p, Legal(p)
    PROVE  ~IsAttacked(p, KingSquare(p, Opposite(p.side)), p.side)
<1>. DEFINE them == Opposite(p.side)
            k == KingSquare(p, them)
            b == p.board
            occ == Manned(b)
<1>1. /\ p.side \in Colors /\ them \in Colors /\ Opposite(them) = p.side /\ Consistent(p)
      /\ Occupied(p) = occ /\ occ \in SUBSET Squares /\ BothKings(p) /\ KingSafe(b, them)
  BY RefreshReadsBoard, ManTypes DEF Legal, Sound, Manned
<1>2. k \in Squares /\ b[k] = MakePiece(them, "king")
  BY <1>1, KingStands DEF BothKings
<1>3. \A a \in Squares : Color(b[a]) = p.side => ~Assails(b[a], a, k, occ)
  BY <1>1, <1>2 DEF KingSafe
<1>4. AttackersTo(p, k, occ) \cap p.byColor[p.side] =
        {a \in Squares : Color(p.board[a]) = p.side /\ Assails(p.board[a], a, k, occ)}
  <2>. HIDE DEF occ, k, them
  <2>. QED BY <1>1, <1>2, AttackersSeen
<1>. QED BY <1>1, <1>3, <1>4 DEF IsAttacked

-----------------------------------------------------------------------------
(***************************************************************************)
(* Sequences that grow and shrink at their end.                            *)
(***************************************************************************)
IsSeq(s) == \E S : s \in Seq(S)

\* A sequence with one more element,
LEMMA Appended ==
    ASSUME NEW s, IsSeq(s), NEW e
    PROVE  /\ Len(s) \in Nat /\ DOMAIN s = 1 .. Len(s)
           /\ IsSeq(Append(s, e)) /\ Len(Append(s, e)) = Len(s) + 1
           /\ \A i \in 1 .. Len(s) : Append(s, e)[i] = s[i]
           /\ Append(s, e)[Len(s) + 1] = e
<1>1. PICK S : s \in Seq(S)
  BY DEF IsSeq
<1>. DEFINE T == S \cup {e}
<1>2. s \in Seq(T) /\ e \in T
  BY <1>1, SeqMonotonic
<1>. HIDE DEF T
<1>3. Len(s) \in Nat /\ DOMAIN s = 1 .. Len(s)
  BY <1>2, LenProperties
<1>4. /\ Append(s, e) \in Seq(T) /\ Len(Append(s, e)) = Len(s) + 1
      /\ \A i \in 1 .. Len(s) : Append(s, e)[i] = s[i]
      /\ Append(s, e)[Len(s) + 1] = e
  BY <1>2, AppendProperties
<1>. QED BY <1>3, <1>4 DEF IsSeq

\* and with one less.
LEMMA Fronted ==
    ASSUME NEW s, IsSeq(s), Len(s) > 0
    PROVE  /\ IsSeq(Front(s)) /\ Len(Front(s)) = Len(s) - 1
           /\ \A i \in 1 .. (Len(s) - 1) : Front(s)[i] = s[i]
           /\ Append(Front(s), Last(s)) = s
<1>1. PICK S : s \in Seq(S)
  BY DEF IsSeq
<1>. DEFINE n == Len(s)
<1>2. n \in Nat /\ n - 1 \in Nat /\ \A i \in 1 .. n : s[i] \in S
  BY <1>1, LenProperties, ElementOfSeq
<1>. HIDE DEF n
<1>3. Front(s) = SubSeq(s, 1, n - 1) /\ Last(s) = s[n]
  BY DEF Front, Last, n
<1>4. /\ Front(s) \in Seq(S) /\ Len(Front(s)) = n - 1
      /\ \A i \in 1 .. (n - 1) : Front(s)[i] = s[i]
  <2>1. \A i \in 1 .. (n - 1) : s[i] \in S
    BY <1>2
  <2>2. /\ SubSeq(s, 1, n - 1) \in Seq(S)
        /\ Len(SubSeq(s, 1, n - 1)) = IF 1 <= n - 1 THEN (n - 1) - 1 + 1 ELSE 0
        /\ \A i \in 1 .. ((n - 1) - 1 + 1) : SubSeq(s, 1, n - 1)[i] = s[1 + i - 1]
    BY <1>2, <2>1, SubSeqProperties
  <2>3. /\ (IF 1 <= n - 1 THEN (n - 1) - 1 + 1 ELSE 0) = n - 1
        /\ (n - 1) - 1 + 1 = n - 1 /\ \A i \in 1 .. (n - 1) : 1 + i - 1 = i
    BY <1>2
  <2>. QED BY <1>3, <2>2, <2>3
<1>. DEFINE t == Append(Front(s), Last(s))
<1>5. n \in 1 .. n /\ (n - 1) + 1 = n /\ \A i \in 1 .. n : i \in 1 .. (n - 1) \/ i = n
  BY <1>2
<1>6. /\ t \in Seq(S) /\ Len(t) = n
      /\ \A i \in 1 .. (n - 1) : t[i] = Front(s)[i]
      /\ t[n] = Last(s)
  <2>1. Last(s) \in S
    BY <1>2, <1>3, <1>5
  <2>. QED BY <1>4, <1>5, <2>1, AppendProperties
<1>7. \A i \in 1 .. n : t[i] = s[i]
  BY <1>3, <1>4, <1>5, <1>6
<1>8. t = s
  <2>. HIDE DEF t
  <2>. QED BY <1>1, <1>6, <1>7, SeqEqual DEF n
<1>. QED BY <1>4, <1>8 DEF IsSeq, n

-----------------------------------------------------------------------------
(***************************************************************************)
(* The line.                                                               *)
(***************************************************************************)
\* q is what was made of p, u what was recorded of it.
Reached(p, u, q) ==
    \/ u.move \in GenerateLegalMoves(p) /\ u = Undo(p, u.move) /\ q = MakeMove(p, u.move)
    \/ u = NullUndo(p) /\ q = MakeNullMove(p)

\* Legal positions, each made of the one before, with the records.
Chain(ps, h) ==
    /\ IsSeq(ps) /\ IsSeq(h) /\ Len(ps) = Len(h) + 1
    /\ \A i \in 1 .. Len(ps) : Legal(ps[i])
    /\ \A i \in 1 .. Len(h) : Reached(ps[i], h[i], ps[i + 1])

\* The accumulators st, and d more that are only counted, are those of the positions
\* after the first r.
Stacked(st, d, ps, r) ==
    /\ IsSeq(st) /\ Len(st) \in 1 .. Cap /\ d \in Nat
    /\ Len(st) + d = Len(ps) - r
    /\ d > 0 => Len(st) = Cap
    /\ \A i \in 1 .. Len(st) : st[i] = Refresh(ps[r + i])

Passed == Append(line, pos)

LineInv ==
    /\ IsSeq(line) /\ Chain(Passed, history)
    /\ root \in 0 .. Len(history)
    /\ Stacked(stack, overflowDepth, Passed, root)

\* A chain with one more move,
LEMMA ChainGrows ==
    ASSUME NEW ps, NEW h, Chain(ps, h), NEW u, NEW q, Reached(ps[Len(ps)], u, q), Legal(q)
    PROVE  Chain(Append(ps, q), Append(h, u))
<1>. DEFINE n == Len(h)
            pt == Append(ps, q)
            ht == Append(h, u)
<1>1. n \in Nat /\ Len(ps) = n + 1 /\ IsSeq(ps) /\ IsSeq(h)
  BY Appended DEF Chain
<1>2. /\ IsSeq(pt) /\ Len(pt) = (n + 1) + 1 /\ (\A i \in 1 .. (n + 1) : pt[i] = ps[i])
      /\ pt[(n + 1) + 1] = q
      /\ IsSeq(ht) /\ Len(ht) = n + 1 /\ (\A i \in 1 .. n : ht[i] = h[i]) /\ ht[n + 1] = u
  BY <1>1, Appended
<1>. HIDE DEF n, pt, ht
<1>3. \A i \in 1 .. ((n + 1) + 1) : i \in 1 .. (n + 1) \/ i = (n + 1) + 1
  BY <1>1
<1>4. \A i \in 1 .. (n + 1) : (i \in 1 .. n /\ i + 1 \in 1 .. (n + 1)) \/ i = n + 1
  BY <1>1
<1>5. n + 1 \in 1 .. (n + 1) /\ \A i \in 1 .. n : i \in 1 .. (n + 1) /\ i + 1 \in 1 .. (n + 1)
  BY <1>1
<1>6. \A i \in 1 .. (n + 1) : Legal(ps[i])
  BY <1>1 DEF Chain
<1>7. \A i \in 1 .. n : Reached(ps[i], h[i], ps[i + 1])
  BY DEF Chain, n
<1>8. \A i \in 1 .. Len(pt) : Legal(pt[i])
  BY <1>2, <1>3, <1>6
<1>9. Reached(pt[n + 1], ht[n + 1], pt[(n + 1) + 1])
  BY <1>1, <1>2, <1>5
<1>10. \A i \in 1 .. n : Reached(pt[i], ht[i], pt[i + 1])
  BY <1>2, <1>5, <1>7
<1>11. \A i \in 1 .. Len(ht) : Reached(pt[i], ht[i], pt[i + 1])
  BY <1>2, <1>4, <1>9, <1>10
<1>. QED BY <1>2, <1>8, <1>11 DEF Chain, pt, ht

\* and with one less.
LEMMA ChainShrinks ==
    ASSUME NEW l, IsSeq(l), NEW p, NEW h, Chain(Append(l, p), h), Len(h) > 0
    PROVE  Chain(l, Front(h)) /\ Reached(Last(l), Last(h), p) /\ Legal(Last(l)) /\ Len(l) = Len(h)
<1>. DEFINE ps == Append(l, p)
            n == Len(h)
            ht == Front(h)
<1>1. n \in Nat /\ n > 0 /\ IsSeq(h) /\ Len(ps) = n + 1
  BY Appended DEF Chain
<1>2. /\ Len(l) \in Nat /\ Len(ps) = Len(l) + 1 /\ (\A i \in 1 .. Len(l) : ps[i] = l[i])
      /\ ps[Len(l) + 1] = p
  BY Appended
<1>3. /\ IsSeq(ht) /\ Len(ht) = n - 1 /\ (\A i \in 1 .. (n - 1) : ht[i] = h[i])
  BY <1>1, Fronted
<1>4. (\A i \in 1 .. Len(ps) : Legal(ps[i])) /\ (\A i \in 1 .. n : Reached(ps[i], h[i], ps[i + 1]))
  BY DEF Chain
<1>5. Last(h) = h[n] /\ Last(l) = l[Len(l)]
  BY DEF Last
<1>. HIDE DEF ps, n, ht
<1>6. Len(l) = n
  BY <1>1, <1>2
<1>7. /\ n \in 1 .. n /\ n \in 1 .. (n + 1) /\ (n - 1) + 1 = n
      /\ \A i \in 1 .. n : i \in 1 .. (n + 1)
      /\ \A i \in 1 .. (n - 1) : i \in 1 .. n /\ i + 1 \in 1 .. n
  BY <1>1
<1>8. \A i \in 1 .. Len(l) : Legal(l[i])
  BY <1>1, <1>2, <1>4, <1>6, <1>7
<1>9. \A i \in 1 .. Len(ht) : Reached(l[i], ht[i], l[i + 1])
  BY <1>2, <1>3, <1>4, <1>6, <1>7
<1>10. Reached(l[n], h[n], p)
  BY <1>2, <1>4, <1>6, <1>7
<1>. QED BY <1>3, <1>5, <1>6, <1>7, <1>8, <1>9, <1>10 DEF Chain, ht, n

\* The stack after a push, counted only when it is full,
LEMMA StackPushed ==
    ASSUME NEW ps, IsSeq(ps), NEW r \in Nat, NEW st, NEW d, Stacked(st, d, ps, r),
           NEW acc, NEW q, d = 0 => acc = Refresh(q)
    PROVE  /\ Len(st) >= Cap => Stacked(st, d + 1, Append(ps, q), r)
           /\ ~(Len(st) >= Cap) => Stacked(Append(st, acc), d, Append(ps, q), r)
<1>. DEFINE n == Len(ps)
            k == Len(st)
            pt == Append(ps, q)
            tt == Append(st, acc)
<1>1. n \in Nat /\ Len(pt) = n + 1 /\ (\A i \in 1 .. n : pt[i] = ps[i]) /\ pt[n + 1] = q
  BY Appended
<1>2. /\ k \in 1 .. Cap /\ d \in Nat /\ k + d = n - r /\ IsSeq(st) /\ (d > 0 => k = Cap)
      /\ \A i \in 1 .. k : st[i] = Refresh(ps[r + i])
  BY DEF Stacked
<1>3. IsSeq(tt) /\ Len(tt) = k + 1 /\ (\A i \in 1 .. k : tt[i] = st[i]) /\ tt[k + 1] = acc
  BY <1>2, Appended
<1>. HIDE DEF n, k, pt, tt
<1>4. Cap \in Nat /\ \A i \in 1 .. k : r + i \in 1 .. n
  BY <1>1, <1>2, CapAssumption
<1>5. \A i \in 1 .. k : st[i] = Refresh(pt[r + i])
  BY <1>1, <1>2, <1>4
<1>6. ASSUME k >= Cap PROVE Stacked(st, d + 1, pt, r)
  <2>1. k = Cap /\ d + 1 \in Nat /\ k + (d + 1) = (n + 1) - r
    BY <1>1, <1>2, <1>4, <1>6
  <2>. QED BY <1>1, <1>2, <1>5, <2>1 DEF Stacked, k
<1>7. ASSUME ~(k >= Cap) PROVE Stacked(tt, d, pt, r)
  <2>1. /\ d = 0 /\ k + 1 \in 1 .. Cap /\ (k + 1) + d = (n + 1) - r /\ r + (k + 1) = n + 1
        /\ \A i \in 1 .. (k + 1) : i \in 1 .. k \/ i = k + 1
    BY <1>1, <1>2, <1>4, <1>7
  <2>2. tt[k + 1] = Refresh(pt[r + (k + 1)])
    BY <1>1, <1>3, <2>1
  <2>3. \A i \in 1 .. (k + 1) : tt[i] = Refresh(pt[r + i])
    BY <1>3, <1>5, <2>1, <2>2
  <2>. QED BY <1>1, <1>2, <1>3, <2>1, <2>3 DEF Stacked
<1>. QED BY <1>6, <1>7 DEF k, pt, tt

\* and after a pop.
LEMMA StackPopped ==
    ASSUME NEW l, IsSeq(l), NEW p, NEW r \in Nat, r < Len(l),
           NEW st, NEW d, Stacked(st, d, Append(l, p), r)
    PROVE  /\ d > 0 => Stacked(st, d - 1, l, r)
           /\ ~(d > 0) => Stacked(Front(st), d, l, r)
<1>. DEFINE n == Len(l)
            k == Len(st)
            ps == Append(l, p)
            ft == Front(st)
<1>1. n \in Nat /\ r < n /\ Len(ps) = n + 1 /\ (\A i \in 1 .. n : ps[i] = l[i])
  BY Appended
<1>2. /\ k \in 1 .. Cap /\ d \in Nat /\ k + d = Len(ps) - r /\ IsSeq(st) /\ (d > 0 => k = Cap)
      /\ \A i \in 1 .. k : st[i] = Refresh(ps[r + i])
  BY DEF Stacked
<1>3. Cap \in Nat /\ k \in Nat /\ k > 0
  BY <1>2, CapAssumption
<1>4. IsSeq(ft) /\ Len(ft) = k - 1 /\ \A i \in 1 .. (k - 1) : ft[i] = st[i]
  BY <1>2, <1>3, Fronted
<1>. HIDE DEF n, k, ps, ft
<1>5. ASSUME d > 0 PROVE Stacked(st, d - 1, l, r)
  <2>1. /\ d - 1 \in Nat /\ k + (d - 1) = n - r
        /\ \A i \in 1 .. k : r + i \in 1 .. n
    <3>1. d \in Nat /\ k \in Nat /\ n \in Nat /\ d > 0 /\ k + d = (n + 1) - r
      BY <1>1, <1>2, <1>3, <1>5
    <3>2. d - 1 \in Nat /\ k + (d - 1) = n - r
      BY <3>1
    <3>3. \A i \in 1 .. k : r + i \in 1 .. n
      BY <3>1
    <3>. QED BY <3>2, <3>3
  <2>2. \A i \in 1 .. k : st[i] = Refresh(l[r + i])
    BY <1>1, <1>2, <2>1
  <2>3. d - 1 > 0 => k = Cap
    BY <1>2, <1>5
  <2>. QED BY <1>2, <2>1, <2>2, <2>3 DEF Stacked, k, n
<1>6. ASSUME ~(d > 0) PROVE Stacked(ft, d, l, r)
  <2>1. /\ d = 0 /\ k - 1 \in 1 .. Cap /\ (k - 1) + d = n - r
        /\ \A i \in 1 .. (k - 1) : r + i \in 1 .. n /\ i \in 1 .. k
    BY <1>1, <1>2, <1>3, <1>6
  <2>2. \A i \in 1 .. (k - 1) : ft[i] = Refresh(l[r + i])
    BY <1>1, <1>2, <1>4, <2>1
  <2>. QED BY <1>2, <1>4, <2>1, <2>2 DEF Stacked, n
<1>. QED BY <1>5, <1>6 DEF ps, ft

\* While none is only counted, the last accumulator is that of the position.
LEMMA TopIsCurrent ==
    ASSUME NEW l, IsSeq(l), NEW p, NEW r \in Nat, NEW st, NEW d, Stacked(st, d, Append(l, p), r), d = 0
    PROVE  Last(st) = Refresh(p)
<1>. DEFINE n == Len(l)
            k == Len(st)
            ps == Append(l, p)
<1>1. n \in Nat /\ Len(ps) = n + 1 /\ ps[n + 1] = p
  BY Appended
<1>2. k \in 1 .. Cap /\ k + d = Len(ps) - r /\ \A i \in 1 .. k : st[i] = Refresh(ps[r + i])
  BY DEF Stacked
<1>. HIDE DEF n, k, ps
<1>3. k \in 1 .. k /\ r + k = n + 1
  BY <1>1, <1>2, CapAssumption
<1>. QED BY <1>1, <1>2, <1>3 DEF Last, k

\* Facts of a state, and what a step that grows the line does.
LEMMA LineFacts ==
    ASSUME LineInv
    PROVE  /\ Legal(pos) /\ IsSeq(line) /\ IsSeq(Passed) /\ IsSeq(history)
           /\ Len(history) \in Nat /\ root \in Nat /\ Len(line) = Len(history)
           /\ Len(Passed) = Len(history) + 1 /\ Passed[Len(Passed)] = pos
<1>1. /\ Len(line) \in Nat /\ Len(Passed) = Len(line) + 1 /\ Passed[Len(line) + 1] = pos
  BY Appended DEF LineInv, Passed
<1>2. /\ Len(Passed) = Len(history) + 1 /\ IsSeq(Passed) /\ IsSeq(history)
      /\ (\A i \in 1 .. Len(Passed) : Legal(Passed[i]))
  BY DEF LineInv, Chain
<1>3. Len(history) \in Nat
  BY <1>2, Appended
<1>4. Len(line) = Len(history) /\ root \in Nat /\ Len(line) + 1 \in 1 .. (Len(line) + 1)
  BY <1>1, <1>2, <1>3 DEF LineInv
<1>. QED BY <1>1, <1>2, <1>3, <1>4 DEF LineInv

\* What a step down does to the line,
LEMMA LineGrows ==
    ASSUME LineInv, NEW u, Reached(pos, u, pos'), Legal(pos'),
           history' = Append(history, u), line' = Append(line, pos)
    PROVE  /\ IsSeq(line') /\ Chain(Passed', history') /\ Passed' = Append(Passed, pos')
           /\ Len(history') = Len(history) + 1
<1>1. line' = Passed /\ Passed' = Append(Passed, pos')
  BY DEF Passed
<1>2. Chain(Append(Passed, pos'), Append(history, u))
  <2>1. Chain(Passed, history) /\ Reached(Passed[Len(Passed)], u, pos')
    BY LineFacts DEF LineInv
  <2>. HIDE DEF Passed
  <2>. QED BY <2>1, ChainGrows
<1>3. Len(history') = Len(history) + 1
  BY LineFacts, Appended
<1>. QED BY <1>1, <1>2, <1>3, LineFacts

\* and a step back to the invariant.
LEMMA LineShrinks ==
    ASSUME LineInv, Ply > 0, pos' = Last(line), history' = Front(history), line' = Front(line),
           Pop, root' = root
    PROVE  LineInv'
<1>1. /\ IsSeq(line) /\ Len(line) = Len(history) /\ Len(history) \in Nat /\ root \in Nat
      /\ IsSeq(history) /\ root < Len(history) /\ Len(history) > 0
  BY LineFacts DEF Ply
<1>2. Passed' = line
  BY <1>1, Fronted DEF Passed
<1>3. Chain(line, Front(history)) /\ IsSeq(Front(line)) /\ Len(Front(history)) = Len(history) - 1
  BY <1>1, ChainShrinks, Fronted DEF LineInv, Passed
<1>4. Stacked(stack', overflowDepth', line, root)
  <2>1. /\ overflowDepth > 0 => Stacked(stack, overflowDepth - 1, line, root)
        /\ ~(overflowDepth > 0) => Stacked(Front(stack), overflowDepth, line, root)
    BY <1>1, StackPopped DEF LineInv, Passed
  <2>. QED BY <2>1 DEF Pop
<1>5. root' \in 0 .. Len(history')
  <2>1. root \in 0 .. (Len(history) - 1)
    BY <1>1
  <2>. QED BY <1>3, <2>1
<1>. QED BY <1>2, <1>3, <1>4, <1>5 DEF LineInv

-----------------------------------------------------------------------------
(***************************************************************************)
(* The specification.                                                      *)
(***************************************************************************)
LEMMA InitLine ==
    ASSUME Init
    PROVE  LineInv
<1>1. PICK start \in Starts : Valid(start.fen) /\ pos = ParseFEN(start.fen)
  BY DEF Init
<1>2. /\ history = <<>> /\ line = <<>> /\ root = 0
      /\ stack = <<Refresh(pos)>> /\ overflowDepth = 0
  BY DEF Init
<1>3. Legal(pos)
  BY <1>1, StartsAssumption, ParsedLegal
<1>4. IsSeq(line) /\ IsSeq(history) /\ Len(line) = 0 /\ Len(history) = 0
  BY <1>2, EmptySeq DEF IsSeq
<1>5. IsSeq(Passed) /\ Len(Passed) = 1 /\ Passed[1] = pos
  <2>1. \A n \in Nat : n = 0 => n + 1 = 1
    OBVIOUS
  <2>2. Len(line) + 1 = 1
    BY <1>4, <2>1
  <2>3. /\ IsSeq(Append(line, pos)) /\ Len(Append(line, pos)) = Len(line) + 1
        /\ Append(line, pos)[Len(line) + 1] = pos
    BY <1>4, Appended
  <2>. QED BY <2>2, <2>3 DEF Passed
<1>6. IsSeq(stack) /\ Len(stack) = 1 /\ stack[1] = Refresh(pos)
  <2>1. stack \in Seq({Refresh(pos)})
    BY <1>2
  <2>2. Len(stack) = 1 /\ stack[1] = Refresh(pos)
    BY <1>2
  <2>. QED BY <2>1, <2>2 DEF IsSeq
<1>. HIDE DEF Passed
<1>7. Chain(Passed, history)
  BY <1>3, <1>4, <1>5 DEF Chain
<1>8. Stacked(stack, overflowDepth, Passed, root)
  BY <1>2, <1>5, <1>6, CapAssumption DEF Stacked
<1>. QED BY <1>2, <1>4, <1>7, <1>8 DEF LineInv

\* What a generated move makes of a position: the record fits it.
LEMMA MoveReaches ==
    ASSUME NEW p, Legal(p), NEW m \in GenerateLegalMoves(p)
    PROVE  /\ Reached(p, Undo(p, m), MakeMove(p, m)) /\ Legal(MakeMove(p, m))
           /\ Delta(Refresh(p), p, m) = Refresh(MakeMove(p, m))
<1>1. Playable(p.board, p.side, m)
  BY GeneratedPlayable DEF Legal
<1>2. Undo(p, m).move = m
  BY DEF Undo
<1>3. Legal(MakeMove(p, m)) /\ Delta(Refresh(p), p, m) = Refresh(MakeMove(p, m))
  BY <1>1, GeneratedMovesAreLegal, DeltaExact DEF Legal, Sound
<1>. QED BY <1>1, <1>2, <1>3 DEF Reached

\* One step of each kind keeps the invariant: a move of the game,
LEMMA PlayStep ==
    ASSUME LineInv, Play
    PROVE  LineInv'
<1>1. PICK m \in GenerateLegalMoves(pos) : MakesMove(m)
  BY DEF Play
<1>2. /\ pos' = MakeMove(pos, m) /\ history' = Append(history, Undo(pos, m))
      /\ line' = Append(line, pos)
  BY <1>1 DEF MakesMove
<1>3. Reached(pos, Undo(pos, m), pos') /\ Legal(pos')
  BY <1>1, <1>2, LineFacts, MoveReaches
<1>4. /\ IsSeq(line') /\ Chain(Passed', history') /\ Passed' = Append(Passed, pos')
      /\ Len(history') = Len(history) + 1
  BY <1>2, <1>3, LineGrows
<1>5. /\ IsSeq(Passed) /\ Len(history) \in Nat /\ root = Len(history) /\ Len(Passed) = Len(history) + 1
      /\ root' = root + 1 /\ stack' = <<Refresh(pos')>> /\ overflowDepth' = 0
  BY LineFacts DEF Play, Ply
<1>6. Len(Passed') = (Len(history) + 1) + 1 /\ Passed'[(Len(history) + 1) + 1] = pos'
  BY <1>4, <1>5, Appended
<1>7. IsSeq(stack') /\ Len(stack') = 1 /\ stack'[1] = Refresh(pos')
  <2>1. stack' \in Seq({Refresh(pos')})
    BY <1>5
  <2>2. Len(stack') = 1 /\ stack'[1] = Refresh(pos')
    BY <1>5
  <2>. QED BY <2>1, <2>2 DEF IsSeq
<1>. HIDE DEF Passed
<1>8. Stacked(stack', overflowDepth', Passed', root')
  <2>1. root' + 1 = (Len(history) + 1) + 1 /\ 1 + 0 = Len(Passed') - root' /\ 1 \in 1 .. Cap
    BY <1>5, <1>6, CapAssumption
  <2>. QED BY <1>5, <1>6, <1>7, <2>1 DEF Stacked
<1>9. root' \in 0 .. Len(history')
  BY <1>4, <1>5
<1>. QED BY <1>4, <1>8, <1>9 DEF LineInv

\* A step down, to the position q: the accumulator acc is pushed.
LEMMA StepDown ==
    ASSUME LineInv, NEW u, Reached(pos, u, pos'), Legal(pos'),
           history' = Append(history, u), line' = Append(line, pos), root' = root,
           NEW acc, overflowDepth = 0 => acc = Refresh(pos'), PushAcc(acc)
    PROVE  LineInv'
<1>1. /\ IsSeq(line') /\ Chain(Passed', history') /\ Passed' = Append(Passed, pos')
      /\ Len(history') = Len(history) + 1
  BY LineGrows
<1>2. IsSeq(Passed) /\ root \in Nat /\ Len(history) \in Nat
  BY LineFacts
<1>3. Stacked(stack, overflowDepth, Passed, root) /\ root \in 0 .. Len(history)
  BY DEF LineInv
<1>. HIDE DEF Passed
<1>4. /\ Len(stack) >= Cap => Stacked(stack, overflowDepth + 1, Append(Passed, pos'), root)
      /\ ~(Len(stack) >= Cap) => Stacked(Append(stack, acc), overflowDepth, Append(Passed, pos'), root)
  BY <1>2, <1>3, StackPushed
<1>5. Stacked(stack', overflowDepth', Passed', root')
  BY <1>1, <1>4 DEF PushAcc
<1>6. root' \in 0 .. Len(history')
  BY <1>1, <1>2, <1>3
<1>. QED BY <1>1, <1>5, <1>6 DEF LineInv

\* While nothing is only counted, the evaluator has the position on the board.
LEMMA TopOfLine ==
    ASSUME LineInv, overflowDepth = 0
    PROVE  Last(stack) = Refresh(pos)
  BY LineFacts, TopIsCurrent DEF LineInv, Passed

\* a move of the search,
LEMMA MakeStep ==
    ASSUME LineInv, Make
    PROVE  LineInv'
<1>1. PICK m \in GenerateLegalMoves(pos) : Push(pos, m) /\ MakesMove(m)
  BY DEF Make
<1>2. /\ pos' = MakeMove(pos, m) /\ history' = Append(history, Undo(pos, m))
      /\ line' = Append(line, pos) /\ root' = root
  BY <1>1 DEF MakesMove, Make
<1>3. /\ Reached(pos, Undo(pos, m), pos') /\ Legal(pos')
      /\ Delta(Refresh(pos), pos, m) = Refresh(pos')
  BY <1>1, <1>2, LineFacts, MoveReaches
<1>4. overflowDepth = 0 => Delta(Last(stack), pos, m) = Refresh(pos')
  BY <1>3, TopOfLine
<1>. QED BY <1>1, <1>2, <1>3, <1>4, StepDown DEF Push

\* a null move,
LEMMA MakeNullStep ==
    ASSUME LineInv, MakeNull
    PROVE  LineInv'
<1>1. /\ pos' = MakeNullMove(pos) /\ history' = Append(history, NullUndo(pos))
      /\ line' = Append(line, pos) /\ root' = root /\ PushAcc(Last(stack))
  BY DEF MakeNull, PushNull
<1>2. Legal(pos) /\ Legal(pos') /\ Reached(pos, NullUndo(pos), pos')
  BY <1>1, LineFacts, NullMoveLegal DEF Reached, MakeNull
<1>3. Refresh(pos') = Refresh(pos)
  <2>1. Consistent(pos) /\ Consistent(pos') /\ pos'.board = pos.board
    BY <1>1, <1>2, NullMoveMade DEF Legal, Sound
  <2>. QED BY <2>1, RefreshReadsBoard
<1>4. overflowDepth = 0 => Last(stack) = Refresh(pos')
  BY <1>3, TopOfLine
<1>. QED BY <1>1, <1>2, <1>4, StepDown

\* What was recorded gives the position before.
LEMMA Unmade ==
    ASSUME LineInv, Ply > 0
    PROVE  /\ Last(history).move # MoveNone => UnmakeMove(pos, Last(history)) = Last(line)
           /\ Last(history).move = MoveNone => UnmakeNullMove(pos, Last(history)) = Last(line)
<1>. DEFINE p == Last(line)
            u == Last(history)
<1>1. Reached(p, u, pos) /\ Legal(p)
  <2>1. IsSeq(line) /\ Len(history) > 0
    BY LineFacts DEF Ply
  <2>. QED BY <2>1, ChainShrinks DEF LineInv, Passed
<1>. HIDE DEF p, u
<1>2. CASE u.move \in GenerateLegalMoves(p) /\ u = Undo(p, u.move) /\ pos = MakeMove(p, u.move)
  <2>0. Playable(p.board, p.side, u.move)
    BY <1>1, <1>2, GeneratedPlayable DEF Legal
  <2>1. UnmakeMove(MakeMove(p, u.move), Undo(p, u.move)) = p
    BY <1>1, <1>2, <2>0, UnmakeInvertsMake DEF Legal, Sound
  <2>2. u.move # MoveNone
    BY <2>0 DEF Playable, MoveNone, Normal
  <2>. QED BY <1>2, <2>1, <2>2 DEF p, u
<1>3. CASE u = NullUndo(p) /\ pos = MakeNullMove(p)
  <2>1. UnmakeNullMove(MakeNullMove(p), NullUndo(p)) = p
    BY <1>1, UnmakeInvertsNullMove DEF Legal, Sound
  <2>2. u.move = MoveNone
    BY <1>3 DEF NullUndo, Undo
  <2>. QED BY <1>3, <2>1, <2>2 DEF p, u
<1>. QED BY <1>1, <1>2, <1>3 DEF Reached

\* and taking either back, which gives the position before.
LEMMA UnmakeStep ==
    ASSUME LineInv, Unmake \/ UnmakeNull
    PROVE  LineInv' /\ pos' = Last(line)
<1>1. Ply > 0 /\ history' = Front(history) /\ line' = Front(line) /\ Pop /\ root' = root
  BY DEF Unmake, UnmakeNull
<1>2. pos' = Last(line)
  BY <1>1, Unmade DEF Unmake, UnmakeNull
<1>. QED BY <1>1, <1>2, LineShrinks

\* Every step keeps the invariant.
LEMMA LineStep ==
    ASSUME LineInv, [Next]_vars
    PROVE  LineInv'
<1>1. CASE Play
  BY <1>1, PlayStep
<1>2. CASE Make
  BY <1>2, MakeStep
<1>3. CASE MakeNull
  BY <1>3, MakeNullStep
<1>4. CASE Unmake \/ UnmakeNull
  BY <1>4, UnmakeStep
<1>5. CASE UNCHANGED vars
  BY <1>5 DEF vars, accVars, LineInv, Passed
<1>. QED BY <1>1, <1>2, <1>3, <1>4, <1>5 DEF Next

\* The inductive invariant.
THEOREM LineInvariant == Spec => []LineInv
<1>1. Init => LineInv
  BY InitLine
<1>2. LineInv /\ [Next]_vars => LineInv'
  BY LineStep
<1>. QED BY <1>1, <1>2, PTL DEF Spec

\* At every node of a line the evaluator reads the accumulator of the position on the
\* board, whatever was made and unmade before, with a stack of any size (incremental.go).
THEOREM EvaluationIsCurrent == Spec => []EvaluationCurrent
<1>1. LineInv => EvaluationCurrent
  <2>. SUFFICES ASSUME LineInv PROVE EvaluationCurrent
    OBVIOUS
  <2>1. Len(stack) \in 1 .. Cap /\ overflowDepth \in Nat
    BY DEF LineInv, Stacked
  <2>2. Read(pos) = Refresh(pos)
    BY <2>1, TopOfLine DEF Read
  <2>. QED BY <2>1, <2>2 DEF EvaluationCurrent
<1>. QED BY <1>1, LineInvariant, PTL

\* Unmaking gives back the very position that was there (position.go, UnmakeMove).
THEOREM UnmakeAlwaysRestores == Spec => UnmakeRestores
<1>1. LineInv /\ [Next]_vars => [Len(history') < Len(history) => pos' = Last(line)]_vars
  <2>. SUFFICES ASSUME LineInv, [Next]_vars, Len(history') < Len(history),
                       ~UNCHANGED vars
                PROVE  pos' = Last(line)
    OBVIOUS
  <2>1. IsSeq(history) /\ Len(history) \in Nat
    BY LineFacts
  <2>2. ASSUME NEW u, history' = Append(history, u) PROVE FALSE
    <3>1. Len(history') = Len(history) + 1
      BY <2>1, <2>2, Appended
    <3>. QED BY <2>1, <3>1
  <2>3. ~Play /\ ~Make /\ ~MakeNull
    BY <2>2 DEF Play, Make, MakeNull, MakesMove
  <2>4. Unmake \/ UnmakeNull
    BY <2>3 DEF Next
  <2>. QED BY <2>4, UnmakeStep
<1>. QED BY <1>1, LineInvariant, PTL DEF Spec, UnmakeRestores

\* The mailbox, the bitboards and the key, each updated by its own code, agree in
\* every position of a game and of a search (position.go).
THEOREM RepresentationsAgree == Spec => []Agrees(pos)
<1>1. LineInv => Agrees(pos)
  <2>. SUFFICES ASSUME LineInv PROVE Agrees(pos)
    OBVIOUS
  <2>1. Consistent(pos) /\ Keyed(pos)
    BY LineFacts DEF Legal, Sound
  <2>. QED BY <2>1 DEF Agrees, Consistent, TypesOf, ColorsOf, Keyed
<1>. QED BY <1>1, LineInvariant, PTL

\* Neither king is ever taken, whatever legal moves are played and tried (movegen.go).
THEOREM KingsAlwaysStand == Spec => []KingsStand
<1>1. LineInv => KingsStand
  BY LineFacts DEF Legal, BothKings, KingsStand
<1>. QED BY <1>1, LineInvariant, PTL

\* The side that has moved, or passed, is not in check.
MoverSafe == ~IsAttacked(pos, KingSquare(pos, Opposite(pos.side)), pos.side)

\* No move that is generated has to be tested afterwards: whatever was played, tried and
\* taken back, the side that has moved is not in check (movegen.go).
THEOREM MoverAlwaysSafe == Spec => []MoverSafe
<1>1. LineInv => MoverSafe
  <2>. SUFFICES ASSUME LineInv PROVE MoverSafe
    OBVIOUS
  <2>1. Legal(pos)
    BY LineFacts
  <2>. QED BY <2>1, SafeIsNotAttacked DEF MoverSafe
<1>. QED BY <1>1, LineInvariant, PTL

-----------------------------------------------------------------------------
(***************************************************************************)
(* What irreversible moves use up.                                         *)
(***************************************************************************)
\* How far a pawn is from its last rank; nothing for the other men.
ToGo(b, s) ==
    IF Type(b[s]) # "pawn" THEN 0 ELSE IF Color(b[s]) = White THEN 7 - Rank(s) ELSE Rank(s)

\* Each man, and each step a pawn has before it: what irreversible moves use up.
Potential(b) == {x \in Squares \X (0..7) : x[1] \in Manned(b) /\ x[2] <= ToGo(b, x[1])}

\* It is counted, square by square.
LEMMA PotentialFinite ==
    ASSUME NEW b
    PROVE  IsFiniteSet(Potential(b)) /\ Cardinality(Potential(b)) \in Nat
<1>1. \A n \in Int : IsFiniteSet(0..n)
  BY FS_Interval
<1>2. IsFiniteSet(Squares \X (0..7))
  <2>1. IsFiniteSet(Squares) /\ IsFiniteSet(0..7)
    <3>. DEFINE n == 63
                k == 7
    <3>1. n \in Int /\ k \in Int /\ Squares = 0..n
      BY DEF Squares
    <3>2. IsFiniteSet(0..k)
      <4>. HIDE DEF k, n
      <4>. QED BY <1>1, <3>1
    <3>. HIDE DEF n
    <3>. QED BY <1>1, <3>1, <3>2
  <2>. QED BY <2>1, FS_Product
<1>3. Potential(b) \in SUBSET (Squares \X (0..7))
  BY DEF Potential
<1>. QED BY <1>2, <1>3, FS_Subset, FS_CardinalityType

\* No pawn has more than a file before it.
LEMMA ToGoRange ==
    ASSUME NEW b, NEW s \in Squares
    PROVE  ToGo(b, s) \in 0..7
<1>1. Rank(s) \in 0..7
  BY Coordinates
<1>2. 7 - Rank(s) \in 0..7
  BY <1>1
<1>. QED BY <1>1, <1>2 DEF ToGo

\* Men of d that stem from men of b, with no more before them, are no more than b's; they are
\* fewer when one of them has come closer, or a man of b is gone.
LEMMA LessToGo ==
    ASSUME NEW b, NEW d, NEW g \in [Manned(d) -> Manned(b)],
           \A s, t \in Manned(d) : g[s] = g[t] => s = t,
           \A t \in Manned(d) : ToGo(d, t) <= ToGo(b, g[t])
    PROVE  /\ Cardinality(Potential(d)) <= Cardinality(Potential(b))
           /\ \/ \E t \in Manned(d) : ToGo(d, t) < ToGo(b, g[t])
              \/ \E s \in Manned(b) : \A t \in Manned(d) : g[t] # s
              => Cardinality(Potential(d)) < Cardinality(Potential(b))
<1>. DEFINE f == [x \in Potential(d) |-> <<g[x[1]], x[2]>>]
<1>1. \A s \in Squares : ToGo(b, s) \in 0..7 /\ ToGo(d, s) \in 0..7
  BY ToGoRange
<1>2. /\ Manned(b) \subseteq Squares /\ Manned(d) \subseteq Squares
      /\ \A t \in Manned(d) : g[t] \in Manned(b)
  BY DEF Manned
<1>3. /\ \A x \in Potential(d) : /\ x[1] \in Manned(d) /\ x[2] \in 0..7 /\ x[2] <= ToGo(d, x[1])
                                 /\ x = <<x[1], x[2]>>
      /\ \A s \in Manned(b), k \in 0..7 : k <= ToGo(b, s) => <<s, k>> \in Potential(b)
  BY <1>2 DEF Potential
<1>4. \A x \in Potential(d) : f[x] \in Potential(b) /\ f[x] = <<g[x[1]], x[2]>>
  <2>. SUFFICES ASSUME NEW x \in Potential(d) PROVE <<g[x[1]], x[2]>> \in Potential(b)
    OBVIOUS
  <2>1. x[2] <= ToGo(b, g[x[1]])
    <3>1. x[1] \in Squares /\ g[x[1]] \in Squares
      BY <1>2, <1>3
    <3>. QED BY <1>1, <1>3, <3>1
  <2>. QED BY <1>2, <1>3, <2>1
<1>5. f \in Injection(Potential(d), Potential(b))
  <2>1. \A x, y \in Potential(d) : f[x] = f[y] => x = y
    BY <1>3, <1>4
  <2>2. f \in [Potential(d) -> Potential(b)]
    BY <1>4
  <2>. HIDE DEF f
  <2>. QED BY <2>1, <2>2 DEF Injection, IsInjective
<1>6. Cardinality(Potential(d)) <= Cardinality(Potential(b))
  BY <1>5, PotentialFinite, FS_Injection
<1>7. ASSUME Cardinality(Potential(d)) = Cardinality(Potential(b)), NEW y \in Potential(b)
      PROVE  \E x \in Potential(d) : <<g[x[1]], x[2]>> = y
  <2>1. f \in Surjection(Potential(d), Potential(b))
    BY <1>5, <1>7, PotentialFinite, FS_Injection
  <2>2. \E x \in Potential(d) : f[x] = y
    BY <2>1, <1>7 DEF Surjection
  <2>. QED BY <1>4, <2>2
<1>8. ASSUME NEW t \in Manned(d), ToGo(d, t) < ToGo(b, g[t])
      PROVE  Cardinality(Potential(d)) # Cardinality(Potential(b))
  <2>. SUFFICES ASSUME Cardinality(Potential(d)) = Cardinality(Potential(b)) PROVE FALSE
    OBVIOUS
  <2>1. t \in Squares /\ g[t] \in Squares /\ g[t] \in Manned(b)
    BY <1>2, <1>8
  <2>2. ToGo(b, g[t]) \in 0..7 /\ ToGo(d, t) \in 0..7
    BY <1>1, <2>1
  <2>3. <<g[t], ToGo(b, g[t])>> \in Potential(b)
    <3>1. ToGo(b, g[t]) <= ToGo(b, g[t])
      BY <2>2
    <3>. QED BY <1>3, <2>1, <2>2, <3>1
  <2>4. PICK x \in Potential(d) : <<g[x[1]], x[2]>> = <<g[t], ToGo(b, g[t])>>
    BY <1>7, <2>3
  <2>5. x[1] = t /\ x[2] = ToGo(b, g[t]) /\ x[2] <= ToGo(d, t)
    BY <1>3, <1>8, <2>4
  <2>. QED BY <1>8, <2>2, <2>5
<1>9. ASSUME NEW s \in Manned(b), \A t \in Manned(d) : g[t] # s
      PROVE  Cardinality(Potential(d)) # Cardinality(Potential(b))
  <2>. SUFFICES ASSUME Cardinality(Potential(d)) = Cardinality(Potential(b)) PROVE FALSE
    OBVIOUS
  <2>1. 0 <= ToGo(b, s) /\ 0 \in 0..7
    BY <1>1, <1>2
  <2>2. <<s, 0>> \in Potential(b)
    BY <1>3, <1>9, <2>1
  <2>3. PICK x \in Potential(d) : <<g[x[1]], x[2]>> = <<s, 0>>
    BY <1>7, <2>2
  <2>. QED BY <1>3, <1>9, <2>3
<1>. QED BY <1>6, <1>8, <1>9, PotentialFinite

\* A pawn only ever goes ahead.
LEMMA PawnsGoAhead ==
    ASSUME NEW p, Sound(p), BothKings(p), NEW m \in GenerateLegalMoves(p),
           Type(p.board[m.from]) = "pawn"
    PROVE  IF p.side = White THEN Rank(m.to) > Rank(m.from) ELSE Rank(m.to) < Rank(m.from)
<1>. DEFINE us == p.side
            b == p.board
            k == KingSquare(p, us)
            occ == Occupied(p)
            pinned == BlockersForKing(p, us) \cap p.byColor[us]
            Ahead(f, t) == IF us = White THEN Rank(t) > Rank(f) ELSE Rank(t) < Rank(f)
<1>1. us \in Colors /\ Consistent(p) /\ KingsOnce(p)
  BY DEF Sound
<1>2. Type(b[k]) # "pawn"
  <2>1. b[k] = MakePiece(us, "king")
    BY <1>1, KingStands DEF BothKings
  <2>. QED BY <2>1 DEF MakePiece, Type
<1>3. \/ m \in KingMoves(p, k, Opposite(us), occ, Squares \ p.byColor[us])
      \/ m \in CastlingMoves(p, us, occ)
      \/ m \in PawnMoves(p, us, Answers(p, k), Answers(p, k), pinned, k, occ)
      \/ m \in PieceMoves(p, us, Answers(p, k), pinned, k, occ)
  BY DEF GenerateLegalMoves, Generate, Answers
<1>4. ~(m \in KingMoves(p, k, Opposite(us), occ, Squares \ p.byColor[us]))
  BY <1>2 DEF KingMoves, Normal
<1>5. ~(m \in CastlingMoves(p, us, occ))
  BY <1>2 DEF CastlingMoves, Castling
<1>6. ~(m \in PieceMoves(p, us, Answers(p, k), pinned, k, occ))
  <2>. SUFFICES ASSUME m \in PieceMoves(p, us, Answers(p, k), pinned, k, occ) PROVE FALSE
    OBVIOUS
  <2>. HIDE DEF us, k, occ, pinned
  <2>1. \E pt \in {"knight", "bishop", "rook", "queen"} : \E from \in PiecesOf(p, us, pt) : m.from = from
    BY PieceMovesAre DEF Normal
  <2>2. PICK pt \in {"knight", "bishop", "rook", "queen"} : \E from \in PiecesOf(p, us, pt) : m.from = from
    BY <2>1
  <2>3. m.from \in PiecesOf(p, us, pt) /\ pt \in PieceTypes
    BY <2>2 DEF PieceTypes
  <2>4. b[m.from] = MakePiece(us, pt)
    BY <1>1, <2>3, PiecesStand
  <2>. QED BY <2>2, <2>4 DEF MakePiece, Type
<1>7. PICK from \in PiecesOf(p, us, "pawn") :
             \/ \E to \in PinMask(k, pinned, from)
                          \cap (Pushes(from, us, Answers(p, k), occ)
                                  \cup (PawnAttacks[us][from] \cap p.byColor[Opposite(us)] \cap Answers(p, k))) :
                  m \in PawnMove(from, to, IF us = White THEN 7 ELSE 0)
             \/ /\ m = EnPassant(from, p.epSquare) /\ p.epSquare # NoSquare
                /\ p.epSquare \in PawnAttacks[us][from]
                /\ EnPassantLegal(p, from, p.epSquare, us, k, occ)
  <2>1. m \in PawnMoves(p, us, Answers(p, k), Answers(p, k), pinned, k, occ)
    BY <1>3, <1>4, <1>5, <1>6
  <2>. HIDE DEF us, pinned, k, occ
  <2>. QED BY <2>1, PawnMovesAre
<1>8. from \in Squares
  BY <1>1, <1>7, PiecesStand DEF PieceTypes
<1>9. m.from = from /\ (m.to \in Pushes(from, us, Answers(p, k), occ) \/ m.to \in PawnAttacks[us][from])
  <2>. HIDE DEF us, pinned, k, occ
  <2>. QED BY <1>7 DEF PawnMove, Normal, Promotion, EnPassant
<1>. HIDE DEF k, occ, pinned
<1>10. CASE m.to \in Pushes(from, us, Answers(p, k), occ)
  <2>1. m.to = from + PawnPush(us) \/ m.to = from + PawnPush(us) + PawnPush(us)
    BY <1>10 DEF Pushes
  <2>2. m.to \in Squares
    BY GeneratedPlayable DEF Playable
  <2>3. PawnPush(us) = IF us = White THEN 8 ELSE -8
    BY DEF PawnPush, North, South
  <2>. QED BY <1>8, <1>9, <2>1, <2>2, <2>3 DEF Squares, Rank
<1>11. CASE m.to \in PawnAttacks[us][from]
  <2>1. m.to \in Squares
    BY GeneratedPlayable DEF Playable
  <2>2. At(from, PawnPush(us) + East, 1, m.to) \/ At(from, PawnPush(us) + West, 1, m.to)
    BY <1>1, <1>8, <1>11, <2>1, PawnSteps
  <2>3. \/ us = White /\ DY(PawnPush(us) + East) = 1 /\ DY(PawnPush(us) + West) = 1
        \/ us # White /\ DY(PawnPush(us) + East) = -1 /\ DY(PawnPush(us) + West) = -1
    BY DEF PawnPush, North, South, East, West, DY
  <2>4. Rank(from) \in 0..7 /\ Rank(m.to) \in 0..7
    BY <1>8, <2>1, Coordinates
  <2>. QED BY <1>9, <2>2, <2>3, <2>4 DEF At
<1>. QED BY <1>9, <1>10, <1>11

\* From the men b to the men d some of it is used up, or none is gained.
Spends(b, d) == Cardinality(Potential(d)) < Cardinality(Potential(b))
Keeps(b, d) == Cardinality(Potential(d)) <= Cardinality(Potential(b))

\* Where the men after a move that takes one man from its square to another came from.
LEMMA ManMoved ==
    ASSUME NEW b \in Boards, NEW d \in Boards, NEW from \in Manned(b), NEW to \in Squares, to # from,
           NEW taken \in SUBSET Squares, to \notin taken, from \notin taken,
           \A s \in Squares \ ({from, to} \cup taken) : d[s] = b[s],
           \A s \in {from} \cup taken : d[s] = NoPiece,
           ToGo(d, to) <= ToGo(b, from)
    PROVE  /\ Keeps(b, d)
           /\ ToGo(d, to) < ToGo(b, from) /\ d[to] # NoPiece => Spends(b, d)
           /\ b[to] # NoPiece \/ (\E s \in taken : b[s] # NoPiece) => Spends(b, d)
<1>. DEFINE g == [t \in Manned(d) |-> IF t = to THEN from ELSE t]
<1>1. from \in Squares /\ \A t \in Manned(d) : t \in Squares /\ t # from /\ t \notin taken
  BY DEF Manned
<1>2. \A t \in Manned(d) \ {to} : t \in Manned(b) /\ d[t] = b[t]
  BY <1>1 DEF Manned
<1>3. /\ g \in [Manned(d) -> Manned(b)]
      /\ \A t \in Manned(d) : g[t] = IF t = to THEN from ELSE t
  BY <1>1, <1>2
<1>. HIDE DEF g
<1>4. \A s, t \in Manned(d) : g[s] = g[t] => s = t
  BY <1>1, <1>3
<1>5. \A t \in Manned(d) : ToGo(d, t) <= ToGo(b, g[t])
  <2>. SUFFICES ASSUME NEW t \in Manned(d) PROVE ToGo(d, t) <= ToGo(b, g[t])
    OBVIOUS
  <2>1. CASE t = to
    BY <1>3, <2>1
  <2>2. CASE t # to
    <3>1. ToGo(d, t) = ToGo(b, t)
      BY <1>2, <2>2 DEF ToGo
    <3>2. ToGo(d, t) \in 0..7
      BY <1>1, ToGoRange
    <3>. QED BY <1>3, <2>2, <3>1, <3>2
  <2>. QED BY <2>1, <2>2
<1>6. /\ Keeps(b, d)
      /\ (\E t \in Manned(d) : ToGo(d, t) < ToGo(b, g[t])) => Spends(b, d)
      /\ (\E s \in Manned(b) : \A t \in Manned(d) : g[t] # s) => Spends(b, d)
  BY <1>3, <1>4, <1>5, LessToGo DEF Keeps, Spends
<1>7. ASSUME ToGo(d, to) < ToGo(b, from), d[to] # NoPiece PROVE Spends(b, d)
  <2>1. to \in Manned(d) /\ ToGo(d, to) < ToGo(b, g[to])
    BY <1>3, <1>7 DEF Manned
  <2>. QED BY <1>6, <2>1
<1>8. ASSUME NEW s \in Squares, s = to \/ s \in taken, b[s] # NoPiece PROVE Spends(b, d)
  <2>1. s \in Manned(b) /\ \A t \in Manned(d) : g[t] # s
    BY <1>1, <1>3, <1>8 DEF Manned
  <2>. QED BY <1>6, <2>1
<1>. QED BY <1>6, <1>7, <1>8

\* A move leaves no more before the men than there was, and an irreversible one less.
LEMMA MoveSpends ==
    ASSUME NEW p, Legal(p), NEW m \in GenerateLegalMoves(p)
    PROVE  LET q == MakeMove(p, m)
           IN  Keeps(p.board, q.board) /\ (Irreversible(p, m) => Spends(p.board, q.board))
<1>. DEFINE us == p.side
            b == p.board
            d == BoardAfter(b, us, m)
            from == m.from
            to == m.to
<1>1. Sound(p) /\ BothKings(p) /\ us \in Colors /\ Consistent(p) /\ b \in Boards
  BY DEF Legal, Sound, Consistent
<1>2. Playable(b, us, m)
  BY <1>1, GeneratedPlayable
<1>3. MakeMove(p, m).board = d /\ d \in Boards
  BY <1>1, <1>2, MoveMade DEF Consistent
<1>4. /\ from \in Squares /\ to \in Squares /\ from # to /\ b[from] \in Pieces /\ Color(b[from]) = us
      /\ b[from] # NoPiece /\ from \in Manned(b)
  BY <1>1, <1>2, ManTypes DEF Playable, Manned
<1>5. Type(b[from]) = "pawn" => ToGo(b, from) > ToGo(d, to) \/ d[to] # b[from]
  <2>. SUFFICES ASSUME Type(b[from]) = "pawn", d[to] = b[from] PROVE ToGo(b, from) > ToGo(d, to)
    OBVIOUS
  <2>1. IF us = White THEN Rank(to) > Rank(from) ELSE Rank(to) < Rank(from)
    BY <1>1, PawnsGoAhead
  <2>2. Rank(from) \in 0..7 /\ Rank(to) \in 0..7
    BY <1>4, Coordinates
  <2>3. ToGo(b, from) = (IF us = White THEN 7 - Rank(from) ELSE Rank(from))
    BY <1>4 DEF ToGo
  <2>4. ToGo(d, to) = (IF us = White THEN 7 - Rank(to) ELSE Rank(to))
    BY <1>4 DEF ToGo
  <2>. HIDE DEF us, b, d, from, to
  <2>. QED BY <2>1, <2>2, <2>3, <2>4
<1>6. CASE m.kind = "castling"
  <2>. DEFINE r == CastlingRight(us, m)
              kt == CastlingKingTo(r)
              rt == CastlingRookTo(r)
              g == [t \in Manned(d) |-> IF t = kt THEN from ELSE IF t = rt THEN to ELSE t]
  <2>1. /\ kt \in Squares /\ rt \in Squares /\ kt # rt
        /\ b[from] = MakePiece(us, "king") /\ b[to] = MakePiece(us, "rook")
        /\ d = [b EXCEPT ![from] = NoPiece, ![to] = NoPiece,
                         ![kt] = MakePiece(us, "king"), ![rt] = MakePiece(us, "rook")]
    BY <1>1, <1>2, <1>6, CastlingSquares DEF Playable, BoardAfter
  <2>2. MakePiece(us, "rook") # NoPiece
    BY DEF MakePiece, NoPiece
  <2>. HIDE DEF kt, rt, d
  <2>3. \A s \in Squares : d[s] = IF s = rt THEN MakePiece(us, "rook")
                                  ELSE IF s = kt THEN MakePiece(us, "king")
                                  ELSE IF s \in {from, to} THEN NoPiece ELSE b[s]
    BY <1>1, <1>4, <2>1 DEF Boards
  <2>4. /\ to \in Manned(b)
        /\ \A t \in Manned(d) : t \in Squares /\ (t \in {kt, rt} \/ (t \notin {from, to} /\ t \in Manned(b) /\ d[t] = b[t]))
    BY <1>4, <2>1, <2>2, <2>3 DEF Manned
  <2>5. /\ g \in [Manned(d) -> Manned(b)]
        /\ \A t \in Manned(d) : g[t] = IF t = kt THEN from ELSE IF t = rt THEN to ELSE t
    BY <1>4, <2>4
  <2>. HIDE DEF g
  <2>6. \A s, t \in Manned(d) : g[s] = g[t] => s = t
    BY <1>4, <2>1, <2>4, <2>5
  <2>7. \A t \in Manned(d) : ToGo(d, t) <= ToGo(b, g[t])
    <3>. SUFFICES ASSUME NEW t \in Manned(d) PROVE ToGo(d, t) <= ToGo(b, g[t])
      OBVIOUS
    <3>0. t \in Squares
      BY <2>4
    <3>1. CASE t \in {kt, rt}
      <4>1. ToGo(d, t) = 0
        BY <2>1, <2>3, <3>0, <3>1 DEF ToGo, MakePiece, Type
      <4>2. g[t] \in Squares
        BY <1>4, <2>5, <3>1
      <4>. QED BY <4>1, <4>2, ToGoRange
    <3>2. CASE t \notin {kt, rt}
      <4>1. ToGo(d, t) = ToGo(b, t) /\ g[t] = t
        BY <2>4, <2>5, <3>2 DEF ToGo
      <4>2. ToGo(d, t) \in 0..7
        BY <3>0, ToGoRange
      <4>. QED BY <4>1, <4>2
    <3>. QED BY <3>1, <3>2
  <2>8. Keeps(b, d)
    BY <2>5, <2>6, <2>7, LessToGo DEF Keeps
  <2>9. ~Irreversible(p, m)
    BY <1>6 DEF Irreversible
  <2>. QED BY <1>3, <2>8, <2>9 DEF d
<1>7. CASE m.kind = "enPassant"
  <2>. DEFINE s == to - PawnPush(us)
  <2>1. /\ b[from] = MakePiece(us, "pawn") /\ b[to] = NoPiece /\ s \in Squares
        /\ b[s] = MakePiece(Opposite(us), "pawn")
        /\ d = [b EXCEPT ![s] = NoPiece, ![from] = NoPiece, ![to] = b[from]]
    BY <1>2, <1>7 DEF Playable, BoardAfter
  <2>2. MakePiece(Opposite(us), "pawn") # MakePiece(us, "pawn") /\ MakePiece(Opposite(us), "pawn") # NoPiece
    BY <1>1, ManTypes DEF MakePiece, NoPiece
  <2>3. s # from /\ s # to
    BY <2>1, <2>2
  <2>. HIDE DEF s, d
  <2>4. \A x \in Squares : d[x] = IF x = to THEN b[from] ELSE IF x \in {from, s} THEN NoPiece ELSE b[x]
    BY <1>1, <1>4, <2>1 DEF Boards
  <2>5. d[to] = b[from]
    BY <1>4, <2>4
  <2>6. ToGo(d, to) < ToGo(b, from)
    <3>1. Type(b[from]) = "pawn"
      BY <2>1 DEF MakePiece, Type
    <3>2. ToGo(d, to) \in 0..7 /\ ToGo(b, from) \in 0..7
      BY <1>4, ToGoRange
    <3>. QED BY <1>5, <2>5, <3>1, <3>2
  <2>7. ToGo(d, to) <= ToGo(b, from)
    <3>2. ToGo(d, to) \in 0..7 /\ ToGo(b, from) \in 0..7
      BY <1>4, ToGoRange
    <3>. QED BY <2>6, <3>2
  <2>8. /\ {s} \in SUBSET Squares /\ to \notin {s} /\ from \notin {s}
        /\ \A x \in Squares \ ({from, to} \cup {s}) : d[x] = b[x]
        /\ \A x \in {from} \cup {s} : d[x] = NoPiece
    BY <1>4, <2>1, <2>3, <2>4
  <2>9. d[to] # NoPiece
    BY <1>4, <2>5
  <2>10. Keeps(b, d) /\ Spends(b, d)
    <3>. HIDE DEF b, from, to
    <3>. QED BY <1>1, <1>3, <1>4, <2>6, <2>7, <2>8, <2>9, ManMoved DEF d
  <2>. QED BY <1>3, <2>10 DEF d
<1>8. CASE m.kind \in {"normal", "promotion"}
  <2>1. /\ \A s \in Squares \ {from, to} : d[s] = b[s]
        /\ d[from] = NoPiece /\ d[to] \in Pieces
    BY <1>1, <1>2, <1>8, PlainMove
  <2>2. d[to] # NoPiece
    BY <1>1, <2>1, ManTypes
  <2>3. \/ d[to] = b[from]
        \/ Type(b[from]) = "pawn" /\ Type(d[to]) # "pawn"
    <3>1. CASE m.kind = "promotion"
      <4>1. d = [b EXCEPT ![from] = NoPiece, ![to] = MakePiece(us, m.promotion)]
        BY <3>1 DEF BoardAfter
      <4>2. b[from] = MakePiece(us, "pawn") /\ m.promotion \in PromotionTypes
        BY <1>2, <3>1 DEF Playable
      <4>. HIDE DEF d
      <4>3. d[to] = MakePiece(us, m.promotion)
        BY <1>1, <1>4, <4>1 DEF Boards
      <4>. QED BY <4>2, <4>3 DEF MakePiece, Type, PromotionTypes
    <3>2. CASE m.kind = "normal"
      <4>1. d = [b EXCEPT ![from] = NoPiece, ![to] = b[from]]
        BY <3>2 DEF BoardAfter
      <4>. HIDE DEF d
      <4>2. d[to] = b[from]
        BY <1>1, <1>4, <4>1 DEF Boards
      <4>. QED BY <4>2
    <3>. QED BY <1>8, <3>1, <3>2
  <2>4. Type(b[from]) = "pawn" => ToGo(d, to) < ToGo(b, from)
    <3>. SUFFICES ASSUME Type(b[from]) = "pawn" PROVE ToGo(d, to) < ToGo(b, from)
      OBVIOUS
    <3>1. ToGo(d, to) \in 0..7 /\ ToGo(b, from) \in 0..7
      BY <1>4, ToGoRange
    <3>2. CASE d[to] = b[from]
      BY <1>5, <3>1, <3>2
    <3>3. CASE Type(d[to]) # "pawn"
      <4>1. ToGo(d, to) = 0
        BY <3>3 DEF ToGo
      <4>2. IF us = White THEN Rank(to) > Rank(from) ELSE Rank(to) < Rank(from)
        BY <1>1, PawnsGoAhead
      <4>3. Rank(from) \in 0..7 /\ Rank(to) \in 0..7
        BY <1>4, Coordinates
      <4>4. ToGo(b, from) = (IF us = White THEN 7 - Rank(from) ELSE Rank(from))
        BY <1>4 DEF ToGo
      <4>. HIDE DEF us, b, d, from, to
      <4>. QED BY <4>1, <4>2, <4>3, <4>4
    <3>. QED BY <2>3, <3>2, <3>3
  <2>5. ToGo(d, to) <= ToGo(b, from)
    <3>1. ToGo(d, to) \in 0..7 /\ ToGo(b, from) \in 0..7
      BY <1>4, ToGoRange
    <3>2. Type(b[from]) # "pawn" => ToGo(d, to) = 0
      BY <2>3 DEF ToGo
    <3>. QED BY <2>4, <3>1, <3>2
  <2>6. /\ Keeps(b, d)
        /\ ToGo(d, to) < ToGo(b, from) => Spends(b, d)
        /\ b[to] # NoPiece => Spends(b, d)
    <3>1. /\ {} \in SUBSET Squares /\ to \notin {} /\ from \notin {}
          /\ \A x \in Squares \ ({from, to} \cup {}) : d[x] = b[x]
          /\ \A x \in {from} \cup {} : d[x] = NoPiece
      BY <2>1
    <3>2. from \in Manned(b) /\ to \in Squares /\ to # from /\ b \in Boards /\ d \in Boards
      BY <1>1, <1>3, <1>4
    <3>. DEFINE taken == {}
    <3>. HIDE DEF b, from, to, d, taken
    <3>3. /\ taken \in SUBSET Squares /\ to \notin taken /\ from \notin taken
          /\ \A x \in Squares \ ({from, to} \cup taken) : d[x] = b[x]
          /\ \A x \in {from} \cup taken : d[x] = NoPiece
      BY <3>1 DEF taken
    <3>. QED BY <2>2, <2>5, <3>2, <3>3, ManMoved
  <2>7. Irreversible(p, m) => b[to] # NoPiece \/ Type(b[from]) = "pawn"
    BY <1>8 DEF Irreversible, Captured
  <2>. QED BY <1>3, <2>4, <2>6, <2>7
<1>. QED BY <1>2, <1>6, <1>7, <1>8 DEF Playable

-----------------------------------------------------------------------------
(***************************************************************************)
(* Repetitions.                                                            *)
(***************************************************************************)
\* The clock starts again.
Resets(p, u) == u.move = MoveNone \/ Irreversible(p, u.move)

\* One step of a line, as far as repetitions go.
LEMMA StepFacts ==
    ASSUME NEW p, Legal(p), NEW u, NEW q, Reached(p, u, q)
    PROVE  /\ q.side = Opposite(p.side) /\ u.key = p.key /\ q.castlingRook = p.castlingRook
           /\ Keeps(p.board, q.board)
           /\ Resets(p, u) => q.halfmove = 0
           /\ ~Resets(p, u) => q.halfmove = p.halfmove + 1 /\ q.epSquare = NoSquare
           /\ Resets(p, u) /\ u.move # MoveNone => Spends(p.board, q.board)
<1>1. Sound(p) /\ BothKings(p) /\ Consistent(p) /\ p.side \in Colors
  BY DEF Legal, Sound
<1>2. CASE u.move \in GenerateLegalMoves(p) /\ u = Undo(p, u.move) /\ q = MakeMove(p, u.move)
  <2>. DEFINE m == u.move
  <2>1. m \in GenerateLegalMoves(p) /\ u = Undo(p, m) /\ q = MakeMove(p, m)
    BY <1>2
  <2>. HIDE DEF m
  <2>2. Playable(p.board, p.side, m)
    BY <1>1, <2>1, GeneratedPlayable
  <2>3. m # MoveNone
    BY <2>2 DEF Playable, MoveNone, Normal
  <2>4. /\ q.side = Opposite(p.side) /\ q.castlingRook = p.castlingRook
        /\ q.halfmove = IF Irreversible(p, m) THEN 0 ELSE p.halfmove + 1
        /\ \/ q.epSquare = NoSquare
           \/ m.kind = "normal" /\ Type(p.board[m.from]) = "pawn"
    BY <1>1, <2>1, <2>2, MoveMade
  <2>5. m.kind = "normal" /\ Type(p.board[m.from]) = "pawn" => Irreversible(p, m)
    BY DEF Irreversible
  <2>6. Keeps(p.board, q.board) /\ (Irreversible(p, m) => Spends(p.board, q.board))
    BY <2>1, MoveSpends
  <2>7. u.key = p.key
    <3>1. Undo(p, m).key = p.key
      BY DEF Undo
    <3>. QED BY <2>1, <3>1
  <2>8. Resets(p, u) <=> Irreversible(p, m)
    BY <2>3 DEF Resets, m
  <2>. QED BY <2>3, <2>4, <2>5, <2>6, <2>7, <2>8 DEF m
<1>3. CASE u = NullUndo(p) /\ q = MakeNullMove(p)
  <2>1. /\ q.side = Opposite(p.side) /\ q.castlingRook = p.castlingRook /\ q.halfmove = 0
        /\ q.board = p.board
    BY <1>1, <1>3, NullMoveMade
  <2>2. u.key = p.key /\ u.move = MoveNone
    BY <1>3 DEF NullUndo, Undo
  <2>3. Keeps(p.board, q.board)
    BY <2>1, PotentialFinite DEF Keeps
  <2>. QED BY <2>1, <2>2, <2>3 DEF Resets
<1>. QED BY <1>2, <1>3 DEF Reached

\* What two positions of a chain have to do with each other.
Along(ps, h, i, k) ==
    /\ ps[i].side \in Colors /\ ps[k].side \in Colors
    /\ ps[i].side = ps[k].side <=> (k - i) % 2 = 0
    /\ ps[k].castlingRook = ps[i].castlingRook
    /\ Keeps(ps[i].board, ps[k].board)
    /\ (\A j \in i .. (k - 1) : ~Resets(ps[j], h[j])) => ps[k].halfmove = ps[i].halfmove + (k - i)

\* Along a chain sides alternate, the rooks that castle stay the same, nothing is gained, and
\* the clock counts while nothing resets it.
LEMMA AllAlong ==
    ASSUME NEW ps, NEW h, Chain(ps, h), NEW i \in 1 .. Len(ps), NEW k \in i .. Len(ps)
    PROVE  Along(ps, h, i, k)
<1>. DEFINE n == Len(h)
            Bad == {x \in i .. (n + 1) : ~Along(ps, h, i, x)}
<1>1. n \in Nat /\ Len(ps) = n + 1
  BY Appended DEF Chain
<1>2. /\ \A x \in 1 .. (n + 1) : Legal(ps[x])
      /\ \A x \in 1 .. n : Reached(ps[x], h[x], ps[x + 1])
  BY <1>1 DEF Chain
<1>3. i \in 1 .. (n + 1) /\ k \in i .. (n + 1)
  BY <1>1
<1>4. \A x \in 1 .. (n + 1) : ps[x].side \in Colors /\ ps[x].halfmove \in Nat
  BY <1>2 DEF Legal, Sound
<1>. HIDE DEF n
<1>5. Along(ps, h, i, i)
  <2>1. (i - i) % 2 = 0 /\ ps[i].halfmove = ps[i].halfmove + (i - i)
    BY <1>3, <1>4
  <2>2. Keeps(ps[i].board, ps[i].board)
    BY PotentialFinite DEF Keeps
  <2>. QED BY <1>3, <1>4, <2>1, <2>2 DEF Along
<1>6. ASSUME NEW x \in i .. n, Along(ps, h, i, x) PROVE Along(ps, h, i, x + 1)
  <2>1. x \in 1 .. n /\ x \in 1 .. (n + 1) /\ x + 1 \in 1 .. (n + 1)
    BY <1>1, <1>3
  <2>2. /\ ps[x + 1].side = Opposite(ps[x].side) /\ ps[x + 1].castlingRook = ps[x].castlingRook
        /\ Keeps(ps[x].board, ps[x + 1].board)
        /\ ~Resets(ps[x], h[x]) => ps[x + 1].halfmove = ps[x].halfmove + 1
    BY <1>2, <2>1, StepFacts
  <2>3. ps[x + 1].side = ps[i].side <=> ~(ps[x].side = ps[i].side)
    BY <1>3, <1>4, <2>1, <2>2 DEF Opposite, Colors, White, Black
  <2>4. ((x + 1) - i) % 2 = 0 <=> ~((x - i) % 2 = 0)
    BY <1>3, <2>1
  <2>5. Keeps(ps[i].board, ps[x + 1].board)
    BY <1>6, <2>2, PotentialFinite DEF Along, Keeps
  <2>6. ASSUME \A j \in i .. ((x + 1) - 1) : ~Resets(ps[j], h[j])
        PROVE  ps[x + 1].halfmove = ps[i].halfmove + ((x + 1) - i)
    <3>1. x \in i .. ((x + 1) - 1) /\ \A j \in i .. (x - 1) : j \in i .. ((x + 1) - 1)
      BY <1>3, <2>1
    <3>2. ps[x].halfmove = ps[i].halfmove + (x - i)
      BY <1>6, <2>6, <3>1 DEF Along
    <3>3. ps[x + 1].halfmove = ps[x].halfmove + 1
      BY <2>2, <2>6, <3>1
    <3>4. ps[i].halfmove \in Nat /\ x \in Int /\ i \in Int
      BY <1>3, <1>4, <2>1
    <3>. QED BY <3>2, <3>3, <3>4
  <2>. QED BY <1>3, <1>4, <1>6, <2>1, <2>2, <2>3, <2>4, <2>5, <2>6 DEF Along
<1>7. Bad = {}
  <2>. SUFFICES ASSUME Bad # {} PROVE FALSE
    OBVIOUS
  <2>1. PICK x \in Bad : \A y \in Bad : x <= y
    <3>1. Bad \in SUBSET Nat
      BY <1>1, <1>3
    <3>. HIDE DEF Bad
    <3>. QED BY <3>1, LeastOf
  <2>2. x \in i .. (n + 1) /\ ~Along(ps, h, i, x) /\ x # i
    BY <1>5, <2>1
  <2>3. x - 1 \in i .. n /\ x - 1 \in i .. (n + 1) /\ ~(x <= x - 1) /\ (x - 1) + 1 = x
    BY <1>1, <1>3, <2>2
  <2>4. Along(ps, h, i, x - 1)
    BY <2>1, <2>3
  <2>. QED BY <1>6, <2>2, <2>3, <2>4
<1>. QED BY <1>3, <1>7

\* The rights of a sound position are told by their colors and rooks.
LEMMA RightsTold ==
    ASSUME NEW p, Sound(p), NEW q, Sound(q), BothKings(p), p.board = q.board,
           NEW r \in p.castling, NEW x \in q.castling, r[1] = x[1],
           p.castlingRook[r] = q.castlingRook[x]
    PROVE  r = x
<1>1. r \in Rights /\ x \in Rights /\ RightSound(p, r) /\ RightSound(q, x)
  BY DEF Sound
<1>2. KingSquare(q, r[1]) = KingSquare(p, r[1])
  BY SameKings DEF Sound
<1>3. r[2] = "king" <=> x[2] = "king"
  BY <1>1, <1>2 DEF RightSound
<1>. QED BY <1>1, <1>3 DEF Rights, Wings

\* Two positions of one game with the same side to move and no target in the later one have
\* the same key exactly when they are the same situation.
LEMMA SameKey ==
    ASSUME NEW p, Legal(p), NEW q, Legal(q), p.side = q.side, p.castlingRook = q.castlingRook,
           q.epSquare = NoSquare
    PROVE  p.key = q.key <=> SituationOf(p) = SituationOf(q)
<1>1. /\ Sound(p) /\ Sound(q) /\ BothKings(p) /\ p.board \in Boards /\ q.board \in Boards
      /\ p.key = ComputeKey(p) /\ q.key = ComputeKey(q)
  BY DEF Legal, Sound, Keyed, Consistent
<1>2. \A z \in {p, q} : /\ \A s \in Squares, pc \in Pieces : <<"piece", pc, s>> \in z.key <=> z.board[s] = pc
                        /\ \A c : <<"castling", c>> \in z.key <=> c = z.castling
                        /\ z.epSquare # NoSquare <=> \E f : <<"ep", f>> \in z.key
  <2>. SUFFICES ASSUME NEW z \in {p, q}
                PROVE  /\ \A s \in Squares, pc \in Pieces : <<"piece", pc, s>> \in z.key <=> z.board[s] = pc
                       /\ \A c : <<"castling", c>> \in z.key <=> c = z.castling
                       /\ z.epSquare # NoSquare <=> \E f : <<"ep", f>> \in z.key
    OBVIOUS
  <2>1. z.board \in Boards /\ z.key = PieceKey(z.board) \cup Rest(z)
    BY <1>1, KeyOfParts
  <2>2. \A x : x \in PieceKey(z.board) <=>
                 \E s \in Squares : z.board[s] # NoPiece /\ x = <<"piece", z.board[s], s>>
    BY DEF PieceKey, ZPiece
  <2>3. \A x : x \in Rest(z) <=> \/ x = <<"castling", z.castling>>
                                 \/ z.epSquare # NoSquare /\ x = <<"ep", File(z.epSquare)>>
                                 \/ z.side = Black /\ x = <<"side">>
    BY DEF Rest, ZCastling, ZEPFile, ZSide
  <2>4. \A x : x \in z.key <=> \/ \E s \in Squares : z.board[s] # NoPiece /\ x = <<"piece", z.board[s], s>>
                               \/ x = <<"castling", z.castling>>
                               \/ z.epSquare # NoSquare /\ x = <<"ep", File(z.epSquare)>>
                               \/ z.side = Black /\ x = <<"side">>
    BY <2>1, <2>2, <2>3
  <2>5. ASSUME NEW s \in Squares, NEW pc \in Pieces
        PROVE  <<"piece", pc, s>> \in z.key <=> z.board[s] = pc
    <3>1. pc # NoPiece
      BY ManTypes, <2>5 DEF Pieces, NoPiece, Colors, White, Black
    <3>2. <<"piece", pc, s>> \in z.key <=>
            \E t \in Squares : z.board[t] # NoPiece /\ <<"piece", pc, s>> = <<"piece", z.board[t], t>>
      BY <2>4
    <3>. QED BY <3>1, <3>2
  <2>6. ASSUME NEW c PROVE <<"castling", c>> \in z.key <=> c = z.castling
    BY <2>4
  <2>7. (\E f : <<"ep", f>> \in z.key) <=> z.epSquare # NoSquare
    <3>1. ASSUME z.epSquare # NoSquare PROVE <<"ep", File(z.epSquare)>> \in z.key
      BY <2>4, <3>1
    <3>2. ASSUME NEW f, <<"ep", f>> \in z.key PROVE z.epSquare # NoSquare
      BY <2>4, <3>2
    <3>. QED BY <3>1, <3>2
  <2>. QED BY <2>5, <2>6, <2>7
<1>3. ASSUME p.key = q.key PROVE SituationOf(p) = SituationOf(q)
  <2>1. p.board = q.board
    <3>1. \A s \in Squares, pc \in Pieces : p.board[s] = pc <=> q.board[s] = pc
      <4>1. \A s \in Squares, pc \in Pieces : <<"piece", pc, s>> \in p.key <=> p.board[s] = pc
        BY <1>2
      <4>2. \A s \in Squares, pc \in Pieces : <<"piece", pc, s>> \in q.key <=> q.board[s] = pc
        BY <1>2
      <4>. QED BY <1>3, <4>1, <4>2
    <3>2. \A s \in Squares : p.board[s] \in Pieces \cup {NoPiece} /\ q.board[s] \in Pieces \cup {NoPiece}
      BY <1>1 DEF Boards
    <3>3. \A s \in Squares : p.board[s] = q.board[s]
      BY <3>1, <3>2
    <3>. QED BY <1>1, <3>3 DEF Boards
  <2>2. p.castling = q.castling
    BY <1>2, <1>3
  <2>3. p.epSquare = q.epSquare
    BY <1>2, <1>3
  <2>. QED BY <2>1, <2>2, <2>3 DEF SituationOf
<1>4. ASSUME SituationOf(p) = SituationOf(q) PROVE p.key = q.key
  <2>1. /\ p.board = q.board /\ p.epSquare = q.epSquare
        /\ {[color |-> r[1], rook |-> p.castlingRook[r]] : r \in p.castling}
             = {[color |-> r[1], rook |-> q.castlingRook[r]] : r \in q.castling}
    BY <1>4 DEF SituationOf
  <2>2. \A r \in p.castling : r \in q.castling
    <3>. SUFFICES ASSUME NEW r \in p.castling PROVE r \in q.castling
      OBVIOUS
    <3>1. PICK x \in q.castling : [color |-> r[1], rook |-> p.castlingRook[r]]
                                    = [color |-> x[1], rook |-> q.castlingRook[x]]
      BY <2>1
    <3>2. r[1] = x[1] /\ p.castlingRook[r] = q.castlingRook[x]
      BY <3>1
    <3>3. r = x
      BY <1>1, <2>1, <3>2, RightsTold
    <3>. QED BY <3>3
  <2>3. \A r \in q.castling : r \in p.castling
    <3>. SUFFICES ASSUME NEW r \in q.castling PROVE r \in p.castling
      OBVIOUS
    <3>1. PICK x \in p.castling : [color |-> r[1], rook |-> q.castlingRook[r]]
                                    = [color |-> x[1], rook |-> p.castlingRook[x]]
      BY <2>1
    <3>2. r[1] = x[1] /\ q.castlingRook[r] = p.castlingRook[x]
      BY <3>1
    <3>3. r = x
      BY <1>1, <2>1, <3>2, RightsTold
    <3>. QED BY <3>3
  <2>4. p.castling = q.castling
    BY <2>2, <2>3
  <2>5. ComputeKey(p) = ComputeKey(q)
    BY <2>1, <2>4 DEF ComputeKey
  <2>. QED BY <1>1, <2>5
<1>. QED BY <1>3, <1>4

\* Nothing was irreversible, and no move was null, from ps[i] on.
Quiet(ps, h, i) == \A j \in i .. Len(h) : ~Resets(ps[j], h[j])

\* The clock counts the moves since the last that reset it.
LEMMA ClockCounts ==
    ASSUME NEW ps, NEW h, Chain(ps, h), NEW i \in 1 .. Len(h)
    PROVE  Quiet(ps, h, i) <=> i > Len(h) - ps[Len(h) + 1].halfmove
<1>. DEFINE n == Len(h)
            q == ps[n + 1]
            R == {j \in i .. n : Resets(ps[j], h[j])}
<1>1. n \in Nat /\ Len(ps) = n + 1
  BY Appended DEF Chain
<1>2. /\ \A x \in 1 .. (n + 1) : ps[x].halfmove \in Nat
      /\ \A x \in 1 .. n : Resets(ps[x], h[x]) => ps[x + 1].halfmove = 0
  <2>1. \A x \in 1 .. (n + 1) : Legal(ps[x])
    BY <1>1 DEF Chain
  <2>2. \A x \in 1 .. n : x \in 1 .. (n + 1) /\ Reached(ps[x], h[x], ps[x + 1])
    BY <1>1 DEF Chain
  <2>3. \A x \in 1 .. (n + 1) : ps[x].halfmove \in Nat
    BY <2>1 DEF Legal, Sound
  <2>4. \A x \in 1 .. n : Resets(ps[x], h[x]) => ps[x + 1].halfmove = 0
    BY <2>1, <2>2, StepFacts
  <2>. QED BY <2>3, <2>4
<1>3. \A x \in 1 .. (n + 1) : (\A j \in x .. n : ~Resets(ps[j], h[j])) => q.halfmove = ps[x].halfmove + ((n + 1) - x)
  <2>. SUFFICES ASSUME NEW x \in 1 .. (n + 1), \A j \in x .. n : ~Resets(ps[j], h[j])
                PROVE  q.halfmove = ps[x].halfmove + ((n + 1) - x)
    OBVIOUS
  <2>1. n + 1 \in x .. Len(ps) /\ x \in 1 .. Len(ps) /\ (n + 1) - 1 = n
    BY <1>1
  <2>. HIDE DEF n
  <2>2. Along(ps, h, x, n + 1)
    BY <2>1, AllAlong
  <2>. QED BY <2>1, <2>2 DEF Along
<1>4. i \in 1 .. n /\ i \in 1 .. (n + 1) /\ q.halfmove \in Nat /\ n + 1 \in 1 .. (n + 1)
  BY <1>1, <1>2
<1>5. Quiet(ps, h, i) <=> R = {}
  BY DEF Quiet
<1>. HIDE DEF n, q
<1>6. ASSUME R = {} PROVE i > n - q.halfmove
  <2>1. q.halfmove = ps[i].halfmove + ((n + 1) - i)
    BY <1>3, <1>4, <1>6
  <2>. QED BY <1>1, <1>2, <1>4, <2>1
<1>7. ASSUME R # {} PROVE ~(i > n - q.halfmove)
  <2>1. PICK j \in R : \A x \in R : x <= j
    <3>1. \A x \in R : x \in Nat /\ x <= n
      BY <1>1, <1>4
    <3>. HIDE DEF R
    <3>. QED BY <1>1, <1>7, <3>1, GreatestOf
  <2>2. j \in 1 .. n /\ i <= j /\ Resets(ps[j], h[j]) /\ j + 1 \in 1 .. (n + 1)
    BY <1>1, <1>4, <2>1
  <2>3. \A x \in (j + 1) .. n : ~Resets(ps[x], h[x])
    <3>. SUFFICES ASSUME NEW x \in (j + 1) .. n, Resets(ps[x], h[x]) PROVE FALSE
      OBVIOUS
    <3>1. x \in R /\ ~(x <= j)
      BY <1>1, <1>4, <2>2
    <3>. QED BY <2>1, <3>1
  <2>4. q.halfmove = ps[j + 1].halfmove + ((n + 1) - (j + 1)) /\ ps[j + 1].halfmove = 0
    BY <1>2, <1>3, <2>2, <2>3
  <2>. QED BY <1>1, <1>4, <2>2, <2>4
<1>. QED BY <1>5, <1>6, <1>7 DEF n, q

\* The situation comes back only when nothing irreversible was played in between.
LEMMA ComesBackQuietly ==
    ASSUME NEW ps, NEW h, Chain(ps, h), NEW i \in 1 .. Len(h),
           \A j \in i .. Len(h) : h[j].move # MoveNone,
           ps[i].board = ps[Len(h) + 1].board
    PROVE  Quiet(ps, h, i)
<1>. DEFINE n == Len(h)
<1>1. n \in Nat /\ Len(ps) = n + 1
  BY Appended DEF Chain
<1>. SUFFICES ASSUME NEW j \in i .. n, Resets(ps[j], h[j]) PROVE FALSE
  BY DEF Quiet
<1>2. /\ j \in 1 .. n /\ j \in 1 .. (n + 1) /\ i \in 1 .. (n + 1) /\ j \in i .. (n + 1)
      /\ j + 1 \in 1 .. (n + 1) /\ n + 1 \in (j + 1) .. (n + 1)
  BY <1>1
<1>3. Legal(ps[j]) /\ Reached(ps[j], h[j], ps[j + 1])
  BY <1>1, <1>2 DEF Chain
<1>4. h[j].move # MoveNone
  OBVIOUS
<1>5. Spends(ps[j].board, ps[j + 1].board)
  BY <1>3, <1>4, StepFacts
<1>6. Along(ps, h, i, j)
  BY <1>1, <1>2, AllAlong
<1>7. Along(ps, h, j + 1, n + 1)
  <2>. HIDE DEF n
  <2>. QED BY <1>1, <1>2, AllAlong
<1>8. Keeps(ps[i].board, ps[j].board) /\ Keeps(ps[j + 1].board, ps[n + 1].board)
  BY <1>6, <1>7 DEF Along
<1>9. ps[i].board = ps[n + 1].board
  OBVIOUS
<1>. HIDE DEF n
<1>. QED BY <1>5, <1>8, <1>9, PotentialFinite DEF Keeps, Spends

\* A key of a quiet stretch is that of the position reached exactly when it is the same situation,
\* with an even number of moves in between.
LEMMA KeyTells ==
    ASSUME NEW ps, NEW h, Chain(ps, h), NEW i \in 1 .. Len(h), Quiet(ps, h, i)
    PROVE  LET n == Len(h)
               q == ps[n + 1]
           IN  (n - i) % 2 = 1 /\ h[i].key = q.key <=> SituationOf(ps[i]) = SituationOf(q)
<1>. DEFINE n == Len(h)
            p == ps[i]
            q == ps[n + 1]
<1>1. n \in Nat /\ Len(ps) = n + 1
  BY Appended DEF Chain
<1>2. i \in 1 .. (n + 1) /\ n \in 1 .. n /\ n \in i .. n /\ n \in 1 .. (n + 1) /\ n + 1 \in 1 .. (n + 1) /\ n + 1 \in i .. (n + 1)
  BY <1>1
<1>3. Legal(p) /\ Legal(q) /\ Legal(ps[n]) /\ Reached(p, h[i], ps[i + 1]) /\ Reached(ps[n], h[n], q)
  BY <1>1, <1>2 DEF Chain
<1>4. h[i].key = p.key
  BY <1>3, StepFacts
<1>5. q.epSquare = NoSquare
  <2>1. ~Resets(ps[n], h[n])
    BY <1>2 DEF Quiet
  <2>. QED BY <1>3, <2>1, StepFacts
<1>6. Along(ps, h, i, n + 1)
  <2>. HIDE DEF n
  <2>. QED BY <1>1, <1>2, AllAlong
<1>7. p.side = q.side <=> (n - i) % 2 = 1
  <2>1. ((n + 1) - i) % 2 = 0 <=> (n - i) % 2 = 1
    BY <1>1, <1>2
  <2>. QED BY <1>6, <2>1 DEF Along
<1>8. q.castlingRook = p.castlingRook
  BY <1>6 DEF Along
<1>. HIDE DEF n, p, q
<1>9. ASSUME p.side = q.side
      PROVE  (n - i) % 2 = 1 /\ h[i].key = q.key <=> SituationOf(p) = SituationOf(q)
  BY <1>3, <1>4, <1>5, <1>7, <1>8, <1>9, SameKey
<1>10. ASSUME p.side # q.side
       PROVE  (n - i) % 2 = 1 /\ h[i].key = q.key <=> SituationOf(p) = SituationOf(q)
  <2>1. SituationOf(p) # SituationOf(q)
    BY <1>10 DEF SituationOf
  <2>. QED BY <1>7, <1>10, <2>1
<1>. QED BY <1>9, <1>10 DEF n, p, q

\* The keys compared back to the last irreversible move, rules.go, tell exactly the earlier
\* occurrences of the situation on the board.
THEOREM RepetitionExactHolds == Spec => []RepetitionExact
<1>1. ASSUME LineInv PROVE RepetitionExact
  <2>. DEFINE ps == Passed
              h == history
              n == Len(h)
              afterNull == {i \in DOMAIN h : \A j \in DOMAIN h : j >= i => h[j].move # MoveNone}
              Found == {i \in DOMAIN h : i > n - pos.halfmove /\ (n - i) % 2 = 1 /\ h[i].key = pos.key}
              Back == {i \in afterNull : SituationOf(line[i]) = SituationOf(pos)}
  <2>1. Chain(ps, h) /\ IsSeq(line)
    BY <1>1 DEF LineInv
  <2>2. n \in Nat /\ Len(ps) = n + 1 /\ DOMAIN h = 1 .. n
    BY <2>1, Appended DEF Chain
  <2>3. Len(line) = n /\ ps[n + 1] = pos /\ \A i \in 1 .. n : ps[i] = line[i]
    BY <2>1, <2>2, Appended DEF Passed
  <2>. HIDE DEF ps, h
  <2>4. ASSUME NEW i \in 1 .. n PROVE i \in Found <=> i \in Back
    <3>1. Quiet(ps, h, i) <=> i > n - pos.halfmove
      BY <2>1, <2>3, ClockCounts
    <3>2. Quiet(ps, h, i) => ((n - i) % 2 = 1 /\ h[i].key = pos.key <=> SituationOf(line[i]) = SituationOf(pos))
      BY <2>1, <2>3, KeyTells
    <3>3. Quiet(ps, h, i) => \A j \in DOMAIN h : j >= i => h[j].move # MoveNone
      BY <2>2 DEF Quiet, Resets
    <3>4. ASSUME i \in Back PROVE Quiet(ps, h, i)
      <4>1. \A j \in i .. n : h[j].move # MoveNone
        BY <2>2, <3>4
      <4>2. ps[i].board = ps[n + 1].board
        BY <2>3, <3>4 DEF SituationOf
      <4>. QED BY <2>1, <4>1, <4>2, ComesBackQuietly
    <3>. HIDE DEF n
    <3>. QED BY <2>2, <3>1, <3>2, <3>3, <3>4
  <2>5. Found = Back
    BY <2>2, <2>4
  <2>6. RepetitionCount(pos, h) = Cardinality(Found)
    BY DEF RepetitionCount
  <2>. QED BY <2>5, <2>6 DEF RepetitionExact, h
<1>. QED BY <1>1, LineInvariant, PTL

-----------------------------------------------------------------------------
(***************************************************************************)
(* What the masks for checks and pins leave out would leave the king attacked. *)
(***************************************************************************)
\* Squares can be counted.
LEMMA SquaresFinite == \A S \in SUBSET Squares : IsFiniteSet(S) /\ Cardinality(S) \in Nat
<1>. DEFINE top == 63
<1>1. top \in Int /\ Squares = 0 .. top
  BY DEF Squares
<1>2. IsFiniteSet(0 .. top)
  <2>. HIDE DEF top
  <2>. QED BY <1>1, FS_Interval
<1>. HIDE DEF top
<1>3. IsFiniteSet(Squares)
  BY <1>1, <1>2
<1>. QED BY <1>3, FS_Subset, FS_CardinalityType

\* Two make two.
LEMMA PairCounts ==
    ASSUME NEW a, NEW x, a # x
    PROVE  IsFiniteSet({a, x}) /\ Cardinality({a, x}) = 2
<1>1. IsFiniteSet({x}) /\ Cardinality({x}) = 1
  BY FS_Singleton
<1>2. IsFiniteSet({x} \cup {a}) /\ Cardinality({x} \cup {a}) = Cardinality({x}) + 1
  BY <1>1, FS_AddElement
<1>3. {x} \cup {a} = {a, x}
  OBVIOUS
<1>. QED BY <1>1, <1>2, <1>3

\* A set of squares that counts one has one member.
LEMMA SingleMember ==
    ASSUME NEW S \in SUBSET Squares, Cardinality(S) = 1, NEW a \in S, NEW x \in S
    PROVE  a = x
<1>1. IsFiniteSet(S)
  BY SquaresFinite
<1>. SUFFICES ASSUME a # x PROVE FALSE
  OBVIOUS
<1>2. {a, x} \subseteq S /\ IsFiniteSet({a, x}) /\ Cardinality({a, x}) = 2
  BY PairCounts
<1>3. Cardinality({a, x}) <= Cardinality(S)
  BY <1>1, <1>2, FS_Subset
<1>. QED BY <1>2, <1>3

\* A square with a man of some color is not empty.
LEMMA ColoredIsMan ==
    ASSUME NEW pc, Color(pc) \in Colors
    PROVE  pc # NoPiece
  BY PieceFacts

\* The first man on a line.
LEMMA FirstOnLine ==
    ASSUME NEW s \in Squares, NEW d \in Directions, NEW n \in 1..7, NEW a \in Squares, At(s, d, n, a),
           NEW occ \in SUBSET Squares, a \in occ
    PROVE  \E i \in 1..7, u \in occ : i <= n /\ Sees(s, d, i, u, occ)
<1>. DEFINE D == {i \in 1..7 : i <= n /\ \E u \in occ : At(s, d, i, u)}
<1>1. D \in SUBSET Nat /\ n \in D
  OBVIOUS
<1>2. Min(D) \in D /\ \A i \in D : Min(D) <= i
  <2>. HIDE DEF D
  <2>. QED BY <1>1, LeastOf
<1>. DEFINE j == Min(D)
<1>. HIDE DEF j
<1>3. j \in D /\ \A i \in D : j <= i
  BY <1>2 DEF j
<1>4. PICK u \in occ : At(s, d, j, u)
  BY <1>3
<1>5. \A w \in occ : ~InWay(s, d, j, w)
  <2>. SUFFICES ASSUME NEW w \in occ, NEW i \in 1 .. (j - 1), At(s, d, i, w) PROVE FALSE
    BY DEF InWay
  <2>1. j \in 1..7 /\ j <= n
    BY <1>3
  <2>2. i \in 1..7 /\ i <= n /\ i < j
    BY <2>1
  <2>3. i \in D
    BY <2>2
  <2>. HIDE DEF D
  <2>. QED BY <1>3, <2>1, <2>2, <2>3
<1>6. j \in 1..7 /\ j <= n
  BY <1>3
<1>. QED BY <1>4, <1>5, <1>6 DEF Sees

\* A square that lies in the direction of another is on the line through it.
LEMMA OnTheLine ==
    ASSUME NEW d \in Directions, NEW s \in Squares, NEW f \in Squares, NEW m \in 1..7, At(s, d, m, f),
           NEW t \in Squares, NEW i \in 1..7, At(s, d, i, t)
    PROVE  t \in LineBB[s][f]
<1>1. PICK e \in {BishopDirs, RookDirs} : d \in e
  BY DEF Directions
<1>2. e \in SUBSET Directions /\ -d \in e /\ -d \in Directions
  BY <1>1, DirectionSets, DirectionCases
<1>3. Alignment(s, f) = {e}
  BY <1>1, AlignedOn
<1>4. LineBB[s][f] = (SlidingAttacks(s, {}, e) \cap SlidingAttacks(f, {}, e)) \cup {s, f}
  BY <1>3 DEF LineBB
<1>5. t \in SlidingAttacks(s, {}, e)
  BY <1>1, SeenOnEmpty
<1>6. t = f \/ t \in SlidingAttacks(f, {}, e)
  <2>1. CASE i = m
    BY <2>1, OnePlace
  <2>2. CASE i > m
    <3>1. m \in 0..7 /\ i \in m..7 /\ i - m \in 1..7
      BY <2>2
    <3>2. At(f, d, i - m, t)
      BY <3>1, Onwards
    <3>. QED BY <1>1, <3>1, <3>2, SeenOnEmpty
  <2>3. CASE i < m
    <3>1. m \in 0..7 /\ i \in 0..m /\ m - i \in 1..7
      BY <2>3
    <3>2. At(f, -d, m - i, t)
      BY <3>1, Backwards
    <3>. QED BY <1>1, <1>2, <3>1, <3>2, SeenOnEmpty
  <2>. QED BY <2>1, <2>2, <2>3
<1>. QED BY <1>4, <1>5, <1>6

\* A sniper is an enemy slider on a line of its own with the king.
LEMMA SniperIs ==
    ASSUME NEW p, Consistent(p), NEW c \in Colors, NEW k \in Squares, NEW a \in Squares,
           a \in ((RookAttacks(k, {}) \cap (p.byType["rook"] \cup p.byType["queen"]))
                    \cup (BishopAttacks(k, {}) \cap (p.byType["bishop"] \cup p.byType["queen"])))
                   \cap p.byColor[c]
    PROVE  Color(p.board[a]) = c /\ \E d \in SlideDirs(Type(p.board[a])), n \in 1..7 : At(k, d, n, a)
<1>1. Color(p.board[a]) = c
  BY PiecesStand
<1>2. \A pt \in PieceTypes : a \in p.byType[pt] <=> Type(p.board[a]) = pt
  BY DEF Consistent, TypesOf
<1>3. \/ Type(p.board[a]) \in {"rook", "queen"} /\ a \in RookAttacks(k, {})
      \/ Type(p.board[a]) \in {"bishop", "queen"} /\ a \in BishopAttacks(k, {})
  BY <1>2 DEF PieceTypes
<1>4. \E d \in SlideDirs(Type(p.board[a])), n \in 1..7 : Sees(k, d, n, a, {})
  <2>1. {} \in SUBSET Squares
    OBVIOUS
  <2>. QED BY <1>3, <2>1, SlidersSee
<1>. QED BY <1>1, <1>4 DEF Sees

\* Behind a pinned piece, or before it, is the slider: the first other man on the line.
LEMMA PinHolds ==
    ASSUME NEW p, Consistent(p), NEW us \in Colors, NEW k \in Squares, k = KingSquare(p, us),
           NEW f \in BlockersForKing(p, us) \cap p.byColor[us]
    PROVE  \E d \in Directions, m \in 1..7, i \in 1..7, u \in Squares :
              /\ At(k, d, m, f) /\ i # m /\ u # f
              /\ Color(p.board[u]) = Opposite(us) /\ d \in SlideDirs(Type(p.board[u]))
              /\ Sees(k, d, i, u, Manned(p.board) \ {f})
<1>. DEFINE them == Opposite(us)
            b == p.board
            snipers == ((RookAttacks(k, {}) \cap (p.byType["rook"] \cup p.byType["queen"]))
                         \cup (BishopAttacks(k, {}) \cap (p.byType["bishop"] \cup p.byType["queen"])))
                        \cap p.byColor[them]
            occupancy == Manned(b) \ snipers
<1>1. them \in Colors /\ them # us /\ Occupied(p) = Manned(b) /\ Manned(b) \in SUBSET Squares
  BY ManTypes, RefreshReadsBoard DEF Manned
<1>2. p.byColor[us] = {s \in Squares : Color(b[s]) = us} /\ p.byColor[them] = {s \in Squares : Color(b[s]) = them}
  BY <1>1, PiecesStand
<1>3. f \in Squares /\ Color(b[f]) = us
  BY <1>2
<1>4. PICK a \in snipers : f \in BetweenBB[k][a] \cap occupancy /\ Cardinality(BetweenBB[k][a] \cap occupancy) = 1
  BY <1>1 DEF BlockersForKing
<1>5. \A u \in BetweenBB[k][a] \cap occupancy : u = f
  <2>. DEFINE B == BetweenBB[k][a] \cap occupancy
  <2>1. B \in SUBSET Squares /\ f \in B /\ Cardinality(B) = 1
    BY <1>1, <1>4
  <2>. HIDE DEF B
  <2>2. \A u \in B : u = f
    BY <2>1, SingleMember
  <2>. QED BY <2>2 DEF B
<1>6. \A s \in snipers : s \in Squares
  BY <1>2
<1>7. \A s \in snipers : /\ Color(b[s]) = them
                         /\ \E d \in SlideDirs(Type(b[s])), n \in 1..7 : At(k, d, n, s)
  <2>. HIDE DEF them
  <2>. QED BY <1>1, <1>6, SniperIs
<1>. HIDE DEF snipers
<1>8. PICK d \in SlideDirs(Type(b[a])), n \in 1..7 : At(k, d, n, a)
  BY <1>7
<1>9. d \in Directions /\ a \in Squares /\ Color(b[a]) = them /\ a # f
  BY <1>1, <1>3, <1>6, <1>7, SlideDirsKnown
<1>10. BetweenBB[k][a] = {u \in Squares : InWay(k, d, n, u)}
  BY <1>8, <1>9, BetweenIs
<1>11. PICK m \in 1 .. (n - 1) : At(k, d, m, f)
  BY <1>4, <1>10 DEF InWay
<1>12. m \in 1..7
  OBVIOUS
<1>. DEFINE rest == Manned(b) \ {f}
<1>13. rest \in SUBSET Squares /\ a \in rest
  BY <1>1, <1>9, ColoredIsMan DEF Manned
<1>14. PICK i \in 1..7, u \in rest : i <= n /\ Sees(k, d, i, u, rest)
  <2>. HIDE DEF rest
  <2>. QED BY <1>8, <1>9, <1>13, FirstOnLine
<1>15. At(k, d, i, u) /\ u \in Squares /\ u # f
  BY <1>13, <1>14 DEF Sees
<1>16. i # m
  BY <1>3, <1>11, <1>15, OnePlace
<1>17. Color(b[u]) = them /\ d \in SlideDirs(Type(b[u]))
  <2>1. CASE i = n
    <3>1. u = a
      BY <1>8, <1>9, <1>15, <2>1, OnePlace
    <3>. QED BY <1>9, <3>1
  <2>2. CASE i # n
    <3>1. i \in 1 .. (n - 1)
      BY <1>14, <2>2
    <3>2. u \in BetweenBB[k][a]
      BY <1>10, <1>15, <3>1 DEF InWay
    <3>3. u \in snipers
      BY <1>5, <1>13, <1>15, <3>2
    <3>4. PICK e \in SlideDirs(Type(b[u])), j \in 1..7 : At(k, e, j, u)
      BY <1>7, <3>3
    <3>5. e \in Directions
      BY SlideDirsKnown
    <3>6. e = d
      BY <1>9, <1>15, <3>4, <3>5, OneLine
    <3>. QED BY <1>7, <3>3, <3>4, <3>6
  <2>. QED BY <2>1, <2>2
<1>. QED BY <1>9, <1>11, <1>12, <1>14, <1>15, <1>16, <1>17

\* The enemies that attack the king are the checkers.
LEMMA CheckersAre ==
    ASSUME NEW p, Sound(p), BothKings(p), NEW k, k = KingSquare(p, p.side)
    PROVE  /\ k \in Squares /\ p.board[k] = MakePiece(p.side, "king")
           /\ Checkers(p) = {a \in Squares : /\ Color(p.board[a]) = Opposite(p.side)
                                             /\ Assails(p.board[a], a, k, Manned(p.board))}
           /\ IsFiniteSet(Checkers(p)) /\ Cardinality(Checkers(p)) \in Nat
<1>. DEFINE them == Opposite(p.side)
<1>1. k \in Squares /\ p.board[k] = MakePiece(p.side, "king") /\ p.side \in Colors /\ them \in Colors
  BY KingStands, ManTypes DEF Sound, BothKings
<1>2. Occupied(p) = Manned(p.board) /\ Manned(p.board) \in SUBSET Squares /\ Consistent(p)
  BY RefreshReadsBoard DEF Sound, Manned
<1>. HIDE DEF them
<1>3. AttackersTo(p, k, Manned(p.board)) \cap p.byColor[them] =
        {a \in Squares : Color(p.board[a]) = them /\ Assails(p.board[a], a, k, Manned(p.board))}
  BY <1>1, <1>2, AttackersSeen
<1>4. Checkers(p) = {a \in Squares : Color(p.board[a]) = them /\ Assails(p.board[a], a, k, Manned(p.board))}
  BY <1>2, <1>3 DEF Checkers, them
<1>. QED BY <1>1, <1>4, SquaresFinite DEF them

\* More than one checker are two.
LEMMA TwoCheckers ==
    ASSUME NEW S \in SUBSET Squares, Cardinality(S) > 1
    PROVE  \E a, x \in S : a # x
<1>. SUFFICES ASSUME \A a, x \in S : a = x PROVE FALSE
  OBVIOUS
<1>1. CASE S = {}
  BY <1>1, FS_EmptySet
<1>2. ASSUME NEW a \in S PROVE FALSE
  <2>1. S = {a}
    OBVIOUS
  <2>. QED BY <2>1, FS_Singleton
<1>. QED BY <1>1, <1>2

\* A check stands when another piece moves neither onto the checker nor into its way.
LEMMA CheckStands ==
    ASSUME NEW b, NEW k \in Squares, NEW a \in Squares, Color(b[a]) \in Colors, Assails(b[a], a, k, Manned(b)),
           NEW t \in Squares, t \notin BetweenBB[k][a], NEW S
    PROVE  Assails(b[a], a, k, (Manned(b) \ S) \cup {t})
<1>1. CASE Touches(b[a], a, k)
  BY <1>1 DEF Assails
<1>2. ASSUME NEW d \in SlideDirs(Type(b[a])), NEW n \in 1..7, Sees(k, d, n, a, Manned(b))
      PROVE  Assails(b[a], a, k, (Manned(b) \ S) \cup {t})
  <2>1. d \in Directions /\ At(k, d, n, a)
    BY <1>2, SlideDirsKnown DEF Sees
  <2>2. ~InWay(k, d, n, t)
    BY <2>1, BetweenIs
  <2>3. Sees(k, d, n, a, (Manned(b) \ S) \cup {t})
    BY <1>2, <2>2 DEF Sees
  <2>. QED BY <1>2, <2>3 DEF Assails
<1>. QED BY <1>1, <1>2 DEF Assails

\* No square answers two checks at once.
LEMMA OneAnswer ==
    ASSUME NEW b, NEW k \in Squares, NEW a \in Squares, NEW x \in Squares, a # x,
           Color(b[a]) \in Colors, Color(b[x]) \in Colors,
           Assails(b[a], a, k, Manned(b)), Assails(b[x], x, k, Manned(b)),
           NEW t \in Squares, t = a \/ t \in BetweenBB[k][a], t = x \/ t \in BetweenBB[k][x]
    PROVE  FALSE
<1>. DEFINE OnWay(u) == \E d \in Directions, n \in 1..7 :
                  /\ At(k, d, n, u) /\ (\A w \in Manned(b) : ~InWay(k, d, n, w))
                  /\ BetweenBB[k][u] = {w \in Squares : InWay(k, d, n, w)}
<1>1. ASSUME NEW u \in Squares, Color(b[u]) \in Colors, Assails(b[u], u, k, Manned(b))
      PROVE  BetweenBB[k][u] = {} \/ OnWay(u)
  <2>1. CASE Touches(b[u], u, k)
    <3>1. BetweenBB[k][u] = {}
      <4>. DEFINE c == Color(b[u])
      <4>. QED BY <1>1, <2>1, TouchesNear
    <3>. QED BY <3>1
  <2>2. ASSUME NEW d \in SlideDirs(Type(b[u])), NEW n \in 1..7, Sees(k, d, n, u, Manned(b))
        PROVE  OnWay(u)
    <3>1. d \in Directions /\ At(k, d, n, u)
      BY <2>2, SlideDirsKnown DEF Sees
    <3>2. BetweenBB[k][u] = {w \in Squares : InWay(k, d, n, w)}
      BY <3>1, BetweenIs
    <3>. QED BY <2>2, <3>1, <3>2 DEF Sees
  <2>. QED BY <1>1, <2>1, <2>2 DEF Assails
<1>2. a \in Manned(b) /\ x \in Manned(b)
  BY ColoredIsMan DEF Manned
<1>3. ASSUME NEW u \in Squares, NEW v \in Squares, u # v, OnWay(u), OnWay(v), u \in Manned(b), v \in Manned(b),
             t = u \/ t \in BetweenBB[k][u], t \in BetweenBB[k][v]
      PROVE  FALSE
  <2>1. PICK d \in Directions, n \in 1..7 : /\ At(k, d, n, u) /\ (\A w \in Manned(b) : ~InWay(k, d, n, w))
                                            /\ BetweenBB[k][u] = {w \in Squares : InWay(k, d, n, w)}
    BY <1>3
  <2>2. PICK e \in Directions, m \in 1..7 : /\ At(k, e, m, v) /\ (\A w \in Manned(b) : ~InWay(k, e, m, w))
                                            /\ BetweenBB[k][v] = {w \in Squares : InWay(k, e, m, w)}
    BY <1>3
  <2>3. PICK j \in 1 .. (m - 1) : At(k, e, j, t)
    BY <1>3, <2>2 DEF InWay
  <2>4. j \in 1..7
    OBVIOUS
  <2>5. PICK i \in 1..7 : i <= n /\ At(k, d, i, t)
    <3>1. CASE t = u
      BY <2>1, <3>1
    <3>2. CASE t # u
      <4>1. InWay(k, d, n, t)
        BY <1>3, <2>1, <3>2
      <4>2. PICK i \in 1 .. (n - 1) : At(k, d, i, t)
        BY <4>1 DEF InWay
      <4>3. i \in 1..7 /\ i <= n
        OBVIOUS
      <4>. QED BY <4>2, <4>3
    <3>. QED BY <3>1, <3>2
  <2>6. d = e
    BY <2>3, <2>4, <2>5, OneLine
  <2>7. CASE n < m
    <3>1. n \in 1 .. (m - 1)
      BY <2>7
    <3>2. InWay(k, e, m, u)
      BY <2>1, <2>6, <3>1 DEF InWay
    <3>. QED BY <1>3, <2>2, <3>2
  <2>8. CASE m < n
    <3>1. m \in 1 .. (n - 1)
      BY <2>8
    <3>2. InWay(k, d, n, v)
      BY <2>2, <2>6, <3>1 DEF InWay
    <3>. QED BY <1>3, <2>1, <3>2
  <2>9. CASE m = n
    <3>1. u = v
      BY <2>1, <2>2, <2>6, <2>9, OnePlace
    <3>. QED BY <1>3, <3>1
  <2>. QED BY <2>7, <2>8, <2>9
<1>4. ASSUME BetweenBB[k][a] = {} PROVE FALSE
  <2>1. t = a /\ a \in BetweenBB[k][x]
    BY <1>4
  <2>2. OnWay(x)
    BY <1>1, <2>1
  <2>3. PICK e \in Directions, m \in 1..7 : /\ (\A w \in Manned(b) : ~InWay(k, e, m, w))
                                            /\ BetweenBB[k][x] = {w \in Squares : InWay(k, e, m, w)}
    BY <2>2
  <2>. QED BY <1>2, <2>1, <2>3
<1>5. ASSUME BetweenBB[k][x] = {} PROVE FALSE
  <2>1. t = x /\ x \in BetweenBB[k][a]
    BY <1>5
  <2>2. OnWay(a)
    BY <1>1, <2>1
  <2>3. PICK e \in Directions, m \in 1..7 : /\ (\A w \in Manned(b) : ~InWay(k, e, m, w))
                                            /\ BetweenBB[k][a] = {w \in Squares : InWay(k, e, m, w)}
    BY <2>2
  <2>. QED BY <1>2, <2>1, <2>3
<1>6. OnWay(a) /\ OnWay(x)
  BY <1>1, <1>4, <1>5
<1>. HIDE DEF OnWay
<1>. QED BY <1>2, <1>3, <1>6

\* A piece that leaves the line of its pin, or stays away from the checker before it,
\* exposes its king.
LEMMA PinBinds ==
    ASSUME NEW p, Consistent(p), NEW us \in Colors, NEW k \in Squares, k = KingSquare(p, us),
           NEW f \in BlockersForKing(p, us) \cap p.byColor[us],
           NEW t \in Squares, t \notin LineBB[k][f]
    PROVE  \E a \in Squares : /\ a # t /\ Color(p.board[a]) = Opposite(us)
                              /\ Assails(p.board[a], a, k, (Manned(p.board) \ {f}) \cup {t})
<1>1. PICK d \in Directions, m \in 1..7, i \in 1..7, u \in Squares :
              /\ At(k, d, m, f) /\ i # m /\ u # f
              /\ Color(p.board[u]) = Opposite(us) /\ d \in SlideDirs(Type(p.board[u]))
              /\ Sees(k, d, i, u, Manned(p.board) \ {f})
  BY PinHolds
<1>2. f \in Squares
  BY PiecesStand
<1>3. \A j \in 1..7 : ~At(k, d, j, t)
  BY <1>1, <1>2, OnTheLine
<1>4. u # t /\ ~InWay(k, d, i, t)
  <2>1. At(k, d, i, u)
    BY <1>1 DEF Sees
  <2>2. \A j \in 1 .. (i - 1) : j \in 1..7
    OBVIOUS
  <2>. QED BY <1>3, <2>1, <2>2 DEF InWay
<1>5. Sees(k, d, i, u, (Manned(p.board) \ {f}) \cup {t})
  BY <1>1, <1>4 DEF Sees
<1>. QED BY <1>1, <1>4, <1>5 DEF Assails

\* So a move of another piece than the king that leaves no attack on it answers
\* checks and pins.
LEMMA SafeIsAnswer ==
    ASSUME NEW p, Sound(p), BothKings(p), NEW k, k = KingSquare(p, p.side),
           NEW f \in Squares, Color(p.board[f]) = p.side, f # k,
           NEW t \in Squares, Color(p.board[t]) # p.side,
           \A a \in Squares : a # t /\ Color(p.board[a]) = Opposite(p.side)
                                => ~Assails(p.board[a], a, k, (Manned(p.board) \ {f}) \cup {t})
    PROVE  /\ ~(Cardinality(Checkers(p)) > 1)
           /\ t \in Answers(p, k)
           /\ t \in PinMask(k, BlockersForKing(p, p.side) \cap p.byColor[p.side], f)
<1>. DEFINE b == p.board
            us == p.side
            them == Opposite(us)
<1>1. /\ k \in Squares
      /\ Checkers(p) = {a \in Squares : Color(b[a]) = them /\ Assails(b[a], a, k, Manned(b))}
      /\ us \in Colors /\ them \in Colors /\ Consistent(p)
  BY CheckersAre, ManTypes DEF Sound
<1>2. \A a \in Checkers(p) : t = a \/ t \in BetweenBB[k][a]
  <2>. SUFFICES ASSUME NEW a \in Checkers(p), t # a, t \notin BetweenBB[k][a] PROVE FALSE
    OBVIOUS
  <2>1. a \in Squares /\ Color(b[a]) = them /\ Assails(b[a], a, k, Manned(b))
    BY <1>1
  <2>2. Assails(b[a], a, k, (Manned(b) \ {f}) \cup {t})
    <3>. DEFINE S == {f}
    <3>1. Assails(b[a], a, k, (Manned(b) \ S) \cup {t})
      <4>. HIDE DEF S
      <4>. QED BY <1>1, <2>1, CheckStands
    <3>. QED BY <3>1
  <2>. QED BY <2>1, <2>2
<1>3. ~(Cardinality(Checkers(p)) > 1)
  <2>. SUFFICES ASSUME Cardinality(Checkers(p)) > 1 PROVE FALSE
    OBVIOUS
  <2>1. Checkers(p) \in SUBSET Squares
    BY <1>1
  <2>2. PICK a \in Checkers(p), x \in Checkers(p) : a # x
    BY <2>1, TwoCheckers
  <2>3. /\ a \in Squares /\ Color(b[a]) \in Colors /\ Assails(b[a], a, k, Manned(b))
        /\ x \in Squares /\ Color(b[x]) \in Colors /\ Assails(b[x], x, k, Manned(b))
    BY <1>1
  <2>. QED BY <1>1, <1>2, <2>2, <2>3, OneAnswer
<1>4. t \in Answers(p, k)
  <2>1. CASE Checkers(p) = {}
    <3>1. t \notin p.byColor[us]
      BY <1>1, PiecesStand
    <3>. QED BY <2>1, <3>1 DEF Answers
  <2>2. ASSUME NEW a \in Checkers(p) PROVE t \in Answers(p, k)
    <3>1. Min(Checkers(p)) \in Checkers(p)
      <4>1. Checkers(p) \in SUBSET Nat /\ Checkers(p) # {}
        BY <1>1, <2>2 DEF Squares
      <4>. QED BY <4>1, LeastOf
    <3>2. t = Min(Checkers(p)) \/ t \in BetweenBB[k][Min(Checkers(p))]
      BY <1>2, <3>1
    <3>. QED BY <2>2, <3>1, <3>2 DEF Answers
  <2>. QED BY <2>1, <2>2
<1>5. t \in PinMask(k, BlockersForKing(p, us) \cap p.byColor[us], f)
  <2>1. CASE f \in BlockersForKing(p, us) \cap p.byColor[us]
    <3>1. t \in LineBB[k][f]
      <4>. SUFFICES ASSUME t \notin LineBB[k][f] PROVE FALSE
        OBVIOUS
      <4>. QED BY <1>1, <2>1, PinBinds
    <3>. QED BY <2>1, <3>1 DEF PinMask
  <2>2. CASE f \notin BlockersForKing(p, us) \cap p.byColor[us]
    BY <2>2 DEF PinMask
  <2>. QED BY <2>1, <2>2
<1>. QED BY <1>3, <1>4, <1>5

-----------------------------------------------------------------------------
(***************************************************************************)
(* Every move the laws allow is generated.                                 *)
(***************************************************************************)
\* Moves as the laws have them, with the pieces where they stand: those of king and pieces,
PieceCan(b, us, m) ==
    \E f, t \in Squares : /\ m = Normal(f, t) /\ Color(b[f]) = us /\ Type(b[f]) # "pawn"
                          /\ Color(b[t]) # us /\ Assails(b[f], f, t, Manned(b))

\* where a pawn may go,
PawnGoes(b, us, f, t) ==
    \/ t = f + PawnPush(us) /\ b[t] = NoPiece
    \/ /\ t = f + PawnPush(us) + PawnPush(us) /\ Rank(f) = (IF us = White THEN 1 ELSE 6)
       /\ b[f + PawnPush(us)] = NoPiece /\ b[t] = NoPiece
    \/ t \in PawnAttacks[us][f] /\ Color(b[t]) = Opposite(us)

\* and how,
PawnCan(b, us, m) ==
    \E f, t \in Squares : /\ b[f] = MakePiece(us, "pawn") /\ PawnGoes(b, us, f, t)
                          /\ m \in PawnMove(f, t, IF us = White THEN 7 ELSE 0)

\* en passant,
PassantCan(p, m) ==
    /\ p.epSquare # NoSquare
    /\ \E f \in Squares : /\ m = EnPassant(f, p.epSquare) /\ p.board[f] = MakePiece(p.side, "pawn")
                          /\ p.epSquare \in PawnAttacks[p.side][f]

\* and castling, over free squares, the king's not attacked.
Attacked(b, c, s) == \E a \in Squares : Color(b[a]) = c /\ Assails(b[a], a, s, Manned(b))
CastleCan(p, m) ==
    \E r \in p.castling :
      LET k == KingSquare(p, p.side)
          rook == p.castlingRook[r]
          t == CastlingKingTo(r)
          x == CastlingRookTo(r)
      IN  /\ r[1] = p.side /\ m = Castling(k, rook)
          /\ \A s \in BetweenBB[k][t] \cup BetweenBB[rook][x] \cup {t, x} :
               s \notin {k, rook} => p.board[s] = NoPiece
          /\ \A s \in BetweenBB[k][t] \cup {k, t} : ~Attacked(p.board, Opposite(p.side), s)

\* The move leaves the king of its side unattacked.
LeavesSafe(p, m) == KingSafe(BoardAfter(p.board, p.side, m), p.side)

LEMMA AttackedIs ==
    ASSUME NEW p, Consistent(p), NEW s \in Squares, NEW c \in Colors
    PROVE  IsAttacked(p, s, c) <=> Attacked(p.board, c, s)
<1>1. Occupied(p) = Manned(p.board) /\ Manned(p.board) \in SUBSET Squares
  BY RefreshReadsBoard DEF Manned
<1>2. AttackersTo(p, s, Manned(p.board)) \cap p.byColor[c] =
        {a \in Squares : Color(p.board[a]) = c /\ Assails(p.board[a], a, s, Manned(p.board))}
  BY <1>1, AttackersSeen
<1>. QED BY <1>1, <1>2 DEF IsAttacked, Attacked

\* A piece attacks what it is seen to attack.
LEMMA AssailsAttack ==
    ASSUME NEW b, NEW us \in Colors, NEW pt \in {"knight", "bishop", "rook", "queen"}, NEW f \in Squares,
           b[f] = MakePiece(us, pt), NEW occ \in SUBSET Squares, NEW t \in Squares, Assails(b[f], f, t, occ)
    PROVE  t \in AttacksFrom(pt, us, f, occ)
<1>1. Type(b[f]) = pt /\ Color(b[f]) = us
  BY DEF MakePiece, Type, Color
<1>2. CASE Touches(b[f], f, t)
  <2>1. pt = "knight" /\ f \in KnightAttacks[t]
    BY <1>1, <1>2 DEF Touches
  <2>. QED BY <2>1, KnightAside DEF AttacksFrom
<1>3. ASSUME NEW d \in SlideDirs(pt), NEW n \in 1..7, Sees(t, d, n, f, occ)
      PROVE  t \in AttacksFrom(pt, us, f, occ)
  <2>. DEFINE e == -d
  <2>1. d \in Directions /\ e \in SlideDirs(pt) /\ n \in 0..7
    BY SlideDirsKnown
  <2>2. At(t, d, n, f) /\ (\A u \in occ : ~InWay(t, d, n, u))
    BY <1>3 DEF Sees
  <2>3. At(f, e, n, t) /\ e \in Directions
    BY <2>1, <2>2, Backwards
  <2>4. -e = d
    BY <2>1, DirectionCases
  <2>. HIDE DEF e
  <2>5. \A u \in Squares : InWay(f, e, n, u) => InWay(t, -e, n, u)
    BY <2>1, <2>3, Backwards
  <2>6. Sees(f, e, n, t, occ)
    BY <2>2, <2>3, <2>4, <2>5 DEF Sees
  <2>7. \/ pt \in {"rook", "queen"} /\ t \in RookAttacks(f, occ)
        \/ pt \in {"bishop", "queen"} /\ t \in BishopAttacks(f, occ)
    BY <2>1, <2>6, SlidersSee
  <2>8. pt # "knight"
    BY <2>1 DEF SlideDirs
  <2>. QED BY <2>7, <2>8 DEF AttacksFrom, QueenAttacks
<1>. QED BY <1>1, <1>2, <1>3 DEF Assails

\* Kings and pawns likewise.
LEMMA KingAssails ==
    ASSUME NEW b, NEW us, NEW f \in Squares, NEW t \in Squares, b[f] = MakePiece(us, "king"), NEW occ
    PROVE  Assails(b[f], f, t, occ) <=> t \in KingAttacks[f]
<1>1. Type(b[f]) = "king"
  BY DEF MakePiece, Type
<1>2. SlideDirs("king") = {}
  BY DEF SlideDirs
<1>3. Assails(b[f], f, t, occ) <=> f \in KingAttacks[t]
  BY <1>1, <1>2 DEF Assails, Touches
<1>4. \A d \in Directions : -d \in Directions /\ (At(t, d, 1, f) => At(f, -d, 1, t)) /\ (At(f, d, 1, t) => At(t, -d, 1, f))
  <2>1. 1 \in 0..7
    OBVIOUS
  <2>. QED BY <2>1, Backwards, DirectionCases
<1>. QED BY <1>3, <1>4, KingSteps

LEMMA PawnAssails ==
    ASSUME NEW b, NEW us \in Colors, NEW f \in Squares, NEW t \in Squares, b[f] = MakePiece(us, "pawn"), NEW occ
    PROVE  Assails(b[f], f, t, occ) <=> t \in PawnAttacks[us][f]
<1>1. Type(b[f]) = "pawn" /\ Color(b[f]) = us
  BY DEF MakePiece, Type, Color
<1>2. SlideDirs("pawn") = {}
  BY DEF SlideDirs
<1>3. Assails(b[f], f, t, occ) <=> f \in PawnAttacks[Opposite(us)][t]
  BY <1>1, <1>2 DEF Assails, Touches
<1>4. t \in PawnAttacks[us][f] => Assails(b[f], f, t, occ)
  BY PawnTakes
<1>5. ASSUME f \in PawnAttacks[Opposite(us)][t] PROVE t \in PawnAttacks[us][f]
  <2>. DEFINE them == Opposite(us)
  <2>1. them \in Colors /\ Opposite(them) = us
    BY ManTypes
  <2>2. Assails(MakePiece(them, "pawn"), t, f, occ)
    <3>. HIDE DEF them
    <3>. QED BY <1>5, <2>1, PawnTakes DEF them
  <2>3. Type(MakePiece(them, "pawn")) = "pawn" /\ Color(MakePiece(them, "pawn")) = them
    BY DEF MakePiece, Type, Color
  <2>. QED BY <1>2, <2>1, <2>2, <2>3 DEF Assails, Touches
<1>. QED BY <1>3, <1>4, <1>5

\* The generator, by the kinds of moves.
LEMMA GenerateIs ==
    ASSUME NEW p, NEW k, k = KingSquare(p, p.side), NEW m
    PROVE  LET us == p.side
               occ == Occupied(p)
               pinned == BlockersForKing(p, us) \cap p.byColor[us]
           IN  m \in GenerateLegalMoves(p) <=>
                 \/ m \in KingMoves(p, k, Opposite(us), occ, Squares \ p.byColor[us])
                 \/ /\ ~(Cardinality(Checkers(p)) > 1)
                    /\ \/ Checkers(p) = {} /\ m \in CastlingMoves(p, us, occ)
                       \/ m \in PawnMoves(p, us, Answers(p, k), Answers(p, k), pinned, k, occ)
                       \/ m \in PieceMoves(p, us, Answers(p, k), pinned, k, occ)
  BY DEF GenerateLegalMoves, Generate, Answers

\* A move of another piece that leaves the king safe answers checks and pins.
LEMMA SafeMoveAnswers ==
    ASSUME NEW p, Sound(p), BothKings(p), NEW k, k = KingSquare(p, p.side),
           NEW m, Playable(p.board, p.side, m), m.kind \in {"normal", "promotion"}, m.from # k,
           Color(p.board[m.to]) # p.side, LeavesSafe(p, m)
    PROVE  /\ ~(Cardinality(Checkers(p)) > 1)
           /\ m.to \in Answers(p, k)
           /\ m.to \in PinMask(k, BlockersForKing(p, p.side) \cap p.byColor[p.side], m.from)
<1>. DEFINE us == p.side
            them == Opposite(us)
            b == p.board
            d == BoardAfter(b, us, m)
            f == m.from
            t == m.to
<1>1. us \in Colors /\ them \in Colors /\ them # us /\ b \in Boards /\ k \in Squares /\ b[k] = MakePiece(us, "king")
  BY CheckersAre, ManTypes DEF Sound, Consistent
<1>2. f \in Squares /\ t \in Squares /\ Color(b[f]) = us /\ t # k
  <2>1. Color(b[k]) = us
    BY <1>1, PieceFacts DEF PieceTypes
  <2>. QED BY <2>1 DEF Playable
<1>3. /\ \A s \in Squares \ {f, t} : d[s] = b[s]
      /\ Manned(d) = (Manned(b) \ {f}) \cup {t}
  BY <1>1, PlainMove
<1>4. KingSafe(d, us)
  BY DEF LeavesSafe
<1>. HIDE DEF d, f, t
<1>5. ASSUME NEW a \in Squares, a # t, Color(b[a]) = them
      PROVE  ~Assails(b[a], a, k, (Manned(b) \ {f}) \cup {t})
  <2>1. d[k] = MakePiece(us, "king") /\ a # f /\ d[a] = b[a]
    BY <1>1, <1>2, <1>3, <1>5 DEF f
  <2>. QED BY <1>1, <1>3, <1>4, <1>5, <2>1 DEF KingSafe
<1>6. Color(b[t]) # us /\ f # k
  BY DEF f, t
<1>. HIDE DEF b, us, them
<1>. QED BY <1>1, <1>2, <1>5, <1>6, SafeIsAnswer DEF b, us, them, f, t

\* A normal move of a piece fits the pieces.
LEMMA PieceCanPlay ==
    ASSUME NEW b \in Boards, NEW us \in Colors, NEW f \in Squares, NEW t \in Squares,
           Color(b[f]) = us, Type(b[f]) # "pawn", Color(b[t]) # us
    PROVE  Playable(b, us, Normal(f, t)) /\ b[f] = MakePiece(us, Type(b[f]))
           /\ Type(b[f]) \in PieceTypes \ {"pawn"}
<1>1. b[f] \in Pieces
  BY PieceFacts DEF Boards
<1>. QED BY <1>1, PieceFacts DEF Playable, Normal

\* No square is on a line with itself,
LEMMA NoSelfAttack ==
    ASSUME NEW pc, Color(pc) \in Colors, NEW t \in Squares, NEW occ
    PROVE  ~Assails(pc, t, t, occ)
<1>1. ~Touches(pc, t, t)
  <2>1. Opposite(Color(pc)) \in Colors
    BY ManTypes
  <2>2. t \notin KnightAttacks[t]
    <3>1. File(t) \in 0..7 /\ Rank(t) \in 0..7
      BY Coordinates
    <3>2. \A x \in 0..7 : x - x \notin {-2, -1, 1, 2}
      OBVIOUS
    <3>. QED BY <3>1, <3>2, KnightSteps
  <2>. QED BY <2>1, <2>2, PawnAttacksLand, KingAttacksLand DEF Touches
<1>2. ASSUME NEW d \in SlideDirs(Type(pc)), NEW n \in 1..7, Sees(t, d, n, t, occ) PROVE FALSE
  <2>1. d \in Directions /\ At(t, d, n, t)
    BY <1>2, SlideDirsKnown DEF Sees
  <2>2. \E dx, dy \in {-1, 0, 1} : dx = DX(d) /\ dy = DY(d) /\ ~(dx = 0 /\ dy = 0)
    BY <2>1, DirectionCases
  <2>3. PICK dx \in {-1, 0, 1}, dy \in {-1, 0, 1} : dx = DX(d) /\ dy = DY(d) /\ ~(dx = 0 /\ dy = 0)
    BY <2>2
  <2>4. File(t) = File(t) + n * dx /\ Rank(t) = Rank(t) + n * dy /\ File(t) \in Int /\ Rank(t) \in Int
    <3>1. File(t) \in 0..7 /\ Rank(t) \in 0..7
      BY Coordinates
    <3>2. File(t) = File(t) + n * DX(d) /\ Rank(t) = Rank(t) + n * DY(d)
      BY <2>1 DEF At
    <3>3. n * DX(d) = n * dx /\ n * DY(d) = n * dy
      BY <2>3
    <3>4. File(t) = File(t) + n * dx /\ Rank(t) = Rank(t) + n * dy
      BY <3>2, <3>3, Zenon
    <3>5. File(t) \in Int /\ Rank(t) \in Int
      BY <3>1
    <3>. QED BY <3>4, <3>5, Zenon
  <2>. DEFINE x == File(t)
              y == Rank(t)
  <2>. HIDE DEF x, y
  <2>5. x = x + n * dx /\ y = y + n * dy /\ x \in Int /\ y \in Int
    BY <2>4 DEF x, y
  <2>6. dx = 0
    BY <2>5
  <2>7. dy = 0
    BY <2>5
  <2>. QED BY <2>3, <2>6, <2>7
<1>. QED BY <1>1, <1>2 DEF Assails

\* nor does the square that is attacked hide the attacker.
LEMMA EndNotInWay ==
    ASSUME NEW pc, NEW a \in Squares, NEW t \in Squares, NEW occ, Assails(pc, a, t, occ)
    PROVE  Assails(pc, a, t, occ \cup {t})
<1>1. ASSUME NEW d \in SlideDirs(Type(pc)), NEW n \in 1..7, Sees(t, d, n, a, occ)
      PROVE  Sees(t, d, n, a, occ \cup {t})
  <2>1. d \in Directions /\ At(t, d, n, a)
    BY <1>1, SlideDirsKnown DEF Sees
  <2>2. ~InWay(t, d, n, t)
    BY <2>1, WayOnBoard
  <2>. QED BY <1>1, <2>2 DEF Sees
<1>. QED BY <1>1 DEF Assails

\* Moves of the pieces that leave the king safe are generated,
LEMMA PiecesFound ==
    ASSUME NEW p, Sound(p), BothKings(p), NEW m, PieceCan(p.board, p.side, m), LeavesSafe(p, m)
    PROVE  m \in GenerateLegalMoves(p)
<1>. DEFINE us == p.side
            them == Opposite(us)
            b == p.board
            k == KingSquare(p, us)
            occ == Occupied(p)
            d == BoardAfter(b, us, m)
            pinned == BlockersForKing(p, us) \cap p.byColor[us]
<1>1. /\ us \in Colors /\ them \in Colors /\ them # us /\ b \in Boards /\ Consistent(p)
      /\ k \in Squares /\ b[k] = MakePiece(us, "king") /\ occ = Manned(b) /\ occ \in SUBSET Squares
  BY CheckersAre, ManTypes, RefreshReadsBoard DEF Sound, Consistent, Manned
<1>2. PICK f \in Squares, t \in Squares : /\ m = Normal(f, t) /\ Color(b[f]) = us /\ Type(b[f]) # "pawn"
                                          /\ Color(b[t]) # us /\ Assails(b[f], f, t, Manned(b))
  BY DEF PieceCan
<1>3. Playable(b, us, m) /\ b[f] = MakePiece(us, Type(b[f])) /\ Type(b[f]) \in PieceTypes \ {"pawn"}
  BY <1>1, <1>2, PieceCanPlay
<1>4. m.kind = "normal" /\ m.from = f /\ m.to = t
  BY <1>2 DEF Normal
<1>5. f # k => /\ ~(Cardinality(Checkers(p)) > 1) /\ t \in Answers(p, k) /\ t \in PinMask(k, pinned, f)
  BY <1>2, <1>3, <1>4, SafeMoveAnswers
<1>. HIDE DEF k, b, us, them, occ, d, pinned
<1>6. CASE f = k
  <2>1. t \in KingAttacks[k]
    BY <1>1, <1>2, <1>6, KingAssails
  <2>2. t \in Squares \ p.byColor[us]
    BY <1>1, <1>2, PiecesStand DEF b
  <2>3. KingSafe(d, us) /\ Manned(d) = (occ \ {k}) \cup {t} /\ d[t] = MakePiece(us, "king")
        /\ \A s \in Squares \ {k, t} : d[s] = b[s]
    <3>1. d = [b EXCEPT ![k] = NoPiece, ![t] = b[k]]
      BY <1>4, <1>6 DEF d, BoardAfter
    <3>2. d[t] = b[k]
      BY <1>1, <3>1 DEF Boards
    <3>. QED BY <1>1, <1>3, <1>4, <1>6, <3>2, PlainMove DEF d, LeavesSafe, b, us
  <2>4. AttackersTo(p, t, occ \ {k}) \cap p.byColor[them] = {}
    <3>. DEFINE less == occ \ {k}
    <3>1. less \in SUBSET Squares
      BY <1>1
    <3>. HIDE DEF less
    <3>2. AttackersTo(p, t, less) \cap p.byColor[them] =
            {a \in Squares : Color(b[a]) = them /\ Assails(b[a], a, t, less)}
      BY <1>1, <3>1, AttackersSeen DEF b
    <3>3. ASSUME NEW a \in Squares, Color(b[a]) = them, Assails(b[a], a, t, less) PROVE FALSE
      <4>1. a # t
        <5>1. ~Assails(b[a], t, t, less)
          BY <1>1, <3>3, NoSelfAttack
        <5>. QED BY <3>3, <5>1
      <4>2. a # k
        <5>1. Color(b[k]) = us
          BY <1>1, PieceFacts DEF PieceTypes
        <5>. QED BY <1>1, <3>3, <5>1
      <4>3. d[a] = b[a]
        BY <2>3, <4>1, <4>2
      <4>4. Assails(b[a], a, t, less \cup {t})
        BY <3>3, EndNotInWay
      <4>5. ~Assails(d[a], a, t, Manned(d))
        BY <2>3, <3>3, <4>3 DEF KingSafe, them
      <4>. QED BY <2>3, <4>3, <4>4, <4>5 DEF less
    <3>. QED BY <3>2, <3>3 DEF less
  <2>5. m \in KingMoves(p, k, them, occ, Squares \ p.byColor[us])
    BY <1>2, <1>6, <2>1, <2>2, <2>4 DEF KingMoves
  <2>. QED BY <2>5, GenerateIs DEF k, us, them, occ
<1>7. CASE f # k
  <2>. DEFINE pt == Type(b[f])
  <2>1. pt \in {"knight", "bishop", "rook", "queen"}
    <3>1. pt # "king"
      <4>1. Consistent(p) /\ KingsOnce(p)
        BY DEF Sound
      <4>. QED BY <1>1, <1>3, <1>7, <4>1, KingFound DEF k, b
    <3>. QED BY <1>3, <3>1 DEF PieceTypes
  <2>2. b[f] = MakePiece(us, pt)
    BY <1>3
  <2>. HIDE DEF pt
  <2>3. t \in AttacksFrom(pt, us, f, occ)
    BY <1>1, <1>2, <2>1, <2>2, AssailsAttack
  <2>4. f \in PiecesOf(p, us, pt)
    BY <1>1, <2>1, <2>2, PiecesStand DEF PieceTypes, b
  <2>5. m \in PieceMoves(p, us, Answers(p, k), pinned, k, occ)
    <3>1. t \in AttacksFrom(pt, us, f, occ) \cap Answers(p, k) \cap PinMask(k, pinned, f)
      BY <1>5, <1>7, <2>3
    <3>. QED BY <1>2, <2>1, <2>4, <3>1 DEF PieceMoves
  <2>. QED BY <1>5, <1>7, <2>5, GenerateIs DEF k, us, occ, pinned
<1>. QED BY <1>6, <1>7

\* What is a pawn move.
LEMMA PawnMovesHave ==
    ASSUME NEW p, NEW us, NEW targets, NEW quiet, NEW pinned, NEW k, NEW occ,
           NEW from \in PiecesOf(p, us, "pawn"), NEW m,
           \/ \E to \in PinMask(k, pinned, from)
                          \cap (Pushes(from, us, quiet, occ)
                                  \cup (PawnAttacks[us][from] \cap p.byColor[Opposite(us)] \cap targets)) :
                  m \in PawnMove(from, to, IF us = White THEN 7 ELSE 0)
           \/ /\ m = EnPassant(from, p.epSquare) /\ p.epSquare # NoSquare
              /\ p.epSquare \in PawnAttacks[us][from]
              /\ EnPassantLegal(p, from, p.epSquare, us, k, occ)
    PROVE  m \in PawnMoves(p, us, targets, quiet, pinned, k, occ)
<1>. DEFINE pawns == PiecesOf(p, us, "pawn")
            promoRank == IF us = White THEN 7 ELSE 0
            Ts(x) == PinMask(k, pinned, x)
                          \cap (Pushes(x, us, quiet, occ)
                                  \cup (PawnAttacks[us][x] \cap p.byColor[Opposite(us)] \cap targets))
            Takes(x) == /\ p.epSquare # NoSquare
                        /\ p.epSquare \in PawnAttacks[us][x]
                        /\ EnPassantLegal(p, x, p.epSquare, us, k, occ)
            F(x) == UNION {PawnMove(x, to, promoRank) : to \in Ts(x)}
<1>1. PawnMoves(p, us, targets, quiet, pinned, k, occ) =
        (UNION {F(x) : x \in pawns}) \cup {EnPassant(x, p.epSquare) : x \in {s \in pawns : Takes(s)}}
  BY DEF PawnMoves
<1>2. CASE \E to \in Ts(from) : m \in PawnMove(from, to, promoRank)
  <2>1. m \in F(from)
    BY <1>2
  <2>. QED BY <1>1, <2>1
<1>3. CASE m = EnPassant(from, p.epSquare) /\ Takes(from)
  BY <1>1, <1>3
<1>. QED BY <1>2, <1>3

\* The squares a pawn goes to.
LEMMA PawnGoesSomewhere ==
    ASSUME NEW b \in Boards, NEW us \in Colors, NEW f \in Squares, NEW t \in Squares, b[f] = MakePiece(us, "pawn"),
           PawnGoes(b, us, f, t), NEW m \in PawnMove(f, t, IF us = White THEN 7 ELSE 0)
    PROVE  /\ m.kind \in {"normal", "promotion"} /\ m.from = f /\ m.to = t
           /\ Playable(b, us, m) /\ Color(b[t]) # us
           /\ \A quiet : t \in quiet => \/ t \in Pushes(f, us, quiet, Manned(b))
                                        \/ t \in PawnAttacks[us][f] /\ Color(b[t]) = Opposite(us)
<1>1. /\ m.from = f /\ m.to = t
      /\ m.kind = "normal" \/ (m.kind = "promotion" /\ m.promotion \in PromotionTypes)
  BY DEF PawnMove, Normal, Promotion, PromotionTypes
<1>2. PawnPush(us) \in {8, -8} /\ f \in Int /\ t \in Int
  BY DEF PawnPush, North, South, Squares
<1>3. Color(b[t]) # us
  <2>1. Color(NoPiece) # us
    BY DEF Color, NoPiece, Colors, White, Black
  <2>. QED BY <2>1, ManTypes DEF PawnGoes
<1>4. f # t /\ (Abs(t - f) = 16 => t = f + 2 * PawnPush(us))
  <2>1. CASE t = f + PawnPush(us) \/ t = f + PawnPush(us) + PawnPush(us)
    BY <1>2, <2>1 DEF Abs
  <2>2. CASE t \in PawnAttacks[us][f]
    BY <2>2, PawnAttacksLand
  <2>. QED BY <2>1, <2>2 DEF PawnGoes
<1>5. b[f] \in Pieces /\ Color(b[f]) = us
  BY ManTypes, PieceFacts DEF PieceTypes
<1>6. Playable(b, us, m)
  BY <1>1, <1>4, <1>5 DEF Playable
<1>7. ASSUME NEW quiet, t \in quiet, ~(t \in PawnAttacks[us][f] /\ Color(b[t]) = Opposite(us))
      PROVE  t \in Pushes(f, us, quiet, Manned(b))
  <2>1. CASE t = f + PawnPush(us) /\ b[t] = NoPiece
    BY <1>7, <2>1 DEF Pushes, Manned
  <2>2. CASE /\ t = f + PawnPush(us) + PawnPush(us) /\ Rank(f) = (IF us = White THEN 1 ELSE 6)
             /\ b[f + PawnPush(us)] = NoPiece /\ b[t] = NoPiece
    BY <1>7, <2>2 DEF Pushes, Manned
  <2>. QED BY <1>7, <2>1, <2>2 DEF PawnGoes
<1>. QED BY <1>1, <1>3, <1>6, <1>7

\* those of pawns,
LEMMA PawnsFound ==
    ASSUME NEW p, Sound(p), BothKings(p), NEW m, PawnCan(p.board, p.side, m), LeavesSafe(p, m)
    PROVE  m \in GenerateLegalMoves(p)
<1>. DEFINE us == p.side
            b == p.board
            k == KingSquare(p, us)
            occ == Occupied(p)
            pinned == BlockersForKing(p, us) \cap p.byColor[us]
            promoRank == IF us = White THEN 7 ELSE 0
<1>1. /\ us \in Colors /\ Opposite(us) \in Colors /\ b \in Boards /\ Consistent(p)
      /\ k \in Squares /\ b[k] = MakePiece(us, "king") /\ occ = Manned(b)
  BY CheckersAre, ManTypes, RefreshReadsBoard DEF Sound, Consistent
<1>2. PICK f \in Squares, t \in Squares : /\ b[f] = MakePiece(us, "pawn") /\ PawnGoes(b, us, f, t)
                                          /\ m \in PawnMove(f, t, promoRank)
  BY DEF PawnCan
<1>3. /\ m.kind \in {"normal", "promotion"} /\ m.from = f /\ m.to = t
      /\ Playable(b, us, m) /\ Color(b[t]) # us
      /\ \A quiet : t \in quiet => \/ t \in Pushes(f, us, quiet, Manned(b))
                                   \/ t \in PawnAttacks[us][f] /\ Color(b[t]) = Opposite(us)
  BY <1>1, <1>2, PawnGoesSomewhere
<1>4. f # k
  BY <1>1, <1>2 DEF MakePiece
<1>5. ~(Cardinality(Checkers(p)) > 1) /\ t \in Answers(p, k) /\ t \in PinMask(k, pinned, f)
  BY <1>3, <1>4, SafeMoveAnswers
<1>. HIDE DEF us, b, k, occ, pinned
<1>6. f \in PiecesOf(p, us, "pawn")
  BY <1>1, <1>2, PiecesStand DEF PieceTypes, b
<1>7. t \in p.byColor[Opposite(us)] <=> Color(b[t]) = Opposite(us)
  BY <1>1, PiecesStand DEF b
<1>. DEFINE A == Answers(p, k)
<1>8. t \in PinMask(k, pinned, f) \cap (Pushes(f, us, A, occ) \cup (PawnAttacks[us][f] \cap p.byColor[Opposite(us)] \cap A))
  BY <1>1, <1>3, <1>5, <1>7
<1>9. m \in PawnMoves(p, us, A, A, pinned, k, occ)
  <2>. HIDE DEF A
  <2>. QED BY <1>2, <1>6, <1>8, PawnMovesHave
<1>. QED BY <1>5, <1>9, GenerateIs DEF k, us, occ, pinned

\* The square behind a pawn that gives check is on no line with the king.
LEMMA BehindChecker ==
    ASSUME NEW us \in Colors, NEW k \in Squares, NEW cap \in Squares, NEW ep \in Squares, cap = ep - PawnPush(us),
           cap \in PawnAttacks[us][k]
    PROVE  \A d \in Directions, n \in 1..7 : ~At(k, d, n, ep)
<1>1. PICK e \in {PawnPush(us) + East, PawnPush(us) + West} : At(k, e, 1, cap)
  BY PawnSteps
<1>2. DX(e) \in {1, -1} /\ DY(e) = (IF us = White THEN 1 ELSE -1) /\ e \in Int
  BY DEF PawnPush, North, South, East, West, DX, DY, Colors, White, Black
<1>3. /\ File(k) \in 0..7 /\ Rank(k) \in 0..7 /\ File(cap) \in 0..7 /\ Rank(cap) \in 0..7
      /\ File(ep) \in 0..7 /\ Rank(ep) \in 0..7
      /\ cap = 8 * Rank(cap) + File(cap) /\ ep = 8 * Rank(ep) + File(ep)
  BY Coordinates
<1>4. File(cap) = File(k) + DX(e) /\ Rank(cap) = Rank(k) + DY(e)
  BY <1>1, <1>2 DEF At
<1>5. File(ep) = File(cap) /\ Rank(ep) = Rank(cap) + DY(e)
  <2>1. PawnPush(us) = 8 * DY(e)
    BY <1>2 DEF PawnPush, North, South
  <2>2. DY(e) \in {1, -1}
    BY <1>2
  <2>. HIDE DEF DY
  <2>. QED BY <1>3, <2>1, <2>2
<1>. SUFFICES ASSUME NEW d \in Directions, NEW n \in 1..7, At(k, d, n, ep) PROVE FALSE
  OBVIOUS
<1>6. PICK dx \in {-1, 0, 1}, dy \in {-1, 0, 1} : dx = DX(d) /\ dy = DY(d)
  BY DirectionCases
<1>7. File(ep) = File(k) + n * dx /\ Rank(ep) = Rank(k) + n * dy
  BY <1>6 DEF At
<1>8. PICK ex \in {1, -1}, ey \in {1, -1} : ex = DX(e) /\ ey = DY(e)
  BY <1>2
<1>. DEFINE x == File(k)
            y == Rank(k)
<1>9. x + ex = x + n * dx /\ y + ey + ey = y + n * dy /\ x \in Int /\ y \in Int
  <2>1. File(k) + DX(e) = File(k) + n * dx /\ Rank(k) + DY(e) + DY(e) = Rank(k) + n * dy
    BY <1>4, <1>5, <1>7, Zenon
  <2>2. File(k) \in Int /\ Rank(k) \in Int
    <3>1. File(k) \in 0..7 /\ Rank(k) \in 0..7
      BY Coordinates
    <3>. QED BY <3>1
  <2>. QED BY <1>8, <2>1, <2>2, Zenon
<1>. HIDE DEF x, y
<1>10. n = 1
  BY <1>9
<1>. QED BY <1>9, <1>10

\* and en passant,
LEMMA PassantFound ==
    ASSUME NEW p, Sound(p), BothKings(p), NEW m, PassantCan(p, m), LeavesSafe(p, m)
    PROVE  m \in GenerateLegalMoves(p)
<1>. DEFINE us == p.side
            them == Opposite(us)
            b == p.board
            d == BoardAfter(b, us, m)
            k == KingSquare(p, us)
            occ == Manned(b)
            to == p.epSquare
            cap == to - PawnPush(us)
            pinned == BlockersForKing(p, us) \cap p.byColor[us]
<1>1. /\ us \in Colors /\ them \in Colors /\ them # us /\ b \in Boards /\ Consistent(p) /\ Occupied(p) = occ
      /\ k \in Squares /\ b[k] = MakePiece(us, "king")
      /\ Checkers(p) = {a \in Squares : Color(b[a]) = them /\ Assails(b[a], a, k, occ)}
  BY CheckersAre, ManTypes, RefreshReadsBoard DEF Sound, Consistent
<1>2. PICK f \in Squares : /\ m = EnPassant(f, to) /\ b[f] = MakePiece(us, "pawn") /\ to \in PawnAttacks[us][f]
                           /\ to # NoSquare
  BY DEF PassantCan
<1>3. to \in Squares /\ cap \in Squares /\ b[to] = NoPiece /\ b[cap] = MakePiece(them, "pawn")
  BY <1>2 DEF Sound, TargetSound
<1>4. m.kind = "enPassant" /\ m.from = f /\ m.to = to /\ f # to /\ cap # to /\ cap # f
  <2>1. MakePiece(us, "pawn") # NoPiece /\ MakePiece(them, "pawn") # NoPiece /\ MakePiece(us, "pawn") # MakePiece(them, "pawn")
    BY <1>1 DEF MakePiece, NoPiece
  <2>. QED BY <1>2, <1>3, <2>1 DEF EnPassant
<1>5. d = [b EXCEPT ![cap] = NoPiece, ![f] = NoPiece, ![to] = b[f]]
  BY <1>4 DEF BoardAfter
<1>6. KingSafe(d, us)
  BY DEF LeavesSafe
<1>. HIDE DEF us, them, b, d, k, to, cap, pinned
<1>7. \A s \in Squares : d[s] = IF s = to THEN b[f] ELSE IF s \in {f, cap} THEN NoPiece ELSE b[s]
  BY <1>1, <1>2, <1>3, <1>4, <1>5 DEF Boards
<1>. DEFINE after == (occ \ {f, cap}) \cup {to}
<1>8. Manned(d) = after /\ after \in SUBSET Squares
  <2>1. MakePiece(us, "pawn") # NoPiece
    BY DEF MakePiece, NoPiece
  <2>. QED BY <1>2, <1>3, <1>4, <1>7, <2>1 DEF Manned
<1>9. d[k] = MakePiece(us, "king")
  <2>1. k # f /\ k # cap /\ k # to
    BY <1>1, <1>2, <1>3 DEF MakePiece, NoPiece
  <2>. QED BY <1>1, <1>7, <2>1
<1>10. ASSUME NEW a \in Squares, Color(b[a]) = them, a # cap
       PROVE  ~Assails(b[a], a, k, after)
  <2>1. Color(b[f]) = us /\ Color(b[to]) # them
    <3>1. Color(NoPiece) # them
      BY <1>1 DEF Color, NoPiece, Colors, White, Black
    <3>. QED BY <1>1, <1>2, <1>3, <3>1, PieceFacts DEF PieceTypes
  <2>2. d[a] = b[a]
    BY <1>1, <1>7, <1>10, <2>1
  <2>. QED BY <1>1, <1>6, <1>8, <1>9, <1>10, <2>2 DEF KingSafe, them
<1>. HIDE DEF after
<1>11. EnPassantLegal(p, f, to, us, k, occ)
  <2>. DEFINE theirs(pts) == p.byColor[them] \cap UNION {p.byType[pt] : pt \in pts}
  <2>1. \A pt \in PieceTypes : \A a \in p.byColor[them] \cap p.byType[pt] :
          a \in Squares /\ Color(b[a]) = them /\ Type(b[a]) = pt
    BY <1>1 DEF Consistent, TypesOf, ColorsOf, b
  <2>2. {"rook", "queen", "bishop", "knight", "pawn"} \in SUBSET PieceTypes
    BY DEF PieceTypes
  <2>3. b[cap] = MakePiece(them, "pawn") /\ Type(b[cap]) = "pawn"
    BY <1>3 DEF Type, MakePiece
  <2>4. RookAttacks(k, after) \cap theirs({"rook", "queen"}) = {}
    <3>. SUFFICES ASSUME NEW a \in RookAttacks(k, after), a \in theirs({"rook", "queen"}) PROVE FALSE
      OBVIOUS
    <3>1. a \in Squares /\ Color(b[a]) = them /\ Type(b[a]) \in {"rook", "queen"}
      BY <2>1, <2>2
    <3>2. \E e \in SlideDirs(Type(b[a])), n \in 1..7 : Sees(k, e, n, a, after)
      BY <1>1, <1>8, <3>1, SlidersSee
    <3>. QED BY <1>10, <2>3, <3>1, <3>2 DEF Assails
  <2>5. BishopAttacks(k, after) \cap theirs({"bishop", "queen"}) = {}
    <3>. SUFFICES ASSUME NEW a \in BishopAttacks(k, after), a \in theirs({"bishop", "queen"}) PROVE FALSE
      OBVIOUS
    <3>1. a \in Squares /\ Color(b[a]) = them /\ Type(b[a]) \in {"bishop", "queen"}
      BY <2>1, <2>2
    <3>2. \E e \in SlideDirs(Type(b[a])), n \in 1..7 : Sees(k, e, n, a, after)
      BY <1>1, <1>8, <3>1, SlidersSee
    <3>. QED BY <1>10, <2>3, <3>1, <3>2 DEF Assails
  <2>6. KnightAttacks[k] \cap theirs({"knight"}) = {}
    <3>. SUFFICES ASSUME NEW a \in KnightAttacks[k], a \in theirs({"knight"}) PROVE FALSE
      OBVIOUS
    <3>1. a \in Squares /\ Color(b[a]) = them /\ Type(b[a]) = "knight"
      BY <2>1, <2>2
    <3>2. Touches(b[a], a, k)
      BY <3>1 DEF Touches
    <3>. QED BY <1>10, <2>3, <3>1, <3>2 DEF Assails
  <2>7. PawnAttacks[us][k] \cap (theirs({"pawn"}) \ {cap}) = {}
    <3>. SUFFICES ASSUME NEW a \in PawnAttacks[us][k], a \in theirs({"pawn"}), a # cap PROVE FALSE
      OBVIOUS
    <3>1. a \in Squares /\ Color(b[a]) = them /\ Type(b[a]) = "pawn"
      BY <2>1, <2>2
    <3>2. Opposite(them) = us
      BY <1>1, ManTypes DEF them
    <3>3. Touches(b[a], a, k)
      BY <3>1, <3>2 DEF Touches
    <3>. QED BY <1>10, <3>1, <3>3 DEF Assails
  <2>. QED BY <2>4, <2>5, <2>6, <2>7 DEF EnPassantLegal, after, cap, them
<1>12. ~(Cardinality(Checkers(p)) > 1)
  <2>. SUFFICES ASSUME Cardinality(Checkers(p)) > 1 PROVE FALSE
    OBVIOUS
  <2>1. Checkers(p) \in SUBSET Squares
    BY <1>1
  <2>2. PICK a \in Checkers(p), x \in Checkers(p) : a # x
    BY <2>1, TwoCheckers
  <2>3. ASSUME NEW u \in Checkers(p), u # cap
        PROVE  to \in BetweenBB[k][u]
    <3>1. u \in Squares /\ Color(b[u]) = them /\ Assails(b[u], u, k, occ)
      BY <1>1, <2>3
    <3>. SUFFICES ASSUME to \notin BetweenBB[k][u] PROVE FALSE
      OBVIOUS
    <3>. DEFINE S == {f, cap}
    <3>2. Assails(b[u], u, k, (occ \ S) \cup {to})
      <4>. HIDE DEF S
      <4>. QED BY <1>1, <1>3, <3>1, CheckStands
    <3>. QED BY <1>10, <2>3, <3>1, <3>2 DEF after
  <2>4. \A u \in Checkers(p) : u \in Squares /\ Color(b[u]) \in Colors /\ Assails(b[u], u, k, occ)
    BY <1>1
  <2>5. CASE a # cap /\ x # cap
    BY <1>1, <1>3, <2>2, <2>3, <2>4, <2>5, OneAnswer
  <2>6. ASSUME NEW u \in Checkers(p), u # cap, cap \in Checkers(p) PROVE FALSE
    <3>1. cap \in PawnAttacks[us][k]
      <4>1. Type(b[cap]) = "pawn" /\ Color(b[cap]) = them /\ Assails(b[cap], cap, k, occ)
        BY <1>1, <1>3, <2>6 DEF MakePiece, Type
      <4>2. SlideDirs("pawn") = {}
        BY DEF SlideDirs
      <4>3. Opposite(them) = us
        BY <1>1, ManTypes DEF them
      <4>. QED BY <4>1, <4>2, <4>3 DEF Assails, Touches
    <3>2. \A e \in Directions, n \in 1..7 : ~At(k, e, n, to)
      BY <1>1, <1>3, <3>1, BehindChecker DEF cap
    <3>3. to \in BetweenBB[k][u] /\ u \in Squares
      BY <2>3, <2>4, <2>6
    <3>4. PICK e \in Directions, n \in 1..7 : At(k, e, n, u)
      <4>. SUFFICES ASSUME \A e \in Directions, n \in 1..7 : ~At(k, e, n, u) PROVE FALSE
        OBVIOUS
      <4>. QED BY <1>1, <3>3, BetweenNone
    <3>5. InWay(k, e, n, to)
      BY <1>1, <3>3, <3>4, BetweenIs
    <3>6. PICK i \in 1 .. (n - 1) : At(k, e, i, to)
      BY <3>5 DEF InWay
    <3>7. i \in 1..7
      OBVIOUS
    <3>. QED BY <3>2, <3>6, <3>7
  <2>. QED BY <2>2, <2>5, <2>6
<1>13. f \in PiecesOf(p, us, "pawn")
  BY <1>1, <1>2, PiecesStand DEF PieceTypes, b
<1>14. m \in PawnMoves(p, us, Answers(p, k), Answers(p, k), pinned, k, occ)
  BY <1>2, <1>11, <1>13, PawnMovesHave DEF to
<1>. QED BY <1>1, <1>12, <1>14, GenerateIs DEF k, us, pinned

\* A piece that sees the king's goal over the rook's square and the rook's goal sees
\* the king, or stands in its way.
LEMMA RookShields ==
    ASSUME NEW r \in Rights, NEW k \in Squares, NEW rook \in Squares,
           Rank(k) = HomeRank(r[1]), Rank(rook) = HomeRank(r[1]), rook # k, rook > k <=> r[2] = "king",
           NEW e \in Directions, NEW n \in 1..7, NEW a \in Squares,
           At(CastlingKingTo(r), e, n, a), InWay(CastlingKingTo(r), e, n, rook),
           InWay(CastlingKingTo(r), e, n, CastlingRookTo(r))
    PROVE  k = a \/ InWay(CastlingKingTo(r), e, n, k) \/ a \in BetweenBB[k][CastlingKingTo(r)]
<1>. DEFINE t == CastlingKingTo(r)
            x == CastlingRookTo(r)
            h == HomeRank(r[1])
<1>1. /\ t \in Squares /\ x \in Squares /\ Rank(t) = h /\ Rank(x) = h
      /\ r[2] = "king" => File(t) = 6 /\ File(x) = 5
      /\ r[2] = "queen" => File(t) = 2 /\ File(x) = 3
      /\ r[2] \in {"king", "queen"}
  BY CastlingPlaces
<1>2. h \in {0, 7}
  BY DEF HomeRank
<1>3. DY(e) = 0
  <2>. SUFFICES ASSUME DY(e) # 0 PROVE FALSE
    OBVIOUS
  <2>. QED BY <1>1, RankLeft
<1>4. e \in {1, -1} /\ DX(1) = 1 /\ DX(-1) = -1 /\ DY(1) = 0 /\ DY(-1) = 0
  BY <1>3, DirectionSets DEF DX, DY
<1>. HIDE DEF t, x, h
<1>5. PICK i \in 1 .. (n - 1) : At(t, e, i, rook)
  BY DEF InWay, t
<1>6. PICK j \in 1 .. (n - 1) : At(t, e, j, x)
  BY DEF InWay, t, x
<1>7. /\ File(a) \in 0..7 /\ File(k) \in 0..7 /\ File(rook) \in 0..7 /\ File(t) \in 0..7
      /\ Rank(a) \in 0..7
      /\ a = 8 * Rank(a) + File(a) /\ k = 8 * Rank(k) + File(k) /\ rook = 8 * Rank(rook) + File(rook)
  BY <1>1, Coordinates
<1>8. /\ File(a) = File(t) + n * DX(e) /\ Rank(a) = Rank(t) + n * 0
      /\ File(rook) = File(t) + i * DX(e) /\ File(x) = File(t) + j * DX(e)
  BY <1>3, <1>5, <1>6 DEF At, t
<1>9. n \in 2..7 /\ i \in 1..6 /\ j \in 1..6 /\ i < n /\ j < n
  <2>1. i >= 1 /\ i <= n - 1 /\ j >= 1 /\ j <= n - 1
    OBVIOUS
  <2>. QED BY <2>1
<1>10. Rank(a) = h /\ File(k) # File(rook) /\ (File(rook) > File(k) <=> r[2] = "king")
  BY <1>1, <1>2, <1>7, <1>8, <1>9 DEF h
<1>. DEFINE fk == File(k)
            fa == File(a)
<1>11. fk = fa => k = a
  BY <1>7, <1>10 DEF h
<1>12. CASE r[2] = "king"
  <2>1. e = -1
    BY <1>1, <1>4, <1>8, <1>9, <1>12
  <2>2. File(t) = 6 /\ fa = 6 - n /\ fk < 6 - i
    BY <1>1, <1>4, <1>8, <1>10, <1>7, <1>12, <2>1
  <2>3. CASE fk > fa
    <3>. DEFINE z == 6 - fk
    <3>1. z \in 1 .. (n - 1) /\ File(k) = 6 + z * (-1)
      BY <1>7, <1>9, <2>2, <2>3
    <3>2. Rank(k) = Rank(t) + z * 0
      BY <1>1, <1>2, <3>1 DEF h
    <3>. HIDE DEF z
    <3>3. At(t, e, z, k)
      BY <1>4, <2>1, <2>2, <3>1, <3>2 DEF At
    <3>. QED BY <3>1, <3>3 DEF InWay, t
  <2>4. CASE fk < fa
    <3>. DEFINE z == 6 - fk
                y == fa - fk
    <3>1. z \in 1..7 /\ y \in 1 .. (z - 1) /\ File(t) = File(k) + z * 1 /\ File(a) = File(k) + y * 1
      <4>1. fk \in 0..7 /\ fa \in 0..7
        BY <1>7
      <4>2. n >= 2 /\ n \in Int /\ File(t) \in Int
        BY <1>9, <2>2
      <4>. HIDE DEF fk, fa
      <4>3. z \in 1..7 /\ y \in 1 .. (z - 1) /\ File(t) = fk + z * 1 /\ fa = fk + y * 1
        BY <2>2, <2>4, <4>1, <4>2
      <4>. QED BY <4>3 DEF fk, fa
    <3>2. Rank(t) = Rank(k) + z * 0 /\ Rank(a) = Rank(k) + y * 0
      BY <1>1, <1>2, <1>10, <3>1 DEF h
    <3>. HIDE DEF z, y
    <3>3. At(k, 1, z, t) /\ At(k, 1, y, a)
      BY <1>4, <3>1, <3>2 DEF At
    <3>4. InWay(k, 1, z, a)
      BY <3>1, <3>3 DEF InWay
    <3>5. 1 \in Directions
      BY DirectionSets
    <3>. QED BY <1>1, <3>1, <3>3, <3>4, <3>5, BetweenIs DEF t
  <2>. QED BY <1>7, <1>11, <2>3, <2>4
<1>13. CASE r[2] = "queen"
  <2>1. e = 1
    BY <1>1, <1>4, <1>8, <1>9, <1>13
  <2>2. File(t) = 2 /\ fa = 2 + n /\ fk > 2 + i
    BY <1>1, <1>4, <1>8, <1>10, <1>7, <1>13, <2>1
  <2>3. CASE fk < fa
    <3>. DEFINE z == fk - 2
    <3>1. z \in 1 .. (n - 1) /\ File(k) = 2 + z * 1
      BY <1>7, <1>9, <2>2, <2>3
    <3>2. Rank(k) = Rank(t) + z * 0
      BY <1>1, <1>2, <3>1 DEF h
    <3>. HIDE DEF z
    <3>3. At(t, e, z, k)
      BY <1>4, <2>1, <2>2, <3>1, <3>2 DEF At
    <3>. QED BY <3>1, <3>3 DEF InWay, t
  <2>4. CASE fk > fa
    <3>. DEFINE z == fk - 2
                y == fk - fa
    <3>1. z \in 1..7 /\ y \in 1 .. (z - 1) /\ File(t) = File(k) + z * (-1) /\ File(a) = File(k) + y * (-1)
      <4>1. fk \in 0..7 /\ fa \in 0..7
        BY <1>7
      <4>2. n >= 2 /\ n \in Int /\ File(t) \in Int
        BY <1>9, <2>2
      <4>. HIDE DEF fk, fa
      <4>3. z \in 1..7 /\ y \in 1 .. (z - 1) /\ File(t) = fk + z * (-1) /\ fa = fk + y * (-1)
        BY <2>2, <2>4, <4>1, <4>2
      <4>. QED BY <4>3 DEF fk, fa
    <3>2. Rank(t) = Rank(k) + z * 0 /\ Rank(a) = Rank(k) + y * 0
      BY <1>1, <1>2, <1>10, <3>1 DEF h
    <3>. HIDE DEF z, y
    <3>3. At(k, -1, z, t) /\ At(k, -1, y, a)
      BY <1>4, <3>1, <3>2 DEF At
    <3>4. InWay(k, -1, z, a)
      BY <3>1, <3>3 DEF InWay
    <3>5. -1 \in Directions
      BY DirectionSets
    <3>. QED BY <1>1, <3>1, <3>3, <3>4, <3>5, BetweenIs DEF t
  <2>. QED BY <1>7, <1>11, <2>3, <2>4
<1>. QED BY <1>1, <1>12, <1>13

\* and castling.
LEMMA CastlesFound ==
    ASSUME NEW p, Sound(p), BothKings(p), NEW m, CastleCan(p, m), LeavesSafe(p, m)
    PROVE  m \in GenerateLegalMoves(p) /\ Playable(p.board, p.side, m) /\ m.kind = "castling"
<1>. DEFINE us == p.side
            them == Opposite(us)
            b == p.board
            d == BoardAfter(b, us, m)
            k == KingSquare(p, us)
            occ == Manned(b)
<1>1. /\ us \in Colors /\ them \in Colors /\ them # us /\ b \in Boards /\ Consistent(p)
      /\ Occupied(p) = occ /\ occ \in SUBSET Squares
      /\ k \in Squares /\ b[k] = MakePiece(us, "king")
  BY CheckersAre, ManTypes, RefreshReadsBoard DEF Sound, Consistent, Manned
<1>2. PICK r \in p.castling :
         /\ r[1] = us /\ m = Castling(k, p.castlingRook[r])
         /\ \A s \in BetweenBB[k][CastlingKingTo(r)] \cup BetweenBB[p.castlingRook[r]][CastlingRookTo(r)]
                       \cup {CastlingKingTo(r), CastlingRookTo(r)} :
              s \notin {k, p.castlingRook[r]} => b[s] = NoPiece
         /\ \A s \in BetweenBB[k][CastlingKingTo(r)] \cup {k, CastlingKingTo(r)} : ~Attacked(b, them, s)
  BY DEF CastleCan
<1>. DEFINE rook == p.castlingRook[r]
            t == CastlingKingTo(r)
            x == CastlingRookTo(r)
            less == occ \ {rook}
<1>3. r \in Rights /\ r = <<us, r[2]>> /\ r[2] \in {"king", "queen"} /\ r \in ColorRights(us)
  BY <1>1, <1>2 DEF Sound, ColorRights, Rights, Wings
<1>4. /\ rook \in Squares /\ (rook > k <=> r[2] = "king")
      /\ Rank(k) = HomeRank(us) /\ Rank(rook) = HomeRank(us)
  BY <1>2 DEF Sound, RightSound
<1>5. b[rook] = MakePiece(us, "rook")
      /\ p.castlingPath[r] = (BetweenBB[k][t] \cup BetweenBB[rook][x] \cup {t, x}) \ {k, rook}
  BY <1>2 DEF Sound, RightSound
<1>6. t \in Squares /\ x \in Squares /\ t # x
  BY <1>3, CastlingPlaces
<1>7. \A s \in BetweenBB[k][t] \cup {k, t} : ~IsAttacked(p, s, them)
  <2>1. BetweenBB[k][t] \cup {k, t} \subseteq Squares
    BY <1>1, <1>6, BetweenOnBoard
  <2>. HIDE DEF k, them, t
  <2>. QED BY <1>1, <1>2, <2>1, AttackedIs DEF t
<1>8. rook # k /\ rook \in occ /\ k \in occ
  BY <1>1, <1>4, <1>5 DEF MakePiece, Manned, NoPiece
<1>9. m.kind = "castling" /\ m.from = k /\ m.to = rook
  BY <1>2 DEF Castling
<1>10. CastlingRight(us, m) = r
  <2>1. IF rook > k THEN r[2] = "king" ELSE r[2] = "queen"
    BY <1>3, <1>4
  <2>. QED BY <1>3, <1>9, <2>1 DEF CastlingRight
<1>11. \A s \in {t, x} : s \in {k, rook} \/ b[s] = NoPiece
  BY <1>2
<1>12. Playable(b, us, m)
  <2>1. b[k] \in Pieces /\ Color(b[k]) = us
    BY <1>1, ManTypes, PieceFacts DEF PieceTypes
  <2>. QED BY <1>1, <1>4, <1>5, <1>8, <1>9, <1>10, <1>11, <2>1 DEF Playable
<1>13. d = [b EXCEPT ![k] = NoPiece, ![rook] = NoPiece, ![t] = MakePiece(us, "king"),
                     ![x] = MakePiece(us, "rook")]
  BY <1>9, <1>10 DEF BoardAfter
<1>14. occ \cap p.castlingPath[r] = {}
  BY <1>2, <1>5 DEF Manned
<1>15. ~KingPathAttacked(p, k, t, them)
  BY <1>7 DEF KingPathAttacked
<1>16. KingSafe(d, us)
  BY DEF LeavesSafe
<1>17. SymDiff(Occupied(p), {rook}) = less
  BY <1>1, <1>8 DEF SymDiff
<1>18. ~IsAttacked(p, t, them) /\ \A s \in BetweenBB[k][t] : s \notin {k, rook} => b[s] = NoPiece
  BY <1>2, <1>7
<1>. HIDE DEF d, rook, t, x, k, us, less, b, occ
<1>19. \A s \in Squares : d[s] = IF s = x THEN MakePiece(us, "rook") ELSE IF s = t THEN MakePiece(us, "king")
                                 ELSE IF s \in {k, rook} THEN NoPiece ELSE b[s]
  BY <1>1, <1>4, <1>6, <1>13 DEF Boards
<1>20. Manned(d) = (occ \ {k, rook}) \cup {t, x}
  <2>1. MakePiece(us, "rook") # NoPiece /\ MakePiece(us, "king") # NoPiece
    BY DEF MakePiece, NoPiece
  <2>. QED BY <1>6, <1>19, <2>1 DEF Manned, occ
<1>21. less \in SUBSET Squares
  BY <1>1 DEF less
<1>22. ASSUME NEW a \in RookAttacks(t, less) \cap (p.byType["rook"] \cup p.byType["queen"]) \cap p.byColor[them]
       PROVE  FALSE
  <2>1. a \in Squares /\ Color(b[a]) = them /\ Type(b[a]) \in {"rook", "queen"}
    <3>1. p.byColor[them] = {s \in Squares : Color(b[s]) = them}
      BY <1>1 DEF Consistent, ColorsOf, b
    <3>2. \A pt \in PieceTypes : p.byType[pt] = {s \in Squares : Type(b[s]) = pt}
      BY <1>1 DEF Consistent, TypesOf, b
    <3>. QED BY <1>22, <3>1, <3>2 DEF PieceTypes
  <2>2. PICK e \in SlideDirs(Type(b[a])), n \in 1..7 : Sees(t, e, n, a, less)
    BY <1>6, <1>21, <2>1, SlidersSee
  <2>3. e \in Directions /\ At(t, e, n, a) /\ \A u \in less : ~InWay(t, e, n, u)
    BY <2>2, SlideDirsKnown DEF Sees
  <2>4. Color(b[k]) # them /\ Color(b[rook]) # them /\ Color(NoPiece) # them
    <3>1. Color(NoPiece) # them
      BY <1>1 DEF Color, NoPiece, Colors, White, Black
    <3>. QED BY <1>1, <1>5, <3>1, PieceFacts DEF PieceTypes
  <2>5. a \notin {k, rook, t, x} /\ d[a] = b[a]
    <3>1. a \notin {k, rook}
      BY <2>1, <2>4
    <3>2. a \notin {t, x}
      BY <1>11, <2>1, <2>4, <3>1
    <3>. QED BY <1>19, <2>1, <3>1, <3>2
  <2>6. InWay(t, e, n, rook)
    <3>1. AttackersTo(p, t, occ) \cap p.byColor[them] = {}
      BY <1>1, <1>18 DEF IsAttacked
    <3>2. AttackersTo(p, t, occ) \cap p.byColor[them] =
            {s \in Squares : Color(p.board[s]) = them /\ Assails(p.board[s], s, t, occ)}
      BY <1>1, <1>6, AttackersSeen
    <3>3. ~Sees(t, e, n, a, occ)
      BY <2>1, <3>1, <3>2 DEF Assails, b
    <3>. QED BY <2>3, <3>3 DEF Sees, less
  <2>7. InWay(t, e, n, x)
    <3>1. d[t] = MakePiece(us, "king") /\ Color(d[a]) = them
      BY <1>6, <1>19, <2>1, <2>5
    <3>2. ~Assails(d[a], a, t, Manned(d))
      BY <1>6, <1>16, <2>1, <3>1 DEF KingSafe
    <3>3. ~Sees(t, e, n, a, Manned(d))
      BY <2>2, <2>5, <3>2 DEF Assails
    <3>4. PICK u \in Manned(d) : InWay(t, e, n, u)
      BY <2>3, <3>3 DEF Sees
    <3>5. u # t
      BY <1>6, <2>1, <2>3, <3>4, WayOnBoard
    <3>. QED BY <1>20, <2>3, <3>4, <3>5 DEF less
  <2>8. k = a \/ InWay(t, e, n, k) \/ a \in BetweenBB[k][t]
    BY <1>1, <1>2, <1>3, <1>4, <1>8, <2>1, <2>3, <2>6, <2>7, RookShields DEF t, x
  <2>9. k \in less
    BY <1>8 DEF less
  <2>10. a \in BetweenBB[k][t]
    BY <2>3, <2>5, <2>8, <2>9
  <2>. QED BY <1>18, <2>1, <2>4, <2>5, <2>10
<1>23. CastlingAllowed(p, r, occ)
  BY <1>1, <1>2, <1>5, <1>14, <1>15, <1>17, <1>22 DEF CastlingAllowed, rook, t, b, them, k
<1>24. m \in CastlingMoves(p, us, occ)
  BY <1>2, <1>3, <1>23 DEF CastlingMoves, k, us
<1>25. Checkers(p) = {} /\ ~(Cardinality(Checkers(p)) > 1)
  <2>1. Checkers(p) = {}
    BY <1>7 DEF IsAttacked, Checkers, k, us, them
  <2>. QED BY <2>1, FS_EmptySet
<1>. QED BY <1>1, <1>9, <1>12, <1>24, <1>25, GenerateIs DEF k, us, b

-----------------------------------------------------------------------------
(***************************************************************************)
(* Every move that is generated is allowed by the laws.                    *)
(***************************************************************************)
\* What answers a check is not a square of one's own.
LEMMA AnswersFree ==
    ASSUME NEW p, Sound(p), BothKings(p), ~(Cardinality(Checkers(p)) > 1), NEW k, k = KingSquare(p, p.side),
           NEW t \in Answers(p, k)
    PROVE  t \in Squares /\ Color(p.board[t]) # p.side
<1>. DEFINE us == p.side
            them == Opposite(us)
            b == p.board
<1>1. t \in Squares /\ us \in Colors /\ them \in Colors /\ them # us /\ Consistent(p)
  BY AnswersOnBoard, ManTypes DEF Sound
<1>2. CASE Checkers(p) = {}
  <2>1. t \notin p.byColor[us]
    BY <1>2 DEF Answers
  <2>. QED BY <1>1, <2>1, PiecesStand
<1>3. ASSUME NEW a \in Checkers(p) PROVE Color(b[t]) # us
  <2>1. /\ k \in Squares /\ a \in Squares /\ Color(b[a]) = them /\ Assails(b[a], a, k, Manned(b))
        /\ \A x \in Checkers(p) : x = a
        /\ Min(Checkers(p)) = a
    BY <1>3, OneChecker
  <2>2. t = a \/ t \in BetweenBB[k][a]
    BY <1>3, <2>1 DEF Answers
  <2>3. ASSUME t \in BetweenBB[k][a] PROVE b[t] = NoPiece
    <3>1. ~Touches(b[a], a, k)
      BY <1>1, <2>1, <2>3, TouchesNear
    <3>2. PICK d \in SlideDirs(Type(b[a])), n \in 1..7 : Sees(k, d, n, a, Manned(b))
      BY <2>1, <3>1 DEF Assails
    <3>3. d \in Directions /\ At(k, d, n, a)
      BY <3>2, SlideDirsKnown DEF Sees
    <3>4. InWay(k, d, n, t)
      BY <2>1, <2>3, <3>3, BetweenIs
    <3>. QED BY <1>1, <3>2, <3>4 DEF Sees, Manned
  <2>4. Color(NoPiece) # us
    BY <1>1 DEF Color, NoPiece, Colors, White, Black
  <2>. QED BY <1>1, <2>1, <2>2, <2>3, <2>4
<1>. QED BY <1>1, <1>2, <1>3

\* A pawn is pushed as the laws let it go.
LEMMA PushesGo ==
    ASSUME NEW b \in Boards, NEW us \in Colors, NEW f \in Squares, NEW quiet \in SUBSET Squares,
           NEW t \in Pushes(f, us, quiet, Manned(b))
    PROVE  PawnGoes(b, us, f, t)
<1>. DEFINE one == f + PawnPush(us)
            start == IF us = White THEN 1 ELSE 6
<1>1. /\ t \in Squares /\ one \notin Manned(b)
      /\ t = one \/ (t = one + PawnPush(us) /\ Rank(f) = start /\ t \notin Manned(b))
  BY DEF Pushes
<1>2. CASE t = one
  BY <1>1, <1>2 DEF PawnGoes, Manned
<1>3. CASE t = one + PawnPush(us) /\ Rank(f) = start /\ t \notin Manned(b)
  <2>1. one \in Squares
    <3>1. /\ us = White \/ (us = Black /\ us # White)
          /\ us = White => PawnPush(us) = 8
          /\ us # White => PawnPush(us) = -8
      BY DEF PawnPush, North, South, Colors, White, Black
    <3>2. File(f) \in 0..7 /\ f = 8 * Rank(f) + File(f)
      BY Coordinates
    <3>3. 8 * Rank(f) + File(f) + PawnPush(us) \in 0..63
      BY <1>3, <3>1, <3>2
    <3>. QED BY <3>2, <3>3 DEF Squares
  <2>. HIDE DEF one
  <2>2. b[one] = NoPiece /\ b[t] = NoPiece
    BY <1>1, <1>3, <2>1 DEF Manned
  <2>. QED BY <1>3, <2>2 DEF PawnGoes, one
<1>. QED BY <1>1, <1>2, <1>3

\* A king castles as the laws let it.
LEMMA CastlingCan ==
    ASSUME NEW p, Sound(p), BothKings(p), NEW m \in CastlingMoves(p, p.side, Occupied(p))
    PROVE  CastleCan(p, m)
<1>. DEFINE us == p.side
            k == KingSquare(p, us)
            occ == Occupied(p)
<1>1. /\ us \in Colors /\ Opposite(us) \in Colors /\ k \in Squares /\ occ = Manned(p.board) /\ Consistent(p)
  BY CheckersAre, ManTypes, RefreshReadsBoard DEF Sound
<1>2. PICK r \in ColorRights(us) : CastlingAllowed(p, r, occ) /\ m = Castling(k, p.castlingRook[r])
  BY DEF CastlingMoves
<1>. DEFINE rook == p.castlingRook[r]
            t == CastlingKingTo(r)
            x == CastlingRookTo(r)
            way == BetweenBB[k][t] \cup BetweenBB[rook][x] \cup {t, x}
<1>3. r[1] = us /\ r \in Rights
  BY <1>1 DEF ColorRights, Rights
<1>4. r \in p.castling /\ occ \cap p.castlingPath[r] = {} /\ ~KingPathAttacked(p, k, t, Opposite(us))
  BY <1>2, <1>3 DEF CastlingAllowed
<1>5. rook \in Squares /\ p.castlingPath[r] = way \ {k, rook}
  BY <1>3, <1>4 DEF Sound, RightSound
<1>6. t \in Squares /\ x \in Squares
  BY <1>3, CastlingPlaces
<1>. HIDE DEF rook, t, x, k, occ, us
<1>7. way \subseteq Squares
  BY <1>1, <1>5, <1>6, BetweenOnBoard
<1>8. \A s \in way : s \notin {k, rook} => p.board[s] = NoPiece
  BY <1>1, <1>4, <1>5, <1>7 DEF Manned
<1>9. \A s \in BetweenBB[k][t] \cup {k, t} : ~Attacked(p.board, Opposite(us), s)
  <2>1. BetweenBB[k][t] \cup {k, t} \subseteq Squares
    BY <1>1, <1>6, BetweenOnBoard
  <2>. QED BY <1>1, <1>4, <2>1, AttackedIs DEF KingPathAttacked
<1>. QED BY <1>2, <1>3, <1>4, <1>8, <1>9 DEF CastleCan, rook, t, x, k, us

\* Only what the laws allow is generated.
LEMMA GeneratedCan ==
    ASSUME NEW p, Sound(p), BothKings(p), NEW m \in GenerateLegalMoves(p)
    PROVE  PieceCan(p.board, p.side, m) \/ PawnCan(p.board, p.side, m) \/ PassantCan(p, m) \/ CastleCan(p, m)
<1>. DEFINE us == p.side
            them == Opposite(us)
            b == p.board
            k == KingSquare(p, us)
            occ == Occupied(p)
            A == Answers(p, k)
            pinned == BlockersForKing(p, us) \cap p.byColor[us]
<1>1. /\ us \in Colors /\ them \in Colors /\ b \in Boards /\ Consistent(p) /\ k \in Squares
      /\ b[k] = MakePiece(us, "king") /\ occ = Manned(b) /\ occ \in SUBSET Squares
  BY CheckersAre, ManTypes, RefreshReadsBoard DEF Sound, Consistent, Manned
<1>2. \/ m \in KingMoves(p, k, them, occ, Squares \ p.byColor[us])
      \/ /\ ~(Cardinality(Checkers(p)) > 1)
         /\ \/ m \in CastlingMoves(p, us, occ)
            \/ m \in PawnMoves(p, us, A, A, pinned, k, occ)
            \/ m \in PieceMoves(p, us, A, pinned, k, occ)
  BY GenerateIs
<1>3. CASE m \in CastlingMoves(p, us, occ)
  BY <1>3, CastlingCan
<1>4. \A f \in Squares : \A pt \in PieceTypes :
        f \in PiecesOf(p, us, pt) => b[f] = MakePiece(us, pt) /\ Color(b[f]) = us /\ Type(b[f]) = pt
  BY <1>1, PiecesStand, PieceFacts
<1>5. \A pt \in PieceTypes : PiecesOf(p, us, pt) \subseteq Squares
  BY <1>1, PiecesStand
<1>6. ~(Cardinality(Checkers(p)) > 1) => \A t \in A : t \in Squares /\ Color(b[t]) # us
  BY AnswersFree
<1>. HIDE DEF k, us, them, b, occ, A, pinned
<1>7. CASE m \in KingMoves(p, k, them, occ, Squares \ p.byColor[us])
  <2>1. PICK t \in KingAttacks[k] : t \in Squares \ p.byColor[us] /\ m = Normal(k, t)
    BY <1>7 DEF KingMoves
  <2>2. t \in Squares /\ Color(b[t]) # us
    BY <1>1, <2>1, PiecesStand DEF b
  <2>3. Assails(b[k], k, t, Manned(b)) /\ Color(b[k]) = us /\ Type(b[k]) # "pawn"
    <3>1. Color(b[k]) = us /\ Type(b[k]) = "king"
      BY <1>1, PieceFacts DEF PieceTypes
    <3>. QED BY <1>1, <2>1, <2>2, <3>1, KingAssails
  <2>. QED BY <1>1, <2>1, <2>2, <2>3 DEF PieceCan, b, us
<1>8. CASE ~(Cardinality(Checkers(p)) > 1) /\ m \in PieceMoves(p, us, A, pinned, k, occ)
  <2>1. PICK pt \in {"knight", "bishop", "rook", "queen"} : \E f \in PiecesOf(p, us, pt) :
           \E to \in AttacksFrom(pt, us, f, occ) \cap A \cap PinMask(k, pinned, f) : m = Normal(f, to)
    BY <1>8, PieceMovesAre
  <2>2. PICK f \in PiecesOf(p, us, pt) :
           \E to \in AttacksFrom(pt, us, f, occ) \cap A \cap PinMask(k, pinned, f) : m = Normal(f, to)
    BY <2>1
  <2>3. PICK to \in AttacksFrom(pt, us, f, occ) \cap A \cap PinMask(k, pinned, f) : m = Normal(f, to)
    BY <2>2
  <2>4. f \in Squares /\ b[f] = MakePiece(us, pt) /\ Color(b[f]) = us /\ Type(b[f]) = pt /\ pt # "pawn"
    BY <1>4, <1>5, <2>1, <2>2 DEF PieceTypes
  <2>5. to \in Squares /\ Color(b[to]) # us
    BY <1>6, <1>8, <2>3
  <2>6. Assails(b[f], f, to, occ)
    BY <1>1, <2>3, <2>4, AttacksAssail
  <2>. QED BY <1>1, <2>3, <2>4, <2>5, <2>6 DEF PieceCan, b, us
<1>9. CASE ~(Cardinality(Checkers(p)) > 1) /\ m \in PawnMoves(p, us, A, A, pinned, k, occ)
  <2>. DEFINE promoRank == IF us = White THEN 7 ELSE 0
  <2>1. PICK f \in PiecesOf(p, us, "pawn") :
             \/ \E to \in PinMask(k, pinned, f)
                          \cap (Pushes(f, us, A, occ)
                                  \cup (PawnAttacks[us][f] \cap p.byColor[Opposite(us)] \cap A)) :
                  m \in PawnMove(f, to, promoRank)
             \/ /\ m = EnPassant(f, p.epSquare) /\ p.epSquare # NoSquare
                /\ p.epSquare \in PawnAttacks[us][f]
                /\ EnPassantLegal(p, f, p.epSquare, us, k, occ)
    BY <1>9, PawnMovesAre
  <2>2. f \in Squares /\ b[f] = MakePiece(us, "pawn")
    BY <1>4, <1>5, <2>1 DEF PieceTypes
  <2>3. CASE m = EnPassant(f, p.epSquare) /\ p.epSquare # NoSquare /\ p.epSquare \in PawnAttacks[us][f]
    BY <2>2, <2>3 DEF PassantCan, b, us
  <2>4. ASSUME NEW to \in Pushes(f, us, A, occ) \cup (PawnAttacks[us][f] \cap p.byColor[Opposite(us)] \cap A),
               m \in PawnMove(f, to, promoRank)
        PROVE  PawnCan(b, us, m)
    <3>1. A \in SUBSET Squares
      BY <1>6, <1>9
    <3>2. to \in Squares /\ PawnGoes(b, us, f, to)
      <4>1. CASE to \in Pushes(f, us, A, occ)
        <5>1. to \in Pushes(f, us, A, Manned(b))
          BY <1>1, <4>1
        <5>2. to \in Squares
          BY <1>1, <2>2, <3>1, <5>1, PushesLand
        <5>. QED BY <1>1, <2>2, <3>1, <5>1, <5>2, PushesGo
      <4>2. CASE to \in PawnAttacks[us][f] \cap p.byColor[Opposite(us)] \cap A
        <5>1. to \in Squares /\ Color(b[to]) = Opposite(us)
          BY <1>1, <3>1, <4>2, PiecesStand DEF them, b
        <5>. QED BY <4>2, <5>1 DEF PawnGoes
      <4>. QED BY <2>4, <4>1, <4>2
    <3>. QED BY <2>2, <2>4, <3>2 DEF PawnCan
  <2>. QED BY <2>1, <2>3, <2>4 DEF b, us
<1>. QED BY <1>2, <1>3, <1>7, <1>8, <1>9 DEF us, occ, b

\* The moves of the laws of chess: what a piece, a pawn or a castling king may do where
\* the pieces stand, if it leaves the king of its side unattacked.
LawfulMove(p, m) ==
    /\ PieceCan(p.board, p.side, m) \/ PawnCan(p.board, p.side, m) \/ PassantCan(p, m) \/ CastleCan(p, m)
    /\ LeavesSafe(p, m)

\* The generator, with its masks for checks and pins and no move tried but en passant,
\* finds the moves of the laws, all of them and no other (movegen.go).
THEOREM GeneratesTheLaws ==
    ASSUME NEW p, Legal(p), NEW m
    PROVE  m \in GenerateLegalMoves(p) <=> LawfulMove(p, m)
<1>1. Sound(p) /\ BothKings(p)
  BY DEF Legal
<1>2. ASSUME LawfulMove(p, m) PROVE m \in GenerateLegalMoves(p)
  BY <1>1, <1>2, PiecesFound, PawnsFound, PassantFound, CastlesFound DEF LawfulMove
<1>3. ASSUME m \in GenerateLegalMoves(p) PROVE LawfulMove(p, m)
  <2>1. PieceCan(p.board, p.side, m) \/ PawnCan(p.board, p.side, m) \/ PassantCan(p, m) \/ CastleCan(p, m)
    BY <1>1, <1>3, GeneratedCan
  <2>. DEFINE q == MakeMove(p, m)
  <2>2. q.board = BoardAfter(p.board, p.side, m) /\ q.side = Opposite(p.side)
    BY <1>1, <1>3, GeneratedPlayable, MoveMade DEF Sound
  <2>3. KingSafe(q.board, Opposite(q.side))
    BY <1>3, GeneratedMovesAreLegal DEF Legal
  <2>4. Opposite(Opposite(p.side)) = p.side
    BY <1>1, ManTypes DEF Sound
  <2>. HIDE DEF q
  <2>5. LeavesSafe(p, m)
    BY <2>2, <2>3, <2>4 DEF LeavesSafe
  <2>. QED BY <2>1, <2>5 DEF LawfulMove
<1>. QED BY <1>2, <1>3

\* At every node of a game and of a search.
GeneratorLawful == \A m : m \in GenerateLegalMoves(pos) <=> LawfulMove(pos, m)

THEOREM GeneratorLawfulHolds == Spec => []GeneratorLawful
<1>1. LineInv => GeneratorLawful
  BY LineFacts, GeneratesTheLaws DEF GeneratorLawful
<1>. QED BY <1>1, LineInvariant, PTL
=============================================================================
