------------------------------- MODULE Rules -------------------------------
(***************************************************************************)
(* The end of a game, rules.go.  hist is the position's history: the       *)
(* records of the moves made since the FEN, oldest first.                  *)
(***************************************************************************)
EXTENDS MoveGen

CONSTANT FiftyMovePlies  \* 100 in the code

IsFiftyMoveRule(p) == p.halfmove >= FiftyMovePlies

\* Earlier occurrences since the last irreversible move, with the same side to move.
RepetitionCount(p, hist) ==
  LET end == Len(hist) - p.halfmove
  IN  Cardinality({i \in DOMAIN hist :
                     /\ i > end
                     /\ (Len(hist) - i) % 2 = 1
                     /\ hist[i].key = p.key})
IsThreefoldRepetition(p, hist) == RepetitionCount(p, hist) >= 2
IsRepetition(p, hist) == RepetitionCount(p, hist) >= 1

DarkSquares == {s \in Squares : (File(s) + Rank(s)) % 2 = 0}

\* Too little material for mate: at most one minor piece, or bishops on one color only.
IsInsufficientMaterial(p) ==
  LET knights == p.byType["knight"]
      bishops == p.byType["bishop"]
  IN  /\ p.byType["pawn"] \cup p.byType["rook"] \cup p.byType["queen"] = {}
      /\ \/ Cardinality(knights \cup bishops) <= 1
         \/ knights = {} /\ (bishops \subseteq DarkSquares \/ bishops \cap DarkSquares = {})

PawnAttackSpan(pawns, c) == UNION {PawnAttacks[c][s] : s \in pawns}

\* Where a king can get to if only walls stop it.
KingReachableSquares(from, walls) ==
  LET flood[reach \in SUBSET Squares] ==
        LET grown == (reach \cup UNION {KingAttacks[s] : s \in reach}) \ walls
        IN  IF grown = reach THEN reach ELSE flood[grown]
  IN  flood[{from}]

\* No pawn of color c can ever move: another pawn ahead, none to take.
PawnsFrozen(p, c) ==
  \A s \in PiecesOf(p, c, "pawn") :
    /\ s + PawnPush(c) \in p.byType["pawn"]
    /\ PawnAttacks[c][s] \cap PiecesOf(p, Opposite(c), "pawn") = {}

\* Mutant: only pawns next to the king count.
KingNotBesidePawn(p, c) ==
  LET theirPawns == PiecesOf(p, Opposite(c), "pawn")
      attacked == PawnAttackSpan(theirPawns, Opposite(c))
      ksq == KingSquare(p, c)
  IN  ksq \notin attacked /\ \A s \in theirPawns \ attacked : ksq \notin KingAttacks[s]

\* The king of color c can never take a pawn: squares their pawns attack are walls,
\* and only a pawn no other one defends could be taken.
KingShutOut(p, c) ==
  LET theirPawns == PiecesOf(p, Opposite(c), "pawn")
      attacked == PawnAttackSpan(theirPawns, Opposite(c))
      ksq == KingSquare(p, c)
  IN  /\ ksq \notin attacked
      /\ LET reach == KingReachableSquares(ksq, p.byType["pawn"] \cup attacked)
         IN  \A s \in theirPawns \ attacked : reach \cap KingAttacks[s] = {}

IsBlockedDeadPosition(p) ==
  /\ p.byType["knight"] \cup p.byType["bishop"] \cup p.byType["rook"] \cup p.byType["queen"] = {}
  /\ p.byType["pawn"] # {}
  /\ p.epSquare = NoSquare
  /\ \A c \in Colors : PawnsFrozen(p, c)
  /\ \A c \in Colors : KingShutOut(p, c)

IsDeadPosition(p) == IsInsufficientMaterial(p) \/ IsBlockedDeadPosition(p)

\* Mate and stalemate come before the draws: mate on the hundredth ply wins.
Outcome(p, hist) ==
  CASE GenerateLegalMoves(p) = {} -> IF InCheck(p) THEN "checkmate" ELSE "stalemate"
    [] OTHER -> IF IsInsufficientMaterial(p) THEN "insufficient"
                ELSE IF IsBlockedDeadPosition(p) THEN "dead"
                ELSE IF IsThreefoldRepetition(p, hist) THEN "threefold"
                ELSE IF IsFiftyMoveRule(p) THEN "fifty" ELSE "ongoing"
=============================================================================
