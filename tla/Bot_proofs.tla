----------------------------- MODULE Bot_proofs -----------------------------
(***************************************************************************)
(* The bot never takes on more than MaxConcurrentGames, and never gives up *)
(* a game under way, for any set of challenges, any bound and any loss of  *)
(* events.                                                                 *)
(***************************************************************************)
EXTENDS Bot, FiniteSetTheorems, SequenceTheorems, TLAPS

\* The games that went through a reservation, and the reservations.
Taken == (InMap \cup accepted) \ unreserved

BotInv ==
    /\ playing \in [Challenges -> 0 .. MaxRuns]
    /\ accepted \in SUBSET Challenges
    /\ CapacityKept

\* The sets declineReason counts are finite.
LEMMA SlotsFinite ==
    ASSUME BotInv
    PROVE  /\ IsFiniteSet(InMap) /\ IsFiniteSet(accepted) /\ IsFiniteSet(Taken)
           /\ Cardinality(InMap) \in Nat /\ Cardinality(accepted) \in Nat
           /\ Cardinality(Taken) \in Nat
<1>1. InMap \subseteq Challenges /\ Taken \subseteq Challenges
  BY DEF BotInv, InMap, Taken
<1>2. IsFiniteSet(InMap) /\ IsFiniteSet(accepted) /\ IsFiniteSet(Taken)
  BY <1>1, BotConstants, FS_Subset DEF BotInv
<1>. QED BY <1>2, FS_CardinalityType

\* A step that takes on nothing keeps the bound.
LEMMA FewerTaken ==
    ASSUME BotInv, Taken' \subseteq Taken
    PROVE  CapacityKept'
<1>1. Cardinality(Taken') <= Cardinality(Taken)
  BY SlotsFinite, FS_Subset
<1>2. Cardinality(Taken') \in Nat
  BY SlotsFinite, FS_Subset, FS_CardinalityType
<1>. QED BY <1>1, <1>2, SlotsFinite, BotConstants DEF BotInv, CapacityKept, Taken

\* reserveSlot takes one slot, and only one that declineReason saw free.
LEMMA OneMoreTaken ==
    ASSUME BotInv, NEW c \in Challenges, ~Declines(c), Taken' \subseteq Taken \cup {c}
    PROVE  CapacityKept'
<1>1. Cardinality(InMap) + Cardinality(accepted) < MaxConcurrentGames
  BY SlotsFinite, BotConstants DEF Declines, InFlight
<1>2. Cardinality(InMap \cup accepted) <= Cardinality(InMap) + Cardinality(accepted)
  <2>1. IsFiniteSet(InMap \cap accepted)
    BY SlotsFinite, FS_Intersection
  <2>2. Cardinality(InMap \cap accepted) \in Nat
    BY <2>1, FS_CardinalityType
  <2>3. Cardinality(InMap \cup accepted)
          = Cardinality(InMap) + Cardinality(accepted) - Cardinality(InMap \cap accepted)
    BY SlotsFinite, FS_Union
  <2>. QED BY <2>2, <2>3, SlotsFinite
<1>3. IsFiniteSet(InMap \cup accepted) /\ Cardinality(InMap \cup accepted) \in Nat
  BY SlotsFinite, FS_Union, FS_CardinalityType
<1>4. Cardinality(Taken) <= Cardinality(InMap \cup accepted)
  BY <1>3, FS_Subset DEF Taken
<1>5. Cardinality(Taken) + 1 <= MaxConcurrentGames
  BY <1>1, <1>2, <1>3, <1>4, SlotsFinite, BotConstants
<1>6. IsFiniteSet(Taken \cup {c}) /\ Cardinality(Taken \cup {c}) <= Cardinality(Taken) + 1
  <2>1. IsFiniteSet(Taken \cup {c})
        /\ Cardinality(Taken \cup {c}) = IF c \in Taken THEN Cardinality(Taken)
                                                       ELSE Cardinality(Taken) + 1
    BY SlotsFinite, FS_AddElement
  <2>. QED BY <2>1, SlotsFinite
<1>7. Cardinality(Taken \cup {c}) \in Nat
  BY <1>6, FS_CardinalityType
<1>8. Cardinality(Taken') <= Cardinality(Taken \cup {c}) /\ Cardinality(Taken') \in Nat
  BY <1>6, FS_Subset, FS_CardinalityType
<1>. QED BY <1>5, <1>6, <1>7, <1>8, SlotsFinite, BotConstants DEF CapacityKept, Taken

\* finishGame and releaseSlot only give slots back.
LEMMA FinishKeeps ==
    ASSUME BotInv, NEW c \in Challenges, FinishGame(c)
    PROVE  BotInv'
<1>1. playing' \in [Challenges -> 0 .. MaxRuns] /\ accepted' \in SUBSET Challenges
  BY BotConstants DEF BotInv, FinishGame
<1>2. Taken' \subseteq Taken
  BY DEF BotInv, FinishGame, Taken, InMap
<1>. QED BY <1>1, <1>2, FewerTaken DEF BotInv

\* A step that leaves the maps alone keeps the invariant.
LEMMA SlotsUnchanged ==
    ASSUME BotInv, UNCHANGED slotVars
    PROVE  BotInv'
  BY DEF BotInv, CapacityKept, InMap, slotVars

\* The invariant is inductive.
LEMMA BotStep == ASSUME BotInv, [Next]_vars PROVE BotInv'
<1>1. CASE Reconnect
  BY <1>1, SlotsUnchanged DEF Reconnect
<1>2. ASSUME NEW c \in Challenges, Lichess(c) PROVE BotInv'
  BY <1>2, SlotsUnchanged DEF Lichess, Offer, Withdraw, GameStarts, GameFinishes
<1>3. ASSUME NEW c \in Challenges, ReservationExpires(c) PROVE BotInv'
  BY <1>3 DEF ReservationExpires, BotInv, CapacityKept, InMap
<1>4. ASSUME NEW c \in Challenges, NEW n \in Runs, Game(c, n) PROVE BotInv'
  BY <1>4, SlotsUnchanged, FinishKeeps DEF Game, PlayGameReturns, DeferredFinish
<1>5. ASSUME NEW c \in Challenges,
             DeclineChallenge(c) \/ Declined(c) \/ AcceptSucceeds(c)
      PROVE  BotInv'
  BY <1>5, SlotsUnchanged DEF DeclineChallenge, Declined, AcceptSucceeds
<1>6. ASSUME NEW c \in Challenges, ReserveSlot(c) PROVE BotInv'
  <2>1. playing' = playing /\ unreserved' = unreserved
    BY <1>6 DEF ReserveSlot
  <2>2. accepted' = (accepted \ expired) \cup {c} /\ ~Declines(c)
    BY <1>6 DEF ReserveSlot
  <2>3. Taken' \subseteq Taken \cup {c}
    BY <2>1, <2>2 DEF Taken, InMap
  <2>. QED BY <2>1, <2>2, <2>3, OneMoreTaken DEF BotInv
<1>7. ASSUME NEW c \in Challenges, AcceptFails(c) PROVE BotInv'
  <2>1. /\ accepted' = accepted \ {c} /\ playing' = playing /\ unreserved' = unreserved
    BY <1>7 DEF AcceptFails, ReleaseSlot
  <2>2. Taken' \subseteq Taken
    BY <2>1 DEF Taken, InMap
  <2>. QED BY <2>1, <2>2, FewerTaken DEF BotInv
<1>8. ASSUME NEW c \in Challenges, StartGame(c) PROVE BotInv'
  <2>1. CASE playing[c] # 0
    BY <1>8, <2>1, SlotsUnchanged DEF StartGame
  <2>2. CASE playing[c] = 0
    <3>1. PICK n \in Runs :
            /\ accepted' = accepted \ {c}
            /\ unreserved' = IF c \in accepted THEN unreserved ELSE unreserved \cup {c}
            /\ playing' = [playing EXCEPT ![c] = n]
      BY <1>8, <2>2 DEF StartGame
    <3>2. playing' \in [Challenges -> 0 .. MaxRuns] /\ accepted' \in SUBSET Challenges
      BY <3>1, BotConstants DEF BotInv, Runs
    <3>3. InMap' \subseteq InMap \cup {c}
      BY <3>1 DEF BotInv, InMap
    <3>4. Taken' \subseteq Taken
      BY <3>1, <3>3 DEF Taken
    <3>. QED BY <3>2, <3>4, FewerTaken DEF BotInv
  <2>. QED BY <2>1, <2>2
<1>9. ASSUME NEW c \in Challenges, GameFinishEvent(c) PROVE BotInv'
  BY <1>9, FinishKeeps DEF GameFinishEvent
<1>10. CASE UNCHANGED vars
  BY <1>10, SlotsUnchanged DEF vars
<1>. QED BY <1>1, <1>2, <1>3, <1>4, <1>5, <1>6, <1>7, <1>8, <1>9, <1>10 DEF Next, EventLoop

\* declineReason's bound: "counting only running games would let a burst of
\* challenges all be accepted".  However challenges, events and failures
\* interleave, games that went through a reservation and reservations together
\* stay within MaxConcurrentGames.
THEOREM CapacityAlwaysKept == Spec => []CapacityKept
<1>1. ASSUME Init PROVE BotInv
  <2>1. InMap = {} /\ accepted = {} /\ playing \in [Challenges -> 0 .. MaxRuns]
    BY <1>1, BotConstants DEF Init, InMap
  <2>. QED BY <2>1, FS_EmptySet, BotConstants DEF BotInv, CapacityKept
<1>2. BotInv => CapacityKept
  BY DEF BotInv
<1>. QED BY <1>1, <1>2, BotStep, PTL DEF Spec
-----------------------------------------------------------------------------
(***************************************************************************)
(* A game under way is not given up.  What ends a goroutine's context, and *)
(* what lets a goroutine return, is the end of the game and nothing else:  *)
(* no repeated or late event, no end of an older goroutine.                *)
(***************************************************************************)
Events == [kind : {"challenge", "gameStart", "gameFinish"}, id : Challenges]
EndReported(c) == \E i \in 1 .. Len(events) : events[i] = Event("gameFinish", c)
Ended(c, n) == gor[c][n] \in {"returned", "gone"} \/ gameCtx[c][n] = "cancelled"

OngoingInv ==
    /\ server \in [Challenges -> {"new", "offered", "accepted", "started", "finished", "gone"}]
    /\ events \in Seq(Events)
    /\ playing \in [Challenges -> 0 .. MaxRuns]
    /\ gor \in [Challenges -> [Runs -> {"none", "playing", "returned", "gone"}]]
    /\ gameCtx \in [Challenges -> [Runs -> {"live", "cancelled"}]]
    /\ \A c \in Challenges : EndReported(c) => server[c] = "finished"
    /\ \A c \in Challenges, n \in Runs : Ended(c, n) => server[c] = "finished"

\* SetToSeq lists members of its set: what the stream begins with is nothing else.
LEMMA SetToSeqMembers ==
    ASSUME NEW S, IsFiniteSet(S)
    PROVE  SetToSeq(S) \in Seq(S)
<1>1. Cardinality(S) \in Nat /\ ExistsBijection(1 .. Cardinality(S), S)
  BY FS_CardinalityType
<1>2. PICK f \in [1 .. Cardinality(S) -> S] : IsInjective(f)
  BY <1>1 DEF ExistsBijection, Bijection, Injection, IsInjective
<1>3. SetToSeq(S) \in [1 .. Cardinality(S) -> S]
  BY <1>2 DEF SetToSeq
<1>. QED BY <1>1, <1>3, SeqDef

\* There are no more events of a kind than challenges.
LEMMA EventsFinite ==
    ASSUME NEW kind, NEW S \in SUBSET Challenges
    PROVE  IsFiniteSet({Event(kind, c) : c \in S})
<1>. DEFINE T == {Event(kind, c) : c \in S}
            f == [e \in T |-> e.id]
<1>1. IsFiniteSet(S)
  BY BotConstants, FS_Subset
<1>2. f \in Injection(T, S)
  BY DEF Injection, IsInjective, Event
<1>. QED BY <1>1, <1>2, FS_Injection

\* What Reconnect begins with reports no end.
LEMMA StreamBegins ==
    ASSUME OngoingInv, Reconnect
    PROVE  events' \in Seq(Events) /\ \A c \in Challenges : ~EndReported(c)'
<1>. DEFINE Offers == {Event("challenge", c) : c \in {d \in Challenges : server[d] = "offered"}}
            Begun == {Event("gameStart", c) : c \in {d \in Challenges : server[d] = "started"}}
<1>1. IsFiniteSet(Offers) /\ IsFiniteSet(Begun)
  BY EventsFinite
<1>2. IsFiniteSet(Offers \cup Begun)
  BY <1>1, FS_Union
<1>3. Offers \cup Begun \subseteq Events /\ \A c : Event("gameFinish", c) \notin Offers \cup Begun
  <2>1. Offers \cup Begun \subseteq Events
    BY DEF Event, Events
  <2>2. \A e \in Offers \cup Begun : e.kind # "gameFinish"
    BY DEF Event
  <2>3. \A c : Event("gameFinish", c).kind = "gameFinish"
    BY DEF Event
  <2>. QED BY <2>1, <2>2, <2>3
<1>4. events' \in Seq(Offers \cup Begun)
  BY <1>2, SetToSeqMembers DEF Reconnect
<1>. HIDE DEF Offers, Begun
<1>5. Len(events') \in Nat /\ events' \in [1 .. Len(events') -> Offers \cup Begun]
  BY <1>4
<1>6. events' \in [1 .. Len(events') -> Events]
  BY <1>3, <1>5
<1>7. events' \in Seq(Events)
  BY <1>5, <1>6, SeqDef
<1>. QED BY <1>3, <1>5, <1>7 DEF EndReported

\* A step that changes neither the games nor their end keeps the invariant, when what
\* it adds to the event stream is true.
LEMMA OngoingKept ==
    ASSUME OngoingInv, UNCHANGED <<playing, gor, gameCtx>>,
           server' \in [Challenges -> {"new", "offered", "accepted", "started", "finished", "gone"}],
           \A c \in Challenges : server[c] = "finished" => server'[c] = "finished",
           events' \in Seq(Events),
           \A c \in Challenges : EndReported(c)' => server'[c] = "finished"
    PROVE  OngoingInv'
  BY DEF OngoingInv, Ended

\* Nor does reading an event: what is left was there before.
LEMMA EventRead ==
    ASSUME OngoingInv, NEW kind, NEW c \in Challenges, Reads(kind, c)
    PROVE  /\ events' \in Seq(Events)
           /\ \A d \in Challenges : EndReported(d)' => EndReported(d)
           /\ kind = "gameFinish" => EndReported(c)
<1>1. events # <<>> /\ events' = Tail(events) /\ Head(events) = Event(kind, c)
  BY DEF Reads
<1>2. /\ events' \in Seq(Events)
      /\ Len(events) \in Nat \ {0} /\ Len(events') = Len(events) - 1
      /\ \A i \in 1 .. Len(events') : events'[i] = events[i + 1]
  BY <1>1 DEF OngoingInv
<1>3. events[1] = Event(kind, c)
  BY <1>1 DEF OngoingInv
<1>. QED BY <1>2, <1>3 DEF EndReported, Event

\* finishGame cancels the goroutine the map names, once the game has ended.
LEMMA FinishesEnded ==
    ASSUME OngoingInv, NEW c \in Challenges, FinishGame(c), server[c] = "finished", UNCHANGED server,
           gor' \in [Challenges -> [Runs -> {"none", "playing", "returned", "gone"}]],
           \A d \in Challenges \ {c} : gor'[d] = gor[d],
           events' \in Seq(Events),
           \A d \in Challenges : EndReported(d)' => EndReported(d)
    PROVE  OngoingInv'
<1>1. playing' \in [Challenges -> 0 .. MaxRuns]
  BY BotConstants DEF OngoingInv, FinishGame
<1>2. /\ gameCtx' \in [Challenges -> [Runs -> {"live", "cancelled"}]]
      /\ \A d \in Challenges \ {c} : gameCtx'[d] = gameCtx[d]
  <2>1. CASE playing[c] = 0
    BY <2>1 DEF OngoingInv, FinishGame
  <2>2. CASE playing[c] # 0
    <3>1. playing[c] \in Runs
      BY <2>2, BotConstants DEF OngoingInv, Runs
    <3>. QED BY <2>2, <3>1 DEF OngoingInv, FinishGame
  <2>. QED BY <2>1, <2>2
<1>3. \A d \in Challenges, n \in Runs : Ended(d, n)' => server'[d] = "finished"
  <2>. SUFFICES ASSUME NEW d \in Challenges, NEW n \in Runs, Ended(d, n)'
                PROVE  server'[d] = "finished"
    OBVIOUS
  <2>1. d = c \/ (gor'[d] = gor[d] /\ gameCtx'[d] = gameCtx[d])
    BY <1>2
  <2>. QED BY <2>1 DEF OngoingInv, Ended
<1>4. \A d \in Challenges : EndReported(d)' => server'[d] = "finished"
  BY DEF OngoingInv
<1>. QED BY <1>1, <1>2, <1>3, <1>4 DEF OngoingInv

\* Appending an event to the stream adds that event and nothing else.
LEMMA EventAdded ==
    ASSUME OngoingInv, NEW kind \in {"challenge", "gameStart", "gameFinish"},
           NEW c \in Challenges, Emit(kind, c)
    PROVE  /\ events' \in Seq(Events)
           /\ \A d \in Challenges :
                EndReported(d)' => EndReported(d) \/ (kind = "gameFinish" /\ d = c)
<1>1. events' = Append(events, Event(kind, c)) /\ Len(events) \in Nat
  BY DEF Emit, OngoingInv
<1>2. Event(kind, c) \in Events
  BY DEF Event, Events
<1>3. events' \in Seq(Events)
  BY <1>1, <1>2 DEF OngoingInv
<1>4. Len(events') = Len(events) + 1 /\ events'[Len(events) + 1] = Event(kind, c)
      /\ \A i \in 1 .. Len(events) : events'[i] = events[i]
  BY <1>1 DEF OngoingInv
<1>. QED BY <1>1, <1>3, <1>4 DEF EndReported, Event

\* The invariant is inductive.
LEMMA OngoingStep == ASSUME OngoingInv, [Next]_vars PROVE OngoingInv'
<1>1. CASE Reconnect
  <2>1. events' \in Seq(Events) /\ \A c \in Challenges : ~EndReported(c)'
    BY <1>1, StreamBegins
  <2>. QED BY <1>1, <2>1, OngoingKept DEF Reconnect, OngoingInv, slotVars, gameVars
<1>2. ASSUME NEW c \in Challenges, Lichess(c) PROVE OngoingInv'
  <2>1. CASE Withdraw(c)
    <3>1. UNCHANGED <<events, playing, gor, gameCtx>>
      BY <2>1 DEF Withdraw, slotVars, gameVars
    <3>2. /\ server' \in [Challenges -> {"new", "offered", "accepted", "started", "finished", "gone"}]
          /\ \A d \in Challenges : server[d] = "finished" => server'[d] = "finished"
      BY <2>1 DEF Withdraw, Becomes, OngoingInv
    <3>. QED BY <3>1, <3>2, OngoingKept DEF OngoingInv, EndReported
  <2>2. ASSUME NEW kind \in {"challenge", "gameStart", "gameFinish"}, NEW from, NEW to,
               Becomes(c, from, to), Emit(kind, c), UNCHANGED <<playing, gor, gameCtx>>,
               from \in SUBSET {"new", "accepted", "started"},
               to \in {"offered", "started", "finished"},
               kind = "gameFinish" => to = "finished"
        PROVE  OngoingInv'
    <3>1. /\ server' \in [Challenges -> {"new", "offered", "accepted", "started", "finished", "gone"}]
          /\ \A d \in Challenges : server[d] = "finished" => server'[d] = "finished"
          /\ server'[c] = to
      BY <2>2 DEF Becomes, OngoingInv
    <3>2. events' \in Seq(Events)
          /\ \A d \in Challenges : EndReported(d)' => EndReported(d) \/ (kind = "gameFinish" /\ d = c)
      BY <2>2, EventAdded
    <3>3. \A d \in Challenges : EndReported(d)' => server'[d] = "finished"
      BY <2>2, <3>1, <3>2 DEF OngoingInv
    <3>. QED BY <2>2, <3>1, <3>2, <3>3, OngoingKept
  <2>3. CASE Offer(c)
    BY <2>2, <2>3 DEF Offer, slotVars, gameVars
  <2>4. CASE GameStarts(c)
    BY <2>2, <2>4 DEF GameStarts, slotVars, gameVars
  <2>5. CASE GameFinishes(c)
    BY <2>2, <2>5 DEF GameFinishes, slotVars, gameVars
  <2>. QED BY <1>2, <2>1, <2>3, <2>4, <2>5 DEF Lichess
<1>3. ASSUME NEW c \in Challenges, DeclineChallenge(c) \/ ReserveSlot(c) PROVE OngoingInv'
  <2>1. Reads("challenge", c) /\ UNCHANGED <<server, playing, gor, gameCtx>>
    BY <1>3 DEF DeclineChallenge, ReserveSlot, slotVars, gameVars
  <2>. QED BY <2>1, EventRead, OngoingKept DEF OngoingInv
<1>4. ASSUME NEW c \in Challenges, Declined(c) \/ AcceptSucceeds(c) \/ AcceptFails(c)
      PROVE  OngoingInv'
  <2>1. UNCHANGED <<events, playing, gor, gameCtx>>
    BY <1>4 DEF Declined, AcceptSucceeds, AcceptFails, ReleaseSlot, slotVars, gameVars
  <2>2. server' = server \/ server' = [server EXCEPT ![c] = "new"]
        \/ server' = [server EXCEPT ![c] = "accepted"]
    BY <1>4 DEF Declined, AcceptSucceeds, AcceptFails, Becomes
  <2>3. server' # server => server[c] = "offered"
    BY <1>4 DEF Declined, AcceptSucceeds, AcceptFails, Becomes
  <2>4. /\ server' \in [Challenges -> {"new", "offered", "accepted", "started", "finished", "gone"}]
        /\ \A d \in Challenges : server[d] = "finished" => server'[d] = "finished"
    BY <2>2, <2>3 DEF OngoingInv
  <2>. QED BY <2>1, <2>4, OngoingKept DEF OngoingInv, EndReported
<1>5. ASSUME NEW c \in Challenges, StartGame(c) PROVE OngoingInv'
  <2>1. Reads("gameStart", c) /\ server' = server
    BY <1>5 DEF StartGame
  <2>2. CASE playing[c] # 0
    <3>1. UNCHANGED <<playing, gor, gameCtx>>
      BY <1>5, <2>2 DEF StartGame, slotVars, gameVars
    <3>. QED BY <2>1, <3>1, EventRead, OngoingKept DEF OngoingInv
  <2>3. CASE playing[c] = 0
    <3>1. PICK n \in Runs : /\ playing' = [playing EXCEPT ![c] = n]
                            /\ gor' = [gor EXCEPT ![c][n] = "playing"]
                            /\ gameCtx' = gameCtx
      BY <1>5, <2>3 DEF StartGame
    <3>2. playing' \in [Challenges -> 0 .. MaxRuns]
      BY <3>1, BotConstants DEF OngoingInv, Runs
    <3>3. gor' \in [Challenges -> [Runs -> {"none", "playing", "returned", "gone"}]]
      BY <3>1 DEF OngoingInv
    <3>4. \A d \in Challenges, m \in Runs : Ended(d, m)' => Ended(d, m)
      BY <3>1 DEF OngoingInv, Ended
    <3>. QED BY <2>1, <3>1, <3>2, <3>3, <3>4, EventRead DEF OngoingInv
  <2>. QED BY <2>2, <2>3
<1>6. ASSUME NEW c \in Challenges, GameFinishEvent(c) PROVE OngoingInv'
  <2>1. Reads("gameFinish", c) /\ FinishGame(c) /\ UNCHANGED <<server, gor>>
    BY <1>6 DEF GameFinishEvent
  <2>2. EndReported(c) /\ server[c] = "finished"
    BY <2>1, EventRead DEF OngoingInv
  <2>. QED BY <2>1, <2>2, EventRead, FinishesEnded DEF OngoingInv
<1>7. ASSUME NEW c \in Challenges, ReservationExpires(c) PROVE OngoingInv'
  <2>1. UNCHANGED <<server, events, playing, gor, gameCtx>>
    BY <1>7 DEF ReservationExpires, serverVars, gameVars
  <2>. QED BY <2>1, OngoingKept DEF OngoingInv, EndReported
<1>8. ASSUME NEW c \in Challenges, NEW n \in Runs, PlayGameReturns(c, n) PROVE OngoingInv'
  <2>1. /\ gor' = [gor EXCEPT ![c][n] = "returned"]
        /\ UNCHANGED <<server, events, playing, gameCtx>>
    BY <1>8 DEF PlayGameReturns, serverVars, slotVars
  <2>2. server[c] = "finished"
    BY <1>8 DEF PlayGameReturns, OngoingInv, Ended
  <2>3. gor' \in [Challenges -> [Runs -> {"none", "playing", "returned", "gone"}]]
    BY <2>1 DEF OngoingInv
  <2>4. \A d \in Challenges, m \in Runs : Ended(d, m)' => Ended(d, m) \/ d = c
    BY <2>1 DEF OngoingInv, Ended
  <2>. QED BY <2>1, <2>2, <2>3, <2>4 DEF OngoingInv, EndReported
<1>9. ASSUME NEW c \in Challenges, NEW n \in Runs, DeferredFinish(c, n) PROVE OngoingInv'
  <2>1. /\ gor[c][n] = "returned" /\ gor' = [gor EXCEPT ![c][n] = "gone"]
        /\ FinishGame(c) /\ UNCHANGED <<server, events>>
    BY <1>9 DEF DeferredFinish, serverVars
  <2>2. server[c] = "finished"
    BY <2>1 DEF OngoingInv, Ended
  <2>3. /\ gor' \in [Challenges -> [Runs -> {"none", "playing", "returned", "gone"}]]
        /\ \A d \in Challenges \ {c} : gor'[d] = gor[d]
    BY <2>1 DEF OngoingInv
  <2>. QED BY <2>1, <2>2, <2>3, FinishesEnded DEF OngoingInv, EndReported
<1>10. CASE UNCHANGED vars
  <2>1. UNCHANGED <<server, events, playing, gor, gameCtx>>
    BY <1>10 DEF vars, serverVars, slotVars, gameVars
  <2>. QED BY <2>1, OngoingKept DEF OngoingInv, EndReported
<1>. QED BY <1>1, <1>2, <1>3, <1>4, <1>5, <1>6, <1>7, <1>8, <1>9, <1>10
         DEF Next, EventLoop, Game

\* The two callers of finishGame, the gameFinish event and the goroutine's defer, and
\* the events repeated after a reconnect never cancel a goroutine whose game is still
\* under way, an older goroutine's end included.
THEOREM OngoingNeverCancelled == Spec => []OngoingNotCancelled
<1>1. ASSUME Init PROVE OngoingInv
  <2>1. events \in Seq(Events)
        /\ Len(events) = 0
    BY <1>1 DEF Init
  <2>. QED BY <1>1, <2>1, BotConstants DEF Init, OngoingInv, EndReported, Ended
<1>2. OngoingInv => OngoingNotCancelled
  BY DEF OngoingInv, OngoingNotCancelled, Ended
<1>. QED BY <1>1, <1>2, OngoingStep, PTL DEF Spec
=============================================================================
