-------------------------------- MODULE Bot --------------------------------
(***************************************************************************)
(* The Lichess bot (internal/lichess/bot.go): the event loop that answers  *)
(* challenges and starts games, the goroutine each game runs in, and the   *)
(* two maps they share under one mutex: playing, the games with a          *)
(* goroutine, and accepted, reservations for games yet to start.           *)
(*                                                                         *)
(* Lichess is modelled as far as the code relies on it: a challenge is     *)
(* offered, may be withdrawn, also after it was accepted, and becomes a    *)
(* game with the same id; the event stream reports that in order, may be   *)
(* cut at any time losing what it had not delivered, and begins again with *)
(* the challenges pending and the games under way.  A declined             *)
(* or withdrawn challenge may be sent again.                               *)
(***************************************************************************)
EXTENDS Integers, FiniteSets, SequencesExt

CONSTANTS
    Challenges,   \* ids of challenges, and of the games they become
    Unwanted,     \* those declined for variant, rating or time control
    MaxConcurrentGames,
    MaxRuns,      \* bound: goroutines a game may be given
    MaxFaults,    \* bound: requests that fail, or whose reply is lost
    MaxCuts       \* bound: times the event stream is cut

ASSUME BotConstants ==
    /\ IsFiniteSet(Challenges) /\ Unwanted \subseteq Challenges
    /\ MaxConcurrentGames \in Nat \ {0}
    /\ MaxRuns \in Nat /\ MaxRuns > MaxCuts /\ MaxFaults \in Nat /\ MaxCuts \in Nat

VARIABLES
    server,       \* what Lichess knows of each challenge
    events,       \* delivered by Lichess and not yet read from the event stream
    declining,    \* the challenge the event loop waits to decline, {} if none
    accepting,    \* the challenge it waits to accept, {} if none
    playing,      \* goroutine that owns each game in the map, 0 when it is not in it
    accepted,     \* reservations
    expired,      \* those older than acceptedGameTimeout
    gor,          \* the goroutines: what each is doing
    gameCtx,      \* and its context
    unreserved,   \* history: games started without a reservation
    faults, cuts

serverVars == <<server, events>>
loopVars   == <<declining, accepting>>
slotVars   == <<playing, accepted, expired, unreserved>>
gameVars   == <<gor, gameCtx>>
vars == <<serverVars, loopVars, slotVars, gameVars, faults, cuts>>

Runs == 1 .. MaxRuns
InMap == {c \in Challenges : playing[c] # 0}
Reading == declining = {} /\ accepting = {}
InFlight == Cardinality(InMap) + Cardinality(accepted)

Event(kind, c) == [kind |-> kind, id |-> c]
Emit(kind, c) == events' = Append(events, Event(kind, c))
Fault == faults < MaxFaults /\ faults' = faults + 1

-----------------------------------------------------------------------------
Init ==
    /\ server = [c \in Challenges |-> "new"] /\ events = <<>>
    /\ declining = {} /\ accepting = {}
    /\ playing = [c \in Challenges |-> 0] /\ accepted = {} /\ expired = {} /\ unreserved = {}
    /\ gor = [c \in Challenges |-> [n \in Runs |-> "none"]]
    /\ gameCtx = [c \in Challenges |-> [n \in Runs |-> "live"]]
    /\ faults = 0 /\ cuts = 0

(***************************************************************************)
(* Lichess.                                                                *)
(***************************************************************************)
Becomes(c, from, to) == server[c] \in from /\ server' = [server EXCEPT ![c] = to]

\* Sent again it stands for a new challenge, so not while the old one is unread.
Offer(c) ==
    /\ Event("challenge", c) \notin Range(events)
    /\ Becomes(c, {"new"}, "offered") /\ Emit("challenge", c)
    /\ UNCHANGED <<loopVars, slotVars, gameVars, faults, cuts>>

\* The challenger may send another; one that was accepted is gone for good.
Withdraw(c) ==
    /\ Becomes(c, {"offered"}, "new") \/ Becomes(c, {"accepted"}, "gone")
    /\ UNCHANGED <<events, loopVars, slotVars, gameVars, faults, cuts>>

GameStarts(c) ==
    /\ Becomes(c, {"accepted"}, "started") /\ Emit("gameStart", c)
    /\ UNCHANGED <<loopVars, slotVars, gameVars, faults, cuts>>

GameFinishes(c) ==
    /\ Becomes(c, {"started"}, "finished") /\ Emit("gameFinish", c)
    /\ UNCHANGED <<loopVars, slotVars, gameVars, faults, cuts>>

\* Mutant: The games' contexts end with the event stream.
CutEndsGames ==
    /\ Reading /\ cuts < MaxCuts /\ cuts' = cuts + 1
    /\ events' = <<>>
    /\ gameCtx' = [c \in Challenges |-> [n \in Runs |->
                    IF gor[c][n] = "playing" THEN "cancelled" ELSE gameCtx[c][n]]]
    /\ UNCHANGED <<server, loopVars, slotVars, gor, faults>>

\* The loop in Run: StreamEvents returns and is called again.
Reconnect ==
    /\ Reading /\ cuts < MaxCuts
    /\ cuts' = cuts + 1
    /\ events' = SetToSeq({Event("challenge", c) : c \in {d \in Challenges : server[d] = "offered"}}
                          \cup {Event("gameStart", c) : c \in {d \in Challenges : server[d] = "started"}})
    /\ UNCHANGED <<server, loopVars, slotVars, gameVars, faults>>

(***************************************************************************)
(* handleEvent, on the goroutine that reads the event stream.              *)
(***************************************************************************)
Reads(kind, c) ==
    /\ Reading /\ events # <<>> /\ Head(events) = Event(kind, c)
    /\ events' = Tail(events)

\* Mutant: counts only the games that run.
DeclineCountingGames(c) == c \in Unwanted \/ Cardinality(InMap) >= MaxConcurrentGames

Declines(c) == c \in Unwanted \/ InFlight >= MaxConcurrentGames

DeclineChallenge(c) ==
    /\ Reads("challenge", c) /\ Declines(c)
    /\ declining' = {c}
    /\ UNCHANGED <<server, accepting, slotVars, gameVars, faults, cuts>>

\* Only this goroutine adds to the maps, so declineReason's look at them and
\* reserveSlot are one step.  reserveSlot also drops expired reservations.
ReserveSlot(c) ==
    /\ Reads("challenge", c) /\ ~Declines(c)
    /\ accepted' = (accepted \ expired) \cup {c} /\ expired' = {}
    /\ accepting' = {c}
    /\ UNCHANGED <<server, declining, playing, unreserved, gameVars, faults, cuts>>

Declined(c) ==
    /\ declining = {c} /\ declining' = {}
    /\ \/ Becomes(c, {"offered"}, "new") /\ faults' = faults
       \/ server[c] # "offered" /\ UNCHANGED <<server, faults>>
       \/ server[c] = "offered" /\ Fault /\ server' = server
    /\ UNCHANGED <<events, accepting, slotVars, gameVars, cuts>>

ReleaseSlot(c) ==
    /\ accepted' = accepted \ {c} /\ expired' = expired \ {c}
    /\ UNCHANGED <<playing, unreserved>>

AcceptSucceeds(c) ==
    /\ accepting = {c} /\ accepting' = {}
    /\ Becomes(c, {"offered"}, "accepted")
    /\ UNCHANGED <<events, declining, slotVars, gameVars, faults, cuts>>

\* Refused, not sent, or sent with the reply lost.
AcceptFails(c) ==
    /\ accepting = {c} /\ accepting' = {}
    /\ \/ server[c] # "offered" /\ UNCHANGED <<server, faults>>
       \/ server[c] = "offered" /\ Fault /\ server' = server
       \/ Becomes(c, {"offered"}, "accepted") /\ Fault
    /\ ReleaseSlot(c)
    /\ UNCHANGED <<events, declining, gameVars, cuts>>

\* acceptedGameTimeout passes with the game not started.
ReservationExpires(c) ==
    /\ c \in accepted \ expired /\ c \notin accepting
    /\ expired' = expired \cup {c}
    /\ UNCHANGED <<serverVars, loopVars, playing, accepted, unreserved, gameVars, faults, cuts>>

\* Mutant: Starts only the games a reservation was kept for.
StartReserved(c) ==
    /\ Reads("gameStart", c)
    /\ IF playing[c] # 0 \/ c \notin accepted
       THEN UNCHANGED <<slotVars, gameVars>>
       ELSE /\ accepted' = accepted \ {c} /\ expired' = expired \ {c}
            /\ playing' = [playing EXCEPT ![c] = 1]
            /\ gor' = [gor EXCEPT ![c][1] = "playing"]
            /\ UNCHANGED <<unreserved, gameCtx>>
    /\ UNCHANGED <<server, loopVars, faults, cuts>>

\* A repeated gameStart of a game in the map changes nothing.
StartGame(c) ==
    /\ Reads("gameStart", c)
    /\ IF playing[c] # 0
       THEN UNCHANGED <<slotVars, gameVars>>
       ELSE \E n \in Runs :
            /\ gor[c][n] = "none" /\ \A m \in Runs : m < n => gor[c][m] # "none"
            /\ accepted' = accepted \ {c} /\ expired' = expired \ {c}
            /\ unreserved' = IF c \in accepted THEN unreserved ELSE unreserved \cup {c}
            /\ playing' = [playing EXCEPT ![c] = n]
            /\ gor' = [gor EXCEPT ![c][n] = "playing"]
            /\ UNCHANGED gameCtx
    /\ UNCHANGED <<server, loopVars, faults, cuts>>

\* finishGame: whatever goroutine the map names is cancelled.
FinishGame(c) ==
    /\ accepted' = accepted \ {c} /\ expired' = expired \ {c}
    /\ playing' = [playing EXCEPT ![c] = 0]
    /\ gameCtx' = IF playing[c] = 0 THEN gameCtx
                  ELSE [gameCtx EXCEPT ![c][playing[c]] = "cancelled"]
    /\ UNCHANGED unreserved

GameFinishEvent(c) ==
    /\ Reads("gameFinish", c)
    /\ FinishGame(c)
    /\ UNCHANGED <<server, loopVars, gor, faults, cuts>>

(***************************************************************************)
(* A game's goroutine.  Every connection to the game stream begins with    *)
(* the game's state, so its end is seen in the end; an error while it is   *)
(* under way only reconnects.                                              *)
(***************************************************************************)
PlayGameReturns(c, n) ==
    /\ gor[c][n] = "playing"
    /\ server[c] = "finished" \/ gameCtx[c][n] = "cancelled"
    /\ gor' = [gor EXCEPT ![c][n] = "returned"]
    /\ UNCHANGED <<serverVars, loopVars, slotVars, gameCtx, faults, cuts>>

\* Mutant: Leaves the map to the gameFinish event.
ReturnOnly(c, n) ==
    /\ gor[c][n] = "returned"
    /\ gor' = [gor EXCEPT ![c][n] = "gone"]
    /\ UNCHANGED <<serverVars, loopVars, slotVars, gameCtx, faults, cuts>>

DeferredFinish(c, n) ==
    /\ gor[c][n] = "returned"
    /\ gor' = [gor EXCEPT ![c][n] = "gone"]
    /\ FinishGame(c)
    /\ UNCHANGED <<serverVars, loopVars, faults, cuts>>

Lichess(c) == Offer(c) \/ Withdraw(c) \/ GameStarts(c) \/ GameFinishes(c)

EventLoop ==
    \E c \in Challenges :
        \/ DeclineChallenge(c) \/ Declined(c)
        \/ ReserveSlot(c) \/ AcceptSucceeds(c) \/ AcceptFails(c)
        \/ StartGame(c) \/ GameFinishEvent(c)

Game(c, n) == PlayGameReturns(c, n) \/ DeferredFinish(c, n)

Next ==
    \/ Reconnect \/ EventLoop
    \/ \E c \in Challenges : Lichess(c) \/ ReservationExpires(c) \/ \E n \in Runs : Game(c, n)

Spec == Init /\ [][Next]_vars

\* The goroutines run, requests end, and an accepted challenge that is not
\* withdrawn starts.  A game may go on for ever.
Fairness ==
    /\ WF_vars(EventLoop)
    /\ \A c \in Challenges :
        /\ WF_vars(GameStarts(c))
        /\ \A n \in Runs : WF_vars(Game(c, n))

FairSpec == Spec /\ Fairness
-----------------------------------------------------------------------------
TypeOK ==
    /\ server \in [Challenges -> {"new", "offered", "accepted", "started", "finished", "gone"}]
    /\ events \in Seq([kind : {"challenge", "gameStart", "gameFinish"}, id : Challenges])
    /\ declining \in SUBSET Challenges /\ accepting \in SUBSET accepted
    /\ declining = {} \/ accepting = {}
    /\ playing \in [Challenges -> 0 .. MaxRuns]
    /\ accepted \in SUBSET Challenges /\ expired \in SUBSET accepted
    /\ unreserved \in SUBSET Challenges
    /\ gor \in [Challenges -> [Runs -> {"none", "playing", "returned", "gone"}]]
    /\ gameCtx \in [Challenges -> [Runs -> {"live", "cancelled"}]]
    /\ faults \in Nat /\ cuts \in Nat

\* declineReason's capacity, burst or not: games that went through a reservation
\* and reservations together never exceed MaxConcurrentGames.  Only a game whose
\* reservation was dropped too early can come on top.
CapacityKept ==
    Cardinality((InMap \cup accepted) \ unreserved) <= MaxConcurrentGames

\* A game under way is not given up: its goroutine's context is not cancelled
\* by the end of an older goroutine, a repeated event or a late one.
OngoingNotCancelled ==
    \A c \in Challenges, n \in Runs :
        gor[c][n] = "playing" /\ server[c] = "started" => gameCtx[c][n] = "live"

\* A game under way is played, even when its gameStart was lost with the
\* stream, unless it ends first.
GamesPlayed ==
    \A c \in Challenges : server[c] = "started" ~> (playing[c] # 0 \/ server[c] = "finished")

\* A finished game leaves the map for good, although its gameFinish may be lost
\* and a gameStart may still be on its way.
SlotsFreed ==
    \A c \in Challenges : server[c] = "finished" ~> [](playing[c] = 0)
=============================================================================
