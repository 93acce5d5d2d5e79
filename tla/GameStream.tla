----------------------------- MODULE GameStream -----------------------------
(***************************************************************************)
(* One game of the Lichess bot (internal/lichess/bot.go: playGame, handle, *)
(* begin, maybeMove; client.go: stream): the game's stream of states, the  *)
(* search each state on our turn starts, the move posted after it, and the *)
(* reconnecting loop around them.  Bot.tla has the goroutine this runs in. *)
(*                                                                         *)
(* A game has no takebacks here, so the number of moves played names the   *)
(* position.  Lichess is modelled as far as the code relies on it: it      *)
(* sends the state on every change, begins a stream with the whole state,  *)
(* may send a state it has sent already, closes the stream of a finished   *)
(* game, and takes a move when it is ours to make and legal.               *)
(***************************************************************************)
EXTENDS Naturals, SequencesExt

CONSTANTS
    MaxPly,       \* bound: the move that mates
    Claimable,    \* positions drawn if a player claims it: Outcome reports a draw
    MaxRepeats,   \* bound: states sent again
    MaxFaults     \* bound: requests and streams that fail, and streams closed early

Plies == 0 .. MaxPly

ASSUME StreamConstants ==
    /\ MaxPly \in Nat \ {0} /\ MaxRepeats \in Nat /\ MaxFaults \in Nat
    /\ Claimable \subseteq Plies

VARIABLES
    ply, finished,   \* the game, as Lichess has it
    ours,            \* parity of the positions in which it is our turn
    conn,            \* the stream: "none", "open", "closed" or "broken" by Lichess
    lines,           \* sent on it and not yet scanned
    pc, chosen,      \* playGame, and the position its move was searched in
    started, over,   \* fields of game
    stopping,        \* the context has ended
    again,           \* history: positions whose state was sent again on this stream
    repeats, faults

serverVars == <<ply, finished, ours>>
streamVars == <<conn, lines, again>>
gameVars   == <<started, over>>
boundVars  == <<repeats, faults>>
allVars == <<serverVars, streamVars, pc, chosen, gameVars, stopping, boundVars>>

Ours(p) == p % 2 = ours
Line(full, p, fin) == [full |-> full, ply |-> p, fin |-> fin]

StreamInit ==
    /\ ply = 0 /\ finished = FALSE /\ ours \in {0, 1}
    /\ conn = "none" /\ lines = <<>>
    /\ pc = "connecting" /\ chosen = 0
    /\ started = FALSE /\ over = FALSE /\ stopping = FALSE
    /\ again = {}
    /\ repeats = 0 /\ faults = 0

Fault == faults < MaxFaults /\ faults' = faults + 1

-----------------------------------------------------------------------------
(* Lichess. *)

Tell(p, fin) ==
    /\ lines' = IF conn = "open" THEN Append(lines, Line(FALSE, p, fin)) ELSE lines
    /\ conn' = conn

\* The last move ends the game.
Advance ==
    /\ ply' = ply + 1 /\ finished' = (ply + 1 = MaxPly) /\ ours' = ours
    /\ Tell(ply + 1, ply + 1 = MaxPly)

OpponentMoves ==
    /\ ~finished /\ ~Ours(ply)
    /\ Advance
    /\ UNCHANGED <<pc, chosen, gameVars, stopping, again, boundVars>>

\* A resignation, a flag, a draw by agreement.
EndGame ==
    /\ ~finished
    /\ finished' = TRUE /\ ply' = ply /\ ours' = ours
    /\ Tell(ply, TRUE)
    /\ UNCHANGED <<pc, chosen, gameVars, stopping, again, boundVars>>

\* A draw offer, or a change the stream had begun with.
SendAgain ==
    /\ conn = "open" /\ ~finished
    /\ repeats < MaxRepeats /\ repeats' = repeats + 1
    /\ Tell(ply, FALSE)
    /\ again' = again \cup {ply}
    /\ UNCHANGED <<serverVars, pc, chosen, gameVars, stopping, faults>>

CloseStream ==
    /\ conn = "open"
    /\ \/ finished /\ faults' = faults
       \/ ~finished /\ Fault
    /\ conn' = "closed" /\ lines' = lines
    /\ UNCHANGED <<serverVars, pc, chosen, gameVars, stopping, again, repeats>>

\* What had not been received is lost.
BreakStream ==
    /\ conn = "open" /\ Fault
    /\ conn' = "broken"
    /\ \E n \in 0 .. Len(lines) : lines' = SubSeq(lines, 1, n)
    /\ UNCHANGED <<serverVars, pc, chosen, gameVars, stopping, again, repeats>>

-----------------------------------------------------------------------------
(* playGame. *)

Goto(l) == pc' = l /\ UNCHANGED <<chosen, gameVars, stopping, serverVars>>
Drop == conn' = "none" /\ lines' = <<>> /\ again' = {}

\* StreamGame returned.
AfterStream(l) == Goto(IF stopping \/ over THEN "returned" ELSE l)

Connect ==
    /\ pc = "connecting"
    /\ conn' = "open" /\ lines' = <<Line(TRUE, ply, finished)>>
    /\ again' = {}
    /\ Goto("reading")
    /\ UNCHANGED boundVars

ConnectFails ==
    /\ pc = "connecting"
    /\ Fault \/ (stopping /\ faults' = faults)
    /\ Drop /\ AfterStream("waiting")
    /\ UNCHANGED repeats

\* sleepCtx: the backoff, or the wait after a rate limit.
Wake ==
    /\ pc = "waiting"
    /\ Goto(IF stopping THEN "returned" ELSE "connecting")
    /\ UNCHANGED <<streamVars, boundVars>>

\* Mutant: g.over is not looked at when the stream has ended.
StreamEndsForgetful ==
    /\ pc = "reading" /\ lines = <<>> /\ conn \in {"closed", "broken"}
    /\ Drop /\ Goto(IF conn = "closed" THEN "connecting" ELSE "waiting")
    /\ UNCHANGED boundVars

\* The scanner has no more lines: a clean close reconnects without a wait.
StreamEnds ==
    /\ pc = "reading" /\ lines = <<>> /\ conn \in {"closed", "broken"}
    /\ Drop /\ AfterStream(IF conn = "closed" THEN "connecting" ELSE "waiting")
    /\ UNCHANGED boundVars

\* handle: begin for a gameFull, then maybeMove.  It searches when the line says
\* the game goes on, it is our turn and Outcome has not ended the game.
MaybeMove(m) ==
    /\ started' = (started \/ m.full)
    /\ over' = (over \/ (started' /\ m.fin))
    /\ IF started' /\ ~m.fin /\ Ours(m.ply) /\ m.ply \notin Claimable
       THEN pc' = "searching" /\ chosen' = m.ply
       ELSE pc' = pc /\ chosen' = chosen

\* Mutant: the state is taken for the one the stream began with.
ReadLineStale ==
    /\ pc = "reading" /\ lines # <<>> /\ ~stopping
    /\ lines' = Tail(lines) /\ conn' = conn
    /\ MaybeMove(IF Head(lines).full THEN Head(lines) ELSE [Head(lines) EXCEPT !.ply = chosen])
    /\ UNCHANGED <<serverVars, stopping, again, boundVars>>

ReadLine ==
    /\ pc = "reading" /\ lines # <<>> /\ ~stopping
    /\ lines' = Tail(lines) /\ conn' = conn
    /\ MaybeMove(Head(lines))
    /\ UNCHANGED <<serverVars, stopping, again, boundVars>>

Search ==
    /\ pc = "searching"
    /\ Goto("posting")
    /\ UNCHANGED <<streamVars, boundVars>>

\* Lichess takes a move that is legal in its position, which is the case when
\* that is the position it was searched in, and may be in another.
Takes == ~finished /\ Ours(ply)
Refused == ~Takes \/ chosen # ply

Posted ==
    /\ pc \in {"posting", "reposting"} /\ Takes
    /\ Advance
    /\ pc' = "reading"
    /\ UNCHANGED <<chosen, gameVars, stopping, again, boundVars>>

\* The error drops the stream, and playGame waits to reconnect.
PostFails ==
    /\ pc \in {"posting", "reposting"}
    /\ Fault \/ ((Refused \/ stopping) /\ faults' = faults)
    /\ Drop /\ AfterStream("waiting")
    /\ UNCHANGED repeats

\* The move was played and the reply lost.
ReplyLost ==
    /\ pc \in {"posting", "reposting"} /\ Fault
    /\ Takes /\ ply' = ply + 1 /\ finished' = (ply + 1 = MaxPly) /\ ours' = ours
    /\ Drop /\ pc' = IF stopping \/ over THEN "returned" ELSE "waiting"
    /\ UNCHANGED <<chosen, gameVars, stopping, repeats>>

\* Mutant: after the wait the move is forgotten.
RateLimitedDropped ==
    /\ pc = "posting" /\ Fault
    /\ Goto("reading")
    /\ UNCHANGED <<streamVars, repeats>>

\* A first rate limit is waited out, and the move posted once more.
RateLimited ==
    /\ pc = "posting" /\ Fault
    /\ Goto("limited")
    /\ UNCHANGED <<streamVars, repeats>>

Repost ==
    /\ pc = "limited"
    /\ IF stopping THEN Drop /\ Goto("returned") ELSE Goto("reposting") /\ UNCHANGED streamVars
    /\ UNCHANGED boundVars

Stop ==
    /\ ~stopping /\ stopping' = TRUE
    /\ UNCHANGED <<serverVars, streamVars, pc, chosen, gameVars, again, boundVars>>

\* The scanner's read, or the check after a line, ends with the context.
StopReading ==
    /\ pc = "reading" /\ stopping
    /\ Drop /\ Goto("returned")
    /\ UNCHANGED boundVars

Player ==
    \/ Connect \/ ConnectFails \/ Wake \/ StreamEnds \/ ReadLine \/ Search
    \/ Posted \/ PostFails \/ ReplyLost \/ RateLimited \/ Repost \/ StopReading

Lichess == OpponentMoves \/ EndGame \/ SendAgain \/ CloseStream \/ BreakStream

StreamNext == Player \/ Lichess \/ Stop

\* The goroutine runs, timers expire, and Lichess closes a finished game's stream.
StreamSpec == StreamInit /\ [][StreamNext]_allVars /\ WF_allVars(Player) /\ WF_allVars(CloseStream /\ finished)

-----------------------------------------------------------------------------
(* Properties *)

\* A move is played in the position it was searched in, through reconnects, lost
\* replies, rate limits and lines that wait while a search runs.  The one way out
\* is a state sent again on this stream in a turn of ours: its second search may
\* end when a later position is ours, and from then on the bot may be a turn
\* behind until the stream begins anew (bot.go maybeMove).
AppliedWhereChosen ==
    [][ply' # ply /\ Ours(ply) => chosen = ply \/ \E p \in again : Ours(p) /\ p <= chosen]_allVars

Answered(p) ==
    ply = p /\ Ours(p) /\ ~finished ~> ply # p \/ finished \/ stopping

\* Whatever is lost, the bot does not let a position of its own stand for ever,
\* those excepted in which a draw could be claimed (bot.go playGame, maybeMove).
TurnsAnswered == \A p \in Plies \ Claimable : Answered(p)

\* The bot goes on until the server ends the game, as rules.go:129 has it: the
\* claimable draws do not stop it.
PlaysUntilServerEnds == \A p \in Plies : Answered(p)

\* playGame returns after the game or the bot's context has ended (bot.go:349).
GameReturns == finished \/ stopping ~> pc = "returned"
=============================================================================
