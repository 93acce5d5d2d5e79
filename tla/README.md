# Novachess: a TLA+ model of the training pipeline, its store, the bot, the dashboard and the engine

Novachess is a chess engine in Go together with the cluster that trains its
network: a coordinator hands out self-play units over NATS, workers play them
and store the games, a trainer makes a network of a generation's games, a gate
plays the new network against the old one, a dashboard drives the loop, and a
bot plays the result on Lichess. This directory holds a specification of the
parts whose difficulty is the order of events, and of the rules of chess as the
engine implements them, checked with TLC on small instances and, for the safety
properties that matter most, proved with TLAPS for every value of the
constants.

`PROJECT.json` has the same information for tools: which lines each definition
models, what each run checks, for each property a plausible bug that breaks it,
and the hazards of the code. Paths below are relative to `src/`.

Checking: `tlc -config MCGate.cfg MCGate` for a run, `tlapm Gate_proofs.tla`
for a proof module.

---

## 1. The system

| Component | State | Operations | Talks to | What is hard | What makes it correct |
|---|---|---|---|---|---|
| **Coordinator** `internal/coordinator` | units issued, covered, resolved; artifacts and positions counted; `done` | resume from disk, top up the queue, count a batch, announce the dataset | work stream (publish), batch stream (handler), artifact store | two goroutines and one mutex that is released for every I/O; restart with empty memory; redelivery; damaged files | no unit counted twice, completion never missed, queue bounded and never starved by the count, only readable data announced |
| **Worker** `internal/worker` | the unit in hand | play, store, announce, acknowledge | both streams, store | dies or fails between any two of these | a published unit is never lost |
| **Message bus** `internal/bus` | messages retained, held, acknowledged | publish, subscribe, ack, nak, close | everything | at-least-once, AckWait, reply lost after the effect | an unacknowledged unit is offered again |
| **Artifact store** `internal/store` | files, the names they have, what of them has reached the disk | Put, Get, List, Delete, Verify | coordinator, worker, trainer | a crash or power cut inside Put, two writers of one key, left-over temporary files | Put is all or nothing, readers get whole artifacts |
| **Gate** `internal/gate`, `cmd/gatekeeper` | tally, verdict, goroutines and channels of a match | play pairs, fold, test, stop | the engine | verdict, failure and interrupt race with pairs in flight | nothing lost, verdict latches, failures not swallowed, everything unwinds |
| **Bot** `internal/lichess/bot.go` | `playing`, `accepted`, a goroutine per game | answer challenges, start and finish games | Lichess | bursts, lost replies, routine reconnects, late events | capacity, games under way are played, slots freed |
| **A game of the bot** `bot.go` `playGame`, `client.go` | the stream, `started`, `over`, the move in hand | read states, search, post, reconnect | Lichess | states that wait while a search runs, rate limits, lost replies | a move is played where it was searched, no turn is left unanswered |
| **Dashboard** `internal/dashboard` | history file and memory; replicas, jobs in the cluster | guarded controls, job followers, event watch | cluster, bus, volume | several cluster calls per control, crash and torn line, guards on stale records | history claims only what happened, advance only past a promotion |
| **Engine** `internal/uci`, `internal/search` | flags and channels of the running search; the table's words | the UCI commands; Search; Probe and Store | GUI | reader, search goroutine and threads share everything; the table has no locks | commands and answers keep order, a stop ends the search, no foreign entry is used |
| **Search tree** `search/negamax.go` | a position and an evaluator per thread | make, unmake, null moves; alpha-beta and its reductions | table, evaluation | position and evaluator in step; draws scored before mates | every visited node sees the right position and accumulator; reported mates are forced; equals minimax where it does not prune on a guess |
| **Network evaluation** `internal/nnue` | a stack of accumulators | Push, PushNull, Pop, Evaluate, Reset | search | the stack's limit, order of updates | the top is what a refresh would give |
| **Chess rules** `internal/chess` | board in three representations, hash, rights, target, clocks, history | parse a FEN, generate, make, unmake, adjudicate | everything | legality by masks, Chess960 castling, en passant, incremental hash, repetition | moves are those of the laws; unmake inverts make; repetitions and dead positions are exact |
| **Training records** `internal/train/format.go` | – | pack a position, rebuild it | chess rules | rights and target squeezed into a few bits | a record gives back its position |
| **Trainer, game generation** `internal/train` | weights; block files | one sequential run per job | store | numeric | (out of reach, see 7) |
| **Mains, deployment** `cmd`, `deploy` | flags, manifests | wiring | – | – | give the constants their meaning |

How the parts interact: the coordinator publishes units to a *work stream*
(consumed by the workers' queue group), workers write artifacts to the shared
volume and publish *batches* (durable subscription of the coordinator), the
coordinator publishes *dataset ready* (subscription of the dashboard). The
dashboard scales deployments and creates jobs; gate jobs end with a line in
their log that a dashboard goroutine turns into history; the history is what
the next control's guard reads. The engine is used by worker, gate and bot as a
library (`Searcher`) and by a GUI over UCI.

---

## 2. Modules

| Module | Models | Builds on |
|---|---|---|
| `ArtifactStore` | what `store.go` promises of a store | – |
| `FSStore` | `store/fs.go`, the readers of `store.go` and its users | `ArtifactStore`, which it implements |
| `Coordinator` | `internal/coordinator/coordinator.go` | – |
| `SelfPlay` | worker and work stream, composed with the coordinator | `Coordinator`, which it implements |
| `Gate` | `gate/match.go`, `gate/gate.go`, the exit of `cmd/gatekeeper` | – |
| `Bot` | `lichess/bot.go`: events, challenges, slots, goroutines | – |
| `GameStream` | `bot.go` `playGame` to `maybeMove`, the stream of `client.go`: one game | – |
| `History` | `dashboard/history.go` | – |
| `Dashboard` | `dashboard/control.go`, followers of `server.go`, `eventswatch.go` | `History` |
| `TT` | `search/tt.go`, one bucket, word by word | – |
| `Uci` | `uci/uci.go`, `search/search.go` | `TT` |
| `Tree` | `search/negamax.go`, `searchRoot` and `iterate`, the scores of `tt.go`, over graphs | – |
| `Board` | squares, pieces, attacks, lines: `chess/types.go`, `bitboard.go`, `attacks.go` | – |
| `Position` | `chess/position.go`, `castling.go`, `move.go`, `zobrist.go` | `Board` |
| `MoveGen` | `chess/movegen.go` | `Position` |
| `Rules` | `chess/rules.go` | `MoveGen` |
| `Laws` | the laws of chess, stated without the code | names of squares and pieces |
| `Incremental` | `nnue/incremental.go`, `accumulator.go`, `FeatureIndex` | `Position` |
| `Sample` | the packed position of `train/format.go` | `Position` |
| `Line` | a game and a search thread's line: `make` to `unmakeNull` of `search/negamax.go` | `Rules`, `Incremental`, `Laws`, `Sample` |
| `MC*` | instances for TLC | the module named |
| `*_proofs` | theorems; `Play_proofs` is about `Uci` and `GameStream` | the module named |

A definition whose comment begins with "Mutant:" is no part of the model: it is
the changed form of the definition after it, used to see that a property
notices the bug.

### ArtifactStore and FSStore

`ArtifactStore` is the promise: an artifact appears under its key whole, at
once, or not at all; a power cut may bring back one the key held before, and
nothing else. `FSStore` is the code: `dir` binds names to files, `put` is where
each `Put` is (`copying` chunk by chunk, `flushed` after `Sync`, `removing` in
the deferred `Remove`), `GiveUp` is any failure or cancellation on the way.
`flushed` and `past` are what the operating system guarantees: a power cut
empties the chunks that were never flushed, and binds each name to any file it
had since the last one, because nobody flushes the directory. `Kill` stops a
process between any two steps, and its deferred calls do not run. A reader
takes its names from a `List` or a URI and keeps a file open while its name is
replaced. `Drawable` assumes that 64 random bits do not repeat a temporary name
that another `Put` is about to remove.

### Coordinator

`pc` is where `RunGeneration` is (`list`, `scan`, `apply` inside `resume`;
`measure`, `issue` inside `topUp`; `wait` in the select; `announce`), `hstage`
where `handleBatch` is. One lock section is one action; a call to the store or
the bus outside the lock is another. `resolved`, `artifacts`, `positions`,
`done` are the fields under the mutex, `covered`, `issued`, `nextIndex` those
only `RunGeneration` writes. `Exit` resets them all: a restarted process
remembers nothing (`restartPolicy: OnFailure` starts it again). `disk` gives
each artifact's file one of four states, because the code has two checks of
different strength: `countPositions` (framing, `FramingOK`) in resume, and
framing plus `store.Verify` (checksum, `VerifyOK`) in the handler. Who plays
units is left as weak as the code may rely on: `StoreArtifact`, `ReportBatch`
and `Damage` may happen at any time.

### SelfPlay

The pool made concrete: `stream` and `held` are the JetStream work queue (a
message is retained until acknowledged, held between delivery and
acknowledgement, offered again after a nak or AckWait), `wstage` is where each
`Worker.handle` is. `ImplementsCoordinator` says that the composition is a
behaviour of `Coordinator`: workers never report what is not stored, and never
touch a unit that was not published. The mapping is the identity on the
coordinator's variables, so every theorem about `Coordinator` carries over.

### Gate

Feeder, worker goroutines and consuming loop are separate; `indices` and
`results` are unbuffered, so a send and its receive are one action; `errs` is a
buffer of one. `main` goes through the loop, `runPairs`' return (`interrupted`,
`failed`, `finished`) and the process's exit status. What a pair yields is
chosen in `Init` for each index, an opening may be unusable. The test is a
parameter (`LLR`, `Lower`, `Upper`): its arithmetic is floating point.

### Bot

`server` is what Lichess knows of a challenge, `events` its stream. The
event-loop goroutine blocks in its HTTP requests (`declining`, `accepting`);
`playing`, `accepted`, `expired` are the maps under the mutex; `gor` and
`gameCtx` the goroutines and their contexts, numbered per game as the code's
`playing` entries are told apart by identity. A request may fail on this side
with or without effect on the other.

### GameStream

The inside of one of `Bot`'s goroutines. The game has no takebacks, so the
number of moves played names a position. `lines` are the states Lichess has
sent and the scanner has not yet taken; they wait while `handle` searches
(`searching`) and posts (`posting`; `limited`, `reposting` after a rate limit).
`chosen` is the position the move in hand was searched in. A fault is a failed
or rate-limited request, a lost reply, a stream closed early or broken with
part of its lines. Lichess takes a move when it is ours to make and legal; a
move searched in an earlier position may or may not be legal in a later one.

### History and Dashboard

`file` is the sequence of lines, `open` whether the last one lacks its newline;
an append that fails may leave nothing, part of a line, or a whole line that
was not reported. A request is the list of cluster calls its operation makes
(`Steps`), made one at a time, so that other requests, events and a restart
come between. Jobs are numbered within their kind and generation, as their names have the
time: nothing keeps two of them from running at once. A trainer reports its losses, which are recorded
when their line is read, before it writes its network. `followers` are the
goroutines, one for each job, that wait for them; they die with the process and nothing
starts them again.

### TT and Uci

A slot is two words, loaded and stored one at a time. A word that combines key
and data is the record of the two: this assumes that two different pairs never
combine to the same word, as the code's 64-bit hashes do. `op` holds the call
of Probe or Store each thread is in. `Uci` has the reader (`reader`: where
`stopSearch` and the command are), the goroutine of `goCommand` (`runner`:
from `Search`'s start to the deferred close) and the search threads; a thread's
tree is "any number of Probes and Stores, then the end of the iteration or the
discovery that it must stop". `Begin` clears `stopped` as `Search` does, which
may take back the Stop that was meant for it.

### Tree

The search over small graphs: a position is a number, a move the position it
leads to, and an evaluation and the legality of passing are given with the
graph. Everything that decides on a score is kept as the code has it: windows,
re-searches, mate distance pruning, reverse futility, null move, late move
reductions, quiescence, aspiration, table cut-offs, and the conversion of mate
scores between the root's distance and the node's. The table outlives a search.
`Iterate` is one iteration; `Abandon` one that is told to stop after some nodes
and leaves its entries behind; `Help` one of a helper thread, a given number of
iterations ahead, which only leaves entries (its window is centred on the main
thread's score, where the code uses its own). `NextSearch` searches again, the
same position or a later one of the game. Captures are all worth a pawn in delta pruning. Paths
never repeat a position, so repetition and the fifty-move rule stay in `Line`.

### Board, Position, MoveGen, Rules

Pure operators, named as the code's functions. A bitboard is a set of squares;
the tables (`KnightAttacks`, `BetweenBB`, ...) are functions of squares, and
sliding attacks are what the magics index: along a ray, the squares up to and
including the first that is occupied. The three representations of the
board (`board`, `byType`, `byColor`) and the `key` are separate fields of the
position record, each changed only by `PutPiece`, `RemovePiece`, `MovePiece` and
the explicit hashing of `MakeMove`, so that they can come to disagree. A key is
the set of the Zobrist values combined into it, and XOR the symmetric
difference: equal keys are equal sets, collisions of 64-bit sums are left out.
A FEN arrives parsed into fields; `ParseFEN` is what the code makes of them
(flags without a rook and targets nobody can use are dropped, Shredder files,
the outermost rook).

### Laws

The reference `MoveGen` is checked against: what each piece may do, castling by
the squares its king and rook cross, en passant as an option of the next move,
and legality as "the own king is not attacked afterwards", each written from
the rules of chess rather than from the code, with no masks, pins or tables. A
situation is the board, the side, the target (if it can be used) and the rights:
what FIDE compares in a repetition.

### Sample

`EncodeSample` reduces a position to occupancy, pieces in the order of squares,
side, rights and the target's file; `DecodeSample` rebuilds it through the same
`ParseFEN` every other position enters by. The clocks and the history are not
kept. `Line` tries it on each position it reaches from classical starts; the
encoder refuses Chess960.

### Incremental and Line

A half of an accumulator is a sum of feature rows; it is modelled as how often
each row is in it, which determines the sum whatever the weights are. `Cap`
stands for `maxStack`; past it `overflowDepth` counts the levels that only
exist virtually. `Line` moves position and evaluator together: `Play` is a
move of the game (the next search resets its evaluator), `Make`, `Unmake`,
`MakeNull`, `UnmakeNull` what a search thread does below the root. Which
children alpha-beta visits is left open: any legal move, any number of times.

Two assumptions on the starts, `StartsAssumption`, are narrower than what
`ParseFEN` accepts, and both exclude only texts no game produces. A target on the
back rank of the side to move has no square behind it, and
`epCaptureAvailable` would index the board below zero or past its end
(`position.go:442`). A negative halfmove clock is parsed as it stands
(`position.go:550`) and hides as many plies from `RepetitionCount`.

`OrdinaryStarts` is not assumed of them but is the hypothesis of one theorem,
`GeneratorExactHolds`, and the run checks that its own starts satisfy it. It
excludes a FEN whose flags name two rooks for one wing (`HG` with the king left of
both: the second replaces the first in `castlingRook`, but `crMask` keeps revoking
the right on the first one's square too, `castling.go:145`), and a target on a back
rank (`position.go:546` takes any square; capturing there would leave a pawn on
the last rank). Neither comes from a game.

`ClassicalStarts` is in the same way the hypothesis of `SampleRoundTripsHolds`. It
asks, outside Chess960, that castling rooks stand on the corner files, and of any
start that a target is on the rank behind a double push. Both are needed: a record
names a castling rook by its wing only, so that with one of the king's wing on g1
another rook that comes to h1 is taken for it, and the rank of a target follows from the
side to move. `ParseFEN` takes such texts (section 5), the initial position and
every position a game reaches from it are not among them.

---

## 3. The runs

Properties that hold:

| Run | Instance | What it shows |
|---|---|---|
| `store` | 1 key, 2 contents of 2 chunks, 2 writers, 1 reader, 2 temporary names, 3 files, 1 kill, 1 power cut | `ReadsWhole`, `PartialsAccounted`, and the refinement of `ArtifactStore` |
| `coordinator` | 3 units that yield differently (an empty one among them), target 3, queue of 2, 2 lives, 1 damaged artifact or failed read, 1 batch of an old generation | `CountedOnce`, `AnnouncedEnough`, `OutstandingHonest`, `AnnouncedReadable`, `PositionsExact` for every order of resume, handler, redelivery and restart |
| `selfplay` | 2 units (one empty), 1 worker, 2 lives, a worker's fault, fairness | `NoWorkLost`, the refinement of `Coordinator`, and `EventuallyAnnounced`: the generation ends although a worker fails and the coordinator restarts |
| `gate` | 4 pairs on 2 goroutines, every assignment of results and unusable openings, a signal at any time | `NoResultLost`, `CompleteOrExplained`, `ReportExact`, `VerdictLatches`, `Unwinds` |
| `bot` | 3 challenges (1 unwanted), 1 slot, 1 failed request, 1 cut stream | `CapacityKept`, `OngoingNotCancelled`, `GamesPlayed`, `SlotsFreed` |
| `stream` | a game of 5 plies with either colour, a draw that could be claimed after the fourth, 2 states sent again, 2 faults, a stop at any time | `AppliedWhereChosen`, `TurnsAnswered`, `GameReturns` |
| `dashboard` | 2 generations, one request at a time, a failed call, a failed append, a restart; in one of three sessions two gatekeepers of a generation | `HistorySound`, `LossBounded`, `AdvanceJustified`, `VerdictRecorded` |
| `uci` | 3 commands of any kind, 2 threads, 1 slot, 2 positions, 1 Probe, 2 Stores | `AnsweredInOrder`, `HitIsOwn`, `HitIsCurrent`, `StopReturns` |
| `line` | 13 starting positions, each with its number of game and search plies; an accumulator stack of 3 | `UnmakeRestores`, `EvaluationCurrent`, `GeneratorExact`, `RepetitionExact`, `DeadForever`, `SampleRoundTrips` in every position reached |
| `tree` | 72 graphs, 2 searches of 6 iterations, stopped after 10 or 20 nodes, 1 helper's iteration | `MatesSound`, `ScoreExact`, `LineLeads` |

Statements of the repository that the code does not keep (each run ends in the
counterexample):

| Run | Statement | What happens |
|---|---|---|
| `stream_claim` | `rules.go:129`: "The automatic thresholds are exposed separately for callers that must match a server's adjudication, which is the Lichess bot's situation." | `maybeMove` asks `Outcome`, which also ends a game on a draw that has to be claimed: the bot neither claims nor moves, and its clock runs out |
| `tt_generation` | `tt.go:225`: "discounted heavily if it is from an older search" | from the 64th search of a game on, an 8-bit generation is compared with its 6-bit copy and every entry looks old |

### Bounds, and why they are enough

* *Store.* Two writers of one key and a reader meet in every order; two chunks
  are the fewest that make a partial file; two temporary names let one be drawn
  again, and three files let a key be replaced twice. The theorems have no bounds.
* *Coordinator.* Three units are the fewest with one counted, one rejected and
  one still to come while the queue holds two; the empty unit is the one that
  would starve the queue if it were counted as outstanding. `MaxStarts` 2 gives
  one life that leaves artifacts and one that resumes from them. The last life
  is not killed (`Crash` needs another start), so that it runs to its end.
  The program's unit indices do not end; `TopUpDone` at `MaxIndex` is the
  bound's only effect, and the run's target is reachable below it.
* *SelfPlay.* One worker is the hardest case for progress, as nobody else takes
  over; it can still meet a unit it has played before, after AckWait or a lost
  acknowledgement. That several workers hold the same unit is covered by the
  theorems, which hold for any set of workers. No artifact is damaged: with one
  unit that yields and none to replace it the target would be out of reach;
  `coordinator` has the damage.
* *Gate.* Four pairs on two goroutines allow a verdict with a pair in flight
  and another fed after the cancellation; upper bound at one won pair, lower at
  two lost ones, so a straggler can pull the score back inside. Larger counts
  are covered by the theorems.
* *Bot.* One slot and three challenges: capacity is contended and an unwanted
  challenge mixes in. `MaxRuns` exceeds `MaxCuts`, as every cut may start a
  game's goroutine once more.
* *Stream.* Five plies give each colour two moves and leave a turn after the
  claimable position. Two repeated states let a second search run late by one
  turn; two faults let a move be rate-limited and then fail or lose its reply.
* *Dashboard.* Advance needs generations 0 and 1. One client: requests interleave
  with jobs, followers, events and restarts, not with each other; `Clients` is a
  parameter and the theorems hold for any set of them. A behaviour is of one of three
  sessions (`LoopSessions`): the loop once round up to the advance, everything before
  it with stops in between, and training, judging and advancing with two gatekeepers
  of one generation whose verdicts may differ. The theorems hold for any sessions.
* *Uci.* Three commands allow "change, search, change again": the third must
  wait for the second's search. Two stores and a probe are the fewest that
  produce a torn slot and a reader of it. The code's `MaxPly - 1` iterations are
  `MaxDepth` 2, enough to end by depth and by stop.
* *Line.* A start is chosen for each rule that masks and increments get wrong:
  the two-pawn pin of en passant, a pinned capturer and a checking double push;
  Chess960 castling with overlapping squares and with a rook that shields its
  king; promotions; rights lost by capture; repetitions across rights, targets
  and null moves; blocked and open fortresses; check evasions (`MCLine` names
  each). One to six plies from there reach every kind of move and its undo;
  `Cap` 3 is below the longest line, so that the stack runs over and comes back.
  The positions are small, since every node computes the laws of chess. What the
  bounds leave out is depth: perft in the repository counts it from full boards.
* *Tree.* Eleven positions with transpositions at different depths and mates up
  to six moves away, joined to lines whose value is settled, so that six
  iterations reach the end of the tree. Half of the graphs (`rough`) have
  evaluations and null moves that set off each pruning, the other half (`Calm`)
  do not, and there the score has to be the minimax value.
* *TT.* `MaxSearches` 70 passes the 64th search, where 6 bits wrap.

`CHECK_DEADLOCK FALSE` stands where the system may legitimately come to rest:
commands, challenges, pairs, restarts, files and searches run out; a bot or
dashboard without requests has nothing to do; a pipeline that has announced is
finished; a game ends.
`coordinator` checks deadlock, since its pool never rests.

### Fairness

* *Gate*: weak fairness of the whole next-state relation. Each goroutine is
  scheduled by the runtime, and every action consumes something, so no
  goroutine can run for ever in place of another; games end (`MaxPlies`).
* *SelfPlay*: the coordinator's goroutine and the handler are scheduled (weak);
  `select` picks uniformly among ready cases, so a closed `done` is not passed
  over for ever for ticks (strong); the broker offers each unacknowledged
  message again and again while the handler is busy in between (strong); AckWait
  expires for a message nobody works on; the cluster restarts the process.
* *Bot*: the event loop and game goroutines run, requests end, accepted
  challenges start. Nothing is assumed about games ending, the stream being
  cut, or reservations expiring.
* *GameStream*: the goroutine runs, its requests and waits end (weak), and
  Lichess closes the stream of a finished game (weak). Not that the opponent
  moves, nor that the game ends.
* *Dashboard*: only the followers, goroutines that nobody stops.
* *Uci*: the reader, the search goroutine and, per thread, its table calls and
  its check for a stop. Not that an iteration completes, a limit is reached, or
  another command comes.

---

## 4. What is proved

Each proof module follows one scheme: `Init => IInv`, `IInv /\ [Next]_vars =>
IInv'` with one step per action, and the property from `IInv`. All are for
arbitrary constants satisfying the named assumptions.

* **`FSStore_proofs`**: `StoreImplemented` (the refinement of `ArtifactStore`:
  initial states, then each of the fourteen steps maps to a Put or Delete, a
  power cut of the abstract store, or a stutter), `ReadsWholeHolds`,
  `PartialsAccountedHolds`. `StoreInv` says that every file a key is bound to, or may be bound
  to after a power cut, is flushed and full of one content; that a file being
  filled is under its temporary name, that no other `Put` fills it and none is
  about to remove that name; and that what a reader has read so far is all of
  one content, the one its open file has.
* **`SelfPlay_proofs`**, the coordinator: `TypeCorrect`, `CountedOnceHolds`,
  `CompletionNoticedHolds`, `AnnouncedEnoughHolds`, `OutstandingHonestHolds`,
  `QueueBoundedHolds`, `AnnouncedReadableHolds`, `PositionsExactHolds`. Few of these
  are inductive as they stand.
  (`TypeOK`, `CompletionNoticed` and `QueueBounded` are proved and not run: TLC
  checks what follows from them, that the generation ends.)
  `CountingInv` adds that the unit in the handler's hands is resolved and not
  yet counted (which is what the handler relies on when it releases the lock).
  `CompletionInv` adds that a closed `done`, a handler about to close it, and a
  coordinator about to announce each imply the target. `AccountingInv` says that
  `issued` is the number of units covered or published, whatever is skipped,
  and that what topUp still means to publish fits the queue even though it was
  measured earlier. `ReadableInv` carries the result of each check from the
  moment it was made to the announcement. `PositionsExact` needs what the sum
  over a sequence becomes when one artifact is appended (`SumsDef`, `SumAppend`).
* **`SelfPlay_proofs`**, the pipeline: `NoWorkLostHolds`, `PipelineImplementsCoordinator`
  (initial states, then every step maps to a step or a stutter, by
  `WorkerInv`: a worker past its store has stored), and
  `PipelineAnnouncements`, which obtains the coordinator's guarantees for the
  pipeline from the refinement alone.
* **`Gate_proofs`**: `NoResultLostHolds`, `CompleteOrExplainedHolds`,
  `VerdictLatchesHolds`, `ReportExactHolds`, for any number of pairs and goroutines and any test.
  `PairsInv` says that the pairs in workers' hands, delivered and played are
  distinct and accounted for; `CauseInv` that, undisturbed by an interrupt, a
  verdict or a broken pair, nothing was cancelled and every handed-out pair is
  delivered or in flight: only with that does the single place in `errs`
  suffice. `ReportExact` is preserved by a delivery because the earlier partial
  sums stay as they are, so that the first to cross a bound stays the first.
* **`Bot_proofs`**: `CapacityAlwaysKept`, from the map and reservations being
  counted together at every decision; `OngoingNeverCancelled`, from an invariant
  that follows a game from Lichess's side to the goroutine's context: a context
  is cancelled only after an event that says the game has ended.
* **`Play_proofs`**, the bot's stream of one game: `AppliedWhereChosenHolds`, for a
  game of any length. The invariant says that the states in `lines` are in the order of the game and none
  from its future; that at most one of them asks for a move in a turn that was not
  sent again, that it is about the position on the board and is read while no move
  is in hand; and that a move in hand is for the position on the board, with the
  same exception.
* **`Dashboard_proofs`**: `HistorySoundHolds`, `AdvanceJustifiedHolds`,
  `LossBoundedHolds` (the intact lines of the file, counted against the appends that
  succeeded and failed; `Ledger` adds what an unfinished last line still puts at
  stake). For the other two the invariant says that each line of the file and
  each record in memory is true (`FileInv`, `MemoryInv`) and that a follower's pending
  promotion is of a job that promoted (`JobInv`); what a record claims stays true, as
  what a job came to does (`TrueStays`).
* **`Play_proofs`**, the engine: `LocklessSound` (`HitIsOwn`), from `WordsInv`: every word
  ever in a slot is a well-formed pair, and every combined word's data part is
  of its own key; and `AnswersKeepOrder` (`AnsweredInOrder`), from `RunnerInv`,
  `ThreadInv` and `ReaderInv`: the flags, `owed`, the runner's place, the threads
  and the reader's place determine each other; and `ScoresStayCurrent`
  (`HitIsCurrent`): while a command changes table or evaluator no thread is left.
* **`Line_proofs`**: what the engine says of its board, for every board rather
  than the thirteen of the run, from `CapAssumption` and `StartsAssumption` alone
  (some fifteen minutes of `tlapm`).
  - `Sound` is that the three representations, the key, the rights and the target
    of a position agree; `Legal` adds that both kings stand and the side that moved is
    not in check; `LineInv` that the line is a chain of such positions, each made
    from the one before it by the move its record names, with the accumulators of
    each. `LineInvariant` proves it inductive, and `EvaluationIsCurrent`,
    `UnmakeAlwaysRestores`, `RepresentationsAgree`, `KingsAlwaysStand` and
    `MoverAlwaysSafe` follow from it.
  - Undoing a move needs more than its record: that the piece stood where the move
    says and the capture was where the record has it. `UnmakeInvertsMake`,
    `UnmakeInvertsNullMove` and `DeltaExact` (the accumulator updated by a delta is
    the one refreshed) hold for every sound position and fitting move, by kind of
    move.
  - `GeneratedMovesAreLegal`: a move out of the masks never leaves the king in
    check. The masks speak of lines on the board before the move, safety of attacks
    on the board after it; the geometry that joins them (rays are ordered, the
    squares between, at most one ray from a square to another) is proved
    first, then one lemma for each kind of move: the king's steps, moves inside
    the check mask and along a pin, en passant with its trial capture, castling from
    any squares.
  - `GeneratesTheLaws`, and along any line `GeneratorLawfulHolds`: the converse too.
    `LawfulMove` is any move of the pieces after which the king is not attacked
    (what `legality_test.go` finds by making every move), castling over free and
    unattacked squares. A square off the check mask leaves the checker its line, a
    piece off the line of its pin uncovers the slider behind it, two checks have no
    square in common (`OneAnswer`), and the extra look behind the castling rook
    refuses nothing that is safe (`RookShields`).
  - `RepetitionExactHolds`: looking back as far as the clock says misses no
    repetition. Every irreversible move uses up a potential (men, and the ranks
    pawns have to go), reversible ones keep it, and so what lies behind an
    irreversible move never returns; the clock counts the moves since;
    equal keys are equal situations, because the key has the target only
    when it can be used.

* **`Rules_proofs`**: `DeadStaysDead`, and along any line `DeadForeverHolds`. In a
  blocked position `KingReachableSquares` computes the least set closed under the
  king's steps between the walls (`FloodEncloses`), and both kings stay in theirs as
  no pawn ever moves (`BlockedStays`). With too little material all checks are given
  on squares of one shade, so that a king in check has a square of the other
  (`ScarceEscape`), and no move adds a man (`ScarceStays`).
  - `GeneratorExactHolds`, along any game and line from `OrdinaryStarts`, says of the
    situations moves lead to what `GeneratesTheLaws` says of the moves. `Laws` was
    written without the code's tables and masks, by files and ranks and with a king
    that is simply not threatened, so its operators are first shown to be what the
    generator computes with (`WayIsBetween`, `AttacksAre`, `SafeIs`, `RightCastles`).
    A move out of the generator then leaves the rights that the laws leave, although
    the code reads them off two squares (`RightsAfter`), and the target that the laws
    leave, although the code tries it out with one look along the king's lines
    (`TargetIs`, `TargetAfter`). So each kind of move leads to the situations
    of that kind and no other (`ResultsAre`); no two moves lead to one board, castling
    included (`MovesDiffer`, `NoneTwice`); and the captures the quiescence search asks
    for are the moves that promote or leave fewer men (`CapturesAre`, `GainsAre`).
  - `SampleRoundTripsHolds`, along any game and line from `ClassicalStarts`: the men are
    read back because no two squares have the same place in the order of the
    squares (`PlacesDiffer`, `BoardReadBack`); a flag `KQkq`, which stands for the
    outermost rook of its wing, names the castling rook as nothing is outside a
    corner (`CornerRook`, `RightsReadBack`); the target is the one square of its file
    behind a pawn that has just moved twice (`TargetReadBack`); and none of what
    `ParseFEN` refuses can occur (`DecodedValid`). The key computed from scratch is
    the one on the board as both agree with their boards (`RecordReadBack`).
  - What these two need beyond `LineInv` is `SuitedInv`, that every position of the
    line is `Ordinary` and `Recordable`, each for the starts of its theorem.
    `Ordinary`: no pawn and no target is on a back rank, and a right is revoked on the
    squares of its own king and rook and on no other. The last is what `GeneratesTheLaws`,
    which only asks that it is revoked there, can do without: a right revoked too
    early makes no generated move illegal, but the situation after the move wrong.
    `ParsedOrdinary` traces every revoked square to a flag of the FEN. `Recordable`:
    no pawn is on a back rank, castling rooks are in their corners, the target is on
    its rank and a pawn can use it; moves keep it so because a right whose rook has left is revoked.

Some of these need induction over a sequence, the squares of a ray or the steps of
the flood fill. The library's induction theorems are out of the provers' reach, so
each is stated as the existence of a least counterexample, which first-order
reasoning refutes.

Left to TLC: everything with fairness (`EventuallyAnnounced`, `Unwinds`,
`GamesPlayed`, `SlotsFreed`, `TurnsAnswered`, `GameReturns`, `VerdictRecorded`,
`StopReturns`), since TLAPS has no ENABLED; and `MatesSound`, `ScoreExact` and
`LineLeads` of `Tree`, whose search is a recursive operator.

---

## 5. Observations

Disagreements between the code and what is written about it, met while
modelling, that no run is kept for:

* `bot.go:245` says that a lost accept cannot leak a slot for the lifetime of
  the process. Expired reservations are dropped only in `reserveSlot`, which is
  reached only while a slot is free: once leaked reservations fill
  `MaxConcurrentGames`, every challenge is declined and none is dropped.
* `history.go:38` says that a truncated line is dropped and everything before it
  is still good. The next record is appended to that line (`history.go:92`), so
  one whose `Append` succeeded is dropped with it; `LossBounded` says that this
  costs one record for each append that failed.
* `rules.go:140` says that a checkmate on the hundredth ply is a win. The search
  scores the node as a draw before it looks for moves (`negamax.go:74`, `257`), and
  so misses a mate in one with the clock at 99.
* `bus.go:94` says that an ephemeral subscription sees messages from the present
  on; the JetStream consumer it makes delivers all that are retained.
* `coordinator.go:138` says that work that succeeded is not replayed. resume
  covers only the artifacts whose unit the handler has not resolved first: a
  unit whose batch is redelivered during the scan is neither covered nor stepped
  over, and is played again. Nothing is counted twice by it.
* `HANDOVER.md:363` says that "It will not let you advance on a rejection".
  `HasPromotion` accepts any promotion of the generation, so one that was
  promoted and then rejected in a second gate can still be advanced, and so can one
  whose network was trained anew since.

Behaviour worth knowing:

* A power cut after `Put` has returned may take the key's name back to what it
  was before: the directory is not flushed. What it never leaves is a damaged file.
* A process that is killed leaves its temporary file. `List` offers it among the
  artifacts; `unitIndex` and `expand` refuse its name.
* A state that Lichess sends again in a turn of ours starts a second search after
  the first move was posted, and its move comes a turn late; from then on the bot
  may stay a turn behind until it reconnects. `AppliedWhereChosen` has that exception.
* The bot's reconnect delay goes back to its start only after a clean close.
* A game of self-play that the 600th ply ends is discarded: the outcome is asked
  for before the last move.
* `cmd/trainer` writes its network without a flush before the rename.
* A training record of a position outside Chess960 whose castling rook is not the
  outermost one of its rank would be rebuilt with the outermost; no classical
  game reaches such a position (`SampleRoundTripsHolds`).
* An infinite search ends by itself after `MaxPly - 1` iterations and answers
  before any stop (`search.go:238`).
* A unit whose batch was rejected is never issued again by the same process,
  only after a restart; the target is reached with further units.
* A bot that lost the reply to an accept plays the game without a reservation
  and may exceed the bound by it; `CapacityKept` says "by those only".
* A FEN with two castling flags that name rooks on one wing is accepted: the
  last one is the castling rook, but moving either loses the right (`crMask`).
* A FEN with a classical flag and a rook inside the corner's one does not set
  Chess960. Once the corner rook is gone, `FEN` and `EncodeSample` no longer say
  which rook the right is for.
* A FEN whose target is on a wrong rank is accepted when a pawn stands where
  such a capture would take it; no move generated by the program leads there.
* The rights of a FEN in classical mode may name a king that is not on the
  e-file; its castling and a step of the king can then have the same UCI text.
* `IncrementalEvaluator` promises to heal itself on the first `Evaluate`, which is
  right only at a root; every search thread calls `Reset` first, so it never matters.
* A verdict is lost when the dashboard restarts while it waits for the job:
  `VerdictRecorded` has that exception. A failed append loses a rejection, but in
  memory no promotion, which is appended twice.
* After a restart an artifact with sound framing whose records no longer decode may be
  announced: resume checks less than the handler (`coordinator.go:577`). `AnnouncedReadable`
  is about the framing.
* A training record may precede its network, or be of one that was never written:
  the trainer prints its losses first (`cmd/trainer/main.go:109`).

---

## 6. Plan

Done, in this order: `Coordinator`, `SelfPlay`; `Gate`; `Bot`; `History`,
`Dashboard`; `TT`, `Uci`; a proof module for each; `Board`, `Position`,
`MoveGen`, `Rules`, `Laws`, `Incremental`, `Line`; `ArtifactStore`, `FSStore`
with its proofs; `GameStream`; `Tree`; `Sample`.

The proofs of this plan are done as well: `Play_proofs`, `Line_proofs`,
`Rules_proofs` with `GeneratorExact` and `SampleRoundTrips`, `OngoingNeverCancelled`,
`LossBoundedHolds`, and the two sums.

Next, in this order:

1. `Progress`, in `Dashboard`: the counters of the event watch under late and
   repeated batches, and two operators' requests at once.
2. `NatsBus`: Subscribe against Close, and the acknowledgement of a handler that
   outlives Close.

---

## 7. Not modelled

* **Weights and arithmetic** (trainer, quantised network, hand-crafted
  evaluation, Elo and LLR): floating point and large vectors.
* **Notation and tables** of the chess package: FEN text, UCI text, perft; the
  magics appear as the attacks they index.
* **The order of moves** (killers, history, exchange values): it decides how much
  is searched and not what a full search finds; `Tree` has one fixed order with
  the table's move first. Where a search prunes on a guess its score has no
  reference value; `Tree` checks there that reported mates are real and lines legal.
* **Wording and presentation**: reports, pages, templates, metrics, logging.
* **Mains and manifests**: they choose constants and justify restarts.
* Within modelled components: see the notes in `PROJECT.json`.
