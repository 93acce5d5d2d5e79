-------------------------------- MODULE Uci --------------------------------
(***************************************************************************)
(* The engine: the goroutine that reads UCI commands (internal/uci/uci.go),*)
(* the goroutine that runs one search (goCommand's, in Searcher.Search of  *)
(* internal/search/search.go) and the search threads it starts, which      *)
(* share the transposition table (TT).                                     *)
(*                                                                         *)
(* A thread's tree is abstract: between the start of an iteration and its  *)
(* end it may probe and store, and it may find that it must stop.  The     *)
(* position a search is given is a private copy and is left out, and so    *)
(* are the commands that only print.                                       *)
(***************************************************************************)
EXTENDS TT

CONSTANTS
    Main,          \* the thread whose result is reported
    HCE,           \* the hand-crafted evaluator
    MaxDepth,      \* iterations of a search (MaxPly - 1, 127 in the code)
    MaxCommands,   \* bound: commands the engine is sent
    MaxProbes,     \* bound: Probes of all threads
    MaxStores      \* bound: Stores of all threads

ASSUME MainAssumption == Main \in Threads
ASSUME HCEAssumption == HCE \in Evaluators
ASSUME MaxDepthAssumption == MaxDepth \in Nat \ {0}

VARIABLES
    reader,        \* where the reading goroutine is in a command
    command,       \* the command it executes
    commands,      \* commands read so far
    helpers,       \* option Threads: the threads besides the main one
    evaluator,     \* Searcher.evaluator
    searching,     \* Engine.searching
    cancelled,     \* the current search's context has been cancelled
    done,          \* the current search's done channel is closed
    stopped,       \* Searcher.stopped
    infinite,      \* the current search has no limit of its own
    expired,       \* its node or time limit has been reached
    runner,        \* where the goroutine that runs the search is
    thread,        \* search thread -> its phase, iteration and evaluator
    owed,          \* searches begun and not answered by a bestmove
    probes,        \* Probes begun so far
    stores         \* Stores begun so far

readerVars == <<reader, command, commands>>
flagVars == <<searching, cancelled, done, stopped>>
limitVars == <<infinite, expired>>
searchVars == <<runner, thread, owed>>
optionVars == <<helpers, evaluator>>
calls == <<probes, stores>>
vars == <<tableVars, readerVars, optionVars, flagVars, limitVars, searchVars, calls>>

Off == [phase |-> "off", depth |-> 0, ev |-> HCE]
\* newState: the thread keeps the evaluator it finds when it is made.
Begun(d) == [phase |-> "run", depth |-> d, ev |-> evaluator]

NoCommand == [name |-> "none"]
Commands ==
    [name : {"go"}, infinite : BOOLEAN]
        \cup [name : {"stop", "clear", "quit"}]
        \cup [name : {"threads"}, helpers : SUBSET (Threads \ {Main})]
        \cup [name : {"evalfile"}, ev : Evaluators]

-----------------------------------------------------------------------------
(* The reader. *)

\* Every command modelled here calls stopSearch first, which looks whether a
\* search is running.
Read(c) ==
    /\ reader = "ready"
    /\ commands < MaxCommands
    /\ commands' = commands + 1
    /\ command' = c
    /\ reader' = IF searching THEN "stop" ELSE "act"
    /\ UNCHANGED <<tableVars, optionVars, flagVars, limitVars, searchVars, calls>>

\* searcher.Stop()
SetStopped ==
    /\ reader = "stop"
    /\ stopped' = TRUE
    /\ reader' = "cancel"
    /\ UNCHANGED <<tableVars, command, commands, optionVars, searching, cancelled,
                   done, limitVars, searchVars, calls>>

\* Mutant: stopSearch returns without waiting for the search to report.
CancelOnly ==
    /\ reader = "cancel"
    /\ cancelled' = TRUE
    /\ reader' = "act"
    /\ UNCHANGED <<tableVars, command, commands, optionVars, searching, done,
                   stopped, limitVars, searchVars, calls>>

\* cancel()
Cancel ==
    /\ reader = "cancel"
    /\ cancelled' = TRUE
    /\ reader' = "wait"
    /\ UNCHANGED <<tableVars, command, commands, optionVars, searching, done,
                   stopped, limitVars, searchVars, calls>>

\* <-done
AwaitDone ==
    /\ reader = "wait"
    /\ done
    /\ reader' = "act"
    /\ UNCHANGED <<tableVars, command, commands, optionVars, flagVars, limitVars,
                   searchVars, calls>>

\* goCommand once the previous search has ended.
Go ==
    /\ command.name = "go"
    /\ searching' = TRUE
    /\ cancelled' = FALSE
    /\ done' = FALSE
    /\ infinite' = command.infinite
    /\ expired' = FALSE
    /\ runner' = "begin"
    /\ owed' = owed + 1
    /\ UNCHANGED <<tableVars, optionVars, stopped, thread>>

\* ucinewgame's Clear and setoption Hash's new table: "clear" stands for both.
NewTable ==
    /\ command.name = "clear"
    /\ ClearTable
    /\ UNCHANGED <<optionVars, flagVars, limitVars, searchVars>>

\* setoption Threads.
SetThreads ==
    /\ command.name = "threads"
    /\ helpers' = command.helpers
    /\ UNCHANGED <<tableVars, evaluator, flagVars, limitVars, searchVars>>

\* Mutant: the table is kept when the evaluator changes.
SetEvaluatorKeeps ==
    /\ command.name = "evalfile"
    /\ evaluator' = command.ev
    /\ UNCHANGED <<tableVars, helpers, flagVars, limitVars, searchVars>>

\* setEvalFile: the network, or the hand-crafted evaluator when none is named
\* or the file cannot be loaded.
SetEvaluator ==
    /\ command.name = "evalfile"
    /\ evaluator' = command.ev
    /\ ClearTable
    /\ UNCHANGED <<helpers, flagVars, limitVars, searchVars>>

\* stop has nothing left to do, and quit leaves the loop.
Nothing ==
    /\ command.name \in {"stop", "quit"}
    /\ UNCHANGED <<tableVars, optionVars, flagVars, limitVars, searchVars>>

Act ==
    /\ reader = "act"
    /\ reader' = IF command.name = "quit" THEN "gone" ELSE "ready"
    /\ command' = NoCommand
    /\ Go \/ NewTable \/ SetThreads \/ SetEvaluator \/ Nothing
    /\ UNCHANGED <<commands, calls>>

-----------------------------------------------------------------------------
(* The search. *)

\* The start of Search up to the list of legal moves; with none, it is over.
Begin ==
    /\ runner = "begin"
    /\ stopped' = FALSE
    /\ NewSearch
    /\ runner' \in {"spawn", "report"}
    /\ UNCHANGED <<readerVars, optionVars, searching, cancelled, done, limitVars,
                   thread, owed, calls>>

\* A helper begins up to two iterations deeper; which ones do is left open.
Spawn ==
    /\ runner = "spawn"
    /\ runner' = "search"
    /\ \E first \in [Threads -> 1..MaxDepth] :
          /\ first[Main] = 1
          /\ \A t \in Threads : first[t] <= 3
          /\ thread' = [t \in Threads |->
                          IF t \in helpers \cup {Main} THEN Begun(first[t]) ELSE Off]
    /\ UNCHANGED <<tableVars, readerVars, optionVars, flagVars, limitVars, owed, calls>>

\* Mutant: the context is not consulted.
StoppingByFlag == stopped \/ expired
\* state.stopping
Stopping == stopped \/ cancelled \/ expired

Over(t) == thread' = [thread EXCEPT ![t] = [Off EXCEPT !.phase = "over"]]

\* An iteration ends.  The thread then stops if it was the last, if it must, or,
\* in a search with limits, on finding a mate or having used up its soft budget.
CompleteIteration(t) ==
    /\ thread[t].phase = "run" /\ op[t] = Idle
    /\ \/ /\ thread[t].depth = MaxDepth \/ Stopping \/ ~infinite
          /\ Over(t)
       \/ /\ thread[t].depth < MaxDepth /\ ~Stopping
          /\ thread' = [thread EXCEPT ![t].depth = @ + 1]
    /\ UNCHANGED <<tableVars, readerVars, optionVars, flagVars, limitVars, runner,
                   owed, calls>>

\* checkStop finds that the search must end: the iteration is abandoned.
Abort(t) ==
    /\ thread[t].phase = "run" /\ op[t] = Idle
    /\ Stopping
    /\ Over(t)
    /\ UNCHANGED <<tableVars, readerVars, optionVars, flagVars, limitVars, runner,
                   owed, calls>>

\* The node limit or the deadline of a search that has one.
Expire ==
    /\ runner = "search" /\ ~infinite
    /\ expired' = TRUE
    /\ UNCHANGED <<tableVars, readerVars, optionVars, flagVars, infinite, searchVars,
                   calls>>

\* negamax's Probe and Store at some node of the iteration.
CallProbe(t) ==
    /\ thread[t].phase = "run"
    /\ probes < MaxProbes
    /\ probes' = probes + 1
    /\ \E k \in Keys : StartProbe(t, k)
    /\ UNCHANGED <<readerVars, optionVars, flagVars, limitVars, searchVars, stores>>

CallStore(t) ==
    /\ thread[t].phase = "run"
    /\ stores < MaxStores
    /\ stores' = stores + 1
    /\ \E k \in Keys, d \in Depths, b \in Bounds : StartStore(t, k, thread[t].ev, d, b)
    /\ UNCHANGED <<readerVars, optionVars, flagVars, limitVars, searchVars, probes>>

UseTable(t) ==
    /\ TableStep(t)
    /\ UNCHANGED <<readerVars, optionVars, flagVars, limitVars, searchVars, calls>>

\* The main thread has its answer, and tells the helpers to stop.
MainDone ==
    /\ runner = "search"
    /\ thread[Main].phase = "over"
    /\ stopped' = TRUE
    /\ runner' = "join"
    /\ UNCHANGED <<tableVars, readerVars, optionVars, searching, cancelled, done,
                   limitVars, thread, owed, calls>>

\* wg.Wait()
Join ==
    /\ runner = "join"
    /\ \A t \in Threads : thread[t].phase # "run"
    /\ thread' = [t \in Threads |-> Off]
    /\ runner' = "report"
    /\ UNCHANGED <<tableVars, readerVars, optionVars, flagVars, limitVars, owed, calls>>

\* sendBestMove
Report ==
    /\ runner = "report"
    /\ owed' = owed - 1
    /\ runner' = "unset"
    /\ UNCHANGED <<tableVars, readerVars, optionVars, flagVars, limitVars, thread, calls>>

Unset ==
    /\ runner = "unset"
    /\ searching' = FALSE
    /\ runner' = "close"
    /\ UNCHANGED <<tableVars, readerVars, optionVars, cancelled, done, stopped,
                   limitVars, thread, owed, calls>>

\* The deferred cancel and close.  A reader that saw the search over does not
\* wait for them: when it has begun another search, they concern nobody.
CloseDone ==
    /\ runner = "close"
    /\ cancelled' = TRUE
    /\ done' = TRUE
    /\ runner' = "none"
    /\ UNCHANGED <<tableVars, readerVars, optionVars, searching, stopped, limitVars,
                   thread, owed, calls>>

-----------------------------------------------------------------------------
Init ==
    /\ TableInit
    /\ reader = "ready" /\ command = NoCommand /\ commands = 0
    /\ helpers = {} /\ evaluator = HCE
    /\ searching = FALSE /\ cancelled = FALSE /\ done = FALSE /\ stopped = FALSE
    /\ infinite = FALSE /\ expired = FALSE
    /\ runner = "none" /\ thread = [t \in Threads |-> Off]
    /\ owed = 0 /\ probes = 0 /\ stores = 0

ReaderStep == SetStopped \/ Cancel \/ AwaitDone \/ Act
RunnerStep == Begin \/ Spawn \/ MainDone \/ Join \/ Report \/ Unset \/ CloseDone

Next ==
    \/ \E c \in Commands : Read(c)
    \/ ReaderStep
    \/ RunnerStep
    \/ Expire
    \/ \E t \in Threads : \/ CompleteIteration(t)
                          \/ Abort(t)
                          \/ CallProbe(t)
                          \/ CallStore(t)
                          \/ UseTable(t)

Spec == Init /\ [][Next]_vars

\* The Go scheduler runs every goroutine that can run, and a thread comes to
\* its next check of the stop conditions.  Nothing says that an iteration ever
\* completes, that a limit is reached or that another command arrives.
Fairness ==
    /\ WF_vars(ReaderStep)
    /\ WF_vars(RunnerStep)
    /\ \A t \in Threads : WF_vars(Abort(t)) /\ WF_vars(UseTable(t))

FairSpec == Spec /\ Fairness

-----------------------------------------------------------------------------
(* Properties. *)

Phases == {"off", "run", "over"}

\* Types; no iteration goes beyond MaxDepth, which sizes the per-ply tables.
TypeOK ==
    /\ TableTypeOK
    /\ reader \in {"ready", "stop", "cancel", "wait", "act", "gone"}
    /\ command \in Commands \cup {NoCommand}
    /\ commands \in Nat /\ probes \in Nat /\ stores \in Nat
    /\ helpers \subseteq Threads \ {Main}
    /\ evaluator \in Evaluators
    /\ searching \in BOOLEAN /\ cancelled \in BOOLEAN /\ done \in BOOLEAN
    /\ stopped \in BOOLEAN /\ infinite \in BOOLEAN /\ expired \in BOOLEAN
    /\ runner \in {"none", "begin", "spawn", "search", "join", "report", "unset",
                   "close"}
    /\ thread \in [Threads -> [phase : Phases, depth : 0..MaxDepth, ev : Evaluators]]
    /\ owed \in Int

\* stopSearch "waits for it to report, so that bestmove is always emitted before
\* the next command is processed": when a command takes effect every search has
\* been answered, exactly once, and no thread of an earlier one is still at work
\* in the table.
AnsweredInOrder ==
    /\ owed \in 0..1
    /\ reader = "act" => /\ owed = 0
                         /\ \A t \in Threads : thread[t].phase # "run" /\ op[t] = Idle

\* Lockless hashing: whatever stores of the other threads come between its two
\* loads, a read never takes one position's entry for another's.
HitIsOwn ==
    \A t \in Threads :
        op[t].pc = "keyx" /\ Hit(op[t]) => op[t].seen.of = op[t].key

\* SetEvaluator clears the table "rather than leave it to blend two evaluations
\* together": no search ever reads a score that another evaluator produced.
HitIsCurrent ==
    \A t \in Threads :
        op[t].pc = "keyx" /\ Hit(op[t]) => op[t].seen.by = evaluator

\* The reader is never held up for good: a search ends when it is told to, even
\* when Search starts by taking back a Stop that came before it.
StopReturns == reader = "stop" ~> reader = "act"
=============================================================================
