-------------------------------- MODULE Gate --------------------------------
(***************************************************************************)
(* The promotion gate (internal/gate, cmd/gatekeeper): runPairs plays      *)
(* colour-reversed pairs on several goroutines, fold adds each result to   *)
(* the report and applies the sequential test, and the process turns the   *)
(* report into an exit status.                                             *)
(*                                                                         *)
(* The feeder, the workers and the consuming loop are processes; indices   *)
(* and results are unbuffered, so a send and its receive are one action.   *)
(* What a pair yields is a function of its index alone, drawn in Init from *)
(* Outcomes; which of them is delivered first is up to the scheduler.      *)
(***************************************************************************)
EXTENDS Integers, Sequences, FiniteSets

CONSTANTS
    Pairs,        \* cfg.MaxGames / 2
    Workers,      \* the goroutines runPairs starts: min(cfg.Concurrency, Pairs) of them
    Outcomes,     \* tallies a pair may end with
    LLR(_),       \* SPRT.LLR of a tally, on some integer scale
    Lower, Upper, \* SPRT.Bounds on that scale
    Interrupts    \* whether the process may be signalled

Index    == 0 .. Pairs - 1
Tallies  == [wins : Nat, losses : Nat, draws : Nat]
Verdicts == {"inconclusive", "accept", "reject"}
Zero     == [wins |-> 0, losses |-> 0, draws |-> 0]

ASSUME GateConstants ==
    /\ Pairs \in Nat \ {0}
    /\ Workers # {}
    /\ Outcomes \subseteq Tallies
    /\ Interrupts \in {"never", "possible"}

Test(t) ==
    IF LLR(t) >= Upper THEN "accept" ELSE IF LLR(t) <= Lower THEN "reject" ELSE "inconclusive"

VARIABLES
    outcome,             \* what each pair yields when it is played out
    unusable,            \* pairs whose opening cannot be played
    next, indices,       \* the feeder: next pair to hand out; is the channel closed
    wstage, wpair,       \* the workers
    errs,                \* the buffer of the errs channel
    workCtx, outerCtx,   \* "live" or "cancelled"
    tally, tested, verdict,  \* the report; tested is the tally Verdict and LLR were computed on
    main,                \* the consuming loop, then the caller
    order, played        \* history: pairs in the order they were folded; pairs played to the end

feedVars   == <<next, indices>>
workVars   == <<wstage, wpair, played>>
reportVars == <<tally, tested, verdict, order>>
matchVars  == <<outcome, unusable>>
vars == <<matchVars, feedVars, workVars, errs, workCtx, outerCtx, reportVars, main>>

-----------------------------------------------------------------------------
Init ==
    /\ outcome \in [Index -> Outcomes] /\ unusable \in SUBSET Index
    /\ next = 0 /\ indices = "open"
    /\ wstage = [w \in Workers |-> "waiting"]
    /\ wpair = [w \in Workers |-> 0]
    /\ errs = "empty"
    /\ workCtx = "live" /\ outerCtx = "live"
    /\ tally = Zero /\ tested = Zero /\ verdict = "inconclusive" /\ order = <<>>
    /\ main = "draining" /\ played = {}

(***************************************************************************)
(* The feeder.  select may choose the hand-over although workCtx is done.  *)
(***************************************************************************)
Feed(w) ==
    /\ indices = "open" /\ next < Pairs /\ wstage[w] = "waiting"
    /\ wpair' = [wpair EXCEPT ![w] = next]
    /\ next' = next + 1
    \* playGame looks at the context before every move: a pair begun after the
    \* cancellation is not played out.
    /\ wstage' = [wstage EXCEPT ![w] = IF workCtx = "live" THEN "playing" ELSE "doomed"]
    /\ UNCHANGED <<matchVars, indices, played, errs, workCtx, outerCtx, reportVars, main>>

FeederStops ==
    /\ indices = "open" /\ (next = Pairs \/ workCtx = "cancelled")
    /\ indices' = "closed"
    /\ UNCHANGED <<matchVars, next, workVars, errs, workCtx, outerCtx, reportVars, main>>

(***************************************************************************)
(* A worker goroutine.                                                     *)
(***************************************************************************)
To(w, stage) ==
    /\ wstage' = [wstage EXCEPT ![w] = stage]
    /\ UNCHANGED <<matchVars, feedVars, wpair, outerCtx, reportVars, main>>

\* range indices ends.
WorkerEnds(w) ==
    /\ wstage[w] = "waiting" /\ indices = "closed"
    /\ To(w, "exited") /\ UNCHANGED <<played, errs, workCtx>>

\* Mutant: the result is dropped when the context is done.
PairDropped(w) ==
    /\ wstage[w] = "playing" /\ wpair[w] \notin unusable
    /\ played' = played \cup {wpair[w]}
    /\ To(w, IF workCtx = "live" THEN "sending" ELSE "waiting") /\ UNCHANGED <<errs, workCtx>>

\* A pair that was begun in time may complete although the context is done.
PairDone(w) ==
    /\ wstage[w] = "playing" /\ wpair[w] \notin unusable
    /\ played' = played \cup {wpair[w]}
    /\ To(w, "sending") /\ UNCHANGED <<errs, workCtx>>

\* The opening is prepared before the context is looked at.
PairBroken(w) ==
    /\ wstage[w] \in {"playing", "doomed"} /\ wpair[w] \in unusable
    /\ To(w, "broken") /\ UNCHANGED <<played, errs, workCtx>>

PairCancelled(w) ==
    /\ wstage[w] \in {"playing", "doomed"} /\ wpair[w] \notin unusable
    /\ workCtx = "cancelled"
    /\ To(w, "cancelled") /\ UNCHANGED <<played, errs, workCtx>>

\* Mutant: the last error is kept.
RecordLast(w) ==
    /\ wstage[w] \in {"broken", "cancelled"}
    /\ errs' = wstage[w]
    /\ To(w, "recorded") /\ UNCHANGED <<played, workCtx>>

\* A send that does not wait: the first error stays, later ones are dropped.
RecordError(w) ==
    /\ wstage[w] \in {"broken", "cancelled"}
    /\ errs' = IF errs = "empty" THEN wstage[w] ELSE errs
    /\ To(w, "recorded") /\ UNCHANGED <<played, workCtx>>

CancelPairs(w) ==
    /\ wstage[w] = "recorded"
    /\ workCtx' = "cancelled"
    /\ To(w, "exited") /\ UNCHANGED <<played, errs>>

(***************************************************************************)
(* The loop over results.  fold adds every pair delivered, stragglers too, *)
(* and computes verdict and LLR only while there is no verdict yet.        *)
(***************************************************************************)
Add(t, o) == [wins   |-> t.wins + o.wins, losses |-> t.losses + o.losses,
              draws  |-> t.draws + o.draws]

\* Mutant: the verdict is recomputed on every arrival.
FoldUnlatched(p) ==
    /\ tally' = Add(tally, outcome[p])
    /\ verdict' = Test(tally') /\ tested' = tally'

\* Mutant: a pair that arrives after the verdict is left out.
FoldDecided(p) ==
    IF verdict # "inconclusive"
    THEN UNCHANGED <<tally, verdict, tested>>
    ELSE /\ tally' = Add(tally, outcome[p])
         /\ verdict' = Test(tally') /\ tested' = tally'

Fold(p) ==
    /\ tally' = Add(tally, outcome[p])
    /\ IF verdict # "inconclusive"
       THEN UNCHANGED <<verdict, tested>>
       ELSE verdict' = Test(tally') /\ tested' = tally'

Deliver(w) ==
    /\ main = "draining" /\ wstage[w] = "sending"
    /\ Fold(wpair[w])
    /\ order' = Append(order, wpair[w])
    /\ main' = IF verdict' # "inconclusive" THEN "stopping" ELSE "draining"
    /\ wstage' = [wstage EXCEPT ![w] = "waiting"]
    /\ UNCHANGED <<matchVars, feedVars, wpair, played, errs, workCtx, outerCtx>>

StopMatch ==
    /\ main = "stopping"
    /\ workCtx' = "cancelled" /\ main' = "draining"
    /\ UNCHANGED <<matchVars, feedVars, workVars, errs, outerCtx, reportVars>>

\* Mutant: the loop ends with the verdict and does not wait for the workers.
ReturnEarly ==
    /\ main = "draining"
    /\ verdict # "inconclusive" \/ \A w \in Workers : wstage[w] = "exited"
    /\ main' = IF outerCtx = "cancelled" THEN "interrupted"
               ELSE IF errs = "broken" THEN "failed" ELSE "finished"
    /\ UNCHANGED <<matchVars, feedVars, workVars, errs, workCtx, outerCtx, reportVars>>

\* results is closed once every worker has exited; defer cancel.
Return ==
    /\ main = "draining" /\ \A w \in Workers : wstage[w] = "exited"
    /\ main' = IF outerCtx = "cancelled" THEN "interrupted"
               ELSE IF errs = "broken" THEN "failed" ELSE "finished"
    /\ workCtx' = "cancelled"
    /\ UNCHANGED <<matchVars, feedVars, workVars, errs, outerCtx, reportVars>>

(***************************************************************************)
(* The process: SIGTERM cancels the context it handed to Test, and main    *)
(* looks at the context again before it trusts the error.                  *)
(***************************************************************************)
Interrupt ==
    /\ Interrupts = "possible" /\ outerCtx = "live" /\ main \notin {"error"} \cup Verdicts
    /\ outerCtx' = "cancelled" /\ workCtx' = "cancelled"
    /\ UNCHANGED <<matchVars, feedVars, workVars, errs, reportVars, main>>

ExitStatus ==
    /\ main \in {"interrupted", "failed", "finished"}
    /\ main' = IF main = "failed" /\ outerCtx = "live" THEN "error" ELSE verdict
    /\ UNCHANGED <<matchVars, feedVars, workVars, errs, workCtx, outerCtx, reportVars>>

WorkerStep(w) ==
    \/ WorkerEnds(w) \/ PairDone(w) \/ PairBroken(w) \/ PairCancelled(w)
    \/ RecordError(w) \/ CancelPairs(w)

Next ==
    \/ FeederStops \/ StopMatch \/ Return \/ Interrupt \/ ExitStatus
    \/ \E w \in Workers : Feed(w) \/ WorkerStep(w) \/ Deliver(w)

Spec == Init /\ [][Next]_vars

\* Every goroutine is scheduled; games end, MaxPlies bounds them.
FairSpec == Spec /\ WF_vars(Next)
-----------------------------------------------------------------------------
Returned == main \notin {"draining", "stopping"}
Delivered == {order[i] : i \in DOMAIN order}

TypeOK ==
    /\ outcome \in [Index -> Outcomes] /\ unusable \in SUBSET Index
    /\ next \in 0 .. Pairs /\ indices \in {"open", "closed"}
    /\ wstage \in [Workers -> {"waiting", "playing", "doomed", "sending", "broken", "cancelled",
                               "recorded", "exited"}]
    /\ wpair \in [Workers -> Index] /\ played \in SUBSET Index
    /\ errs \in {"empty", "broken", "cancelled"}
    /\ workCtx \in {"live", "cancelled"} /\ outerCtx \in {"live", "cancelled"}
    /\ tally \in Tallies /\ tested \in Tallies /\ verdict \in Verdicts
    /\ order \in Seq(Index)
    /\ main \in {"draining", "stopping", "interrupted", "failed", "finished", "error"} \cup Verdicts

\* runPairs' promise "a completed pair's result is never lost": when it has
\* returned, every pair whose games were played out is in the tally, once.
NoResultLost ==
    /\ \A i, j \in DOMAIN order : order[i] = order[j] => i = j
    /\ Delivered \subseteq played
    /\ Returned => played = Delivered

\* A pair that genuinely failed is not swallowed by the one-place errs buffer:
\* a match that ends without a verdict, a failure or an interruption has
\* played every one of its pairs.
CompleteOrExplained ==
    main = "finished" /\ verdict = "inconclusive" => Delivered = Index

\* The tally after each number of the pairs of a sequence.
Tallied(seq) ==
    LET t[n \in 0 .. Len(seq)] == IF n = 0 THEN Zero ELSE Add(t[n - 1], outcome[seq[n]])
    IN  t

Crossings == {n \in DOMAIN order : Test(Tallied(order)[n]) # "inconclusive"}

\* fold's comment "an honest count of every game actually played": the tally is
\* the sum over the delivered pairs, stragglers included, and the verdict is what the
\* test says of the first of their partial sums to cross a bound.
ReportExact ==
    /\ tally = Tallied(order)[Len(order)]
    /\ verdict = "inconclusive" => Crossings = {}
    /\ verdict # "inconclusive" =>
         \E n \in Crossings :
           /\ \A m \in Crossings : n <= m
           /\ tested = Tallied(order)[n] /\ verdict = Test(tested)

\* The verdict is the one the test gave on the tally it crossed a bound with,
\* and sticks: no straggler delivered while the match winds down changes it.
VerdictLatches ==
    [][verdict # "inconclusive" => UNCHANGED <<verdict, tested>>]_vars

\* The match always unwinds: no worker is left blocked on a send, and no
\* goroutine runs for ever after a verdict, a failure or an interruption.
Unwinds ==
    <>[](main \in {"error"} \cup Verdicts /\ indices = "closed"
         /\ \A w \in Workers : wstage[w] = "exited")
=============================================================================
