---------------------------- MODULE Gate_proofs ----------------------------
(***************************************************************************)
(* For any number of pairs and workers, any outcomes and any test: no      *)
(* result is lost or counted twice, a match that ends without a verdict, a *)
(* failure or an interruption has played every pair, a verdict sticks, and *)
(* the report is the sum of what was delivered, judged where it crossed.   *)
(***************************************************************************)
EXTENDS Gate, FiniteSetTheorems, WellFoundedInduction, TLAPS

\* Pairs a worker is busy with: begun, and not yet folded or given up.
Active(w) == wstage[w] \in {"playing", "doomed", "sending", "broken", "cancelled", "recorded"}

\* The part of the type invariant the arguments below need.
GateType ==
    /\ next \in 0 .. Pairs /\ indices \in {"open", "closed"}
    /\ wstage \in [Workers -> {"waiting", "playing", "doomed", "sending", "broken", "cancelled",
                               "recorded", "exited"}]
    /\ wpair \in [Workers -> Index] /\ played \in SUBSET Index
    /\ errs \in {"empty", "broken", "cancelled"}
    /\ workCtx \in {"live", "cancelled"} /\ outerCtx \in {"live", "cancelled"}
    /\ verdict \in Verdicts
    /\ order \in Seq(Index)
    /\ main \in {"draining", "stopping", "interrupted", "failed", "finished", "error"} \cup Verdicts

\* Handed-out pairs are each with one worker or accounted for; what was played
\* is delivered or waits to be.
PairsInv ==
    /\ \A w \in Workers : Active(w) => wpair[w] < next /\ wpair[w] \notin Delivered
    /\ \A v, w \in Workers : Active(v) /\ Active(w) /\ wpair[v] = wpair[w] => v = w
    /\ \A p \in Delivered : p < next
    /\ \A i, j \in DOMAIN order : order[i] = order[j] => i = j
    /\ Delivered \subseteq played
    /\ \A w \in Workers : wstage[w] = "sending" => wpair[w] \in played
    /\ \A p \in played : p \in Delivered \/ \E w \in Workers : wstage[w] = "sending" /\ wpair[w] = p
    /\ Returned => \A w \in Workers : wstage[w] = "exited"

\* As long as nobody outside and no verdict has cancelled the match, only a
\* genuine failure can, and it reaches errs before the cancellation.
Undisturbed == outerCtx = "live" /\ verdict = "inconclusive" /\ errs # "broken"

CauseInv ==
    /\ Undisturbed /\ ~Returned =>
        /\ workCtx = "live" /\ errs = "empty" /\ main = "draining"
        /\ indices = "closed" => next = Pairs
        /\ \A w \in Workers : wstage[w] \notin {"doomed", "cancelled", "recorded"}
        /\ \A w \in Workers : wstage[w] = "exited" => indices = "closed"
        /\ \A p \in 0 .. next - 1 : p \in Delivered \/ \E w \in Workers : Active(w) /\ wpair[w] = p
    /\ CompleteOrExplained

GateInv == GateType /\ PairsInv /\ CauseInv
-----------------------------------------------------------------------------
\* Delivered grows by the pair that is appended.
LEMMA DeliveredAppend ==
    ASSUME NEW p \in Index, order \in Seq(Index), order' = Append(order, p)
    PROVE  /\ order' \in Seq(Index) /\ Delivered' = Delivered \cup {p}
           /\ (/\ \A i, j \in DOMAIN order : order[i] = order[j] => i = j
               /\ p \notin Delivered)
              => \A i, j \in DOMAIN order' : order'[i] = order'[j] => i = j
  <1>1. order' \in Seq(Index) OBVIOUS
  <1>2. DOMAIN order = 1 .. Len(order) /\ DOMAIN order' = 1 .. Len(order) + 1 /\ Len(order) \in Nat
    OBVIOUS
  <1>3. \A i \in DOMAIN order : order'[i] = order[i]
    OBVIOUS
  <1>4. order'[Len(order) + 1] = p
    OBVIOUS
  <1>5. DOMAIN order' = DOMAIN order \cup {Len(order) + 1} /\ Len(order) + 1 \notin DOMAIN order
    BY <1>2
  <1>6. Delivered' = Delivered \cup {p}
    BY <1>3, <1>4, <1>5 DEF Delivered
  <1>7. ASSUME \A i, j \in DOMAIN order : order[i] = order[j] => i = j, p \notin Delivered
        PROVE  \A i, j \in DOMAIN order' : order'[i] = order'[j] => i = j
    <2>1. \A i \in DOMAIN order : order[i] # p BY <1>7 DEF Delivered
    <2> QED BY <1>3, <1>4, <1>5, <1>7, <2>1
  <1> QED BY <1>1, <1>6, <1>7

\* Initially nothing is handed out.
LEMMA GateInit == ASSUME Init PROVE GateInv
  <1>1. 0 \in Index /\ 0 \in 0 .. Pairs /\ 0 .. 0 - 1 = {} BY GateConstants DEF GateConstants, Index
  <1>2. Delivered = {} BY DEF Init, Delivered
  <1>3. GateType BY <1>1 DEF Init, GateType, Verdicts
  <1>4. PairsInv BY <1>2 DEF Init, PairsInv, Active, Returned
  <1>5. CauseInv BY <1>1 DEF Init, CauseInv, Undisturbed, Returned, CompleteOrExplained
  <1> QED BY <1>3, <1>4, <1>5 DEF GateInv

\* Each step, one by one.
LEMMA GateStep == ASSUME GateInv, [Next]_vars PROVE GateInv'
  <1> USE DEF GateInv
  <1>i. Index = 0 .. Pairs - 1 /\ Pairs \in Nat BY GateConstants DEF GateConstants, Index
  <1>1. ASSUME NEW w \in Workers, Feed(w) PROVE GateInv'
    <2>1. next \in Index /\ next + 1 \in 0 .. Pairs BY <1>1, <1>i DEF Feed, GateType
    <2>2. Delivered' = Delivered BY <1>1 DEF Feed, reportVars, Delivered
    <2>3. GateType' BY <1>1, <2>1 DEF Feed, GateType, reportVars
    <2>4. PairsInv' BY <1>1, <1>i, <2>1, <2>2 DEF Feed, PairsInv, GateType, reportVars, Active, Returned
    <2>5. CauseInv'
      BY <1>1, <1>i, <2>1, <2>2 DEF Feed, CauseInv, PairsInv, GateType, reportVars, Active, Returned,
         Undisturbed, CompleteOrExplained
    <2> QED BY <2>3, <2>4, <2>5
  <1>2. CASE FeederStops
    <2>2. Delivered' = Delivered BY <1>2 DEF FeederStops, reportVars, Delivered
    <2>3. GateType' BY <1>2 DEF FeederStops, GateType, reportVars, workVars
    <2>4. PairsInv' BY <1>2, <2>2 DEF FeederStops, PairsInv, reportVars, workVars, Active, Returned
    <2>5. CauseInv'
      BY <1>2, <2>2 DEF FeederStops, CauseInv, reportVars, workVars, Active, Returned, Undisturbed,
         CompleteOrExplained
    <2> QED BY <2>3, <2>4, <2>5
  <1>3. ASSUME NEW w \in Workers, WorkerEnds(w) PROVE GateInv'
    <2>2. Delivered' = Delivered BY <1>3 DEF WorkerEnds, To, reportVars, Delivered
    <2>3. GateType' BY <1>3 DEF WorkerEnds, To, GateType, reportVars, feedVars
    <2>4. PairsInv'
      BY <1>3, <2>2 DEF WorkerEnds, To, PairsInv, GateType, reportVars, feedVars, Active, Returned
    <2>5. CauseInv'
      BY <1>3, <2>2 DEF WorkerEnds, To, CauseInv, GateType, reportVars, feedVars, Active, Returned,
         Undisturbed, CompleteOrExplained
    <2> QED BY <2>3, <2>4, <2>5
  <1>4. ASSUME NEW w \in Workers, PairDone(w) PROVE GateInv'
    <2>2. Delivered' = Delivered BY <1>4 DEF PairDone, To, reportVars, Delivered
    <2>3. GateType' BY <1>4 DEF PairDone, To, GateType, reportVars, feedVars
    <2>4. PairsInv'
      BY <1>4, <2>2 DEF PairDone, To, PairsInv, GateType, reportVars, feedVars, Active, Returned
    <2>5. CauseInv'
      BY <1>4, <2>2 DEF PairDone, To, CauseInv, GateType, reportVars, feedVars, Active, Returned,
         Undisturbed, CompleteOrExplained
    <2> QED BY <2>3, <2>4, <2>5
  <1>5. ASSUME NEW w \in Workers, PairBroken(w) PROVE GateInv'
    <2>2. Delivered' = Delivered BY <1>5 DEF PairBroken, To, reportVars, Delivered
    <2>3. GateType' BY <1>5 DEF PairBroken, To, GateType, reportVars, feedVars
    <2>4. PairsInv'
      BY <1>5, <2>2 DEF PairBroken, To, PairsInv, GateType, reportVars, feedVars, Active, Returned
    <2>5. CauseInv'
      BY <1>5, <2>2 DEF PairBroken, To, CauseInv, GateType, reportVars, feedVars, Active, Returned,
         Undisturbed, CompleteOrExplained
    <2> QED BY <2>3, <2>4, <2>5
  <1>6. ASSUME NEW w \in Workers, PairCancelled(w) PROVE GateInv'
    <2>2. Delivered' = Delivered BY <1>6 DEF PairCancelled, To, reportVars, Delivered
    <2>3. GateType' BY <1>6 DEF PairCancelled, To, GateType, reportVars, feedVars
    <2>4. PairsInv'
      BY <1>6, <2>2 DEF PairCancelled, To, PairsInv, GateType, reportVars, feedVars, Active, Returned
    <2>5. CauseInv'
      BY <1>6, <2>2 DEF PairCancelled, To, CauseInv, PairsInv, GateType, reportVars, feedVars, Active,
         Returned, Undisturbed, CompleteOrExplained
    <2> QED BY <2>3, <2>4, <2>5
  <1>7. ASSUME NEW w \in Workers, RecordError(w) PROVE GateInv'
    <2>2. Delivered' = Delivered BY <1>7 DEF RecordError, To, reportVars, Delivered
    <2>3. GateType' BY <1>7 DEF RecordError, To, GateType, reportVars, feedVars
    <2>4. PairsInv'
      BY <1>7, <2>2 DEF RecordError, To, PairsInv, GateType, reportVars, feedVars, Active, Returned
    <2>5. CauseInv'
      BY <1>7, <2>2 DEF RecordError, To, CauseInv, PairsInv, GateType, reportVars, feedVars, Active,
         Returned, Undisturbed, CompleteOrExplained
    <2> QED BY <2>3, <2>4, <2>5
  <1>8. ASSUME NEW w \in Workers, CancelPairs(w) PROVE GateInv'
    <2>2. Delivered' = Delivered BY <1>8 DEF CancelPairs, To, reportVars, Delivered
    <2>3. GateType' BY <1>8 DEF CancelPairs, To, GateType, reportVars, feedVars
    <2>4. PairsInv'
      BY <1>8, <2>2 DEF CancelPairs, To, PairsInv, GateType, reportVars, feedVars, Active, Returned
    <2>5. CauseInv'
      BY <1>8, <2>2 DEF CancelPairs, To, CauseInv, PairsInv, GateType, reportVars, feedVars, Active,
         Returned, Undisturbed, CompleteOrExplained
    <2> QED BY <2>3, <2>4, <2>5
  <1>9. ASSUME NEW w \in Workers, Deliver(w) PROVE GateInv'
    <2> DEFINE p == wpair[w]
    <2>1. p \in Index /\ order' = Append(order, p) /\ Active(w) /\ wstage[w] = "sending"
          /\ ~Returned /\ ~Returned' /\ main = "draining"
      BY <1>9 DEF Deliver, GateType, Active, Returned
    <2>2. p \notin Delivered /\ p < next /\ p \in played
      BY <2>1 DEF PairsInv, Active, Delivered, GateType
    <2>a. order \in Seq(Index) BY DEF GateType
    <2> HIDE DEF p
    <2>3. order' \in Seq(Index) /\ Delivered' = Delivered \cup {p}
          /\ \A i, j \in DOMAIN order' : order'[i] = order'[j] => i = j
      BY <2>1, <2>2, <2>a, DeliveredAppend DEF PairsInv
    <2>4. verdict' \in Verdicts /\ (verdict # "inconclusive" => verdict' = verdict)
      BY <1>9 DEF Deliver, Fold, Test, GateType, Verdicts
    <2>5. /\ wstage' = [wstage EXCEPT ![w] = "waiting"] /\ wpair' = wpair /\ next' = next
          /\ indices' = indices /\ played' = played /\ errs' = errs
          /\ workCtx' = workCtx /\ outerCtx' = outerCtx
          /\ main' = IF verdict' # "inconclusive" THEN "stopping" ELSE "draining"
      BY <1>9 DEF Deliver, feedVars
    <2>6. GateType' BY <2>3, <2>4, <2>5 DEF GateType
    <2>7. PairsInv' BY <2>1, <2>2, <2>3, <2>5 DEF PairsInv, GateType, Active, p
    <2>8. CauseInv'
      BY <2>1, <2>2, <2>3, <2>4, <2>5
         DEF CauseInv, GateType, Active, Undisturbed, CompleteOrExplained, Returned, p
    <2> QED BY <2>6, <2>7, <2>8
  <1>10. CASE StopMatch
    <2>2. Delivered' = Delivered BY <1>10 DEF StopMatch, reportVars, Delivered
    <2>3. GateType' BY <1>10 DEF StopMatch, GateType, reportVars, workVars, feedVars
    <2>4. PairsInv' BY <1>10, <2>2 DEF StopMatch, PairsInv, reportVars, workVars, feedVars, Active, Returned
    <2>5. CauseInv'
      BY <1>10, <2>2 DEF StopMatch, CauseInv, reportVars, workVars, feedVars, Active, Returned,
         Undisturbed, CompleteOrExplained, Verdicts
    <2> QED BY <2>3, <2>4, <2>5
  <1>11. CASE Return
    <2>1. \A w \in Workers : ~Active(w) BY <1>11 DEF Return, Active
    <2>2. Delivered' = Delivered BY <1>11 DEF Return, reportVars, Delivered
    <2>3. GateType' BY <1>11 DEF Return, GateType, reportVars, workVars, feedVars
    <2>4. PairsInv' BY <1>11, <2>2 DEF Return, PairsInv, reportVars, workVars, feedVars, Active, Returned
    <2>5. Undisturbed => Delivered = Index
      <3> SUFFICES ASSUME Undisturbed PROVE Delivered = Index OBVIOUS
      <3>1. ~Returned BY <1>11 DEF Return, Returned
      <3>2. next = Pairs
        BY <3>1, <1>11, GateConstants DEF Return, CauseInv, GateConstants
      <3>3. \A p \in 0 .. next - 1 : p \in Delivered BY <3>1, <2>1 DEF CauseInv
      <3>4. Delivered \subseteq Index BY DEF GateType, Delivered
      <3> QED BY <3>2, <3>3, <3>4, <1>i
    <2>6. CauseInv'
      BY <1>11, <2>2, <2>5 DEF Return, GateType, reportVars, CauseInv, Undisturbed, Returned, CompleteOrExplained
    <2> QED BY <2>3, <2>4, <2>6
  <1>12. CASE Interrupt
    <2>2. Delivered' = Delivered BY <1>12 DEF Interrupt, reportVars, Delivered
    <2>3. GateType' BY <1>12 DEF Interrupt, GateType, reportVars, workVars, feedVars
    <2>4. PairsInv' BY <1>12, <2>2 DEF Interrupt, PairsInv, reportVars, workVars, feedVars, Active, Returned
    <2>5. CauseInv'
      BY <1>12, <2>2 DEF Interrupt, CauseInv, reportVars, Undisturbed, CompleteOrExplained
    <2> QED BY <2>3, <2>4, <2>5
  <1>13. CASE ExitStatus
    <2>2. Delivered' = Delivered BY <1>13 DEF ExitStatus, reportVars, Delivered
    <2>3. GateType' BY <1>13 DEF ExitStatus, GateType, reportVars, workVars, feedVars
    <2>4. PairsInv'
      BY <1>13, <2>2 DEF ExitStatus, PairsInv, reportVars, workVars, feedVars, Active, Returned, Verdicts,
         GateType
    <2>5. CauseInv'
      BY <1>13, <2>2 DEF ExitStatus, CauseInv, reportVars, Undisturbed, CompleteOrExplained, Returned,
         Verdicts, GateType
    <2> QED BY <2>3, <2>4, <2>5
  <1>14. CASE UNCHANGED vars
    <2>1. Delivered' = Delivered BY <1>14 DEF vars, reportVars, Delivered
    <2> QED
      BY <1>14, <2>1 DEF vars, reportVars, workVars, feedVars, GateType, PairsInv, CauseInv, Active,
         Returned, Undisturbed, CompleteOrExplained
  <1> QED
    BY <1>1, <1>2, <1>3, <1>4, <1>5, <1>6, <1>7, <1>8, <1>9, <1>10, <1>11, <1>12, <1>13, <1>14
       DEF Next, WorkerStep

\* The invariant holds of every behaviour.
LEMMA GateHolds == Spec => []GateInv
  BY GateInit, GateStep, PTL DEF Spec

\* Every pair played to the end is in the tally exactly once when runPairs has
\* returned, whatever was cancelled meanwhile.
THEOREM NoResultLostHolds == Spec => []NoResultLost
  <1>1. GateInv => NoResultLost
    BY DEF GateInv, PairsInv, NoResultLost, Returned
  <1> QED BY GateHolds, <1>1, PTL

\* The one-place error buffer never swallows a genuine failure: a match that
\* ends with nothing to report has played all its pairs.
THEOREM CompleteOrExplainedHolds == Spec => []CompleteOrExplained
  <1>1. GateInv => CompleteOrExplained BY DEF GateInv, CauseInv
  <1> QED BY GateHolds, <1>1, PTL

\* Once decided, verdict and LLR never change.
THEOREM VerdictLatchesHolds == Spec => VerdictLatches
  <1>1. [Next]_vars => (verdict # "inconclusive" => UNCHANGED <<verdict, tested>>)
    BY DEF Next, WorkerStep, Feed, FeederStops, WorkerEnds, PairDone, PairBroken, PairCancelled,
           RecordError, CancelPairs, To, Deliver, Fold, StopMatch, Return, Interrupt, ExitStatus,
           reportVars, vars
  <1> QED BY <1>1, PTL DEF Spec, VerdictLatches

-----------------------------------------------------------------------------
(***************************************************************************)
(* The report.  Tallied is defined by recursion; that the function exists, *)
(* and that a longer sequence keeps the sums of its prefixes, is shown by  *)
(* looking at the least number at which it would fail.                     *)
(***************************************************************************)
\* A set of naturals that is not empty has a least member.
LEMMA LeastMember ==
    ASSUME NEW S \in SUBSET Nat, S # {}
    PROVE  \E m \in S : \A n \in S : m <= n
<1>. DEFINE Below == {0 .. n : n \in S}
<1>1. Below \subseteq FiniteSubsetsOf(Nat) /\ Below # {}
  <2>1. \A n \in S : 0 .. n \in SUBSET Nat /\ IsFiniteSet(0 .. n)
    BY FS_Interval
  <2>. QED BY <2>1 DEF FiniteSubsetsOf
<1>2. PICK B \in Below : \A C \in Below : ~(<<C, B>> \in StrictSubsetOrdering(Nat))
  <2>. HIDE DEF Below
  <2>. QED BY <1>1, FS_StrictSubsetOrderingWellFounded, WFMin
<1>3. PICK m \in S : B = 0 .. m
  OBVIOUS
<1>4. ASSUME NEW n \in S, n < m PROVE FALSE
  <2>1. 0 .. n \subseteq 0 .. m /\ 0 .. n # 0 .. m
    BY <1>4
  <2>2. <<0 .. n, B>> \in StrictSubsetOrdering(Nat)
    BY <1>3, <2>1 DEF StrictSubsetOrdering
  <2>. QED BY <1>2, <2>2
<1>. QED BY <1>4

\* The equation of the partial sums of the first k pairs of seq, for a function t.
SumsOf(t, seq, k) ==
    [n \in 0 .. k |-> IF n = 0 THEN Zero ELSE Add(t[n - 1], outcome[seq[n]])]

\* The partial sums exist for every sequence, and Tallied is them.
LEMMA TalliedDef ==
    ASSUME NEW seq, Len(seq) \in Nat
    PROVE  Tallied(seq) = SumsOf(Tallied(seq), seq, Len(seq))
<1>1. ASSUME NEW k \in Nat PROVE \E t : t = SumsOf(t, seq, k)
  <2>. DEFINE Missing == {n \in Nat : ~\E t : t = SumsOf(t, seq, n)}
  <2>1. SUFFICES ASSUME Missing # {} PROVE FALSE
    OBVIOUS
  <2>2. PICK m \in Missing : \A n \in Missing : m <= n
    <3>1. Missing \in SUBSET Nat
      OBVIOUS
    <3>. HIDE DEF Missing
    <3>. QED BY <2>1, <3>1, LeastMember
  <2>3. m \in Nat /\ ~\E t : t = SumsOf(t, seq, m)
    BY <2>2
  <2>4. CASE m = 0
    <3>. DEFINE t == [n \in 0 .. 0 |-> Zero]
    <3>1. t = SumsOf(t, seq, 0)
      BY DEF SumsOf
    <3>. QED BY <2>3, <2>4, <3>1
  <2>5. CASE m # 0
    <3>1. m - 1 \in Nat /\ ~(m <= m - 1)
      BY <2>3, <2>5
    <3>2. PICK t : t = SumsOf(t, seq, m - 1)
      <4>1. m - 1 \notin Missing
        <5>. HIDE DEF Missing
        <5>. QED BY <2>2, <3>1
      <4>. QED BY <3>1, <4>1
    <3>. DEFINE u == [n \in 0 .. m |-> IF n = m THEN Add(t[m - 1], outcome[seq[m]]) ELSE t[n]]
    <3>3. \A n \in 0 .. m - 1 : t[n] = IF n = 0 THEN Zero ELSE Add(t[n - 1], outcome[seq[n]])
      BY <3>2 DEF SumsOf
    <3>4. \A n \in 0 .. m : u[n] = IF n = m THEN Add(t[m - 1], outcome[seq[m]]) ELSE t[n]
      OBVIOUS
    <3>5. ASSUME NEW n \in 0 .. m
          PROVE  u[n] = IF n = 0 THEN Zero ELSE Add(u[n - 1], outcome[seq[n]])
      <4>1. CASE n = 0
        BY <2>3, <2>5, <3>1, <3>3, <3>4, <4>1
      <4>2. CASE n # 0
        <5>1. n - 1 \in 0 .. m - 1 /\ n - 1 \in 0 .. m /\ n - 1 # m
          BY <2>3, <4>2
        <5>2. u[n - 1] = t[n - 1]
          BY <3>4, <5>1
        <5>3. CASE n = m
          BY <3>4, <4>2, <5>2, <5>3
        <5>4. CASE n # m
          <6>1. n \in 0 .. m - 1
            BY <2>3, <5>4
          <6>. HIDE DEF u
          <6>. QED BY <3>3, <3>4, <4>2, <5>2, <5>4, <6>1
        <5>. QED BY <5>3, <5>4
      <4>. QED BY <4>1, <4>2
    <3>6. u = SumsOf(u, seq, m)
      BY <3>5 DEF SumsOf
    <3>. QED BY <2>3, <3>6
  <2>. QED BY <2>4, <2>5
<1>2. \E t : t = SumsOf(t, seq, Len(seq))
  BY <1>1
<1>3. Tallied(seq) = CHOOSE t : t = SumsOf(t, seq, Len(seq))
  BY DEF Tallied, SumsOf
<1>. QED BY <1>2, <1>3

\* The equation, point by point.
LEMMA TalliedAt ==
    ASSUME NEW seq, Len(seq) \in Nat
    PROVE  /\ Tallied(seq)[0] = Zero
           /\ \A n \in 1 .. Len(seq) :
                Tallied(seq)[n] = Add(Tallied(seq)[n - 1], outcome[seq[n]])
<1>. DEFINE t == Tallied(seq)
<1>1. t = SumsOf(t, seq, Len(seq))
  BY TalliedDef
<1>. HIDE DEF t
<1>2. \A n \in 0 .. Len(seq) : t[n] = IF n = 0 THEN Zero ELSE Add(t[n - 1], outcome[seq[n]])
  BY <1>1 DEF SumsOf
<1>3. t[0] = Zero /\ \A n \in 1 .. Len(seq) : t[n] = Add(t[n - 1], outcome[seq[n]])
  BY <1>2
<1>. QED BY <1>3 DEF t

\* A further pair leaves the earlier sums as they were.
LEMMA TalliedAppend ==
    ASSUME NEW seq \in Seq(Index), NEW p \in Index
    PROVE  LET longer == Append(seq, p)
           IN  /\ \A n \in 0 .. Len(seq) : Tallied(longer)[n] = Tallied(seq)[n]
               /\ Tallied(longer)[Len(seq) + 1] = Add(Tallied(seq)[Len(seq)], outcome[p])
<1>. DEFINE longer == Append(seq, p)
            t == Tallied(seq)
            u == Tallied(longer)
            Differ == {n \in 0 .. Len(seq) : u[n] # t[n]}
<1>1. /\ Len(seq) \in Nat /\ Len(longer) = Len(seq) + 1
      /\ longer[Len(seq) + 1] = p
      /\ \A n \in 1 .. Len(seq) : longer[n] = seq[n]
  OBVIOUS
<1>2. /\ t[0] = Zero
      /\ \A n \in 1 .. Len(seq) : t[n] = Add(t[n - 1], outcome[seq[n]])
  BY <1>1, TalliedAt
<1>3. /\ u[0] = Zero
      /\ \A n \in 1 .. Len(seq) + 1 : u[n] = Add(u[n - 1], outcome[longer[n]])
  <2>1. Len(longer) \in Nat
    BY <1>1
  <2>. HIDE DEF longer
  <2>. QED BY <1>1, <2>1, TalliedAt
<1>. HIDE DEF longer, t, u
<1>4. Differ = {}
  <2>1. SUFFICES ASSUME Differ # {} PROVE FALSE
    OBVIOUS
  <2>2. PICK m \in Differ : \A n \in Differ : m <= n
    <3>1. Differ \in SUBSET Nat
      BY <1>1
    <3>. HIDE DEF Differ
    <3>. QED BY <2>1, <3>1, LeastMember
  <2>3. m \in 0 .. Len(seq) /\ u[m] # t[m]
    OBVIOUS
  <2>4. m # 0
    BY <1>2, <1>3, <2>3
  <2>5. m - 1 \in 0 .. Len(seq) /\ ~(m <= m - 1)
    BY <1>1, <2>3, <2>4
  <2>6. u[m - 1] = t[m - 1]
    BY <2>2, <2>5
  <2>7. m \in 1 .. Len(seq) /\ m \in 1 .. Len(seq) + 1
    BY <1>1, <2>3, <2>4
  <2>8. u[m] = Add(u[m - 1], outcome[seq[m]])
    BY <1>1, <1>3, <2>7
  <2>. QED BY <1>2, <2>3, <2>6, <2>7, <2>8
<1>5. \A n \in 0 .. Len(seq) : u[n] = t[n]
  BY <1>4
<1>6. u[Len(seq) + 1] = Add(t[Len(seq)], outcome[p])
  <2>1. u[Len(seq) + 1] = Add(u[(Len(seq) + 1) - 1], outcome[p])
    BY <1>1, <1>3
  <2>2. (Len(seq) + 1) - 1 = Len(seq) /\ Len(seq) \in 0 .. Len(seq)
    BY <1>1
  <2>. QED BY <1>5, <2>1, <2>2
<1>. QED BY <1>5, <1>6 DEF longer, t, u

\* Nothing but a delivery touches the report.
LEMMA ReportStep == ASSUME GateType, ReportExact, [Next]_vars PROVE ReportExact'
<1>1. ASSUME UNCHANGED <<outcome, reportVars>> PROVE ReportExact'
  <2>1. Tallied(order)' = Tallied(order)
    BY <1>1 DEF Tallied, reportVars
  <2>. QED BY <1>1, <2>1 DEF ReportExact, Crossings, reportVars, Test
<1>2. ASSUME NEW w \in Workers, Deliver(w) PROVE ReportExact'
  <2>. DEFINE p == wpair[w]
              t == Tallied(order)
              u == Tallied(order')
              k == Len(order)
              Crossed(s) == Test(s) # "inconclusive"
  <2>1. p \in Index /\ order \in Seq(Index) /\ k \in Nat
    BY DEF GateType
  <2>2. order' = Append(order, p) /\ outcome' = outcome /\ Fold(p)
    BY <1>2 DEF Deliver, matchVars
  <2>3. DOMAIN order = 1 .. k /\ DOMAIN order' = 1 .. (k + 1) /\ Len(order') = k + 1
    BY <2>1, <2>2
  <2>4. /\ \A n \in 0 .. k : u[n] = t[n]
        /\ u[k + 1] = Add(t[k], outcome[p])
    BY <2>1, <2>2, TalliedAppend
  <2>5. Tallied(order)' = u
    BY <2>2 DEF Tallied
  <2>6. tally = t[k] /\ tally' = u[k + 1]
    BY <2>2, <2>4 DEF ReportExact, Fold
  <2>7. Crossings = {n \in 1 .. k : Crossed(t[n])}
    BY <2>3 DEF Crossings
  <2>8. Crossings' = {n \in 1 .. (k + 1) : Crossed(u[n])}
    BY <2>3, <2>5 DEF Crossings, Test
  <2>a. \A n \in 1 .. k : n \in 0 .. k /\ n \in 1 .. (k + 1) /\ n <= k + 1 /\ n # k + 1
    BY <2>1
  <2>b. \A n \in 1 .. (k + 1) : n \in 1 .. k \/ n = k + 1
    BY <2>1
  <2>c. k + 1 \in 1 .. (k + 1)
    BY <2>1
  <2>. HIDE DEF p, t, u, k
  <2>9. \A n \in 1 .. k : n \in Crossings' <=> n \in Crossings
    BY <2>4, <2>7, <2>8, <2>a
  <2>10. CASE verdict # "inconclusive"
    <3>1. verdict' = verdict /\ tested' = tested
      BY <2>2, <2>10 DEF Fold
    <3>2. PICK n \in Crossings : /\ \A m \in Crossings : n <= m
                                 /\ tested = t[n] /\ verdict = Test(tested)
      BY <2>10 DEF ReportExact, t
    <3>3. n \in 1 .. k /\ n \in Crossings' /\ tested' = u[n]
      BY <2>4, <2>7, <2>9, <2>a, <3>1, <3>2
    <3>4. \A m \in Crossings' : n <= m
      BY <2>8, <2>9, <2>a, <2>b, <3>2, <3>3
    <3>5. \E n1 \in Crossings' : /\ \A m \in Crossings' : n1 <= m
                                 /\ tested' = u[n1] /\ verdict' = Test(tested')
      BY <3>1, <3>2, <3>3, <3>4
    <3>6. verdict' # "inconclusive"
      BY <2>10, <3>1
    <3>7. Test(tested)' = Test(tested')
      BY DEF Test
    <3>. QED BY <2>3, <2>5, <2>6, <3>5, <3>6, <3>7 DEF ReportExact
  <2>11. CASE verdict = "inconclusive"
    <3>1. verdict' = Test(tally') /\ tested' = tally' /\ Crossings = {}
      BY <2>2, <2>11 DEF Fold, ReportExact
    <3>2. \A n \in Crossings' : n = k + 1
      BY <2>8, <2>9, <2>b, <3>1
    <3>3. k + 1 \in Crossings' <=> verdict' # "inconclusive"
      BY <2>6, <2>8, <2>c, <3>1
    <3>4. verdict' = "inconclusive" => Crossings' = {}
      BY <3>2, <3>3
    <3>5. k + 1 <= k + 1
      BY <2>c
    <3>6. verdict' # "inconclusive" =>
            \E n1 \in Crossings' : /\ \A m \in Crossings' : n1 <= m
                                   /\ tested' = u[n1] /\ verdict' = Test(tested')
      BY <2>6, <3>1, <3>2, <3>3, <3>5
    <3>7. Test(tested)' = Test(tested')
      BY DEF Test
    <3>. QED BY <2>3, <2>5, <2>6, <3>4, <3>6, <3>7 DEF ReportExact
  <2>. QED BY <2>10, <2>11
<1>3. CASE UNCHANGED vars
  BY <1>1, <1>3 DEF vars, matchVars
<1>4. CASE FeederStops \/ StopMatch \/ Return \/ Interrupt \/ ExitStatus
  BY <1>1, <1>4 DEF FeederStops, StopMatch, Return, Interrupt, ExitStatus, matchVars
<1>5. ASSUME NEW w \in Workers, Feed(w) \/ WorkerStep(w) PROVE ReportExact'
  BY <1>1, <1>5 DEF Feed, WorkerStep, WorkerEnds, PairDone, PairBroken, PairCancelled,
                    RecordError, CancelPairs, To, matchVars
<1>. QED BY <1>2, <1>3, <1>4, <1>5 DEF Next

\* The report counts every pair delivered exactly as it ended, stragglers included,
\* and the verdict and LLR are those of the first partial sum to cross a bound: what
\* the sequential test prescribes, whatever arrives while the match winds down.
THEOREM ReportExactHolds == Spec => []ReportExact
<1>1. Init => ReportExact
  <2>1. SUFFICES ASSUME Init PROVE ReportExact
    OBVIOUS
  <2>2. order = <<>> /\ tally = Zero /\ verdict = "inconclusive"
    BY <2>1 DEF Init
  <2>3. Len(order) = 0 /\ DOMAIN order = {}
    BY <2>2
  <2>4. Tallied(order)[0] = Zero
    BY <2>3, TalliedAt
  <2>. QED BY <2>2, <2>3, <2>4 DEF ReportExact, Crossings
<1>2. GateInv => GateType
  BY DEF GateInv
<1>. QED BY GateHolds, <1>1, <1>2, ReportStep, PTL DEF Spec
=============================================================================
