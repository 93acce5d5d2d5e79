-------------------------- MODULE SelfPlay_proofs --------------------------
(***************************************************************************)
(* Theorems about Coordinator and about the pipeline SelfPlay, for every   *)
(* value of their constants.                                               *)
(*                                                                         *)
(* The coordinator's inductive invariant is built in layers: types, then   *)
(* what is counted, then completion, then the accounting of outstanding    *)
(* units, then the readability of what is announced, and the total.  Each  *)
(* layer is inductive relative to the ones before it.                      *)
(*                                                                         *)
(* For any set of workers, any yields and any bounds the pipeline          *)
(* implements Coordinator, and no published unit is lost.  WorkerInv is    *)
(* the strengthening both results need; the coordinator's own invariants   *)
(* then hold of the pipeline because they hold of every Coordinator        *)
(* behaviour.                                                              *)
(***************************************************************************)
EXTENDS SelfPlay, FiniteSetTheorems, WellFoundedInduction, TLAPS

-----------------------------------------------------------------------------
(* The coordinator.                                                        *)

\* The empty list of artifacts is a sequence over any set.
LEMMA EmptyIsSeq == ASSUME NEW S PROVE <<>> \in Seq(S)
  OBVIOUS

\* Appending a member keeps a sequence over the set.
LEMMA AppendIsSeq ==
  ASSUME NEW S, NEW s \in Seq(S), NEW e \in S PROVE Append(s, e) \in Seq(S)
  OBVIOUS

-----------------------------------------------------------------------------
(* Layer 0: types.                                                         *)

\* Every variable keeps its type: no batch of another generation is ever
\* counted or marked, and no index beyond the considered ones is issued.
THEOREM TypeCorrect == Spec => []TypeOK
<1> USE ConstantsOK, EmptyIsSeq DEF ConstantsOK, Index
<1>1. Init => TypeOK
  BY DEF Init, TypeOK, FileState
<1>2. TypeOK /\ [Next]_vars => TypeOK'
  <2> SUFFICES ASSUME TypeOK, [Next]_vars PROVE TypeOK'
    OBVIOUS
  <2> USE DEF TypeOK, FileState, runVars, sharedVars, handlerVars, poolVars
  <2>1. CASE Start
    BY <2>1 DEF Start, FreshMemory
  <2>2. CASE Crash
    BY <2>2 DEF Crash, Exit, FreshMemory
  <2>3. CASE ListArtifacts
    BY <2>3 DEF ListArtifacts
  <2>4. CASE \E u \in Index : ScanArtifact(u)
    BY <2>4 DEF ScanArtifact
  <2>5. CASE ScanDone
    BY <2>5 DEF ScanDone
  <2>6. ASSUME NEW u \in Index, ApplyResult(u) PROVE TypeOK'
    <3>1. Yield[u] \in Nat
      OBVIOUS
    <3>2. positions' \in Nat /\ issued' \in Nat
      BY <2>6, <3>1 DEF ApplyResult
    <3>3. artifacts' \in Seq(Index)
      <4>1. artifacts' = artifacts \/ artifacts' = Append(artifacts, u)
        BY <2>6 DEF ApplyResult
      <4>2. artifacts \in Seq(Index) /\ Append(artifacts, u) \in Seq(Index)
        BY AppendIsSeq
      <4> QED
        BY <4>1, <4>2
    <3> QED
      BY <2>6, <3>2, <3>3 DEF ApplyResult
  <2>7. CASE ResumeDone
    BY <2>7 DEF ResumeDone
  <2>8. CASE MeasureOutstanding
    BY <2>8 DEF MeasureOutstanding, Outstanding
  <2>9. CASE SkipCovered
    <3>1. nextIndex' \in 0 .. MaxIndex + 1
      <4>1. nextIndex \in Index /\ nextIndex' = nextIndex + 1
        BY <2>9 DEF SkipCovered
      <4> QED
        BY <4>1
    <3> QED
      BY <2>9, <3>1 DEF SkipCovered
  <2>10. CASE IssueUnit
    BY <2>10 DEF IssueUnit
  <2>11. CASE IssueFails
    BY <2>11 DEF IssueFails, Exit, FreshMemory
  <2>12. CASE TopUpDone
    BY <2>12 DEF TopUpDone
  <2>13. CASE Tick
    BY <2>13 DEF Tick
  <2>14. CASE SeeDone
    BY <2>14 DEF SeeDone
  <2>15. CASE Announce
    BY <2>15 DEF Announce, Exit, FreshMemory, Dataset
  <2>16. CASE AnnounceFails
    BY <2>16 DEF AnnounceFails, Exit, FreshMemory, Dataset
  <2>17. CASE \E u \in Index \cup Old : DropBatch(u)
    BY <2>17 DEF DropBatch, Ack
  <2>18. CASE \E u \in Index : ResolveEmpty(u)
    BY <2>18 DEF ResolveEmpty, Ack
  <2>19. CASE \E u \in Index : ResolveBatch(u)
    BY <2>19 DEF ResolveBatch
  <2>20. CASE VerifyBatch
    BY <2>20 DEF VerifyBatch
  <2>21. CASE RejectBatch
    BY <2>21 DEF RejectBatch, Ack
  <2>22. CASE CountBatch
    <3>1. Yield[hunit] \in Nat
      OBVIOUS
    <3>2. positions' \in Nat
      BY <2>22, <3>1 DEF CountBatch
    <3>3. artifacts' \in Seq(Index)
      <4>1. artifacts' = Append(artifacts, hunit)
        BY <2>22 DEF CountBatch
      <4> QED
        BY <4>1, AppendIsSeq
    <3>4. hstage' \in {"idle", "close"}
      BY <2>22 DEF CountBatch
    <3>5. hunit' \in Index
      BY <2>22 DEF CountBatch
    <3>6. inbox' \in SUBSET (Index \cup Old)
      BY <2>22 DEF CountBatch, Ack
    <3> QED
      BY <2>22, <3>2, <3>3, <3>4, <3>5, <3>6 DEF CountBatch
  <2>23. CASE CloseDone
    BY <2>23 DEF CloseDone, Ack
  <2>24. CASE \E u \in Index : StoreArtifact(u)
    BY <2>24 DEF StoreArtifact
  <2>25. CASE \E u \in Index : ReportBatch(u)
    BY <2>25 DEF ReportBatch
  <2>26. CASE \E u \in Index : Damage(u)
    BY <2>26 DEF Damage
  <2>27. CASE UNCHANGED vars
    BY <2>27 DEF vars
  <2> QED
    BY <2>1, <2>2, <2>3, <2>4, <2>5, <2>6, <2>7, <2>8, <2>9, <2>10, <2>11, <2>12, <2>13,
       <2>14, <2>15, <2>16, <2>17, <2>18, <2>19, <2>20, <2>21, <2>22, <2>23, <2>24, <2>25,
       <2>26, <2>27
    DEF Next, RunGeneration, HandleBatch, Pool
<1> QED
  BY <1>1, <1>2, PTL DEF Spec

-----------------------------------------------------------------------------
(* Layer 1: what is counted.                                               *)

\* Steps after which the coordinator remembers nothing.
LEMMA ExitForgets ==
  Start \/ Crash \/ IssueFails \/ Announce \/ AnnounceFails => FreshMemory
BY DEF Start, Crash, IssueFails, Announce, AnnounceFails, Exit

\* Appending a unit that is not yet listed keeps the list without repetition.
LEMMA AppendDistinct ==
  ASSUME NEW s \in Seq(Index), NEW u \in Index,
         \A i, j \in DOMAIN s : s[i] = s[j] => i = j,
         \A i \in DOMAIN s : s[i] # u
  PROVE  LET t == Append(s, u)
         IN  /\ \A i, j \in DOMAIN t : t[i] = t[j] => i = j
             /\ {t[i] : i \in DOMAIN t} = {s[i] : i \in DOMAIN s} \cup {u}
<1> DEFINE t == Append(s, u)
<1>1. /\ Len(t) = Len(s) + 1 /\ Len(s) \in Nat
      /\ DOMAIN t = 1 .. Len(s) + 1 /\ DOMAIN s = 1 .. Len(s)
      /\ t[Len(s) + 1] = u
      /\ \A i \in 1 .. Len(s) : t[i] = s[i]
  OBVIOUS
<1> HIDE DEF t
<1>2. \A i, j \in DOMAIN t : t[i] = t[j] => i = j
  <2> TAKE i, j \in DOMAIN t
  <2>1. CASE i \in 1 .. Len(s) /\ j \in 1 .. Len(s)
    BY <1>1, <2>1
  <2>2. CASE i = Len(s) + 1 \/ j = Len(s) + 1
    BY <1>1, <2>2
  <2> QED
    BY <1>1, <2>1, <2>2
<1>3. {t[i] : i \in DOMAIN t} = {s[i] : i \in DOMAIN s} \cup {u}
  BY <1>1
<1> QED
  BY <1>2, <1>3 DEF t

\* CountedOnce with what makes it inductive: a unit in the handler's hands is
\* already resolved and not yet counted, so resume can no longer count it.
LEMMA CountingInductive == TypeOK /\ CountingInv /\ [Next]_vars => CountingInv'
<1> SUFFICES ASSUME TypeOK, CountingInv, [Next]_vars PROVE CountingInv'
  OBVIOUS
<1> USE DEF CountingInv, CountedOnce, Counted, runVars, sharedVars, handlerVars, poolVars
<1>1. CASE Start \/ Crash \/ IssueFails \/ Announce \/ AnnounceFails
  BY <1>1, ExitForgets DEF FreshMemory
<1>2. ASSUME NEW u \in Index, ApplyResult(u) PROVE CountingInv'
  <2>1. CASE u \in resolved
    BY <1>2, <2>1 DEF ApplyResult
  <2>2. CASE u \notin resolved
    <3>1. artifacts' = Append(artifacts, u) /\ resolved' = resolved \cup {u}
      BY <1>2, <2>2 DEF ApplyResult
    <3>2. covered' = covered \cup {u} /\ UNCHANGED <<hstage, hunit>>
      BY <1>2, <2>2 DEF ApplyResult
    <3>3. \A i \in DOMAIN artifacts : artifacts[i] # u
      BY <2>2
    <3>4. /\ \A i, j \in DOMAIN artifacts' : artifacts'[i] = artifacts'[j] => i = j
          /\ Counted' = Counted \cup {u}
      <4>1. artifacts \in Seq(Index)
        BY DEF TypeOK
      <4>2. \A i, j \in DOMAIN artifacts : artifacts[i] = artifacts[j] => i = j
        OBVIOUS
      <4>3. artifacts' = Append(artifacts, u)
        BY <3>1
      <4> QED
        BY ONLY <4>1, <4>2, <4>3, <3>3, u \in Index, AppendDistinct DEF Counted
    <3>5. covered' \subseteq resolved' /\ Counted' \subseteq resolved'
      BY <3>1, <3>2, <3>4
    <3>6. hstage \in {"verify", "count"} => hunit \in resolved' \ Counted'
      BY <2>2, <3>1, <3>4
    <3> HIDE DEF Counted
    <3> QED
      BY <3>2, <3>4, <3>5, <3>6
  <2> QED
    BY <2>1, <2>2
<1>3. ASSUME NEW u \in Index, ResolveEmpty(u) PROVE CountingInv'
  BY <1>3 DEF ResolveEmpty
<1>4. ASSUME NEW u \in Index, ResolveBatch(u) PROVE CountingInv'
  BY <1>4 DEF ResolveBatch
<1>5. CASE VerifyBatch
  BY <1>5 DEF VerifyBatch
<1>6. CASE RejectBatch
  BY <1>6 DEF RejectBatch
<1>7. CASE CountBatch
  <2>1. artifacts' = Append(artifacts, hunit) /\ hstage' \in {"idle", "close"}
    BY <1>7 DEF CountBatch
  <2>2. UNCHANGED <<resolved, covered>> /\ hunit \in resolved \ Counted
    BY <1>7 DEF CountBatch
  <2>3. \A i \in DOMAIN artifacts : artifacts[i] # hunit
    BY <2>2
  <2>4. /\ \A i, j \in DOMAIN artifacts' : artifacts'[i] = artifacts'[j] => i = j
        /\ Counted' = Counted \cup {hunit}
    <3>1. artifacts \in Seq(Index) /\ hunit \in Index
      BY DEF TypeOK
    <3>2. \A i, j \in DOMAIN artifacts : artifacts[i] = artifacts[j] => i = j
      OBVIOUS
    <3>3. artifacts' = Append(artifacts, hunit)
      BY <2>1
    <3> QED
      BY ONLY <3>1, <3>2, <3>3, <2>3, AppendDistinct DEF Counted
  <2> QED
    BY <2>1, <2>2, <2>4
<1>8. CASE CloseDone
  BY <1>8 DEF CloseDone
<1>9. CASE UNCHANGED <<artifacts, resolved, covered, hstage, hunit>>
  BY <1>9
<1> QED
  BY <1>1, <1>2, <1>3, <1>4, <1>5, <1>6, <1>7, <1>8, <1>9
  DEF Next, RunGeneration, HandleBatch, Pool, vars, ListArtifacts, ScanArtifact, ScanDone,
      ResumeDone, MeasureOutstanding, SkipCovered, IssueUnit, TopUpDone, Tick, SeeDone,
      DropBatch, StoreArtifact, ReportBatch, Damage

\* The counting part of the invariant holds of every behaviour.
LEMMA CountingHolds == Spec => []CountingInv
<1>1. Init => CountingInv
  BY DEF Init, CountingInv, CountedOnce, Counted
<1> QED
  BY <1>1, CountingInductive, TypeCorrect, PTL DEF Spec

\* However resume and the handler race, and however often a batch is delivered
\* again, no unit's artifact is in the dataset twice.
THEOREM CountedOnceHolds == Spec => []CountedOnce
<1>1. CountingInv => CountedOnce
  BY DEF CountingInv
<1> QED
  BY <1>1, CountingHolds, PTL

-----------------------------------------------------------------------------
(* Layer 2: completion.                                                    *)

\* Whoever carries positions over the target notices: the handler, because it
\* computes reached in the lock section that adds; RunGeneration, because it
\* looks once resume has added everything.
LEMMA CompletionInductive ==
  TypeOK /\ CountingInv /\ CompletionInv /\ [Next]_vars => CompletionInv'
<1> SUFFICES ASSUME TypeOK, CountingInv, CompletionInv, [Next]_vars PROVE CompletionInv'
  OBVIOUS
<1> USE DEF CompletionInv, CompletionNoticed, AnnouncedEnough, runVars, sharedVars,
            handlerVars, poolVars
<1>1. CASE Start \/ Crash \/ IssueFails
  <2>1. pc' \in {"down", "list"} /\ done' = "open" /\ hstage' = "idle" /\ announced' = announced
    BY <1>1 DEF Start, Crash, IssueFails, Exit, FreshMemory
  <2> QED
    BY <2>1
<1>2. CASE Announce \/ AnnounceFails
  <2>1. pc' = "down" /\ done' = "open" /\ hstage' = "idle"
    BY <1>2 DEF Announce, AnnounceFails, Exit, FreshMemory
  <2>2. announced' \subseteq announced \cup {Dataset} /\ positions >= Target
    BY <1>2 DEF Announce, AnnounceFails
  <2>3. /\ Dataset.positions >= Target
        /\ \A i, j \in DOMAIN Dataset.artifacts :
              Dataset.artifacts[i] = Dataset.artifacts[j] => i = j
    BY <2>2 DEF Dataset, CountingInv, CountedOnce
  <2> QED
    BY <2>1, <2>2, <2>3
<1>3. ASSUME NEW u \in Index, ApplyResult(u) PROVE CompletionInv'
  <2>1. pc' = "apply" /\ UNCHANGED <<done, hstage, announced>>
    BY <1>3 DEF ApplyResult
  <2>2. positions' >= positions
    BY <1>3, ConstantsOK DEF ApplyResult, TypeOK, ConstantsOK
  <2>3. positions \in Nat /\ positions' \in Nat /\ Target \in Nat
    BY <1>3, ConstantsOK DEF ApplyResult, TypeOK, ConstantsOK
  <2> QED
    BY <2>1, <2>2, <2>3
<1>4. CASE ResumeDone
  BY <1>4, ConstantsOK DEF ResumeDone, TypeOK, ConstantsOK
<1>5. CASE ScanDone \/ MeasureOutstanding \/ TopUpDone \/ Tick
  BY <1>5 DEF ScanDone, MeasureOutstanding, TopUpDone, Tick
<1>6. CASE SeeDone
  BY <1>6 DEF SeeDone
<1>7. CASE VerifyBatch \/ RejectBatch \/ \E u \in Index : ResolveBatch(u)
  <2>1. /\ hstage \in {"verify", "idle"} /\ hstage' \in {"idle", "verify", "count"}
        /\ UNCHANGED <<pc, positions, done, announced>>
    BY <1>7 DEF VerifyBatch, RejectBatch, ResolveBatch, Delivered
  <2> QED
    BY <2>1
<1>8. CASE CountBatch
  <2>1. positions' = positions + Yield[hunit] /\ UNCHANGED <<pc, done, announced>>
    BY <1>8 DEF CountBatch
  <2>2. Yield[hunit] \in Nat /\ positions \in Nat /\ Target \in Nat
    BY ConstantsOK DEF TypeOK, ConstantsOK
  <2>3. positions' >= Target => hstage' = "close"
    BY <1>8 DEF CountBatch
  <2>4. hstage' = "close" => positions' >= Target
    BY <1>8 DEF CountBatch
  <2>5. (done' = "closed" \/ pc' = "announce") => positions' >= Target
    BY <2>1, <2>2
  <2>6. positions' < Target \/ positions' >= Target
    BY <2>1, <2>2
  <2> QED
    BY <2>1, <2>3, <2>4, <2>5, <2>6
<1>9. CASE CloseDone
  BY <1>9 DEF CloseDone
<1>10. CASE UNCHANGED <<pc, positions, done, hstage, announced>>
  BY <1>10
<1>11. CASE ListArtifacts
  BY <1>11 DEF ListArtifacts
<1> QED
  BY <1>1, <1>2, <1>3, <1>4, <1>5, <1>6, <1>7, <1>8, <1>9, <1>10, <1>11
  DEF Next, RunGeneration, HandleBatch, Pool, vars, ScanArtifact, SkipCovered, IssueUnit,
      DropBatch, ResolveEmpty, StoreArtifact, ReportBatch, Damage

\* The completion part of the invariant holds of every behaviour.
LEMMA CompletionHolds == Spec => []CompletionInv
<1>1. Init => CompletionInv
  BY DEF Init, CompletionInv, CompletionNoticed, AnnouncedEnough
<1> QED
  BY <1>1, CompletionInductive, CountingHolds, TypeCorrect, PTL DEF Spec

\* The target is never reached without done being closed or about to be, so
\* the loop that waits for it cannot wait for ever.
THEOREM CompletionNoticedHolds == Spec => []CompletionNoticed
<1>1. CompletionInv => CompletionNoticed
  BY DEF CompletionInv
<1> QED
  BY <1>1, CompletionHolds, PTL

\* Only a dataset with enough positions, and no artifact twice, is announced.
THEOREM AnnouncedEnoughHolds == Spec => []AnnouncedEnough
<1>1. CompletionInv => AnnouncedEnough
  BY DEF CompletionInv
<1> QED
  BY <1>1, CompletionHolds, PTL

-----------------------------------------------------------------------------
(* Layer 3: the accounting of outstanding units.                           *)

\* Every set of unit indices is finite.
LEMMA IndexFinite == \A S \in SUBSET Index : IsFiniteSet(S) /\ Cardinality(S) \in Nat
<1>1. IsFiniteSet(Index)
  BY FS_Interval, ConstantsOK DEF Index, ConstantsOK
<1> QED
  BY <1>1, FS_Subset, FS_CardinalityType

\* A new member adds one to the number of elements of a set of indices.
LEMMA AddOne ==
  ASSUME NEW S \in SUBSET Index, NEW u \in Index, u \notin S
  PROVE  Cardinality(S \cup {u}) = Cardinality(S) + 1
BY IndexFinite, FS_AddElement

\* issued counts exactly the units this process issued or found, and the
\* measured outstanding, with what topUp still has to publish, stays within
\* UnitsInFlight: resolving in between only lowers it.
LEMMA AccountingInductive ==
  TypeOK /\ CountingInv /\ AccountingInv /\ [Next]_vars => AccountingInv'
<1> SUFFICES ASSUME TypeOK, CountingInv, AccountingInv, [Next]_vars PROVE AccountingInv'
  OBVIOUS
<1>0. /\ resolved \in SUBSET Index /\ covered \in SUBSET resolved /\ IssuedUnits \in SUBSET Index
      /\ Cardinality(resolved) \in Nat /\ issued \in Nat /\ toIssue \in Int
      /\ nextIndex \in Nat /\ UnitsInFlight \in Nat /\ MaxIndex \in Nat
  <2>1. resolved \in SUBSET Index /\ covered \in SUBSET resolved /\ IssuedUnits \in SUBSET Index
    BY DEF TypeOK, CountingInv, IssuedUnits
  <2>2. issued \in Nat /\ toIssue \in Int /\ nextIndex \in 0 .. MaxIndex + 1
    BY DEF TypeOK
  <2>3. UnitsInFlight \in Nat /\ MaxIndex \in Nat
    BY ConstantsOK DEF ConstantsOK
  <2> QED
    BY <2>1, <2>2, <2>3, IndexFinite
<1> USE <1>0 DEF AccountingInv, Outstanding
<1>1. CASE Start \/ Crash \/ IssueFails \/ Announce \/ AnnounceFails
  <2>1. nextIndex' = 0 /\ issued' = 0 /\ toIssue' = 0 /\ covered' = {} /\ resolved' = {}
    BY <1>1, ExitForgets DEF FreshMemory
  <2>2. IssuedUnits' = {}
    BY <2>1 DEF IssuedUnits, Index
  <2>3. Cardinality({}) = 0
    BY FS_EmptySet
  <2> QED
    BY <2>1, <2>2, <2>3
<1>2. ASSUME NEW u \in Index, ApplyResult(u) PROVE AccountingInv'
  <2>1. CASE u \in resolved
    <3>1. UNCHANGED <<pc, nextIndex, issued, covered, resolved, toIssue>>
      BY <1>2, <2>1 DEF ApplyResult
    <3> QED
      BY <3>1 DEF IssuedUnits
  <2>2. CASE u \notin resolved
    <3>1. /\ pc' = "apply" /\ nextIndex = 0 /\ nextIndex' = 0
          /\ issued' = issued + 1
          /\ covered' = covered \cup {u} /\ resolved' = resolved \cup {u}
      BY <1>2, <2>2 DEF ApplyResult
    <3>2. IssuedUnits = covered /\ IssuedUnits' = covered \cup {u}
      BY <3>1 DEF IssuedUnits, Index
    <3>3. Cardinality(resolved') = Cardinality(resolved) + 1
      BY <2>2, <3>1, AddOne
    <3>4. Cardinality(IssuedUnits') = Cardinality(IssuedUnits) + 1
      BY <2>2, <3>2, AddOne
    <3> QED
      BY <3>1, <3>3, <3>4
  <2> QED
    BY <2>1, <2>2
<1>3. CASE MeasureOutstanding
  <2>1. /\ pc' = "issue" /\ toIssue' = UnitsInFlight - Outstanding
        /\ UNCHANGED <<nextIndex, issued, covered, resolved>>
    BY <1>3 DEF MeasureOutstanding, sharedVars
  <2> QED
    BY <2>1 DEF IssuedUnits
<1>4. CASE SkipCovered
  <2>1. /\ nextIndex \in covered /\ nextIndex' = nextIndex + 1
        /\ UNCHANGED <<pc, toIssue, issued, covered, resolved>> /\ pc = "issue"
    BY <1>4 DEF SkipCovered, sharedVars
  <2>2. IssuedUnits' = IssuedUnits
    BY <2>1 DEF IssuedUnits, Index
  <2> QED
    BY <2>1, <2>2
<1>5. CASE IssueUnit
  <2>1. /\ nextIndex \in Index \ covered /\ nextIndex' = nextIndex + 1
        /\ issued' = issued + 1 /\ toIssue' = toIssue - 1 /\ toIssue > 0
        /\ UNCHANGED <<pc, covered, resolved>> /\ pc = "issue"
    BY <1>5 DEF IssueUnit, sharedVars
  <2>2. IssuedUnits' = IssuedUnits \cup {nextIndex} /\ nextIndex \notin IssuedUnits
    BY <2>1 DEF IssuedUnits, Index
  <2>3. Cardinality(IssuedUnits') = Cardinality(IssuedUnits) + 1
    BY <2>1, <2>2, AddOne
  <2> QED
    BY <2>1, <2>3
<1>6. CASE TopUpDone \/ Tick \/ SeeDone \/ ResumeDone \/ ScanDone \/ ListArtifacts
  <2>1. pc' # "issue" /\ UNCHANGED <<nextIndex, issued, covered, resolved>>
    BY <1>6 DEF TopUpDone, Tick, SeeDone, ResumeDone, ScanDone, ListArtifacts, sharedVars
  <2>2. pc' \in {"down", "list", "scan", "apply"} => pc \in {"down", "list", "scan", "apply"}
    BY <1>6 DEF TopUpDone, Tick, SeeDone, ResumeDone, ScanDone, ListArtifacts
  <2> QED
    BY <2>1, <2>2 DEF IssuedUnits
<1>7. CASE \E u \in Index : ResolveEmpty(u) \/ ResolveBatch(u)
  <2> PICK u \in Index : ResolveEmpty(u) \/ ResolveBatch(u)
    BY <1>7
  <2>1. /\ u \notin resolved /\ resolved' = resolved \cup {u}
        /\ UNCHANGED <<pc, toIssue, nextIndex, issued, covered>>
    BY DEF ResolveEmpty, ResolveBatch, runVars
  <2>2. Cardinality(resolved') = Cardinality(resolved) + 1
    BY <2>1, AddOne
  <2> QED
    BY <2>1, <2>2 DEF IssuedUnits
<1>8. CASE UNCHANGED <<pc, toIssue, nextIndex, issued, covered, resolved>>
  BY <1>8 DEF IssuedUnits
<1> QED
  BY <1>1, <1>2, <1>3, <1>4, <1>5, <1>6, <1>7, <1>8
  DEF Next, RunGeneration, HandleBatch, Pool, vars, runVars, sharedVars, ScanArtifact,
      DropBatch, VerifyBatch, RejectBatch, CountBatch, CloseDone, StoreArtifact,
      ReportBatch, Damage

\* The accounting part of the invariant holds of every behaviour.
LEMMA AccountingHolds == Spec => []AccountingInv
<1>1. Init => AccountingInv
  <2>1. Init => IssuedUnits = {}
    BY DEF Init, IssuedUnits, Index
  <2>2. Cardinality({}) = 0 /\ UnitsInFlight \in Nat
    BY FS_EmptySet, ConstantsOK DEF ConstantsOK
  <2> QED
    <3>1. Init => /\ pc = "down" /\ nextIndex = 0 /\ issued = 0 /\ toIssue = 0 /\ resolved = {}
      BY DEF Init
    <3> QED
      BY <2>1, <2>2, <3>1 DEF AccountingInv, Outstanding
<1> QED
  BY <1>1, AccountingInductive, CountingHolds, TypeCorrect, PTL DEF Spec

\* topUp never overestimates what is outstanding: units that were resolved
\* without contributing, or without being issued by this process, only lower
\* the estimate.
THEOREM OutstandingHonestHolds == Spec => []OutstandingHonest
<1>1. TypeOK /\ CountingInv /\ AccountingInv => OutstandingHonest
  <2> SUFFICES ASSUME TypeOK, CountingInv, AccountingInv PROVE OutstandingHonest
    OBVIOUS
  <2>1. IssuedUnits \in SUBSET Index /\ resolved \in SUBSET Index
    BY DEF TypeOK, IssuedUnits
  <2>2. IsFiniteSet(IssuedUnits) /\ IsFiniteSet(resolved)
    BY <2>1, IndexFinite
  <2>3. Cardinality(IssuedUnits \ resolved)
          = Cardinality(IssuedUnits) - Cardinality(IssuedUnits \cap resolved)
    BY <2>2, FS_Difference
  <2>4. Cardinality(IssuedUnits \cap resolved) <= Cardinality(resolved)
    BY <2>2, FS_Intersection
  <2>5. /\ Cardinality(IssuedUnits) \in Nat /\ Cardinality(resolved) \in Nat
        /\ Cardinality(IssuedUnits \cap resolved) \in Nat
    BY <2>1, IndexFinite
  <2> QED
    BY <2>3, <2>4, <2>5 DEF OutstandingHonest, Outstanding, AccountingInv
<1> QED
  BY <1>1, AccountingHolds, CountingHolds, TypeCorrect, PTL

\* At most UnitsInFlight units are outstanding by the coordinator's count.
THEOREM QueueBoundedHolds == Spec => []QueueBounded
<1>1. AccountingInv => QueueBounded
  BY DEF AccountingInv, QueueBounded
<1> QED
  BY <1>1, AccountingHolds, PTL

-----------------------------------------------------------------------------
(* Layer 4: what is announced can be read.                                 *)

\* Whatever enters the dataset was checked in this process's lifetime: found by
\* the scan with sound framing, or verified by the handler against its checksum.
LEMMA ReadableInductive == TypeOK /\ ReadableInv /\ [Next]_vars => ReadableInv'
<1> SUFFICES ASSUME TypeOK, ReadableInv, [Next]_vars PROVE ReadableInv'
  OBVIOUS
<1> USE DEF ReadableInv, AnnouncedReadable, FramingOK, VerifyOK, Counted
<1>1. CASE Start \/ Crash \/ IssueFails
  <2>1. /\ artifacts' = <<>> /\ found' = {} /\ pc' \in {"down", "list"} /\ hstage' = "idle"
        /\ UNCHANGED <<disk, announced>>
    BY <1>1 DEF Start, Crash, IssueFails, Exit, FreshMemory, poolVars
  <2> QED
    BY <2>1
<1>2. CASE Announce \/ AnnounceFails
  <2>1. /\ artifacts' = <<>> /\ found' = {} /\ pc' = "down" /\ hstage' = "idle"
        /\ announced' \subseteq announced \cup {Dataset} /\ UNCHANGED disk
    BY <1>2 DEF Announce, AnnounceFails, Exit, FreshMemory, poolVars
  <2>2. Dataset.artifacts = artifacts
    BY DEF Dataset
  <2> QED
    BY <2>1, <2>2
<1>3. CASE ScanDone
  BY <1>3 DEF ScanDone, sharedVars, handlerVars, poolVars
<1>4. ASSUME NEW u \in Index, ScanArtifact(u) PROVE ReadableInv'
  BY <1>4 DEF ScanArtifact, sharedVars, handlerVars, poolVars
<1>5. ASSUME NEW u \in Index, ApplyResult(u) PROVE ReadableInv'
  <2>1. /\ u \in todo /\ todo' = todo \ {u} /\ pc = "apply"
        /\ artifacts' = artifacts \/ artifacts' = Append(artifacts, u)
        /\ UNCHANGED <<pc, found, hstage, hunit, disk, announced>>
    BY <1>5 DEF ApplyResult, handlerVars, poolVars
  <2>2. Counted' \subseteq Counted \cup {u}
    BY <2>1 DEF TypeOK
  <2> QED
    BY <2>1, <2>2
<1>6. CASE CountBatch
  <2>1. /\ hstage = "count" /\ hstage' \in {"idle", "close"}
        /\ artifacts' = Append(artifacts, hunit)
        /\ UNCHANGED <<pc, todo, found, disk, announced>>
    BY <1>6 DEF CountBatch, runVars
  <2>2. Counted' \subseteq Counted \cup {hunit}
    BY <2>1 DEF TypeOK
  <2> QED
    BY <2>1, <2>2
<1>7. ASSUME NEW u \in Index, StoreArtifact(u) PROVE ReadableInv'
  <2>1. /\ disk' = [disk EXCEPT ![u] = "good"]
        /\ UNCHANGED <<pc, todo, found, artifacts, hstage, hunit, announced>>
    BY <1>7 DEF StoreArtifact, runVars, sharedVars, handlerVars
  <2>2. \A v \in Index : disk'[v] = disk[v] \/ disk'[v] = "good"
    BY <2>1 DEF TypeOK
  <2>3. /\ Counted \cup found \subseteq Index /\ hunit \in Index
        /\ \A a \in announced : \A i \in DOMAIN a.artifacts : a.artifacts[i] \in Index
    BY DEF TypeOK
  <2> QED
    BY <2>1, <2>2, <2>3
<1>8. ASSUME NEW u \in Index, Damage(u) PROVE ReadableInv'
  <2>1. /\ u \notin Counted \cup found /\ ~(hstage = "count" /\ hunit = u)
        /\ \A a \in announced : \A i \in DOMAIN a.artifacts : a.artifacts[i] # u
        /\ UNCHANGED <<pc, todo, found, artifacts, hstage, hunit, announced>>
    BY <1>8 DEF Damage, runVars, sharedVars, handlerVars
  <2>2. \A v \in Index \ {u} : disk'[v] = disk[v]
    BY <1>8 DEF Damage, TypeOK
  <2>3. /\ Counted \cup found \subseteq Index /\ hunit \in Index
        /\ \A a \in announced : \A i \in DOMAIN a.artifacts : a.artifacts[i] \in Index
    BY DEF TypeOK
  <2> QED
    BY <2>1, <2>2, <2>3
<1>9. CASE VerifyBatch
  BY <1>9 DEF VerifyBatch, runVars, sharedVars, poolVars
<1>10. CASE /\ UNCHANGED <<artifacts, found, todo, disk, announced>>
            /\ (hstage' = "count" => UNCHANGED <<hstage, hunit>>)
            /\ (pc' = "apply" => pc = "apply")
  BY <1>10
<1>11. CASE ListArtifacts
  BY <1>11 DEF ListArtifacts, sharedVars, handlerVars, poolVars
<1> QED
  BY <1>1, <1>2, <1>3, <1>4, <1>5, <1>6, <1>7, <1>8, <1>9, <1>10, <1>11
  DEF Next, RunGeneration, HandleBatch, Pool, vars, runVars, sharedVars, handlerVars, poolVars,
      ResumeDone, MeasureOutstanding, SkipCovered, IssueUnit, TopUpDone, Tick, SeeDone,
      DropBatch, ResolveEmpty, ResolveBatch, RejectBatch, CloseDone, ReportBatch

\* A dataset announced to the trainer lists only artifacts whose records can be
\* read back, although artifacts may be damaged at any time before the check.
THEOREM AnnouncedReadableHolds == Spec => []AnnouncedReadable
<1>1. Init => ReadableInv
  BY DEF Init, ReadableInv, AnnouncedReadable, Counted
<1>2. ReadableInv => AnnouncedReadable
  BY DEF ReadableInv
<1> QED
  BY <1>1, <1>2, ReadableInductive, TypeCorrect, PTL DEF Spec

-----------------------------------------------------------------------------
(* Layer 5: the total.  Sums is defined by recursion; that the function    *)
(* exists, and that a longer list keeps the sums of its prefixes, is shown *)
(* by looking at the least number at which it would fail.                  *)

\* A set of naturals that is not empty has a least member.
LEMMA LeastMember ==
    ASSUME NEW S \in SUBSET Nat, S # {}
    PROVE  \E m \in S : \A n \in S : m <= n
<1>. DEFINE Below == {0 .. n : n \in S}
<1>1. Below \subseteq FiniteSubsetsOf(Nat) /\ Below # {}
  <2>1. \A n \in S : 0 .. n \in SUBSET Nat /\ IsFiniteSet(0 .. n)
    BY FS_Interval
  <2>. QED BY <2>1 DEF FiniteSubsetsOf
<1>2. PICK B \in Below : \A C \in Below : ~(<<C, B>> \in StrictSubsetOrdering(Nat))
  <2>. HIDE DEF Below
  <2>. QED BY <1>1, FS_StrictSubsetOrderingWellFounded, WFMin
<1>3. PICK m \in S : B = 0 .. m
  OBVIOUS
<1>4. ASSUME NEW n \in S, n < m PROVE FALSE
  <2>1. 0 .. n \subseteq 0 .. m /\ 0 .. n # 0 .. m
    BY <1>4
  <2>2. <<0 .. n, B>> \in StrictSubsetOrdering(Nat)
    BY <1>3, <2>1 DEF StrictSubsetOrdering
  <2>. QED BY <1>2, <2>2
<1>. QED BY <1>4

\* The equation of the sums over the first k units of seq, for a function s.
SumsTo(s, seq, k) == [n \in 0 .. k |-> IF n = 0 THEN 0 ELSE s[n - 1] + Yield[seq[n]]]

\* The sums exist for every list of units, and Sums is them.
LEMMA SumsDef ==
  ASSUME NEW seq, Len(seq) \in Nat
  PROVE  Sums(seq) = SumsTo(Sums(seq), seq, Len(seq))
<1>1. ASSUME NEW k \in Nat PROVE \E s : s = SumsTo(s, seq, k)
  <2>. DEFINE Missing == {n \in Nat : ~\E s : s = SumsTo(s, seq, n)}
  <2>1. SUFFICES ASSUME Missing # {} PROVE FALSE
    OBVIOUS
  <2>2. PICK m \in Missing : \A n \in Missing : m <= n
    <3>1. Missing \in SUBSET Nat
      OBVIOUS
    <3>. HIDE DEF Missing
    <3>. QED BY <2>1, <3>1, LeastMember
  <2>3. m \in Nat /\ ~\E s : s = SumsTo(s, seq, m)
    BY <2>2
  <2>4. CASE m = 0
    <3>. DEFINE s == [n \in 0 .. 0 |-> 0]
    <3>1. s = SumsTo(s, seq, 0)
      BY DEF SumsTo
    <3>. QED BY <2>3, <2>4, <3>1
  <2>5. CASE m # 0
    <3>1. m - 1 \in Nat /\ ~(m <= m - 1)
      BY <2>3, <2>5
    <3>2. PICK s : s = SumsTo(s, seq, m - 1)
      <4>1. m - 1 \notin Missing
        <5>. HIDE DEF Missing
        <5>. QED BY <2>2, <3>1
      <4>. QED BY <3>1, <4>1
    <3>. DEFINE u == [n \in 0 .. m |-> IF n = m THEN s[m - 1] + Yield[seq[m]] ELSE s[n]]
    <3>3. \A n \in 0 .. m - 1 : s[n] = IF n = 0 THEN 0 ELSE s[n - 1] + Yield[seq[n]]
      BY <3>2 DEF SumsTo
    <3>4. \A n \in 0 .. m : u[n] = IF n = m THEN s[m - 1] + Yield[seq[m]] ELSE s[n]
      OBVIOUS
    <3>5. ASSUME NEW n \in 0 .. m
          PROVE  u[n] = IF n = 0 THEN 0 ELSE u[n - 1] + Yield[seq[n]]
      <4>1. CASE n = 0
        BY <2>3, <2>5, <3>1, <3>3, <3>4, <4>1
      <4>2. CASE n # 0
        <5>1. n - 1 \in 0 .. m - 1 /\ n - 1 \in 0 .. m /\ n - 1 # m
          BY <2>3, <4>2
        <5>2. u[n - 1] = s[n - 1]
          BY <3>4, <5>1
        <5>3. CASE n = m
          BY <3>4, <4>2, <5>2, <5>3
        <5>4. CASE n # m
          <6>1. n \in 0 .. m - 1
            BY <2>3, <5>4
          <6>. HIDE DEF u
          <6>. QED BY <3>3, <3>4, <4>2, <5>2, <5>4, <6>1
        <5>. QED BY <5>3, <5>4
      <4>. QED BY <4>1, <4>2
    <3>6. u = SumsTo(u, seq, m)
      BY <3>5 DEF SumsTo
    <3>. QED BY <2>3, <3>6
  <2>. QED BY <2>4, <2>5
<1>2. \E s : s = SumsTo(s, seq, Len(seq))
  BY <1>1
<1>3. Sums(seq) = CHOOSE s : s = SumsTo(s, seq, Len(seq))
  BY DEF Sums, SumsTo
<1>. QED BY <1>2, <1>3

\* The equation, point by point.
LEMMA SumsAt ==
  ASSUME NEW seq, Len(seq) \in Nat
  PROVE  /\ Sums(seq)[0] = 0
         /\ \A n \in 1 .. Len(seq) : Sums(seq)[n] = Sums(seq)[n - 1] + Yield[seq[n]]
<1>. DEFINE s == Sums(seq)
<1>1. s = SumsTo(s, seq, Len(seq))
  BY SumsDef
<1>. HIDE DEF s
<1>2. \A n \in 0 .. Len(seq) : s[n] = IF n = 0 THEN 0 ELSE s[n - 1] + Yield[seq[n]]
  BY <1>1 DEF SumsTo
<1>3. s[0] = 0 /\ \A n \in 1 .. Len(seq) : s[n] = s[n - 1] + Yield[seq[n]]
  BY <1>2
<1>. QED BY <1>3 DEF s

\* One more unit adds what it yields.
LEMMA SumAppend ==
  ASSUME NEW seq \in Seq(Index), NEW u \in Index
  PROVE  SumOf(Append(seq, u)) = SumOf(seq) + Yield[u]
<1>. DEFINE longer == Append(seq, u)
            s == Sums(seq)
            t == Sums(longer)
            Differ == {n \in 0 .. Len(seq) : t[n] # s[n]}
<1>1. /\ Len(seq) \in Nat /\ Len(longer) = Len(seq) + 1
      /\ longer[Len(seq) + 1] = u
      /\ \A n \in 1 .. Len(seq) : longer[n] = seq[n]
  OBVIOUS
<1>2. /\ s[0] = 0
      /\ \A n \in 1 .. Len(seq) : s[n] = s[n - 1] + Yield[seq[n]]
  BY <1>1, SumsAt
<1>3. /\ t[0] = 0
      /\ \A n \in 1 .. Len(seq) + 1 : t[n] = t[n - 1] + Yield[longer[n]]
  <2>1. Len(longer) \in Nat
    BY <1>1
  <2>. HIDE DEF longer
  <2>. QED BY <1>1, <2>1, SumsAt
<1>4. SumOf(seq) = s[Len(seq)] /\ SumOf(longer) = t[Len(seq) + 1]
  BY <1>1 DEF SumOf
<1>. HIDE DEF longer, s, t
<1>5. Differ = {}
  <2>1. SUFFICES ASSUME Differ # {} PROVE FALSE
    OBVIOUS
  <2>2. PICK m \in Differ : \A n \in Differ : m <= n
    <3>1. Differ \in SUBSET Nat
      BY <1>1
    <3>. HIDE DEF Differ
    <3>. QED BY <2>1, <3>1, LeastMember
  <2>3. m \in 0 .. Len(seq) /\ t[m] # s[m]
    OBVIOUS
  <2>4. m # 0
    BY <1>2, <1>3, <2>3
  <2>5. m - 1 \in 0 .. Len(seq) /\ ~(m <= m - 1)
    BY <1>1, <2>3, <2>4
  <2>6. t[m - 1] = s[m - 1]
    BY <2>2, <2>5
  <2>7. m \in 1 .. Len(seq) /\ m \in 1 .. Len(seq) + 1
    BY <1>1, <2>3, <2>4
  <2>8. t[m] = t[m - 1] + Yield[seq[m]]
    BY <1>1, <1>3, <2>7
  <2>. QED BY <1>2, <2>3, <2>6, <2>7, <2>8
<1>6. t[Len(seq)] = s[Len(seq)]
  BY <1>1, <1>5
<1>7. t[Len(seq) + 1] = t[(Len(seq) + 1) - 1] + Yield[u] /\ (Len(seq) + 1) - 1 = Len(seq)
  BY <1>1, <1>3
<1>. QED BY <1>4, <1>6, <1>7 DEF longer

\* No artifacts, no positions.
LEMMA SumEmpty == SumOf(<<>>) = 0
<1>1. Len(<<>>) = 0
  OBVIOUS
<1>. QED BY <1>1, SumsAt DEF SumOf

\* Both goroutines add a unit's positions in the lock section that lists its artifact,
\* and only there.
LEMMA PositionsStep == ASSUME TypeOK, PositionsExact, [Next]_vars PROVE PositionsExact'
<1>. USE DEF runVars, sharedVars, handlerVars, poolVars
<1>1. ASSUME UNCHANGED <<artifacts, positions, announced>> PROVE PositionsExact'
  BY <1>1 DEF PositionsExact
<1>2. ASSUME NEW u \in Index, artifacts' = Append(artifacts, u), positions' = positions + Yield[u],
             UNCHANGED announced
      PROVE  PositionsExact'
  <2>1. artifacts \in Seq(Index)
    BY DEF TypeOK
  <2>2. SumOf(artifacts') = SumOf(artifacts) + Yield[u]
    BY <1>2, <2>1, SumAppend
  <2>. QED BY <1>2, <2>2 DEF PositionsExact
<1>3. CASE Start \/ Crash \/ IssueFails
  <2>1. artifacts' = <<>> /\ positions' = 0 /\ announced' = announced
    BY <1>3 DEF Start, Crash, IssueFails, Exit, FreshMemory
  <2>. QED BY <2>1, SumEmpty DEF PositionsExact
<1>4. CASE Announce \/ AnnounceFails
  <2>1. artifacts' = <<>> /\ positions' = 0 /\ announced' \subseteq announced \cup {Dataset}
    BY <1>4 DEF Announce, AnnounceFails, Exit, FreshMemory
  <2>2. Dataset.positions = SumOf(Dataset.artifacts)
    BY DEF PositionsExact, Dataset
  <2>. QED BY <2>1, <2>2, SumEmpty DEF PositionsExact
<1>5. ASSUME NEW u \in Index, ApplyResult(u) PROVE PositionsExact'
  BY <1>1, <1>2, <1>5 DEF ApplyResult
<1>6. CASE CountBatch
  <2>1. hunit \in Index
    BY DEF TypeOK
  <2>. QED BY <1>2, <1>6, <2>1 DEF CountBatch
<1>. QED
  BY <1>1, <1>3, <1>4, <1>5, <1>6
  DEF Next, RunGeneration, HandleBatch, Pool, vars, ListArtifacts, ScanArtifact, ScanDone,
      ResumeDone, MeasureOutstanding, SkipCovered, IssueUnit, TopUpDone, Tick, SeeDone,
      DropBatch, ResolveEmpty, ResolveBatch, VerifyBatch, RejectBatch, CloseDone,
      StoreArtifact, ReportBatch, Damage

\* The total compared with the target and the one announced are the positions in exactly
\* the artifacts listed, whichever of resume and the handler counted each of them.
THEOREM PositionsExactHolds == Spec => []PositionsExact
<1>1. Init => PositionsExact
  BY SumEmpty DEF Init, PositionsExact
<1>. QED BY <1>1, PositionsStep, TypeCorrect, PTL DEF Spec

-----------------------------------------------------------------------------
(* The pipeline.                                                           *)

PlayInv == PlayTypeOK /\ starts \in Nat /\ WorkerInv /\ NoWorkLost

\* What a coordinator step other than a publish leaves alone.
LEMMA QuietFrame ==
    ASSUME QuietStep, starts \in Nat
    PROVE  work' = work /\ stored' = stored /\ starts' \in Nat
  BY DEF QuietStep, QuietRun, Start, Crash, HandleBatch, ListArtifacts, ScanArtifact, ScanDone,
         ApplyResult, ResumeDone, MeasureOutstanding, SkipCovered, TopUpDone, Tick, SeeDone,
         Announce, AnnounceFails, Damage, DropBatch, ResolveEmpty, ResolveBatch, VerifyBatch,
         RejectBatch, CountBatch, CloseDone, poolVars

\* Init establishes the invariant: nothing is published and nobody works.
LEMMA PlayInit == ASSUME SystemInit PROVE PlayInv
  <1>1. <<0, 0>> \in Messages BY ConstantsOK DEF ConstantsOK, Messages, Index
  <1>2. starts = 0 /\ work = {} BY DEF SystemInit, Init
  <1>3. PlayTypeOK BY <1>1 DEF SystemInit, PlayTypeOK
  <1>4. WorkerInv BY DEF SystemInit, WorkerInv
  <1> QED BY <1>2, <1>3, <1>4 DEF PlayInv, NoWorkLost

\* A publish only adds to work and to the stream.
LEMMA PublishKeeps ==
    ASSUME PlayInv, PublishUnit \/ PublishFails
    PROVE  PlayInv'
  <1>1. /\ starts' = starts /\ stored' = stored /\ reported' = reported
        /\ wstage' = wstage /\ wmsg' = wmsg /\ wfaults' = wfaults /\ held' = held
        /\ nextIndex \in Index
    BY DEF PublishUnit, PublishFails, IssueUnit, IssueFails, poolVars
  <1>2. \/ work' = work /\ stream' = stream
        \/ work' = work \cup {nextIndex} /\ stream' = stream \cup {<<nextIndex, starts>>}
    <2>1. CASE PublishUnit BY <2>1 DEF PublishUnit, IssueUnit, Retained
    <2>2. CASE PublishFails
      BY <2>2, work' = work \/ work' = work \cup {nextIndex}
         DEF PublishFails, IssueFails, Retained
    <2> QED BY <2>1, <2>2
  <1>3. <<nextIndex, starts>> \in Messages /\ UnitOf(<<nextIndex, starts>>) = nextIndex
    BY <1>1 DEF PlayInv, Messages, UnitOf
  <1>4. PlayTypeOK' /\ starts' \in Nat
    BY <1>1, <1>2, <1>3 DEF PlayInv, PlayTypeOK
  <1>5. WorkerInv'
    BY <1>1, <1>2, <1>3 DEF PlayInv, WorkerInv, UnitOf
  <1>6. NoWorkLost'
    BY <1>1, <1>2, <1>3 DEF PlayInv, NoWorkLost, UnitOf
  <1> QED BY <1>4, <1>5, <1>6 DEF PlayInv

\* Deliveries and expiries change neither what is retained nor what is done.
LEMMA StreamKeeps ==
    ASSUME PlayInv, NEW m \in stream,
           AckWaitExpires(m) \/ \E w \in Workers : TakeUnit(w, m)
    PROVE  PlayInv'
  <1>1. work' = work /\ starts' = starts /\ stored' = stored /\ stream' = stream
        /\ reported' = reported
    BY DEF AckWaitExpires, TakeUnit, ownVars, poolVars
  <1>2. CASE AckWaitExpires(m)
    BY <1>1, <1>2 DEF PlayInv, PlayTypeOK, WorkerInv, NoWorkLost, UnitOf, AckWaitExpires
  <1>3. CASE \E w \in Workers : TakeUnit(w, m)
    <2> PICK w \in Workers : TakeUnit(w, m) BY <1>3
    <2>1. /\ held' = held \cup {m} /\ wfaults' = wfaults
          /\ wstage' = [wstage EXCEPT ![w] = "playing"] /\ wmsg' = [wmsg EXCEPT ![w] = m]
      BY DEF TakeUnit
    <2>2. PlayTypeOK' BY <1>1, <2>1 DEF PlayInv, PlayTypeOK
    <2>3. WorkerInv' BY <1>1, <2>1 DEF PlayInv, PlayTypeOK, WorkerInv, UnitOf
    <2> QED BY <1>1, <2>2, <2>3 DEF PlayInv, NoWorkLost, UnitOf
  <1> QED BY <1>2, <1>3

\* Each step of a worker's handle, its failure and its death.
LEMMA WorkerKeeps ==
    ASSUME PlayInv, NEW w \in Workers, Handle(w) \/ NakUnit(w) \/ WorkerDies(w)
    PROVE  PlayInv'
  <1>0. work' = work /\ starts' = starts
    BY DEF Handle, PlayDone, StoreBatch, AnnounceBatch, AckUnit, NakUnit, WorkerDies, ownVars
  <1>u. wmsg[w] \in Messages /\ UnitOf(wmsg[w]) \in Index
    BY DEF PlayInv, PlayTypeOK, Messages, UnitOf
  <1>1. CASE PlayDone(w)
    <2>1. PlayTypeOK' BY <1>1 DEF PlayInv, PlayTypeOK, PlayDone
    <2>2. stream' = stream /\ wmsg' = wmsg /\ stored' = stored /\ reported' = reported
      BY <1>1 DEF PlayDone, poolVars
    <2>3. Yield[UnitOf(wmsg[w])] \in Nat BY <1>u, ConstantsOK DEF ConstantsOK
    <2>4. WorkerInv'
      BY <1>0, <1>1, <2>2, <2>3 DEF PlayInv, PlayTypeOK, WorkerInv, PlayDone, UnitOf
    <2> QED BY <1>0, <2>1, <2>2, <2>4 DEF PlayInv, NoWorkLost, UnitOf
  <1>2. CASE StoreBatch(w)
    <2>1. PlayTypeOK' BY <1>2 DEF PlayInv, PlayTypeOK, StoreBatch
    <2>2. stream' = stream /\ wmsg' = wmsg /\ stored' = stored \cup {UnitOf(wmsg[w])}
          /\ reported' = reported /\ wstage' = [wstage EXCEPT ![w] = "announcing"]
      BY <1>2 DEF StoreBatch
    <2>3. WorkerInv' BY <1>0, <1>2, <2>2 DEF PlayInv, PlayTypeOK, WorkerInv, StoreBatch, UnitOf
    <2> QED BY <1>0, <2>1, <2>2, <2>3 DEF PlayInv, NoWorkLost, UnitOf
  <1>3. CASE AnnounceBatch(w)
    <2>1. PlayTypeOK' BY <1>3, <1>u DEF PlayInv, PlayTypeOK, AnnounceBatch, Report
    <2>2. stream' = stream /\ wmsg' = wmsg /\ stored' = stored
          /\ reported' = reported \cup {UnitOf(wmsg[w])}
          /\ wstage' = [wstage EXCEPT ![w] = "acking"]
      BY <1>3 DEF AnnounceBatch, Report
    <2>3. WorkerInv'
      BY <1>0, <1>3, <2>2 DEF PlayInv, PlayTypeOK, WorkerInv, AnnounceBatch, UnitOf
    <2> QED BY <1>0, <2>1, <2>2, <2>3 DEF PlayInv, NoWorkLost, UnitOf
  <1>4. CASE AckUnit(w)
    <2>1. /\ wmsg' = wmsg /\ stored' = stored /\ reported' = reported
          /\ wstage' = [wstage EXCEPT ![w] = "idle"]
          /\ stream' = stream \/ stream' = stream \ {wmsg[w]}
      BY <1>4 DEF AckUnit, poolVars
    <2>2. PlayTypeOK' BY <1>4 DEF PlayInv, PlayTypeOK, AckUnit
    <2>3. WorkerInv' BY <1>0, <2>1 DEF PlayInv, PlayTypeOK, WorkerInv, UnitOf
    <2>4. UnitOf(wmsg[w]) \in reported BY <1>4 DEF PlayInv, WorkerInv, AckUnit
    <2>5. NoWorkLost' BY <1>0, <2>1, <2>4 DEF PlayInv, NoWorkLost, UnitOf
    <2> QED BY <1>0, <2>2, <2>3, <2>5 DEF PlayInv
  <1>5. CASE NakUnit(w)
    <2>1. PlayTypeOK' BY <1>5, <1>u DEF PlayInv, PlayTypeOK, NakUnit, Report
    <2>2. /\ stream' = stream /\ wmsg' = wmsg /\ stored' = stored
          /\ wstage' = [wstage EXCEPT ![w] = "idle"]
          /\ reported \subseteq reported'
      BY <1>5 DEF NakUnit, Report
    <2>3. WorkerInv' BY <1>0, <2>2 DEF PlayInv, PlayTypeOK, WorkerInv, UnitOf
    <2> QED BY <1>0, <2>1, <2>2, <2>3 DEF PlayInv, NoWorkLost, UnitOf
  <1>6. CASE WorkerDies(w)
    <2>1. PlayTypeOK' BY <1>6 DEF PlayInv, PlayTypeOK, WorkerDies
    <2>2. /\ stream' = stream /\ wmsg' = wmsg /\ stored' = stored /\ reported' = reported
          /\ wstage' = [wstage EXCEPT ![w] = "idle"]
      BY <1>6 DEF WorkerDies, poolVars
    <2>3. WorkerInv' BY <1>0, <2>2 DEF PlayInv, PlayTypeOK, WorkerInv, UnitOf
    <2> QED BY <1>0, <2>1, <2>2, <2>3 DEF PlayInv, NoWorkLost, UnitOf
  <1> QED BY <1>1, <1>2, <1>3, <1>4, <1>5, <1>6 DEF Handle

\* Every step of the pipeline keeps the invariant.
LEMMA PlayStep == ASSUME PlayInv, [SystemNext]_systemVars PROVE PlayInv'
  <1>1. CASE Quiet
    <2>1. work' = work /\ stored' = stored /\ starts' \in Nat
      BY <1>1, QuietFrame DEF Quiet, PlayInv
    <2>2. UNCHANGED playVars BY <1>1 DEF Quiet
    <2> QED BY <2>1, <2>2 DEF playVars, PlayInv, PlayTypeOK, WorkerInv, NoWorkLost, UnitOf
  <1>2. CASE PublishUnit \/ PublishFails BY <1>2, PublishKeeps
  <1>3. CASE \E m \in stream : AckWaitExpires(m) \/ \E w \in Workers : TakeUnit(w, m)
    BY <1>3, StreamKeeps
  <1>4. CASE \E w \in Workers : Handle(w) \/ NakUnit(w) \/ WorkerDies(w)
    BY <1>4, WorkerKeeps
  <1>5. CASE UNCHANGED systemVars
    BY <1>5 DEF systemVars, vars, playVars, poolVars, PlayInv, PlayTypeOK, WorkerInv,
                NoWorkLost, UnitOf
  <1> QED BY <1>1, <1>2, <1>3, <1>4, <1>5 DEF SystemNext

\* The strengthening holds of every behaviour of the pipeline.
LEMMA PlayHolds == SystemSpec => []PlayInv
  BY PlayInit, PlayStep, PTL DEF SystemSpec

\* The pipeline never loses a unit: until its batch has been accepted by the
\* bus, a message for it is still in the work stream.
THEOREM NoWorkLostHolds == SystemSpec => []NoWorkLost
  <1>1. PlayInv => NoWorkLost BY DEF PlayInv
  <1> QED BY PlayHolds, <1>1, PTL

\* A step of a worker is a step of the pool Coordinator assumes, or invisible.
LEMMA WorkerStepMaps ==
    ASSUME PlayInv, NEW w \in Workers, Handle(w) \/ NakUnit(w) \/ WorkerDies(w)
    PROVE  [Next]_vars
  <1>u. UnitOf(wmsg[w]) \in Index BY DEF PlayInv, PlayTypeOK, Messages, UnitOf
  <1>p. wstage[w] # "idle" => UnitOf(wmsg[w]) \in work BY DEF PlayInv, WorkerInv
  <1>1. CASE PlayDone(w) \/ AckUnit(w) \/ WorkerDies(w)
    BY <1>1 DEF PlayDone, AckUnit, WorkerDies, ownVars, poolVars, vars
  <1>2. CASE StoreBatch(w)
    <2>1. wstage[w] = "storing" /\ Yield[UnitOf(wmsg[w])] > 0
      BY <1>2 DEF StoreBatch, PlayInv, WorkerInv
    <2>2. StoreArtifact(UnitOf(wmsg[w]))
      BY <1>2, <1>p, <2>1 DEF StoreBatch, StoreArtifact, ownVars
    <2> QED BY <2>2, <1>u DEF Next, Pool
  <1>3. CASE AnnounceBatch(w)
    <2>1. Yield[UnitOf(wmsg[w])] = 0 \/ UnitOf(wmsg[w]) \in stored
      BY <1>3 DEF AnnounceBatch, PlayInv, WorkerInv
    <2>2. ReportBatch(UnitOf(wmsg[w]))
      BY <1>3, <1>p, <2>1 DEF AnnounceBatch, Report, ReportBatch, ownVars
    <2> QED BY <2>2, <1>u DEF Next, Pool
  <1>4. CASE NakUnit(w)
    <2>1. CASE UNCHANGED <<inbox, reported>>
      BY <1>4, <2>1 DEF NakUnit, ownVars, poolVars, vars
    <2>2. CASE wstage[w] = "announcing" /\ Report(UnitOf(wmsg[w]))
      <3>1. Yield[UnitOf(wmsg[w])] = 0 \/ UnitOf(wmsg[w]) \in stored
        BY <2>2 DEF PlayInv, WorkerInv
      <3>2. ReportBatch(UnitOf(wmsg[w]))
        BY <1>4, <2>2, <1>p, <3>1 DEF NakUnit, Report, ReportBatch, ownVars
      <3> QED BY <3>2, <1>u DEF Next, Pool
    <2> QED BY <1>4, <2>1, <2>2 DEF NakUnit
  <1> QED BY <1>1, <1>2, <1>3, <1>4 DEF Handle

\* Every step of the pipeline is a step of Coordinator or stutters.
LEMMA StepMaps == ASSUME PlayInv, [SystemNext]_systemVars PROVE [Next]_vars
  <1>1. CASE Quiet BY <1>1 DEF Quiet, QuietStep, QuietRun, Next, RunGeneration, Pool
  <1>2. CASE PublishUnit \/ PublishFails
    BY <1>2 DEF PublishUnit, PublishFails, Next, RunGeneration
  <1>3. CASE \E m \in stream : AckWaitExpires(m) \/ \E w \in Workers : TakeUnit(w, m)
    BY <1>3 DEF AckWaitExpires, TakeUnit, ownVars, vars
  <1>4. CASE \E w \in Workers : Handle(w) \/ NakUnit(w) \/ WorkerDies(w)
    BY <1>4, WorkerStepMaps
  <1>5. CASE UNCHANGED systemVars BY <1>5 DEF systemVars
  <1> QED BY <1>1, <1>2, <1>3, <1>4, <1>5 DEF SystemNext

\* The work stream and any number of workers are a pool as Coordinator assumes
\* it, so everything proved of Coordinator holds of the pipeline.
THEOREM PipelineImplementsCoordinator == SystemSpec => ImplementsCoordinator
  <1>1. SystemInit => Init BY DEF SystemInit
  <1> QED BY PlayHolds, StepMaps, <1>1, PTL DEF SystemSpec, ImplementsCoordinator, Spec

\* What the pipeline announces is enough, readable and of the stated size, whatever its
\* workers do.
THEOREM PipelineAnnouncements ==
  SystemSpec => [](AnnouncedEnough /\ AnnouncedReadable /\ PositionsExact)
  BY PipelineImplementsCoordinator, AnnouncedEnoughHolds, AnnouncedReadableHolds,
     PositionsExactHolds, PTL DEF ImplementsCoordinator
=============================================================================
