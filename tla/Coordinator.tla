---------------------------- MODULE Coordinator ----------------------------
(***************************************************************************)
(* The self-play coordinator (internal/coordinator/coordinator.go): one    *)
(* process that issues the work units of a generation, counts the batches  *)
(* workers report, and announces the dataset once it holds enough          *)
(* positions.                                                              *)
(*                                                                         *)
(* Two goroutines share the state under one mutex: RunGeneration (the      *)
(* variable pc) and the handler of the nova.games.produced subscription    *)
(* (hstage, hunit).  A lock section is one action, and so is each call to  *)
(* the store or the bus made outside the lock.  The process may stop at    *)
(* any point and is restarted by the cluster with empty memory.            *)
(*                                                                         *)
(* Everything outside the process is the weakest thing the coordinator     *)
(* may rely on: published units are played by a pool that stores an        *)
(* artifact, reports it, and may do both again; a report stays in inbox    *)
(* until its acknowledgement arrives.  SelfPlay.tla puts the queue and the *)
(* workers there and is shown to implement this specification.             *)
(***************************************************************************)
EXTENDS Integers, Sequences, FiniteSets

CONSTANTS
    MaxIndex,       \* bound: unit indices considered are 0 .. MaxIndex
    Yield,          \* positions the games of each unit produce, a function of the unit alone
    Target,         \* cfg.PositionsPerGeneration
    UnitsInFlight,  \* cfg.UnitsInFlight
    Old,            \* units of an earlier generation whose batches may still arrive
    MaxStarts,      \* bound: times the process is started
    MaxFaults       \* bound: artifacts damaged on disk plus failed reads of the store

Index == 0 .. MaxIndex

ASSUME ConstantsOK ==
    /\ MaxIndex \in Nat
    /\ Yield \in [Index -> Nat]
    /\ Target \in Nat \ {0}
    /\ UnitsInFlight \in Nat \ {0}
    /\ Old \cap Index = {}
    /\ MaxStarts \in Nat
    /\ MaxFaults \in Nat

VARIABLES
    (* RunGeneration *)
    pc,         \* where it is
    todo,       \* files resume has yet to scan, then results it has yet to apply
    found,      \* results of the scan: units whose file has sound framing
    toIssue,    \* units the current topUp still has to publish
    nextIndex, issued, covered,
    (* shared under the mutex *)
    resolved, artifacts, positions, done,
    (* the batch handler *)
    hstage, hunit,
    (* the artifact store, the bus and the pool of workers *)
    disk, stored, work, inbox, announced,
    (* bounds *)
    starts, faults

runVars     == <<pc, todo, found, toIssue, nextIndex, issued, covered>>
sharedVars  == <<resolved, artifacts, positions, done>>
handlerVars == <<hstage, hunit>>
poolVars    == <<disk, stored, inbox>>
vars == <<runVars, sharedVars, handlerVars, poolVars, work, announced, starts, faults>>

-----------------------------------------------------------------------------
(* An artifact file: missing; intact; with whole records that fail the     *)
(* checksum; or too damaged for its framing to be read.                    *)
FileState == {"absent", "good", "flipped", "truncated"}

\* countPositions looks at the framing only, store.Verify at size and checksum.
FramingOK(u) == disk[u] \in {"good", "flipped"}
\* Mutant: the file only has to exist.
VerifyExists(u) == disk[u] # "absent"
VerifyOK(u)  == disk[u] = "good"

Counted == {artifacts[i] : i \in DOMAIN artifacts}

\* Units this process considers its own: found on disk, or published by topUp.
IssuedUnits == covered \cup {i \in Index : i < nextIndex}

Outstanding == issued - Cardinality(resolved)

Running == pc # "down"
-----------------------------------------------------------------------------
Init ==
    /\ pc = "down" /\ todo = {} /\ found = {} /\ toIssue = 0
    /\ nextIndex = 0 /\ issued = 0 /\ covered = {}
    /\ resolved = {} /\ artifacts = <<>> /\ positions = 0 /\ done = "open"
    /\ hstage = "idle" /\ hunit = 0
    /\ disk = [u \in Index |-> "absent"]
    /\ stored = {} /\ work = {} /\ inbox = Old /\ announced = {}
    /\ starts = 0 /\ faults = 0

(***************************************************************************)
(* The process.                                                            *)
(***************************************************************************)
\* New: everything a coordinator remembers, as the constructor makes it.
FreshMemory ==
    /\ todo' = {} /\ found' = {} /\ toIssue' = 0
    /\ nextIndex' = 0 /\ issued' = 0 /\ covered' = {}
    /\ resolved' = {} /\ artifacts' = <<>> /\ positions' = 0 /\ done' = "open"
    /\ hstage' = "idle" /\ hunit' = 0

\* The process ends: killed, failed, or finished.  Its memory is gone.
Exit == pc' = "down" /\ FreshMemory

\* RunGeneration subscribes before anything else, so batches flow from here on.
Start ==
    /\ pc = "down" /\ starts < MaxStarts
    /\ pc' = "list"
    /\ starts' = starts + 1
    /\ FreshMemory
    /\ UNCHANGED <<poolVars, work, announced, faults>>

\* Killed, or returning an error other than a failed publish.  MaxStarts
\* bounds the restarts, so the last process runs to the end.
Crash ==
    /\ Running /\ starts < MaxStarts
    /\ Exit
    /\ UNCHANGED <<poolVars, work, announced, starts, faults>>

(***************************************************************************)
(* resume: list the generation's directory, check every file's framing     *)
(* concurrently, then count the sound ones in listing order.               *)
(***************************************************************************)
ListArtifacts ==
    /\ pc = "list"
    /\ todo' = {u \in Index : disk[u] # "absent"}
    /\ pc' = "scan"
    /\ UNCHANGED <<found, toIssue, nextIndex, issued, covered, sharedVars, handlerVars,
                   poolVars, work, announced, starts, faults>>

ScanArtifact(u) ==
    /\ pc = "scan" /\ u \in todo
    /\ todo' = todo \ {u}
    /\ found' = IF FramingOK(u) THEN found \cup {u} ELSE found
    /\ UNCHANGED <<pc, toIssue, nextIndex, issued, covered, sharedVars, handlerVars,
                   poolVars, work, announced, starts, faults>>

ScanDone ==
    /\ pc = "scan" /\ todo = {}
    /\ pc' = "apply" /\ todo' = found
    /\ UNCHANGED <<found, toIssue, nextIndex, issued, covered, sharedVars, handlerVars,
                   poolVars, work, announced, starts, faults>>

\* Mutant: does not look at resolved.
ApplyUnchecked(u) ==
    /\ pc = "apply" /\ u \in todo /\ \A v \in todo : u <= v
    /\ todo' = todo \ {u}
    /\ resolved' = resolved \cup {u} /\ covered' = covered \cup {u}
    /\ artifacts' = Append(artifacts, u)
    /\ positions' = positions + Yield[u] /\ issued' = issued + 1
    /\ UNCHANGED <<pc, found, toIssue, nextIndex, done, handlerVars,
                   poolVars, work, announced, starts, faults>>

\* Mutant: issued is incremented for a unit the handler resolved, too.
ApplyIssuesAlways(u) ==
    /\ pc = "apply" /\ u \in todo /\ \A v \in todo : u <= v
    /\ todo' = todo \ {u} /\ issued' = issued + 1
    /\ IF u \in resolved
       THEN UNCHANGED <<resolved, covered, artifacts, positions>>
       ELSE /\ resolved' = resolved \cup {u} /\ covered' = covered \cup {u}
            /\ artifacts' = Append(artifacts, u) /\ positions' = positions + Yield[u]
    /\ UNCHANGED <<pc, found, toIssue, nextIndex, done, handlerVars,
                   poolVars, work, announced, starts, faults>>

\* Mutant: the positions are added for such a unit, too.
ApplyAddsAlways(u) ==
    /\ pc = "apply" /\ u \in todo /\ \A v \in todo : u <= v
    /\ todo' = todo \ {u} /\ positions' = positions + Yield[u]
    /\ IF u \in resolved
       THEN UNCHANGED <<resolved, covered, artifacts, issued>>
       ELSE /\ resolved' = resolved \cup {u} /\ covered' = covered \cup {u}
            /\ artifacts' = Append(artifacts, u) /\ issued' = issued + 1
    /\ UNCHANGED <<pc, found, toIssue, nextIndex, done, handlerVars,
                   poolVars, work, announced, starts, faults>>

\* One lock section per result.  A unit the handler resolved meanwhile is
\* left entirely alone: neither counted, nor covered.
ApplyResult(u) ==
    /\ pc = "apply" /\ u \in todo /\ \A v \in todo : u <= v
    /\ todo' = todo \ {u}
    /\ IF u \in resolved
       THEN UNCHANGED <<resolved, covered, artifacts, positions, issued>>
       ELSE /\ resolved' = resolved \cup {u}
            /\ covered' = covered \cup {u}
            /\ artifacts' = Append(artifacts, u)
            /\ positions' = positions + Yield[u]
            /\ issued' = issued + 1
    /\ UNCHANGED <<pc, found, toIssue, nextIndex, done, handlerVars,
                   poolVars, work, announced, starts, faults>>

\* alreadyReached: announce at once, or fill the queue.
ResumeDone ==
    /\ pc = "apply" /\ todo = {}
    /\ pc' = IF positions >= Target THEN "announce" ELSE "measure"
    /\ UNCHANGED <<todo, found, toIssue, nextIndex, issued, covered, sharedVars, handlerVars,
                   poolVars, work, announced, starts, faults>>

(***************************************************************************)
(* topUp: measure what is outstanding once, then publish that many units.  *)
(***************************************************************************)
MeasureOutstanding ==
    /\ pc = "measure"
    /\ toIssue' = UnitsInFlight - Outstanding
    /\ pc' = "issue"
    /\ UNCHANGED <<todo, found, nextIndex, issued, covered, sharedVars, handlerVars,
                   poolVars, work, announced, starts, faults>>

SkipCovered ==
    /\ pc = "issue" /\ toIssue > 0 /\ nextIndex \in covered
    /\ nextIndex' = nextIndex + 1
    /\ UNCHANGED <<pc, todo, found, toIssue, issued, covered, sharedVars, handlerVars,
                   poolVars, work, announced, starts, faults>>

\* Only RunGeneration touches nextIndex and issued, so the publish and the
\* two lock sections around it are one step to everybody else.
IssueUnit ==
    /\ pc = "issue" /\ toIssue > 0 /\ nextIndex \in Index \ covered
    /\ work' = work \cup {nextIndex}
    /\ nextIndex' = nextIndex + 1
    /\ issued' = issued + 1
    /\ toIssue' = toIssue - 1
    /\ UNCHANGED <<pc, todo, found, covered, sharedVars, handlerVars,
                   poolVars, announced, starts, faults>>

\* The error ends RunGeneration and with it the process.  The broker may
\* have stored the unit all the same when it is only the reply that is lost.
IssueFails ==
    /\ pc = "issue" /\ toIssue > 0 /\ nextIndex \in Index \ covered
    /\ starts < MaxStarts
    /\ work' \in {work, work \cup {nextIndex}}
    /\ Exit
    /\ UNCHANGED <<poolVars, announced, starts, faults>>

\* Bound: the model's indices end at MaxIndex, the program's do not.
TopUpDone ==
    /\ pc = "issue" /\ (toIssue <= 0 \/ nextIndex > MaxIndex)
    /\ pc' = "wait" /\ toIssue' = 0
    /\ UNCHANGED <<todo, found, nextIndex, issued, covered, sharedVars, handlerVars,
                   poolVars, work, announced, starts, faults>>

(***************************************************************************)
(* The main loop, and the announcement.                                    *)
(***************************************************************************)
Tick ==
    /\ pc = "wait"
    /\ pc' = "measure"
    /\ UNCHANGED <<todo, found, toIssue, nextIndex, issued, covered, sharedVars, handlerVars,
                   poolVars, work, announced, starts, faults>>

SeeDone ==
    /\ pc = "wait" /\ done = "closed"
    /\ pc' = "announce"
    /\ UNCHANGED <<todo, found, toIssue, nextIndex, issued, covered, sharedVars, handlerVars,
                   poolVars, work, announced, starts, faults>>

Dataset == [artifacts |-> artifacts, positions |-> positions]

\* The snapshot is taken under the lock and published after it; a batch
\* counted in between is not in it, as if it had been counted afterwards.
Announce ==
    /\ pc = "announce"
    /\ announced' = announced \cup {Dataset}
    /\ Exit
    /\ UNCHANGED <<poolVars, work, starts, faults>>

AnnounceFails ==
    /\ pc = "announce" /\ starts < MaxStarts
    /\ announced' \in {announced, announced \cup {Dataset}}
    /\ Exit
    /\ UNCHANGED <<poolVars, work, starts, faults>>

RunGeneration ==
    \/ ListArtifacts \/ (\E u \in Index : ScanArtifact(u)) \/ ScanDone
    \/ (\E u \in Index : ApplyResult(u)) \/ ResumeDone
    \/ MeasureOutstanding \/ SkipCovered \/ IssueUnit \/ IssueFails \/ TopUpDone
    \/ Tick \/ SeeDone \/ Announce \/ AnnounceFails

(***************************************************************************)
(* handleBatch.  Every path returns nil, so every path acknowledges; the   *)
(* acknowledgement itself may be lost and the batch delivered again.       *)
(***************************************************************************)
Ack(u) == inbox' \in {inbox \ {u}, inbox}

Delivered(u) == Running /\ hstage = "idle" /\ u \in inbox

\* A straggler of another generation, or a unit already resolved.
DropBatch(u) ==
    /\ Delivered(u) /\ u \in Old \cup resolved
    /\ Ack(u)
    /\ UNCHANGED <<runVars, sharedVars, handlerVars, disk, stored, work, announced, starts, faults>>

\* No positions: the unit is finished and there is nothing to count.
ResolveEmpty(u) ==
    /\ Delivered(u) /\ u \in Index \ resolved /\ Yield[u] = 0
    /\ resolved' = resolved \cup {u}
    /\ Ack(u)
    /\ UNCHANGED <<runVars, artifacts, positions, done, handlerVars,
                   disk, stored, work, announced, starts, faults>>

\* Marked before it is validated, and the lock released.
ResolveBatch(u) ==
    /\ Delivered(u) /\ u \in Index \ resolved /\ Yield[u] > 0
    /\ resolved' = resolved \cup {u}
    /\ hstage' = "verify" /\ hunit' = u
    /\ UNCHANGED <<runVars, artifacts, positions, done,
                   poolVars, work, announced, starts, faults>>

VerifyBatch ==
    /\ hstage = "verify" /\ VerifyOK(hunit)
    /\ hstage' = "count"
    /\ UNCHANGED <<runVars, sharedVars, hunit, poolVars, work, announced, starts, faults>>

\* A damaged artifact, or a store that could not be read: both are rejected
\* and acknowledged, and the unit stays resolved.
RejectBatch ==
    /\ hstage = "verify"
    /\ \/ ~VerifyOK(hunit) /\ faults' = faults
       \/ VerifyOK(hunit) /\ faults < MaxFaults /\ faults' = faults + 1
    /\ hstage' = "idle" /\ hunit' = 0
    /\ Ack(hunit)
    /\ UNCHANGED <<runVars, sharedVars, disk, stored, work, announced, starts>>

\* Mutant: done is closed one position short.
CountBatchShort ==
    /\ hstage = "count"
    /\ artifacts' = Append(artifacts, hunit)
    /\ positions' = positions + Yield[hunit]
    /\ IF positions' + 1 >= Target
       THEN hstage' = "close" /\ UNCHANGED <<hunit, inbox>>
       ELSE hstage' = "idle" /\ hunit' = 0 /\ Ack(hunit)
    /\ UNCHANGED <<runVars, resolved, done, disk, stored, work, announced, starts, faults>>

\* reached is computed inside the lock that adds the positions.
CountBatch ==
    /\ hstage = "count"
    /\ artifacts' = Append(artifacts, hunit)
    /\ positions' = positions + Yield[hunit]
    /\ IF positions' >= Target
       THEN hstage' = "close" /\ UNCHANGED <<hunit, inbox>>
       ELSE hstage' = "idle" /\ hunit' = 0 /\ Ack(hunit)
    /\ UNCHANGED <<runVars, resolved, done, disk, stored, work, announced, starts, faults>>

CloseDone ==
    /\ hstage = "close"
    /\ done' = "closed"
    /\ hstage' = "idle" /\ hunit' = 0
    /\ Ack(hunit)
    /\ UNCHANGED <<runVars, resolved, artifacts, positions,
                   disk, stored, work, announced, starts, faults>>

HandleBatch ==
    \/ \E u \in Index \cup Old : DropBatch(u)
    \/ \E u \in Index : ResolveEmpty(u) \/ ResolveBatch(u)
    \/ VerifyBatch \/ RejectBatch \/ CountBatch \/ CloseDone

(***************************************************************************)
(* The environment: the pool of workers, and damage to stored artifacts.   *)
(***************************************************************************)
\* A worker stores what a published unit produced.  Playing it again
\* writes the same bytes to the same key.
StoreArtifact(u) ==
    /\ u \in work /\ Yield[u] > 0
    /\ disk' = [disk EXCEPT ![u] = "good"]
    /\ stored' = stored \cup {u}
    /\ UNCHANGED <<runVars, sharedVars, handlerVars, inbox, work, announced, starts, faults>>

\* ...and reports it only once it is stored, any number of times.
ReportBatch(u) ==
    /\ u \in work /\ (Yield[u] = 0 \/ u \in stored)
    /\ inbox' = inbox \cup {u}
    /\ UNCHANGED <<runVars, sharedVars, handlerVars, disk, stored, work, announced, starts, faults>>

\* An artifact is damaged or lost before the coordinator has checked it; no
\* code of the coordinator reads it again afterwards.
Damage(u) ==
    /\ disk[u] = "good" /\ faults < MaxFaults
    /\ u \notin Counted \cup found
    /\ ~(hstage = "count" /\ hunit = u)
    /\ \A a \in announced : u \notin {a.artifacts[i] : i \in DOMAIN a.artifacts}
    /\ \E s \in FileState \ {"good"} : disk' = [disk EXCEPT ![u] = s]
    /\ faults' = faults + 1
    /\ UNCHANGED <<runVars, sharedVars, handlerVars, stored, inbox, work, announced, starts>>

Pool == \E u \in Index : StoreArtifact(u) \/ ReportBatch(u) \/ Damage(u)

Next == Start \/ Crash \/ RunGeneration \/ HandleBatch \/ Pool

Spec == Init /\ [][Next]_vars

\* What the handler still has to do once it has taken a batch.
HandlerSteps == VerifyBatch \/ RejectBatch \/ CountBatch \/ CloseDone

-----------------------------------------------------------------------------
(***************************************************************************)
(* Properties.                                                             *)
(***************************************************************************)
TypeOK ==
    /\ pc \in {"down", "list", "scan", "apply", "measure", "issue", "wait", "announce"}
    /\ todo \in SUBSET Index /\ found \in SUBSET Index /\ covered \in SUBSET Index
    /\ toIssue \in Int /\ nextIndex \in 0 .. MaxIndex + 1 /\ issued \in Nat
    /\ resolved \in SUBSET Index /\ artifacts \in Seq(Index)
    /\ positions \in Nat /\ done \in {"open", "closed"}
    /\ hstage \in {"idle", "verify", "count", "close"} /\ hunit \in Index
    /\ disk \in [Index -> FileState]
    /\ stored \in SUBSET Index /\ work \in SUBSET Index /\ inbox \in SUBSET (Index \cup Old)
    /\ announced \in SUBSET [artifacts : Seq(Index), positions : Nat]
    /\ starts \in Nat /\ faults \in Nat

\* A unit's artifact enters the dataset at most once, and only after the unit
\* was marked resolved, whether resume found it on disk, the handler verified
\* it, or both raced for it while batches were redelivered.
CountedOnce ==
    /\ \A i, j \in DOMAIN artifacts : artifacts[i] = artifacts[j] => i = j
    /\ Counted \subseteq resolved

\* The positions in each number of the first artifacts of a sequence.
Sums(seq) ==
    LET s[n \in 0 .. Len(seq)] == IF n = 0 THEN 0 ELSE s[n - 1] + Yield[seq[n]]
    IN  s
SumOf(seq) == Sums(seq)[Len(seq)]

\* The total a dataset is announced with, and the one the coordinator compares
\* with the target, is the sum over exactly the artifacts it lists.
PositionsExact ==
    /\ positions = SumOf(artifacts)
    /\ \A a \in announced : a.positions = SumOf(a.artifacts)

\* The generation cannot be complete without anybody having noticed: while
\* RunGeneration waits or tops up, either the target is not reached, or done is
\* closed, or the handler is about to close it.
CompletionNoticed ==
    pc \in {"measure", "issue", "wait"} =>
        (positions < Target \/ done = "closed" \/ hstage = "close")

\* A dataset is announced only with at least the positions the generation asked
\* for, and never lists an artifact twice.
AnnouncedEnough ==
    \A a \in announced :
        /\ a.positions >= Target
        /\ \A i, j \in DOMAIN a.artifacts : a.artifacts[i] = a.artifacts[j] => i = j

\* What topUp takes for outstanding is never more than the units this process
\* issued that have not reported back.  An overestimate would shrink the queue
\* until no work is issued and the generation hangs with idle workers.
OutstandingHonest ==
    Outstanding <= Cardinality(IssuedUnits \ resolved)

\* topUp never keeps more than UnitsInFlight units outstanding by its own
\* count, whatever the handler resolves between its measuring and its issuing.
QueueBounded == Outstanding <= UnitsInFlight

\* Every artifact of an announced dataset is a file whose records can be read:
\* it was checked before it was counted, by resume or by the handler.
AnnouncedReadable ==
    \A a \in announced : \A i \in DOMAIN a.artifacts : FramingOK(a.artifacts[i])

\* With bounded restarts and faults the generation is announced in the end:
\* neither a resumed, empty, rejected nor redelivered unit leaves the queue
\* unfilled or the completion unseen.
EventuallyAnnounced == <>(announced # {})
-----------------------------------------------------------------------------
(***************************************************************************)
(* The inductive invariant the proofs rest on, in layers.                  *)
(***************************************************************************)
CountingInv ==
    /\ CountedOnce
    /\ covered \subseteq resolved
    /\ hstage \in {"verify", "count"} => hunit \in resolved \ Counted

CompletionInv ==
    /\ CompletionNoticed
    /\ AnnouncedEnough
    /\ (done = "closed" \/ hstage = "close" \/ pc = "announce") => positions >= Target

AccountingInv ==
    /\ pc \in {"down", "list", "scan", "apply"} => nextIndex = 0
    /\ issued = Cardinality(IssuedUnits)
    /\ Outstanding <= UnitsInFlight
    /\ (pc = "issue" /\ toIssue > 0) => Outstanding + toIssue <= UnitsInFlight

ReadableInv ==
    /\ \A u \in Counted \cup found : FramingOK(u)
    /\ pc = "apply" => todo \subseteq found
    /\ hstage = "count" => VerifyOK(hunit)
    /\ AnnouncedReadable

IInv == TypeOK /\ CountingInv /\ CompletionInv /\ AccountingInv /\ ReadableInv
=============================================================================
