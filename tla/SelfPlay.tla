------------------------------ MODULE SelfPlay ------------------------------
(***************************************************************************)
(* The self-play pipeline: the coordinator of Coordinator.tla, the work    *)
(* stream of the bus (internal/bus/nats.go) and the workers that play      *)
(* units (internal/worker/worker.go).  They take the place of the free     *)
(* pool Coordinator assumes, and this specification implements that one.   *)
(*                                                                         *)
(* A message stays in the work stream until its acknowledgement arrives.   *)
(* One delivered and waiting for it is held: it is offered to another      *)
(* worker after a negative acknowledgement, or when AckWait has expired.   *)
(* A coordinator publishes a unit at most once in its life, so the unit    *)
(* and the number of that life identify the message.                       *)
(***************************************************************************)
EXTENDS Coordinator

CONSTANTS
    Workers,          \* members of the queue group
    MaxWorkerFaults   \* bound: failures, deaths, lost acknowledgements and
                      \* redeliveries of a unit still being played

ASSUME WorkersOK == MaxWorkerFaults \in Nat

VARIABLES
    stream, held,     \* messages retained, and those of them waiting for an acknowledgement
    wstage, wmsg,     \* where each worker's handle is, and with which message
    reported,         \* history: units whose batch the bus accepted
    wfaults

playVars   == <<stream, held, wstage, wmsg, reported, wfaults>>
systemVars == <<vars, playVars>>
\* What no worker and no broker touches.
ownVars    == <<runVars, sharedVars, handlerVars, work, announced, starts, faults>>

Messages == Index \X Nat
UnitOf(m) == m[1]

SystemInit ==
    /\ Init
    /\ stream = {} /\ held = {} /\ reported = {}
    /\ wstage = [w \in Workers |-> "idle"]
    /\ wmsg = [w \in Workers |-> <<0, 0>>]
    /\ wfaults = 0

(***************************************************************************)
(* The coordinator.  Publish waits for the broker to have stored the       *)
(* message; when it fails the message may be stored all the same.          *)
(***************************************************************************)
QuietRun ==
    \/ ListArtifacts \/ (\E u \in Index : ScanArtifact(u)) \/ ScanDone
    \/ (\E u \in Index : ApplyResult(u)) \/ ResumeDone
    \/ MeasureOutstanding \/ SkipCovered \/ TopUpDone
    \/ Tick \/ SeeDone \/ Announce \/ AnnounceFails

QuietStep == Start \/ Crash \/ HandleBatch \/ QuietRun \/ \E u \in Index : Damage(u)

Quiet == QuietStep /\ UNCHANGED playVars

Retained == stream' = stream \cup {<<nextIndex, starts>>}

PublishUnit ==
    /\ IssueUnit
    /\ Retained
    /\ UNCHANGED <<held, wstage, wmsg, reported, wfaults>>

PublishFails ==
    /\ IssueFails
    /\ \/ Retained /\ nextIndex \in work'
       \/ stream' = stream /\ work' = work
    /\ UNCHANGED <<held, wstage, wmsg, reported, wfaults>>

(***************************************************************************)
(* The work stream.                                                        *)
(***************************************************************************)
TakeUnit(w, m) ==
    /\ wstage[w] = "idle" /\ m \in stream \ held
    /\ held' = held \cup {m}
    /\ wstage' = [wstage EXCEPT ![w] = "playing"]
    /\ wmsg' = [wmsg EXCEPT ![w] = m]
    /\ UNCHANGED <<ownVars, poolVars, stream, reported, wfaults>>

\* Nobody is working on it: its worker died or its acknowledgement was lost.
Abandoned(m) == \A w \in Workers : wstage[w] = "idle" \/ wmsg[w] # m

AckWaitExpires(m) ==
    /\ m \in held
    /\ \/ Abandoned(m) /\ wfaults' = wfaults
       \/ ~Abandoned(m) /\ wfaults < MaxWorkerFaults /\ wfaults' = wfaults + 1
    /\ held' = held \ {m}
    /\ UNCHANGED <<ownVars, poolVars, stream, wstage, wmsg, reported>>

(***************************************************************************)
(* Worker.handle.                                                          *)
(***************************************************************************)
\* Mutant: the batch is announced first.
PlayDoneUnstored(w) ==
    /\ wstage[w] = "playing"
    /\ wstage' = [wstage EXCEPT ![w] = "announcing"]
    /\ UNCHANGED <<ownVars, poolVars, stream, held, wmsg, reported, wfaults>>

\* Generate returns; a unit without positions has nothing to store.
PlayDone(w) ==
    /\ wstage[w] = "playing"
    /\ wstage' = [wstage EXCEPT ![w] =
                    IF Yield[UnitOf(wmsg[w])] = 0 THEN "announcing" ELSE "storing"]
    /\ UNCHANGED <<ownVars, poolVars, stream, held, wmsg, reported, wfaults>>

\* The key carries the generation and the unit: a replay overwrites.
StoreBatch(w) ==
    LET u == UnitOf(wmsg[w]) IN
    /\ wstage[w] = "storing"
    /\ disk' = [disk EXCEPT ![u] = "good"]
    /\ stored' = stored \cup {u}
    /\ wstage' = [wstage EXCEPT ![w] = "announcing"]
    /\ UNCHANGED <<ownVars, inbox, stream, held, wmsg, reported, wfaults>>

Report(u) == inbox' = inbox \cup {u} /\ reported' = reported \cup {u}

AnnounceBatch(w) ==
    /\ wstage[w] = "announcing"
    /\ Report(UnitOf(wmsg[w]))
    /\ wstage' = [wstage EXCEPT ![w] = "acking"]
    /\ UNCHANGED <<ownVars, disk, stored, stream, held, wmsg, wfaults>>

\* handle returned nil.  A lost acknowledgement leaves the message held.
AckUnit(w) ==
    /\ wstage[w] = "acking"
    /\ \/ stream' = stream \ {wmsg[w]} /\ held' = held \ {wmsg[w]} /\ wfaults' = wfaults
       \/ wfaults < MaxWorkerFaults /\ wfaults' = wfaults + 1 /\ UNCHANGED <<stream, held>>
    /\ wstage' = [wstage EXCEPT ![w] = "idle"]
    /\ UNCHANGED <<ownVars, poolVars, wmsg, reported>>

\* Mutant: a failed unit is acknowledged.
NakUnitDrops(w) ==
    /\ wstage[w] \in {"playing", "storing", "announcing"}
    /\ wfaults < MaxWorkerFaults /\ wfaults' = wfaults + 1
    /\ stream' = stream \ {wmsg[w]} /\ held' = held \ {wmsg[w]}
    /\ wstage' = [wstage EXCEPT ![w] = "idle"]
    /\ UNCHANGED <<ownVars, poolVars, wmsg, reported>>

\* handle returns an error: no network, interrupted games, a failed Put, a
\* failed Publish (whose batch may have been accepted).
NakUnit(w) ==
    /\ wstage[w] \in {"playing", "storing", "announcing"}
    /\ wfaults < MaxWorkerFaults /\ wfaults' = wfaults + 1
    /\ held' = held \ {wmsg[w]}
    /\ wstage' = [wstage EXCEPT ![w] = "idle"]
    /\ \/ UNCHANGED <<inbox, reported>>
       \/ wstage[w] = "announcing" /\ Report(UnitOf(wmsg[w]))
    /\ UNCHANGED <<ownVars, disk, stored, stream, wmsg>>

\* The pod is killed; another takes its place in the group.
WorkerDies(w) ==
    /\ wstage[w] # "idle"
    /\ wfaults < MaxWorkerFaults /\ wfaults' = wfaults + 1
    /\ wstage' = [wstage EXCEPT ![w] = "idle"]
    /\ UNCHANGED <<ownVars, poolVars, stream, held, wmsg, reported>>

Handle(w) == PlayDone(w) \/ StoreBatch(w) \/ AnnounceBatch(w) \/ AckUnit(w)

SystemNext ==
    \/ Quiet \/ PublishUnit \/ PublishFails
    \/ \E m \in stream : AckWaitExpires(m) \/ \E w \in Workers : TakeUnit(w, m)
    \/ \E w \in Workers : Handle(w) \/ NakUnit(w) \/ WorkerDies(w)

SystemSpec == SystemInit /\ [][SystemNext]_systemVars

(***************************************************************************)
(* Fairness.  The coordinator's goroutine is scheduled (WF); select picks  *)
(* uniformly among its ready cases, so a closed done is not passed over    *)
(* for ever (SF); the broker offers every unacknowledged batch and every   *)
(* unacknowledged unit again and again (SF, as the handler is busy with    *)
(* others in between); AckWait expires; the cluster restarts the           *)
(* coordinator; each worker runs its handler to the end.                   *)
(***************************************************************************)
SystemFairness ==
    /\ WF_systemVars(((Start \/ QuietRun) /\ UNCHANGED playVars) \/ PublishUnit)
    /\ SF_systemVars(SeeDone /\ UNCHANGED playVars)
    /\ WF_systemVars(HandlerSteps /\ UNCHANGED playVars)
    /\ \A u \in Index : SF_systemVars((ResolveEmpty(u) \/ ResolveBatch(u)) /\ UNCHANGED playVars)
    /\ \A m \in Index \X (1 .. MaxStarts) :
        /\ SF_systemVars(m \in stream /\ \E w \in Workers : TakeUnit(w, m))
        /\ WF_systemVars(m \in stream /\ AckWaitExpires(m) /\ Abandoned(m))
    /\ \A w \in Workers : WF_systemVars(Handle(w))

FairSystemSpec == SystemSpec /\ SystemFairness
-----------------------------------------------------------------------------
PlayTypeOK ==
    /\ stream \in SUBSET Messages /\ held \in SUBSET Messages
    /\ reported \in SUBSET Index
    /\ wstage \in [Workers -> {"idle", "playing", "storing", "announcing", "acking"}]
    /\ wmsg \in [Workers -> Messages]
    /\ wfaults \in Nat

SystemTypeOK == TypeOK /\ PlayTypeOK

\* Worker.handle's promise ("the reverse order would lose the games entirely"):
\* whatever dies, is redelivered or fails half way, a unit the coordinator has
\* published is still in the work stream or its batch is on the bus.
NoWorkLost ==
    \A u \in work : u \in reported \/ \E m \in stream : UnitOf(m) = u

\* Workers act only on units that were published, and are about to report only
\* what is stored.
WorkerInv ==
    /\ \A m \in stream : UnitOf(m) \in work
    /\ \A w \in Workers : wstage[w] # "idle" =>
        /\ UnitOf(wmsg[w]) \in work
        /\ wstage[w] = "storing" => Yield[UnitOf(wmsg[w])] > 0
        /\ wstage[w] \in {"announcing", "acking"} =>
                (Yield[UnitOf(wmsg[w])] = 0 \/ UnitOf(wmsg[w]) \in stored)
        /\ wstage[w] = "acking" => UnitOf(wmsg[w]) \in reported

\* Queue and workers are a pool as Coordinator assumes it: they store only
\* published units, and never report a unit before its artifact is stored.
ImplementsCoordinator == Spec
=============================================================================
