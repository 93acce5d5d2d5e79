----------------------------- MODULE Dashboard -----------------------------
(***************************************************************************)
(* The dashboard (internal/dashboard): the guarded controls of control.go, *)
(* run by concurrent HTTP requests as sequences of calls to the cluster;   *)
(* the followers in server.go that turn the end of a job into history; and *)
(* the event watch that records announced datasets.  The history itself is *)
(* module History.                                                         *)
(*                                                                         *)
(* The cluster is modelled as far as the controls read and change it: the  *)
(* replicas of coordinator and workers, the coordinator's generation, the  *)
(* jobs, and the network files on the shared volume.                       *)
(***************************************************************************)
EXTENDS History

CONSTANTS
    MaxGen,         \* bound: generations
    Clients,        \* concurrent HTTP requests
    Requests,       \* what they ask: <<operation, generation, force>>
    Sessions,       \* bound: what of it is asked in one behaviour, and how many gatekeepers
    MaxTrainings,   \* bound: training runs of a generation
    MaxGates,       \* bound: gatekeeper runs of a generation
    MaxCallFaults   \* bound: cluster calls that fail

Gens == 0 .. MaxGen
Rec(type, g, promoted) == [type |-> type, gen |-> g, promoted |-> promoted]
DashboardRecords ==
    {Rec(t, g, p) : t \in {"dataset", "training", "gate", "promotion"}, g \in Gens, p \in {"yes", "no"}}

ASSUME DashboardConstants ==
    /\ MaxGen \in Nat /\ MaxTrainings \in Nat /\ MaxGates \in Nat /\ MaxCallFaults \in Nat
    /\ Requests \subseteq {"start", "stop", "pause", "resume", "train", "gate", "advance"}
                          \X Gens \X {"force", "guarded"}
    /\ Sessions \subseteq [asks : SUBSET Requests, gates : 0 .. MaxGates]
    /\ Records = DashboardRecords

\* A job is <<generation, number>>: its name has the time, so any number of one kind and
\* generation may run at once.
Asked(op) == {r[2] : r \in {q \in Requests : q[1] = op}}
TrainJobs == Asked("train") \X (1 .. MaxTrainings)
GateJobs == Asked("gate") \X (1 .. MaxGates)

VARIABLES
    replicas,      \* of "coordinator" and "workers": 0, or 1 for the configured number
    generation,    \* NOVA_GENERATION of the coordinator
    trainers,      \* of each job: none, running, reported its loss, written its network
    gates,         \* of each job: none, running, promoted or rejected (or undecided)
    session,       \* bound: of this behaviour
    announced,     \* DatasetReady events on the stream
    request,       \* what each client's request does next
    followers,     \* the goroutines that follow jobs: <<"train" | "gate" | "promotion", job>>
    callFaults

clusterVars == <<replicas, generation>>
jobVars == <<trainers, gates, session>>
vars == <<historyVars, clusterVars, jobVars, announced, request, followers, callFaults>>

Idle == <<>>
Has(type, g, promoted) == Rec(type, g, promoted) \in records
HasDataset(g) == \E p \in {"yes", "no"} : Has("dataset", g, p)

\* Mutant: any gate counts.
HasGate(g) == \E t \in {"promotion", "gate"}, p \in {"yes", "no"} : Has(t, g, p)

HasPromotion(g) == (\E p \in {"yes", "no"} : Has("promotion", g, p)) \/ Has("gate", g, "yes")
OnDisk(g) == \E j \in TrainJobs : j[1] = g /\ trainers[j] = "written"

\* What jobs of a generation came to.
Promoted(g) == \E j \in GateJobs : j[1] = g /\ gates[j] = "promoted"
Rejected(g) == \E j \in GateJobs : j[1] = g /\ gates[j] = "rejected"
Trained(g) == \E j \in TrainJobs : j[1] = g /\ trainers[j] \in {"reported", "written"}

Init ==
    /\ InitHistory
    /\ replicas = [d \in {"coordinator", "workers"} |-> 0] /\ generation = 0
    /\ trainers = [j \in TrainJobs |-> "none"] /\ gates = [j \in GateJobs |-> "none"]
    /\ session \in Sessions
    /\ announced = {} /\ request = [c \in Clients |-> Idle]
    /\ followers = {} /\ callFaults = 0

(***************************************************************************)
(* Requests.  A request is the list of the cluster calls it has yet to     *)
(* make; the guards are evaluated with the call they precede.              *)
(***************************************************************************)
Scale(d, n) == <<"scale", d, n>>

Steps(r) ==
    LET op == r[1]  g == r[2]  force == r[3] IN
    CASE op = "pause"   -> <<Scale("workers", 0)>>
      [] op = "resume"  -> <<Scale("workers", 1)>>
      [] op = "stop"    -> <<Scale("workers", 0), Scale("coordinator", 0)>>
      [] op = "start"   -> (IF force = "force" THEN <<>> ELSE <<<<"unlessDataset">>>>)
                           \o <<Scale("coordinator", 1), Scale("workers", 1)>>
      [] op = "train"   -> (IF force = "force" THEN <<>> ELSE <<<<"unlessRunning">>>>)
                           \o <<<<"createTrainer", g>>>>
      [] op = "gate"    -> <<<<"createGate", g>>>>
      [] op = "advance" -> <<<<"setGeneration", g>>, Scale("coordinator", 1)>>

Arrives(c, r) ==
    /\ request[c] = Idle
    /\ request' = [request EXCEPT ![c] = Steps(r)]
    /\ UNCHANGED <<historyVars, clusterVars, jobVars, announced, followers, callFaults>>

\* The call at the head is made; the request ends after its last one, and at a
\* refusal.
Calls(c, op) == request[c] # Idle /\ Head(request[c])[1] = op
Refuse(c) == request' = [request EXCEPT ![c] = Idle]
Proceed(c) == request' = [request EXCEPT ![c] = Tail(@)]

CallScale(c) ==
    /\ Calls(c, "scale")
    /\ replicas' = [replicas EXCEPT ![Head(request[c])[2]] = Head(request[c])[3]]
    /\ Proceed(c)
    /\ UNCHANGED <<historyVars, generation, jobVars, announced, followers, callFaults>>

CheckDataset(c) ==
    /\ Calls(c, "unlessDataset")
    /\ IF HasDataset(generation) THEN Refuse(c) ELSE Proceed(c)
    /\ UNCHANGED <<historyVars, clusterVars, jobVars, announced, followers, callFaults>>

CheckRunning(c) ==
    /\ Calls(c, "unlessRunning")
    /\ IF replicas["coordinator"] > 0 THEN Refuse(c) ELSE Proceed(c)
    /\ UNCHANGED <<historyVars, clusterVars, jobVars, announced, followers, callFaults>>

\* A job that was not there before, and the goroutine that follows it.
New(jobs, g, j) == j[1] = g /\ jobs[j] = "none" /\ \A k \in 1 .. j[2] - 1 : jobs[<<g, k>>] # "none"

CreateTrainer(c) ==
    /\ Calls(c, "createTrainer")
    /\ \E j \in TrainJobs :
        /\ New(trainers, Head(request[c])[2], j)
        /\ trainers' = [trainers EXCEPT ![j] = "running"]
        /\ followers' = followers \cup {<<"train", j>>}
    /\ Proceed(c)
    /\ UNCHANGED <<historyVars, clusterVars, gates, session, announced, callFaults>>

CreateGate(c) ==
    /\ Calls(c, "createGate")
    /\ LET g == Head(request[c])[2] IN
       IF ~OnDisk(g) THEN Refuse(c) /\ UNCHANGED <<gates, followers>>
       ELSE /\ \E j \in GateJobs :
                 /\ New(gates, g, j) /\ j[2] <= session.gates
                 /\ gates' = [gates EXCEPT ![j] = "running"]
                 /\ followers' = followers \cup {<<"gate", j>>}
            /\ Proceed(c)
    /\ UNCHANGED <<historyVars, clusterVars, trainers, session, announced, callFaults>>

\* AdvanceGeneration's guards and SetCoordinatorGeneration: what the guards saw
\* is still so when the call is made.
SetGeneration(c) ==
    /\ Calls(c, "setGeneration")
    /\ LET to == Head(request[c])[2] IN
       IF HasPromotion(to - 1) /\ OnDisk(to - 1)
       THEN generation' = to /\ Proceed(c)
       ELSE generation' = generation /\ Refuse(c)
    /\ UNCHANGED <<historyVars, replicas, jobVars, announced, followers, callFaults>>

\* A call fails: what was done stays done.
CallFails(c) ==
    /\ request[c] # Idle
    /\ callFaults < MaxCallFaults /\ callFaults' = callFaults + 1
    /\ Refuse(c)
    /\ UNCHANGED <<historyVars, clusterVars, jobVars, announced, followers>>

RequestStep(c) ==
    \/ CallScale(c) \/ CheckDataset(c) \/ CheckRunning(c)
    \/ CreateTrainer(c) \/ CreateGate(c) \/ SetGeneration(c)

(***************************************************************************)
(* The cluster.                                                            *)
(***************************************************************************)
DatasetAnnounced ==
    /\ replicas["coordinator"] = 1 /\ replicas["workers"] = 1
    /\ generation \notin announced
    /\ announced' = announced \cup {generation}
    /\ UNCHANGED <<historyVars, clusterVars, jobVars, request, followers, callFaults>>

\* The trainer prints its losses and then writes the network over the last one.  One that
\* fails goes no further.
TrainerReports(j) ==
    /\ trainers[j] = "running" /\ trainers' = [trainers EXCEPT ![j] = "reported"]
    /\ UNCHANGED <<historyVars, clusterVars, gates, session, announced, request, followers,
                   callFaults>>

TrainerWrites(j) ==
    /\ trainers[j] = "reported" /\ trainers' = [trainers EXCEPT ![j] = "written"]
    /\ UNCHANGED <<historyVars, clusterVars, gates, session, announced, request, followers,
                   callFaults>>

GateEnds(j) ==
    /\ gates[j] = "running"
    /\ \E v \in {"promoted", "rejected"} : gates' = [gates EXCEPT ![j] = v]
    /\ UNCHANGED <<historyVars, clusterVars, trainers, session, announced, request, followers,
                   callFaults>>

(***************************************************************************)
(* What reaches the history.  An append that fails is logged and not tried *)
(* again by a follower; a handler returns the error and is called again.   *)
(***************************************************************************)
Record(r) == AppendRecord(r) \/ AppendFails(r)

\* WatchEvents: the stream is delivered more than once, and from its start
\* after a restart.  A repeated event finds its record and changes nothing.
WatchDataset(g) ==
    /\ g \in announced /\ ~HasDataset(g)
    /\ Record(Rec("dataset", g, "no"))
    /\ UNCHANGED <<clusterVars, jobVars, announced, request, followers, callFaults>>

\* The loss is recorded as soon as its line is read.
FollowTrainer(j) ==
    /\ <<"train", j>> \in followers /\ trainers[j] \in {"reported", "written"}
    /\ Record(Rec("training", j[1], "no"))
    /\ followers' = followers \ {<<"train", j>>}
    /\ UNCHANGED <<clusterVars, jobVars, announced, callFaults, request>>

GateOver(j) == <<"gate", j>> \in followers /\ gates[j] \in {"promoted", "rejected"}
GateRec(j) == Rec("gate", j[1], IF gates[j] = "promoted" THEN "yes" ELSE "no")
Followed(j) ==
    (followers \ {<<"gate", j>>}) \cup (IF gates[j] = "promoted" THEN {<<"promotion", j>>} ELSE {})

\* Mutant: looks at whether the job is over, not at its result.
AwaitGateEnd(j) ==
    /\ GateOver(j)
    /\ Record(Rec("gate", j[1], "yes"))
    /\ followers' = Followed(j)
    /\ UNCHANGED <<clusterVars, jobVars, announced, request, callFaults>>

\* Mutant: returns when the first append fails.
AwaitGateOrReturn(j) ==
    /\ GateOver(j)
    /\ \/ AppendRecord(GateRec(j)) /\ followers' = Followed(j)
       \/ AppendFails(GateRec(j)) /\ followers' = followers \ {<<"gate", j>>}
    /\ UNCHANGED <<clusterVars, jobVars, announced, request, callFaults>>

\* awaitGate, first the gate record, then the promotion, whether or not the first
\* could be appended.
AwaitGate(j) ==
    /\ GateOver(j)
    /\ Record(GateRec(j))
    /\ followers' = Followed(j)
    /\ UNCHANGED <<clusterVars, jobVars, announced, request, callFaults>>

RecordPromotion(j) ==
    /\ <<"promotion", j>> \in followers
    /\ Record(Rec("promotion", j[1], "yes"))
    /\ followers' = followers \ {<<"promotion", j>>}
    /\ UNCHANGED <<clusterVars, jobVars, announced, request, callFaults>>

\* The log cannot be opened or read, or has no result; or gateTimeout passes.
GivesUp(f) ==
    /\ f \in followers /\ f[1] # "promotion" /\ followers' = followers \ {f}
    /\ callFaults < MaxCallFaults /\ callFaults' = callFaults + 1
    /\ UNCHANGED <<historyVars, clusterVars, jobVars, announced, request>>

\* The pod is replaced: requests and followers are gone, the history is read again.
Restart ==
    /\ NewHistory
    /\ request' = [c \in Clients |-> Idle] /\ followers' = {}
    /\ UNCHANGED <<clusterVars, jobVars, announced, callFaults>>

Next ==
    \/ \E c \in Clients : \/ \E r \in session.asks : Arrives(c, r)
                          \/ RequestStep(c) \/ CallFails(c)
    \/ DatasetAnnounced
    \/ \E g \in Gens : WatchDataset(g)
    \/ \E j \in TrainJobs : TrainerReports(j) \/ TrainerWrites(j) \/ FollowTrainer(j)
    \/ \E j \in GateJobs : GateEnds(j) \/ AwaitGate(j) \/ RecordPromotion(j)
    \/ \E f \in followers : GivesUp(f)
    \/ Restart

Spec == Init /\ [][Next]_vars

\* The followers are goroutines of their own: nothing an operator does stops them.
FairSpec ==
    /\ Spec
    /\ \A j \in TrainJobs : WF_vars(FollowTrainer(j))
    /\ \A j \in GateJobs : WF_vars(AwaitGate(j) \/ RecordPromotion(j))
-----------------------------------------------------------------------------
TypeOK ==
    /\ HistoryTypeOK /\ session \in Sessions
    /\ replicas \in [{"coordinator", "workers"} -> 0 .. 1] /\ generation \in Gens
    /\ trainers \in [TrainJobs -> {"none", "running", "reported", "written"}]
    /\ gates \in [GateJobs -> {"none", "running", "promoted", "rejected"}]
    /\ announced \in SUBSET Gens
    /\ followers \in SUBSET (({"train"} \X TrainJobs) \cup ({"gate", "promotion"} \X GateJobs))
    /\ callFaults \in 0 .. MaxCallFaults

\* What the history says happened, in memory and after any crash on disk: a
\* promotion means that a gatekeeper job promoted, whatever others of the
\* generation found, a rejection that one rejected, a dataset that it was announced, and
\* a training that a trainer got to its losses.
HistorySound ==
    \A r \in (records \cup Range(file)) \ {Torn} :
        /\ r.type = "promotion" \/ (r.type = "gate" /\ r.promoted = "yes") => Promoted(r.gen)
        /\ r.type = "gate" /\ r.promoted = "no" => Rejected(r.gen)
        /\ r.type = "dataset" => r.gen \in announced
        /\ r.type = "training" => Trained(r.gen)

\* AdvanceGeneration: the coordinator is never pointed at a generation whose
\* predecessor no gatekeeper promoted, or left no network, whatever restarts, torn
\* lines, other jobs and other requests come between.
AdvanceJustified ==
    [][generation' # generation => Promoted(generation' - 1) /\ OnDisk(generation' - 1)]_vars

\* What memory knows of a job's verdict; of a promotion, that it can be advanced on.
Known(j) ==
    \/ GateRec(j) \in records
    \/ gates[j] = "promoted" /\ Rec("promotion", j[1], "yes") \in records

\* awaitGate: the verdict of a gatekeeper job that is over is recorded, also beside other
\* jobs of the generation and after a restart, unless from then on the pod is replaced or
\* a call fails, or its appends fail: a promotion, which is appended twice, survives
\* one failure.
VerdictRecorded ==
    \A j \in GateJobs, faults \in 0 .. MaxRestarts + MaxCallFaults :
        (GateOver(j) /\ restarts + callFaults = faults)
        ~> \/ Known(j) \/ restarts + callFaults > faults
           \/ failures > (IF gates[j] = "promoted" THEN 1 ELSE 0)
=============================================================================
