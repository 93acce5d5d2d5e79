-------------------------- MODULE Dashboard_proofs --------------------------
(***************************************************************************)
(* The history never claims what did not happen, a failed append loses at  *)
(* most one other record, and the coordinator is never advanced past an    *)
(* unpromoted generation: for any number of requests, generations, failed  *)
(* appends and restarts.                                                   *)
(***************************************************************************)
EXTENDS Dashboard, FiniteSetTheorems, TLAPS

\* What a record claims has happened.
Holds(r, gs, ts, ann) ==
    /\ r.type = "promotion" \/ (r.type = "gate" /\ r.promoted = "yes") =>
         \E j \in GateJobs : j[1] = r.gen /\ gs[j] = "promoted"
    /\ r.type = "gate" /\ r.promoted = "no" => \E j \in GateJobs : j[1] = r.gen /\ gs[j] = "rejected"
    /\ r.type = "dataset" => r.gen \in ann
    /\ r.type = "training" => \E j \in TrainJobs : j[1] = r.gen /\ ts[j] \in {"reported", "written"}

True(r) == Holds(r, gates, trainers, announced)

FileInv ==
    /\ file \in Seq(Records \cup {Torn}) /\ (open => Len(file) # 0)
    /\ \A i \in 1 .. Len(file) : file[i] # Torn => True(file[i])

MemoryInv == \A r \in records : True(r) /\ r # Torn

JobInv ==
    /\ trainers \in [TrainJobs -> {"none", "running", "reported", "written"}]
    /\ gates \in [GateJobs -> {"none", "running", "promoted", "rejected"}]
    /\ \A j \in GateJobs : <<"promotion", j>> \in followers => gates[j] = "promoted"

DashInv == FileInv /\ MemoryInv /\ JobInv

\* A job is of a generation.
LEMMA JobsTyped == \A j \in TrainJobs \cup GateJobs : j[1] \in Gens
<1>1. \A q \in Requests : q[2] \in Gens
  BY DashboardConstants
<1>2. Asked("train") \subseteq Gens /\ Asked("gate") \subseteq Gens
  BY <1>1 DEF Asked
<1>. QED BY <1>2 DEF TrainJobs, GateJobs

\* What a job came to stays, but that losses are followed by a network.
Forward ==
    /\ \A j \in GateJobs : gates[j] \in {"promoted", "rejected"} => gates'[j] = gates[j]
    /\ \A j \in TrainJobs : trainers[j] \in {"reported", "written"} => trainers'[j] \in {"reported", "written"}
    /\ announced \subseteq announced'

\* Nothing that happened is undone.
LEMMA TrueStays ==
    ASSUME Forward
    PROVE  \A r : True(r) => Holds(r, gates', trainers', announced')
<1>. SUFFICES ASSUME NEW r, True(r) PROVE Holds(r, gates', trainers', announced')
  OBVIOUS
<1>1. r.type = "promotion" \/ (r.type = "gate" /\ r.promoted = "yes") =>
        \E j \in GateJobs : j[1] = r.gen /\ gates'[j] = "promoted"
  BY DEF Forward, True, Holds
<1>2. r.type = "gate" /\ r.promoted = "no" => \E j \in GateJobs : j[1] = r.gen /\ gates'[j] = "rejected"
  BY DEF Forward, True, Holds
<1>3. r.type = "dataset" => r.gen \in announced'
  BY DEF Forward, True, Holds
<1>4. r.type = "training" => \E j \in TrainJobs : j[1] = r.gen /\ trainers'[j] \in {"reported", "written"}
  BY DEF Forward, True, Holds
<1>. QED BY <1>1, <1>2, <1>3, <1>4 DEF Holds

\* A step that only lets more have happened keeps both copies of the history sound.
LEMMA HistoryUntouched ==
    ASSUME FileInv, MemoryInv, Forward, UNCHANGED historyVars
    PROVE  FileInv' /\ MemoryInv'
<1>1. file' = file /\ open' = open /\ records' = records
  BY DEF historyVars
<1>2. \A r : True(r) => Holds(r, gates', trainers', announced')
  BY TrueStays
<1>. QED BY <1>1, <1>2 DEF FileInv, MemoryInv, True

\* A line that is appended, joined to a torn one or cut short is true or torn.
LEMMA LineWritten ==
    ASSUME FileInv, NEW r \in Records, True(r), WriteLine(r) \/ WritePart(r),
           UNCHANGED <<gates, trainers, announced>>
    PROVE  FileInv'
<1>1. \A s : True(s) => Holds(s, gates', trainers', announced')
  BY TrueStays DEF Forward
<1>2. CASE open /\ file' = [file EXCEPT ![Len(file)] = Torn]
  <2>1. Len(file) \in Nat /\ file \in [1 .. Len(file) -> Records \cup {Torn}]
    BY DEF FileInv
  <2>2. file' \in Seq(Records \cup {Torn}) /\ Len(file') = Len(file)
    BY <1>2, <2>1 DEF FileInv
  <2>3. \A i \in 1 .. Len(file) : file'[i] = Torn \/ file'[i] = file[i]
    BY <1>2, <2>1
  <2>4. Len(file) # 0
    BY <1>2 DEF FileInv
  <2>5. \A i \in 1 .. Len(file') : file'[i] # Torn => Holds(file'[i], gates', trainers', announced')
    BY <1>1, <2>2, <2>3 DEF FileInv
  <2>. QED BY <2>2, <2>4, <2>5 DEF FileInv, True
<1>3. CASE \E line \in {r, Torn} : file' = Append(file, line)
  <2>1. PICK line \in {r, Torn} : file' = Append(file, line)
    BY <1>3
  <2>2. file' \in Seq(Records \cup {Torn}) /\ Len(file') = Len(file) + 1 /\ Len(file) \in Nat
    BY <2>1 DEF FileInv
  <2>3. \A i \in 1 .. Len(file) : file'[i] = file[i]
    BY <2>1 DEF FileInv
  <2>4. file'[Len(file) + 1] = line
    BY <2>1 DEF FileInv
  <2>5. \A i \in 1 .. Len(file') : file'[i] # Torn => Holds(file'[i], gates', trainers', announced')
    BY <1>1, <2>1, <2>2, <2>3, <2>4 DEF FileInv
  <2>. QED BY <2>2, <2>5 DEF FileInv, True
<1>. QED BY <1>2, <1>3 DEF WriteLine, WritePart

\* The same of a call of Append, and of what it leaves in memory.
LEMMA Recorded ==
    ASSUME FileInv, MemoryInv, NEW r \in Records, True(r), Record(r),
           UNCHANGED <<gates, trainers, announced>>
    PROVE  FileInv' /\ MemoryInv'
<1>1. \A s : True(s) => Holds(s, gates', trainers', announced')
  BY TrueStays DEF Forward
<1>2. CASE AppendRecord(r)
  BY <1>1, <1>2, LineWritten, HistoryConstants DEF AppendRecord, MemoryInv, True
<1>3. CASE AppendFails(r)
  <2>1. MemoryInv'
    BY <1>1, <1>3 DEF AppendFails, MemoryInv, True
  <2>2. CASE UNCHANGED <<file, open>>
    BY <1>1, <2>1, <2>2 DEF FileInv, True
  <2>3. CASE WriteLine(r) \/ WritePart(r)
    BY <2>1, <2>3, LineWritten
  <2>. QED BY <1>3, <2>1, <2>2, <2>3 DEF AppendFails
<1>. QED BY <1>2, <1>3 DEF Record

\* A new job is none that came to something.
LEMMA Created ==
    ASSUME JobInv, NEW c \in Clients, CreateTrainer(c) \/ CreateGate(c)
    PROVE  Forward /\ JobInv'
<1>1. announced' = announced /\ \A j : <<"promotion", j>> \in followers' => <<"promotion", j>> \in followers
  BY DEF CreateTrainer, CreateGate
<1>2. CASE CreateTrainer(c)
  <2>1. PICK j \in TrainJobs : trainers[j] = "none" /\ trainers' = [trainers EXCEPT ![j] = "running"]
    BY <1>2 DEF CreateTrainer, New
  <2>2. gates' = gates
    BY <1>2 DEF CreateTrainer
  <2>. QED BY <1>1, <2>1, <2>2 DEF Forward, JobInv
<1>3. CASE CreateGate(c)
  <2>1. trainers' = trainers
    BY <1>3 DEF CreateGate
  <2>2. CASE gates' = gates
    BY <1>1, <2>1, <2>2 DEF Forward, JobInv
  <2>3. CASE \E j \in GateJobs : gates[j] = "none" /\ gates' = [gates EXCEPT ![j] = "running"]
    <3>1. PICK j \in GateJobs : gates[j] = "none" /\ gates' = [gates EXCEPT ![j] = "running"]
      BY <2>3
    <3>. QED BY <1>1, <2>1, <3>1 DEF Forward, JobInv
  <2>. QED BY <1>3, <2>2, <2>3 DEF CreateGate, New
<1>. QED BY <1>2, <1>3

\* The invariant is inductive.
LEMMA DashStep == ASSUME DashInv, [Next]_vars PROVE DashInv'
<1>. USE DEF DashInv
<1>1. ASSUME NEW c \in Clients,
             (\E r \in session.asks : Arrives(c, r)) \/ RequestStep(c) \/ CallFails(c)
      PROVE  DashInv'
  <2>1. UNCHANGED historyVars
    BY <1>1 DEF Arrives, RequestStep, CallFails, CallScale, CheckDataset, CheckRunning,
                CreateTrainer, CreateGate, SetGeneration
  <2>2. CASE CreateTrainer(c) \/ CreateGate(c)
    BY <2>1, <2>2, Created, HistoryUntouched
  <2>3. CASE UNCHANGED <<trainers, gates, announced, followers>>
    <3>1. Forward
      BY <2>3 DEF Forward
    <3>. QED BY <2>1, <2>3, <3>1, HistoryUntouched DEF JobInv
  <2>. QED BY <1>1, <2>2, <2>3 DEF Arrives, RequestStep, CallFails, CallScale, CheckDataset,
                                   CheckRunning, SetGeneration, jobVars
<1>2. CASE DatasetAnnounced
  <2>1. Forward /\ UNCHANGED <<historyVars, trainers, gates, followers>>
    BY <1>2 DEF DatasetAnnounced, jobVars, Forward
  <2>. QED BY <2>1, HistoryUntouched DEF JobInv
<1>3. ASSUME NEW j \in TrainJobs, TrainerReports(j) \/ TrainerWrites(j) PROVE DashInv'
  <2>1. PICK v \in {"reported", "written"} : trainers' = [trainers EXCEPT ![j] = v]
    BY <1>3 DEF TrainerReports, TrainerWrites
  <2>2. UNCHANGED <<historyVars, gates, announced, followers>>
    BY <1>3 DEF TrainerReports, TrainerWrites
  <2>3. Forward /\ JobInv'
    BY <2>1, <2>2 DEF Forward, JobInv
  <2>. QED BY <2>2, <2>3, HistoryUntouched
<1>4. ASSUME NEW j \in GateJobs, GateEnds(j) PROVE DashInv'
  <2>1. PICK v \in {"promoted", "rejected"} : gates' = [gates EXCEPT ![j] = v]
    BY <1>4 DEF GateEnds
  <2>2. gates[j] = "running" /\ UNCHANGED <<historyVars, trainers, announced, followers>>
    BY <1>4 DEF GateEnds
  <2>3. Forward /\ JobInv'
    BY <2>1, <2>2 DEF Forward, JobInv
  <2>. QED BY <2>2, <2>3, HistoryUntouched
<1>5. ASSUME NEW g \in Gens, WatchDataset(g) PROVE DashInv'
  <2>1. Rec("dataset", g, "no") \in Records /\ True(Rec("dataset", g, "no"))
    BY <1>5, DashboardConstants DEF WatchDataset, DashboardRecords, Rec, True, Holds
  <2>. QED BY <1>5, <2>1, Recorded DEF WatchDataset, jobVars, JobInv
<1>6. ASSUME NEW j \in TrainJobs, FollowTrainer(j) PROVE DashInv'
  <2>1. Rec("training", j[1], "no") \in Records
    BY JobsTyped, DashboardConstants DEF DashboardRecords, Rec
  <2>2. True(Rec("training", j[1], "no"))
    BY <1>6 DEF FollowTrainer, Rec, True, Holds
  <2>3. UNCHANGED <<gates, trainers, announced>> /\ Record(Rec("training", j[1], "no"))
    BY <1>6 DEF FollowTrainer, jobVars
  <2>4. JobInv'
    BY <1>6, <2>3 DEF FollowTrainer, JobInv
  <2>. QED BY <2>1, <2>2, <2>3, <2>4, Recorded
<1>7. ASSUME NEW j \in GateJobs, AwaitGate(j) PROVE DashInv'
  <2>1. GateRec(j) \in Records
    BY JobsTyped, DashboardConstants DEF GateRec, DashboardRecords, Rec
  <2>2. True(GateRec(j))
    BY <1>7 DEF AwaitGate, GateOver, GateRec, Rec, True, Holds
  <2>3. UNCHANGED <<gates, trainers, announced>> /\ Record(GateRec(j))
    BY <1>7 DEF AwaitGate, jobVars
  <2>4. \A k \in GateJobs : <<"promotion", k>> \in followers' => gates[k] = "promoted"
    BY <1>7 DEF AwaitGate, Followed, JobInv
  <2>5. JobInv'
    BY <2>3, <2>4 DEF JobInv
  <2>. QED BY <2>1, <2>2, <2>3, <2>5, Recorded
<1>8. ASSUME NEW j \in GateJobs, RecordPromotion(j) PROVE DashInv'
  <2>1. Rec("promotion", j[1], "yes") \in Records
    BY JobsTyped, DashboardConstants DEF DashboardRecords, Rec
  <2>2. True(Rec("promotion", j[1], "yes"))
    BY <1>8 DEF RecordPromotion, JobInv, Rec, True, Holds
  <2>3. UNCHANGED <<gates, trainers, announced>> /\ Record(Rec("promotion", j[1], "yes"))
    BY <1>8 DEF RecordPromotion, jobVars
  <2>4. JobInv'
    BY <1>8, <2>3 DEF RecordPromotion, JobInv
  <2>. QED BY <2>1, <2>2, <2>3, <2>4, Recorded
<1>9. ASSUME NEW f \in followers, GivesUp(f) PROVE DashInv'
  <2>1. Forward /\ UNCHANGED historyVars /\ JobInv'
    BY <1>9 DEF GivesUp, jobVars, JobInv, Forward
  <2>. QED BY <2>1, HistoryUntouched
<1>10. CASE Restart
  <2>1. file' = file /\ open' = open /\ followers' = {}
        /\ UNCHANGED <<gates, trainers, announced>>
    BY <1>10 DEF Restart, NewHistory, jobVars
  <2>2. records' = {file[i] : i \in 1 .. Len(file)} \ {Torn}
    BY <1>10 DEF Restart, NewHistory, Range, FileInv
  <2>3. MemoryInv'
    BY <2>1, <2>2 DEF FileInv, MemoryInv, True
  <2>. QED BY <2>1, <2>3 DEF FileInv, JobInv, True
<1>11. CASE UNCHANGED vars
  <2>1. Forward /\ UNCHANGED historyVars /\ JobInv'
    BY <1>11 DEF vars, jobVars, JobInv, Forward
  <2>. QED BY <2>1, HistoryUntouched
<1>. QED BY <1>1, <1>2, <1>3, <1>4, <1>5, <1>6, <1>7, <1>8, <1>9, <1>10, <1>11 DEF Next

\* It holds at the start.
LEMMA DashInit == Init => DashInv
  BY DEF Init, InitHistory, DashInv, FileInv, MemoryInv, JobInv

\* History.go's records and file hold only what happened: a promotion record
\* means a gatekeeper promoted that generation, a rejection that one rejected it, a dataset
\* record that its dataset was announced, a training record that a trainer got to its
\* losses, also after torn lines, repeated events and restarts.
THEOREM HistorySoundHolds == Spec => []HistorySound
<1>1. DashInv => HistorySound
  <2>1. SUFFICES ASSUME DashInv, NEW r \in (records \cup Range(file)) \ {Torn} PROVE True(r)
    BY DEF HistorySound, True, Holds, Promoted, Rejected, Trained
  <2>2. Range(file) = {file[i] : i \in 1 .. Len(file)}
    BY <2>1 DEF DashInv, FileInv, Range
  <2>. QED BY <2>1, <2>2 DEF DashInv, FileInv, MemoryInv
<1>. QED BY <1>1, DashInit, DashStep, PTL DEF Spec

\* AdvanceGeneration: "it refuses unless the previous generation was actually
\* promoted and its network file is present on disk", for any interleaving.
THEOREM AdvanceJustifiedHolds == Spec => AdvanceJustified
<1>1. ASSUME DashInv, [Next]_vars, generation' # generation
      PROVE  Promoted(generation' - 1) /\ OnDisk(generation' - 1)
  <2>1. PICK c \in Clients : SetGeneration(c)
    BY <1>1 DEF Next, vars, clusterVars, Arrives, RequestStep, CallFails, CallScale, CheckDataset,
                CheckRunning, CreateTrainer, CreateGate, DatasetAnnounced, TrainerReports,
                TrainerWrites, GateEnds, WatchDataset, FollowTrainer, AwaitGate, RecordPromotion, GivesUp,
                Restart
  <2>2. HasPromotion(generation' - 1) /\ OnDisk(generation' - 1)
    BY <1>1, <2>1 DEF SetGeneration
  <2>3. Promoted(generation' - 1)
    BY <1>1, <2>2 DEF DashInv, MemoryInv, HasPromotion, Has, Rec, True, Holds, Promoted
  <2>. QED BY <2>2, <2>3
<1>. QED BY <1>1, DashInit, DashStep, PTL DEF Spec, AdvanceJustified
-----------------------------------------------------------------------------
(***************************************************************************)
(* What a failed append costs.  A line without its newline will make the   *)
(* next append unreadable, and itself with it if it is a whole record: so  *)
(* much is at stake, and the failure that left it there has paid for it.   *)
(***************************************************************************)
AtStake == IF ~open THEN 0 ELSE IF file[Len(file)] = Torn THEN 1 ELSE 2

Lines == file \in Seq(Records \cup {Torn}) /\ open \in BOOLEAN /\ (open => Len(file) # 0)

Balance ==
    /\ appends \in Nat /\ failures \in Nat /\ Intact \in Nat /\ AtStake \in 0 .. 2
    /\ appends + AtStake <= Intact + failures

Ledger == Lines /\ Balance

IntactLines(f) == {i \in DOMAIN f : f[i] # Torn}

\* The intact lines of a file can be counted.
LEMMA IntactFinite ==
    ASSUME NEW f \in Seq(Records \cup {Torn})
    PROVE  IsFiniteSet(IntactLines(f)) /\ Cardinality(IntactLines(f)) \in Nat
<1>1. IsFiniteSet(1 .. Len(f)) /\ IntactLines(f) \subseteq 1 .. Len(f)
  BY FS_Interval DEF IntactLines
<1>. QED BY <1>1, FS_Subset, FS_CardinalityType

\* An appended line counts unless it is torn.
LEMMA IntactAppended ==
    ASSUME NEW f \in Seq(Records \cup {Torn}), NEW l \in Records \cup {Torn}
    PROVE  Cardinality(IntactLines(Append(f, l)))
             = Cardinality(IntactLines(f)) + (IF l = Torn THEN 0 ELSE 1)
<1>1. /\ DOMAIN f = 1 .. Len(f) /\ DOMAIN Append(f, l) = 1 .. (Len(f) + 1) /\ Len(f) \in Nat
      /\ \A i \in 1 .. Len(f) : Append(f, l)[i] = f[i]
      /\ Append(f, l)[Len(f) + 1] = l
  OBVIOUS
<1>2. IntactLines(Append(f, l))
        = IF l = Torn THEN IntactLines(f) ELSE IntactLines(f) \cup {Len(f) + 1}
  BY <1>1 DEF IntactLines
<1>3. Len(f) + 1 \notin IntactLines(f)
  BY <1>1 DEF IntactLines
<1>4. IsFiniteSet(IntactLines(f)) /\ Cardinality(IntactLines(f)) \in Nat
  BY IntactFinite
<1>5. Cardinality(IntactLines(f) \cup {Len(f) + 1}) = Cardinality(IntactLines(f)) + 1
  BY <1>3, <1>4, FS_AddElement
<1>. QED BY <1>2, <1>4, <1>5

\* The last line, torn by what is appended to it, counts no more.
LEMMA IntactJoined ==
    ASSUME NEW f \in Seq(Records \cup {Torn}), Len(f) # 0
    PROVE  Cardinality(IntactLines(f))
             = Cardinality(IntactLines([f EXCEPT ![Len(f)] = Torn])) + (IF f[Len(f)] = Torn THEN 0 ELSE 1)
<1>. DEFINE g == [f EXCEPT ![Len(f)] = Torn]
<1>1. DOMAIN f = 1 .. Len(f) /\ DOMAIN g = 1 .. Len(f) /\ Len(f) \in 1 .. Len(f)
      /\ g[Len(f)] = Torn /\ \A i \in 1 .. Len(f) : i # Len(f) => g[i] = f[i]
  OBVIOUS
<1>2. IntactLines(g) = IntactLines(f) \ {Len(f)}
  BY <1>1 DEF IntactLines
<1>3. f[Len(f)] # Torn <=> Len(f) \in IntactLines(f)
  BY <1>1 DEF IntactLines
<1>4. IsFiniteSet(IntactLines(g)) /\ Cardinality(IntactLines(g)) \in Nat
  <2>1. g \in Seq(Records \cup {Torn})
    OBVIOUS
  <2>. QED BY <2>1, IntactFinite
<1>5. CASE f[Len(f)] = Torn
  <2>1. IntactLines(g) = IntactLines(f)
    BY <1>2, <1>3, <1>5
  <2>. QED BY <1>4, <1>5, <2>1
<1>6. CASE f[Len(f)] # Torn
  <2>1. IntactLines(f) = IntactLines(g) \cup {Len(f)} /\ Len(f) \notin IntactLines(g)
    BY <1>2, <1>3, <1>6
  <2>2. Cardinality(IntactLines(g) \cup {Len(f)}) = Cardinality(IntactLines(g)) + 1
    BY <1>4, <2>1, FS_AddElement
  <2>. QED BY <1>6, <2>1, <2>2
<1>. QED BY <1>5, <1>6

\* What writing does to the count and to what is at stake.
LEMMA WriteCounted ==
    ASSUME Lines, NEW r \in Records, WriteLine(r) \/ WritePart(r)
    PROVE  /\ Lines'
           /\ Intact \in Nat /\ Intact' \in Nat /\ AtStake \in 0 .. 2 /\ AtStake' \in 0 .. 2
           /\ WriteLine(r) => Intact' + AtStake = Intact + AtStake' + 1
           /\ WritePart(r) => Intact' + AtStake + 1 >= Intact + AtStake'
<1>1. Intact = Cardinality(IntactLines(file)) /\ Intact' = Cardinality(IntactLines(file'))
  BY DEF Intact, IntactLines
<1>2. r # Torn
  BY HistoryConstants
<1>3. AtStake \in 0 .. 2 /\ AtStake' \in 0 .. 2
  BY DEF AtStake
<1>4. file \in Seq(Records \cup {Torn})
  BY DEF Lines
<1>5. CASE open
  <2>1. file' = [file EXCEPT ![Len(file)] = Torn] /\ Len(file) # 0
    BY <1>5 DEF WriteLine, WritePart, Lines
  <2>2. /\ file' \in Seq(Records \cup {Torn}) /\ Len(file') = Len(file)
        /\ file'[Len(file)] = Torn
    BY <1>4, <2>1
  <2>3. Cardinality(IntactLines(file))
          = Cardinality(IntactLines(file')) + (IF file[Len(file)] = Torn THEN 0 ELSE 1)
    BY <1>4, <2>1, IntactJoined
  <2>4. Intact \in Nat /\ Intact' \in Nat
    BY <1>1, <1>4, <2>2, IntactFinite
  <2>5. AtStake = IF file[Len(file)] = Torn THEN 1 ELSE 2
    BY <1>5 DEF AtStake
  <2>6. Intact' + AtStake = Intact + 1
    BY <1>1, <2>3, <2>4, <2>5
  <2>7. (WriteLine(r) => AtStake' = 0) /\ (WritePart(r) => AtStake' = 1)
    BY <2>2 DEF WriteLine, WritePart, AtStake
  <2>8. Lines'
    BY <2>1, <2>2 DEF Lines, WriteLine, WritePart
  <2>9. WriteLine(r) => Intact' + AtStake = Intact + AtStake' + 1
    <3>1. SUFFICES ASSUME WriteLine(r) PROVE Intact + 1 = Intact + AtStake' + 1
      BY <2>6
    <3>. QED BY <2>4, <2>7, <3>1
  <2>10. WritePart(r) => Intact' + AtStake + 1 >= Intact + AtStake'
    <3>1. SUFFICES ASSUME WritePart(r) PROVE Intact + 1 + 1 >= Intact + AtStake'
      BY <2>6
    <3>. QED BY <2>4, <2>7, <3>1
  <2>. QED BY <1>3, <2>4, <2>8, <2>9, <2>10
<1>6. CASE ~open
  <2>1. PICK l \in {r, Torn} : file' = Append(file, l) /\ (WriteLine(r) => l = r)
    BY <1>6 DEF WriteLine, WritePart
  <2>2. /\ file' \in Seq(Records \cup {Torn}) /\ Len(file') # 0 /\ file'[Len(file')] = l
    BY <1>4, <2>1
  <2>3. Cardinality(IntactLines(file'))
          = Cardinality(IntactLines(file)) + (IF l = Torn THEN 0 ELSE 1)
    BY <1>4, <2>1, IntactAppended
  <2>4. Intact \in Nat /\ Intact' \in Nat
    BY <1>1, <1>4, <2>2, IntactFinite
  <2>5. AtStake = 0
    BY <1>6 DEF AtStake
  <2>6. Intact' = Intact + (IF l = Torn THEN 0 ELSE 1)
    BY <1>1, <2>3
  <2>7. (WriteLine(r) => AtStake' = 0) /\ (WritePart(r) => AtStake' = IF l = Torn THEN 1 ELSE 2)
    BY <2>2 DEF WriteLine, WritePart, AtStake
  <2>8. Lines'
    BY <2>2 DEF Lines, WriteLine, WritePart
  <2>9. WriteLine(r) => Intact' + AtStake = Intact + AtStake' + 1
    BY <1>2, <2>1, <2>4, <2>5, <2>6, <2>7
  <2>10. WritePart(r) => Intact' + AtStake + 1 >= Intact + AtStake'
    <3>1. SUFFICES ASSUME WritePart(r) PROVE Intact' + 1 >= Intact + AtStake'
      BY <2>4, <2>5
    <3>. QED BY <1>2, <2>4, <2>6, <2>7, <3>1
  <2>. QED BY <1>3, <2>4, <2>8, <2>9, <2>10
<1>. QED BY <1>5, <1>6

\* The sums that a success and a failure leave balanced.
LEMMA Sums ==
    ASSUME NEW a \in Nat, NEW f \in Nat, NEW i \in Nat, NEW j \in Nat, NEW s \in 0 .. 2, NEW t \in 0 .. 2,
           a + s <= i + f
    PROVE  /\ j + s = i + t + 1 => (a + 1) + t <= j + f /\ a + t <= j + (f + 1)
           /\ j + s + 1 >= i + t => a + t <= j + (f + 1)
  OBVIOUS

\* A call of Append keeps the books: a success writes one record, a failure pays one.
LEMMA RecordKeepsLedger ==
    ASSUME Ledger, NEW r \in Records, Record(r)
    PROVE  Ledger'
<1>1. CASE AppendRecord(r)
  <2>1. WriteLine(r) /\ appends' = appends + 1 /\ failures' = failures
    BY <1>1 DEF AppendRecord
  <2>2. Lines' /\ Intact' \in Nat /\ AtStake' \in 0 .. 2
        /\ Intact' + AtStake = Intact + AtStake' + 1
    BY <2>1, WriteCounted DEF Ledger
  <2>3. Balance'
    <3>1. (appends + 1) + AtStake' <= Intact' + failures
      BY <2>2, Sums DEF Ledger, Balance
    <3>2. appends' + AtStake' <= Intact' + failures'
      BY <2>1, <3>1
    <3>3. appends' \in Nat /\ failures' \in Nat
      BY <2>1 DEF Ledger, Balance
    <3>. QED BY <2>2, <3>2, <3>3 DEF Balance
  <2>. QED BY <2>2, <2>3 DEF Ledger
<1>2. CASE AppendFails(r)
  <2>1. appends' = appends /\ failures' = failures + 1
    BY <1>2 DEF AppendFails
  <2>2. CASE UNCHANGED <<file, open>>
    <3>1. Intact' = Intact /\ AtStake' = AtStake /\ Lines'
      BY <2>2 DEF Ledger, Lines, Intact, AtStake
    <3>2. Balance'
      BY <2>1, <3>1 DEF Ledger, Balance
    <3>. QED BY <3>1, <3>2 DEF Ledger
  <2>3. CASE WriteLine(r) \/ WritePart(r)
    <3>1. Lines' /\ Intact' \in Nat /\ AtStake' \in 0 .. 2
      BY <2>3, WriteCounted DEF Ledger
    <3>2. \/ Intact' + AtStake = Intact + AtStake' + 1
          \/ Intact' + AtStake + 1 >= Intact + AtStake'
      BY <2>3, WriteCounted DEF Ledger
    <3>3. appends + AtStake' <= Intact' + (failures + 1)
      BY <3>1, <3>2, Sums DEF Ledger, Balance
    <3>4. appends' + AtStake' <= Intact' + failures'
      BY <2>1, <3>3
    <3>5. appends' \in Nat /\ failures' \in Nat
      BY <2>1 DEF Ledger, Balance
    <3>6. Balance'
      BY <3>1, <3>4, <3>5 DEF Balance
    <3>. QED BY <3>1, <3>6 DEF Ledger
  <2>. QED BY <1>2, <2>2, <2>3 DEF AppendFails
<1>. QED BY <1>1, <1>2 DEF Record

\* The invariant is inductive: nothing else touches the file.
LEMMA LedgerStep == ASSUME Ledger, [Next]_vars PROVE Ledger'
<1>1. ASSUME UNCHANGED <<file, open, appends, failures>> PROVE Ledger'
  BY <1>1 DEF Ledger, Lines, Balance, Intact, AtStake
<1>2. ASSUME \/ \E g \in Gens : WatchDataset(g)
             \/ \E j \in TrainJobs : FollowTrainer(j)
             \/ \E j \in GateJobs : AwaitGate(j) \/ RecordPromotion(j)
      PROVE  Ledger'
  <2>1. \A g \in Gens : Rec("dataset", g, "no") \in Records /\ Rec("training", g, "no") \in Records
                       /\ Rec("promotion", g, "yes") \in Records
    <3>. SUFFICES ASSUME NEW g \in Gens
                  PROVE  /\ Rec("dataset", g, "no") \in Records /\ Rec("training", g, "no") \in Records
                         /\ Rec("promotion", g, "yes") \in Records
      OBVIOUS
    <3>1. Rec("dataset", g, "no") \in Records
      BY DashboardConstants DEF DashboardRecords, Rec
    <3>2. Rec("training", g, "no") \in Records
      BY DashboardConstants DEF DashboardRecords, Rec
    <3>3. Rec("promotion", g, "yes") \in Records
      BY DashboardConstants DEF DashboardRecords, Rec
    <3>. QED BY <3>1, <3>2, <3>3
  <2>2. \A j \in GateJobs : GateRec(j) \in Records
    BY JobsTyped, DashboardConstants DEF DashboardRecords, Rec, GateRec
  <2>3. PICK r \in Records : Record(r)
    BY <1>2, <2>1, <2>2, JobsTyped DEF WatchDataset, FollowTrainer, AwaitGate, RecordPromotion
  <2>. QED BY <2>3, RecordKeepsLedger
<1>3. ASSUME NEW c \in Clients,
             (\E r \in session.asks : Arrives(c, r)) \/ RequestStep(c) \/ CallFails(c)
      PROVE  UNCHANGED historyVars
  BY <1>3 DEF Arrives, RequestStep, CallFails, CallScale, CheckDataset, CheckRunning,
              CreateTrainer, CreateGate, SetGeneration
<1>4. ASSUME \/ \E j \in TrainJobs : TrainerReports(j) \/ TrainerWrites(j)
             \/ \E j \in GateJobs : GateEnds(j)
      PROVE  UNCHANGED historyVars
  BY <1>4 DEF TrainerReports, TrainerWrites, GateEnds
<1>5. ASSUME DatasetAnnounced \/ (\E f \in followers : GivesUp(f)) \/ UNCHANGED vars
      PROVE  UNCHANGED historyVars
  BY <1>5 DEF DatasetAnnounced, GivesUp, vars
<1>6. CASE Restart
  BY <1>1, <1>6 DEF Restart, NewHistory
<1>. QED BY <1>1, <1>2, <1>3, <1>4, <1>5, <1>6 DEF Next, historyVars

\* history.go Append: whatever fails and whenever the dashboard restarts, the records
\* that can be read again fall short of the calls that succeeded by no more than the
\* calls that failed.
THEOREM LossBoundedHolds == Spec => []LossBounded
<1>1. ASSUME Init PROVE Ledger
  <2>1. file = <<>> /\ open = FALSE /\ appends = 0 /\ failures = 0
    BY <1>1 DEF Init, InitHistory
  <2>2. file \in Seq(Records \cup {Torn}) /\ AtStake = 0
    BY <2>1 DEF AtStake
  <2>3. Intact \in Nat
    BY <2>2, IntactFinite DEF Intact, IntactLines
  <2>4. Lines
    BY <2>1, <2>2 DEF Lines
  <2>5. Balance
    BY <2>1, <2>2, <2>3 DEF Balance
  <2>. QED BY <2>4, <2>5 DEF Ledger
<1>2. Ledger => LossBounded
  BY DEF Ledger, Balance, LossBounded
<1>. QED BY <1>1, <1>2, LedgerStep, PTL DEF Spec
=============================================================================
