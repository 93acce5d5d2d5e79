---------------------------- MODULE Play_proofs -----------------------------
(***************************************************************************)
(* Proofs about the two programs a game is played with: the engine behind  *)
(* UCI, and the bot's stream of one game.                                  *)
(***************************************************************************)
EXTENDS Uci, GameStream, SequenceTheorems, TLAPS

-----------------------------------------------------------------------------
(***************************************************************************)
(* Uci, for every number of threads, slots and positions and without the   *)
(* bounds on commands and table calls.                                     *)
(*                                                                         *)
(* The argument for the table: an entry's combined word is written whole,  *)
(* from a key and the entry made for that key under the present evaluator, *)
(* so whoever finds that word to match the data it loaded has that entry.  *)
(* The evaluator changes only while no thread is inside the table, because *)
(* the reader acts only once the runner has passed wg.Wait and reported.   *)
(***************************************************************************)
\* A combined word, and the entry a Store is given, belong to their position
\* and to the present evaluator.
WordsInv ==
    /\ \A s \in Slot : keyx[s] \in Words =>
          keyx[s].data.of = keyx[s].key /\ keyx[s].data.by = evaluator
    /\ \A t \in Threads : op[t] \in Calls =>
          /\ op[t].new \in Entry =>
                op[t].new.of = op[t].key /\ op[t].new.by = evaluator
          /\ op[t].pc \in {"write", "write2"} => op[t].new \in Entry

Working == {"begin", "spawn", "search", "join", "report"}

\* What the place the runner is at says of the flags and of the threads.
RunnerInv ==
    /\ searching <=> runner \in Working \cup {"unset"}
    /\ done => runner = "none"
    /\ owed = IF runner \in Working THEN 1 ELSE 0
    /\ runner \notin {"search", "join"} =>
          \A t \in Threads : thread[t].phase = "off"

\* Only running threads are inside the table, with the present evaluator.
ThreadInv ==
    \A t \in Threads :
        /\ thread[t].phase # "run" => op[t] = Idle
        /\ thread[t].phase = "run" => thread[t].ev = evaluator

ReaderInv == reader = "act" => runner \in {"close", "none"}

IInv == TypeOK /\ WordsInv /\ RunnerInv /\ ThreadInv /\ ReaderInv

-----------------------------------------------------------------------------
\* A read that finds its words to match has loaded an entry of its own key.
LEMMA MatchIsOwn ==
    ASSUME TableTypeOK, WordsInv, NEW t \in Threads, op[t].pc = "keyx", Hit(op[t])
    PROVE  op[t].seen.of = op[t].key /\ op[t].seen.by = evaluator
<1>1. op[t] \in Calls
  BY DEF TableTypeOK, Idle
<1>2. op[t].seen \in Entry /\ op[t].key \in Keys /\ op[t].slot \in Slot
  BY <1>1 DEF Hit, Matches, Calls
<1>3. keyx[op[t].slot] = [key |-> op[t].key, data |-> op[t].seen]
  BY DEF Hit, Matches, Word
<1>4. keyx[op[t].slot] \in Words
  BY <1>2, <1>3 DEF Words
<1> QED
  BY <1>2, <1>3, <1>4 DEF WordsInv

\* The invariant implies what the run checks.
LEMMA IInvImplies == IInv => TypeOK /\ AnsweredInOrder /\ HitIsOwn /\ HitIsCurrent
<1> SUFFICES ASSUME IInv PROVE AnsweredInOrder /\ HitIsOwn /\ HitIsCurrent
  BY DEF IInv
<1>1. AnsweredInOrder
  BY DEF IInv, AnsweredInOrder, RunnerInv, ThreadInv, ReaderInv, Working
<1>2. HitIsOwn /\ HitIsCurrent
  BY MatchIsOwn DEF IInv, TypeOK, HitIsOwn, HitIsCurrent
<1> QED
  BY <1>1, <1>2

\* It holds at the start.
LEMMA InitHolds == Init => IInv
<1> SUFFICES ASSUME Init PROVE IInv
  OBVIOUS
<1> USE MainAssumption, HCEAssumption, MaxDepthAssumption, SlotsAssumption
<1>1. TableTypeOK
  BY DEF Init, TableInit, TableTypeOK
<1>2. TypeOK
  <2>1. Off \in [phase : Phases, depth : 0..MaxDepth, ev : Evaluators]
    BY DEF Off, Phases
  <2>2. command \in Commands \cup {NoCommand}
    BY DEF Init
  <2>3. thread \in [Threads -> [phase : Phases, depth : 0..MaxDepth, ev : Evaluators]]
    BY <2>1 DEF Init
  <2>4. helpers \subseteq Threads \ {Main}
    BY DEF Init
  <2>5. /\ searching \in BOOLEAN /\ cancelled \in BOOLEAN /\ done \in BOOLEAN
        /\ stopped \in BOOLEAN /\ infinite \in BOOLEAN /\ expired \in BOOLEAN
    BY Zenon DEF Init
  <2>6. commands \in Nat /\ probes \in Nat /\ stores \in Nat /\ owed \in Int
    BY DEF Init
  <2>7. reader = "ready" /\ runner = "none" /\ evaluator \in Evaluators
    BY DEF Init
  <2> QED
    BY <1>1, <2>2, <2>3, <2>4, <2>5, <2>6, <2>7 DEF TypeOK
<1>3. WordsInv
  <2>1. Idle \notin Calls
    BY DEF Idle, Calls
  <2>2. Empty \notin Words
    BY DEF Empty, Words
  <2> QED
    BY <2>1, <2>2 DEF Init, TableInit, WordsInv
<1>4. RunnerInv
  BY DEF Init, RunnerInv, Off, Working
<1>5. ThreadInv /\ ReaderInv
  BY DEF Init, TableInit, ThreadInv, ReaderInv, Off
<1> QED
  BY <1>2, <1>3, <1>4, <1>5 DEF IInv

-----------------------------------------------------------------------------
\* The steps of the table, taken by a thread under an unchanging evaluator.
TableKept == TableTypeOK /\ WordsInv

\* What a step of thread t leaves alone.
OthersKept(t, o, oNext) == \A u \in Threads \ {t} : oNext[u] = o[u]

\* A call that begins keeps the table and the other calls.
LEMMA CallStarts ==
    ASSUME TableKept, UNCHANGED evaluator, NEW t \in Threads, NEW k \in Keys,
           \/ StartProbe(t, k)
           \/ \E d \in Depths, b \in Bounds : StartStore(t, k, evaluator, d, b),
           evaluator \in Evaluators
    PROVE  TableKept' /\ OthersKept(t, op, op')
<1> USE DepthsAssumption, SlotsAssumption
<1>1. PICK new \in Entry \cup {Empty} :
         /\ op' = [op EXCEPT ![t] = Call(k, new)]
         /\ new \in Entry => new.of = k /\ new.by = evaluator
         /\ UNCHANGED <<keyx, data, gen>>
  <2>1. CASE StartProbe(t, k)
    <3>1. Empty \notin Entry
      BY DEF Empty, Entry
    <3> QED
      BY <2>1, <3>1 DEF StartProbe
  <2>2. CASE \E d \in Depths, b \in Bounds : StartStore(t, k, evaluator, d, b)
    <3>1. PICK d \in Depths, b \in Bounds : StartStore(t, k, evaluator, d, b)
      BY <2>2
    <3> DEFINE e == [of |-> k, by |-> evaluator, depth |-> d, bound |-> b,
                     gen |-> PackedGen(CurrentGen)]
    <3>2. PackedGen(CurrentGen) \in 0..(PackedGens - 1)
      BY DEF TableKept, TableTypeOK, PackedGen, CurrentGen, PackedGens, GenWidth
    <3>3. e \in Entry
      BY <3>2 DEF Entry
    <3> QED
      BY <3>1, <3>3 DEF StartStore
  <2> QED
    BY <2>1, <2>2
<1>2. Call(k, new) \in Calls
  BY DEF Call, Calls, NoValue, Slot
<1>3. TableTypeOK'
  BY <1>1, <1>2 DEF TableKept, TableTypeOK
<1>4. Call(k, new).new = new /\ Call(k, new).key = k /\ Call(k, new).pc = "data"
  BY DEF Call
<1>5. WordsInv'
  BY <1>1, <1>4 DEF TableKept, TableTypeOK, WordsInv
<1> QED
  BY <1>1, <1>3, <1>5 DEF TableKept, TableTypeOK, OthersKept

\* A call goes on: only the place it is at changes, never what it stores.
LEMMA CallGoesOn ==
    ASSUME TableKept, UNCHANGED evaluator, NEW t \in Threads, NEW o,
           UNCHANGED <<keyx, data, gen>>,
           op' = [op EXCEPT ![t] = o],
           \/ o = Idle
           \/ /\ o \in Calls /\ op[t] \in Calls
              /\ o.new = op[t].new /\ o.key = op[t].key
              /\ o.pc \in {"write", "write2"} => op[t].new \in Entry
    PROVE  TableKept' /\ OthersKept(t, op, op')
<1>1. TableTypeOK'
  BY DEF TableKept, TableTypeOK
<1>2. Idle \notin Calls
  BY DEF Idle, Calls
<1>3. WordsInv'
  BY <1>2 DEF TableKept, TableTypeOK, WordsInv
<1> QED
  BY <1>1, <1>3 DEF TableKept, TableTypeOK, OthersKept

\* A call that goes on to the next slot of the bucket is a call.
LEMMA NextSlotIsCall ==
    ASSUME NEW o \in Calls, o.slot # Slots
    PROVE  /\ NextSlot(o) \in Calls
           /\ NextSlot(o).new = o.new
           /\ NextSlot(o).key = o.key
           /\ NextSlot(o).pc = "data"
<1> DEFINE next == o.slot + 1
<1>1. next \in Slot
  BY SlotsAssumption DEF Calls, Slot
<1>2. NextSlot(o) = [o EXCEPT !.pc = "data", !.slot = next, !.seen = Empty]
  BY DEF NextSlot
<1> HIDE DEF next
<1> QED
  BY <1>1, <1>2 DEF Calls

\* A step of a call keeps the table and the other calls.
LEMMA TableSteps ==
    ASSUME TableKept, UNCHANGED evaluator, NEW t \in Threads, TableStep(t)
    PROVE  TableKept' /\ OthersKept(t, op, op') /\ op[t] # Idle
<1> USE SlotsAssumption
<1>0. op[t] \in Calls \cup {Idle}
  BY DEF TableKept, TableTypeOK
<1>1. op[t] # Idle /\ op[t] \in Calls
  BY <1>0 DEF TableStep, LoadData, ProbeSlot, StoreSlot, WriteKeyx, WriteData, Idle
<1>2. CASE LoadData(t)
  <2> DEFINE o == [op[t] EXCEPT !.pc = "keyx", !.seen = data[op[t].slot]]
  <2>1. data[op[t].slot] \in Entry \cup {Empty}
    BY <1>1 DEF TableKept, TableTypeOK, Calls
  <2>2. o \in Calls /\ o.new = op[t].new /\ o.key = op[t].key /\ o.pc = "keyx"
    BY <1>1, <2>1 DEF Calls
  <2>3. op' = [op EXCEPT ![t] = o]
    BY <1>2 DEF LoadData, TableKept, TableTypeOK
  <2> QED
    BY <1>1, <1>2, <2>2, <2>3, CallGoesOn DEF LoadData
<1>3. CASE ProbeSlot(t)
  <2>1. CASE Hit(op[t]) \/ op[t].slot = Slots
    BY <1>1, <1>3, <2>1, CallGoesOn DEF ProbeSlot
  <2>2. CASE ~(Hit(op[t]) \/ op[t].slot = Slots)
    <3> DEFINE o == NextSlot(op[t])
    <3>1. o \in Calls /\ o.new = op[t].new /\ o.key = op[t].key /\ o.pc = "data"
      BY <1>1, <2>2, NextSlotIsCall
    <3>2. op' = [op EXCEPT ![t] = o] /\ UNCHANGED <<keyx, data, gen>>
      BY <1>3, <2>2 DEF ProbeSlot
    <3> QED
      BY <1>1, <3>1, <3>2, CallGoesOn
  <2> QED
    BY <2>1, <2>2
<1>4. CASE StoreSlot(t)
  <2>0. op[t].new \in Entry /\ UNCHANGED <<keyx, data, gen>>
    BY <1>1, <1>4 DEF StoreSlot, Calls
  <2> DEFINE takes == op[t].seen = Empty \/ Hit(op[t])
             kept == Hit(op[t]) /\ KeepsDeeper(op[t].seen, op[t].new)
  <2>1. CASE kept
    BY <1>1, <1>4, <2>0, <2>1, CallGoesOn DEF StoreSlot
  <2>2. CASE ~kept /\ takes
    <3> DEFINE o == [op[t] EXCEPT !.pc = "write", !.victim = op[t].slot]
    <3>1. o \in Calls /\ o.new = op[t].new /\ o.key = op[t].key
      BY <1>1 DEF Calls
    <3>2. op' = [op EXCEPT ![t] = o]
      BY <1>4, <2>2 DEF StoreSlot
    <3> QED
      BY <1>1, <2>0, <3>1, <3>2, CallGoesOn
  <2>3. CASE ~takes
    <3> DEFINE v == Valued(op[t])
    <3>1. op[t].seen \in Entry
      BY <1>1, <2>3 DEF Calls
    <3>2. Value(op[t].seen) \in Int
      <4>1. op[t].seen.depth \in 0..255
        BY <3>1, DepthsAssumption DEF Entry
      <4> QED
        BY <4>1 DEF Value
    <3>3. v \in Calls /\ v.new = op[t].new /\ v.key = op[t].key /\ v.slot = op[t].slot
      BY <1>1, <3>2 DEF Valued, Calls
    <3>4. CASE op[t].slot = Slots
      <4> DEFINE o == [v EXCEPT !.pc = "write"]
      <4>1. o \in Calls /\ o.new = op[t].new /\ o.key = op[t].key
        BY <3>3 DEF Calls
      <4>2. op' = [op EXCEPT ![t] = o]
        BY <1>4, <2>3, <3>4 DEF StoreSlot
      <4> HIDE DEF v
      <4> QED
        BY <1>1, <2>0, <4>1, <4>2, CallGoesOn
    <3>5. CASE op[t].slot # Slots
      <4> DEFINE o == NextSlot(v)
      <4>1. op' = [op EXCEPT ![t] = o]
        BY <1>4, <2>3, <3>5 DEF StoreSlot
      <4>2. o \in Calls /\ o.new = op[t].new /\ o.key = op[t].key
        <5> HIDE DEF v
        <5> QED
          BY <3>3, <3>5, NextSlotIsCall
      <4> HIDE DEF v
      <4> QED
        BY <1>1, <2>0, <4>1, <4>2, CallGoesOn
    <3> QED
      BY <3>4, <3>5
  <2> QED
    BY <2>1, <2>2, <2>3
<1>5. CASE WriteKeyx(t)
  <2>1. op[t].new \in Entry /\ op[t].key \in Keys /\ op[t].victim \in Slot
    BY <1>1, <1>5 DEF WriteKeyx, TableKept, WordsInv, Calls
  <2>2. op[t].new.of = op[t].key /\ op[t].new.by = evaluator
    BY <1>1, <2>1 DEF TableKept, WordsInv
  <2> DEFINE w == Word(op[t].key, op[t].new)
             o == [op[t] EXCEPT !.pc = "write2"]
  <2>3. w \in Words /\ w.key = op[t].key /\ w.data = op[t].new
    BY <2>1 DEF Word, Words
  <2>4. o \in Calls /\ o.new = op[t].new /\ o.key = op[t].key
    BY <1>1 DEF Calls
  <2>5. /\ op' = [op EXCEPT ![t] = o]
        /\ keyx' = [keyx EXCEPT ![op[t].victim] = w]
        /\ UNCHANGED <<data, gen>>
    BY <1>5 DEF WriteKeyx, TableKept, TableTypeOK
  <2> HIDE DEF w, o
  <2>6. TableTypeOK'
    BY <2>1, <2>3, <2>4, <2>5 DEF TableKept, TableTypeOK
  <2>7. WordsInv'
    <3>1. \A s \in Slot : keyx'[s] \in Words =>
             keyx'[s].data.of = keyx'[s].key /\ keyx'[s].data.by = evaluator
      BY <2>1, <2>2, <2>3, <2>5 DEF TableKept, TableTypeOK, WordsInv
    <3>2. \A u \in Threads : op'[u] \in Calls =>
             /\ op'[u].new \in Entry =>
                   op'[u].new.of = op'[u].key /\ op'[u].new.by = evaluator
             /\ op'[u].pc \in {"write", "write2"} => op'[u].new \in Entry
      BY <1>1, <2>1, <2>2, <2>4, <2>5 DEF TableKept, TableTypeOK, WordsInv
    <3> QED
      BY <3>1, <3>2 DEF WordsInv
  <2> QED
    BY <1>1, <2>5, <2>6, <2>7 DEF TableKept, TableTypeOK, OthersKept
<1>6. CASE WriteData(t)
  <2>1. op[t].new \in Entry /\ op[t].victim \in Slot
    BY <1>1, <1>6 DEF WriteData, TableKept, WordsInv, Calls
  <2>2. TableTypeOK'
    BY <1>6, <2>1 DEF WriteData, TableKept, TableTypeOK
  <2>3. Idle \notin Calls
    BY DEF Idle, Calls
  <2>4. WordsInv'
    BY <1>6, <2>3 DEF WriteData, TableKept, TableTypeOK, WordsInv
  <2> QED
    BY <1>1, <1>6, <2>2, <2>4 DEF WriteData, TableKept, TableTypeOK, OthersKept
<1> QED
  BY <1>1, <1>2, <1>3, <1>4, <1>5, <1>6 DEF TableStep

-----------------------------------------------------------------------------
(* The steps of the reader and of the search. *)

\* So does clearing the table while no call is under way.
LEMMA ClearKeeps ==
    ASSUME TableKept, ClearTable, \A t \in Threads : op[t] = Idle
    PROVE  TableKept'
<1>1. Idle \notin Calls
  BY DEF Idle, Calls
<1>2. Empty \notin Words
  BY DEF Empty, Words
<1>3. TableTypeOK'
  BY DEF ClearTable, TableKept, TableTypeOK
<1>4. WordsInv'
  BY <1>1, <1>2 DEF ClearTable, WordsInv
<1> QED
  BY <1>3, <1>4 DEF TableKept

\* Steps that leave the table alone.
LEMMA TableUntouched ==
    ASSUME TableKept, UNCHANGED <<keyx, data, op, evaluator>>, gen' \in Nat
    PROVE  TableKept'
BY DEF TableKept, TableTypeOK, WordsInv

\* The reader before it acts.
LEMMA ReaderWaits ==
    ASSUME IInv, (\E c \in Commands : Read(c)) \/ SetStopped \/ Cancel \/ AwaitDone
    PROVE  IInv'
<1> USE DEF IInv, TypeOK, readerVars, tableVars, optionVars, flagVars, limitVars,
            searchVars, calls
<1>1. TableKept'
  <2>1. UNCHANGED <<tableVars, evaluator>>
    BY DEF Read, SetStopped, Cancel, AwaitDone
  <2> QED
    BY <2>1, TableUntouched DEF TableKept, TableTypeOK
<1>2. CASE \E c \in Commands : Read(c)
  BY <1>1, <1>2 DEF Read, TableKept, RunnerInv, ThreadInv, ReaderInv, Working
<1>3. CASE SetStopped
  BY <1>1, <1>3 DEF SetStopped, TableKept, RunnerInv, ThreadInv, ReaderInv
<1>4. CASE Cancel
  BY <1>1, <1>4 DEF Cancel, TableKept, RunnerInv, ThreadInv, ReaderInv
<1>5. CASE AwaitDone
  BY <1>1, <1>5 DEF AwaitDone, TableKept, RunnerInv, ThreadInv, ReaderInv
<1> QED
  BY <1>2, <1>3, <1>4, <1>5

\* The reader when it acts: no thread is at work.
LEMMA ReaderActs ==
    ASSUME IInv, Act
    PROVE  IInv'
<1> USE DEF IInv, TypeOK, readerVars, tableVars, optionVars, flagVars, limitVars,
            searchVars, calls
<1>1. /\ reader = "act" /\ runner \in {"close", "none"}
      /\ owed = 0 /\ \A t \in Threads : thread[t].phase = "off" /\ op[t] = Idle
  BY DEF Act, ReaderInv, RunnerInv, ThreadInv, Working
<1>2. reader' \in {"ready", "gone"} /\ command' = NoCommand /\ UNCHANGED <<commands, calls>>
  BY DEF Act
<1>3. CASE Go
  <2>1. TableKept'
    BY <1>3, TableUntouched DEF Go, TableKept, TableTypeOK
  <2>2. TypeOK'
    <3>1. command.infinite \in BOOLEAN
      BY <1>3 DEF Go, Commands, NoCommand
    <3>2. /\ searching' \in BOOLEAN /\ cancelled' \in BOOLEAN /\ done' \in BOOLEAN
          /\ stopped' \in BOOLEAN /\ infinite' \in BOOLEAN /\ expired' \in BOOLEAN
      BY <1>3, <3>1 DEF Go
    <3>3. owed' \in Int
      BY <1>3 DEF Go
    <3>4. UNCHANGED <<helpers, evaluator, thread, commands, probes, stores>>
      BY <1>2, <1>3 DEF Go
    <3>5. runner' = "begin"
      BY <1>3 DEF Go
    <3> QED
      BY <1>2, <2>1, <3>2, <3>3, <3>4, <3>5 DEF TableKept
  <2>3. RunnerInv'
    BY <1>1, <1>3 DEF Go, RunnerInv, Working
  <2>4. ThreadInv' /\ ReaderInv'
    BY <1>1, <1>2, <1>3 DEF Go, ThreadInv, ReaderInv
  <2> QED
    BY <2>1, <2>2, <2>3, <2>4 DEF TableKept
<1>4. CASE NewTable
  <2>1. TableKept'
    BY <1>1, <1>4, ClearKeeps DEF NewTable, TableKept
  <2> QED
    BY <1>1, <1>2, <1>4, <2>1
    DEF NewTable, ClearTable, TableKept, RunnerInv, ThreadInv, ReaderInv
<1>5. CASE SetThreads
  <2>1. TableKept'
    BY <1>5, TableUntouched DEF SetThreads, TableKept, TableTypeOK
  <2>2. helpers' \subseteq Threads \ {Main}
    BY <1>5 DEF SetThreads, Commands, NoCommand
  <2> QED
    BY <1>1, <1>2, <1>5, <2>1, <2>2
    DEF SetThreads, TableKept, RunnerInv, ThreadInv, ReaderInv
<1>6. CASE SetEvaluator
  <2>1. TableKept'
    BY <1>1, <1>6, ClearKeeps DEF SetEvaluator, TableKept
  <2>2. evaluator' \in Evaluators
    BY <1>6 DEF SetEvaluator, Commands, NoCommand
  <2> QED
    BY <1>1, <1>2, <1>6, <2>1, <2>2
    DEF SetEvaluator, ClearTable, TableKept, RunnerInv, ThreadInv, ReaderInv
<1>7. CASE Nothing
  <2>1. TableKept'
    BY <1>7, TableUntouched DEF Nothing, TableKept, TableTypeOK
  <2> QED
    BY <1>1, <1>2, <1>7, <2>1 DEF Nothing, TableKept, RunnerInv, ThreadInv, ReaderInv
<1> QED
  BY <1>3, <1>4, <1>5, <1>6, <1>7 DEF Act

\* The goroutine that runs the search.
LEMMA RunnerSteps ==
    ASSUME IInv, RunnerStep
    PROVE  IInv'
<1> USE MainAssumption, HCEAssumption, MaxDepthAssumption
<1> USE DEF IInv, TypeOK, readerVars, tableVars, optionVars, flagVars, limitVars,
            searchVars, calls
<1>1. TableKept'
  <2>1. UNCHANGED <<keyx, data, op, evaluator>> /\ gen' \in {gen, gen + 1}
    BY DEF RunnerStep, Begin, NewSearch, Spawn, MainDone, Join, Report, Unset, CloseDone
  <2> QED
    BY <2>1, TableUntouched DEF TableKept, TableTypeOK
<1>2. CASE Begin
  BY <1>1, <1>2 DEF Begin, NewSearch, TableKept, RunnerInv, ThreadInv, ReaderInv, Working
<1>3. CASE Spawn
  <2>1. \A t \in Threads : op[t] = Idle
    BY <1>3 DEF Spawn, RunnerInv, ThreadInv
  <2>2. PICK first \in [Threads -> 1..MaxDepth] :
          thread' = [t \in Threads |->
                       IF t \in helpers \cup {Main} THEN Begun(first[t]) ELSE Off]
    BY <1>3 DEF Spawn
  <2>3. \A d \in 1..MaxDepth : Begun(d) \in [phase : Phases, depth : 0..MaxDepth, ev : Evaluators]
    BY DEF Begun, Phases
  <2>4. Off \in [phase : Phases, depth : 0..MaxDepth, ev : Evaluators]
    BY DEF Off, Phases
  <2>5. thread' \in [Threads -> [phase : Phases, depth : 0..MaxDepth, ev : Evaluators]]
    BY <2>2, <2>3, <2>4
  <2>6. ThreadInv'
    BY <1>3, <2>1, <2>2 DEF Spawn, ThreadInv, Begun, Off
  <2> QED
    BY <1>1, <1>3, <2>5, <2>6 DEF Spawn, TableKept, RunnerInv, ReaderInv, Working
<1>4. CASE MainDone
  BY <1>1, <1>4 DEF MainDone, TableKept, RunnerInv, ThreadInv, ReaderInv, Working
<1>5. CASE Join
  <2>1. \A t \in Threads : op[t] = Idle
    BY <1>5 DEF Join, ThreadInv
  <2>2. thread' = [t \in Threads |-> Off]
    BY <1>5 DEF Join
  <2>3. Off \in [phase : Phases, depth : 0..MaxDepth, ev : Evaluators]
    BY DEF Off, Phases
  <2>4. thread' \in [Threads -> [phase : Phases, depth : 0..MaxDepth, ev : Evaluators]]
    BY <2>2, <2>3
  <2>5. \A t \in Threads : thread'[t].phase = "off"
    BY <2>2 DEF Off
  <2> QED
    BY <1>1, <1>5, <2>1, <2>4, <2>5
    DEF Join, TableKept, RunnerInv, ThreadInv, ReaderInv, Working
<1>6. CASE Report
  BY <1>1, <1>6 DEF Report, TableKept, RunnerInv, ThreadInv, ReaderInv, Working
<1>7. CASE Unset
  BY <1>1, <1>7 DEF Unset, TableKept, RunnerInv, ThreadInv, ReaderInv, Working
<1>8. CASE CloseDone
  BY <1>1, <1>8 DEF CloseDone, TableKept, RunnerInv, ThreadInv, ReaderInv, Working
<1> QED
  BY <1>2, <1>3, <1>4, <1>5, <1>6, <1>7, <1>8 DEF RunnerStep

\* The search threads, and the limits of a search.
LEMMA ThreadSteps ==
    ASSUME IInv, NEW t \in Threads,
           CompleteIteration(t) \/ Abort(t) \/ CallProbe(t) \/ CallStore(t) \/ UseTable(t)
    PROVE  IInv'
<1> USE MainAssumption, HCEAssumption, MaxDepthAssumption
<1> USE DEF IInv, TypeOK, readerVars, tableVars, optionVars, flagVars, limitVars,
            searchVars, calls
<1>1. CASE CompleteIteration(t) \/ Abort(t)
  <2>1. op[t] = Idle /\ thread[t].phase = "run" /\ UNCHANGED <<tableVars, evaluator>>
    BY <1>1 DEF CompleteIteration, Abort
  <2>2. TableKept'
    BY <2>1, TableUntouched DEF TableKept, TableTypeOK
  <2>3. PICK d \in 0..MaxDepth, p \in {"run", "over"}, e \in Evaluators :
          /\ thread' = [thread EXCEPT ![t] = [phase |-> p, depth |-> d, ev |-> e]]
          /\ p = "run" => e = thread[t].ev
    <3>1. CASE Over(t)
      <4>1. [Off EXCEPT !.phase = "over"] = [phase |-> "over", depth |-> 0, ev |-> HCE]
        BY DEF Off
      <4>2. thread' = [thread EXCEPT ![t] = [phase |-> "over", depth |-> 0, ev |-> HCE]]
        BY <3>1, <4>1 DEF Over
      <4>3. 0 \in 0..MaxDepth
        OBVIOUS
      <4> WITNESS 0 \in 0..MaxDepth, "over" \in {"run", "over"}, HCE \in Evaluators
      <4> QED
        BY <4>2
    <3>2. CASE thread[t].depth < MaxDepth /\ thread' = [thread EXCEPT ![t].depth = @ + 1]
      <4>1. thread[t] \in [phase : Phases, depth : 0..MaxDepth, ev : Evaluators]
        OBVIOUS
      <4> DEFINE d == thread[t].depth + 1
      <4>2. d \in 0..MaxDepth
        BY <3>2, <4>1
      <4>3. [thread[t] EXCEPT !.depth = d] = [phase |-> "run", depth |-> d, ev |-> thread[t].ev]
        BY <2>1, <4>1
      <4>4. thread' = [thread EXCEPT ![t] = [thread[t] EXCEPT !.depth = d]]
        BY <3>2
      <4>5. thread[t].ev \in Evaluators
        BY <4>1
      <4> HIDE DEF d
      <4>6. thread' = [thread EXCEPT ![t] = [phase |-> "run", depth |-> d, ev |-> thread[t].ev]]
        BY <4>3, <4>4
      <4> QED
        BY <4>2, <4>5, <4>6
    <3> QED
      BY <1>1, <3>1, <3>2 DEF CompleteIteration, Abort
  <2>4. thread' \in [Threads -> [phase : Phases, depth : 0..MaxDepth, ev : Evaluators]]
    BY <2>3 DEF Phases
  <2>5. ThreadInv'
    BY <2>1, <2>3 DEF ThreadInv
  <2>6. UNCHANGED <<readerVars, optionVars, flagVars, limitVars, runner, owed, calls>>
    BY <1>1 DEF CompleteIteration, Abort
  <2>7. runner \in {"search", "join"}
    BY <2>1 DEF RunnerInv
  <2>8. RunnerInv' /\ ReaderInv'
    BY <2>6, <2>7 DEF RunnerInv, ReaderInv
  <2> QED
    BY <2>2, <2>4, <2>5, <2>6, <2>8 DEF TableKept
<1>2. CASE CallProbe(t) \/ CallStore(t) \/ UseTable(t)
  <2>1. /\ UNCHANGED <<readerVars, optionVars, flagVars, limitVars, searchVars>>
        /\ probes' \in Nat /\ stores' \in Nat
    BY <1>2 DEF CallProbe, CallStore, UseTable
  <2>2. TableKept' /\ OthersKept(t, op, op') /\ thread[t].phase = "run"
    <3>1. CASE CallProbe(t) \/ CallStore(t)
      <4>1. thread[t].phase = "run" /\ thread[t].ev = evaluator
        BY <3>1 DEF CallProbe, CallStore, ThreadInv
      <4>2. PICK k \in Keys :
              \/ StartProbe(t, k)
              \/ \E d \in Depths, b \in Bounds : StartStore(t, k, evaluator, d, b)
        BY <3>1, <4>1 DEF CallProbe, CallStore
      <4> QED
        BY <2>1, <4>1, <4>2, CallStarts DEF TableKept
    <3>2. CASE UseTable(t)
      <4>1. TableKept' /\ OthersKept(t, op, op') /\ op[t] # Idle
        BY <2>1, <3>2, TableSteps DEF UseTable, TableKept
      <4> QED
        BY <4>1 DEF ThreadInv
    <3> QED
      BY <1>2, <3>1, <3>2
  <2>3. ThreadInv'
    BY <2>1, <2>2 DEF OthersKept, ThreadInv
  <2>4. RunnerInv' /\ ReaderInv'
    BY <2>1 DEF RunnerInv, ReaderInv
  <2> QED
    BY <2>1, <2>2, <2>3, <2>4 DEF TableKept
<1> QED
  BY <1>1, <1>2

\* Every step keeps the invariant.
LEMMA NextKeeps == IInv /\ [Next]_vars => IInv'
<1> SUFFICES ASSUME IInv, [Next]_vars PROVE IInv'
  OBVIOUS
<1> USE DEF readerVars, tableVars, optionVars, flagVars, limitVars, searchVars, calls
<1>1. CASE UNCHANGED vars
  <2>1. TableKept'
    BY <1>1, TableUntouched DEF vars, TableKept, IInv, TypeOK, TableTypeOK
  <2> QED
    BY <1>1, <2>1 DEF vars, TableKept, IInv, TypeOK, RunnerInv, ThreadInv, ReaderInv
<1>2. CASE Expire
  <2>1. TableKept'
    BY <1>2, TableUntouched DEF Expire, TableKept, IInv, TypeOK, TableTypeOK
  <2> QED
    BY <1>2, <2>1 DEF Expire, TableKept, IInv, TypeOK, RunnerInv, ThreadInv, ReaderInv
<1> QED
  BY <1>1, <1>2, ReaderWaits, ReaderActs, RunnerSteps, ThreadSteps DEF Next, ReaderStep

\* The inductive invariant holds in every reachable state.
THEOREM IInvHolds == Spec => []IInv
<1> QED
  BY InitHolds, NextKeeps, PTL DEF Spec

\* Every command takes effect with all searches answered and no thread in the
\* table, however stop, the end of the search and its start interleave.
THEOREM AnswersKeepOrder == Spec => []AnsweredInOrder
<1> QED
  BY IInvHolds, IInvImplies, PTL

\* Lockless hashing is sound: no interleaving of any number of threads gives a
\* reader the entry of another position.
THEOREM LocklessSound == Spec => []HitIsOwn
<1> QED
  BY IInvHolds, IInvImplies, PTL

\* Clearing the table with the evaluator is enough: no thread ever takes a score
\* of an evaluator that was replaced, as none outlives the command that replaces it.
THEOREM ScoresStayCurrent == Spec => []HitIsCurrent
<1> QED
  BY IInvHolds, IInvImplies, PTL

-----------------------------------------------------------------------------
(***************************************************************************)
(* GameStream: the bot plays a move in the position it was searched in,    *)
(* for a game of any length and any number of broken streams, failed       *)
(* requests, lost replies and states sent again.                           *)
(***************************************************************************)
\* A move is being searched or posted.
Active == pc \in {"searching", "posting", "limited", "reposting"}

\* No turn of ours up to q has been sent again on this stream.
Clean(q) == \A a \in again : Ours(a) => q < a

\* The line asks for a move, in a turn of ours that was not sent again.
Asks(i) == ~lines[i].fin /\ Ours(lines[i].ply) /\ Clean(lines[i].ply)

LineSet == [full : BOOLEAN, ply : Nat, fin : BOOLEAN]

StreamTypes ==
    /\ ply \in Nat /\ ours \in {0, 1} /\ chosen \in Nat /\ again \in SUBSET Nat
    /\ lines \in Seq(LineSet)
    /\ conn \in {"none", "open", "closed", "broken"}

Connected == (conn # "none" => pc = "reading" \/ Active) /\ (conn = "none" => lines = <<>>)

\* Lines come in the order of the game, and none from its future.
Ordered ==
    /\ \A i \in 1 .. Len(lines) : lines[i].ply <= ply
    /\ \A i, j \in 1 .. Len(lines) : i <= j => lines[i].ply <= lines[j].ply

\* A line that asks is about the position on the board, is the only one that
\* does, and is read when no other move is being worked on.
AsksOnce ==
    \A i \in 1 .. Len(lines) : Asks(i) =>
        /\ pc = "reading" /\ lines[i].ply = ply
        /\ \A j \in 1 .. Len(lines) : Asks(j) => i = j

\* The move being worked on is for the position on the board, unless a turn of
\* ours up to it was sent again.
ChosenHere == Active => Ours(chosen) /\ chosen <= ply /\ (Clean(chosen) => chosen = ply)

StreamInv == StreamTypes /\ Connected /\ Ordered /\ AsksOnce /\ ChosenHere

\* Turns alternate.
LEMMA TurnsAlternate ==
    ASSUME NEW p \in Nat, ours \in {0, 1}
    PROVE  Ours(p) <=> ~Ours(p + 1)
  BY DEF Ours

\* A turn sent again stays so, and a turn before a clean one is clean.
LEMMA CleanBelow ==
    ASSUME again \in SUBSET Nat, NEW p \in Nat, NEW q \in Nat, q <= p, Clean(p)
    PROVE  Clean(q)
  BY DEF Clean

\* The type of what is on the stream.
LEMMA LinesTyped ==
    ASSUME lines \in Seq(LineSet)
    PROVE  Len(lines) \in Nat /\ \A i \in 1 .. Len(lines) : lines[i] \in LineSet /\ lines[i].ply \in Nat
<1>1. Len(lines) \in Nat /\ \A i \in 1 .. Len(lines) : lines[i] \in LineSet
  OBVIOUS
<1>2. \A l \in LineSet : l.ply \in Nat
  BY DEF LineSet
<1>. QED BY <1>1, <1>2

\* A line that is sent comes last on an open stream, and is lost on any other.
Sends(l) == conn' = conn /\ lines' = IF conn = "open" THEN Append(lines, l) ELSE lines

\* What a new line on the stream is.
LEMMA Sent ==
    ASSUME lines \in Seq(LineSet), NEW l \in LineSet, Sends(l)
    PROVE  /\ lines' \in Seq(LineSet) /\ conn' = conn /\ Len(lines) \in Nat
           /\ \/ lines' = lines
              \/ /\ conn = "open" /\ Len(lines') = Len(lines) + 1
                 /\ \A i \in 1 .. Len(lines) : lines'[i] = lines[i]
                 /\ lines'[Len(lines) + 1] = l
<1>1. CASE conn = "open"
  BY <1>1 DEF Sends
<1>2. CASE conn # "open"
  BY <1>2 DEF Sends
<1>. QED BY <1>1, <1>2

\* Tell sends one line.
LEMMA Tells ==
    ASSUME NEW p \in Nat, NEW fin \in BOOLEAN, Tell(p, fin)
    PROVE  \E l \in LineSet : Sends(l) /\ l.ply = p /\ l.fin = fin
<1>1. Line(FALSE, p, fin) \in LineSet
  BY DEF Line, LineSet
<1>2. Line(FALSE, p, fin).ply = p /\ Line(FALSE, p, fin).fin = fin
  BY DEF Line
<1>3. Sends(Line(FALSE, p, fin))
  BY DEF Tell, Sends
<1>. QED BY <1>1, <1>2, <1>3

\* The order of the lines survives one about the position then on the board.
LEMMA SentInOrder ==
    ASSUME StreamTypes, Ordered, ply' \in Nat, ply <= ply', NEW l \in LineSet, Sends(l), l.ply = ply'
    PROVE  Ordered'
<1>1. Len(lines) \in Nat /\ \A i \in 1 .. Len(lines) : lines[i].ply \in Nat /\ lines[i].ply <= ply'
  BY LinesTyped DEF StreamTypes, Ordered
<1>2. CASE lines' = lines
  BY <1>1, <1>2 DEF Ordered
<1>3. CASE lines' # lines
  <2>1. /\ Len(lines') = Len(lines) + 1 /\ lines'[Len(lines) + 1].ply = ply'
        /\ \A i \in 1 .. Len(lines) : lines'[i] = lines[i]
    BY <1>3, Sent DEF StreamTypes
  <2>2. \A i \in 1 .. Len(lines') : i \in 1 .. Len(lines) \/ i = Len(lines) + 1
    BY <1>1, <2>1
  <2>3. \A i \in 1 .. Len(lines') : lines'[i].ply \in Nat /\ lines'[i].ply <= ply'
    BY <1>1, <2>1, <2>2
  <2>4. ASSUME NEW i \in 1 .. Len(lines'), NEW j \in 1 .. Len(lines'), i <= j
        PROVE  lines'[i].ply <= lines'[j].ply
    <3>1. CASE j = Len(lines) + 1
      BY <2>1, <2>3, <3>1
    <3>2. CASE j \in 1 .. Len(lines)
      <4>1. i \in 1 .. Len(lines)
        BY <1>1, <2>4, <3>2
      <4>. QED BY <2>1, <2>4, <3>2, <4>1 DEF Ordered
    <3>. QED BY <2>2, <3>1, <3>2
  <2>. QED BY <2>3, <2>4 DEF Ordered
<1>. QED BY <1>2, <1>3

\* The stream is given up, and with it what was sent on it.
LEMMA Dropped ==
    ASSUME StreamInv, Drop, ply' \in Nat, UNCHANGED <<ours, chosen>>, ~Active'
    PROVE  StreamInv'
<1>1. conn' = "none" /\ lines' = <<>> /\ again' = {} /\ Len(lines') = 0
  BY DEF Drop
<1>2. StreamTypes'
  BY <1>1 DEF StreamInv, StreamTypes
<1>. QED BY <1>1, <1>2 DEF StreamInv, Connected, Ordered, AsksOnce, ChosenHere

\* A step that touches neither the stream nor the choice keeps the invariant.
LEMMA StreamUntouched ==
    ASSUME StreamInv, UNCHANGED <<ply, ours, chosen, streamVars>>,
           pc' = pc \/ (Active /\ Active')
    PROVE  StreamInv'
<1>1. StreamTypes' /\ Ordered' /\ Connected'
  BY DEF StreamInv, StreamTypes, Ordered, Connected, streamVars, Active
<1>2. AsksOnce'
  <2>1. \A i : Asks(i)' <=> Asks(i)
    BY DEF Asks, Clean, Ours, streamVars
  <2>. QED BY <2>1 DEF StreamInv, AsksOnce, streamVars, Active
<1>3. ChosenHere'
  BY DEF StreamInv, ChosenHere, Clean, Ours, streamVars, Active
<1>. QED BY <1>1, <1>2, <1>3 DEF StreamInv

\* No line asks for a move when it is not our turn, or a move is being worked on.
LEMMA NoneAsks ==
    ASSUME StreamInv, ~Ours(ply) \/ Active
    PROVE  \A i \in 1 .. Len(lines) : ~Asks(i)
  BY DEF StreamInv, AsksOnce, Asks, Active

\* The game moves on: by the opponent, or by the move posted.
LEMMA Advanced ==
    ASSUME StreamInv, Advance, again' = again, chosen' = chosen,
           \/ ~Ours(ply) /\ pc' = pc
           \/ Ours(ply) /\ Active /\ pc' = "reading"
    PROVE  StreamInv'
<1>. DEFINE Fin == (ply + 1 = MaxPly)
<1>1. ply' = ply + 1 /\ ours' = ours /\ ply \in Nat /\ ours \in {0, 1}
  BY DEF Advance, StreamInv, StreamTypes
<1>2. PICK l \in LineSet : Sends(l) /\ l.ply = ply'
  <2>1. Tell(ply + 1, Fin) /\ Fin \in BOOLEAN
    BY DEF Advance
  <2>. HIDE DEF Fin
  <2>. QED BY <1>1, <2>1, Tells
<1>3. StreamTypes' /\ Ordered'
  BY <1>1, <1>2, Sent, SentInOrder DEF StreamInv, StreamTypes
<1>4. conn' = conn /\ (conn = "none" => lines' = lines)
  BY <1>2 DEF Sends
<1>5. Connected'
  BY <1>4 DEF StreamInv, Connected, Active
<1>6. \A q : (Ours(q)' <=> Ours(q)) /\ (Clean(q)' <=> Clean(q))
  BY <1>1 DEF Ours, Clean
<1>7. ChosenHere'
  <2>1. SUFFICES ASSUME Active' PROVE Ours(chosen) /\ chosen <= ply + 1 /\ (Clean(chosen) => chosen = ply + 1)
    BY <1>1, <1>6 DEF ChosenHere
  <2>2. Active /\ ~Ours(ply)
    BY <2>1 DEF Active
  <2>. QED BY <1>1, <2>2 DEF StreamInv, StreamTypes, ChosenHere
<1>8. \A i \in 1 .. Len(lines) : ~Asks(i)
  BY NoneAsks
<1>9. AsksOnce'
  <2>1. CASE lines' = lines
    BY <1>6, <1>8, <2>1 DEF AsksOnce, Asks
  <2>2. CASE lines' # lines
    <3>1. /\ conn = "open" /\ Len(lines') = Len(lines) + 1 /\ Len(lines) \in Nat
          /\ \A i \in 1 .. Len(lines) : lines'[i] = lines[i]
          /\ lines'[Len(lines) + 1].ply = ply'
      BY <1>2, <2>2, Sent DEF StreamInv, StreamTypes
    <3>2. \A i \in 1 .. Len(lines') : Asks(i)' => i = Len(lines) + 1
      BY <1>6, <1>8, <3>1 DEF Asks
    <3>3. ASSUME NEW i \in 1 .. Len(lines'), Asks(i)' PROVE pc' = "reading" /\ lines'[i].ply = ply'
      <4>1. lines'[i].ply = ply' /\ Ours(ply + 1) /\ Clean(ply + 1)
        BY <1>1, <1>6, <3>1, <3>2, <3>3 DEF Asks
      <4>2. ~Ours(ply)
        BY <1>1, <4>1, TurnsAlternate
      <4>3. ~Active
        <5>1. SUFFICES ASSUME Active PROVE FALSE
          OBVIOUS
        <5>2. Ours(chosen) /\ chosen \in Nat /\ chosen <= ply + 1
          BY <1>1, <5>1 DEF StreamInv, StreamTypes, ChosenHere
        <5>3. Clean(chosen)
          BY <1>1, <4>1, <5>2, CleanBelow DEF StreamInv, StreamTypes
        <5>. QED BY <4>2, <5>1, <5>2, <5>3 DEF StreamInv, ChosenHere
      <4>. QED BY <3>1, <4>1, <4>2, <4>3 DEF StreamInv, Connected
    <3>. QED BY <3>2, <3>3 DEF AsksOnce
  <2>. QED BY <2>1, <2>2
<1>. QED BY <1>3, <1>5, <1>7, <1>9 DEF StreamInv

\* The end of the game is told in a line that does not ask.
LEMMA Ended ==
    ASSUME StreamInv, EndGame
    PROVE  StreamInv'
<1>1. ply' = ply /\ ply \in Nat /\ UNCHANGED <<ours, pc, chosen, again>>
  BY DEF EndGame, StreamInv, StreamTypes
<1>2. PICK l \in LineSet : Sends(l) /\ l.ply = ply /\ l.fin = TRUE
  <2>1. Tell(ply, TRUE)
    BY DEF EndGame
  <2>. QED BY <1>1, <2>1, Tells
<1>3. StreamTypes' /\ Ordered'
  BY <1>1, <1>2, Sent, SentInOrder DEF StreamInv, StreamTypes
<1>4. conn' = conn /\ (conn = "none" => lines' = lines)
  BY <1>2 DEF Sends
<1>5. \A q : (Ours(q)' <=> Ours(q)) /\ (Clean(q)' <=> Clean(q))
  BY <1>1 DEF Ours, Clean
<1>6. Connected' /\ ChosenHere'
  BY <1>1, <1>4, <1>5 DEF StreamInv, Connected, ChosenHere, Active
<1>7. \A i \in 1 .. Len(lines') : Asks(i)' => i \in 1 .. Len(lines) /\ Asks(i) /\ lines'[i] = lines[i]
  <2>1. CASE lines' = lines
    BY <1>5, <2>1 DEF Asks
  <2>2. CASE lines' # lines
    <3>1. /\ Len(lines') = Len(lines) + 1 /\ Len(lines) \in Nat
          /\ \A i \in 1 .. Len(lines) : lines'[i] = lines[i]
          /\ lines'[Len(lines) + 1].fin = TRUE
      BY <1>2, <2>2, Sent DEF StreamInv, StreamTypes
    <3>. QED BY <1>5, <3>1 DEF Asks
  <2>. QED BY <2>1, <2>2
<1>8. AsksOnce'
  BY <1>1, <1>7 DEF StreamInv, AsksOnce
<1>. QED BY <1>3, <1>6, <1>8 DEF StreamInv

\* A state sent again in a turn of ours leaves no line of that turn clean.
LEMMA SentAgain ==
    ASSUME StreamInv, SendAgain
    PROVE  StreamInv'
<1>1. ply' = ply /\ ply \in Nat /\ again' = again \cup {ply} /\ UNCHANGED <<ours, pc, chosen>>
  BY DEF SendAgain, StreamInv, StreamTypes, serverVars
<1>2. PICK l \in LineSet : Sends(l) /\ l.ply = ply
  <2>1. Tell(ply, FALSE)
    BY DEF SendAgain
  <2>. QED BY <1>1, <2>1, Tells
<1>3. StreamTypes' /\ Ordered'
  BY <1>1, <1>2, Sent, SentInOrder DEF StreamInv, StreamTypes
<1>4. conn' = conn /\ (conn = "none" => lines' = lines)
  BY <1>2 DEF Sends
<1>5. \A q : (Ours(q)' <=> Ours(q)) /\ (Clean(q)' => Clean(q))
  BY <1>1 DEF Ours, Clean
<1>6. Connected' /\ ChosenHere'
  BY <1>1, <1>4, <1>5 DEF StreamInv, Connected, ChosenHere, Active
<1>7. ASSUME NEW i \in 1 .. Len(lines'), Asks(i)' PROVE FALSE
  <2>. DEFINE q == lines'[i].ply
  <2>1. Ours(q) /\ ~lines'[i].fin /\ \A x \in again' : Ours(x) => q < x
    BY <1>1, <1>7 DEF Asks, Ours, Clean
  <2>2. lines'[i].ply = ply
    <3>1. CASE i \in 1 .. Len(lines) /\ lines'[i] = lines[i]
      <4>1. Asks(i)
        BY <1>1, <2>1, <3>1 DEF Asks, Clean
      <4>. QED BY <3>1, <4>1 DEF StreamInv, AsksOnce
    <3>2. CASE i = Len(lines) + 1 /\ lines'[i] = l
      BY <1>2, <3>2
    <3>3. \/ lines' = lines
          \/ /\ Len(lines') = Len(lines) + 1 /\ lines'[Len(lines) + 1] = l
             /\ \A j \in 1 .. Len(lines) : lines'[j] = lines[j]
      BY <1>2, Sent DEF StreamInv, StreamTypes
    <3>4. Len(lines) \in Nat
      BY LinesTyped DEF StreamInv, StreamTypes
    <3>. QED BY <1>7, <3>1, <3>2, <3>3, <3>4
  <2>. QED BY <1>1, <2>1, <2>2
<1>. QED BY <1>3, <1>6, <1>7 DEF StreamInv, AsksOnce

\* The stream ends, or breaks and loses what was last on it.
LEMMA CutShort ==
    ASSUME StreamInv, CloseStream \/ BreakStream
    PROVE  StreamInv'
<1>1. UNCHANGED <<ply, ours, pc, chosen, again>> /\ conn = "open" /\ conn' \in {"closed", "broken"}
  BY DEF CloseStream, BreakStream, serverVars
<1>2. /\ lines' \in Seq(LineSet) /\ Len(lines') <= Len(lines)
      /\ Len(lines) \in Nat /\ Len(lines') \in Nat
      /\ \A i \in 1 .. Len(lines') : lines'[i] = lines[i]
  <2>1. lines \in Seq(LineSet) /\ Len(lines) \in Nat
    BY LinesTyped DEF StreamInv, StreamTypes
  <2>2. CASE CloseStream
    BY <2>1, <2>2 DEF CloseStream
  <2>3. CASE BreakStream
    <3>1. PICK n \in 0 .. Len(lines) : lines' = SubSeq(lines, 1, n)
      BY <2>3 DEF BreakStream
    <3>. QED BY <2>1, <3>1
  <2>. QED BY <2>2, <2>3
<1>3. StreamTypes' /\ Connected' /\ Ordered' /\ ChosenHere'
  BY <1>1, <1>2 DEF StreamInv, StreamTypes, Connected, Ordered, ChosenHere, Active, Ours, Clean
<1>4. \A i \in 1 .. Len(lines') : i \in 1 .. Len(lines) /\ (Asks(i)' => Asks(i))
  BY <1>1, <1>2 DEF Asks, Ours, Clean
<1>5. AsksOnce'
  BY <1>1, <1>2, <1>4 DEF StreamInv, AsksOnce
<1>. QED BY <1>3, <1>5 DEF StreamInv

\* A line is read: what it asks is chosen, and then no other line asks.
LEMMA LineRead ==
    ASSUME StreamInv, ReadLine
    PROVE  StreamInv'
<1>1. /\ pc = "reading" /\ lines # <<>> /\ lines' = Tail(lines)
      /\ UNCHANGED <<ply, ours, conn, again>>
  BY DEF ReadLine, serverVars
<1>2. /\ lines' \in Seq(LineSet) /\ Len(lines') = Len(lines) - 1 /\ Len(lines) \in Nat \ {0}
      /\ \A i \in 1 .. Len(lines') : lines'[i] = lines[i + 1]
      /\ Head(lines) = lines[1]
  BY <1>1 DEF StreamInv, StreamTypes
<1>3. ply \in Nat /\ chosen \in Nat /\ again \in SUBSET Nat
      /\ \A i \in 1 .. Len(lines) : lines[i].ply \in Nat
  BY LinesTyped DEF StreamInv, StreamTypes
<1>4. \/ pc' = pc /\ chosen' = chosen
      \/ pc' = "searching" /\ chosen' = lines[1].ply /\ Ours(lines[1].ply) /\ ~lines[1].fin
  BY <1>2 DEF ReadLine, MaybeMove
<1>5. StreamTypes' /\ Connected'
  BY <1>1, <1>2, <1>3, <1>4 DEF StreamInv, StreamTypes, Connected, Active
<1>6. Ordered'
  BY <1>1, <1>2 DEF StreamInv, Ordered
<1>7. \A i \in 1 .. Len(lines') : i + 1 \in 1 .. Len(lines) /\ (Asks(i)' => Asks(i + 1))
  BY <1>1, <1>2 DEF Asks, Ours, Clean
<1>8. CASE pc' = pc /\ chosen' = chosen
  <2>1. AsksOnce'
    <3>. SUFFICES ASSUME NEW i \in 1 .. Len(lines'), Asks(i)'
                  PROVE  /\ pc' = "reading" /\ lines'[i].ply = ply'
                         /\ \A j \in 1 .. Len(lines') : Asks(j)' => i = j
      BY DEF AsksOnce
    <3>1. i + 1 \in 1 .. Len(lines) /\ Asks(i + 1) /\ lines'[i] = lines[i + 1]
      BY <1>2, <1>7
    <3>2. \A j \in 1 .. Len(lines') : Asks(j)' => i + 1 = j + 1
      BY <1>7, <3>1 DEF StreamInv, AsksOnce
    <3>. QED BY <1>1, <1>8, <3>1, <3>2 DEF StreamInv, AsksOnce
  <2>2. ChosenHere'
    BY <1>1, <1>8 DEF ChosenHere, Active
  <2>. QED BY <1>5, <1>6, <2>1, <2>2 DEF StreamInv
<1>9. CASE pc' = "searching" /\ chosen' = lines[1].ply /\ Ours(lines[1].ply) /\ ~lines[1].fin
  <2>1. 1 \in 1 .. Len(lines) /\ (Clean(lines[1].ply) => Asks(1))
    BY <1>2, <1>9 DEF Asks
  <2>2. Ours(chosen') /\ chosen' <= ply /\ (Clean(chosen') => chosen' = ply)
    BY <1>9, <2>1 DEF StreamInv, Ordered, AsksOnce
  <2>3. ChosenHere'
    BY <1>1, <2>2 DEF ChosenHere, Ours, Clean
  <2>4. ASSUME NEW i \in 1 .. Len(lines'), Asks(i)' PROVE FALSE
    <3>1. i + 1 \in 1 .. Len(lines) /\ Asks(i + 1)
      BY <1>7, <2>4
    <3>2. Clean(lines[i + 1].ply) /\ lines[1].ply <= lines[i + 1].ply
      BY <2>1, <3>1 DEF Asks, StreamInv, Ordered
    <3>3. Asks(1)
      BY <1>3, <2>1, <3>1, <3>2, CleanBelow
    <3>4. i + 1 = 1
      BY <2>1, <3>1, <3>3 DEF StreamInv, AsksOnce
    <3>. QED BY <3>4
  <2>. QED BY <1>5, <1>6, <2>3, <2>4 DEF StreamInv, AsksOnce
<1>. QED BY <1>4, <1>8, <1>9

\* A stream begins with the whole state.
LEMMA Connects ==
    ASSUME StreamInv, Connect, finished \in BOOLEAN
    PROVE  StreamInv'
<1>1. /\ conn' = "open" /\ again' = {} /\ pc' = "reading"
      /\ UNCHANGED <<ply, ours, chosen>> /\ ply \in Nat
  BY DEF Connect, Goto, serverVars, StreamInv, StreamTypes
<1>2. PICK l \in LineSet : l = Line(TRUE, ply, finished)
  BY <1>1 DEF Line, LineSet
<1>3. l.ply = ply /\ lines' = <<l>>
  BY <1>2 DEF Line, Connect
<1>4. Len(lines') = 1 /\ lines'[1] = l /\ lines' \in Seq(LineSet)
  BY <1>3
<1>5. StreamTypes' /\ Connected' /\ Ordered' /\ ChosenHere'
  BY <1>1, <1>3, <1>4 DEF StreamInv, StreamTypes, Connected, Ordered, ChosenHere, Active
<1>6. AsksOnce'
  BY <1>1, <1>3, <1>4 DEF AsksOnce
<1>. QED BY <1>5, <1>6 DEF StreamInv

\* The type of the flag that ends a game.
LEMMA FinishedType ==
    ASSUME finished \in BOOLEAN, [StreamNext]_allVars
    PROVE  finished' \in BOOLEAN
  BY DEF StreamNext, Player, Lichess, Connect, ConnectFails, Wake, StreamEnds, ReadLine, Search, Posted,
         PostFails, ReplyLost, RateLimited, Repost, StopReading, OpponentMoves, EndGame, SendAgain,
         CloseStream, BreakStream, Stop, AfterStream, Goto, Advance, serverVars, allVars

\* The invariant is inductive.
LEMMA StreamStep ==
    ASSUME StreamInv, finished \in BOOLEAN, [StreamNext]_allVars
    PROVE  StreamInv'
<1>1. ply \in Nat
  BY DEF StreamInv, StreamTypes
<1>2. CASE ConnectFails \/ StreamEnds \/ PostFails \/ StopReading
  <2>1. Drop /\ UNCHANGED <<ply, ours, chosen>>
    BY <1>2 DEF ConnectFails, StreamEnds, PostFails, StopReading, AfterStream, Goto, serverVars
  <2>2. pc' \in {"returned", "waiting", "connecting"}
    BY <1>2 DEF ConnectFails, StreamEnds, PostFails, StopReading, AfterStream, Goto
  <2>. QED BY <1>1, <2>1, <2>2, Dropped DEF Active
<1>3. CASE ReplyLost
  <2>1. Drop /\ ply' = ply + 1 /\ UNCHANGED <<ours, chosen>> /\ pc' \in {"returned", "waiting"}
    BY <1>3 DEF ReplyLost
  <2>. QED BY <1>1, <2>1, Dropped DEF Active
<1>4. CASE Repost
  <2>1. CASE stopping
    <3>1. Drop /\ UNCHANGED <<ply, ours, chosen>> /\ pc' = "returned"
      BY <1>4, <2>1 DEF Repost, Goto, serverVars
    <3>. QED BY <1>1, <3>1, Dropped DEF Active
  <2>2. CASE ~stopping
    <3>1. UNCHANGED <<ply, ours, chosen, streamVars>> /\ pc = "limited" /\ pc' = "reposting"
      BY <1>4, <2>2 DEF Repost, Goto, serverVars
    <3>. QED BY <3>1, StreamUntouched DEF Active
  <2>. QED BY <2>1, <2>2
<1>5. CASE Search \/ RateLimited
  <2>1. /\ UNCHANGED <<ply, ours, chosen, streamVars>>
        /\ pc \in {"searching", "posting"} /\ pc' \in {"posting", "limited"}
    BY <1>5 DEF Search, RateLimited, Goto, serverVars
  <2>. QED BY <2>1, StreamUntouched DEF Active
<1>6. CASE Stop \/ UNCHANGED allVars
  <2>1. UNCHANGED <<ply, ours, chosen, streamVars, pc>>
    BY <1>6 DEF Stop, allVars, serverVars, streamVars
  <2>. QED BY <2>1, StreamUntouched
<1>7. CASE Wake
  <2>1. /\ UNCHANGED <<ply, ours, chosen, streamVars>>
        /\ pc = "waiting" /\ pc' \in {"returned", "connecting"}
    BY <1>7 DEF Wake, Goto, serverVars
  <2>2. conn = "none" /\ lines = <<>> /\ Len(lines) = 0
    BY <2>1 DEF StreamInv, Connected, Active
  <2>. QED BY <2>1, <2>2 DEF StreamInv, StreamTypes, Connected, Ordered, AsksOnce, ChosenHere,
                            streamVars, Active
<1>8. CASE Posted
  <2>1. /\ Advance /\ again' = again /\ chosen' = chosen /\ Ours(ply)
        /\ pc \in {"posting", "reposting"} /\ pc' = "reading"
    BY <1>8 DEF Posted, Takes
  <2>. QED BY <2>1, Advanced DEF Active
<1>9. CASE OpponentMoves
  <2>1. Advance /\ again' = again /\ chosen' = chosen /\ ~Ours(ply) /\ pc' = pc
    BY <1>9 DEF OpponentMoves
  <2>. QED BY <2>1, Advanced
<1>. QED BY <1>2, <1>3, <1>4, <1>5, <1>6, <1>7, <1>8, <1>9, Connects, LineRead, Ended, SentAgain, CutShort
         DEF StreamNext, Player, Lichess

\* The game goes on in a turn of ours by the move posted, and by nothing else.
LEMMA OnlyPosted ==
    ASSUME [StreamNext]_allVars, ply' # ply, Ours(ply)
    PROVE  pc \in {"posting", "reposting"}
<1>1. CASE Posted \/ ReplyLost
  BY <1>1 DEF Posted, ReplyLost
<1>2. CASE ~(Posted \/ ReplyLost)
  BY <1>2 DEF StreamNext, Player, Lichess, Connect, ConnectFails, Wake, StreamEnds, ReadLine, Search,
              PostFails, RateLimited, Repost, StopReading, OpponentMoves, EndGame, SendAgain,
              CloseStream, BreakStream, Stop, AfterStream, Goto, serverVars, allVars
<1>. QED BY <1>1, <1>2

\* maybeMove: the move a position got is played in that position, through reconnects,
\* lost replies, rate limits and lines that wait while a search runs; the one way out
\* is a state of our turn that was sent twice on one stream.
THEOREM AppliedWhereChosenHolds == StreamSpec => AppliedWhereChosen
<1>. DEFINE Safe == StreamInv /\ finished \in BOOLEAN
<1>1. StreamInit => Safe
  <2>. SUFFICES ASSUME StreamInit PROVE StreamInv /\ finished \in BOOLEAN
    OBVIOUS
  <2>1. /\ lines = <<>> /\ Len(lines) = 0 /\ conn = "none" /\ pc = "connecting" /\ again = {}
        /\ ply = 0 /\ chosen = 0 /\ ours \in {0, 1} /\ finished = FALSE
    BY DEF StreamInit
  <2>2. lines \in Seq(LineSet)
    BY <2>1
  <2>3. StreamTypes
    BY <2>1, <2>2 DEF StreamTypes
  <2>4. Connected /\ Ordered /\ AsksOnce /\ ChosenHere
    BY <2>1 DEF Connected, Ordered, AsksOnce, ChosenHere, Active
  <2>5. finished \in BOOLEAN
    BY <2>1
  <2>. QED BY <2>3, <2>4, <2>5 DEF StreamInv
<1>2. ASSUME StreamInv, [StreamNext]_allVars, ply' # ply, Ours(ply)
      PROVE  chosen = ply \/ \E p \in again : Ours(p) /\ p <= chosen
  <2>1. Active
    BY <1>2, OnlyPosted DEF Active
  <2>2. again \in SUBSET Nat /\ chosen \in Nat /\ (Clean(chosen) => chosen = ply)
    BY <1>2, <2>1 DEF StreamInv, StreamTypes, ChosenHere
  <2>3. CASE Clean(chosen)
    BY <2>2, <2>3
  <2>4. CASE ~Clean(chosen)
    <3>1. PICK p \in again : Ours(p) /\ ~(chosen < p)
      BY <2>4 DEF Clean
    <3>2. p \in Nat /\ p <= chosen
      BY <2>2, <3>1
    <3>. QED BY <3>1, <3>2
  <2>. QED BY <2>3, <2>4
<1>3. Safe /\ [StreamNext]_allVars => [ply' # ply /\ Ours(ply) =>
                                 chosen = ply \/ \E p \in again : Ours(p) /\ p <= chosen]_allVars
  BY <1>2
<1>4. Safe /\ [StreamNext]_allVars => Safe'
  BY StreamStep, FinishedType
<1>. QED BY <1>1, <1>3, <1>4, PTL DEF StreamSpec, AppliedWhereChosen
=============================================================================
