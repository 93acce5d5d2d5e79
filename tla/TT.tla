--------------------------------- MODULE TT ---------------------------------
(***************************************************************************)
(* One bucket of the transposition table shared by the search threads      *)
(* (internal/search/tt.go).  A slot is two words that are loaded and       *)
(* stored one at a time: the data, and the data combined with the key.     *)
(* Buckets are independent of each other, so one of them stands for all.   *)
(*                                                                         *)
(* The exclusive-or of a key and a data word is the record of the two: two *)
(* different pairs are assumed never to give the same word.  An entry's    *)
(* move and score are abstracted to "of", the position it was stored for,  *)
(* and "by", the evaluator whose score it holds; neither is read by the    *)
(* table itself.                                                           *)
(***************************************************************************)
EXTENDS Integers

CONSTANTS
    Threads,      \* search threads
    Keys,         \* keys of the positions that fall into this bucket
    Slots,        \* entries in the bucket (bucketSize, 4 in the code)
    Depths,       \* depths results are stored with
    Bounds,       \* the bounds other than BoundNone
    Evaluators

ASSUME SlotsAssumption == Slots \in Nat \ {0}
ASSUME DepthsAssumption == Depths \subseteq 0..255
ASSUME BoundsAssumption == Bounds \subseteq {"upper", "lower", "exact"}

VARIABLES
    keyx,         \* slot -> key ^ data
    data,         \* slot -> packed entry
    gen,          \* the generation counter
    op            \* thread -> the table operation it is in

tableVars == <<keyx, data, gen, op>>

GenWidth == 256   \* uint8(t.gen.Load())
PackedGens == 64  \* maskGen + 1

Empty == <<>>     \* a zero word: no entry, BoundNone

Slot == 1..Slots
Entry == [of : Keys, by : Evaluators, depth : Depths, bound : Bounds,
          gen : 0..(PackedGens - 1)]
\* Mutant: the key is stored as it is, without the data mixed in.
WordOfKey(k, d) == [key |-> k, data |-> Empty]
Word(k, d) == [key |-> k, data |-> d]
Words == [key : Keys, data : Entry]

\* The generation as Store and Hashfull read it, and as packEntry keeps it.
CurrentGen == gen % GenWidth
PackedGen(g) == g % PackedGens

\* entry.read: do these two words belong together, under this key?
Matches(k, x, d) == d # Empty /\ x = Word(k, d)

\* Worse than any slot: bestValue before the loop.
NoValue == 1000

\* One call of Probe or Store: "new" is the entry Store was given, Empty in
\* Probe; "seen" is the data word loaded from the slot the loop is at.
Idle == [pc |-> "idle"]
Call(k, new) == [pc |-> "data", key |-> k, new |-> new, slot |-> 1,
                 seen |-> Empty, victim |-> 1, value |-> NoValue]
NextSlot(o) == [o EXCEPT !.pc = "data", !.slot = o.slot + 1, !.seen = Empty]

\* What a slot's contents are worth: depth, less 64 when from another search.
Value(d) == IF d.gen = CurrentGen THEN d.depth ELSE d.depth - 64

-----------------------------------------------------------------------------
TableInit ==
    /\ keyx = [s \in Slot |-> Empty]
    /\ data = [s \in Slot |-> Empty]
    /\ gen = 0
    /\ op = [t \in Threads |-> Idle]

\* TT.Clear and a new table: every entry reads as a miss.
ClearTable ==
    /\ keyx' = [s \in Slot |-> Empty]
    /\ data' = [s \in Slot |-> Empty]
    /\ gen' = 0
    /\ UNCHANGED op

NewSearch == gen' = gen + 1 /\ UNCHANGED <<keyx, data, op>>

StartProbe(t, k) ==
    /\ op[t] = Idle
    /\ op' = [op EXCEPT ![t] = Call(k, Empty)]
    /\ UNCHANGED <<keyx, data, gen>>

\* A thread stores what evaluator e made of position k.
StartStore(t, k, e, dep, b) ==
    /\ op[t] = Idle
    /\ op' = [op EXCEPT ![t] =
                Call(k, [of |-> k, by |-> e, depth |-> dep, bound |-> b,
                         gen |-> PackedGen(CurrentGen)])]
    /\ UNCHANGED <<keyx, data, gen>>

\* The first load of entry.read.
LoadData(t) ==
    /\ op[t].pc = "data"
    /\ op' = [op EXCEPT ![t].pc = "keyx", ![t].seen = data[op[t].slot]]
    /\ UNCHANGED <<keyx, data, gen>>

\* Does the slot a call has loaded from hold the call's position?
Hit(o) == Matches(o.key, keyx[o.slot], o.seen)

\* The second load, in Probe: a match ends the loop, and so does the last slot.
ProbeSlot(t) ==
    LET o == op[t] IN
    /\ o.pc = "keyx" /\ o.new = Empty
    /\ op' = [op EXCEPT ![t] =
                IF Hit(o) \/ o.slot = Slots THEN Idle ELSE NextSlot(o)]
    /\ UNCHANGED <<keyx, data, gen>>

\* A deep exact score is kept over a shallower bound.
KeepsDeeper(d, new) ==
    d.bound = "exact" /\ d.depth > new.depth /\ new.bound # "exact"

\* Where the loop of Store stands after it has valued a slot it cannot take.
Valued(o) ==
    IF Value(o.seen) < o.value
    THEN [o EXCEPT !.victim = o.slot, !.value = Value(o.seen)] ELSE o

\* The second load, in Store: an empty slot or the position's own is taken,
\* else the loop goes on and the slot worth least is taken in the end.
StoreSlot(t) ==
    LET o == op[t]
        takes == o.seen = Empty \/ Hit(o)
    IN  /\ o.pc = "keyx" /\ o.new # Empty
        /\ op' = [op EXCEPT ![t] =
                    IF Hit(o) /\ KeepsDeeper(o.seen, o.new) THEN Idle
                    ELSE IF takes THEN [o EXCEPT !.pc = "write", !.victim = o.slot]
                    ELSE IF o.slot = Slots THEN [Valued(o) EXCEPT !.pc = "write"]
                    ELSE NextSlot(Valued(o))]
        /\ UNCHANGED <<keyx, data, gen>>

\* entry.write: the combined word first, then the data.
WriteKeyx(t) ==
    /\ op[t].pc = "write"
    /\ keyx' = [keyx EXCEPT ![op[t].victim] = Word(op[t].key, op[t].new)]
    /\ op' = [op EXCEPT ![t].pc = "write2"]
    /\ UNCHANGED <<data, gen>>

WriteData(t) ==
    /\ op[t].pc = "write2"
    /\ data' = [data EXCEPT ![op[t].victim] = op[t].new]
    /\ op' = [op EXCEPT ![t] = Idle]
    /\ UNCHANGED <<keyx, gen>>

\* What a thread does next inside a Probe or a Store it has begun.
TableStep(t) ==
    \/ LoadData(t)
    \/ ProbeSlot(t)
    \/ StoreSlot(t)
    \/ WriteKeyx(t)
    \/ WriteData(t)

-----------------------------------------------------------------------------
Calls == [pc : {"data", "keyx", "write", "write2"}, key : Keys,
          new : Entry \cup {Empty}, slot : Slot, seen : Entry \cup {Empty},
          victim : Slot, value : Int]

TableTypeOK ==
    /\ keyx \in [Slot -> Words \cup {Empty}]
    /\ data \in [Slot -> Entry \cup {Empty}]
    /\ gen \in Nat
    /\ op \in [Threads -> Calls \cup {Idle}]
=============================================================================
