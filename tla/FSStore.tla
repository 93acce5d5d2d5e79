------------------------------ MODULE FSStore ------------------------------
(***************************************************************************)
(* The filesystem store (internal/store/fs.go) and those who read what it  *)
(* holds: Verify, the coordinator's resume, the trainer's expand and       *)
(* readAll.                                                                *)
(*                                                                         *)
(* A file is an inode; the directory binds names to files.  Put fills a    *)
(* file under a temporary name in the key's directory, flushes it and      *)
(* renames it to the key.  A process may be killed between any two of      *)
(* those steps, and the machine may lose power: then every chunk that was  *)
(* not flushed is gone (a short file, or zeroes), and each name is bound   *)
(* to any file it was bound to since the last power cut.                   *)
(***************************************************************************)
EXTENDS Naturals, Sequences

CONSTANTS
    Keys, Temps,      \* names: of artifacts, and those createTemp may draw
    Contents,         \* what a Put is given to store
    Chunks,           \* writes io.Copy needs for one artifact
    Writers, Readers,
    MaxFiles,         \* bound: files created
    MaxKills,         \* bound: processes killed
    MaxCuts,          \* bound: power cuts
    Absent, Blank     \* no file; a chunk that is not on the file

Files == 1 .. MaxFiles
Names == Keys \cup Temps
Piece == 1 .. Chunks

ASSUME StoreOK ==
    /\ Chunks \in Nat \ {0} /\ MaxFiles \in Nat
    /\ MaxKills \in Nat /\ MaxCuts \in Nat
    /\ Keys \cap Temps = {}
    /\ Absent \notin Contents \cup Files /\ Blank \notin Contents \cup {Absent}

VARIABLES
    dir,       \* name -> file, or Absent
    past,      \* name -> what a power cut may bind it to
    data,      \* file -> its chunks
    flushed,   \* file -> Sync returned
    used,      \* files created so far
    put,       \* writer -> its Put
    get,       \* reader -> its read
    kills, cuts

vars == <<dir, past, data, flushed, used, put, get, kills, cuts>>

NoPut == [at |-> "idle", key |-> Absent, content |-> Absent,
          temp |-> Absent, file |-> 0, copied |-> 0]
\* todo: names still to open.  got: the chunks read of the file that is open.
NoGet == [todo |-> {}, file |-> 0, got |-> <<>>]

Empty == [i \in Piece |-> Blank]
Filled(c) == [i \in Piece |-> c]

Init ==
    /\ dir = [n \in Names |-> Absent]
    /\ past = [n \in Names |-> {Absent}]
    /\ data = [f \in Files |-> Empty]
    /\ flushed = [f \in Files |-> FALSE]
    /\ used = 0
    /\ put = [w \in Writers |-> NoPut]
    /\ get = [r \in Readers |-> NoGet]
    /\ kills = 0 /\ cuts = 0

-----------------------------------------------------------------------------
(* Put *)

Bind(binding) ==
    /\ dir' = [n \in Names |-> IF n \in DOMAIN binding THEN binding[n] ELSE dir[n]]
    /\ past' = [n \in Names |-> IF n \in DOMAIN binding
                                THEN past[n] \cup {binding[n]} ELSE past[n]]

\* createTemp: O_EXCL, so the name is free.  That 64 random bits do not name
\* the file another Put has renamed and is about to remove is an assumption.
Drawable(t) ==
    /\ dir[t] = Absent
    /\ \A w \in Writers : put[w].at = "removing" => put[w].temp # t

CreateTemp(w, k, c, t) ==
    /\ put[w].at = "idle" /\ used < MaxFiles
    /\ Drawable(t)
    /\ used' = used + 1
    /\ Bind([n \in {t} |-> used + 1])
    /\ put' = [put EXCEPT ![w] = [at |-> "copying", key |-> k, content |-> c,
                                  temp |-> t, file |-> used + 1, copied |-> 0]]
    /\ UNCHANGED <<data, flushed, get, kills, cuts>>

CopyChunk(w) ==
    /\ put[w].at = "copying" /\ put[w].copied < Chunks
    /\ data' = [data EXCEPT ![put[w].file][put[w].copied + 1] = put[w].content]
    /\ put' = [put EXCEPT ![w].copied = @ + 1]
    /\ UNCHANGED <<dir, past, flushed, used, get, kills, cuts>>

\* Mutant: the file is renamed without having been flushed.
SyncSkipped(w) ==
    /\ put[w].at = "copying" /\ put[w].copied = Chunks
    /\ put' = [put EXCEPT ![w].at = "flushed"]
    /\ UNCHANGED <<dir, past, data, flushed, used, get, kills, cuts>>

Sync(w) ==
    /\ put[w].at = "copying" /\ put[w].copied = Chunks
    /\ flushed' = [flushed EXCEPT ![put[w].file] = TRUE]
    /\ put' = [put EXCEPT ![w].at = "flushed"]
    /\ UNCHANGED <<dir, past, data, used, get, kills, cuts>>

Rename(w) ==
    /\ put[w].at = "flushed" /\ dir[put[w].temp] # Absent
    /\ Bind([n \in {put[w].temp, put[w].key} |->
                IF n = put[w].key THEN dir[put[w].temp] ELSE Absent])
    /\ put' = [put EXCEPT ![w].at = "removing"]
    /\ UNCHANGED <<data, flushed, used, get, kills, cuts>>

\* Mutant: returns before the deferred removal is set up.
GiveUpAtOnce(w) ==
    /\ put[w].at \in {"copying", "flushed"}
    /\ put' = [put EXCEPT ![w] = NoPut]
    /\ UNCHANGED <<dir, past, data, flushed, used, get, kills, cuts>>

\* The source or the disk fails, or the context has ended.
GiveUp(w) ==
    /\ put[w].at \in {"copying", "flushed"}
    /\ put' = [put EXCEPT ![w].at = "removing"]
    /\ UNCHANGED <<dir, past, data, flushed, used, get, kills, cuts>>

\* The deferred Remove runs on every path; after a rename it finds nothing.
RemoveTemp(w) ==
    /\ put[w].at = "removing"
    /\ Bind([n \in {put[w].temp} |-> Absent])
    /\ put' = [put EXCEPT ![w] = NoPut]
    /\ UNCHANGED <<data, flushed, used, get, kills, cuts>>

Delete(k) ==
    /\ dir[k] # Absent
    /\ Bind([n \in {k} |-> Absent])
    /\ UNCHANGED <<data, flushed, used, put, get, kills, cuts>>

-----------------------------------------------------------------------------
(* Readers *)

\* List returns every file of the prefix, what a killed Put left included.
List == {n \in Names : dir[n] # Absent}

Idle(r) == get[r].todo = {} /\ get[r].file = 0

\* Mutant: every listed name is read.
TakeEveryName(r) ==
    /\ Idle(r)
    /\ get' = [get EXCEPT ![r].todo = List]
    /\ UNCHANGED <<dir, past, data, flushed, used, put, kills, cuts>>

\* resume keeps the names of units, expand those with the extension: no
\* temporary name passes either.
TakeList(r) ==
    /\ Idle(r)
    /\ get' = [get EXCEPT ![r].todo = List \cap Keys]
    /\ UNCHANGED <<dir, past, data, flushed, used, put, kills, cuts>>

\* Verify: the URI came in a message.
TakeURI(r, k) ==
    /\ Idle(r)
    /\ get' = [get EXCEPT ![r].todo = {k}]
    /\ UNCHANGED <<dir, past, data, flushed, used, put, kills, cuts>>

\* Get.  A listed name may be gone by now (ErrNotFound).
Open(r, n) ==
    /\ n \in get[r].todo /\ get[r].file = 0
    /\ get' = [get EXCEPT ![r].todo = @ \ {n},
                          ![r].file = IF dir[n] = Absent THEN 0 ELSE dir[n]]
    /\ UNCHANGED <<dir, past, data, flushed, used, put, kills, cuts>>

\* The open file is read whatever happens to its name meanwhile.
ReadChunk(r) ==
    /\ get[r].file # 0 /\ Len(get[r].got) < Chunks
    /\ get' = [get EXCEPT ![r].got = Append(@, data[get[r].file][Len(@) + 1])]
    /\ UNCHANGED <<dir, past, data, flushed, used, put, kills, cuts>>

EndOfFile(r) ==
    /\ get[r].file # 0 /\ Len(get[r].got) = Chunks
    /\ get' = [get EXCEPT ![r].file = 0, ![r].got = <<>>]
    /\ UNCHANGED <<dir, past, data, flushed, used, put, kills, cuts>>

-----------------------------------------------------------------------------
(* Faults *)

\* The pod is evicted: its Put ends where it is.
Kill(w) ==
    /\ kills < MaxKills /\ put[w].at # "idle"
    /\ kills' = kills + 1
    /\ put' = [put EXCEPT ![w] = NoPut]
    /\ UNCHANGED <<dir, past, data, flushed, used, get, cuts>>

PowerCut ==
    /\ cuts < MaxCuts
    /\ cuts' = cuts + 1
    /\ \E found \in [Names -> {Absent} \cup Files] :
        /\ \A n \in Names : found[n] \in past[n]
        /\ dir' = found
        /\ past' = [n \in Names |-> {found[n]}]
    /\ \E lost \in SUBSET {f \in Files : ~flushed[f]} :
        data' = [f \in Files |-> IF f \in lost THEN Empty ELSE data[f]]
    /\ put' = [w \in Writers |-> NoPut]
    /\ get' = [r \in Readers |-> NoGet]
    /\ UNCHANGED <<flushed, used, kills>>

Write(w) ==
    \/ \E k \in Keys, c \in Contents, t \in Temps : CreateTemp(w, k, c, t)
    \/ CopyChunk(w) \/ Sync(w) \/ Rename(w) \/ GiveUp(w) \/ RemoveTemp(w)

Read(r) ==
    \/ TakeList(r) \/ (\E k \in Keys : TakeURI(r, k))
    \/ (\E n \in Names : Open(r, n)) \/ ReadChunk(r) \/ EndOfFile(r)

Next ==
    \/ \E w \in Writers : Write(w) \/ Kill(w)
    \/ \E r \in Readers : Read(r)
    \/ \E k \in Keys : Delete(k)
    \/ PowerCut

Spec == Init /\ [][Next]_vars

-----------------------------------------------------------------------------
(* Properties *)

Puts == [at : {"idle", "copying", "flushed", "removing"},
         key : Keys \cup {Absent}, content : Contents \cup {Absent},
         temp : Temps \cup {Absent}, file : 0 .. MaxFiles, copied : 0 .. Chunks]
Gets == [todo : SUBSET Names, file : 0 .. MaxFiles, got : Seq(Contents \cup {Blank})]

TypeOK ==
    /\ dir \in [Names -> Files \cup {Absent}]
    /\ past \in [Names -> SUBSET (Files \cup {Absent})]
    /\ data \in [Files -> [Piece -> Contents \cup {Blank}]]
    /\ flushed \in [Files -> BOOLEAN]
    /\ used \in 0 .. MaxFiles
    /\ put \in [Writers -> Puts]
    /\ get \in [Readers -> Gets]
    /\ kills \in Nat /\ cuts \in Nat

Whole(f) == \E c \in Contents : data[f] = Filled(c)

\* What a reader would find in a file.
ContentOf(f) ==
    IF f = Absent THEN Absent ELSE IF Whole(f) THEN data[f][1] ELSE Blank

Held     == [k \in Keys |-> ContentOf(dir[k])]
MayHold  == [k \in Keys |-> {ContentOf(f) : f \in past[k]}]
Abstract == INSTANCE ArtifactStore WITH art <- Held, before <- MayHold

\* Through evictions and power cuts a key holds a whole artifact or none: every
\* step of the store is a Put or a Delete of a whole artifact, a power cut that
\* brings back one the key held before, or is not to be seen (fs.go Put, Delete).
ImplementsStore == Abstract!Spec

\* A read that got to the end of its file has one artifact in its hands, not a
\* piece of one or pieces of two, however the key was written, replaced or
\* deleted meanwhile and whatever a listing offered (fs.go Get and List,
\* store.go Verify, coordinator.go resume, trainer expand and readAll).
ReadsWhole ==
    \A r \in Readers :
        get[r].file # 0 /\ Len(get[r].got) = Chunks =>
            \E c \in Contents : get[r].got = Filled(c)

\* Only an eviction or a power cut leaves a temporary file behind: as long as
\* there was none each belongs to a Put that is going on (fs.go:138).
PartialsAccounted ==
    kills = 0 /\ cuts = 0 =>
        \A t \in Temps : dir[t] # Absent =>
            \E w \in Writers : put[w].at # "idle" /\ put[w].temp = t
=============================================================================
