--------------------------- MODULE FSStore_proofs ---------------------------
(***************************************************************************)
(* The filesystem store implements the abstract one, and readers see whole *)
(* artifacts, for any number of writers, readers, keys, evictions and      *)
(* power cuts.                                                             *)
(***************************************************************************)
EXTENDS FSStore, TLAPS

\* The temporary file of a Put that may still rename it.
Filling(w) == put[w].at \in {"copying", "flushed"}

PutSound(w) ==
    /\ put[w].at # "idle" =>
        /\ put[w].key \in Keys /\ put[w].temp \in Temps /\ put[w].content \in Contents
    /\ Filling(w) =>
        /\ put[w].file \in 1 .. used /\ dir[put[w].temp] = put[w].file
        /\ \A i \in 1 .. put[w].copied : data[put[w].file][i] = put[w].content
    /\ put[w].at = "copying" => ~flushed[put[w].file]
    /\ put[w].at = "flushed" => flushed[put[w].file] /\ put[w].copied = Chunks

\* No other Put fills the same file, or is about to remove its name.
Apart(v, w) ==
    Filling(v) =>
        /\ Filling(w) => put[v].file # put[w].file
        /\ put[w].at = "removing" => put[v].temp # put[w].temp

PutInv ==
    /\ \A f \in Files : f > used => ~flushed[f]
    /\ \A w \in Writers : PutSound(w)
    /\ \A v, w \in Writers : v # w => Apart(v, w)

\* What a key is bound to, or may be bound to by a power cut, is on the disk.
KeysWhole ==
    \A k \in Keys :
        /\ dir[k] \in past[k]
        /\ \A f \in past[k] : f # Absent => flushed[f] /\ Whole(f)

GetSound(r) ==
    /\ get[r].todo \subseteq Keys
    /\ get[r].file = 0 => get[r].got = <<>>
    /\ get[r].file # 0 =>
        /\ flushed[get[r].file]
        /\ Len(get[r].got) <= Chunks
        /\ \E c \in Contents :
            /\ data[get[r].file] = Filled(c)
            /\ \A i \in 1 .. Len(get[r].got) : get[r].got[i] = c

GetInv == \A r \in Readers : GetSound(r)

StoreInv == TypeOK /\ PutInv /\ KeysWhole /\ GetInv

-----------------------------------------------------------------------------
\* What Bind does to the two directories.
LEMMA BindOne ==
    ASSUME TypeOK, NEW n \in Names, NEW b \in Files \cup {Absent}, Bind([m \in {n} |-> b])
    PROVE  /\ dir' = [dir EXCEPT ![n] = b]
           /\ past' = [past EXCEPT ![n] = @ \cup {b}]
BY DEF Bind, TypeOK

\* What a rename binds: the key to the file, and its temporary name to nothing.
LEMMA BindTwo ==
    ASSUME TypeOK, NEW w \in Writers, Rename(w), PutSound(w)
    PROVE  /\ dir' = [dir EXCEPT ![put[w].temp] = Absent, ![put[w].key] = put[w].file]
           /\ past' = [past EXCEPT ![put[w].temp] = @ \cup {Absent},
                                   ![put[w].key] = @ \cup {put[w].file}]
           /\ put[w].temp \in Temps /\ put[w].key \in Keys /\ put[w].file \in Files
<1>1. /\ put[w].temp \in Temps /\ put[w].key \in Keys /\ put[w].temp # put[w].key
      /\ put[w].file \in 1 .. used /\ dir[put[w].temp] = put[w].file
  BY StoreOK DEF Rename, PutSound, Filling
<1>2. put[w].file \in Files
  BY <1>1, StoreOK DEF TypeOK, Files
<1>. QED BY <1>1, <1>2 DEF Rename, Bind, TypeOK, Names

\* The step of one Put, by what it does to the record.
LEMMA PutTypes ==
    ASSUME put \in [Writers -> Puts], NEW w \in Writers,
           Sync(w) \/ Rename(w) \/ GiveUp(w) \/ RemoveTemp(w) \/ Kill(w)
    PROVE  put' \in [Writers -> Puts]
<1>1. CASE Sync(w)
  BY <1>1 DEF Sync, Puts
<1>2. CASE Rename(w)
  BY <1>2 DEF Rename, Puts
<1>3. CASE GiveUp(w)
  BY <1>3 DEF GiveUp, Puts
<1>4. CASE RemoveTemp(w)
  BY <1>4, StoreOK DEF RemoveTemp, NoPut, Puts
<1>5. CASE Kill(w)
  BY <1>5, StoreOK DEF Kill, NoPut, Puts
<1>. QED BY <1>1, <1>2, <1>3, <1>4, <1>5

\* The type of the readers.
LEMMA GetTypes ==
    ASSUME TypeOK, NEW r \in Readers, Read(r)
    PROVE  get' \in [Readers -> Gets]
<1>1. get \in [Readers -> Gets] /\ get[r] \in Gets
  BY DEF TypeOK
<1>2. CASE TakeList(r)
  BY <1>1, <1>2 DEF TakeList, List, Names, Gets
<1>3. ASSUME NEW k \in Keys, TakeURI(r, k)
      PROVE  get' \in [Readers -> Gets]
  BY <1>1, <1>3 DEF TakeURI, Names, Gets
<1>4. ASSUME NEW n \in Names, Open(r, n)
      PROVE  get' \in [Readers -> Gets]
  <2>1. (IF dir[n] = Absent THEN 0 ELSE dir[n]) \in 0 .. MaxFiles
    BY StoreOK DEF TypeOK, Files
  <2>. QED BY <1>1, <1>4, <2>1 DEF Open, Gets
<1>5. CASE ReadChunk(r)
  <2>1. get[r].file \in Files /\ Len(get[r].got) + 1 \in Piece
        /\ get[r].got \in Seq(Contents \cup {Blank})
    BY <1>1, <1>5, StoreOK DEF ReadChunk, Files, Piece, Gets
  <2>2. data[get[r].file][Len(get[r].got) + 1] \in Contents \cup {Blank}
    BY <2>1 DEF TypeOK
  <2>3. Append(get[r].got, data[get[r].file][Len(get[r].got) + 1]) \in Seq(Contents \cup {Blank})
    BY <2>1, <2>2
  <2>. QED BY <1>1, <1>5, <2>3 DEF ReadChunk, Gets
<1>6. CASE EndOfFile(r)
  BY <1>1, <1>6, StoreOK DEF EndOfFile, Gets
<1>. QED BY <1>2, <1>3, <1>4, <1>5, <1>6 DEF Read

\* Every step keeps the types.
LEMMA TypeStep ==
    ASSUME StoreInv, [Next]_vars
    PROVE  TypeOK'
<1>. TypeOK
  BY DEF StoreInv
<1>. put \in [Writers -> Puts]
  BY DEF TypeOK
<1>1. ASSUME NEW w \in Writers, NEW k \in Keys, NEW c \in Contents, NEW t \in Temps,
             CreateTemp(w, k, c, t)
      PROVE  TypeOK'
  <2>1. used + 1 \in Files /\ t \in Names /\ used' \in 0 .. MaxFiles
    BY <1>1, StoreOK DEF CreateTemp, Files, Names, TypeOK
  <2>2. dir' = [dir EXCEPT ![t] = used + 1] /\ past' = [past EXCEPT ![t] = @ \cup {used + 1}]
    BY <1>1, <2>1, BindOne DEF CreateTemp
  <2>3. put' \in [Writers -> Puts]
    BY <1>1, <2>1, StoreOK DEF CreateTemp, Puts, Files
  <2>. QED BY <1>1, <2>1, <2>2, <2>3 DEF CreateTemp, TypeOK
<1>2. ASSUME NEW w \in Writers, CopyChunk(w)
      PROVE  TypeOK'
  <2>1. put[w].copied + 1 \in Piece /\ put[w].content \in Contents /\ put[w].file \in Files
    BY <1>2, StoreOK DEF CopyChunk, StoreInv, PutInv, PutSound, Filling, Files, Piece, TypeOK, Puts
  <2>2. put' \in [Writers -> Puts]
    BY <1>2, <2>1, StoreOK DEF CopyChunk, Puts, Piece
  <2>3. data' \in [Files -> [Piece -> Contents \cup {Blank}]]
    BY <1>2, <2>1 DEF CopyChunk, TypeOK
  <2>. QED BY <1>2, <2>2, <2>3 DEF CopyChunk, TypeOK
<1>3. ASSUME NEW w \in Writers, Sync(w)
      PROVE  TypeOK'
  BY <1>3, PutTypes DEF Sync, TypeOK
<1>4. ASSUME NEW w \in Writers, Rename(w)
      PROVE  TypeOK'
  <2>1. PutSound(w)
    BY DEF StoreInv, PutInv
  <2>2. /\ dir' \in [Names -> Files \cup {Absent}]
        /\ past' \in [Names -> SUBSET (Files \cup {Absent})]
    BY <1>4, <2>1, BindTwo DEF Names, TypeOK
  <2>3. put' \in [Writers -> Puts]
    BY <1>4, PutTypes
  <2>. QED BY <1>4, <2>2, <2>3 DEF Rename, TypeOK
<1>5. ASSUME NEW w \in Writers, GiveUp(w)
      PROVE  TypeOK'
  BY <1>5, PutTypes DEF GiveUp, TypeOK
<1>6. ASSUME NEW w \in Writers, RemoveTemp(w)
      PROVE  TypeOK'
  <2>1. put[w].temp \in Names
    BY <1>6 DEF RemoveTemp, StoreInv, PutInv, PutSound, Names
  <2>2. dir' = [dir EXCEPT ![put[w].temp] = Absent]
        /\ past' = [past EXCEPT ![put[w].temp] = @ \cup {Absent}]
    BY <1>6, <2>1, BindOne DEF RemoveTemp
  <2>3. /\ dir' \in [Names -> Files \cup {Absent}]
        /\ past' \in [Names -> SUBSET (Files \cup {Absent})]
    BY <2>1, <2>2 DEF TypeOK
  <2>4. put' \in [Writers -> Puts]
    BY <1>6, PutTypes
  <2>. QED BY <1>6, <2>3, <2>4 DEF RemoveTemp, TypeOK
<1>7. ASSUME NEW w \in Writers, Kill(w)
      PROVE  TypeOK'
  <2>1. put' \in [Writers -> Puts]
    BY <1>7, PutTypes
  <2>. QED BY <1>7, <2>1 DEF Kill, TypeOK
<1>8. ASSUME NEW r \in Readers, Read(r)
      PROVE  TypeOK'
  <2>1. UNCHANGED <<dir, past, data, flushed, used, put, kills, cuts>>
    BY <1>8 DEF Read, TakeList, TakeURI, Open, ReadChunk, EndOfFile
  <2>. QED BY <1>8, <2>1, GetTypes DEF TypeOK
<1>9. ASSUME NEW k \in Keys, Delete(k)
      PROVE  TypeOK'
  <2>1. k \in Names
    BY DEF Names
  <2>2. dir' = [dir EXCEPT ![k] = Absent] /\ past' = [past EXCEPT ![k] = @ \cup {Absent}]
    BY <1>9, <2>1, BindOne DEF Delete
  <2>. QED BY <1>9, <2>1, <2>2 DEF Delete, TypeOK
<1>10. CASE PowerCut
  <2>1. put' \in [Writers -> Puts] /\ get' \in [Readers -> Gets]
    BY <1>10, StoreOK DEF PowerCut, NoPut, NoGet, Puts, Gets
  <2>2. data' \in [Files -> [Piece -> Contents \cup {Blank}]]
    BY <1>10 DEF PowerCut, TypeOK, Empty
  <2>. QED BY <1>10, <2>1, <2>2 DEF PowerCut, TypeOK
<1>11. CASE UNCHANGED vars
  BY <1>11 DEF vars, TypeOK
<1>. QED BY <1>1, <1>2, <1>3, <1>4, <1>5, <1>6, <1>7, <1>8, <1>9, <1>10, <1>11 DEF Next, Write

-----------------------------------------------------------------------------
\* A Put has its file and its temporary name for itself.
LEMMA PutStep ==
    ASSUME StoreInv, [Next]_vars
    PROVE  PutInv'
<1>. TypeOK /\ PutInv
  BY DEF StoreInv
<1>. put \in [Writers -> Puts]
  BY DEF TypeOK
<1>1. ASSUME NEW w \in Writers, NEW k \in Keys, NEW c \in Contents, NEW t \in Temps,
             CreateTemp(w, k, c, t)
      PROVE  PutInv'
  <2>1. used + 1 \in Files /\ t \in Names /\ used \in Nat /\ Absent \notin Files
    BY <1>1, StoreOK DEF CreateTemp, Files, Names, TypeOK
  <2>2. dir' = [dir EXCEPT ![t] = used + 1]
    BY <1>1, <2>1, BindOne DEF CreateTemp
  <2>3. \A v \in Writers : v # w => put'[v] = put[v]
    BY <1>1 DEF CreateTemp
  <2>4. put'[w] = [at |-> "copying", key |-> k, content |-> c,
                   temp |-> t, file |-> used + 1, copied |-> 0]
    BY <1>1 DEF CreateTemp
  <2>5. \A f \in Files : f > used' => ~flushed'[f]
    BY <1>1, <2>1 DEF CreateTemp, PutInv, Files
  <2>6. PutSound(w)'
    <3>1. flushed'[used + 1] = FALSE
      BY <1>1, <2>1 DEF CreateTemp, PutInv, TypeOK
    <3>. QED BY <1>1, <2>1, <2>2, <2>4, <3>1 DEF CreateTemp, PutSound, Filling, TypeOK
  <2>7. ASSUME NEW v \in Writers, v # w PROVE PutSound(v)'
    <3>1. Filling(v) => put[v].file \in Files
      BY <2>1, StoreOK DEF PutInv, PutSound, Filling, Files
    <3>2. Filling(v) => put[v].temp # t
      BY <1>1, <2>1, <3>1 DEF CreateTemp, Drawable, PutInv, PutSound
    <3>3. PutSound(v) /\ put'[v] = put[v]
      BY <2>3, <2>7 DEF PutInv
    <3>. QED BY <1>1, <2>1, <2>2, <3>2, <3>3 DEF CreateTemp, PutSound, Filling, TypeOK
  <2>8. ASSUME NEW v \in Writers, NEW x \in Writers, v # x PROVE Apart(v, x)'
    <3>1. \A y \in Writers : Filling(y) => put[y].file \in 1 .. used
      BY DEF PutInv, PutSound
    <3>2. CASE v = w
      <4>1. put'[x] = put[x] /\ (put[x].at = "removing" => put[x].temp # t)
        BY <1>1, <2>3, <2>8, <3>2 DEF CreateTemp, Drawable
      <4>. QED BY <2>1, <2>4, <3>1, <3>2, <4>1 DEF Apart, Filling
    <3>3. CASE x = w
      <4>1. put'[v] = put[v]
        BY <2>3, <2>8, <3>3
      <4>. QED BY <2>1, <2>4, <3>1, <3>3, <4>1 DEF Apart, Filling
    <3>4. CASE v # w /\ x # w
      BY <2>3, <2>8, <3>4 DEF Apart, Filling, PutInv
    <3>. QED BY <3>2, <3>3, <3>4
  <2>. QED BY <2>5, <2>6, <2>7, <2>8 DEF PutInv
<1>2. ASSUME NEW w \in Writers, CopyChunk(w)
      PROVE  PutInv'
  <2>1. /\ put[w].copied + 1 \in Piece /\ put[w].content \in Contents
        /\ put[w].file \in Files /\ put[w].copied \in Nat /\ Filling(w) /\ PutSound(w)
    BY <1>2, StoreOK DEF CopyChunk, PutInv, PutSound, Filling, Files, Piece, TypeOK, Puts
  <2>2. /\ put'[w] = [put[w] EXCEPT !.copied = put[w].copied + 1]
        /\ \A v \in Writers : v # w => put'[v] = put[v]
    BY <1>2 DEF CopyChunk
  <2>3. \A f \in Files : f # put[w].file => data'[f] = data[f]
    BY <1>2 DEF CopyChunk, TypeOK
  <2>4. data'[put[w].file] = [data[put[w].file] EXCEPT ![put[w].copied + 1] = put[w].content]
    BY <1>2, <2>1 DEF CopyChunk, TypeOK
  <2>5. PutSound(w)'
    <3>1. \A i \in 1 .. put[w].copied + 1 : data'[put[w].file][i] = put[w].content
      BY <2>1, <2>4, StoreOK DEF PutSound, TypeOK, Piece
    <3>2. put'[w].copied = put[w].copied + 1 /\ put'[w].at = "copying" /\ put'[w].file = put[w].file
          /\ put'[w].content = put[w].content /\ put'[w].temp = put[w].temp /\ put'[w].key = put[w].key
      BY <1>2, <2>2 DEF CopyChunk, Puts
    <3>. QED BY <1>2, <2>1, <3>1, <3>2 DEF CopyChunk, PutSound, Filling
  <2>6. ASSUME NEW v \in Writers, v # w PROVE PutSound(v)'
    <3>1. Filling(v) => put[v].file # put[w].file /\ put[v].file \in Files
      BY <2>1, <2>6, StoreOK DEF PutInv, Apart, PutSound, Files, TypeOK
    <3>. QED BY <1>2, <2>2, <2>3, <2>6, <3>1 DEF CopyChunk, PutInv, PutSound, Filling
  <2>7. ASSUME NEW v \in Writers, NEW x \in Writers, v # x PROVE Apart(v, x)'
    <3>1. \A y \in Writers : put'[y].at = put[y].at /\ put'[y].file = put[y].file /\ put'[y].temp = put[y].temp
      BY <2>2 DEF Puts
    <3>. QED BY <2>7, <3>1 DEF Apart, Filling, PutInv
  <2>. QED BY <1>2, <2>5, <2>6, <2>7 DEF PutInv, CopyChunk
<1>3. ASSUME NEW w \in Writers, Sync(w)
      PROVE  PutInv'
  <2>1. /\ put'[w] = [put[w] EXCEPT !.at = "flushed"]
        /\ \A v \in Writers : v # w => put'[v] = put[v]
    BY <1>3 DEF Sync
  <2>2. put[w].file \in Files /\ Filling(w) /\ PutSound(w) /\ put[w].file \in 1 .. used
    BY <1>3, StoreOK DEF Sync, PutInv, PutSound, Filling, Files, TypeOK
  <2>3. flushed' = [flushed EXCEPT ![put[w].file] = TRUE]
    BY <1>3 DEF Sync
  <2>4. \A f \in Files : f > used' => ~flushed'[f]
    BY <1>3, <2>2, <2>3 DEF Sync, PutInv, TypeOK
  <2>5. PutSound(w)'
    BY <1>3, <2>1, <2>2, <2>3 DEF Sync, PutSound, Filling, TypeOK, Puts
  <2>6. ASSUME NEW v \in Writers, v # w PROVE PutSound(v)'
    <3>1. Filling(v) => put[v].file # put[w].file /\ put[v].file \in Files
      BY <2>2, <2>6, StoreOK DEF PutInv, Apart, PutSound, Files, TypeOK
    <3>2. Filling(v) => flushed'[put[v].file] = flushed[put[v].file]
      BY <2>2, <2>3, <3>1 DEF TypeOK
    <3>. QED BY <1>3, <2>1, <2>6, <3>2 DEF Sync, PutInv, PutSound, Filling
  <2>7. ASSUME NEW v \in Writers, NEW x \in Writers, v # x PROVE Apart(v, x)'
    <3>1. \A y \in Writers : put'[y].file = put[y].file /\ put'[y].temp = put[y].temp
      BY <2>1 DEF Puts
    <3>2. /\ Filling(w) /\ put'[w].at = "flushed"
          /\ \A y \in Writers : y # w => put'[y].at = put[y].at
      BY <2>1, <2>2 DEF Puts
    <3>. QED BY <2>7, <3>1, <3>2 DEF Apart, Filling, PutInv
  <2>. QED BY <2>4, <2>5, <2>6, <2>7 DEF PutInv
<1>4. ASSUME NEW w \in Writers, GiveUp(w) \/ Rename(w) \/ RemoveTemp(w) \/ Kill(w),
             put'[w].at \notin {"copying", "flushed"},
             \A v \in Writers : v # w => put'[v] = put[v],
             put'[w].at # "idle" => put'[w].key \in Keys /\ put'[w].temp \in Temps
                                    /\ put'[w].content \in Contents,
             put'[w].at = "removing" => Filling(w) /\ put'[w].temp = put[w].temp,
             \A v \in Writers : v # w /\ Filling(v) => dir'[put[v].temp] = dir[put[v].temp],
             UNCHANGED <<data, flushed, used>>
      PROVE  PutInv'
  <2>1. PutSound(w)'
    BY <1>4 DEF PutSound, Filling
  <2>2. ASSUME NEW v \in Writers, v # w PROVE PutSound(v)'
    BY <1>4, <2>2 DEF PutInv, PutSound, Filling
  <2>3. ASSUME NEW v \in Writers, NEW x \in Writers, v # x PROVE Apart(v, x)'
    <3>1. CASE v = w
      BY <1>4, <3>1 DEF Apart, Filling
    <3>2. CASE x = w /\ Filling(v)
      <4>1. put'[w].at = "removing" => put[v].temp # put[w].temp
        <5>1. Filling(w) => put[v].file # put[w].file /\ put[v].file = dir[put[v].temp]
                            /\ put[w].file = dir[put[w].temp]
          BY <2>3, <3>2 DEF PutInv, Apart, PutSound
        <5>. QED BY <1>4, <5>1
      <4>. QED BY <1>4, <2>3, <3>2, <4>1 DEF Apart, Filling
    <3>3. CASE v # w /\ x # w
      BY <1>4, <2>3, <3>3 DEF Apart, Filling, PutInv
    <3>. QED BY <1>4, <2>3, <3>1, <3>2, <3>3 DEF Apart, Filling
  <2>. QED BY <1>4, <2>1, <2>2, <2>3 DEF PutInv
<1>5. ASSUME NEW w \in Writers, Rename(w)
      PROVE  PutInv'
  <2>1. Filling(w) /\ PutSound(w) /\ put[w].temp \in Temps /\ put[w].key \in Keys
        /\ put[w].content \in Contents
    BY <1>5 DEF Rename, Filling, PutInv, PutSound
  <2>2. put'[w] = [put[w] EXCEPT !.at = "removing"] /\ \A v \in Writers : v # w => put'[v] = put[v]
    BY <1>5 DEF Rename
  <2>3. ASSUME NEW v \in Writers, v # w, Filling(v)
        PROVE  dir'[put[v].temp] = dir[put[v].temp]
    <3>1. put[v].temp \in Temps /\ put[v].temp # put[w].key /\ put[v].temp # put[w].temp
      BY <2>1, <2>3, StoreOK DEF PutInv, PutSound, Apart, Filling
    <3>. QED BY <1>5, <2>1, <3>1, BindTwo DEF TypeOK, Names
  <2>4. put'[w].at = "removing" /\ put'[w].temp = put[w].temp /\ put'[w].key = put[w].key
        /\ put'[w].content = put[w].content
    BY <2>2 DEF Puts
  <2>. QED BY <1>4, <1>5, <2>1, <2>2, <2>3, <2>4 DEF Rename
<1>6. ASSUME NEW w \in Writers, GiveUp(w)
      PROVE  PutInv'
  <2>1. Filling(w) /\ PutSound(w) /\ put[w].temp \in Temps /\ put[w].key \in Keys
        /\ put[w].content \in Contents
    BY <1>6 DEF GiveUp, Filling, PutInv, PutSound
  <2>2. put'[w] = [put[w] EXCEPT !.at = "removing"] /\ \A v \in Writers : v # w => put'[v] = put[v]
    BY <1>6 DEF GiveUp
  <2>3. put'[w].at = "removing" /\ put'[w].temp = put[w].temp /\ put'[w].key = put[w].key
        /\ put'[w].content = put[w].content
    BY <2>2 DEF Puts
  <2>. QED BY <1>4, <1>6, <2>1, <2>2, <2>3 DEF GiveUp
<1>7. ASSUME NEW w \in Writers, RemoveTemp(w)
      PROVE  PutInv'
  <2>1. put[w].temp \in Names
    BY <1>7 DEF RemoveTemp, PutInv, PutSound, Names
  <2>2. dir' = [dir EXCEPT ![put[w].temp] = Absent]
    BY <1>7, <2>1, BindOne DEF RemoveTemp
  <2>3. ASSUME NEW v \in Writers, v # w, Filling(v)
        PROVE  dir'[put[v].temp] = dir[put[v].temp]
    <3>1. put[v].temp \in Names /\ put[v].temp # put[w].temp
      BY <1>7, <2>3 DEF RemoveTemp, PutInv, PutSound, Apart, Filling, Names
    <3>. QED BY <2>2, <3>1 DEF TypeOK
  <2>4. put'[w].at = "idle" /\ \A v \in Writers : v # w => put'[v] = put[v]
    BY <1>7 DEF RemoveTemp, NoPut
  <2>. QED BY <1>4, <1>7, <2>3, <2>4 DEF RemoveTemp
<1>8. ASSUME NEW w \in Writers, Kill(w)
      PROVE  PutInv'
  <2>1. put'[w].at = "idle" /\ \A v \in Writers : v # w => put'[v] = put[v]
    BY <1>8 DEF Kill, NoPut
  <2>. QED BY <1>4, <1>8, <2>1 DEF Kill
<1>9. ASSUME NEW k \in Keys, Delete(k)
      PROVE  PutInv'
  <2>1. dir' = [dir EXCEPT ![k] = Absent]
    BY <1>9, BindOne DEF Delete, Names
  <2>2. \A v \in Writers : Filling(v) => dir'[put[v].temp] = dir[put[v].temp]
    BY <2>1, StoreOK DEF PutInv, PutSound, Filling, Names, TypeOK
  <2>. QED BY <1>9, <2>2 DEF Delete, PutInv, PutSound, Apart, Filling
<1>10. CASE PowerCut
  <2>1. \A v \in Writers : put'[v].at = "idle"
    BY <1>10 DEF PowerCut, NoPut
  <2>2. flushed' = flushed /\ used' = used
    BY <1>10 DEF PowerCut
  <2>. QED BY <2>1, <2>2 DEF PutInv, PutSound, Apart, Filling
<1>11. CASE (\E r \in Readers : Read(r)) \/ UNCHANGED vars
  <2>1. UNCHANGED <<dir, data, flushed, used, put>>
    BY <1>11 DEF vars, Read, TakeList, TakeURI, Open, ReadChunk, EndOfFile
  <2>. QED BY <2>1 DEF PutInv, PutSound, Apart, Filling
<1>. QED BY <1>1, <1>2, <1>3, <1>5, <1>6, <1>7, <1>8, <1>9, <1>10, <1>11 DEF Next, Write

-----------------------------------------------------------------------------
\* The file a Put renames is whole and flushed.
LEMMA RenamedWhole ==
    ASSUME TypeOK, PutInv, NEW w \in Writers, Rename(w)
    PROVE  /\ put[w].file \in Files /\ flushed[put[w].file]
           /\ put[w].content \in Contents /\ data[put[w].file] = Filled(put[w].content)
<1>1. PutSound(w) /\ put[w].at = "flushed" /\ Filling(w)
  BY DEF PutInv, Rename, Filling
<1>2. put[w].file \in Files
  BY <1>1, BindTwo
<1>3. \A i \in Piece : data[put[w].file][i] = put[w].content
  BY <1>1 DEF PutSound, Piece
<1>. QED BY <1>1, <1>2, <1>3 DEF PutSound, Filled, TypeOK

\* No step touches a flushed file, but for marking others flushed.
LEMMA FlushedKept ==
    ASSUME TypeOK, PutInv, [Next]_vars, NEW f \in Files, flushed[f]
    PROVE  flushed'[f] /\ data'[f] = data[f]
<1>1. ASSUME NEW w \in Writers, CopyChunk(w)
      PROVE  flushed'[f] /\ data'[f] = data[f]
  <2>1. f # put[w].file
    BY <1>1 DEF CopyChunk, PutInv, PutSound
  <2>. QED BY <1>1, <2>1 DEF CopyChunk, TypeOK
<1>2. ASSUME NEW w \in Writers, Sync(w)
      PROVE  flushed'[f] /\ data'[f] = data[f]
  BY <1>2 DEF Sync, TypeOK
<1>3. CASE PowerCut
  BY <1>3 DEF PowerCut
<1>4. CASE UNCHANGED <<data, flushed>>
  BY <1>4
<1>5. ASSUME NEW w \in Writers, NEW k \in Keys, NEW c \in Contents, NEW t \in Temps,
             CreateTemp(w, k, c, t)
      PROVE  UNCHANGED <<data, flushed>>
  BY <1>5 DEF CreateTemp
<1>6. ASSUME NEW w \in Writers, Rename(w) \/ GiveUp(w) \/ RemoveTemp(w) \/ Kill(w)
      PROVE  UNCHANGED <<data, flushed>>
  BY <1>6 DEF Rename, GiveUp, RemoveTemp, Kill
<1>7. ASSUME NEW r \in Readers, Read(r)
      PROVE  UNCHANGED <<data, flushed>>
  BY <1>7 DEF Read, TakeList, TakeURI, Open, ReadChunk, EndOfFile
<1>8. ASSUME NEW k \in Keys, Delete(k)
      PROVE  UNCHANGED <<data, flushed>>
  BY <1>8 DEF Delete
<1>9. UNCHANGED vars => UNCHANGED <<data, flushed>>
  BY DEF vars
<1>. QED BY <1>1, <1>2, <1>3, <1>4, <1>5, <1>6, <1>7, <1>8, <1>9 DEF Next, Write

\* Which steps bind a key, and to what.
LEMMA KeyBindings ==
    ASSUME StoreInv, Next, ~PowerCut
    PROVE  \/ \A k \in Keys : dir'[k] = dir[k] /\ past'[k] = past[k]
           \/ \E k \in Keys, b \in Files \cup {Absent} :
                /\ b # Absent => flushed[b] /\ Whole(b)
                /\ \A j \in Keys : j # k => dir'[j] = dir[j] /\ past'[j] = past[j]
                /\ dir'[k] = b /\ past'[k] = past[k] \cup {b}
<1>. TypeOK /\ PutInv /\ Keys \cap Temps = {} /\ Keys \subseteq Names /\ Temps \subseteq Names
  BY StoreOK DEF StoreInv, Names
<1>1. ASSUME NEW w \in Writers, NEW k \in Keys, NEW c \in Contents, NEW t \in Temps,
             CreateTemp(w, k, c, t)
      PROVE  \A j \in Keys : dir'[j] = dir[j] /\ past'[j] = past[j]
  <2>1. used + 1 \in Files
    BY <1>1, StoreOK DEF CreateTemp, Files, TypeOK
  <2>2. dir' = [dir EXCEPT ![t] = used + 1] /\ past' = [past EXCEPT ![t] = @ \cup {used + 1}]
    BY <1>1, <2>1, BindOne DEF CreateTemp
  <2>. QED BY <2>2 DEF TypeOK
<1>2. ASSUME NEW w \in Writers, RemoveTemp(w)
      PROVE  \A j \in Keys : dir'[j] = dir[j] /\ past'[j] = past[j]
  <2>1. put[w].temp \in Temps
    BY <1>2 DEF RemoveTemp, PutInv, PutSound
  <2>2. dir' = [dir EXCEPT ![put[w].temp] = Absent]
        /\ past' = [past EXCEPT ![put[w].temp] = @ \cup {Absent}]
    BY <1>2, <2>1, BindOne DEF RemoveTemp
  <2>. QED BY <2>1, <2>2 DEF TypeOK
<1>3. ASSUME NEW w \in Writers, Rename(w)
      PROVE  \E k \in Keys, b \in Files \cup {Absent} :
                /\ b # Absent => flushed[b] /\ Whole(b)
                /\ \A j \in Keys : j # k => dir'[j] = dir[j] /\ past'[j] = past[j]
                /\ dir'[k] = b /\ past'[k] = past[k] \cup {b}
  <2>1. PutSound(w)
    BY DEF PutInv
  <2>2. put[w].file \in Files /\ flushed[put[w].file] /\ Whole(put[w].file)
    BY <1>3, RenamedWhole DEF Whole
  <2>3. /\ \A j \in Keys : j # put[w].key => dir'[j] = dir[j] /\ past'[j] = past[j]
        /\ dir'[put[w].key] = put[w].file
        /\ past'[put[w].key] = past[put[w].key] \cup {put[w].file}
        /\ put[w].key \in Keys
    BY <1>3, <2>1, BindTwo DEF TypeOK
  <2>. QED BY <2>2, <2>3
<1>4. ASSUME NEW k \in Keys, Delete(k)
      PROVE  /\ \A j \in Keys : j # k => dir'[j] = dir[j] /\ past'[j] = past[j]
             /\ dir'[k] = Absent /\ past'[k] = past[k] \cup {Absent}
  <2>1. dir' = [dir EXCEPT ![k] = Absent] /\ past' = [past EXCEPT ![k] = @ \cup {Absent}]
    BY <1>4, BindOne DEF Delete
  <2>. QED BY <2>1 DEF TypeOK
<1>5. ASSUME NEW w \in Writers, CopyChunk(w) \/ Sync(w) \/ GiveUp(w) \/ Kill(w)
      PROVE  UNCHANGED <<dir, past>>
  BY <1>5 DEF CopyChunk, Sync, GiveUp, Kill
<1>6. ASSUME NEW r \in Readers, Read(r)
      PROVE  UNCHANGED <<dir, past>>
  BY <1>6 DEF Read, TakeList, TakeURI, Open, ReadChunk, EndOfFile
<1>. QED BY <1>1, <1>2, <1>3, <1>4, <1>5, <1>6 DEF Next, Write

\* What a key may be bound to stays whole and flushed.
LEMMA KeysStep ==
    ASSUME StoreInv, [Next]_vars
    PROVE  KeysWhole'
<1>. TypeOK /\ PutInv /\ KeysWhole /\ Keys \subseteq Names
  BY DEF StoreInv, Names
<1>1. ASSUME NEW f \in Files, flushed[f], Whole(f)
      PROVE  flushed'[f] /\ Whole(f)'
  BY <1>1, FlushedKept DEF Whole
<1>2. \A k \in Keys : past[k] \subseteq Files \cup {Absent}
  BY DEF TypeOK
<1>3. ASSUME NEW k \in Keys, dir'[k] \in past'[k],
             \A f \in past'[k] : f \in past[k]
                \/ (f \in Files \cup {Absent} /\ (f # Absent => flushed[f] /\ Whole(f)))
      PROVE  dir'[k] \in past'[k] /\ \A f \in past'[k] : f # Absent => flushed'[f] /\ Whole(f)'
  BY <1>1, <1>2, <1>3 DEF KeysWhole
<1>4. CASE PowerCut
  <2>1. \A k \in Keys : past'[k] = {dir'[k]} /\ dir'[k] \in past[k]
    BY <1>4 DEF PowerCut
  <2>. QED BY <1>3, <2>1 DEF KeysWhole
<1>5. CASE Next /\ ~PowerCut
  <2>1. CASE \A k \in Keys : dir'[k] = dir[k] /\ past'[k] = past[k]
    BY <1>3, <2>1 DEF KeysWhole
  <2>2. ASSUME NEW k \in Keys, NEW b \in Files \cup {Absent},
               b # Absent => flushed[b] /\ Whole(b),
               \A j \in Keys : j # k => dir'[j] = dir[j] /\ past'[j] = past[j],
               dir'[k] = b, past'[k] = past[k] \cup {b}
        PROVE  KeysWhole'
    BY <1>3, <2>2 DEF KeysWhole
  <2>. QED BY <1>5, <2>1, <2>2, KeyBindings
<1>6. CASE UNCHANGED vars
  BY <1>3, <1>6 DEF KeysWhole, vars
<1>. QED BY <1>4, <1>5, <1>6

-----------------------------------------------------------------------------
\* Readers only open files that are on the disk, and those never change.
LEMMA GetStep ==
    ASSUME StoreInv, [Next]_vars
    PROVE  GetInv'
<1>. TypeOK /\ PutInv /\ KeysWhole /\ GetInv /\ Keys \subseteq Names
  BY DEF StoreInv, Names
<1>1. ASSUME NEW r \in Readers, get'[r] = get[r]
      PROVE  GetSound(r)'
  <2>1. get[r].file # 0 => get[r].file \in Files
    BY StoreOK DEF TypeOK, Gets, Files
  <2>2. get[r].file # 0 => flushed'[get[r].file] /\ data'[get[r].file] = data[get[r].file]
    BY <2>1, FlushedKept DEF GetInv, GetSound
  <2>. QED BY <1>1, <2>2 DEF GetInv, GetSound
<1>2. ASSUME NEW r \in Readers, Read(r)
      PROVE  GetInv'
  <2>1. \A x \in Readers : x # r => get'[x] = get[x]
    <3>1. get \in [Readers -> Gets]
      BY DEF TypeOK
    <3>2. TakeList(r) \/ (\E k \in Keys : TakeURI(r, k)) \/ EndOfFile(r)
          => \A x \in Readers : x # r => get'[x] = get[x]
      BY <3>1 DEF TakeList, TakeURI, EndOfFile
    <3>3. ReadChunk(r) \/ (\E n \in Names : Open(r, n))
          => \A x \in Readers : x # r => get'[x] = get[x]
      BY <3>1 DEF ReadChunk, Open
    <3>. QED BY <1>2, <3>2, <3>3 DEF Read
  <2>2. get[r] \in Gets /\ GetSound(r) /\ get \in [Readers -> Gets]
    BY DEF GetInv, TypeOK
  <2>3. CASE TakeList(r)
    <3>1. get'[r] = [get[r] EXCEPT !.todo = List \cap Keys] /\ UNCHANGED <<data, flushed>>
      BY <2>2, <2>3 DEF TakeList
    <3>2. get'[r].todo \subseteq Keys /\ get'[r].file = get[r].file /\ get'[r].got = get[r].got
      BY <2>2, <3>1 DEF Gets
    <3>3. GetSound(r)'
      BY <2>2, <3>1, <3>2 DEF GetSound
    <3>. QED BY <1>1, <2>1, <3>3 DEF GetInv
  <2>4. ASSUME NEW k \in Keys, TakeURI(r, k)
        PROVE  GetInv'
    <3>1. get'[r] = [get[r] EXCEPT !.todo = {k}] /\ UNCHANGED <<data, flushed>>
      BY <2>2, <2>4 DEF TakeURI
    <3>2. get'[r].todo \subseteq Keys /\ get'[r].file = get[r].file /\ get'[r].got = get[r].got
      BY <2>2, <3>1 DEF Gets
    <3>3. GetSound(r)'
      BY <2>2, <3>1, <3>2 DEF GetSound
    <3>. QED BY <1>1, <2>1, <3>3 DEF GetInv
  <2>5. ASSUME NEW n \in Names, Open(r, n)
        PROVE  GetInv'
    <3>1. n \in Keys /\ get[r].got = <<>> /\ UNCHANGED <<data, flushed>>
      BY <2>2, <2>5 DEF Open, GetSound
    <3>2. /\ get'[r].todo = get[r].todo \ {n} /\ get'[r].got = get[r].got
          /\ get'[r].file = IF dir[n] = Absent THEN 0 ELSE dir[n]
      BY <2>2, <2>5 DEF Open, Gets
    <3>3. dir[n] # Absent => flushed[dir[n]] /\ Whole(dir[n])
      BY <3>1 DEF KeysWhole
    <3>4. Len(<<>>) = 0
      OBVIOUS
    <3>5. GetSound(r)'
      BY <2>2, <3>1, <3>2, <3>3, <3>4, StoreOK DEF GetSound, Whole
    <3>. QED BY <1>1, <2>1, <3>5 DEF GetInv
  <2>6. CASE ReadChunk(r)
    <3>1. UNCHANGED <<data, flushed>> /\ get[r].file # 0 /\ Len(get[r].got) < Chunks
      BY <2>6 DEF ReadChunk
    <3>2. PICK c \in Contents : data[get[r].file] = Filled(c)
                             /\ \A i \in 1 .. Len(get[r].got) : get[r].got[i] = c
      BY <2>2, <3>1 DEF GetSound
    <3>3. get[r].got \in Seq(Contents \cup {Blank}) /\ Len(get[r].got) \in Nat
          /\ Len(get[r].got) + 1 \in Piece
      BY <2>2, <3>1, StoreOK DEF Gets, Piece
    <3>4. data[get[r].file][Len(get[r].got) + 1] = c
      BY <3>2, <3>3 DEF Filled
    <3>5. get'[r].todo = get[r].todo /\ get'[r].file = get[r].file
          /\ get'[r].got = Append(get[r].got, c)
      BY <2>2, <2>6, <3>4 DEF ReadChunk, Gets
    <3>6. /\ Len(get'[r].got) = Len(get[r].got) + 1
          /\ \A i \in 1 .. Len(get'[r].got) : get'[r].got[i] = c
      BY <3>2, <3>3, <3>5
    <3>7. GetSound(r)'
      BY <2>2, <3>1, <3>2, <3>3, <3>5, <3>6, StoreOK DEF GetSound
    <3>. QED BY <1>1, <2>1, <3>7 DEF GetInv
  <2>7. CASE EndOfFile(r)
    <3>1. get'[r].todo = get[r].todo /\ get'[r].file = 0 /\ get'[r].got = <<>>
      BY <2>2, <2>7 DEF EndOfFile, Gets
    <3>2. GetSound(r)'
      BY <2>2, <3>1 DEF GetSound
    <3>. QED BY <1>1, <2>1, <3>2 DEF GetInv
  <2>. QED BY <1>2, <2>3, <2>4, <2>5, <2>6, <2>7 DEF Read
<1>3. CASE PowerCut
  BY <1>3 DEF PowerCut, NoGet, GetInv, GetSound
<1>4. CASE UNCHANGED get
  BY <1>1, <1>4 DEF GetInv
<1>5. ASSUME NEW w \in Writers, Write(w) \/ Kill(w)
      PROVE  UNCHANGED get
  BY <1>5 DEF Write, CreateTemp, CopyChunk, Sync, Rename, GiveUp, RemoveTemp, Kill
<1>6. ASSUME NEW k \in Keys, Delete(k)
      PROVE  UNCHANGED get
  BY <1>6 DEF Delete
<1>. QED BY <1>2, <1>3, <1>4, <1>5, <1>6 DEF Next, vars

\* The invariant holds at the start,
LEMMA StoreInit == Init => StoreInv /\ PartialsAccounted
<1>. SUFFICES ASSUME Init PROVE StoreInv /\ PartialsAccounted
  OBVIOUS
<1>1. TypeOK
  <2>1. put \in [Writers -> Puts] /\ get \in [Readers -> Gets]
    BY StoreOK DEF Init, NoPut, NoGet, Puts, Gets
  <2>2. data \in [Files -> [Piece -> Contents \cup {Blank}]]
    BY DEF Init, Empty
  <2>. QED BY <2>1, <2>2, StoreOK DEF Init, TypeOK
<1>2. PutInv
  BY DEF Init, PutInv, PutSound, Apart, Filling, NoPut
<1>3. KeysWhole /\ GetInv
  BY DEF Init, KeysWhole, Names, GetInv, GetSound, NoGet
<1>4. PartialsAccounted
  BY DEF Init, PartialsAccounted, Names
<1>. QED BY <1>1, <1>2, <1>3, <1>4 DEF StoreInv

\* and every step keeps it.
LEMMA StoreStep == StoreInv /\ [Next]_vars => StoreInv'
BY TypeStep, PutStep, KeysStep, GetStep DEF StoreInv

\* The store's invariant holds for every set of writers, readers, keys, temporary
\* names and contents, and any number of evictions and power cuts (fs.go).
THEOREM StoreInvHolds == Spec => []StoreInv
BY StoreInit, StoreStep, PTL DEF Spec

\* Every read that reaches the end of its file returns one whole artifact
\* (fs.go Get and List, store.go Verify, coordinator.go resume, trainer readAll).
THEOREM ReadsWholeHolds == Spec => []ReadsWhole
<1>1. StoreInv => ReadsWhole
  <2>. SUFFICES ASSUME StoreInv, NEW r \in Readers,
                       get[r].file # 0, Len(get[r].got) = Chunks
                PROVE  \E c \in Contents : get[r].got = Filled(c)
    BY DEF ReadsWhole
  <2>1. PICK c \in Contents : \A i \in 1 .. Chunks : get[r].got[i] = c
    BY DEF StoreInv, GetInv, GetSound
  <2>2. get[r].got \in Seq(Contents \cup {Blank})
    BY DEF StoreInv, TypeOK, Gets
  <2>3. get[r].got = [i \in 1 .. Chunks |-> c]
    BY <2>1, <2>2
  <2>. QED BY <2>3 DEF Filled, Piece
<1>. QED BY <1>1, StoreInvHolds, PTL

-----------------------------------------------------------------------------
\* What the two directories mean to the abstract store after a step that keeps
\* the files the keys may be bound to.
LEMMA MeaningKept ==
    ASSUME StoreInv, [Next]_vars, NEW k \in Keys, NEW f \in past[k]
    PROVE  ContentOf(f)' = ContentOf(f)
<1>1. f # Absent => f \in Files /\ flushed[f]
  BY DEF StoreInv, KeysWhole, TypeOK, Names
<1>2. f # Absent => data'[f] = data[f]
  BY <1>1, FlushedKept DEF StoreInv
<1>. QED BY <1>2 DEF ContentOf, Whole

\* Every step of the store is a step of the abstract one, or hidden from it.
LEMMA StoreRefines ==
    ASSUME StoreInv, [Next]_vars
    PROVE  [Abstract!Next]_(Abstract!artVars)
<1>. TypeOK /\ PutInv /\ KeysWhole /\ Keys \subseteq Names
  BY DEF StoreInv, Names
<1>1. \A k \in Keys : dir[k] \in past[k]
  BY DEF KeysWhole
<1>2. ASSUME NEW f \in Files \cup {Absent}, f # Absent => Whole(f)
      PROVE  ContentOf(f) \in Contents \cup {Absent}
  <2>1. ASSUME NEW c \in Contents, data[f] = Filled(c) PROVE data[f][1] \in Contents
    <3>1. 1 \in Piece
      BY StoreOK DEF Piece
    <3>. QED BY <2>1, <3>1 DEF Filled
  <2>. QED BY <1>2, <2>1 DEF ContentOf, Whole
<1>3. \A k \in Keys : \A f \in past[k] : ContentOf(f)' = ContentOf(f)
  BY MeaningKept
<1>4. ASSUME NEW k \in Keys, dir'[k] = dir[k], past'[k] = past[k]
      PROVE  Held'[k] = Held[k] /\ MayHold'[k] = MayHold[k]
  BY <1>1, <1>3, <1>4 DEF Held, MayHold
<1>5. ASSUME NEW k \in Keys, NEW b \in Files \cup {Absent},
             b # Absent => flushed[b] /\ Whole(b),
             dir'[k] = b, past'[k] = past[k] \cup {b}
      PROVE  /\ Held'[k] = ContentOf(b)
             /\ MayHold'[k] = MayHold[k] \cup {ContentOf(b)}
  <2>1. ContentOf(b)' = ContentOf(b)
    BY <1>5, FlushedKept DEF ContentOf, Whole
  <2>2. Held'[k] = ContentOf(b)
    BY <1>5, <2>1 DEF Held
  <2>3. MayHold'[k] = {ContentOf(f)' : f \in past[k] \cup {b}}
    BY <1>5 DEF MayHold
  <2>4. MayHold[k] = {ContentOf(f) : f \in past[k]}
    BY DEF MayHold
  <2>. QED BY <1>3, <2>1, <2>2, <2>3, <2>4
<1>6. CASE Next /\ ~PowerCut
  <2>1. CASE \A k \in Keys : dir'[k] = dir[k] /\ past'[k] = past[k]
    <3>1. Held' = Held /\ MayHold' = MayHold
      BY <1>4, <2>1 DEF Held, MayHold
    <3>. QED BY <3>1 DEF Abstract!artVars
  <2>2. ASSUME NEW k \in Keys, NEW b \in Files \cup {Absent},
               b # Absent => flushed[b] /\ Whole(b),
               \A j \in Keys : j # k => dir'[j] = dir[j] /\ past'[j] = past[j],
               dir'[k] = b, past'[k] = past[k] \cup {b}
        PROVE  Abstract!Next
    <3>1. \A j \in Keys : j # k => Held'[j] = Held[j] /\ MayHold'[j] = MayHold[j]
      BY <1>4, <2>2
    <3>2. Held'[k] = ContentOf(b) /\ MayHold'[k] = MayHold[k] \cup {ContentOf(b)}
      BY <1>5, <2>2
    <3>3. Held' = [Held EXCEPT ![k] = ContentOf(b)]
      BY <3>1, <3>2 DEF Held
    <3>4. MayHold' = [MayHold EXCEPT ![k] = @ \cup {ContentOf(b)}]
      BY <3>1, <3>2 DEF MayHold
    <3>5. ContentOf(b) \in Contents \cup {Absent}
      BY <1>2, <2>2
    <3>6. Abstract!Put(k) \/ Abstract!Delete(k)
      BY <3>3, <3>4, <3>5 DEF Abstract!Put, Abstract!Delete, Abstract!Hold
    <3>. QED BY <3>6 DEF Abstract!Next
  <2>. QED BY <1>6, <2>1, <2>2, KeyBindings
<1>7. CASE PowerCut
  <2>1. \A k \in Keys : dir'[k] \in past[k] /\ past'[k] = {dir'[k]}
    BY <1>7 DEF PowerCut
  <2>2. \A k \in Keys : Held'[k] = ContentOf(dir'[k])
    <3>1. \A k \in Keys : Held'[k] = ContentOf(dir[k])'
      BY DEF Held
    <3>2. ASSUME NEW k \in Keys PROVE ContentOf(dir[k])' = ContentOf(dir'[k])
      <4>1. dir'[k] # Absent => data'[dir'[k]] = data[dir'[k]]
        BY <2>1, FlushedKept DEF KeysWhole, TypeOK
      <4>. QED BY <4>1 DEF ContentOf, Whole
    <3>. QED BY <3>1, <3>2
  <2>3. \A k \in Keys : MayHold'[k] = {Held'[k]}
    BY <2>1 DEF Held, MayHold
  <2>4. \A k \in Keys : Held'[k] \in MayHold[k]
    BY <2>1, <2>2 DEF MayHold
  <2>5. \A k \in Keys : Held'[k] \in Contents \cup {Absent}
    BY <1>2, <2>1, <2>2 DEF KeysWhole, TypeOK
  <2>6. Held' \in [Keys -> Contents \cup {Absent}]
    BY <2>5 DEF Held
  <2>7. MayHold' = [k \in Keys |-> {Held'[k]}]
    BY <2>3 DEF MayHold
  <2>8. Abstract!PowerCut
    BY <2>4, <2>6, <2>7 DEF Abstract!PowerCut
  <2>. QED BY <2>8 DEF Abstract!Next
<1>8. CASE UNCHANGED vars
  <2>1. Held' = Held /\ MayHold' = MayHold
    BY <1>8 DEF vars, Held, MayHold, ContentOf, Whole
  <2>. QED BY <2>1 DEF Abstract!artVars
<1>. QED BY <1>6, <1>7, <1>8

\* The filesystem store implements the abstract one through evictions and power
\* cuts: a key holds a whole artifact or none (fs.go Put, Delete).
THEOREM StoreImplemented == Spec => ImplementsStore
<1>1. Init => Abstract!Init
  <2>1. Init => \A k \in Keys : dir[k] = Absent /\ past[k] = {Absent}
    BY DEF Init, Names
  <2>2. ContentOf(Absent) = Absent
    BY DEF ContentOf
  <2>. QED BY <2>1, <2>2 DEF Abstract!Init, Held, MayHold
<1>. QED BY <1>1, StoreInvHolds, StoreRefines, PTL DEF Spec, ImplementsStore, Abstract!Spec

-----------------------------------------------------------------------------
\* Without an eviction or a power cut every temporary file has its Put.
LEMMA PartialsStep ==
    ASSUME StoreInv, PartialsAccounted, [Next]_vars
    PROVE  PartialsAccounted'
<1>. TypeOK /\ PutInv /\ Keys \cap Temps = {} /\ Temps \subseteq Names /\ put \in [Writers -> Puts]
  BY StoreOK DEF StoreInv, Names, TypeOK
<1>1. ASSUME kills' = kills, cuts' = cuts,
             \A t \in Temps : dir'[t] # Absent =>
                \/ dir[t] # Absent
                \/ \E w \in Writers : put'[w].at # "idle" /\ put'[w].temp = t,
             \A w \in Writers :
                \/ put'[w].at # "idle" /\ put'[w].temp = put[w].temp
                \/ put[w].at = "idle"
                \/ put[w].temp \in Temps /\ dir'[put[w].temp] = Absent
      PROVE  PartialsAccounted'
  BY <1>1 DEF PartialsAccounted
<1>2. ASSUME NEW w \in Writers, NEW k \in Keys, NEW c \in Contents, NEW t \in Temps,
             CreateTemp(w, k, c, t)
      PROVE  PartialsAccounted'
  <2>1. used + 1 \in Files
    BY <1>2, StoreOK DEF CreateTemp, Files, TypeOK
  <2>2. dir' = [dir EXCEPT ![t] = used + 1]
    BY <1>2, <2>1, BindOne DEF CreateTemp
  <2>3. put'[w].at = "copying" /\ put'[w].temp = t /\ put[w].at = "idle"
        /\ \A v \in Writers : v # w => put'[v] = put[v]
    BY <1>2 DEF CreateTemp
  <2>4. kills' = kills /\ cuts' = cuts
    BY <1>2 DEF CreateTemp
  <2>5. \A v \in Writers : (put'[v].at # "idle" /\ put'[v].temp = put[v].temp) \/ put[v].at = "idle"
    BY <2>3
  <2>6. \A x \in Temps : dir'[x] # Absent => dir[x] # Absent \/ x = t
    BY <2>2 DEF TypeOK
  <2>. QED BY <1>1, <2>3, <2>4, <2>5, <2>6
<1>3. ASSUME NEW w \in Writers, CopyChunk(w) \/ Sync(w) \/ GiveUp(w)
      PROVE  PartialsAccounted'
  <2>1. UNCHANGED <<dir, kills, cuts>>
    BY <1>3 DEF CopyChunk, Sync, GiveUp
  <2>2. \A v \in Writers : put'[v].temp = put[v].temp /\ (put[v].at # "idle" => put'[v].at # "idle")
    BY <1>3 DEF CopyChunk, Sync, GiveUp, Puts
  <2>. QED BY <1>1, <2>1, <2>2
<1>4. ASSUME NEW w \in Writers, Rename(w)
      PROVE  PartialsAccounted'
  <2>1. PutSound(w)
    BY DEF PutInv
  <2>2. kills' = kills /\ cuts' = cuts
    BY <1>4 DEF Rename
  <2>3. \A v \in Writers : put'[v].temp = put[v].temp /\ (put[v].at # "idle" => put'[v].at # "idle")
    BY <1>4 DEF Rename, Puts
  <2>4. \A t \in Temps : dir'[t] # Absent => dir[t] # Absent
    BY <1>4, <2>1, BindTwo DEF TypeOK
  <2>. QED BY <1>1, <2>2, <2>3, <2>4
<1>5. ASSUME NEW w \in Writers, RemoveTemp(w)
      PROVE  PartialsAccounted'
  <2>1. put[w].temp \in Temps
    BY <1>5 DEF RemoveTemp, PutInv, PutSound
  <2>2. dir' = [dir EXCEPT ![put[w].temp] = Absent]
    BY <1>5, <2>1, BindOne DEF RemoveTemp
  <2>3. kills' = kills /\ cuts' = cuts /\ \A v \in Writers : v # w => put'[v] = put[v]
    BY <1>5 DEF RemoveTemp
  <2>4. dir'[put[w].temp] = Absent /\ \A t \in Temps : dir'[t] # Absent => dir[t] # Absent
    BY <2>1, <2>2 DEF TypeOK
  <2>. QED BY <1>1, <2>1, <2>3, <2>4
<1>6. ASSUME NEW k \in Keys, Delete(k)
      PROVE  PartialsAccounted'
  <2>1. dir' = [dir EXCEPT ![k] = Absent]
    BY <1>6, BindOne DEF Delete, Names
  <2>2. \A t \in Temps : dir'[t] = dir[t]
    BY <2>1 DEF TypeOK
  <2>3. UNCHANGED <<put, kills, cuts>>
    BY <1>6 DEF Delete
  <2>. QED BY <1>1, <2>2, <2>3
<1>7. ASSUME NEW w \in Writers, Kill(w)
      PROVE  PartialsAccounted'
  BY <1>7 DEF Kill, PartialsAccounted, TypeOK
<1>8. CASE PowerCut
  BY <1>8 DEF PowerCut, PartialsAccounted, TypeOK
<1>9. ASSUME NEW r \in Readers, Read(r)
      PROVE  PartialsAccounted'
  <2>1. UNCHANGED <<dir, put, kills, cuts>>
    BY <1>9 DEF Read, TakeList, TakeURI, Open, ReadChunk, EndOfFile
  <2>. QED BY <1>1, <2>1
<1>10. CASE UNCHANGED vars
  BY <1>10 DEF vars, PartialsAccounted
<1>. QED BY <1>2, <1>3, <1>4, <1>5, <1>6, <1>7, <1>8, <1>9, <1>10 DEF Next, Write

\* Put leaves nothing behind on any path of its own; only an eviction or a power
\* cut makes temporary files accumulate (fs.go:138).
THEOREM PartialsAccountedHolds == Spec => []PartialsAccounted
BY StoreInit, StoreStep, PartialsStep, PTL DEF Spec
=============================================================================
