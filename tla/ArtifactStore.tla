--------------------------- MODULE ArtifactStore ---------------------------
(***************************************************************************)
(* What internal/store promises of Put, Get, Delete and List: a key holds  *)
(* one whole artifact or none.  Nothing is said of the bytes of an         *)
(* artifact, of temporary names, or of the order in which a disk is        *)
(* written; the filesystem store of FSStore.tla has to hide all of that.   *)
(*                                                                         *)
(* Durability is the one weakness it admits: the directory is not flushed, *)
(* so a power cut may bring back, at each key, anything the key held since *)
(* the last one.                                                           *)
(***************************************************************************)
CONSTANTS Keys, Contents, Absent

VARIABLES
    art,      \* what a reader finds at each key
    before    \* what a power cut may leave there

artVars == <<art, before>>

TypeOK ==
    /\ art \in [Keys -> Contents \cup {Absent}]
    /\ before \in [Keys -> SUBSET (Contents \cup {Absent})]

Init ==
    /\ art = [k \in Keys |-> Absent]
    /\ before = [k \in Keys |-> {Absent}]

Hold(k, c) ==
    /\ art' = [art EXCEPT ![k] = c]
    /\ before' = [before EXCEPT ![k] = @ \cup {c}]

Put(k) == \E c \in Contents : Hold(k, c)
Delete(k) == Hold(k, Absent)

PowerCut ==
    \E found \in [Keys -> Contents \cup {Absent}] :
        /\ \A k \in Keys : found[k] \in before[k]
        /\ art' = found
        /\ before' = [k \in Keys |-> {found[k]}]

Next == PowerCut \/ \E k \in Keys : Put(k) \/ Delete(k)

Spec == Init /\ [][Next]_artVars
=============================================================================
