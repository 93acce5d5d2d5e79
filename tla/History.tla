------------------------------ MODULE History ------------------------------
(***************************************************************************)
(* The dashboard's training history (internal/dashboard/history.go): an    *)
(* append-only file of JSON lines and the records held in memory.          *)
(*                                                                         *)
(* A line is its record, or Torn when it does not parse.  The last line    *)
(* may lack its newline; what is appended then joins it, and the joined    *)
(* line does not parse, not even if both parts would.                      *)
(***************************************************************************)
EXTENDS Integers, FiniteSets, SequencesExt

CONSTANTS
    Records,       \* what may be recorded
    Torn,          \* a line that does not parse
    MaxFailures,   \* bound: appends that fail
    MaxRestarts    \* bound: restarts of the dashboard

ASSUME HistoryConstants ==
    /\ Torn \notin Records
    /\ MaxFailures \in Nat /\ MaxRestarts \in Nat

VARIABLES
    file,      \* the lines
    open,      \* the last line lacks its newline
    records,   \* in memory; their order only matters to the page
    appends,   \* history: calls of Append that returned nil
    failures, restarts

historyVars == <<file, open, records, appends, failures, restarts>>

InitHistory ==
    /\ file = <<>> /\ open = FALSE
    /\ records = {}
    /\ appends = 0 /\ failures = 0 /\ restarts = 0

\* The whole line and its newline.
WriteLine(r) ==
    /\ file' = IF open THEN [file EXCEPT ![Len(file)] = Torn] ELSE Append(file, r)
    /\ open' = FALSE

\* Some of it, all but the newline included.
WritePart(r) ==
    /\ open' = TRUE
    /\ IF open THEN file' = [file EXCEPT ![Len(file)] = Torn]
               ELSE \E line \in {r, Torn} : file' = Append(file, line)

\* Mutant: the line is not written.
AppendUnwritten(r) ==
    /\ records' = records \cup {r} /\ appends' = appends + 1
    /\ UNCHANGED <<file, open, failures, restarts>>

AppendRecord(r) ==
    /\ WriteLine(r)
    /\ records' = records \cup {r} /\ appends' = appends + 1
    /\ UNCHANGED <<failures, restarts>>

\* OpenFile, Write or Sync fails, or the process dies on the way.
AppendFails(r) ==
    /\ failures < MaxFailures /\ failures' = failures + 1
    /\ \/ UNCHANGED <<file, open>>
       \/ WritePart(r)
       \/ WriteLine(r)
    /\ UNCHANGED <<records, appends, restarts>>

\* The file is read again.
NewHistory ==
    /\ restarts < MaxRestarts /\ restarts' = restarts + 1
    /\ records' = Range(file) \ {Torn}
    /\ UNCHANGED <<file, open, appends, failures>>

-----------------------------------------------------------------------------
HistoryTypeOK ==
    /\ file \in Seq(Records \cup {Torn})
    /\ open \in BOOLEAN /\ (open => file # <<>>)
    /\ records \in SUBSET Records
    /\ appends \in Nat /\ failures \in Nat /\ restarts \in Nat

Intact == Cardinality({i \in DOMAIN file : file[i] # Torn})

\* A failed append costs, at most, one record besides its own: the one that is
\* appended to the line it left behind.
LossBounded == appends <= Intact + failures
=============================================================================
