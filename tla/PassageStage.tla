---------------------------- MODULE PassageStage ----------------------------
(* Stages 1B and 1C: a thread pool generates rows for each passage, the    *)
(* main thread appends the rows of a finished passage to one file and its  *)
(* status to another, and a resumed run reads both to see what is left.    *)
(* main() of build_v2_dataset.py decides from progress.json whether the    *)
(* stage is called at all.                                                 *)
EXTENDS Naturals, Sequences, FiniteSets

CONSTANTS
    Passages,       \* the passages selected for the stage
    MaxPairs,       \* bound on the valid pairs of one response
    MaxRuns         \* bound on the starts of the program

ASSUME BoundAssumption == MaxPairs \in Nat \ {0} /\ MaxRuns \in Nat

VARIABLES
    stage,          \* "1b" or "1c"
    rows,           \* lines of the row file; `run` is the run that wrote one
    tornRows,       \* the row file ends in half a line
    log,            \* lines of the status file, at most one of a passage and run
    tornLog,
    marked,         \* progress.json lists the stage as completed
    pc,             \* where the program is; "off": no program runs
    pending,        \* submitted futures not yet collected
    cur,            \* the collected result being written
    mem,            \* all_rows
    runs,
    emptied         \* history: the last run that unlinked the row file

files == <<rows, tornRows, log, tornLog>>
vars == <<stage, files, marked, pc, pending, cur, mem, runs, emptied>>

NoRowStatuses1b == {"no_seed_vector", "no_neighbors", "llm_empty", "no_pairs", "no_valid_pairs"}
NoRowStatuses1c == {"llm_empty", "no_pairs", "no_valid_pairs"}
NoRowStatuses == IF stage = "1b" THEN NoRowStatuses1b ELSE NoRowStatuses1c
Statuses == NoRowStatuses1b \cup {"complete", "exception"}

Terminal1b == {"no_seed_vector", "no_neighbors"}
Terminal1c == {"no_pairs", "no_valid_pairs"}
Terminal == IF stage = "1b" THEN Terminal1b ELSE Terminal1c

Line == [p : Passages, run : Nat]
Result == [p : Passages, status : Statuses, n : 0..MaxPairs, run : Nat]
Nothing == [p |-> "none"]
PCs == {"off", "clearing", "running", "writing", "logging", "returned", "done"}

TypeOK ==
    /\ stage \in {"1b", "1c"}
    /\ rows \in Seq(Line) /\ mem \in Seq(Line)
    /\ tornRows \in BOOLEAN /\ tornLog \in BOOLEAN /\ marked \in BOOLEAN
    /\ log \subseteq Result
    /\ pc \in PCs
    /\ pending \subseteq Passages
    /\ IF pc \in {"writing", "logging"} THEN cur \in Result ELSE cur = Nothing
    /\ runs \in Nat /\ emptied \in Nat

Init ==
    /\ stage \in {"1b", "1c"}
    /\ rows = <<>> /\ tornRows = FALSE /\ log = {} /\ tornLog = FALSE
    /\ marked = FALSE /\ pc = "off" /\ pending = {} /\ cur = Nothing /\ mem = <<>>
    /\ runs = 0 /\ emptied = 0

Idle == pc \in {"off", "done"} /\ runs < MaxRuns

RowsOf(file, p) == {i \in DOMAIN file : file[i].p = p}
Latest(p) == {l \in log : l.p = p /\ \A m \in log : m.p = p => m.run <= l.run}

\* rows_by_passage, or a terminal latest status.
MutSettled(p) == \E l \in Latest(p) : l.status \in Terminal \cup {"complete"}
Settled(p) == RowsOf(rows, p) # {} \/ \E l \in Latest(p) : l.status \in Terminal

\* Without --resume the row file is unlinked, then the status file;
\* progress.json stays as it is.
ClearRows ==
    /\ Idle
    /\ rows' = <<>> /\ tornRows' = FALSE
    /\ mem' = <<>> /\ pc' = "clearing"
    /\ runs' = runs + 1 /\ emptied' = runs + 1
    /\ UNCHANGED <<stage, log, tornLog, marked, pending, cur>>

ClearLog ==
    /\ pc = "clearing"
    /\ log' = {} /\ tornLog' = FALSE /\ pending' = Passages
    /\ pc' = IF Passages = {} THEN "returned" ELSE "running"
    /\ UNCHANGED <<stage, rows, tornRows, marked, cur, mem, runs, emptied>>

\* --resume, and progress.json says done: the rows are read, nothing is run.
SkipDone ==
    /\ Idle /\ marked /\ ~tornRows
    /\ mem' = rows /\ pc' = "done" /\ runs' = runs + 1
    /\ UNCHANGED <<stage, files, marked, pending, cur, emptied>>

MutKnownRows == <<>>
KnownRows == rows

Resume ==
    /\ Idle /\ ~marked /\ ~tornRows /\ ~tornLog
    /\ pending' = {p \in Passages : ~Settled(p)}
    /\ mem' = KnownRows
    /\ pc' = IF pending' = {} THEN "returned" ELSE "running"
    /\ runs' = runs + 1
    /\ UNCHANGED <<stage, files, marked, cur, emptied>>

\* Half a line is not JSON: reading the file raises and ends the program.
ReadFails ==
    /\ Idle /\ (tornRows \/ (~marked /\ tornLog))
    /\ pc' = "off" /\ mem' = <<>> /\ runs' = runs + 1
    /\ UNCHANGED <<stage, files, marked, pending, cur, emptied>>

\* What a worker makes of a passage: valid pairs, or a status that says why
\* there are none, or an exception.
Outcomes1b ==
    {[status |-> s, n |-> 0] : s \in NoRowStatuses1b} \cup {[status |-> "complete", n |-> k] : k \in 1..MaxPairs}
Outcomes1c ==
    {[status |-> s, n |-> 0] : s \in NoRowStatuses1c} \cup {[status |-> "complete", n |-> k] : k \in 1..MaxPairs}
Outcomes == IF stage = "1b" THEN Outcomes1b ELSE Outcomes1c

MutAfterCollect(n) == "logging"
MutSilent(n) == IF n > 0 THEN "writing" ELSE "running"
AfterCollect(n) == IF n > 0 THEN "writing" ELSE "logging"

Finished(p, o) ==
    /\ cur' = [p |-> p, status |-> o.status, n |-> o.n, run |-> runs]
    /\ pending' = pending \ {p}
    /\ pc' = AfterCollect(o.n)
    /\ UNCHANGED <<stage, files, marked, mem, runs, emptied>>

\* as_completed gives the futures in any order.
Collect(p) ==
    /\ pc = "running" /\ p \in pending
    /\ \E o \in Outcomes : Finished(p, o)

CollectException(p) ==
    /\ pc = "running" /\ p \in pending
    /\ Finished(p, [status |-> "exception", n |-> 0])

Lines(n) == [i \in 1..n |-> [p |-> cur.p, run |-> cur.run]]

\* Written, flushed and synced; then the list in memory is extended.
AppendRows ==
    /\ pc = "writing"
    /\ rows' = rows \o Lines(cur.n)
    /\ mem' = mem \o Lines(cur.n)
    /\ pc' = "logging"
    /\ UNCHANGED <<stage, tornRows, log, tornLog, marked, pending, cur, runs, emptied>>

AppendStatus ==
    /\ pc = "logging"
    /\ log' = log \cup {cur}
    /\ cur' = Nothing /\ pc' = "running"
    /\ UNCHANGED <<stage, rows, tornRows, tornLog, marked, pending, mem, runs, emptied>>

Return ==
    /\ pc = "running" /\ pending = {}
    /\ pc' = "returned"
    /\ UNCHANGED <<stage, files, marked, pending, cur, mem, runs, emptied>>

\* progress.mark_done, called whatever the statuses were.
MarkDone ==
    /\ pc = "returned"
    /\ marked' = TRUE /\ pc' = "done"
    /\ UNCHANGED <<stage, files, pending, cur, mem, runs, emptied>>

MutKilled == pc' = "off" /\ pending' = {} /\ UNCHANGED cur /\ mem' = <<>>
Killed == pc' = "off" /\ pending' = {} /\ cur' = Nothing /\ mem' = <<>>

Kill ==
    /\ pc \notin {"off", "done"}
    /\ Killed
    /\ UNCHANGED <<stage, files, marked, runs, emptied>>

\* The rows of a passage go to the file in several writes of the buffer.
KillInRows ==
    /\ pc = "writing"
    /\ \E k \in 0..cur.n - 1 : rows' = rows \o Lines(k)
    /\ tornRows' \in BOOLEAN
    /\ Killed
    /\ UNCHANGED <<stage, log, tornLog, marked, runs, emptied>>

KillInStatus ==
    /\ pc = "logging"
    /\ tornLog' = TRUE
    /\ Killed
    /\ UNCHANGED <<stage, rows, tornRows, log, marked, runs, emptied>>

Next ==
    \/ ClearRows \/ ClearLog \/ SkipDone \/ Resume \/ ReadFails
    \/ \E p \in Passages : Collect(p) \/ CollectException(p)
    \/ AppendRows \/ AppendStatus \/ Return \/ MarkDone
    \/ Kill \/ KillInRows \/ KillInStatus

Working == ClearLog \/ AppendRows \/ AppendStatus \/ Return \/ MarkDone \/ \E p \in Passages : Collect(p) \/ CollectException(p)

Spec == Init /\ [][Next]_vars /\ WF_vars(Working)

---------------------------------------------------------------------------

\* A passage never gets rows from two runs: a resumed run generates only for
\* passages without rows (run_stage1b, run_stage1c). Refinement of RecordOnce.
Runs(p) == {rows[i].run : i \in RowsOf(rows, p)}
Kept == INSTANCE RecordOnce WITH Item <- Passages, Attempt <- 1..MaxRuns, out <- [p \in Passages |-> Runs(p)]
RowsOfOneRun == Kept!Spec

\* A status of rows is backed: that number of rows of its passage is in the
\* row file, wherever a run was killed, for rows are synced before the status
\* is. Only a status that is older than the row file counts rows of no file:
\* the run that unlinked the rows was killed before it unlinked the statuses.
Backed(l) == Cardinality(RowsOf(rows, l.p)) = l.n
StatusBacked == \A l \in log : l.n > 0 => Backed(l) \/ l.run < emptied

\* The list a stage returns is its file, line by line: stage 2 keys its
\* work by position in that list and must find the same positions when it
\* is resumed from the file.
ReturnedIsFile == pc \in {"returned", "done"} => mem = rows

\* When the stage returns, every passage has rows, or its latest status says
\* why it has none: a status left behind without its rows hides no passage.
EveryPassageAccounted ==
    pc = "returned" => \A p \in Passages : RowsOf(rows, p) # {} \/ \E l \in Latest(p) : l.n = 0

\* What the status file says of rows, and in the end of every passage.
StatusFileTrue == StatusBacked /\ EveryPassageAccounted
=============================================================================
