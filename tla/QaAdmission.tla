---------------------------- MODULE QaAdmission ----------------------------
(* Stage 2: a judge admits, refines or drops every row that stages 1A to   *)
(* 1.5 produced. A row goes to the file of kept or of dropped rows, then   *)
(* its decision goes to the quality file; a resumed run reads all three to *)
(* see which rows have a final verdict. build_v2_dataset.py calls the      *)
(* stage on every start, whatever progress.json says.                      *)
EXTENDS Naturals, FiniteSets

CONSTANTS
    Work,           \* work ids: a row with its position in the input
    MaxRuns         \* bound on the starts of the program

ASSUME RunsAssumption == MaxRuns \in Nat

VARIABLES
    input,          \* work ids of the rows the stage is given
    kept,           \* lines of stage2_eval.jsonl
    dropped,        \* lines of stage2_dropped.jsonl
    quality,        \* lines of provenance/stage2_quality.jsonl
    torn,           \* the files that end in half a line
    pc,
    pending,        \* submitted futures not yet collected
    cur,            \* the collected result being written
    memKept, memDropped,
    runs,
    emptied         \* history: the last run that unlinked a file of rows

files == <<kept, dropped, quality, torn>>
mem == <<memKept, memDropped>>
vars == <<input, files, pc, pending, cur, mem, runs, emptied>>

TERMINAL_QA_STATUSES == {"accepted", "refined", "dropped"}
Retryable == {"llm_empty", "parse_failed", "exception"}
Admitted == {"accepted", "refined"}

Line == [w : Work, status : TERMINAL_QA_STATUSES \cup Retryable, run : Nat]
Nothing == [w |-> "none"]

TypeOK ==
    /\ input \subseteq Work /\ pending \subseteq input
    /\ kept \subseteq Line /\ dropped \subseteq Line /\ quality \subseteq Line
    /\ memKept \subseteq Line /\ memDropped \subseteq Line
    /\ torn \subseteq {"kept", "dropped", "quality"}
    /\ pc \in {"off", "clearing_dropped", "clearing_quality", "running", "writing", "logging", "returned"}
    /\ IF pc \in {"writing", "logging"} THEN cur \in Line ELSE cur = Nothing
    /\ runs \in Nat /\ emptied \in [{"kept", "dropped"} -> Nat]

Init ==
    /\ input = {} /\ kept = {} /\ dropped = {} /\ quality = {} /\ torn = {}
    /\ pc = "off" /\ pending = {} /\ cur = Nothing /\ memKept = {} /\ memDropped = {}
    /\ runs = 0 /\ emptied = [f \in {"kept", "dropped"} |-> 0]

Of(file, w) == {l \in file : l.w = w}
Last(file, w) == {l \in Of(file, w) : \A m \in Of(file, w) : m.run <= l.run}

\* completed_work_ids: kept, dropped for good, or decided for good.
MutCompleted ==
    {l.w : l \in dropped} \cup {w \in Work : \E l \in Last(quality, w) : l.status \in TERMINAL_QA_STATUSES}
Completed ==
    {l.w : l \in kept}
    \cup {l.w : l \in {d \in dropped : d.status \in TERMINAL_QA_STATUSES}}
    \cup {w \in Work : \E l \in Last(quality, w) : l.status \in TERMINAL_QA_STATUSES}

Idle == pc \in {"off", "returned"} /\ runs < MaxRuns

\* Without --resume the three files are unlinked, one after the other,
\* before they are read.
ClearKept ==
    /\ Idle
    /\ kept' = {} /\ torn' = torn \ {"kept"} /\ emptied' = [emptied EXCEPT !["kept"] = runs + 1]
    /\ memKept' = {} /\ memDropped' = {}
    /\ pc' = "clearing_dropped" /\ runs' = runs + 1
    /\ UNCHANGED <<input, dropped, quality, pending, cur>>

ClearDropped ==
    /\ pc = "clearing_dropped"
    /\ dropped' = {} /\ torn' = torn \ {"dropped"} /\ emptied' = [emptied EXCEPT !["dropped"] = runs]
    /\ pc' = "clearing_quality"
    /\ UNCHANGED <<input, kept, quality, pending, cur, mem, runs>>

ClearQuality ==
    /\ pc = "clearing_quality"
    /\ quality' = {} /\ torn' = {}
    /\ input' \in SUBSET Work /\ pending' = input'
    /\ pc' = IF input' = {} THEN "returned" ELSE "running"
    /\ UNCHANGED <<kept, dropped, cur, mem, runs, emptied>>

\* --resume, on rows that an earlier stage may have changed meanwhile.
MutKnown == {}
Known == kept

Resume ==
    /\ Idle /\ torn = {}
    /\ input' \in SUBSET Work
    /\ memKept' = Known /\ memDropped' = dropped
    /\ pending' = input' \ Completed
    /\ pc' = IF pending' = {} THEN "returned" ELSE "running"
    /\ runs' = runs + 1
    /\ UNCHANGED <<files, cur, emptied>>

\* Half a line is not JSON: reading the file raises and ends the program.
ReadFails ==
    /\ Idle /\ torn # {}
    /\ pc' = "off" /\ memKept' = {} /\ memDropped' = {} /\ runs' = runs + 1
    /\ UNCHANGED <<input, files, pending, cur, emptied>>

\* What evaluate_row makes of a judge's answer: none, one that is not the
\* expected JSON (or admits the row without a prompt and a completion), a
\* rejection, an admission as it stands or with another wording.
MutVerdicts == {"llm_empty", "parse_failed", "reject", "accepted", "refined"}
Verdicts == {"llm_empty", "parse_failed", "dropped", "accepted", "refined"}

Finished(w, status) ==
    /\ cur' = [w |-> w, status |-> status, run |-> runs]
    /\ pending' = pending \ {w}
    /\ pc' = "writing"
    /\ UNCHANGED <<input, files, mem, runs, emptied>>

Collect(w) ==
    /\ pc = "running" /\ w \in pending
    /\ \E v \in Verdicts : Finished(w, v)

CollectException(w) ==
    /\ pc = "running" /\ w \in pending
    /\ Finished(w, "exception")

\* The row goes to one of the two files, synced, and to the list in memory.
MutKeeps(status) == status \in Admitted \cup {"parse_failed"}
Keeps(status) == status \in Admitted

AppendRow ==
    /\ pc = "writing"
    /\ IF Keeps(cur.status)
       THEN kept' = kept \cup {cur} /\ memKept' = memKept \cup {cur} /\ UNCHANGED <<dropped, memDropped>>
       ELSE dropped' = dropped \cup {cur} /\ memDropped' = memDropped \cup {cur} /\ UNCHANGED <<kept, memKept>>
    /\ pc' = "logging"
    /\ UNCHANGED <<input, quality, torn, pending, cur, runs, emptied>>

AppendDecision ==
    /\ pc = "logging"
    /\ quality' = quality \cup {cur}
    /\ cur' = Nothing /\ pc' = "running"
    /\ UNCHANGED <<input, kept, dropped, torn, pending, mem, runs, emptied>>

Return ==
    /\ pc = "running" /\ pending = {}
    /\ pc' = "returned"
    /\ UNCHANGED <<input, files, pending, cur, mem, runs, emptied>>

\* The file that is being appended to, if one is.
Open ==
    IF pc = "writing" THEN {IF Keeps(cur.status) THEN "kept" ELSE "dropped"}
    ELSE IF pc = "logging" THEN {"quality"} ELSE {}

\* A kill at any point, in the middle of the line being written or not.
Kill ==
    /\ pc \notin {"off", "returned"}
    /\ torn' \in {torn, torn \cup Open}
    /\ pc' = "off" /\ pending' = {} /\ cur' = Nothing
    /\ memKept' = {} /\ memDropped' = {}
    /\ UNCHANGED <<input, kept, dropped, quality, runs, emptied>>

Next ==
    \/ ClearKept \/ ClearDropped \/ ClearQuality \/ Resume \/ ReadFails
    \/ \E w \in Work : Collect(w) \/ CollectException(w)
    \/ AppendRow \/ AppendDecision \/ Return
    \/ Kill

Working == ClearDropped \/ ClearQuality \/ AppendRow \/ AppendDecision \/ Return \/ \E w \in Work : Collect(w) \/ CollectException(w)

Spec == Init /\ [][Next]_vars /\ WF_vars(Working)

---------------------------------------------------------------------------

\* A row gets at most one final verdict: whatever is killed between the two
\* appends and resumed, no second run admits a row once dropped, drops one
\* once admitted, or admits one twice (run_stage2). Refinement of RecordOnce.
Final(w) == {<<l.run, l.status>> : l \in {k \in Of(kept \cup dropped, w) : k.status \in TERMINAL_QA_STATUSES}}
Verdict == INSTANCE RecordOnce WITH
    Item <- Work, Attempt <- (1..MaxRuns) \X TERMINAL_QA_STATUSES, out <- [w \in Work |-> Final(w)]
OneVerdict == Verdict!Spec

\* A decision is on record only for a row that reached its file in the same
\* run, kept exactly when the decision admits it: the audit never counts a
\* sample that stage 3 will not find (order of the appends in run_stage2).
\* Only a decision that is older than that file may be without its row: the
\* run that unlinked the file was killed before it unlinked the decisions.
Orphan(l) == l.run < emptied[IF l.status \in Admitted THEN "kept" ELSE "dropped"]
DecisionBacked ==
    \A l \in quality : Orphan(l) \/ IF l.status \in Admitted THEN l \in kept ELSE l \in dropped

\* What the stage returns to stage 3 is the file a later run would read.
KeptIsFile == pc = "returned" => memKept = kept /\ memDropped = dropped

\* The audit, the files and the list in memory agree.
FilesAgree == DecisionBacked /\ KeptIsFile

\* When the stage returns, every row of its input has a verdict or a
\* recorded failure, and a row that has only failures failed in this run:
\* resuming does try it again. The one row it returns without is a row whose
\* final decision outlived the files, in a start killed while it cleared them.
EveryRowTried ==
    pc = "returned" => \A w \in input :
        \/ Final(w) # {}
        \/ \E l \in Of(dropped, w) : l.run = runs /\ l.status \in Retryable
        \/ \E l \in Last(quality, w) : l.status \in TERMINAL_QA_STATUSES /\ Orphan(l)
=============================================================================
