----------------------------- MODULE DirectEval -----------------------------
(* The direct evaluation: collect_completions.py asks a target model for a *)
(* response to each row of a test set, and a judge program (single axis or *)
(* pairwise) scores the responses that are there. Both append to JSON-line *)
(* files as their tasks complete, both can be killed and resumed, and the  *)
(* judge may be started while the collector still runs.                    *)
EXTENDS Integers, Sequences, FiniteSets

CONSTANTS
    Rows,           \* row indices of the test set
    MaxAttempts,    \* --judge-max-attempts: calls for a row in one run
    Cap,            \* --max-total-attempts-per-row
    MaxStarts       \* bound on the starts of the collector and the judge together

ASSUME AttemptsAssumption == MaxAttempts \in Nat \ {0} /\ Cap \in Nat \ {0}

VARIABLES
    engine,         \* "singleaxis" or "pairwise"
    other,          \* rows of the right-hand responses of a pairwise run
    responses,      \* source_row_index of the lines of responses.jsonl
    errors,         \* and of the errors.jsonl beside it
    cTorn,          \* one of the two ends in half a line
    cState,         \* "off", "running"
    cPending,       \* tasks of the collector not yet awaited
    failFast,       \* --fail-fast of the present collector run
    collects,
    scores,         \* lines of scores.jsonl or pairwise.jsonl
    judgeErrors,    \* lines of the judge's errors.jsonl
    jTorn,
    jState,         \* "off", "running"
    jPending,       \* tasks of the judge not yet awaited
    seen,           \* rows the judge read when it started
    exhausted,      \* lines of retry_exhausted_rows.jsonl
    summary,        \* what summary.json says of rows done and failed
    judges,
    asked,          \* judge calls about a row, those of killed runs included
    kills,          \* runs of the judge killed before they recorded a row
    resumedOnly     \* every judge run on the directory but the first had --resume

collector == <<responses, errors, cTorn, cState, cPending, failFast, collects>>
judge == <<scores, judgeErrors, jTorn, jState, jPending, seen, exhausted, summary, judges, asked, kills, resumedOnly>>
vars == <<engine, other, collector, judge>>

Record == [i : Rows, run : Nat]
NoSummary == [done |-> -1, failed |-> -1, run |-> 0]

TypeOK ==
    /\ engine \in {"singleaxis", "pairwise"} /\ other \subseteq Rows
    /\ responses \subseteq Record /\ errors \subseteq Record
    /\ scores \subseteq Record /\ judgeErrors \subseteq Record
    /\ cTorn \in BOOLEAN /\ jTorn \in BOOLEAN /\ failFast \in BOOLEAN /\ resumedOnly \in BOOLEAN
    /\ cState \in {"off", "running"} /\ jState \in {"off", "running"}
    /\ cPending \subseteq Rows /\ jPending \subseteq seen /\ seen \subseteq Rows /\ exhausted \subseteq seen
    /\ summary \in [done : Int, failed : Int, run : Nat]
    /\ (cState = "off") = (cPending = {}) /\ (jState = "off") = (jPending = {})
    /\ collects \in Nat /\ judges \in Nat /\ asked \in [Rows -> Nat] /\ kills \in [Rows -> Nat]

Init ==
    /\ engine \in {"singleaxis", "pairwise"}
    /\ other \in (IF engine = "pairwise" THEN SUBSET Rows ELSE {{}})
    /\ responses = {} /\ errors = {} /\ cTorn = FALSE
    /\ cState = "off" /\ cPending = {} /\ failFast = FALSE /\ collects = 0
    /\ scores = {} /\ judgeErrors = {} /\ jTorn = FALSE
    /\ jState = "off" /\ jPending = {} /\ seen = {} /\ exhausted = {} /\ summary = NoSummary
    /\ judges = 0 /\ asked = [i \in Rows |-> 0] /\ kills = [i \in Rows |-> 0] /\ resumedOnly = TRUE

Indices(file) == {l.i : l \in file}

---------------------------------------------------------------------------
(* collect_completions.py *)

\* skip_indices: with --retry-failed only the rows that have a response.
MutSkipIndices(retryFailed) == IF retryFailed THEN Indices(responses) \ Indices(errors) ELSE Indices(responses) \cup Indices(errors)
SkipIndices(retryFailed) == IF retryFailed THEN Indices(responses) ELSE Indices(responses) \cup Indices(errors)

Collecting(rows) ==
    /\ cPending' = rows
    /\ cState' = IF rows = {} THEN "off" ELSE "running"
    /\ failFast' \in BOOLEAN
    /\ collects' = collects + 1
    /\ UNCHANGED <<engine, other, responses, errors, cTorn, judge>>

\* Without --resume the run directory must not exist yet.
CollectFresh == cState = "off" /\ collects = 0 /\ judges < MaxStarts /\ Collecting(Rows)

CollectResume ==
    /\ cState = "off" /\ ~cTorn /\ collects + judges < MaxStarts
    /\ \E retryFailed \in BOOLEAN : Collecting(Rows \ SkipIndices(retryFailed))

Responded(i) ==
    /\ cState = "running" /\ i \in cPending
    /\ responses' = responses \cup {[i |-> i, run |-> collects]}
    /\ cPending' = cPending \ {i}
    /\ cState' = IF cPending' = {} THEN "off" ELSE "running"
    /\ UNCHANGED <<engine, other, errors, cTorn, failFast, collects, judge>>

\* Out of attempts, or not retryable. With --fail-fast the tasks that are
\* not done are cancelled and the results of those that are, dropped.
RowFailed(i) ==
    /\ cState = "running" /\ i \in cPending
    /\ errors' = errors \cup {[i |-> i, run |-> collects]}
    /\ cPending' = IF failFast THEN {} ELSE cPending \ {i}
    /\ cState' = IF cPending' = {} THEN "off" ELSE "running"
    /\ UNCHANGED <<engine, other, responses, cTorn, failFast, collects, judge>>

KillCollector ==
    /\ cState = "running"
    /\ cState' = "off" /\ cPending' = {} /\ cTorn' \in BOOLEAN
    /\ UNCHANGED <<engine, other, responses, errors, failFast, collects, judge>>

---------------------------------------------------------------------------
(* direct_llm_singleaxis_impl.py, direct_llm_pairwise_impl.py *)

\* The side a verdict "A", "B" or "TIE" stands for; `swapped`: right is A.
MutSideOf(verdict, swapped) == IF verdict = "TIE" THEN "tie" ELSE IF verdict = "A" THEN "left" ELSE "right"
SideOf(verdict, swapped) ==
    IF verdict = "TIE" THEN "tie" ELSE IF (verdict = "A") # swapped THEN "left" ELSE "right"

\* resolve_position_swap: agreement, or the one side that was ever preferred.
Resolve(sides) ==
    IF Cardinality(sides) = 1 THEN CHOOSE s \in sides : TRUE
    ELSE IF Cardinality(sides \ {"tie"}) = 1 THEN CHOOSE s \in sides \ {"tie"} : TRUE
    ELSE "tie"

Winner(first, second) == Resolve({SideOf(first, FALSE), SideOf(second, TRUE)})

\* The rows to judge: all responses, or those both sides have.
Candidates == IF engine = "singleaxis" THEN Indices(responses) ELSE Indices(responses) \cap other

\* load_error_attempts: every error line counts as a run's full attempts.
MutPriorAttempts(i) == Cardinality({l \in judgeErrors : l.i = i})
PriorAttempts(i) == MaxAttempts * Cardinality({l \in judgeErrors : l.i = i})

MutCompletedRows(resume) == IF resume THEN Indices(scores) \ Indices(judgeErrors) ELSE {}
CompletedRows(resume) == IF resume THEN Indices(scores) ELSE {}

Exhausted(resume, missing) ==
    IF resume /\ engine = "singleaxis" THEN {i \in missing : PriorAttempts(i) >= Cap} ELSE {}

\* summarize_scores counts a row once; summarize_pairwise counts lines.
MutUnresolved(done, failed) == {l \in failed : l.run = judges /\ l.i \notin Indices(done)}
Unresolved(done, failed) == {l \in failed : l.i \notin Indices(done)}
SummaryOf(done, failed, run) ==
    LET open == Unresolved(done, failed)
    IN IF engine = "singleaxis"
       THEN [done |-> Cardinality(Indices(done)), failed |-> Cardinality(Indices(open)), run |-> run]
       ELSE [done |-> Cardinality(done), failed |-> Cardinality(open), run |-> run]

\* The first run of the collector creates responses.jsonl.
JudgeStart(resume) ==
    /\ jState = "off" /\ collects + judges < MaxStarts
    /\ collects > 0 /\ ~cTorn /\ ~jTorn
    /\ LET missing == Candidates \ CompletedRows(resume)
       IN /\ exhausted' = Exhausted(resume, missing)
          /\ jPending' = missing \ exhausted'
    /\ seen' = Candidates
    /\ IF jPending' = {}
       THEN jState' = "off" /\ summary' = SummaryOf(scores, judgeErrors, judges + 1)
       ELSE jState' = "running" /\ UNCHANGED summary
    /\ judges' = judges + 1
    /\ resumedOnly' = (resumedOnly /\ (resume \/ judges = 0))
    /\ UNCHANGED <<engine, other, collector, scores, judgeErrors, jTorn, asked, kills>>

\* A torn line, a long line the collector is half way through writing, or no
\* responses.jsonl yet.
JudgeCannotRead ==
    /\ jState = "off" /\ collects + judges < MaxStarts
    /\ cTorn \/ jTorn \/ cState = "running" \/ responses = {}
    /\ judges' = judges + 1
    /\ UNCHANGED <<engine, other, collector, scores, judgeErrors, jTorn, jState, jPending, seen,
                   exhausted, summary, asked, kills, resumedOnly>>

\* judge_one and judge_once: a retryable status, an answer that is not JSON
\* or a broken connection is tried again, but for the last attempt.
Answers == [1..MaxAttempts -> {"scores", "retryable", "fatal"}]
Final(a) == CHOOSE n \in 1..MaxAttempts :
                /\ n = MaxAttempts \/ a[n] # "retryable"
                /\ \A m \in 1..n - 1 : a[m] = "retryable"
Calls == {[ok |-> a[Final(a)] = "scores", n |-> Final(a)] : a \in Answers}

\* A pair is asked in one or in both orders and fails when one of them does:
\* the outcome of the first order is dropped with it.
PairCalls ==
    Calls \cup {[ok |-> c.ok /\ d.ok, n |-> c.n + d.n] : c \in {x \in Calls : x.ok}, d \in Calls}
Outcomes == IF engine = "singleaxis" THEN Calls ELSE PairCalls

MutLastTask == FALSE
LastTask == jPending' = {}

Judged(i) ==
    /\ jState = "running" /\ i \in jPending
    /\ \E c \in Outcomes : c.ok /\ asked' = [asked EXCEPT ![i] = @ + c.n]
    /\ jPending' = jPending \ {i}
    /\ scores' = scores \cup {[i |-> i, run |-> judges]}
    /\ IF LastTask
       THEN jState' = "off" /\ summary' = SummaryOf(scores', judgeErrors, judges)
       ELSE UNCHANGED <<jState, summary>>
    /\ UNCHANGED <<engine, other, collector, judgeErrors, jTorn, seen, exhausted, judges, kills, resumedOnly>>

JudgeFailed(i) ==
    /\ jState = "running" /\ i \in jPending
    /\ \E c \in Outcomes : ~c.ok /\ asked' = [asked EXCEPT ![i] = @ + c.n]
    /\ jPending' = jPending \ {i}
    /\ judgeErrors' = judgeErrors \cup {[i |-> i, run |-> judges]}
    /\ IF LastTask
       THEN jState' = "off" /\ summary' = SummaryOf(scores, judgeErrors', judges)
       ELSE UNCHANGED <<jState, summary>>
    /\ UNCHANGED <<engine, other, collector, scores, jTorn, seen, exhausted, judges, kills, resumedOnly>>

\* The tasks of a killed run have made any number of their calls by then, and
\* no file tells of them; the old summary.json stays.
CallsInFlight == IF engine = "singleaxis" THEN 0..MaxAttempts ELSE 0..2 * MaxAttempts

KillJudge ==
    /\ jState = "running"
    /\ jState' = "off" /\ jPending' = {} /\ jTorn' \in BOOLEAN
    /\ \E made \in [jPending -> CallsInFlight] :
          asked' = [i \in Rows |-> IF i \in jPending THEN asked[i] + made[i] ELSE asked[i]]
    /\ kills' = [i \in Rows |-> IF i \in jPending THEN kills[i] + 1 ELSE kills[i]]
    /\ UNCHANGED <<engine, other, collector, scores, judgeErrors, seen, exhausted, summary, judges, resumedOnly>>

Next ==
    \/ CollectFresh \/ CollectResume \/ KillCollector
    \/ \E i \in Rows : Responded(i) \/ RowFailed(i) \/ Judged(i) \/ JudgeFailed(i)
    \/ \E resume \in BOOLEAN : JudgeStart(resume)
    \/ JudgeCannotRead \/ KillJudge

Spec == Init /\ [][Next]_vars

---------------------------------------------------------------------------

\* However the collector is killed, resumed and told to retry, a row of the
\* test set has at most one response, and what a judge scored is never
\* replaced under its score (collect_for_model skips recorded rows).
OneResponse == \A l, m \in responses : l.i = m.i => l = m

\* As long as the judge is only ever resumed, no row is scored twice: the
\* means and the wins count a row once.
ScoredOnce == resumedOnly => \A l, m \in scores : l.i = m.i => l = m

\* The attempt cap holds over all resumed runs together, but for kills: a row
\* costs fewer calls than the cap and one run's attempts more, since a failed
\* run counts in full even when it gave up early (load_error_attempts,
\* run_one_responses_file); every run killed before it recorded the row adds
\* up to one run's attempts that no error line tells of.
AttemptsCapped ==
    engine = "singleaxis" /\ resumedOnly => \A i \in Rows : asked[i] < Cap + MaxAttempts + MaxAttempts * kills[i]

\* The summary a run leaves loses no row that the run saw: scored and failed
\* rows add up to the rows seen in a single-axis run, and to no fewer in a
\* pairwise run (whose failed count is of attempts).
SummaryAccounts ==
    summary # NoSummary /\ summary.run = judges =>
        IF engine = "singleaxis"
        THEN summary.done + summary.failed = Cardinality(seen)
        ELSE summary.done + summary.failed >= Cardinality(seen)

\* A winner is a side the judge preferred in one order and in no order
\* opposed; a judge that only looks at the position never makes one; and to
\* exchange the two sides exchanges the winner (resolve_position_swap).
Exchange(side) == IF side = "left" THEN "right" ELSE IF side = "right" THEN "left" ELSE "tie"
SwapIsFair ==
    engine = "pairwise" => \A v, w \in {"A", "B", "TIE"} :
        /\ v = w => Winner(v, w) = "tie"
        /\ Winner(w, v) = Exchange(Winner(v, w))
        /\ Winner(v, w) = "left" => v # "B" /\ w # "A"
=============================================================================
