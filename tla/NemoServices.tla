---------------------------- MODULE NemoServices ----------------------------
(* The programs that talk to the NeMo services. upload_test_datasets.py    *)
(* publishes a data set (Data Store repository, then Entity Store entry),  *)
(* register_evaluator_entities.py registers a target or a configuration,   *)
(* run_evaluation_matrix.py submits and polls waves of jobs, and           *)
(* run_nemo_evaluator_saved_responses.py has saved responses scored in     *)
(* batches. They share no state, so a behaviour follows one of them, over  *)
(* several starts, kills and failures of the service.                      *)
EXTENDS Integers, FiniteSets, Sequences

CONSTANTS
    Waves,          \* number of waves of the matrix
    WaveJobs,       \* jobs of a wave
    MaxErrors,      \* --max-consecutive-errors
    BatchSize,      \* --batch-size
    MaxRows,        \* bound on the response rows of a file
    MaxSource,      \* bound on the versions of what is published
    MaxRuns         \* bound on the starts of the program

ASSUME BoundAssumption == {Waves, WaveJobs, MaxErrors, BatchSize, MaxRows, MaxSource, MaxRuns} \subseteq Nat \ {0}

VARIABLES
    program, pc, runs,
    option,         \* --update-existing, --submit-only or --resume of this run
    source,         \* version of the files or of the payload to publish
    repo,           \* version in the Data Store repository, 0: empty
    entity,         \* version the Entity Store entry names, 0: none
    target,         \* payload version of the Evaluator entity, 0: none
    jobs,           \* jobs at the Evaluator, in the order of submission
    wave, ids, waiting, failing,
    jobMap,         \* the job map file: the job ids of each wave
    length,         \* rows in responses.jsonl
    evaluable,      \* of them, rows with a context in the golden data set
    loaded, batch,
    summaries,      \* summary.json of each batch
    total           \* summary.json of the target; `read`: rows the run had to judge

publish == <<source, repo, entity, target>>
matrix == <<jobs, wave, ids, waiting, failing, jobMap>>
saved == <<length, evaluable, loaded, batch, summaries, total>>
nemoVars == <<program, pc, runs, option, publish, matrix, saved>>

WaveSet == 1..Waves
LastBatch == (MaxRows - 1) \div BatchSize
NoBatchSummary == [status |-> "none", upto |-> 0, run |-> 0]
NoTotal == [status |-> "none", read |-> 0, run |-> 0]
Programs == {"dataset", "target", "matrix", "saved"}

NemoTypeOK ==
    /\ program \in Programs /\ runs \in Nat /\ option \in BOOLEAN
    /\ pc \in {"off", "done", "create_repo", "push", "entity", "create", "patch", "delete", "recreate",
               "submit", "poll", "batch", "log", "total"}
    /\ {source, repo, entity, target, length, evaluable, loaded, batch} \subseteq Nat
    /\ jobs \in Seq([wave : WaveSet, run : Nat, status : {"active", "ended"}])
    /\ wave \in WaveSet /\ ids \subseteq DOMAIN jobs /\ waiting \subseteq ids
    /\ failing \in [waiting -> 0..MaxErrors]
    /\ jobMap \in [WaveSet -> SUBSET DOMAIN jobs]
    /\ summaries \in [0..LastBatch -> [status : {"none", "completed", "failed", "torn"}, upto : Nat, run : Nat]]
    /\ total \in [status : {"none", "completed", "partial", "torn"}, read : Nat, run : Nat]

NemoInit ==
    /\ program \in Programs /\ pc = "off" /\ runs = 0 /\ option = FALSE
    /\ source = 1 /\ repo = 0 /\ entity = 0 /\ target = 0
    /\ jobs = <<>> /\ wave = 1 /\ ids = {} /\ waiting = {} /\ failing = <<>> /\ jobMap = [w \in WaveSet |-> {}]
    /\ length = 1 /\ evaluable \in {0, 1} /\ loaded = 0 /\ batch = 0
    /\ summaries = [b \in 0..LastBatch |-> NoBatchSummary] /\ total = NoTotal

Start(name, at) ==
    /\ program = name /\ pc \in {"off", "done"} /\ runs < MaxRuns
    /\ pc' = at /\ runs' = runs + 1 /\ option' \in BOOLEAN
    /\ UNCHANGED program

Goto(at) == pc' = at /\ UNCHANGED <<program, runs, option>>

\* A refused request, a broken connection, a kill: the program ends there.
Stop ==
    /\ pc \notin {"off", "done"}
    /\ Goto("off")
    /\ ids' = {} /\ waiting' = {} /\ failing' = <<>> /\ loaded' = 0
    /\ UNCHANGED <<publish, jobs, wave, jobMap, length, evaluable, batch, summaries, total>>

\* Between two runs a new version of what is published may be built.
Rebuild ==
    /\ program \in {"dataset", "target"} /\ pc \in {"off", "done"} /\ source < MaxSource
    /\ source' = source + 1 /\ Goto("off")
    /\ UNCHANGED <<repo, entity, target, matrix, saved>>

---------------------------------------------------------------------------
(* upload_test_datasets.py: register_dataset_spec *)

RegisterStart == Start("dataset", "create_repo") /\ UNCHANGED <<publish, matrix, saved>>

\* 200, 201 or 409: it is there.
MutCreateRepo == pc = "create_repo" /\ Goto("entity") /\ UNCHANGED <<publish, matrix, saved>>
CreateRepo == pc = "create_repo" /\ Goto("push") /\ UNCHANGED <<publish, matrix, saved>>

\* Clone, copy, commit, push. "nothing to commit" is no error and goes on.
MutAfterPush == IF repo = source THEN "done" ELSE "entity"
AfterPush == "entity"

Push ==
    /\ pc = "push"
    /\ repo' = source
    /\ Goto(AfterPush)
    /\ UNCHANGED <<source, entity, target, matrix, saved>>

\* POST, and PATCH when the entry exists.
RegisterEntity ==
    /\ pc = "entity"
    /\ entity' = source /\ Goto("done")
    /\ UNCHANGED <<source, repo, target, matrix, saved>>

---------------------------------------------------------------------------
(* register_evaluator_entities.py: _create_target_idempotent and
   _create_config_idempotent *)

EntitiesStart == Start("target", "create") /\ UNCHANGED <<publish, matrix, saved>>

\* 409 without --update-existing leaves the old payload in place.
MutOnConflict == "done"
OnConflict == IF option THEN "patch" ELSE "done"

Create ==
    /\ pc = "create"
    /\ IF target = 0 THEN target' = source /\ Goto("done") ELSE Goto(OnConflict) /\ UNCHANGED target
    /\ UNCHANGED <<source, repo, entity, matrix, saved>>

Patch ==
    /\ pc = "patch"
    /\ target' = source /\ Goto("done")
    /\ UNCHANGED <<source, repo, entity, matrix, saved>>

\* 501: this service has no PATCH.
PatchUnsupported == pc = "patch" /\ Goto("delete") /\ UNCHANGED <<publish, matrix, saved>>

Delete ==
    /\ pc = "delete"
    /\ target' = 0 /\ Goto("recreate")
    /\ UNCHANGED <<source, repo, entity, matrix, saved>>

Recreate ==
    /\ pc = "recreate"
    /\ target' = source /\ Goto("done")
    /\ UNCHANGED <<source, repo, entity, matrix, saved>>

---------------------------------------------------------------------------
(* run_evaluation_matrix.py *)

MatrixStart ==
    /\ Start("matrix", "submit")
    /\ wave' = 1 /\ ids' = {}
    /\ UNCHANGED <<publish, jobs, waiting, failing, jobMap, saved>>

\* One POST of submit_wave. One that fails (Stop) loses the ids before it.
SubmitJob ==
    /\ pc = "submit" /\ Cardinality(ids) < WaveJobs
    /\ jobs' = Append(jobs, [wave |-> wave, run |-> runs, status |-> "active"])
    /\ ids' = ids \cup {Len(jobs')}
    /\ UNCHANGED <<program, pc, runs, option, publish, wave, waiting, failing, jobMap, saved>>

NextWave ==
    IF wave < Waves
    THEN wave' = wave + 1 /\ ids' = {} /\ Goto("submit")
    ELSE UNCHANGED wave /\ ids' = {} /\ Goto("done")

\* The map is written when the wave is submitted; the file keeps the others.
MutMapWhen == Cardinality(ids) >= 1
MapWhen == Cardinality(ids) = WaveJobs

WriteJobMap ==
    /\ pc = "submit" /\ MapWhen
    /\ jobMap' = [jobMap EXCEPT ![wave] = ids]
    /\ IF option
       THEN NextWave /\ UNCHANGED <<waiting, failing>>
       ELSE waiting' = ids /\ failing' = [j \in ids |-> 0] /\ Goto("poll") /\ UNCHANGED <<wave, ids>>
    /\ UNCHANGED <<publish, jobs, saved>>

MutDrop(j) == waiting' = waiting \ {j} /\ UNCHANGED failing
Drop(j) == waiting' = waiting \ {j} /\ failing' = [k \in waiting \ {j} |-> failing[k]]

\* A status of EvalJobStatus: terminal ones end the wait for the job.
MutTerminal(j) == jobs[j].status = "ended" \/ failing[j] > 0
Terminal(j) == jobs[j].status = "ended"

Poll(j) ==
    /\ pc = "poll" /\ j \in waiting
    /\ IF Terminal(j) THEN Drop(j) ELSE failing' = [failing EXCEPT ![j] = 0] /\ UNCHANGED waiting
    /\ UNCHANGED <<program, pc, runs, option, publish, jobs, wave, ids, jobMap, saved>>

\* The request fails; the last of MaxErrors failures in a row is a Stop.
PollError(j) ==
    /\ pc = "poll" /\ j \in waiting /\ failing[j] + 1 < MaxErrors
    /\ failing' = [failing EXCEPT ![j] = @ + 1]
    /\ UNCHANGED <<program, pc, runs, option, publish, jobs, wave, ids, waiting, jobMap, saved>>

WaveComplete ==
    /\ pc = "poll" /\ waiting = {}
    /\ NextWave
    /\ UNCHANGED <<publish, jobs, waiting, failing, jobMap, saved>>

\* The Evaluator completes, fails or cancels a job.
JobEnds ==
    /\ \E j \in DOMAIN jobs : jobs[j].status = "active" /\ jobs' = [jobs EXCEPT ![j].status = "ended"]
    /\ UNCHANGED <<program, pc, runs, option, publish, wave, ids, waiting, failing, jobMap, saved>>

---------------------------------------------------------------------------
(* run_nemo_evaluator_saved_responses.py: run_one_response_file *)

\* The collector may append responses at any time.
Grow ==
    /\ program = "saved" /\ length < MaxRows
    /\ length' = length + 1 /\ evaluable' \in {evaluable, evaluable + 1}
    /\ UNCHANGED <<program, pc, runs, option, publish, matrix, loaded, batch, summaries, total>>

\* build_eval_row raises KeyError for a response without a context, which is
\* counted in the manifest and left out. No row at all stops the program.
EvalRows == evaluable

SavedStart ==
    /\ EvalRows > 0
    /\ Start("saved", "batch")
    /\ loaded' = EvalRows /\ batch' = 0
    /\ UNCHANGED <<publish, matrix, length, evaluable, summaries, total>>

BatchCount == (loaded + BatchSize - 1) \div BatchSize

AfterBatch ==
    IF batch + 1 < BatchCount THEN batch' = batch + 1 /\ Goto("batch") ELSE UNCHANGED batch /\ Goto("total")

\* --resume: a batch whose summary says completed is taken as it is, with
\* the rows it had then.
SkipBatch ==
    /\ pc = "batch" /\ option /\ summaries[batch].status = "completed"
    /\ AfterBatch
    /\ UNCHANGED <<publish, matrix, length, evaluable, loaded, summaries, total>>

\* summarize_result: the status of the result, and the rows it is about.
Summary(status) == [status |-> status, upto |-> loaded, run |-> runs]

\* A resumed run reads the summary, and half of one is not JSON (Stop).
Submits == pc = "batch" /\ (~option \/ summaries[batch].status \in {"none", "failed"})

\* The Evaluator answers; the summary of the batch is written.
BatchJudged ==
    /\ Submits
    /\ \E status \in {"completed", "failed"} : summaries' = [summaries EXCEPT ![batch] = Summary(status)]
    /\ Goto("log")
    /\ UNCHANGED <<publish, matrix, length, evaluable, loaded, batch, total>>

\* The batch is logged to MLflow, which may fail (Stop), and its summary is
\* written again with the id; another status than completed ends the target.
BatchLogged ==
    /\ pc = "log"
    /\ IF summaries[batch].status = "completed" THEN AfterBatch ELSE UNCHANGED batch /\ Goto("total")
    /\ UNCHANGED <<publish, matrix, length, evaluable, loaded, summaries, total>>

\* aggregate_batch_summaries over the batches of this run up to the last.
MutStatus(of) == IF \E b \in DOMAIN of : of[b].status = "completed" THEN "completed" ELSE "partial"
Status(of) == IF \A b \in DOMAIN of : of[b].status = "completed" THEN "completed" ELSE "partial"

WriteTotal ==
    /\ pc = "total"
    /\ total' = [status |-> Status([b \in 0..batch |-> summaries[b]]), read |-> loaded, run |-> runs]
    /\ Goto("done")
    /\ UNCHANGED <<publish, matrix, length, evaluable, loaded, batch, summaries>>

\* A kill in the middle of writing a summary, of a batch or of the target.
KillInWrite ==
    /\ \/ /\ Submits \/ pc = "log"
          /\ summaries' = [summaries EXCEPT ![batch] = Summary("torn")] /\ UNCHANGED total
       \/ /\ pc = "total"
          /\ total' = [status |-> "torn", read |-> loaded, run |-> runs] /\ UNCHANGED summaries
    /\ Goto("off") /\ loaded' = 0
    /\ UNCHANGED <<publish, matrix, length, evaluable, batch>>

---------------------------------------------------------------------------

NemoNext ==
    \/ Stop \/ Rebuild
    \/ RegisterStart \/ CreateRepo \/ Push \/ RegisterEntity
    \/ EntitiesStart \/ Create \/ Patch \/ PatchUnsupported \/ Delete \/ Recreate
    \/ MatrixStart \/ SubmitJob \/ WriteJobMap \/ WaveComplete \/ JobEnds
    \/ \E j \in waiting : Poll(j) \/ PollError(j)
    \/ Grow \/ SavedStart \/ SkipBatch \/ BatchJudged \/ BatchLogged \/ WriteTotal \/ KillInWrite

NemoSpec == NemoInit /\ [][NemoNext]_nemoVars

\* The Entity Store never names a version that the repository does not have,
\* wherever a registration stops: the files are pushed before the entry is
\* written (register_dataset_spec).
EntityNotAhead == entity <= repo

\* A program that ended well published the present version, also after runs
\* that stopped between two services or between delete and create; only
\* without --update-existing an old target may stay.
Published ==
    pc = "done" =>
        /\ program = "dataset" => repo = source /\ entity = source
        /\ program = "target" => target = source \/ (~option /\ target # 0)

\* The two above at once.
PublishedInOrder == EntityNotAhead /\ Published

\* A run that polls submits a wave only when every job of the waves before
\* has ended: the gates of one wave are decided before the next is paid for
\* (wait_all, submit_and_maybe_wait).
WavesInOrder ==
    ~option => \A j, k \in DOMAIN jobs :
        jobs[j].run = runs /\ jobs[k].run = runs /\ jobs[j].wave < jobs[k].wave => jobs[j].status = "ended"

\* What the job map says of a wave is a whole wave of one run, also when a
\* later run was stopped in the middle of submitting that wave.
JobMapWhole ==
    \A w \in WaveSet : jobMap[w] # {} =>
        /\ Cardinality(jobMap[w]) = WaveJobs
        /\ \A j, k \in jobMap[w] : jobs[j].wave = w /\ jobs[j].run = jobs[k].run

\* The two above at once.
WavesWhole == WavesInOrder /\ JobMapWhole

\* A target that is reported completed has a completed batch for each row with
\* a context that its run read, and the only such rows no batch has judged are
\* those the collector appended, before a resume, to the batch that was then
\* the last. A batch is another only when a later run has judged it again, and
\* at the end of a run there is none: the total is then the run's own.
BatchOf(r) == (r - 1) \div BatchSize
CompletedCovers ==
    /\ total.status = "completed" =>
          \A r \in 1..total.read : LET s == summaries[BatchOf(r)] IN
              \/ s.status = "completed" /\ s.upto > BatchOf(r) * BatchSize
              \/ s.run > total.run
    /\ program = "saved" /\ pc = "done" => \A b \in DOMAIN summaries : summaries[b].run <= total.run
=============================================================================
