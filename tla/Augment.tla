------------------------------- MODULE Augment -------------------------------
(* Synthetic augmentation with NeMo Data Designer: seed records are made   *)
(* from training pairs by a resumable program, uploaded and submitted as a *)
(* job, its records collected into accepted pairs, and these appended to   *)
(* the training files of a new data set. An operator starts one program at *)
(* a time; the service works on its own.                                   *)
EXTENDS Naturals, Sequences, FiniteSets, Functions

CONSTANTS
    Pairs,          \* the source pairs, in the order of their files
    Mixed(_),       \* candidates shuffled in their buckets, one of each bucket in turn
    HeldSets,       \* what the held-out files may contain, sets of pairs
    SeedCounts,     \* --seed-count of a run, 0 for all
    Answers,        \* the pairs a record may carry, sequences of pairs
    MaxStarts,      \* bound on the starts of the seeding programs
    MaxJobs         \* bound on the jobs

PairSet == Range(Pairs)
Generated == UNION {Range(a) : a \in Answers}

ASSUME CountAssumption == SeedCounts \subseteq Nat /\ MaxStarts \in Nat /\ MaxJobs \in Nat
ASSUME PairAssumption == Pairs \in Seq(PairSet) /\ \A a \in Answers : a \in Seq(Generated)

VARIABLES
    held,           \* pairs of the validation and test files
    pc,             \* what the running program does next, or "off"
    sel, pending,   \* selected pairs; positions whose seed is being made
    mem,            \* seeds_by_index
    resumable,      \* the last seeding program was the resumable one
    resplit,        \* the held-out files changed since it started
    seedFile, torn, \* llm_seed_requests.jsonl
    csv,            \* seed_dataset.csv and submission_plan.json
    progress,       \* status in llm_seed_progress.json
    repo,           \* seed_dataset.csv in the Data Store
    jobs,           \* the service's jobs: seeds read, records, state
    response,       \* job_response.json, 0: none
    download,       \* download_manifest.json: job, and the repository cloned
    clones,         \* jobs whose result repository was cloned
    collected,      \* the manifest and accepted pairs of the last collect
    augmented,      \* the synthetic rows of the augmented training files
    starts

seeding == <<held, sel, pending, mem, resumable, resplit, seedFile, torn, csv, progress, starts>>
service == <<repo, jobs, response, download, clones, collected, augmented>>
augmentVars == <<pc, seeding, service>>

Authors == {"llm", "heuristic"}

\* expected_seed_id: a seed is known by its pair and its place in the selection.
Seed == [pair : PairSet, at : 1..Len(Pairs), author : Authors, run : 1..MaxStarts]
Id(s) == <<s.pair, s.at>>
Ids(S) == {Id(s) : s \in S}
NoDownload == [job |-> 0, cloned |-> 0]
NotCollected == [job |-> 0, from |-> 0, requested |-> 0, returned |-> {}, omitted |-> {}, accepted |-> <<>>, exact |-> FALSE]

\* The types; and while seeds are made, all that the program holds is on
\* file and each selected position is held or awaited.
AugmentTypeOK ==
    /\ pc = "making" => mem \subseteq seedFile /\ DOMAIN sel = pending \cup {s.at : s \in mem}
    /\ held \in HeldSets
    /\ pc \in {"off", "making", "rewrite", "csv", "finish", "submit", "record"}
    /\ pending \subseteq DOMAIN sel /\ (pc # "making" => pending = {})
    /\ mem \subseteq Seed /\ seedFile \subseteq Seed /\ csv \subseteq Seed
    /\ repo \subseteq PairSet \X (1..Len(Pairs))
    /\ {resumable, resplit, torn} \subseteq BOOLEAN
    /\ progress \in {"none", "running", "completed"}
    /\ {response, download.job, download.cloned} \subseteq 0..Len(jobs)
    /\ clones \subseteq DOMAIN jobs
    /\ collected.job \in 0..Len(jobs)
    /\ starts \in 0..MaxStarts

AugmentInit ==
    /\ held \in HeldSets
    /\ pc = "off" /\ sel = <<>> /\ pending = {} /\ mem = {}
    /\ resumable = FALSE /\ resplit = FALSE
    /\ seedFile = {} /\ torn = FALSE /\ csv = {} /\ progress = "none"
    /\ repo = {} /\ jobs = <<>> /\ response = 0 /\ download = NoDownload /\ clones = {}
    /\ collected = NotCollected /\ augmented = <<>>
    /\ starts = 0

---------------------------------------------------------------------------
(* Seeds *)

\* load_candidate_rows: a training pair that is in no held-out file.
MutCandidateRows(H) == Pairs
CandidateRows(H) ==
    LET kept[k \in 0..Len(Pairs)] ==
            IF k = 0 THEN <<>> ELSE IF Pairs[k] \in H THEN kept[k - 1] ELSE Append(kept[k - 1], Pairs[k])
    IN kept[Len(Pairs)]

ASSUME MixedAssumption ==
    \A H \in HeldSets : /\ Mixed(CandidateRows(H)) \in Seq(Range(CandidateRows(H)))
                        /\ Len(Mixed(CandidateRows(H))) = Len(CandidateRows(H))

\* select_candidates: all in the order of the files, or as many as asked for of
\* the mixed order, which the fixed seed of the shuffles makes the same each time.
Selected(H, n) ==
    IF n = 0 THEN CandidateRows(H)
    ELSE IF n > Len(CandidateRows(H)) THEN Mixed(CandidateRows(H))
    ELSE SubSeq(Mixed(CandidateRows(H)), 1, n)

\* The holdout split is made again, with other pairs.
Resplit ==
    /\ pc = "off"
    /\ held' \in HeldSets \ {held}
    /\ resplit' = TRUE
    /\ UNCHANGED <<pc, sel, pending, mem, resumable, seedFile, torn, csv, progress, starts, service>>

StartRun == pc = "off" /\ starts < MaxStarts /\ starts' = starts + 1 /\ resplit' = FALSE /\ UNCHANGED <<held, csv, service>>

\* run() of build_data_designer_seed_from_grounded: all or nothing.
BuildSeeds ==
    /\ StartRun
    /\ \E n \in SeedCounts, author \in Authors :
         /\ sel' = Selected(held, n)
         /\ mem' = {[pair |-> sel'[i], at |-> i, author |-> author, run |-> starts'] : i \in DOMAIN sel'}
    /\ resumable' = FALSE /\ pc' = "rewrite"
    /\ UNCHANGED <<pending, seedFile, torn, progress>>

\* run() of run_resumable_remote_seed_generation: what is on file is taken,
\* whoever wrote it.
MutOnFile(s) == {l \in seedFile : l.author = "llm" /\ \E i \in DOMAIN s : Id(l) = <<s[i], i>>}
OnFile(s) == {l \in seedFile : \E i \in DOMAIN s : Id(l) = <<s[i], i>>}

ResumeSeeds ==
    /\ StartRun /\ ~torn
    /\ \E n \in SeedCounts :
         /\ sel' = Selected(held, n)
         /\ mem' = OnFile(sel')
         /\ pending' = {i \in DOMAIN sel' : <<sel'[i], i>> \notin Ids(OnFile(sel'))}
    /\ resumable' = TRUE /\ progress' = "running"
    /\ pc' = IF pending' = {} THEN "rewrite" ELSE "making"
    /\ UNCHANGED <<seedFile, torn>>

\* Half a line is not JSON.
ResumeFails ==
    /\ pc = "off" /\ starts < MaxStarts /\ torn
    /\ starts' = starts + 1
    /\ UNCHANGED <<pc, held, sel, pending, mem, resumable, resplit, seedFile, torn, csv, progress, service>>

\* append_jsonl.
MutAppended(s) == seedFile
Appended(s) == seedFile \cup {s}

\* A future that completed; "heuristic" when the call failed for good and
\* --fallback-on-error was given, or --seed-source is heuristic.
SeedMade(i) ==
    /\ pc = "making" /\ i \in pending
    /\ \E author \in Authors :
         LET s == [pair |-> sel[i], at |-> i, author |-> author, run |-> starts]
         IN mem' = mem \cup {s} /\ seedFile' = Appended(s)
    /\ pending' = pending \ {i}
    /\ pc' = IF pending' = {} THEN "rewrite" ELSE "making"
    /\ UNCHANGED <<held, sel, resumable, resplit, torn, csv, progress, starts, service>>

\* The whole file again, in the order of the selection and nothing else.
MutRewritten == mem \cup seedFile
Rewritten == mem

Rewrite ==
    /\ pc = "rewrite"
    /\ seedFile' = Rewritten /\ torn' = FALSE /\ pc' = "csv"
    /\ UNCHANGED <<held, sel, pending, mem, resumable, resplit, csv, progress, starts, service>>

WriteCsv ==
    /\ pc = "csv"
    /\ csv' = mem /\ pc' = "finish"
    /\ UNCHANGED <<held, sel, pending, mem, resumable, resplit, seedFile, torn, progress, starts, service>>

Finish ==
    /\ pc = "finish"
    /\ progress' = IF resumable THEN "completed" ELSE progress
    /\ pc' = "off" /\ mem' = {} /\ sel' = <<>>
    /\ UNCHANGED <<held, pending, resumable, resplit, seedFile, torn, csv, starts, service>>

\* A kill, or without --fallback-on-error a call that failed for good: the
\* answers not yet collected are lost, in the rewrite also collected ones.
StopSeeding ==
    /\ pc \in {"making", "rewrite", "csv", "finish"}
    /\ IF pc = "rewrite"
       THEN seedFile' \in {mem, {s \in mem : s.at = 1}, {}} /\ torn' \in BOOLEAN
       ELSE UNCHANGED seedFile /\ torn' \in (IF pc = "making" THEN BOOLEAN ELSE {torn})
    /\ pc' = "off" /\ pending' = {} /\ mem' = {} /\ sel' = <<>>
    /\ UNCHANGED <<held, resumable, resplit, csv, progress, starts, service>>

---------------------------------------------------------------------------
(* data_designer_grounded_augmentation.py and the service *)

\* Create the repository, clone, copy, commit and push.
Upload ==
    /\ pc = "off" /\ csv # {}
    /\ repo' = Ids(csv)
    /\ pc' \in (IF Len(jobs) < MaxJobs THEN {"off", "submit"} ELSE {"off"})
    /\ UNCHANGED <<seeding, jobs, response, download, clones, collected, augmented>>

Submit ==
    /\ pc = "submit"
    /\ jobs' = Append(jobs, [state |-> "queued", seeds |-> {}, records |-> <<>>])
    /\ pc' = "record"
    /\ UNCHANGED <<seeding, repo, response, download, clones, collected, augmented>>

RecordJob ==
    /\ pc = "record"
    /\ response' = Len(jobs) /\ pc' = "off"
    /\ UNCHANGED <<seeding, repo, jobs, download, clones, collected, augmented>>

\* The job is known to the service but not to job_response.json, or none is.
StopSubmit ==
    /\ pc \in {"submit", "record"} /\ pc' = "off"
    /\ UNCHANGED <<seeding, service>>

\* The sequences of all members of S.
Orders(S) == {o \in [1..Cardinality(S) -> S] : \A k, m \in DOMAIN o : o[k] = o[m] => k = m}

\* A queued job reads the repository at main when it starts. It returns
\* records of some of its seeds in some order, with some answers. Nothing it
\* reads changes while a program runs, so it may as well wait for its end.
JobEnds(j) ==
    /\ pc = "off" /\ jobs[j].state = "queued"
    /\ \E back \in SUBSET repo : \E order \in Orders(back), f \in [back -> Answers] :
         jobs' = [jobs EXCEPT ![j] =
                [state |-> "ended", seeds |-> repo,
                 records |-> [k \in DOMAIN order |-> [id |-> order[k], pairs |-> f[order[k]]]]]]
    /\ UNCHANGED <<pc, seeding, repo, response, download, clones, collected, augmented>>

\* download_results by the endpoint, which gives a file that nobody reads;
\* by a clone of the result repository; or by neither, which is on record too.
Download ==
    /\ pc = "off" /\ response # 0 /\ jobs[response].state = "ended"
    /\ \/ download' = [job |-> response, cloned |-> 0] /\ UNCHANGED clones
       \/ download' = [job |-> response, cloned |-> response] /\ clones' = clones \cup {response}
    /\ UNCHANGED <<pc, seeding, repo, jobs, response, collected, augmented>>

---------------------------------------------------------------------------
(* collect_data_designer_grounded_results.py *)

\* result_repo_dir: the clone the download manifest names, else the job's own.
MutResultsOf(j) == IF clones = {} THEN 0 ELSE CHOOSE c \in clones : \A d \in clones : c <= d
ResultsOf(j) ==
    IF download.cloned # 0 THEN download.cloned ELSE IF j \in clones THEN j ELSE 0

\* normalize_records: in order, a pair that is in no source file and was not
\* accepted before.
MutFresh(p, done) == p \notin PairSet
Fresh(p, done) == p \notin PairSet /\ p \notin Range(done)

AfterRecord(done, pairs) ==
    LET upTo[i \in 0..Len(pairs)] ==
            IF i = 0 THEN done
            ELSE IF Fresh(pairs[i], upTo[i - 1]) THEN Append(upTo[i - 1], pairs[i]) ELSE upTo[i - 1]
    IN upTo[Len(pairs)]

AcceptedOf(records) ==
    LET upTo[k \in 0..Len(records)] ==
            IF k = 0 THEN <<>> ELSE AfterRecord(upTo[k - 1], records[k].pairs)
    IN upTo[Len(records)]

\* load_generated_records: what the clone c of a job's results holds.
Records(c) == jobs[c].records

\* Existing results are refused without --overwrite, but for the first time.
Collect ==
    /\ pc = "off" /\ response # 0
    /\ LET from == ResultsOf(response)
           records == Records(from)
           returned == {records[k].id : k \in DOMAIN records}
       IN /\ from # 0 /\ records # <<>>
          /\ collected' = [job |-> response, from |-> from,
                           requested |-> Cardinality(seedFile), returned |-> returned,
                           omitted |-> Ids(seedFile) \ returned, accepted |-> AcceptedOf(records),
                           exact |-> jobs[response].seeds = Ids(seedFile) /\ download.job = response]
    /\ UNCHANGED <<pc, seeding, repo, jobs, response, download, clones, augmented>>

\* build_augmented_dataset_from_synthetic.py, with --synthetic-limit.
BuildAugmented ==
    /\ pc = "off" /\ collected.job # 0
    /\ \E n \in 0..Len(collected.accepted) : augmented' = SubSeq(collected.accepted, 1, n)
    /\ UNCHANGED <<pc, seeding, repo, jobs, response, download, clones, collected>>

AugmentNext ==
    \/ Resplit \/ BuildSeeds \/ ResumeSeeds \/ ResumeFails
    \/ (\E i \in pending : SeedMade(i)) \/ Rewrite \/ WriteCsv \/ Finish \/ StopSeeding
    \/ Upload \/ Submit \/ RecordJob \/ StopSubmit
    \/ \E j \in DOMAIN jobs : JobEnds(j)
    \/ Download \/ Collect \/ BuildAugmented

AugmentSpec == AugmentInit /\ [][AugmentNext]_augmentVars

---------------------------------------------------------------------------

\* When the progress file says completed, however many runs were killed and
\* resumed with other counts, and whatever was held out in between, the two
\* seed files hold the same seeds: those of a selection from the training
\* pairs that are not held out now, none left over from an earlier one.
SeedsAgree ==
    progress = "completed" /\ resumable /\ pc \notin {"making", "rewrite", "csv", "finish"} =>
        /\ seedFile = csv /\ ~torn
        /\ ~resplit => \E n \in SeedCounts :
              Ids(seedFile) = {<<Selected(held, n)[i], i>> : i \in DOMAIN Selected(held, n)}
              /\ \A s \in seedFile : s.pair \notin held

\* A seed on file is not paid for again: no step of the resumable program
\* writes another record under its id.
PaidOnce == [][resumable' => \A s \in seedFile, t \in seedFile' : Id(s) = Id(t) => s = t]_augmentVars

\* No synthetic pair is accepted twice, and none is a pair of the source
\* files: the augmented training files repeat neither a training pair nor a
\* validation or test pair.
AcceptedNew ==
    /\ \A k, m \in DOMAIN augmented : augmented[k] = augmented[m] => k = m
    /\ Range(collected.accepted) \cap PairSet = {} /\ Range(augmented) \cap PairSet = {}

\* When the last download was of the job the results are collected under,
\* the samples carry the id of the job that made them; and when its seeds
\* are those still on file, every seed is counted once, returned or omitted.
LineageTrue ==
    collected.exact =>
        /\ collected.from = collected.job
        /\ collected.requested = Cardinality(collected.returned) + Cardinality(collected.omitted)
=============================================================================
