# A TLA+ model of docs-to-data-to-lora

The repository turns documentation sites into fine-tuning data, adapters and their
evaluation. This directory holds TLA+ modules that model its stateful core, the TLC
configurations that check them on small instances, and proofs that TLAPS checks for every
value of the constants. Two parts carry state: the batch programs under `scripts/`, which
an operator starts, kills and resumes, and the crawler service (`external/rag-crawler`).

Paths are relative to the root of the repository. Files of `scripts/pipeline`,
`scripts/eval` and `scripts/stage3` are named without their directory where that is plain;
`crawl.py`, `server.py`, `task_handler.py` and `scheduler.py` are those of
`external/rag-crawler/src/crawler/`.

## 1. The system and its parts

| Component | State it keeps | Operations | Hard behaviours | Module |
|---|---|---|---|---|
| Build driver (`build_v2_dataset.py`, stages 0 to 4) | one file for each stage, `progress.json`, samples, manifest | run, skip or resume a stage, mark it, finalise; import gap-fill rows; finalise alone | kills between a file and its mark, a torn mark, `--resume` over changed inputs, passages of two crawls | Build |
| Stages 1B and 1C (`stage1b_synthesis.py`, `stage1c_instruction.py`) | row file, status file, list in memory | submit to a thread pool, collect, append, resume | results out of order, a kill between two files or inside one | PassageStage |
| Stage 2 (`stage2_qa_eval.py`) | kept, dropped and decision files | judge, append, resume | three files that must agree; failures that are not verdicts | QaAdmission |
| Curation (`stage3_curator.py`, `curator_handoff.py`, `holdout_split.py`, `build_html_only_grounded_dataset.py`, `bake_context_into_testset.py`, `build_golden_testset.py`) | training and validation files, adapter files, test sets, Curator's directories | deduplicate, split, hand off and collect, hold out, bake, pair | duplicates across a split, files of two runs, counts of the test selection | Curation |
| Augmentation (Data Designer programs of `scripts/pipeline`) | seed file, CSV, progress, the service's repository and jobs, downloads, accepted pairs | seed, resume, upload, submit, download, collect, augment | paid answers, kills in a rewrite, clones and jobs that do not belong together | Augment |
| Direct evaluation (`collect_completions.py`, `direct_llm_singleaxis_impl.py`, `direct_llm_pairwise_impl.py`) | responses, scores, errors, summaries | collect, judge, resume, retry, cap | judge and collector at once, attempts counted over runs, both orders of a pair | DirectEval |
| Evaluation services (`upload_test_datasets.py`, `register_evaluator_entities.py`, `run_evaluation_matrix.py`, `run_nemo_evaluator_saved_responses.py`) | Data Store, Entity Store and Evaluator entities, jobs, job map, batch summaries | publish, register, submit and poll waves, score batches | a stop between two services, half a wave, a file that grows | NemoServices |
| Delta upsert (`crawl.py`, `es_client.py`) | Elasticsearch index, URL registry in memory and on file, pending and purge sets | rounds, batches, delete, embed, write, drain, purge, save | concurrent batches, failures that are only logged, restart between two steps | CrawlDelta |
| Breadth-first search (`crawl.py`) | queue, visited sets, counters, error matrix | take a round, follow links and redirects, limits, cancel | order, limits, what one crawl's files make the next do | Frontier |
| Tasks (`task_handler.py`, `server.py`) | record and cancel flag, in Redis or in a dictionary | start, status, cancel, finish, fail | Redis comes and goes, restarts, cancel racing the start | TaskHandler |
| Schedules (`scheduler.py`, `server.py`) | `schedules.json`, APScheduler jobs | create, update, delete, fire, start | kill during the write | Scheduler |

How they interact. A crawl fills the Elasticsearch index; stage 0 reads it and nothing of
the pipeline writes it. The build driver calls stages 1A to 4 one after another and hands
each the lists its predecessors returned, or what their files hold. Stage 2's rows go to
stage 3 or, through files, to NeMo Curator; the holdout split reads stage 3's files and
stage 2's metadata; the test set is published to the evaluation services, answered by
target models, and judged. Training pairs also seed the augmentation, whose accepted pairs
become another training set. Programs talk to each other through files only, one writer
at a time, but for the judge, which may read while the collector appends.

What makes each part correct, in a sentence:

* build: a stage marked as done is whole and made from its present inputs unless a kill fell in the second scroll of the index, and a build that ends leaves one consistent data set;
* stages 1B, 1C and 2: each item has the records of one attempt, whatever is killed and resumed, and the files agree on it, but for what an interrupted clearing leaves;
* curation: no question is on both sides of a split that was deduplicated, none of a test set in the training files, and no passage or row is lost by the selection;
* augmentation: no second record is written under an id on file, no accepted pair repeats or leaks, and the lineage names the right job;
* direct evaluation: one response and one score a row, calls within the cap but for runs that are killed, and a summary that accounts for every row;
* evaluation services: the registry never runs ahead of the files, and waves are gated on the wave before;
* delta upsert: the registry says a page is indexed only when it is, chunks vanish only by a failure, and pile up only by a failure or when a page loses its text;
* search: every URL in scope is fetched once, at its true depth, within the limits, and the crawl ends;
* tasks: the record of a task follows its own coroutine while Redis answers, and a cancel request ends a task; schedules: the jobs are those of the file, and deleted means deleted.

Without state of their own, and not modelled (section 6): LLM clients, noise filter,
prompts, provenance records, reports, smoke runs, training clients, the RAG proxy,
chunking, domain rules.

## 2. Modules

Each module `X` has a module `MCX` with the definitions its configuration names. The proofs
about it are in `X_proofs`, or with those of a neighbour: `Service_proofs` is about TaskHandler and
Scheduler, `Evaluation_proofs` about DirectEval and NemoServices, `Datasets_proofs` about Augment and
Curation. Definitions keep the source's names where they can. A definition
whose name begins with `Mut` is a plausible mistake in the definition below it; PROJECT.json
lists which property it breaks.

### RecordOnce

The abstract promise of a resumable program: an item that has records keeps those of one
attempt until somebody starts over, which forgets items file by file. PassageStage implements it with the rows of a passage
(`RowsOfOneRun`), QaAdmission with the final verdicts of a row (`OneVerdict`).

### PassageStage (stages 1B and 1C)

| In the module | In the code |
|---|---|
| `Resume`, `SkipDone`, `ReadFails` | main() of build_v2_dataset.py around the stage; the start of `run_stage1b` and `run_stage1c` that reads both files |
| `ClearRows`, `ClearLog` | a start without `--resume`: the row file is unlinked, then the status file |
| `Settled`, `Terminal` | which passages a resumed run leaves alone |
| `Collect`, `CollectException` | one turn of `as_completed`; the outcomes are those of the worker |
| `AppendRows`, `AppendStatus` | the synced append of rows and list, then of the status |
| `Return`, `MarkDone` | return to the driver, `progress.mark_done` |
| `Kill`, `KillInRows`, `KillInStatus` | a kill anywhere, also between the two unlinks and inside a buffered write, which may leave half a line |

The workers only compute; the main thread collects and writes. A worker's answer is
therefore chosen when it is collected, and the order of completion is the choice of `Collect`.
Both stages are one module: `stage` selects the statuses, which differ. `emptied` is a history variable:
the last run that unlinked the row file, by which a status that is older than that file is told from the others.

### QaAdmission (stage 2)

`AppendRow` writes to the kept or the dropped file, `AppendDecision` to the quality file;
`Completed` is `completed_work_ids`, gathered from all three. A failed call
(`Retryable`) leaves a dropped row too, so an item may have several. `input` changes between
runs, as earlier stages may have been run again. A start without `--resume` unlinks the three files in three
steps (`ClearKept`, `ClearDropped`, `ClearQuality`), with kills between them; `Orphan` is a decision that
is older than the file its row was in.

### Build (the driver)

A file holds a content, known by the stage and the run that made it (the passages: by the version
of the index; gap-fill rows: by the import), with the contents it was made from. `Given` is
what a stage receives, `Made` what it then holds; `Generations` has one operator for each kind
of stage (`CorpusPrep`, `Entailed`, `Appended`, `GapAnalysis`, `Derived`). `Rescroll` is stage
1B's second call of stage 0 for the seed vectors. Both calls write over passages.jsonl in place
(`Scrolling`): `ScrollCut` is a kill in there, which leaves none or a `Part` of the passages under the marks that
are on file, and `cutShort` remembers one in stage 1B's. `StageCut` is a kill while another stage writes. `Skip`, `RunStage` and `MarkDone` are the
three things main() does with a stage, `StartFails` is the parse error of a torn
progress.json. What stages 1B, 1C and 2 do inside is in the two modules above: here a kill
leaves them with some of their inputs.

### Curation

`admitted` is stage 2's file; `disk` the files of the data set with the run that wrote each.
A program computes at its start (`RunStage3`, `CollectHandoff`, `RunSplit`, `RunHtmlOnly`) and
then writes one file at a time (`WriteNext`); `Kill` comes between two files or inside one, so it leaves files
of two runs, or the first rows of a file (`whole` is FALSE). The HTML-only program removes its directory
first, and `KillHtmlOnly` stops it there. `CuratorEnds` is the repository's native job, which filters each row
alone: `Removals` are sets of rows it may remove, nothing else goes, and `deduped` tells the files that came
through stage 3's deduplication from those that did not. The test
selection is written as the code does it: `Candidates` is the first pass, `Resolve` folded over
them the second, with its counters. Samples drawn by a seed are any sample of that size,
an order by a hash is any order.

A question is exact in `q`, since the holdout split joins on the exact text. Deduplication compares `Key`
(no case, no blanks around it), the golden test set compares `Words` (no case, blanks run together).
A row whose question is no longer admitted gets the stage "unknown" and `NoPassage`, as in
`_enrich_from_stage2_eval`; all such rows count as one passage, as they do in the code. `Unfit` are the rows
whose retrieved context one of the filters of build_golden_testset.py excludes. `At` picks the
elements of a sequence at some positions, in order.

### Augment

A seed is known by its pair and its place in the selection (`expected_seed_id`). Seeding is
`BuildSeeds` (all at once) or `ResumeSeeds` with `SeedMade` for each answer, then `Rewrite`,
`WriteCsv`, `Finish`; `StopSeeding` is a kill or a worker that raised. `repo`, `jobs` and
`clones` are the services' side; `ResultsOf` is `result_repo_dir`, `AcceptedOf` is
`normalize_records`. `Selected` takes the candidates in the order of the files, or as many as asked for of the shuffled round of the buckets
(`Mixed`, the same each time for the seed is fixed). `Resplit` changes the held-out files between programs.

### DirectEval

`responses`, `errors`, `scores` and `judgeErrors` are the four JSON-line files. The collector
(`Responded`, `RowFailed`, `KillCollector`) and the judge (`Judged`, `JudgeFailed`, `KillJudge`)
interleave. `Answers` are what one call after another of a row may return; `asked` counts the calls,
those of killed runs included (`CallsInFlight`), `kills` the runs killed before they recorded a row,
`PriorAttempts` is what the code makes of them on resume. `Winner` is the judgement of a pair in both orders.

### NemoServices

Four programs that share no state, so a behaviour follows one (`program`): publication of a
data set (`CreateRepo`, `Push`, `RegisterEntity`), creation of a target (`Create`, `Patch`,
`Delete`, `Recreate`), the matrix (`SubmitJob`, `WriteJobMap`, `Poll`, `PollError`,
`WaveComplete`), saved responses (`SkipBatch`, `BatchJudged`, `BatchLogged`, `WriteTotal`): a batch is judged and its
summary written, it is logged to MLflow, and after the last or a failed one the total is written.
`EvalRows` are the rows with a context, for the code leaves the others out. `Stop` ends
any program between two requests, also one whose request fails; `KillInWrite` leaves half a summary. `JobEnds` and `Grow`
are the world's steps.

### CrawlDelta

A page's content stands for its hash. `index[u]` is the sequence of generations of chunks
present for `u`: documents get automatic ids, so a write only appends and only
`delete_by_source_uris` removes. The site is not kept: its owner may change a page at any time, so a URL may
serve any content, `Blank` among them, redirect or answer 404 each time it is fetched. The copies of the truth are `index` and the
registry (`reg` in memory, `saved` on disk). `textLost` counts how often a page was found without text (`LosesText`)
since its chunks were last removed; `MaxTextLost` bounds it in the model.

| In the module | In the code |
|---|---|
| `StartCrawl`, `TakeRound`, `EndBfs` | set-up and rounds, crawl.py 484-563, 751-772, 1100-1108 |
| `PageUnchanged`, `PageIngested`, `PageMoved`, `UrlGone`, `FetchFailed` | the branches over one result, 776-1006 |
| `TextUnchanged`, `TextIngested` | linked text files, 1067-1098 and 1556-1654 |
| `Dispatch`, `DeleteStale`, `WriteGroup`, `AbortBatch` | `_dispatch_batch_async`, `_embed_and_store` and its 300 s limit |
| `Drained`, `DrainTimeout`, `CrawlError` | phase 2 and the `finally` block, 1106-1149 |
| `PurgeRedirected`, `PurgeDeleted`, `FinishCrawl` | purge and save, 1151-1173 |
| `Crash` | restart of the pod, which keeps index and registry file |

One step of a page is one action: the fetch result is processed without an `await` except for
fetching linked files, which are URLs of their own here.

### Frontier (and OncePerCrawl)

The site is fixed; its answers are pages with links in document order, redirects,
404/410 or bodies that are not HTML. `BeginRound`, `PopUrl` and `Fetch` are the loop head,
the filling of a round and the `gather`; the results are then processed in order
(`NotModified`, `Unchanged`, `Collected`, `Redirected`, `Gone`, `NotHtml`, `Flaky`).
`saved` and `matrix` are the two files that outlive a crawl. `OncePerCrawl` is the abstract
promise (explore each discovered URL once, discover only from what is being explored);
`ExploresOnce` states that Frontier implements it under the mapping `Abstract`.

### TaskHandler

The functions of task_handler.py are operators with the source's names; each record has the two
homes of the code. `job[t]` is the place where the coroutine of a task can be at an `await`.
`heard`, `accepted` and `degraded` are history variables.

### Scheduler

`file` and `torn` are schedules.json, `jobs` the APScheduler jobs. Every operation is one action
since none awaits; `Crash` is the kill between the truncation and the end of the write.

## 3. Runs

Eleven runs pass; one shows a disagreement between a text of the repository and the code.

| Run | Question | Bounds |
|---|---|---|
| `synthesis` | Do row file, status file and memory agree, and has each passage the rows of one run? | 2 passages, up to 2 pairs each, 3 runs, both stages |
| `admission` | Do the three files agree, is every row tried again until it has a verdict, and is that final? | 2 rows, 3 runs, any subset of the rows as input |
| `build` | Is what progress.json lists current, and is a data set that is finished whole? | 3 runs, 2 versions of the index, 1 import, `--stage all` or `1b`, stages 1A and 2 may come out empty |
| `curate` | Is a split a split, whatever is killed, handed off and admitted again? | 2 inputs of 3 and 4 rows with a repeated question, questions that differ in case or in blanks only, a chain of near-duplicates, two stages, 2 passages, an unfit context; a Curator that removes one row of one input and none of the other, repeated question and all; shares 2/3, 1/2 and 1/2; 3 runs |
| `augment` | Do seed files agree, is a record written twice, are accepted pairs new, is lineage true? | 2 pairs, one of which may be held out, all or one of them selected, 2 runs, 2 jobs |
| `direct_eval` | One response and score a row, calls capped but for kills, every row accounted for, pairs judged fairly? | 2 rows, 2 attempts a run, cap 3, 4 starts of collector and judge |
| `nemo_services` | Is the registry never ahead, are waves gated, what does "completed" cover when batches fail, rows are left out, MLflow fails or a kill comes before the total? | 2 waves of 2 jobs, 3 errors in a row, batches of 2, 4 rows each with or without a context, 3 versions, 3 runs |
| `delta` | Do registry and index account for one another with any single failure of nine kinds, also when a batch outlives its crawl? | a page and a text file of another collection, two contents and a blank one, two batches of one chunk side by side, a page emptied once (`MaxTextLost`), 2 generations of a text file (`IndexBound`); while a batch lives that its crawl left behind, no forced crawl, no page emptied and one generation of the file (`OrphanBound`) |
| `bfs` | Is every site searched completely, once, within its limits, and does the crawl end? | every site of three URLs, depth limits 0 and 1 and a limit of one page, rounds of two, 2 crawls, one event |
| `task_life` | What does a record say while its coroutine runs and after? | a crawl and an ingest, two events among outage, restart, expiry, exception |
| `sched_jobs` | Do jobs follow the file? | three schedules, two good and one bad expression, two restarts or kills |
| `doc_coverage` | `CoverageKept`, section 5 | one input of three rows, 2 runs |

Why the bounds are enough. Where items are treated each for itself (PassageStage, QaAdmission,
DirectEval) two items show that one is not taken for the other, and three runs are needed
for "written, killed, resumed, resumed again". A cap of 3 with 2 attempts is the first that
is reached inside a run. In Build the third run is the one that finds the marks of a fresh run that
was killed over those of a complete one. In Curation three rows are the smallest input with
a duplicate and a passage to swap to, four with a chain of near-duplicates and a row that differs in case; the third run is needed for a split of
files of two other runs. Two waves and two jobs show every order of submit, poll and end; four
rows in batches of two, a batch that was the last and is not any more. The delta logic
treats each URL alone but for batches: two of them, one of the page and one of the file or both of the page in turn,
show their interference, which the theorem `FetchedOnce` covers for any number of slots; the chunks of a text file pile up (section 5), and `IndexBound`
ends a behaviour when one has more than two generations. What a batch that outlived its crawl does is followed
through the next crawls, unless they are forced or find a page without text (`OrphanBound`); a page is emptied once, for each further time adds one
generation by the same steps. `SafetyHolds` is the proof for any number of either. Three URLs with two places in a round give every
order of a redirect, a link and a duplicate. Two events suffice for an outage followed by a
restart; three schedules, for one to be deleted while two others are rewritten.

`delta` has symmetry over contents and slots, `sched_jobs` over ids; they check safety only.
`CHECK_DEADLOCK FALSE` is given in all runs but `delta`: their bounds on runs, crawls, tasks or
schedules make the system stop.

### Properties

* PassageStage: `StatusFileTrue` (what a status counts is in the row file, unless the status is older than that file because a clearing was killed half way; a stage that returns has rows of every passage or a latest status that says why not), `ReturnedIsFile`, `RowsOfOneRun`.
* QaAdmission: `FilesAgree`, `EveryRowTried`, both but for the decisions that outlived their file in a killed clearing (`Orphan`), and `OneVerdict`.
* Build: `MarkedCurrent` holds of builds used as documented: the marks are the first stages, and over one version of the index, with no kill in stage 1B's scroll, each is current; `EndsWhole` of any history; `ImportKept` as long as every program has `--resume`. Section 5 says what goes wrong outside.
* Curation: `SplitsDisjoint` (no row on both sides, and no question where stage 3 deduplicated), `HoldoutPartitions` (no question of a test set in the adapter's files, whoever split the input; that the adapter's two files share none where the input was deduplicated; that whole files keep every question), `SingletonsKept`, `GoldenUnseen`; `CoverageKept` is the one that fails.
* Augment: `SeedsAgree`, `AcceptedNew`, `LineageTrue` and the action property `PaidOnce`.
* DirectEval: `OneResponse`, `ScoredOnce`, `AttemptsCapped` (below the cap plus one run's attempts, and one run's attempts more for each run killed before it recorded the row), `SummaryAccounts`, `SwapIsFair`.
* NemoServices: `PublishedInOrder`, `WavesWhole`, `CompletedCovers` (a total names completed batches for the rows with a context, but for batches that a later run judged again; a run that ends leaves none of those).
* CrawlDelta, `Safety`: `ExcessByFaults` (at most two generations of a page, plus two per failure and one each time the page lost its text), `EntryAccountsForIndex` (why), `RegistryBacked` (until the first failure, a page the registry would skip is in the index), `OnePlace` and `PhaseShape` (a URL is in one work list, batch or purge set only, so a batch or the purge never removes what the same crawl wrote).
* Frontier, `Safety`: `QueuedOnce`, `SkippedOnce`, `PagesBounded` (with the overshoot of a round that the code has), `Exhaustive`, `DepthIsDistance`; the refinement `ExploresOnce`; `CrawlEnds`.
* TaskHandler, `Safety`: `NoEarlyEnd`, `StopsOnRequest` (whatever fails) and `RecordFollowsJob` (while Redis answers and keeps its keys); the action property `AnswersSurvive`; `Liveness`: `CancelIsHeard`, `CrawlReported`.
* Scheduler, `ScheduleSafety`: `JobsMatchFile`, `DeletedStaysDeleted`.

### Fairness

* Frontier: weak fairness of the steps of a crawl (`Crawling`, and the processing of results): every
  `await` of a crawl ends, since each request has a timeout. None of restarts, cancel requests or of starting a crawl. `CrawlEnds` rests on it.
* TaskHandler: weak fairness of each task's own steps: an event loop runs every coroutine that
  can go on. `CrawlReported` adds in its hypothesis that a crawl at the head of its loop
  infinitely often runs out of URLs (`FiniteSite`), which `CrawlEnds` shows for finite sites.
* CrawlDelta states weak fairness of a crawl's steps, PassageStage and QaAdmission of a
  running program's; the properties checked of these three are safety properties and do not use it.
* The other specifications state safety only: an operator need not start anything again, and a kill may always come.

## 4. Proofs

Eight modules hold proofs; none assumes anything but the named assumptions on the constants.
In each the inductive invariant has one lemma or step per action.

* `PassageStage_proofs`: `TypeCorrect`, `StatusesTrue`, `ReturnsItsFile` and
  `RowsOfOneRunEver`. The promise about two files is not inductive alone: the invariant adds
  that runs are numbered in order, that a passage in work has no rows yet (`NoRowsYet`),
  that rows of the result in hand are exactly those just appended (`RowsFirst`), that a passage is
  pending, in hand, or on file (`Accounted`, `AllCollected`). The
  refinement of RecordOnce follows: an append is `Record`, `ClearRows` is `StartOver`, all else stutters.
  Between the two unlinks there are no rows (`Cleared`), and a status that counts rows is of a complete
  passage (`RowsMeanComplete`), which is why a resume makes the rows again that an interrupted clearing took.
* `QaAdmission_proofs`: `TypeCorrect`, `FilesAlwaysAgree`, `OneVerdictEver`, `EveryRowTriedEver`. Beside types
  the invariant has `RowFirst` (what is in hand is on file exactly when the decision is next),
  `Undecided` (an item pending or in hand has no final verdict), which a resume must establish
  from three files, and `NoneLost` (a row of the input waits, is in hand, has a line of this
  run or a verdict, or an orphaned decision). `ClearedSoFar` says what is empty while the files are cleared; `AtMostOne`
  that no row gets a second verdict when a clearing takes some of them.
* `Build_proofs`: `Inductive`, `TypeCorrect`, `ImportsAlwaysKept`, `AlwaysEndsWhole`, `AlwaysMarkedCurrent`.
  The order of the stages is a number (`Num`), and `Passed` are those that the program is done
  with. `Ends` says what they leave for the stages to come, for any history; `Contents` what a mark
  stands for where the programs are used as documented: a file of a marked stage is made of its
  inputs, or, for stages 3 and 4, older than the rows of stage 2 it should be made of (`MadeOfInputs`);
  that is the gap that `MarkedCurrent` allows. What is said of the files
  holds until a kill falls in the scroll of stage 1B; `ScrollCutContents` shows that one in stage 0 does no harm,
  because stage 0 is not marked before it has its file.
* `Evaluation_proofs`, on DirectEval: `TypeCorrect`, `OneResponseEver`, `ScoredOnceEver`,
  `AttemptsAlwaysCapped`, `SummaryAlwaysAccounts`, `SwapAlwaysFair`. The cap rests on `Paid` (the
  calls of a row without a score are paid for by its error lines but for what killed runs made, and only a row below the cap is
  pending) and on `ErrorOnce` (one error line for each row and run); the summary on `Accounts`
  (the rows a run saw are pending or have a line) and on counting rows against lines.
  On NemoServices: `NemoTypeCorrect`, `AlwaysPublishedInOrder`, `WavesAlwaysWhole`,
  `CompletedAlwaysCovers`. The waves need that the ids in hand are jobs of this run and wave, and
  that all earlier waves of a polling run have ended (`WavesInv`); the batches, that a completed one had rows of its
  own (`SummariesInv`), that those before the one at hand are completed and that it has rows of this run
  (`WorkInv`), and that the rows of a total are covered or judged again (`TotalInv`), with the
  arithmetic of rounding up in `BatchArithmetic`.
* `Datasets_proofs`, on Augment: `AugmentTypeCorrect`, `FilesAgree`, `SeedsPaidOnce`, `NothingRepeated`,
  `ResultsFiled`. `Paid` says that a seed is awaited only where none is on file, and that what the
  resumable program holds in memory before its rewrite is on file; `SeedFilesHold` that memory is
  the selection from the pairs not held out, less what is awaited, and that the files
  get it whole; `Filed` that a clone is of the job that was downloaded and its records
  answer seeds of that job.
  On Curation: `CurationInductive`, `CurationTypeCorrect`, `SplitsStayApart`, `HoldoutStaysApart`,
  `SingletonsStay`, `GoldenStaysUnseen`. Programs are killed between two files or inside one, so the invariant is
  not about the disk but about all versions of a file that are there or about to be written
  (`Known`), whole or cut short (`CutsSound`): any that may come to stand side by side are sound together (`Sound`). A step that
  writes or kills only shrinks `Known` but for the cuts (`SoundShrinks`); a program that starts adds files of a new run, which
  nothing older can be taken for (`SoundGrows`). What it adds is the work of the operators: `Curated`
  leaves rows that are pairwise apart (`CuratedApart`), and after k candidates the counter of a passage in
  `pick_test_kvp_uids` is at least the number of candidates of it that still wait (`ChoiceSound`), so a
  row is taken without a swap only from a passage that keeps another (`ResolveSound`).
* `CrawlDelta_proofs`: `TypeCorrect`, `FetchedOnce`, `SkippedIsThere`, `SafetyHolds`. `OnePlace` is not
  inductive: a crawl that starts sets `todo` to all URLs, and only `PhaseShape` says that nothing is
  left in the sets of the crawl before (`Places`). `AtMostInRound` is the lemma for the actions
  that move a URL from the round to the pending chunks. On top of it, `Accounts` says what the index
  holds. `WithinAllowance` counts what is owed to a page: its generations in the index plus one for
  each batch that outlived its crawl and still brings it (`Orphans`). Each failure raises
  the allowance by two, each time the text is lost by one, and an exception orphans at most one batch of a page because the page was in one place
  (`CrawlErrorAccounts`). `ItemsSound` ties chunks on their way to the entry: stale exactly if the
  entry lost its `last_ingested`; `Backed` is `RegistryBacked` in every phase. The lemmas `Unmoved`, `Registered`,
  `Dropped` and `AfterFailure` carry these parts through steps of one kind. A page that loses its
  text loses `last_ingested` with it while its chunks stay; the allowance grows by one each time (`textLost`), and
  nothing bounds how often a site does that.
* `Frontier_proofs`: `TypeCorrect`, `Implements` (`Spec => ExploresOnce`), `OnceQueued`, `Bounded`,
  `NothingMissed`, `NeverSkippedTwice`, `DepthsAreDistances`, `SafetyHolds`. The
  invariant is `TypeOK /\ QueueSound /\ RoundSound`: the queue is free of repetition, its URLs and those
  taken make up `queued_html`, and a round leaves room in the counter for its own pages.
  `Following` is the lemma on the links of a page. `Tried` adds why a link of a page that was read is
  not in `queued_html` (`LinksKnown`), that a page of the round carries the depth it was taken at
  (`RoundDepths`), and why a crawl is done (`DoneForReason`). For the depths, `Levels` says that the queue is
  in the order of depth (`InOrder`), that nothing is placed more than one level beyond what is still
  pending (`OneLevel`), that the pages read are behind it (`ReadBehind`), and that each
  place is witnessed by a path of that length (`PlacedWithin`). A redirect goes to the head of the queue at
  the depth of its page, so this holds of sites without redirects, as the property says.
* `Service_proofs`, on TaskHandler: `NeverEarly`, `StopsOnlyOnRequest`, `RecordFollows`, `AnswersStay`,
  `SafetyHolds`. A client is answered from one of two homes and which one changes with Redis, so
  the invariant speaks of both at a time (`OverInNoHome`, `SignalsAccepted`, `AllInRedis`).
  On Scheduler: `JobsFollowFile`, `DeletedForGood`, `SchedulesSafe`. The jobs are those of what
  `_load` would return, torn file included, and nothing deleted is in it.

The loops of the code are recursive functions in the models (`At`, `MinhashDedup`, `PickTest`,
`AcceptedOf`, `Within`). What they compute is proved by induction over the natural numbers, which is
derived from the library's well-founded order as a statement about sets of numbers (`LeastNat`,
`NatSet`); the theorems on induction that take an operator as a parameter are not usable with
the provers. `Recursion` turns a definition by recursion into its two equations.

Every safety property that a passing run checks is proved, for all values of the constants, with the exceptions the
properties themselves name. Only model-checked is liveness
(`CrawlEnds`, and `Liveness` of TaskHandler): it rests on fairness and ENABLED, which are out
of the prover's reach.

## 5. Where the texts and the code disagree

Shown by a run:

* `doc_coverage`: holdout_split.py:37 promises that no passage is fully removed from the
  remainder. In the second pass a swap looks at how many rows a passage has in all (line 91), not at how many
  are left, so a swap may take the last row that was not picked. `SingletonsKept` is what does hold.

Met while modelling, described here and not given a run.

Build and stages:

* docs/stage-2-dataset-creation.md:370-372 says that passages that failed for a passing reason remain retryable. They do for
  `run_stage1b`, but build_v2_dataset.py marks 1B and 1C done whatever the statuses were (359, 374), so `--resume` does not call them again.
* The same document, 644-645, describes the samples as those after QA admission; with no admitted rows they are made from the rows before it (build_v2_dataset.py:450).
* After a gap-fill import `--resume` runs stage 2 again but skips stages 3 and 4 if they are marked: their files stay older.
* A resumed stage 1B scrolls the index again and writes over passages.jsonl in place (build_v2_dataset.py:347-350, stage0_corpus_prep.py:682), while stage 0 is marked and the stage works on the older passages in memory.
  Killed in there, it leaves a part of the passages which every later `--resume` takes for all of them: it makes stages 1B and 1C of that part and marks them.
  docs/stage-2-dataset-creation.md:1069-1072 has `--resume` "instead of requiring a full rerun after every interruption"; after this one only a full rerun helps. `cutShort` is the case in the model,
  and `MarkedCurrent` holds of every other kill.
* One stage run too early is marked done without a row; a fresh build that is killed leaves the marks of the build before over its own files.
* A start of 1B or 1C without `--resume` that is killed between its two unlinks leaves statuses that count rows of no file (stage1b_synthesis.py:225-226, stage1c_instruction.py:271-272). A resume makes the rows again; whoever reads the status file before that is misled.
* A start of stage 2 that is killed between its three unlinks leaves final decisions without rows (stage2_qa_eval.py:346-348). A resume takes them for finished work (359-363): these rows are judged no more and are in no file.
* A kill in the rewrite of progress.json, or a torn last line in a row file, makes every later `--resume` fail until the file is repaired.

Curation and augmentation:

* The golden test set pairs plain and context rows by position; two generations of equal length are not told apart (build_golden_testset.py).
* Deduplication keeps the first row of a question, the holdout split looks up the metadata of the last (holdout_split.py 144-216).
* Retained records of an older handoff are taken as they are (curator_handoff.py:346); a kill between training.jsonl and validation.jsonl mixes two runs (384-385).
* The native Curator job only filters (deploy/curator/native-filter-job.yaml:50). The deduplication that is planned hashes question and answer together (curator_handoff.py:118-121), and neither collect nor its split deduplicates (279-302, 357-385), so along that path one question may be in training.jsonl and in validation.jsonl, and in adapter_train.jsonl and adapter_val.jsonl after it. It never is in a test set and in the adapter's files: that split goes by question.
* A file of a split is truncated and written row by row (holdout_split.py:131-134, build_html_only_grounded_dataset.py:68): after a kill the first rows of a new file stand next to whole files of an older run, and nothing tells.
* Results are read from the clone the download manifest names, whatever job they are recorded under (collect_data_designer_grounded_results.py:242); a download by the endpoint leaves a file nobody reads.
* A queued job reads the repository as it is when it starts, so a second upload changes the seeds of the first job.
* A worker that raises loses the answers the others are still to give (run_resumable_remote_seed_generation.py:149); a kill in the final rewrite, those on file (173).
* A seed by the heuristic fallback counts as existing and is never asked again (90).

Evaluation:

* The attempt cap is by default the attempts of one run, so a row that failed once is exhausted at the next resume; an error counts in full even when it was not retried (direct_llm_singleaxis_impl.py:299). The calls of a judge that is killed before it writes a line are in no file (360-424): each such kill may pay for one run's attempts of a row again, which the cap never sees.
* The failed rows of a pairwise summary are error lines, so a row may count twice (direct_llm_pairwise_impl.py:605). Without `--resume` scores are appended to those there.
* `--fail-fast` drops results that had already come (collect_completions.py 551-556).
* A batch completed before the response file grew is skipped on resume (run_nemo_evaluator_saved_responses.py:502). A response without a context is left out (446-449), and the target is reported completed all the same; only its manifest counts them.
* MLflow is called between the summary of a batch and that of the target (541-575): when it raises, or the program is killed, an older total stays, possibly completed over a batch that has failed since.
* A submission that fails inside a wave loses the ids of the jobs before it (run_evaluation_matrix.py:170).
* Delete and create, where PATCH is not supported, can lose the target (register_evaluator_entities.py:355); a push never removes old lineage files (upload_test_datasets.py:706).

Crawler service:

* The second change in a row of a page leaves the chunks of the first (crawl.py 990-1002 against the comment in 624).
* A page found without text gets its new hash and loses `last_ingested`, and the chunks of the text it had stay in the index (986-1002): one generation more each time, without any failure.
* Embed tasks in flight when a crawl raises are tasks of their own (670): nobody awaits or cancels them, and they may still write when the record of their crawl says FAILURE. `NoEarlyEnd` is about the task's own coroutine.
* Pages answered 304 hide the pages behind them from the crawl after a restart (783-787 against docs/stage-1-curated-crawl.md:240).
* Nothing sets CANCELLED (task_handler.py:4); schedules and POST resolve collections differently (scheduler.py:5-6).
* An ingest of all manifests drops rows of files on other hosts (server.py:486); one of a manifest named after its collection does not record its files (446).
* A transient error is listed as a broken link and skipped by the next crawl (crawl.py 244-263).
* `max_pages` is exceeded by up to `_FETCH_CONCURRENCY - 1` pages (server.py:70 calls it a maximum).
* A restart after a registry save and before the batches are stored leaves pages recorded and not indexed (README.md:14 of the crawler); text files without validators are ingested again by each crawl (README.md:16).
* A cancel request accepted before `crawl()` begins is cleared by it (README.md:62); a restart after a download leaves a file no manifest lists (README.md:77-78).
* A kill during the rewrite of schedules.json loses every schedule (scheduler.py:4-5).

## 6. Not modelled, and why

* Pure text functions (noise filter, prompts, provenance records, chunking, parsing of answers): data that the models abstract; the outcome of a parse is a choice.
* LLM clients: their semaphore, spacing and retries end in an answer or none, which is a choice in every module that calls them. The spacing is wall-clock time.
* Of the build: `--max-passages`, the shards of stage 1A, the submit mode of gap-fill.
* Of the evaluation: score arithmetic, tokens, reports, pictures, smoke runs, MLflow exports: single passes from files to files.
* Training clients (`scripts/stage3` but for the split): submit, poll, print. The RAG proxy: nothing survives a request.
* Of the crawler: linked binary files and their ingest, `force_reingest`, RAPTOR fields, index creation, the refresh of Elasticsearch, two crawls of one collection at once.
* Of the service: `_save` and `_load` of the scheduler log a failed write or read and go on (scheduler.py:69-70, 78-79); a schedule whose deletion was not written returns with the next start. POST /cancel reads the record and sets the flag by two requests to Redis, which are one step here, and the flag's time to live of 3600 s is left out.
* Of the curation: a kill inside the files of the golden test set, which nothing reads back.

## 7. Plan

Done: the modules above, in the order RecordOnce, PassageStage, QaAdmission, DirectEval,
NemoServices, Curation, Augment, Build on the side of the programs, and CrawlDelta,
Frontier, TaskHandler, Scheduler on that of the service.

All their safety properties are proved.

Next:

1. Model the shards of stage 1A (each passage in one shard, files of runs with other counts beside one another).
2. Linked binary files and their ingest; two crawls over one registry.
3. State what a submit-mode gap-fill import leaves when its job is still running.
