------------------------------- MODULE Build -------------------------------
(* main() of build_v2_dataset.py: stages 0 to 4 in order, each writing one *)
(* file of the output directory and then its name to progress.json, then   *)
(* the samples and the manifest of the data set. A program may be killed,  *)
(* started again with --resume or without, or for one stage only; the      *)
(* index may be crawled again and gap-fill rows imported in between.       *)
EXTENDS Naturals, Sequences, FiniteSets

CONSTANTS
    StageArgs,      \* values of --stage
    MayBeEmpty,     \* bound: the stages that may come out without a row
    MaxIndex,       \* bound on the versions of the index
    MaxImports,     \* bound on the collected gap-fill results
    MaxRuns         \* bound on the starts of the program

ASSUME BoundAssumption == MaxIndex \in Nat \ {0} /\ MaxImports \in Nat /\ MaxRuns \in Nat

VARIABLES
    index,          \* version of the Elasticsearch index
    file,           \* what the file of a stage holds
    marked,         \* completed_stages of progress.json
    torn,           \* progress.json is half written
    samples,        \* what provenance/dataset_samples.jsonl was made from
    manifest,       \* dataset_version_manifest.json: contents it has hashes of
    pc,             \* the stage the program is at
    written,        \* that stage has returned and is not yet marked
    stage, resume,  \* the program's arguments
    passages,       \* version of the passages in memory, 0: none
    vectors,        \* seed_vectors is not empty
    imports, runs,
    documented,     \* --stage all only, and with --resume but for the first
    cutShort,       \* a program was killed in the scroll of its stage 1B
    imported        \* last import since 1.5 was marked, no fresh run after it

args == <<stage, resume>>
memory == <<passages, vectors>>
outputs == <<samples, manifest>>
history == <<imports, runs, documented, imported>>
vars == <<index, file, marked, torn, outputs, pc, written, args, memory, history, cutShort>>

Stages == <<"0", "1a", "1b", "1c", "1.5", "2", "3", "4">>
StageSet == {Stages[i] : i \in DOMAIN Stages}

ASSUME ArgAssumption == "all" \in StageArgs /\ StageArgs \subseteq {"all"} \cup StageSet

Inputs == [s \in StageSet |->
    CASE s = "0" -> {} [] s \in {"1a", "1b", "1c"} -> {"0"} [] s = "1.5" -> {"0", "1a", "1b", "1c"}
      [] s = "2" -> {"1a", "1b", "1c", "1.5"} [] OTHER -> {"2"}]

\* Stages that append, and read back what they wrote when resumed.
Durable == {"1b", "1c", "2"}

\* A content is known by the run that wrote it, passages by the version of
\* the index or, of a part of them, by the run that was killed, gap-fill
\* rows by their import; 0: there are no rows.
Part(r) == MaxIndex + r
Versions(s) ==
    CASE s = "0" -> 0..index \cup {Part(r) : r \in 1..runs} [] s = "1.5" -> 0..imports [] OTHER -> 0..runs
Content == StageSet \X (0..MaxRuns + MaxIndex + MaxImports)

TypeOK ==
    /\ index \in 1..MaxIndex
    /\ \A s \in StageSet :
          /\ file[s].gen \in Versions(s)
          /\ file[s].of \subseteq Content /\ file[s].whole \in BOOLEAN
    /\ marked \subseteq StageSet
    /\ samples \subseteq Content /\ manifest \subseteq Content
    /\ pc \in StageSet \cup {"off", "samples", "manifest", "done"}
    /\ {torn, written, resume, vectors, documented, cutShort} \subseteq BOOLEAN
    /\ passages \in Versions("0") /\ imports \in 0..MaxImports /\ imported \in 0..imports
    /\ runs \in 0..MaxRuns /\ stage \in StageArgs

Absent == [gen |-> 0, of |-> {}, whole |-> FALSE]

Init ==
    /\ index = 1 /\ file = [s \in StageSet |-> Absent] /\ marked = {} /\ torn = FALSE
    /\ samples = {} /\ manifest = {}
    /\ pc = "off" /\ written = FALSE /\ stage = "all" /\ resume = FALSE
    /\ passages = 0 /\ vectors = FALSE
    /\ imports = 0 /\ runs = 0 /\ documented = TRUE /\ imported = 0 /\ cutShort = FALSE

Idle == pc \in {"off", "done"}
Following(s) ==
    LET k == CHOOSE i \in DOMAIN Stages : Stages[i] = s
    IN IF k = Len(Stages) THEN "samples" ELSE Stages[k + 1]

\* The rows now on file for stages T.
Current(T) == {<<t, file[t].gen>> : t \in {u \in T : file[u].gen # 0}}

---------------------------------------------------------------------------

Start(s, r) ==
    /\ Idle /\ runs < MaxRuns /\ ~torn
    /\ stage' = s /\ resume' = r /\ runs' = runs + 1
    /\ pc' = Stages[1] /\ written' = FALSE /\ passages' = 0 /\ vectors' = FALSE
    /\ documented' = (documented /\ s = "all" /\ (r \/ runs = 0))
    /\ imported' = IF r THEN imported ELSE 0
    /\ UNCHANGED <<index, file, marked, torn, outputs, imports, cutShort>>

\* json.load of half a file raises, with --resume or without.
StartFails ==
    /\ Idle /\ runs < MaxRuns /\ torn
    /\ runs' = runs + 1 /\ pc' = "off" /\ stage' = "all" /\ resume' = FALSE
    /\ UNCHANGED <<index, file, marked, torn, outputs, written, memory, imports, documented, imported, cutShort>>

MutDone(s) == s \in marked \ {"1.5"}
Done(s) == s \in marked

\* Stage 2 looks at its rows, whatever progress.json says.
MutSkips(s) == stage \notin {s, "all"} \/ (resume /\ Done(s))
Skips(s) == stage \notin {s, "all"} \/ (resume /\ Done(s) /\ s # "2")

Skip(s) ==
    /\ pc = s /\ ~written /\ Skips(s)
    /\ passages' = IF s = "0" THEN file["0"].gen ELSE passages
    /\ pc' = Following(s)
    /\ UNCHANGED <<index, file, marked, torn, outputs, written, args, vectors, history, cutShort>>

\* What stage s is given: passages from memory, rows as they are on file.
Given(s) ==
    Current(Inputs[s] \ {"0"}) \cup (IF "0" \in Inputs[s] /\ passages # 0 THEN {<<"0", passages>>} ELSE {})

\* A resumed durable stage returns its old rows too, of old inputs even.
Made(s) == Given(s) \cup (IF s \in Durable /\ resume THEN file[s].of ELSE {})

\* run_stage0: the passages of the index as it is.
CorpusPrep == {index}

\* run_stage1a_batched: the rows of all passages, which may be none.
Entailed == IF Made("1a") = {} THEN {0} ELSE {runs} \cup (IF "1a" \in MayBeEmpty THEN {0} ELSE {})

\* run_stage1b, run_stage1c, run_stage2: rows, if any, after those already
\* there; with nothing to do and no failure to try again, nothing changes.
Appended(s) ==
    LET rowless == s \in MayBeEmpty /\ (~resume \/ file[s].gen = 0)
        settled == resume /\ file[s].whole /\ Made(s) = file[s].of
    IN IF Made(s) = {} THEN {0}
       ELSE {runs} \cup (IF rowless THEN {0} ELSE {}) \cup (IF settled THEN {file[s].gen} ELSE {})

\* run_stage1_5: requests for Data Designer, and a file of no rows.
GapAnalysis == {0}

\* run_stage3, run_stage4: made anew from the admitted rows.
Derived(s) == {IF Made(s) = {} THEN 0 ELSE runs}

\* Contents that stage s may leave in its file.
MutGenerations(s) == {IF Made(s) = {} THEN 0 ELSE runs}
Generations(s) ==
    CASE s = "0" -> CorpusPrep [] s = "1a" -> Entailed [] s \in Durable -> Appended(s)
      [] s = "1.5" -> GapAnalysis [] OTHER -> Derived(s)

\* Stage 1B has the seed vectors only when stage 0 ran in this program; else
\* it runs stage 0 for them, which writes the passages of the index of now,
\* while those in memory stay.
Scrolling == pc \in {"0", "1b"} /\ ~written /\ ~Skips(pc) /\ ~vectors

Rescroll ==
    /\ pc = "1b" /\ Scrolling
    /\ file' = [file EXCEPT !["0"] = [gen |-> index, of |-> {}, whole |-> TRUE]]
    /\ vectors' = TRUE
    /\ UNCHANGED <<index, marked, torn, outputs, pc, written, args, passages, history, cutShort>>

RunStage(s) ==
    /\ pc = s /\ ~written /\ ~Skips(s) /\ (s = "1b" => vectors)
    /\ \E g \in Generations(s) : file' = [file EXCEPT ![s] = [gen |-> g, of |-> Made(s), whole |-> TRUE]]
    /\ IF s = "0" THEN passages' = index /\ vectors' = TRUE ELSE UNCHANGED memory
    /\ written' = TRUE
    /\ UNCHANGED <<index, marked, torn, outputs, pc, args, history, cutShort>>

MarkDone ==
    /\ written
    /\ marked' = marked \cup {pc} /\ written' = FALSE /\ pc' = Following(pc)
    /\ UNCHANGED <<index, file, torn, outputs, args, memory, history, cutShort>>

\* sample_rows: the admitted rows, or with none the rows before admission.
SampleRows == IF file["2"].gen # 0 THEN Current({"2"}) ELSE Current(Inputs["2"])

WriteSamples ==
    /\ pc = "samples"
    /\ IF SampleRows = {} THEN pc' = "done" /\ UNCHANGED samples ELSE pc' = "manifest" /\ samples' = SampleRows
    /\ UNCHANGED <<index, file, marked, torn, manifest, written, args, memory, history, cutShort>>

\* finalize_dataset: hashes of what is on disk.
Hashes == Current(StageSet) \cup samples

WriteManifest ==
    /\ pc = "manifest"
    /\ manifest' = Hashes
    /\ pc' = "done"
    /\ UNCHANGED <<index, file, marked, torn, samples, written, args, memory, history, cutShort>>

MutMarkedAtKill == marked \cup ({pc} \cap StageSet)
MarkedAtKill == marked

\* Killed as run_stage0 writes over passages.jsonl: none or a part of the
\* passages are left in it, and progress.json says what it said.
ScrollCut ==
    /\ Scrolling
    /\ \E left \in {0, Part(runs)} : file' = [file EXCEPT !["0"] = [gen |-> left, of |-> {}, whole |-> FALSE]]
    /\ cutShort' = (cutShort \/ pc = "1b")

\* Killed as another stage writes: a durable one has the rows of some
\* inputs, the others part of their one file.
StageCut ==
    /\ pc \in StageSet \ {"0"} /\ ~written /\ ~Skips(pc) /\ (pc = "1b" => vectors)
    /\ \E of \in (IF pc \in Durable /\ ~resume THEN SUBSET Made(pc) ELSE {Made(pc)}) :
          file' = [file EXCEPT ![pc] =
              [gen |-> IF of = {} \/ pc = "1.5" THEN 0 ELSE runs, of |-> of, whole |-> FALSE]]
    /\ UNCHANGED cutShort

\* A kill between two steps, or inside one. A reader of a file whose last
\* line is cut in half raises, which ends the program like a kill.
Kill ==
    /\ ~Idle
    /\ \/ UNCHANGED <<file, marked, torn, cutShort>>
       \/ (ScrollCut \/ StageCut) /\ marked' = MarkedAtKill /\ UNCHANGED torn
       \/ written /\ torn' = TRUE /\ UNCHANGED <<file, marked, cutShort>>
    /\ pc' = "off" /\ written' = FALSE /\ passages' = 0 /\ vectors' = FALSE
    /\ stage' = "all" /\ resume' = FALSE
    /\ UNCHANGED <<index, outputs, history>>

---------------------------------------------------------------------------

\* A crawl changes the index.
Reindex ==
    /\ index < MaxIndex /\ index' = index + 1
    /\ UNCHANGED <<file, marked, torn, outputs, pc, written, args, memory, history, cutShort>>

\* data_designer_gapfill.py --mode collect needs the gap manifest and the
\* requests of stage 1.5, and puts the generated rows in place of its file.
Collectable == Idle /\ file["1.5"].whole

ImportGapfill ==
    /\ Collectable /\ imports < MaxImports
    /\ imports' = imports + 1
    /\ file' = [file EXCEPT !["1.5"].gen = imports']
    /\ imported' = IF "1.5" \in marked THEN imports' ELSE imported
    /\ pc' = "off" /\ stage' = "all" /\ resume' = FALSE
    /\ UNCHANGED <<index, marked, torn, outputs, written, memory, runs, documented, cutShort>>

\* finalize_dataset.py on its own: samples on file are kept, missing ones
\* are made from the admitted rows.
Finalize ==
    /\ pc = "off" /\ (samples # {} \/ file["2"].gen # 0)
    /\ samples' = IF samples = {} THEN Current({"2"}) ELSE samples
    /\ manifest' = Current(StageSet) \cup samples'
    /\ UNCHANGED <<index, file, marked, torn, pc, written, args, memory, history, cutShort>>

Next ==
    \/ \E s \in StageArgs, r \in BOOLEAN : Start(s, r)
    \/ StartFails \/ (\E s \in StageSet : Skip(s) \/ RunStage(s))
    \/ Rescroll \/ MarkDone \/ WriteSamples \/ WriteManifest \/ Kill
    \/ Reindex \/ ImportGapfill \/ Finalize

Spec == Init /\ [][Next]_vars

---------------------------------------------------------------------------

\* Used as documented, the stages progress.json lists are the first ones
\* wherever programs were killed. With an index that stays, and no kill that
\* fell in the scroll of stage 1B, each of them has its whole file, made
\* from the contents its input stages have now; only stages 3 and 4 may be
\* older than a stage 2 that a later run went over again.
MarkedCurrent ==
    documented =>
        /\ \A k \in DOMAIN Stages : Stages[k] \in marked => \A i \in 1..k : Stages[i] \in marked
        /\ index = 1 /\ ~cutShort => \A s \in marked \ {"1.5"} :
              /\ file[s].whole \/ (s = "2" /\ pc # "done")
              /\ s # "2" => \/ file[s].of = Current(Inputs[s])
                            \/ s \in {"3", "4"} /\ file[s].gen < file["2"].gen

\* A program for all stages that reaches its end, after any history, leaves
\* all stages marked, verdicts on all rows of stages 1A to 1.5 as they are
\* now, samples of the rows admitted and a manifest of what is on disk.
\* Without --resume nothing is left of earlier runs: each file is made from
\* exactly the present files of its input stages.
EndsWhole ==
    pc = "done" /\ stage = "all" =>
        /\ marked = StageSet
        /\ Current(Inputs["2"]) \subseteq file["2"].of
        /\ file["2"].gen # 0 => samples = Current({"2"})
        /\ SampleRows # {} => manifest = Current(StageSet) \cup samples
        /\ ~resume => \A s \in StageSet : file[s].whole /\ file[s].of = Current(Inputs[s])

\* Gap-fill rows collected once stage 1.5 is marked stay in its file as long
\* as every program is started with --resume, for whatever stage.
ImportKept == imported # 0 => file["1.5"].gen = imported
=============================================================================
