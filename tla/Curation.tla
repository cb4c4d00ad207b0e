------------------------------ MODULE Curation ------------------------------
(* From admitted rows to the files a trainer and an evaluator read: stage  *)
(* 3 (deduplication, filters, split), the NeMo Curator handoff that writes *)
(* the same split, the holdout split, the test set with retrieved context  *)
(* and the golden test set. Each is a program of its own that an operator  *)
(* starts; every file carries the run that wrote it.                       *)
EXTENDS Naturals, Sequences, FiniteSets, SequencesExt

CONSTANTS
    Inputs,         \* contents of stage2_eval.jsonl: sequences of rows
    Key,            \* each question without case and the blanks around it
    Words,          \* the words of each question, without case
    Near,           \* pairs of row ids that MinHash reports as near-duplicates
    Unfit,          \* ids of the rows for which an unfit context is retrieved
    Removals,       \* sets of row ids that the filters of NeMo Curator may remove
    Html,           \* the passages that come from HTML pages
    Ratio,          \* the shares "train", "test" and "val", as [num, den]
    MaxRuns         \* bound on the starts of a program

\* A row: its id, question, passage, stage, and whether it is long enough and
\* its answer is not part of its question. A row of unknown stage has none of
\* the passages: its metadata could not be found.
StageOrder == <<"1.5", "1a", "1b", "1c", "unknown">>
Stages == {StageOrder[i] : i \in DOMAIN StageOrder}
NoPassage == ""

AllRows == UNION {{a[i] : i \in DOMAIN a} : a \in Inputs}

ASSUME RowAssumption ==
    /\ MaxRuns \in Nat
    /\ \A a \in Inputs : a \in Seq(AllRows)
    /\ \A r \in AllRows : DOMAIN r = {"id", "q", "p", "s", "ok"} /\ r.s \in Stages

\* The elements of a at the positions I, in their order.
At(a, I) ==
    LET upTo[i \in 0..Len(a)] ==
            IF i = 0 THEN <<>> ELSE IF i \in I THEN Append(upTo[i - 1], a[i]) ELSE upTo[i - 1]
    IN upTo[Len(a)]

HtmlRows(a) == At(a, {i \in DOMAIN a : a[i].p \in Html})

VARIABLES
    admitted,       \* stage2_eval.jsonl and provenance/dataset_samples.jsonl
    curator,        \* curator/: the samples handed to NeMo Curator and the retained
    disk,           \* the dataset's files, each with the run that wrote it
    golden,         \* the golden test set, plain and with context
    job,            \* the program that runs: the files it has yet to write
    runs

vars == <<admitted, curator, disk, golden, job, runs>>

Names == {"training", "validation", "adapter_train", "adapter_val", "test_set", "with_context"}

\* A file: the run that wrote it, the runs of the files it was made from, whether
\* its rows went through the deduplication of stage 3 and whether that run
\* wrote all of it.
Holding(R) == [run : 0..MaxRuns, src : SUBSET (0..MaxRuns), deduped : BOOLEAN, whole : BOOLEAN, rows : Seq(R)]
Missing == [run |-> 0, src |-> {}, deduped |-> TRUE, whole |-> TRUE, rows |-> <<>>]
NoHandoff == [input |-> {}, open |-> FALSE, retained |-> {}]
Idle == [todo |-> <<>>, all |-> {}, test |-> {}]

AllPairs == {<<r.id, r.q>> : r \in AllRows}
SplitRows ==
    {x \in [id : {r.id : r \in AllRows}, q : {r.q : r \in AllRows}, p : {r.p : r \in AllRows} \cup {NoPassage},
            s : Stages, f : {"training", "validation"}] : <<x.id, x.q>> \in AllPairs}
RowsOf(f) == IF f \in {"training", "validation"} THEN AllRows ELSE SplitRows
Files(f) == Holding(RowsOf(f))
Writes == [file : Names \ {"with_context"}, as : Holding(AllRows \cup SplitRows)]

TypeOK ==
    /\ admitted \in Seq(AllRows)
    /\ curator \in [input : SUBSET AllRows, open : BOOLEAN, retained : SUBSET AllRows]
    /\ DOMAIN disk = Names /\ \A f \in Names : disk[f] \in Files(f)
    /\ golden \in [test : 0..MaxRuns, baked : SUBSET (0..MaxRuns), seen : SUBSET {Words[r.q] : r \in AllRows},
                   plain : Seq(SplitRows), context : Seq(SplitRows)]
    /\ Len(golden.plain) = Len(golden.context)
    /\ job \in [todo : Seq(Writes), all : SUBSET SplitRows, test : SUBSET SplitRows]
    /\ \A i \in DOMAIN job.todo : job.todo[i].as \in Files(job.todo[i].file)
    /\ runs \in 0..MaxRuns

Init ==
    /\ admitted \in Inputs
    /\ curator = NoHandoff
    /\ disk = [f \in Names |-> Missing]
    /\ golden = [test |-> 0, baked |-> {}, seen |-> {}, plain |-> <<>>, context |-> <<>>]
    /\ job = Idle /\ runs = 0

---------------------------------------------------------------------------
\* Stage 3

Pos(a, I) == {a[i] : i \in I}

\* exact_dedup: the first row of each question, whatever its case.
MutExactDedup(a) == {i \in DOMAIN a : \A j \in 1..i - 1 : a[j] # a[i]}
ExactDedup(a) == {i \in DOMAIN a : \A j \in 1..i - 1 : Key[a[j].q] # Key[a[i].q]}

Similar(r, t) == {r.id, t.id} \in Near

\* minhash_dedup: a row is kept when no row kept before it is similar.
MinhashDedup(a, I) ==
    LET kept[i \in 0..Len(a)] ==
            IF i = 0 THEN {}
            ELSE IF i \in I /\ \A j \in kept[i - 1] : ~Similar(a[j], a[i]) THEN kept[i - 1] \cup {i}
            ELSE kept[i - 1]
    IN kept[Len(a)]

\* length_filter and answer_subset_of_question_filter look at a row alone.
Curated(a) == {r \in Pos(a, MinhashDedup(a, ExactDedup(a))) : r.ok}

Share(n, kind) == (n * Ratio[kind].num) \div Ratio[kind].den
AtLeastOne(n) == IF n = 0 THEN 1 ELSE n
OfStage(R, s) == {r \in R : r.s = s}

\* Parts of R with Size(n) of the n rows of each stage, one per seed.
Stratified(R, Size(_)) ==
    {T \in SUBSET R : \A s \in Stages :
        OfStage(R, s) # {} => Cardinality(OfStage(T, s)) = Size(Cardinality(OfStage(R, s)))}

\* train_val_split of stage 3.
TrainSize(n) == Share(n, "train")

\* train_val_split_samples keeps a validation row of every bucket of two.
HandoffSize(n) == IF n > 1 /\ Share(n, "train") = n THEN n - 1 ELSE Share(n, "train")

---------------------------------------------------------------------------
\* The holdout split

\* _enrich_from_stage2_eval: the metadata of the last admitted row with the
\* question, which need not be the row that stage 3 kept; a question that is
\* not admitted any more has none.
Meta(r) ==
    LET same == {i \in DOMAIN admitted : admitted[i].q = r.q}
    IN IF same = {} THEN [r EXCEPT !.p = NoPassage, !.s = "unknown"]
       ELSE [r EXCEPT !.p = admitted[Max(same)].p, !.s = admitted[Max(same)].s]

OfPassage(R, p) == {r \in R : r.p = p}

\* Rows of two files are told apart by `f`, their uids are not.
Uid(r) == <<r.p, r.q>>

\* pick_test_kvp_uids, first pass: a sample of each stage, in any order.
TestSize(n) == LET k == AtLeastOne(Share(n, "test")) IN IF k > n THEN n ELSE k
Rank(s) == CHOOSE i \in DOMAIN StageOrder : StageOrder[i] = s
ByStage(c) == \A i, j \in DOMAIN c : i < j => Rank(c[i].s) <= Rank(c[j].s)
Candidates(R) == UNION {{c \in SetToSeqs(T) : ByStage(c)} : T \in Stratified(R, TestSize)}

\* Second pass: a row whose passage has no other row left is swapped for an
\* unpicked one of its stage, of another passage with several rows, or else
\* dropped. `sel` counts the picked rows of a passage. The sort order of the
\* uids, a hash, picks among the swaps: any one.
MutSwaps(R, picked, r) == {t \in OfStage(R, r.s) : Uid(t) \notin picked /\ t.p # r.p}
Swaps(R, picked, r) ==
    {t \in OfStage(R, r.s) : Uid(t) \notin picked /\ t.p # r.p /\ Cardinality(OfPassage(R, t.p)) > 1}

Resolve(R, st, r) ==
    IF st.sel[r.p] < Cardinality(OfPassage(R, r.p))
    THEN {[st EXCEPT !.final = @ \cup {Uid(r)}]}
    ELSE LET dropped == [st EXCEPT !.picked = @ \ {Uid(r)}, !.sel[r.p] = @ - 1]
         IN IF Swaps(R, st.picked, r) = {} THEN {dropped}
            ELSE {[dropped EXCEPT !.picked = @ \cup {Uid(t)}, !.sel[t.p] = @ + 1, !.final = @ \cup {Uid(t)}]
                    : t \in Swaps(R, st.picked, r)}

PickTest(R, cands) ==
    LET start == [picked |-> {Uid(r) : r \in Range(cands)}, final |-> {},
                  sel |-> [p \in {r.p : r \in R} |-> Cardinality(OfPassage(Range(cands), p))]]
        after[i \in 0..Len(cands)] ==
            IF i = 0 THEN {start} ELSE UNION {Resolve(R, st, cands[i]) : st \in after[i - 1]}
    IN {st.final : st \in after[Len(cands)]}

\* partition_kvps: the test set is every row with a picked uid.
MutTestRows(R, uids) == CHOOSE T \in SUBSET R : Cardinality(T) = Cardinality(uids) /\ {Uid(r) : r \in T} = uids
TestRows(R, uids) == {r \in R : Uid(r) \in uids}

\* Of what is left, at least one row of each stage is for validation.
ValSize(n) == AtLeastOne(Share(n, "val"))

---------------------------------------------------------------------------
\* The programs. A program computes first and then writes file by file.

Start(writes, all, test) ==
    /\ job = Idle /\ runs < MaxRuns
    /\ runs' = runs + 1
    /\ job' = [todo |-> writes, all |-> all, test |-> test]

\* The file f with the rows R of the run that starts.
Write(f, src, deduped, R) ==
    [file |-> f,
     as |-> [run |-> runs + 1, src |-> src, deduped |-> deduped, whole |-> TRUE, rows |-> SetToSeq(R)]]

Dataset(T, V, deduped) ==
    <<Write("training", {runs + 1}, deduped, T), Write("validation", {runs + 1}, deduped, V)>>

\* train_in + val_in: a question of both files is there twice.
MutRows(f, R) == {[id |-> r.id, q |-> r.p, p |-> r.p, s |-> r.s, f |-> f] : r \in R}
Rows(f, R) == {[id |-> r.id, q |-> r.q, p |-> r.p, s |-> r.s, f |-> f] : r \in R}

\* What a holdout split of the rows R may choose: the test rows, the
\* validation rows, and the rest.
Holdouts(R) ==
    UNION {UNION {{[test |-> TestRows(R, U), val |-> V] : V \in Stratified(R \ TestRows(R, U), ValSize)}
             : U \in PickTest(R, c)} : c \in Candidates(R)}

Splits(R, src, deduped, h) ==
    <<Write("adapter_train", src, deduped, R \ (h.test \cup h.val)), Write("adapter_val", src, deduped, h.val),
      Write("test_set", src, deduped, h.test)>>

\* Stage 2 ran again, and admitted other rows.
Readmit ==
    /\ job = Idle /\ runs < MaxRuns /\ disk["training"].run > 0
    /\ runs' = runs + 1
    /\ admitted' \in Inputs \ {admitted}
    /\ UNCHANGED <<curator, disk, golden, job>>

RunStage3 ==
    /\ \E T \in Stratified(Curated(admitted), TrainSize) :
          Start(Dataset(T, Curated(admitted) \ T, TRUE), {}, {})
    /\ UNCHANGED <<admitted, curator, disk, golden>>

\* prepare_curator_input: every admitted sample. What an earlier job of
\* Curator retained stays in the directory.
PrepareHandoff ==
    /\ job = Idle /\ curator.input # Range(admitted)
    /\ curator' = [curator EXCEPT !.input = Range(admitted), !.open = TRUE]
    /\ UNCHANGED <<admitted, disk, golden, job, runs>>

\* The native job of NeMo Curator only filters, each row alone: what it retains
\* may have a question several times.
CuratorEnds ==
    /\ curator.open
    /\ \E I \in Removals :
         curator' = [curator EXCEPT !.open = FALSE, !.retained = {r \in curator.input : r.id \notin I}]
    /\ UNCHANGED <<admitted, disk, golden, job, runs>>

\* load_records, apply_curation_status: the retained records that are still
\* admitted samples.
Retained == curator.retained \cap Range(admitted)

CollectHandoff ==
    /\ curator.retained # {}
    /\ \E T \in Stratified(Retained, HandoffSize) : Start(Dataset(T, Retained \ T, FALSE), {}, {})
    /\ UNCHANGED <<admitted, curator, disk, golden>>

\* run_split of the holdout split.
RunSplit ==
    /\ disk["training"].rows \o disk["validation"].rows # <<>>
    /\ LET R == UNION {Rows(f, {Meta(r) : r \in Range(disk[f].rows)}) : f \in {"training", "validation"}}
           src == {disk["training"].run, disk["validation"].run}
           deduped == disk["training"].deduped /\ disk["validation"].deduped
       IN \E h \in Holdouts(R) : Start(Splits(R, src, deduped, h), R, h.test)
    /\ UNCHANGED <<admitted, curator, disk, golden>>

\* main of build_html_only_grounded_dataset with --force: the directory is
\* removed and made again from the admitted rows of HTML passages.
RunHtmlOnly ==
    /\ admitted' = HtmlRows(admitted)
    /\ disk' = [f \in Names |-> Missing]
    /\ curator' = NoHandoff
    /\ LET C == Curated(HtmlRows(admitted))
           R(T) == Rows("training", T) \cup Rows("validation", C \ T)
       IN \E T \in Stratified(C, TrainSize) : \E h \in Holdouts(R(T)) :
            Start(Dataset(T, C \ T, TRUE) \o Splits(R(T), {runs + 1}, TRUE, h), R(T), h.test)
    /\ UNCHANGED golden

\* It is killed before the admitted rows are all copied.
KillHtmlOnly ==
    /\ job = Idle /\ runs < MaxRuns
    /\ runs' = runs + 1
    /\ \E n \in 0..Len(HtmlRows(admitted)) : admitted' = SubSeq(HtmlRows(admitted), 1, n)
    /\ disk' = [f \in Names |-> Missing]
    /\ curator' = NoHandoff
    /\ UNCHANGED <<golden, job>>

WriteNext ==
    /\ job.todo # <<>>
    /\ disk' = [disk EXCEPT ![Head(job.todo).file] = Head(job.todo).as]
    /\ job' = IF Len(job.todo) = 1 THEN Idle ELSE [job EXCEPT !.todo = Tail(@)]
    /\ UNCHANGED <<admitted, curator, golden, runs>>

\* bake_row: a row keeps its question whatever is retrieved for it, or not.
Baked(n) ==
    [disk["test_set"] EXCEPT !.run = runs, !.src = {disk["test_set"].run}, !.rows = SubSeq(@, 1, n)]

\* main of bake_context_into_testset: row by row, so a kill or --limit
\* leaves a prefix of the test set.
Bake ==
    /\ job = Idle /\ disk["test_set"].run > 0
    /\ \E n \in 0..Len(disk["test_set"].rows) : disk' = [disk EXCEPT !["with_context"] = Baked(n)]
    /\ UNCHANGED <<admitted, curator, golden, job, runs>>

\* build_one of build_golden_testset: the rows are paired by position, and a
\* pair is left out when its plain prompt is a current training prompt, or when
\* its context is unfit: from a PDF, none, or without a text that is required.
Prompts == {Words[r.q] : r \in Range(disk["adapter_train"].rows) \cup Range(disk["adapter_val"].rows)}

MutKeptPairs(plain, context, seen) == {i \in DOMAIN plain : context[i].id \notin Unfit}
KeptPairs(plain, context, seen) ==
    {i \in DOMAIN plain : Words[plain[i].q] \notin seen /\ context[i].id \notin Unfit}

BuildGolden ==
    /\ job = Idle
    /\ disk["test_set"].run > 0 /\ disk["with_context"].run > 0
    /\ Len(disk["test_set"].rows) = Len(disk["with_context"].rows)
    /\ LET kept == KeptPairs(disk["test_set"].rows, disk["with_context"].rows, Prompts)
       IN golden' = [test |-> disk["test_set"].run, baked |-> disk["with_context"].src, seen |-> Prompts,
                     plain |-> At(disk["test_set"].rows, kept),
                     context |-> At(disk["with_context"].rows, kept)]
    /\ UNCHANGED <<admitted, curator, disk, job, runs>>

\* A program is killed between two files, or in one: a file is opened with "w"
\* and written row by row.
Kill ==
    /\ job.todo # <<>> /\ job' = Idle
    /\ \/ UNCHANGED disk
       \/ LET w == Head(job.todo)
          IN \E n \in 0..Len(w.as.rows) :
                disk' = [disk EXCEPT ![w.file] = [w.as EXCEPT !.whole = FALSE, !.rows = SubSeq(@, 1, n)]]
    /\ UNCHANGED <<admitted, curator, golden, runs>>

Next ==
    \/ Readmit \/ RunStage3
    \/ PrepareHandoff \/ CuratorEnds \/ CollectHandoff
    \/ RunSplit \/ RunHtmlOnly \/ KillHtmlOnly \/ WriteNext
    \/ Bake \/ BuildGolden
    \/ Kill

Spec == Init /\ [][Next]_vars

---------------------------------------------------------------------------

Questions(f) == {r.q : r \in Range(disk[f].rows)}
SameRun(F) == \A f, g \in F : disk[f].run = disk[g].run

\* No row is in the training and in the validation file of one run, cut short
\* or not; and when stage 3 made them, no two rows across them ask the same
\* question or are near-duplicates by MinHash. What NeMo Curator retained is
\* split as it is, repeated questions and all.
SplitsDisjoint ==
    SameRun({"training", "validation"}) =>
        \A t \in Range(disk["training"].rows), v \in Range(disk["validation"].rows) :
            t # v /\ (disk["training"].deduped => Key[t.q] # Key[v.q] /\ ~Similar(t, v))

\* Whatever pick_test_kvp_uids swaps and drops, though training.jsonl and
\* validation.jsonl may be of two runs or of NeMo Curator and share questions,
\* no question of a test set is in the adapter's files of that run. Those two
\* share none when they are made from one run of stage 3; and the three hold
\* every question of the files they are made from, but where a kill cut a file
\* short.
HoldoutPartitions ==
    SameRun({"adapter_train", "adapter_val", "test_set"}) =>
        LET set == disk["test_set"]
        IN /\ Questions("test_set") \cap (Questions("adapter_train") \cup Questions("adapter_val")) = {}
           /\ Cardinality(set.src) = 1 /\ set.deduped =>
                Questions("adapter_train") \cap Questions("adapter_val") = {}
           /\ (\A f \in {"training", "validation"} : {disk[f].run} = set.src)
              /\ (\A f \in Names \ {"with_context"} : disk[f].whole) =>
                UNION {Questions(f) : f \in {"adapter_train", "adapter_val", "test_set"}} =
                    Questions("training") \cup Questions("validation")

\* A passage with a single row keeps it: swaps only ever take a row of a
\* passage that has several (the regression test of holdout_split names it).
SingletonsKept ==
    \A r \in job.test : Cardinality(OfPassage(job.all, r.p)) > 1

\* stage3/holdout_split.py:37 "Passage-coverage invariant: no passage is
\* fully removed from the remainder."
CoverageKept ==
    \A r \in job.test : \E t \in job.all \ job.test : t.p = r.p

\* No row of a golden test set asks what the adapter was trained on, plain
\* or with context, as long as the context was baked from this test set.
GoldenUnseen ==
    golden.baked = {golden.test} =>
        \A i \in DOMAIN golden.plain :
            Words[golden.plain[i].q] \notin golden.seen /\ Words[golden.context[i].q] \notin golden.seen

=============================================================================
