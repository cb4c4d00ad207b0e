---------------------------- MODULE Build_proofs ----------------------------
(* What a program of all stages leaves behind, that progress.json is true  *)
(* of the files where the program is used as documented, and that imported *)
(* gap-fill rows stay: for any arguments, any number of programs, kills,   *)
(* crawls and imports, and whatever stages come out without rows.          *)
EXTENDS Build, TLAPS

\* The order of the stages and of what follows them.
Num(p) ==
    CASE p = "0" -> 1 [] p = "1a" -> 2 [] p = "1b" -> 3 [] p = "1c" -> 4
      [] p = "1.5" -> 5 [] p = "2" -> 6 [] p = "3" -> 7 [] p = "4" -> 8
      [] p = "samples" -> 9 [] p = "manifest" -> 10 [] p = "done" -> 11 [] OTHER -> 0

Before(p) == {s \in StageSet : Num(s) < Num(p)}

\* The stages this program is done with; the last may not be marked yet.
Passed == Before(pc) \cup (IF written THEN {pc} ELSE {})

File == [gen : Nat, of : SUBSET Content, whole : BOOLEAN]

Types ==
    /\ TypeOK
    /\ file \in [StageSet -> File]
    /\ written => pc \in StageSet /\ file[pc].whole

\* What a program leaves behind it.
Marks == stage = "all" => Before(pc) \subseteq marked
Verdicts ==
    stage = "all" /\ "2" \in Passed =>
        Current(Inputs["2"]) \subseteq file["2"].of /\ file["2"].whole
Sampled == pc \in {"manifest", "done"} /\ file["2"].gen # 0 => samples = Current({"2"})
Hashed == pc = "done" /\ SampleRows # {} => manifest = Current(StageSet) \cup samples
FreshMemory ==
    stage = "all" /\ ~resume /\ "0" \in Passed => vectors /\ passages = file["0"].gen /\ passages # 0
FreshFiles ==
    stage = "all" /\ ~resume => \A s \in Passed : file[s].whole /\ file[s].of = Current(Inputs[s])

Ends == Marks /\ Verdicts /\ Sampled /\ Hashed /\ FreshMemory /\ FreshFiles

\* Programs started as documented mark the first stages, and a first one
\* none that it has not come to.
FirstRun == runs = 0 => pc = "off" /\ marked = {}
Arguments == documented => stage = "all"
FreshMarks == documented /\ ~resume /\ pc # "off" => marked \subseteq Before(pc)
Ordered == documented => \A s \in marked : Before(s) \subseteq marked

Firsts == FirstRun /\ Arguments /\ FreshMarks /\ Ordered

\* The files of marked stages are whole.
WholeFiles == documented /\ ~cutShort => \A s \in marked \ {"1.5", "2"} : file[s].whole

\* Contents of stages 3 and 4 are older than the run that has not come to
\* them, and where the index stays all passages are of its one version.
Older ==
    \A s \in {"3", "4"} : pc \in StageSet /\ s \notin Passed => file[s].gen < runs
Rows2 == file["2"].gen # 0 => file["2"].of # {}
OnePassages ==
    documented /\ index = 1 /\ ~cutShort =>
        /\ \A s \in {"1b", "1c"} : file[s].of \subseteq {<<"0", 1>>}
        /\ "0" \in marked => file["0"].gen = 1
        /\ "0" \in Passed => file["0"].gen = 1 /\ passages = 1
MadeOfInputs(s) ==
    \/ file[s].of = Current(Inputs[s])
    \/ s \in {"3", "4"} /\ file[s].gen < file["2"].gen
MarkedMade == documented /\ index = 1 /\ ~cutShort => \A s \in marked \ {"1.5", "2"} : MadeOfInputs(s)
WrittenMade ==
    documented /\ index = 1 /\ ~cutShort /\ written /\ pc \notin {"1.5", "2"} =>
        file[pc].of = Current(Inputs[pc])

Contents == WholeFiles /\ Older /\ Rows2 /\ OnePassages /\ MarkedMade /\ WrittenMade

\* Imported rows are out of reach of stage 1.5.
Imported ==
    imported # 0 => "1.5" \in marked /\ file["1.5"].gen = imported /\ (~Idle => resume)

IInv == Types /\ Ends /\ Firsts /\ Contents /\ Imported

---------------------------------------------------------------------------

LEMMA StageNames == StageSet = {"0", "1a", "1b", "1c", "1.5", "2", "3", "4"}
<1>1. DOMAIN Stages = {1, 2, 3, 4, 5, 6, 7, 8}
  BY DEF Stages
<1>2. /\ Stages[1] = "0" /\ Stages[2] = "1a" /\ Stages[3] = "1b" /\ Stages[4] = "1c"
      /\ Stages[5] = "1.5" /\ Stages[6] = "2" /\ Stages[7] = "3" /\ Stages[8] = "4"
  BY DEF Stages
<1> QED
  BY <1>1, <1>2 DEF StageSet

LEMMA Numbers ==
  /\ Num("0") = 1 /\ Num("1a") = 2 /\ Num("1b") = 3 /\ Num("1c") = 4 /\ Num("1.5") = 5
  /\ Num("2") = 6 /\ Num("3") = 7 /\ Num("4") = 8
  /\ Num("samples") = 9 /\ Num("manifest") = 10 /\ Num("done") = 11 /\ Num("off") = 0
BY DEF Num

\* Where main goes after a stage.
LEMMA NextStage ==
  /\ Following("0") = "1a" /\ Following("1a") = "1b" /\ Following("1b") = "1c"
  /\ Following("1c") = "1.5" /\ Following("1.5") = "2" /\ Following("2") = "3"
  /\ Following("3") = "4" /\ Following("4") = "samples"
<1>1. DOMAIN Stages = {1, 2, 3, 4, 5, 6, 7, 8} /\ Len(Stages) = 8
  BY DEF Stages
<1>2. /\ Stages[1] = "0" /\ Stages[2] = "1a" /\ Stages[3] = "1b" /\ Stages[4] = "1c"
      /\ Stages[5] = "1.5" /\ Stages[6] = "2" /\ Stages[7] = "3" /\ Stages[8] = "4"
  BY DEF Stages
<1>3. ASSUME NEW k \in DOMAIN Stages
      PROVE  (CHOOSE i \in DOMAIN Stages : Stages[i] = Stages[k]) = k
  <2>1. \A i \in DOMAIN Stages : Stages[i] = Stages[k] => i = k
    BY <1>1, <1>2
  <2> QED
    BY <2>1
<1>4. ASSUME NEW k \in DOMAIN Stages
      PROVE  Following(Stages[k]) = IF k = Len(Stages) THEN "samples" ELSE Stages[k + 1]
  <2>1. PICK c : c = CHOOSE i \in DOMAIN Stages : Stages[i] = Stages[k]
    OBVIOUS
  <2>2. Following(Stages[k]) = IF c = Len(Stages) THEN "samples" ELSE Stages[c + 1]
    BY <2>1 DEF Following
  <2> QED
    BY <1>3, <2>1, <2>2
<1>5. Following(Stages[8]) = "samples"
  BY <1>1, <1>4
<1>6. /\ Following(Stages[1]) = Stages[2] /\ Following(Stages[2]) = Stages[3]
      /\ Following(Stages[3]) = Stages[4] /\ Following(Stages[4]) = Stages[5]
      /\ Following(Stages[5]) = Stages[6] /\ Following(Stages[6]) = Stages[7]
      /\ Following(Stages[7]) = Stages[8]
  BY <1>1, <1>4
<1> QED
  BY <1>2, <1>5, <1>6

\* The stages are in order, and one needs only rows of stages before it.
LEMMA Order ==
  ASSUME NEW s \in StageSet
  PROVE  /\ Num(s) \in 1..8
         /\ Following(s) \in StageSet \cup {"samples"}
         /\ Num(Following(s)) = Num(s) + 1
         /\ \A t \in StageSet : Num(t) = Num(s) => t = s
BY StageNames, Numbers, NextStage

LEMMA NumNat ==
  ASSUME NEW p \in StageSet \cup {"off", "samples", "manifest", "done"}
  PROVE  Num(p) \in 0..11
BY StageNames, Numbers

LEMMA InputsOf ==
  /\ Inputs["0"] = {} /\ Inputs["1a"] = {"0"} /\ Inputs["1b"] = {"0"} /\ Inputs["1c"] = {"0"}
  /\ Inputs["1.5"] = {"0", "1a", "1b", "1c"} /\ Inputs["2"] = {"1a", "1b", "1c", "1.5"}
  /\ Inputs["3"] = {"2"} /\ Inputs["4"] = {"2"}
BY StageNames DEF Inputs

LEMMA InputsBefore ==
  ASSUME NEW s \in StageSet
  PROVE  /\ Inputs[s] \subseteq StageSet
         /\ \A t \in Inputs[s] : Num(t) < Num(s)
BY InputsOf, StageNames, Numbers

LEMMA BeforeWhat ==
  /\ Before("off") = {} /\ Before("0") = {}
  /\ Before("samples") = StageSet /\ Before("manifest") = StageSet /\ Before("done") = StageSet
  /\ \A s \in StageSet : Before(Following(s)) = Before(s) \cup {s}
<1>1. \A s \in StageSet : Num(s) \in 1..8
  BY Order
<1>2. /\ Before("off") = {} /\ Before("0") = {}
      /\ Before("samples") = StageSet /\ Before("manifest") = StageSet /\ Before("done") = StageSet
  BY <1>1, Numbers DEF Before
<1>3. ASSUME NEW s \in StageSet
      PROVE  Before(Following(s)) = Before(s) \cup {s}
  BY <1>1, Order DEF Before
<1> QED
  BY <1>2, <1>3

---------------------------------------------------------------------------

\* The versions of a content grow with the index, the imports and the runs.
LEMMA VersionsGrow ==
  ASSUME Types, index' \in Nat, imports' \in Nat, runs' \in Nat,
         index <= index', imports <= imports', runs <= runs',
         NEW s \in StageSet
  PROVE  Versions(s) \subseteq Versions(s)'
<1>1. index \in Nat /\ imports \in Nat /\ runs \in Nat
  BY DEF Types, TypeOK
<1>2. CASE s = "0"
  BY <1>1, <1>2 DEF Versions
<1>3. CASE s # "0"
  BY <1>1, <1>3 DEF Versions
<1> QED
  BY <1>2, <1>3

LEMMA VersionsSame ==
  ASSUME UNCHANGED <<index, imports, runs>>
  PROVE  \A s \in StageSet : Versions(s)' = Versions(s)
BY DEF Versions

LEMMA VersionsBounded ==
  ASSUME Types, NEW s \in StageSet
  PROVE  Versions(s) \subseteq 0..MaxRuns + MaxIndex + MaxImports
<1>1. index \in 1..MaxIndex /\ imports \in 0..MaxImports /\ runs \in 0..MaxRuns
  BY DEF Types, TypeOK
<1>2. MaxIndex \in Nat /\ MaxImports \in Nat /\ MaxRuns \in Nat
  BY BoundAssumption
<1>3. CASE s = "0"
  BY <1>1, <1>2, <1>3 DEF Versions, Part
<1>4. CASE s # "0"
  BY <1>1, <1>2, <1>4 DEF Versions
<1> QED
  BY <1>3, <1>4

\* What is on file may be a content, and so may what a stage makes of it.
LEMMA CurrentTyped ==
  ASSUME Types, NEW T \in SUBSET StageSet
  PROVE  Current(T) \in SUBSET Content
<1>1. \A s \in StageSet : file[s].gen \in 0..MaxRuns + MaxIndex + MaxImports
  BY VersionsBounded DEF Types, TypeOK
<1> QED
  BY <1>1 DEF Current, Content

LEMMA MadeTyped ==
  ASSUME Types, NEW s \in StageSet
  PROVE  Given(s) \in SUBSET Content /\ Made(s) \in SUBSET Content
<1>1. Current(Inputs[s] \ {"0"}) \in SUBSET Content
  BY CurrentTyped, InputsBefore
<1>2. passages \in 0..MaxRuns + MaxIndex + MaxImports
  BY VersionsBounded, StageNames DEF Types, TypeOK
<1>3. <<"0", passages>> \in Content
  BY <1>2, StageNames DEF Content
<1>4. Given(s) \in SUBSET Content
  BY <1>1, <1>3 DEF Given
<1>5. file[s].of \in SUBSET Content
  BY DEF Types, TypeOK
<1> QED
  BY <1>4, <1>5 DEF Made

\* The contents a stage may come out with.
LEMMA GenerationsTyped ==
  ASSUME Types, NEW s \in StageSet, NEW g \in Generations(s)
  PROVE  /\ s = "0" => g = index
         /\ s = "1.5" => g = 0
         /\ s \in {"1a", "3", "4"} => g \in {0, runs}
         /\ s \in Durable => g \in {0, runs, file[s].gen}
<1>1. CASE s = "0"
  BY <1>1 DEF Generations, CorpusPrep, Durable
<1>2. CASE s = "1a"
  BY <1>2 DEF Generations, Entailed, Durable
<1>3. CASE s = "1.5"
  BY <1>3 DEF Generations, GapAnalysis, Durable
<1>4. CASE s \in Durable
  <2>1. g \in Appended(s)
    BY <1>4 DEF Generations, Durable
  <2> QED
    BY <1>4, <2>1 DEF Appended, Durable
<1>5. CASE s \in {"3", "4"}
  BY <1>5 DEF Generations, Derived, Durable
<1> QED
  BY <1>1, <1>2, <1>3, <1>4, <1>5, StageNames DEF Durable

\* A stage writes its own file only.
LEMMA OneFile ==
  ASSUME Types, NEW s \in StageSet, NEW e \in File,
         file' = [file EXCEPT ![s] = e]
  PROVE  /\ file' \in [StageSet -> File]
         /\ file'[s] = e
         /\ \A t \in StageSet \ {s} : file'[t] = file[t]
BY DEF Types

LEMMA FileTypes ==
  ASSUME Types, NEW s \in StageSet, NEW e \in File,
         file' = [file EXCEPT ![s] = e],
         UNCHANGED <<index, imports, runs>>,
         e.gen \in Versions(s)
  PROVE  /\ file' \in [StageSet -> File]
         /\ \A t \in StageSet :
               /\ file'[t].gen \in Versions(t)'
               /\ file'[t].of \subseteq Content /\ file'[t].whole \in BOOLEAN
<1>1. /\ file' \in [StageSet -> File]
      /\ file'[s] = e
      /\ \A t \in StageSet \ {s} : file'[t] = file[t]
  BY OneFile
<1>2. e.of \subseteq Content /\ e.whole \in BOOLEAN
  BY DEF File
<1>3. \A t \in StageSet : Versions(t)' = Versions(t)
  BY DEF Versions
<1>4. ASSUME NEW t \in StageSet \ {s}
      PROVE  /\ file'[t].gen \in Versions(t)'
             /\ file'[t].of \subseteq Content /\ file'[t].whole \in BOOLEAN
  BY <1>1, <1>3, <1>4 DEF Types, TypeOK
<1>5. /\ file'[s].gen \in Versions(s)'
      /\ file'[s].of \subseteq Content /\ file'[s].whole \in BOOLEAN
  BY <1>1, <1>2, <1>3
<1> QED
  BY <1>1, <1>4, <1>5

LEMMA RunTypes ==
  ASSUME Types, NEW s \in StageSet, RunStage(s)
  PROVE  Types'
<1> DEFINE e(g) == [gen |-> g, of |-> Made(s), whole |-> TRUE]
<1>1. PICK g \in Generations(s) : file' = [file EXCEPT ![s] = e(g)]
  BY DEF RunStage
<1>2. index \in 1..MaxIndex /\ imports \in 0..MaxImports /\ runs \in 0..MaxRuns /\ MaxIndex \in Nat
  BY BoundAssumption DEF Types, TypeOK
<1>3. file[s].gen \in Versions(s)
  BY DEF Types, TypeOK
<1>4. g \in Versions(s)
  <2>1. CASE s = "0"
    BY <1>2, <2>1, GenerationsTyped DEF Versions
  <2>2. CASE s # "0"
    BY <1>2, <1>3, <2>2, GenerationsTyped, StageNames DEF Durable, Versions
  <2> QED
    BY <2>1, <2>2
<1>5. e(g) \in File
  <2>1. g \in Nat
    BY <1>4, VersionsBounded
  <2> QED
    BY <2>1, MadeTyped DEF File
<1>6. UNCHANGED <<index, imports, runs>>
  BY DEF RunStage, history
<1>7. /\ file' \in [StageSet -> File]
      /\ \A t \in StageSet :
            /\ file'[t].gen \in Versions(t)'
            /\ file'[t].of \subseteq Content /\ file'[t].whole \in BOOLEAN
  <2> HIDE DEF e
  <2>1. e(g).gen = g
    BY DEF e
  <2> QED
    BY <1>1, <1>4, <1>5, <1>6, <2>1, FileTypes
<1>8. pc' = s /\ written' = TRUE /\ file'[s].whole
  BY <1>1 DEF RunStage, Types
<1>9. /\ torn' = torn /\ marked' = marked /\ samples' = samples /\ manifest' = manifest
      /\ stage' = stage /\ resume' = resume /\ documented' = documented /\ imported' = imported
      /\ cutShort' = cutShort
  BY DEF RunStage, outputs, args, history
<1>10. passages' \in Versions("0")'
  <2>1. passages' \in {index, passages}
    BY DEF RunStage, memory
  <2>2. index \in Versions("0") /\ passages \in Versions("0")
    BY <1>2 DEF Versions, Types, TypeOK
  <2>3. Versions("0")' = Versions("0")
    BY <1>6 DEF Versions
  <2> QED
    BY <2>1, <2>2, <2>3
<1>11. vectors' \in {TRUE, vectors}
  BY DEF RunStage, memory
<1>12. {torn', written', resume', vectors', documented', cutShort'} \subseteq BOOLEAN
  BY <1>8, <1>9, <1>11 DEF Types, TypeOK
<1> QED
  BY <1>6, <1>7, <1>8, <1>9, <1>10, <1>12 DEF Types, TypeOK

LEMMA KillTypes ==
  ASSUME Types, FirstRun, Kill
  PROVE  Types'
<1>1. UNCHANGED <<index, imports, runs>> /\ pc' = "off" /\ written' = FALSE
  BY DEF Kill, history
<1>2. /\ passages' = 0 /\ vectors' = FALSE /\ resume' = FALSE /\ stage' = "all"
      /\ samples' = samples /\ manifest' = manifest
      /\ documented' = documented /\ imported' = imported
  BY DEF Kill, outputs, history
<1>3. torn' \in BOOLEAN /\ marked' = marked /\ cutShort' \in BOOLEAN
  BY DEF Kill, ScrollCut, StageCut, MarkedAtKill, Types, TypeOK
<1>4. index \in 1..MaxIndex /\ imports \in 0..MaxImports /\ runs \in 0..MaxRuns /\ MaxIndex \in Nat
  BY BoundAssumption DEF Types, TypeOK
<1>5. /\ file' \in [StageSet -> File]
      /\ \A t \in StageSet :
            /\ file'[t].gen \in Versions(t)'
            /\ file'[t].of \subseteq Content /\ file'[t].whole \in BOOLEAN
  <2>1. CASE file' = file
    <3>1. \A t \in StageSet : Versions(t)' = Versions(t)
      BY <1>1 DEF Versions
    <3> QED
      BY <2>1, <3>1 DEF Types, TypeOK
  <2>2. CASE ScrollCut
    <3>1. PICK g \in {0, Part(runs)} :
             file' = [file EXCEPT !["0"] = [gen |-> g, of |-> {}, whole |-> FALSE]]
      BY <2>2 DEF ScrollCut
    <3>2. runs # 0
      BY <2>2 DEF ScrollCut, Scrolling, FirstRun
    <3>3. g \in Versions("0")
      BY <1>4, <3>1, <3>2 DEF Versions
    <3>4. g \in Nat
      BY <1>4, <3>1 DEF Part
    <3>5. PICK e \in File : e = [gen |-> g, of |-> {}, whole |-> FALSE]
      BY <3>4 DEF File
    <3>6. file' = [file EXCEPT !["0"] = e] /\ e.gen = g /\ "0" \in StageSet
      BY <3>1, <3>5, StageNames
    <3> QED
      BY <1>1, <3>3, <3>6, FileTypes
  <2>3. CASE StageCut
    <3>1. PICK of \in (IF pc \in Durable /\ ~resume THEN SUBSET Made(pc) ELSE {Made(pc)}) :
             file' = [file EXCEPT ![pc] =
                        [gen |-> IF of = {} \/ pc = "1.5" THEN 0 ELSE runs, of |-> of, whole |-> FALSE]]
      BY <2>3 DEF StageCut
    <3>2. pc \in StageSet \ {"0"}
      BY <2>3 DEF StageCut
    <3>3. of \in SUBSET Content
      BY <3>1, <3>2, MadeTyped
    <3>4. PICK g \in Nat : g = IF of = {} \/ pc = "1.5" THEN 0 ELSE runs
      BY <1>4
    <3>5. g \in Versions(pc)
      BY <1>4, <3>2, <3>4 DEF Versions
    <3>6. PICK e \in File : e = [gen |-> g, of |-> of, whole |-> FALSE]
      BY <3>3 DEF File
    <3>7. file' = [file EXCEPT ![pc] = e] /\ e.gen = g
      BY <3>1, <3>4, <3>6
    <3> QED
      BY <1>1, <3>2, <3>5, <3>7, FileTypes
  <2> QED
    BY <2>1, <2>2, <2>3 DEF Kill
<1>6. passages' \in Versions("0")'
  BY <1>1, <1>2, <1>4 DEF Versions
<1>7. /\ marked' \subseteq StageSet /\ samples' \subseteq Content /\ manifest' \subseteq Content
      /\ index' \in 1..MaxIndex /\ imports' \in 0..MaxImports
      /\ imported' \in 0..imports' /\ runs' \in 0..MaxRuns /\ stage' \in StageArgs
  BY <1>1, <1>2, <1>3, <1>4, ArgAssumption DEF Types, TypeOK
<1>8. {torn', written', resume', vectors', documented', cutShort'} \subseteq BOOLEAN
  BY <1>1, <1>2, <1>3 DEF Types, TypeOK
<1> QED
  BY <1>1, <1>5, <1>6, <1>7, <1>8 DEF Types, TypeOK

LEMMA RescrollTypes ==
  ASSUME Types, Rescroll
  PROVE  Types'
<1>1. UNCHANGED <<index, imports, runs, pc, written>>
  BY DEF Rescroll, history
<1>2. index \in 1..MaxIndex /\ MaxIndex \in Nat
  BY BoundAssumption DEF Types, TypeOK
<1>3. PICK e \in File : e = [gen |-> index, of |-> {}, whole |-> TRUE]
  <2>1. index \in Nat /\ {} \in SUBSET Content
    BY <1>2
  <2>2. [gen |-> index, of |-> {}, whole |-> TRUE] \in File
    BY <2>1 DEF File
  <2> QED
    BY <2>2
<1>4. file' = [file EXCEPT !["0"] = e] /\ e.gen = index
  BY <1>3 DEF Rescroll
<1>5. /\ file' \in [StageSet -> File]
      /\ \A t \in StageSet :
            /\ file'[t].gen \in Versions(t)'
            /\ file'[t].of \subseteq Content /\ file'[t].whole \in BOOLEAN
  <2>1. "0" \in StageSet /\ e.gen \in Versions("0")
    BY <1>2, <1>4, StageNames DEF Versions
  <2> QED
    BY <1>1, <1>4, <2>1, FileTypes
<1>6. pc' = "1b" /\ written' = FALSE
  BY DEF Rescroll, Scrolling, Types, TypeOK
<1>7. /\ passages' = passages /\ vectors' = TRUE
      /\ torn' = torn /\ marked' = marked /\ samples' = samples /\ manifest' = manifest
      /\ stage' = stage /\ resume' = resume /\ documented' = documented /\ imported' = imported
      /\ cutShort' = cutShort
  BY DEF Rescroll, outputs, args, history
<1>8. passages' \in Versions("0")'
  BY <1>1, <1>7 DEF Versions, Types, TypeOK
<1> QED
  BY <1>1, <1>5, <1>6, <1>7, <1>8, StageNames DEF Types, TypeOK

LEMMA ImportTypes ==
  ASSUME Types, ImportGapfill
  PROVE  Types'
<1>1. /\ index' = index /\ runs' = runs /\ imports' = imports + 1 /\ imports < MaxImports
      /\ pc' = "off" /\ stage' = "all" /\ resume' = FALSE
      /\ file' = [file EXCEPT !["1.5"].gen = imports']
  BY DEF ImportGapfill
<1>2. /\ passages' = passages /\ vectors' = vectors /\ written' = written
      /\ torn' = torn /\ marked' = marked /\ samples' = samples /\ manifest' = manifest
      /\ documented' = documented /\ imported' \in {imports', imported} /\ cutShort' = cutShort
  BY DEF ImportGapfill, outputs, memory
<1>3. written = FALSE
  <2>1. pc \notin StageSet
    BY StageNames DEF ImportGapfill, Collectable, Idle
  <2> QED
    BY <2>1 DEF Types, TypeOK
<1>4. imports \in Nat /\ imports' \in 0..MaxImports /\ imported' \in 0..imports'
  BY <1>1, <1>2, BoundAssumption DEF Types, TypeOK
<1>5. PICK e \in File : e = [file["1.5"] EXCEPT !.gen = imports']
  <2>1. file["1.5"] \in File
    BY StageNames DEF Types
  <2>2. imports' \in Nat
    BY <1>4, BoundAssumption
  <2>3. [file["1.5"] EXCEPT !.gen = imports'] \in File
    BY <2>1, <2>2 DEF File
  <2> QED
    BY <2>3
<1>6. /\ file' = [file EXCEPT !["1.5"] = e]
      /\ e.gen = imports'
  BY <1>1, <1>4, <1>5, StageNames DEF Types, File
<1>7. file' \in [StageSet -> File] /\ file'["1.5"] = e /\ \A t \in StageSet \ {"1.5"} : file'[t] = file[t]
  BY <1>6, OneFile, StageNames
<1>8. ASSUME NEW t \in StageSet
      PROVE  /\ file'[t].gen \in Versions(t)'
             /\ file'[t].of \subseteq Content /\ file'[t].whole \in BOOLEAN
  <2>1. CASE t = "1.5"
    BY <1>4, <1>6, <1>7, <2>1 DEF File, Versions
  <2>2. CASE t # "1.5"
    <3>1. Versions(t)' = Versions(t)
      BY <1>1, <2>2 DEF Versions
    <3> QED
      BY <1>1, <1>7, <2>2, <3>1 DEF Types, TypeOK
  <2> QED
    BY <2>1, <2>2
<1>9. passages' \in Versions("0")'
  BY <1>1, <1>2 DEF Versions, Types, TypeOK
<1> QED
  BY <1>1, <1>2, <1>3, <1>4, <1>7, <1>8, <1>9, ArgAssumption DEF Types, TypeOK

LEMMA IdleUnwritten ==
  ASSUME Types, Idle
  PROVE  written = FALSE /\ pc \notin StageSet
<1>1. pc \notin StageSet
  BY StageNames DEF Idle
<1> QED
  BY <1>1 DEF Types, TypeOK

LEMMA StepTypes ==
  ASSUME Types, FirstRun, [Next]_vars
  PROVE  Types'
<1>1. index \in 1..MaxIndex /\ imports \in 0..MaxImports /\ runs \in 0..MaxRuns
  BY DEF Types, TypeOK
<1>2. MaxIndex \in Nat \ {0} /\ MaxImports \in Nat /\ MaxRuns \in Nat
  BY BoundAssumption
<1>3. ASSUME NEW s \in StageArgs, NEW r \in BOOLEAN, Start(s, r)
      PROVE  Types'
  <2>1. /\ UNCHANGED <<index, file, marked, torn, samples, manifest, imports>>
        /\ stage' = s /\ resume' = r /\ runs' = runs + 1 /\ runs < MaxRuns
        /\ pc' = "0" /\ written' = FALSE /\ passages' = 0 /\ vectors' = FALSE
        /\ imported' \in {imported, 0} /\ cutShort' = cutShort
    BY <1>3 DEF Start, outputs, Stages
  <2>2. documented' \in BOOLEAN
    BY <1>3 DEF Start
  <2>3. runs' \in 0..MaxRuns /\ imported' \in 0..imports'
    BY <1>1, <1>2, <2>1 DEF Types, TypeOK
  <2>4. {torn', written', resume', vectors', documented', cutShort'} \subseteq BOOLEAN
    BY <2>1, <2>2 DEF Types, TypeOK
  <2>5. ASSUME NEW t \in StageSet
        PROVE  /\ file'[t].gen \in Versions(t)'
               /\ file'[t].of \subseteq Content /\ file'[t].whole \in BOOLEAN
    <3>1. Versions(t) \subseteq Versions(t)'
      BY <1>1, <1>2, <2>1, VersionsGrow
    <3> QED
      BY <2>1, <3>1 DEF Types, TypeOK
  <2>6. passages' \in Versions("0")'
    BY <1>1, <1>2, <2>1 DEF Versions
  <2> QED
    BY <1>1, <1>2, <2>1, <2>3, <2>4, <2>5, <2>6, StageNames DEF Types, TypeOK
<1>4. ASSUME StartFails
      PROVE  Types'
  <2>1. /\ UNCHANGED <<index, file, marked, torn, samples, manifest, written, passages, vectors>>
        /\ UNCHANGED <<imports, documented, imported, cutShort>>
        /\ stage' = "all" /\ resume' = FALSE /\ runs' = runs + 1 /\ runs < MaxRuns /\ pc' = "off"
    BY <1>4 DEF StartFails, outputs, memory
  <2>2. written = FALSE
    BY <1>4, IdleUnwritten DEF StartFails
  <2>3. runs' \in 0..MaxRuns
    BY <1>1, <1>2, <2>1
  <2>4. ASSUME NEW t \in StageSet
        PROVE  /\ file'[t].gen \in Versions(t)'
               /\ file'[t].of \subseteq Content /\ file'[t].whole \in BOOLEAN
    <3>1. Versions(t) \subseteq Versions(t)'
      BY <1>1, <1>2, <2>1, VersionsGrow
    <3> QED
      BY <2>1, <3>1 DEF Types, TypeOK
  <2>5. {torn', written', resume', vectors', documented', cutShort'} \subseteq BOOLEAN
    BY <2>1 DEF Types, TypeOK
  <2>6. passages' \in Versions("0")'
    <3>1. Versions("0") \subseteq Versions("0")'
      BY <1>1, <1>2, <2>1, VersionsGrow, StageNames
    <3> QED
      BY <2>1, <3>1 DEF Types, TypeOK
  <2> QED
    BY <2>1, <2>2, <2>3, <2>4, <2>5, <2>6, ArgAssumption DEF Types, TypeOK
<1>5. ASSUME NEW s \in StageSet, Skip(s)
      PROVE  Types'
  <2>1. /\ UNCHANGED <<index, file, marked, torn, samples, manifest, written, stage, resume, vectors>>
        /\ UNCHANGED <<imports, runs, documented, imported, cutShort>>
        /\ pc' = Following(s) /\ written = FALSE
    BY <1>5 DEF Skip, outputs, args, history, Types, TypeOK
  <2>2. passages' \in Versions("0")'
    <3>1. passages' \in {passages, file["0"].gen} /\ "0" \in StageSet
      BY <1>5, StageNames DEF Skip
    <3> QED
      BY <2>1, <3>1, VersionsSame DEF Types, TypeOK
  <2>3. pc' \in StageSet \cup {"samples"}
    BY <2>1, Order
  <2> QED
    BY <2>1, <2>2, <2>3, VersionsSame DEF Types, TypeOK
<1>6. ASSUME MarkDone
      PROVE  Types'
  <2>1. /\ UNCHANGED <<index, file, torn, samples, manifest, stage, resume, passages, vectors>>
        /\ UNCHANGED <<imports, runs, documented, imported, cutShort>>
        /\ pc' = Following(pc) /\ written' = FALSE /\ marked' = marked \cup {pc} /\ written
    BY <1>6 DEF MarkDone, outputs, args, memory, history
  <2>2. pc \in StageSet
    BY <2>1 DEF Types
  <2>3. pc' \in StageSet \cup {"samples"}
    BY <2>1, <2>2, Order
  <2> QED
    BY <2>1, <2>2, <2>3, VersionsSame, StageNames DEF Types, TypeOK
<1>7. ASSUME WriteSamples
      PROVE  Types'
  <2>1. /\ UNCHANGED <<index, file, torn, marked, manifest, written, stage, resume, passages, vectors>>
        /\ UNCHANGED <<imports, runs, documented, imported, cutShort>>
        /\ pc' \in {"done", "manifest"} /\ samples' \in {samples, SampleRows}
    BY <1>7 DEF WriteSamples, args, memory, history
  <2>2. SampleRows \in SUBSET Content
    BY CurrentTyped, InputsBefore, StageNames DEF SampleRows
  <2>3. written = FALSE
    BY <1>7, StageNames DEF WriteSamples, Types, TypeOK
  <2> QED
    BY <2>1, <2>2, <2>3, VersionsSame, StageNames DEF Types, TypeOK
<1>8. ASSUME WriteManifest
      PROVE  Types'
  <2>1. /\ UNCHANGED <<index, file, torn, marked, samples, written, stage, resume, passages, vectors>>
        /\ UNCHANGED <<imports, runs, documented, imported, cutShort>>
        /\ pc' = "done" /\ manifest' = Hashes
    BY <1>8 DEF WriteManifest, args, memory, history
  <2>2. Hashes \in SUBSET Content
    BY CurrentTyped DEF Hashes, Types, TypeOK
  <2>3. written = FALSE
    BY <1>8, StageNames DEF WriteManifest, Types, TypeOK
  <2> QED
    BY <2>1, <2>2, <2>3, VersionsSame, StageNames DEF Types, TypeOK
<1>9. ASSUME Reindex
      PROVE  Types'
  <2>1. /\ UNCHANGED <<file, torn, marked, samples, manifest, pc, written, stage, resume, passages, vectors>>
        /\ UNCHANGED <<imports, runs, documented, imported, cutShort>>
        /\ index' = index + 1 /\ index < MaxIndex
    BY <1>9 DEF Reindex, outputs, args, memory, history
  <2>2. index' \in 1..MaxIndex /\ \A t \in StageSet : Versions(t) \subseteq Versions(t)'
    <3>1. index' \in 1..MaxIndex /\ index <= index'
      BY <1>1, <1>2, <2>1
    <3> QED
      BY <1>1, <1>2, <2>1, <3>1, VersionsGrow
  <2>3. ASSUME NEW t \in StageSet
        PROVE  /\ file'[t].gen \in Versions(t)'
               /\ file'[t].of \subseteq Content /\ file'[t].whole \in BOOLEAN
    BY <2>1, <2>2 DEF Types, TypeOK
  <2>4. {torn', written', resume', vectors', documented', cutShort'} \subseteq BOOLEAN
    BY <2>1 DEF Types, TypeOK
  <2>5. passages' \in Versions("0")'
    BY <2>1, <2>2, StageNames DEF Types, TypeOK
  <2> QED
    BY <2>1, <2>2, <2>3, <2>4, <2>5 DEF Types, TypeOK
<1>10. ASSUME Finalize
       PROVE  Types'
  <2>1. /\ UNCHANGED <<index, file, torn, marked, pc, written, stage, resume, passages, vectors>>
        /\ UNCHANGED <<imports, runs, documented, imported, cutShort>>
        /\ samples' \in {samples, Current({"2"})} /\ manifest' = Current(StageSet) \cup samples'
    BY <1>10 DEF Finalize, args, memory, history
  <2>2. Current({"2"}) \in SUBSET Content /\ Current(StageSet) \in SUBSET Content
    BY CurrentTyped, StageNames
  <2> QED
    BY <2>1, <2>2, VersionsSame, StageNames DEF Types, TypeOK
<1>11. ASSUME UNCHANGED vars
       PROVE  Types'
  BY <1>11, VersionsSame, StageNames DEF vars, outputs, args, memory, history, Types, TypeOK
<1> QED
  BY <1>3, <1>4, <1>5, <1>6, <1>7, <1>8, <1>9, <1>10, <1>11,
     RunTypes, KillTypes, RescrollTypes, ImportTypes DEF Next

LEMMA StartTypes ==
  ASSUME Init
  PROVE  Types
<1>1. MaxIndex \in Nat \ {0} /\ MaxImports \in Nat /\ MaxRuns \in Nat
  BY BoundAssumption
<1>2. Absent \in File
  <2>1. 0 \in Nat /\ {} \in SUBSET Content
    OBVIOUS
  <2> QED
    BY <2>1 DEF Absent, File
<1>3. file \in [StageSet -> File] /\ \A s \in StageSet : file[s] = Absent
  BY <1>2 DEF Init
<1>4. Absent.gen = 0 /\ Absent.of = {} /\ Absent.whole = FALSE
  BY DEF Absent
<1>5. ASSUME NEW t \in StageSet
      PROVE  /\ file[t].gen \in Versions(t)
             /\ file[t].of \subseteq Content /\ file[t].whole \in BOOLEAN
  <2>1. file[t].gen = 0 /\ file[t].of = {}
    BY <1>3, <1>4
  <2>2. file[t].whole = FALSE
    BY <1>3, <1>4
  <2>3. index = 1 /\ imports = 0 /\ runs = 0
    BY DEF Init
  <2>4. file[t].gen \in Versions(t)
    BY <2>1, <2>3 DEF Versions
  <2>5. file[t].whole \in BOOLEAN
    BY <2>2
  <2> QED
    BY <2>1, <2>4, <2>5
<1>6. {torn, written, resume, vectors, documented, cutShort} \subseteq BOOLEAN
  BY DEF Init
<1>7. /\ index \in 1..MaxIndex /\ passages \in Versions("0") /\ imports \in 0..MaxImports
      /\ imported \in 0..imports /\ runs \in 0..MaxRuns /\ stage \in StageArgs
      /\ marked \subseteq StageSet /\ samples \subseteq Content /\ manifest \subseteq Content
  BY <1>1, ArgAssumption DEF Init, Versions
<1> QED
  BY <1>3, <1>5, <1>6, <1>7 DEF Init, Types, TypeOK

---------------------------------------------------------------------------

\* No program writes over imported rows unless it was started without
\* --resume.
LEMMA StepImported ==
  ASSUME Types, Imported, [Next]_vars
  PROVE  Imported'
<1>1. ASSUME NEW s \in StageArgs, NEW r \in BOOLEAN, Start(s, r)
      PROVE  Imported'
  BY <1>1 DEF Start, Imported
<1>2. ASSUME StartFails
      PROVE  Imported'
  BY <1>2 DEF StartFails, Imported, Idle
<1>3. ASSUME NEW s \in StageSet, Skip(s)
      PROVE  Imported'
  BY <1>3, StageNames DEF Skip, Imported, Idle, args, history
<1>4. ASSUME NEW s \in StageSet, RunStage(s)
      PROVE  Imported'
  <2>1. UNCHANGED <<imported, marked, resume>> /\ ~Idle
    BY <1>4, StageNames DEF RunStage, args, history, Idle
  <2>2. CASE imported # 0
    <3>1. s # "1.5"
      BY <1>4, <2>1, <2>2 DEF RunStage, Skips, Done, Imported
    <3>2. file'["1.5"] = file["1.5"]
      BY <1>4, <3>1, StageNames DEF RunStage, Types
    <3> QED
      BY <2>1, <2>2, <3>2 DEF Imported
  <2> QED
    BY <2>1, <2>2 DEF Imported
<1>5. ASSUME Rescroll
      PROVE  Imported'
  <2>1. UNCHANGED <<imported, marked, resume, pc>>
    BY <1>5 DEF Rescroll, args, history
  <2>2. file'["1.5"] = file["1.5"]
    BY <1>5, StageNames DEF Rescroll, Types
  <2> QED
    BY <2>1, <2>2 DEF Imported, Idle
<1>6. ASSUME MarkDone
      PROVE  Imported'
  <2>1. ~Idle
    BY <1>6, StageNames DEF MarkDone, Types, Idle
  <2> QED
    BY <1>6, <2>1 DEF MarkDone, Imported, args, history
<1>7. ASSUME WriteSamples \/ WriteManifest \/ Reindex \/ Finalize \/ UNCHANGED vars
      PROVE  Imported'
  <2>1. UNCHANGED <<imported, marked, resume, file>>
    BY <1>7 DEF WriteSamples, WriteManifest, Reindex, Finalize, vars, args, history
  <2>2. Idle => Idle'
    BY <1>7 DEF WriteSamples, WriteManifest, Reindex, Finalize, vars, Idle
  <2> QED
    BY <2>1, <2>2 DEF Imported
<1>8. ASSUME Kill
      PROVE  Imported'
  <2>1. UNCHANGED <<imported, marked>> /\ Idle' /\ ~Idle
    BY <1>8 DEF Kill, MarkedAtKill, history, Idle
  <2>2. CASE imported # 0
    <3>1. resume /\ "1.5" \in marked /\ file["1.5"].gen = imported
      BY <2>1, <2>2 DEF Imported
    <3>2. Skips("1.5")
      BY <3>1 DEF Skips, Done
    <3>3. file'["1.5"] = file["1.5"]
      BY <1>8, <3>2, StageNames DEF Kill, ScrollCut, StageCut, Types
    <3> QED
      BY <2>1, <3>1, <3>3 DEF Imported
  <2> QED
    BY <2>1, <2>2 DEF Imported
<1>9. ASSUME ImportGapfill
      PROVE  Imported'
  <2>1. file'["1.5"].gen = imports' /\ marked' = marked /\ Idle'
    BY <1>9, StageNames DEF ImportGapfill, Types, File, Idle
  <2>2. imported' = IF "1.5" \in marked THEN imports' ELSE imported
    BY <1>9 DEF ImportGapfill
  <2> QED
    BY <2>1, <2>2 DEF Imported
<1> QED
  BY <1>1, <1>2, <1>3, <1>4, <1>5, <1>6, <1>7, <1>8, <1>9 DEF Next

---------------------------------------------------------------------------

\* Where the program is after each of its steps.
LEMMA PassedAfter ==
  ASSUME Types
  PROVE  /\ \A s \in StageSet : pc = s /\ ~written => s \notin Passed /\ Passed = Before(s)
         /\ \A s \in StageSet : Skip(s) => Passed' = Passed \cup {s}
         /\ \A s \in StageSet : RunStage(s) => Passed' = Passed \cup {s}
         /\ MarkDone => Passed' = Passed
         /\ pc' = "off" /\ ~written' => Passed' = {}
         /\ pc' = "0" /\ ~written' => Passed' = {}
         /\ UNCHANGED <<pc, written>> => Passed' = Passed
         /\ pc \in {"samples", "manifest", "done"} => Passed = StageSet
         /\ WriteSamples \/ WriteManifest => Passed' = Passed
         /\ Passed \subseteq StageSet
<1>1. \A s \in StageSet : s \notin Before(s)
  BY Order DEF Before
<1>2. \A s \in StageSet : pc = s /\ ~written => s \notin Passed /\ Passed = Before(s)
  BY <1>1 DEF Passed
<1>3. \A s \in StageSet : Skip(s) => Passed' = Passed \cup {s}
  BY BeforeWhat DEF Passed, Skip
<1>4. \A s \in StageSet : RunStage(s) => Passed' = Passed \cup {s}
  BY DEF Passed, RunStage
<1>5. MarkDone => Passed' = Passed
  BY BeforeWhat DEF Passed, MarkDone, Types
<1>6. pc' \in {"off", "0"} /\ ~written' => Passed' = {}
  BY BeforeWhat DEF Passed
<1>7. UNCHANGED <<pc, written>> => Passed' = Passed
  BY DEF Passed
<1>8. ASSUME pc \in {"samples", "manifest", "done"}
      PROVE  Passed = StageSet /\ ~written
  BY <1>8, BeforeWhat, StageNames DEF Passed, Types
<1>9. WriteSamples \/ WriteManifest => Passed' = Passed
  <2>1. ASSUME WriteSamples \/ WriteManifest
        PROVE  Passed' = StageSet /\ Passed = StageSet
    <3>1. pc \in {"samples", "manifest"} /\ written' = written /\ pc' \in {"manifest", "done"}
      BY <2>1 DEF WriteSamples, WriteManifest
    <3> QED
      BY <1>8, <3>1, BeforeWhat DEF Passed
  <2> QED
    BY <2>1
<1>10. Passed \subseteq StageSet
  BY DEF Passed, Before, Types
<1> QED
  BY <1>2, <1>3, <1>4, <1>5, <1>6, <1>7, <1>8, <1>9, <1>10

\* The rows on file of stages whose files stay are the same.
LEMMA CurrentSame ==
  ASSUME NEW T, \A t \in T : file'[t].gen = file[t].gen
  PROVE  Current(T)' = Current(T)
BY DEF Current

\* What a stage is given are the present rows of its input stages, if the
\* passages in memory are those on file.
LEMMA GivenIsCurrent ==
  ASSUME NEW s \in StageSet,
         "0" \in Inputs[s] => passages = file["0"].gen /\ passages # 0
  PROVE  Given(s) = Current(Inputs[s])
BY DEF Given, Current

\* A program that writes stage s has not come to the stages that need it.
LEMMA InputsStay ==
  ASSUME Types, NEW s \in StageSet, pc = s, ~written,
         \A t \in StageSet \ {s} : file'[t] = file[t]
  PROVE  /\ \A t \in Passed \cup {s} : Current(Inputs[t])' = Current(Inputs[t])
         /\ \A t \in Passed : file'[t] = file[t]
<1>1. Passed = Before(s) /\ s \notin Passed
  BY PassedAfter
<1>2. ASSUME NEW t \in Passed \cup {s}
      PROVE  s \notin Inputs[t] /\ Inputs[t] \subseteq StageSet
  <2>1. t \in StageSet /\ Num(t) <= Num(s)
    BY <1>1, Order DEF Before
  <2>2. Num(t) \in 1..8 /\ Num(s) \in 1..8
    BY <2>1, Order
  <2>3. Inputs[t] \subseteq StageSet /\ \A u \in Inputs[t] : Num(u) < Num(t) /\ Num(u) \in 1..8
    BY <2>1, InputsBefore, Order
  <2> QED
    BY <2>1, <2>2, <2>3
<1>3. ASSUME NEW t \in Passed \cup {s}
      PROVE  Current(Inputs[t])' = Current(Inputs[t])
  <2>1. \A u \in Inputs[t] : file'[u].gen = file[u].gen
    BY <1>2
  <2> QED
    BY <2>1 DEF Current
<1>4. \A t \in Passed : file'[t] = file[t]
  BY <1>1, PassedAfter
<1> QED
  BY <1>3, <1>4

\* At its start, and where it has ended, a program promises nothing.
LEMMA NothingPassed ==
  ASSUME Types, pc' \in {"off", "0"}, ~written'
  PROVE  Ends'
<1>1. Passed' = {} /\ Before(pc)' = {}
  BY PassedAfter, BeforeWhat
<1> QED
  BY <1>1 DEF Ends, Marks, Verdicts, Sampled, Hashed, FreshMemory, FreshFiles

LEMMA RunEnds ==
  ASSUME Types, Ends, NEW s \in StageSet, RunStage(s)
  PROVE  Ends'
<1>1. /\ pc = s /\ ~written /\ pc' = s /\ UNCHANGED <<marked, stage, resume>>
  BY DEF RunStage, args
<1>2. PICK g : file' = [file EXCEPT ![s] = [gen |-> g, of |-> Made(s), whole |-> TRUE]] /\ g \in Generations(s)
  BY DEF RunStage
<1>3. /\ \A t \in StageSet \ {s} : file'[t] = file[t]
      /\ file'[s].gen = g /\ file'[s].of = Made(s)
  BY <1>2 DEF Types
<1>4. file'[s].whole
  BY <1>2 DEF Types
<1>5. Passed' = Passed \cup {s} /\ Passed = Before(s) /\ s \notin Passed
  BY <1>1, PassedAfter
<1>6. \A t \in Passed \cup {s} : Current(Inputs[t])' = Current(Inputs[t])
  BY <1>1, <1>3, InputsStay
<1>7. \A t \in Passed : file'[t] = file[t]
  BY <1>1, <1>3, InputsStay
<1>8. Marks'
  BY <1>1 DEF Ends, Marks, Before
<1>9. Verdicts'
  <2>1. CASE s = "2"
    <3>1. Current(Inputs["2"]) \subseteq Made("2")
      BY InputsOf DEF Given, Made
    <3> QED
      BY <1>3, <1>4, <1>6, <2>1, <3>1 DEF Verdicts
  <2>2. CASE s # "2"
    <3>1. ASSUME stage' = "all", "2" \in Passed'
          PROVE  (Current(Inputs["2"]) \subseteq file["2"].of /\ file["2"].whole)'
      <4>1. "2" \in Passed
        BY <1>5, <2>2, <3>1
      <4>2. Current(Inputs["2"]) \subseteq file["2"].of /\ file["2"].whole
        BY <1>1, <3>1, <4>1 DEF Ends, Verdicts
      <4> QED
        BY <1>6, <1>7, <4>1, <4>2
    <3> QED
      BY <3>1 DEF Verdicts
  <2> QED
    BY <2>1, <2>2
<1>10. Sampled' /\ Hashed'
  BY <1>1, StageNames DEF Sampled, Hashed
<1>11. FreshMemory'
  <2>1. CASE s = "0"
    <3>1. passages' = index /\ vectors' = TRUE /\ g = index
      BY <1>2, <2>1, GenerationsTyped DEF RunStage
    <3>2. index # 0
      BY BoundAssumption DEF Types, TypeOK
    <3> QED
      BY <1>3, <2>1, <3>1, <3>2 DEF FreshMemory
  <2>2. CASE s # "0"
    <3>1. UNCHANGED <<passages, vectors>> /\ file'["0"] = file["0"]
      BY <1>3, <2>2, StageNames DEF RunStage, memory
    <3> QED
      BY <1>1, <1>5, <2>2, <3>1 DEF Ends, FreshMemory
  <2> QED
    BY <2>1, <2>2
<1>12. FreshFiles'
  <2>1. ASSUME stage' = "all", ~resume', NEW t \in Passed'
        PROVE  file'[t].whole /\ file'[t].of = Current(Inputs[t])'
    <3>1. CASE t = s
      <4>1. Made(s) = Given(s)
        BY <1>1, <2>1 DEF Made
      <4>2. "0" \in Inputs[s] => "0" \in Passed
        BY <1>5, InputsBefore, StageNames DEF Before
      <4>3. Given(s) = Current(Inputs[s])
        BY <1>1, <2>1, <4>2, GivenIsCurrent DEF Ends, FreshMemory
      <4> QED
        BY <1>3, <1>4, <1>6, <3>1, <4>1, <4>3
    <3>2. CASE t # s
      <4>1. t \in Passed
        BY <1>5, <2>1, <3>2
      <4>2. file[t].whole /\ file[t].of = Current(Inputs[t])
        BY <1>1, <2>1, <4>1 DEF Ends, FreshFiles
      <4> QED
        BY <1>6, <1>7, <4>1, <4>2
    <3> QED
      BY <3>1, <3>2
  <2> QED
    BY <2>1 DEF FreshFiles
<1> QED
  BY <1>8, <1>9, <1>10, <1>11, <1>12 DEF Ends

LEMMA SkipEnds ==
  ASSUME Types, Ends, NEW s \in StageSet, Skip(s)
  PROVE  Ends'
<1>1. /\ pc = s /\ ~written /\ pc' = Following(s)
      /\ UNCHANGED <<file, marked, stage, resume, vectors>> /\ Skips(s)
  BY DEF Skip, args
<1>2. pc' \in StageSet \cup {"samples"}
  BY <1>1, Order
<1>3. Passed' = Passed \cup {s} /\ Passed = Before(s)
  BY <1>1, PassedAfter
<1>4. stage = "all" => resume /\ s \in marked /\ s # "2"
  BY <1>1, StageNames DEF Skips, Done
<1>5. Marks'
  <2>1. Before(pc') = Before(s) \cup {s}
    BY <1>1, BeforeWhat
  <2>2. Before(pc)' = Before(pc')
    BY DEF Before
  <2> QED
    BY <1>1, <1>4, <2>1, <2>2 DEF Ends, Marks
<1>6. Verdicts'
  BY <1>1, <1>3, <1>4 DEF Ends, Verdicts, Current
<1>7. Sampled' /\ Hashed'
  BY <1>2, StageNames DEF Sampled, Hashed
<1>8. FreshMemory' /\ FreshFiles'
  BY <1>1, <1>4 DEF FreshMemory, FreshFiles
<1> QED
  BY <1>5, <1>6, <1>7, <1>8 DEF Ends

LEMMA StepEnds ==
  ASSUME Types, Ends, [Next]_vars
  PROVE  Ends'
<1>1. ASSUME NEW s \in StageArgs, NEW r \in BOOLEAN, Start(s, r)
      PROVE  Ends'
  BY <1>1, NothingPassed DEF Start, Stages
<1>2. ASSUME StartFails \/ ImportGapfill
      PROVE  Ends'
  <2>1. Idle /\ written' = written /\ pc' = "off"
    BY <1>2 DEF StartFails, ImportGapfill, Collectable
  <2> QED
    BY <2>1, IdleUnwritten, NothingPassed
<1>3. ASSUME Kill
      PROVE  Ends'
  BY <1>3, NothingPassed DEF Kill
<1>4. ASSUME Rescroll
      PROVE  Ends'
  <2>1. /\ pc = "1b" /\ ~written /\ ~vectors
        /\ UNCHANGED <<pc, written, marked, stage, resume>>
    BY <1>4 DEF Rescroll, Scrolling, args
  <2>2. Passed' = Passed /\ Passed = Before("1b")
    BY <2>1, PassedAfter, StageNames
  <2>3. "0" \in Passed /\ "2" \notin Passed
    BY <2>2, StageNames, Numbers DEF Before
  <2>4. ~(stage = "all" /\ ~resume)
    BY <2>1, <2>3 DEF Ends, FreshMemory
  <2>5. Marks'
    BY <2>1 DEF Ends, Marks, Before
  <2> QED
    BY <2>1, <2>2, <2>3, <2>4, <2>5 DEF Ends, Verdicts, Sampled, Hashed, FreshMemory, FreshFiles
<1>5. ASSUME MarkDone
      PROVE  Ends'
  <2>1. /\ UNCHANGED <<file, stage, resume, passages, vectors>>
        /\ pc' = Following(pc) /\ marked' = marked \cup {pc} /\ pc \in StageSet
    BY <1>5 DEF MarkDone, args, memory, Types
  <2>2. Passed' = Passed
    BY <1>5, PassedAfter
  <2>3. Before(pc)' = Before(pc) \cup {pc}
    <3>1. Before(pc') = Before(pc) \cup {pc}
      BY <2>1, BeforeWhat
    <3> QED
      BY <3>1 DEF Before
  <2>4. pc' \in StageSet \cup {"samples"}
    BY <2>1, Order
  <2>5. Marks'
    BY <2>1, <2>3 DEF Ends, Marks
  <2>6. Verdicts' /\ FreshMemory' /\ FreshFiles'
    BY <2>1, <2>2 DEF Ends, Verdicts, FreshMemory, FreshFiles, Current
  <2>7. Sampled' /\ Hashed'
    BY <2>4, StageNames DEF Sampled, Hashed
  <2> QED
    BY <2>5, <2>6, <2>7 DEF Ends
<1>6. ASSUME WriteSamples \/ WriteManifest
      PROVE  Ends'
  <2>1. UNCHANGED <<file, marked, stage, resume, passages, vectors>>
    BY <1>6 DEF WriteSamples, WriteManifest, args, memory
  <2>2. Passed' = Passed
    BY <1>6, PassedAfter
  <2>3. Marks'
    <3>1. pc \in {"samples", "manifest"} /\ pc' \in {"manifest", "done"}
      BY <1>6 DEF WriteSamples, WriteManifest
    <3>2. Before(pc) = StageSet /\ Before(pc') = StageSet
      BY <3>1, BeforeWhat
    <3>3. Before(pc)' = StageSet
      BY <3>2 DEF Before
    <3> QED
      BY <2>1, <3>2, <3>3 DEF Ends, Marks
  <2>4. Verdicts' /\ FreshMemory' /\ FreshFiles'
    BY <2>1, <2>2 DEF Ends, Verdicts, FreshMemory, FreshFiles, Current
  <2>5. \A T : Current(T)' = Current(T)
    BY <2>1 DEF Current
  <2>6. SampleRows' = SampleRows
    BY <2>1, <2>5 DEF SampleRows
  <2>7. Sampled'
    <3>1. CASE WriteSamples
      <4>1. file["2"].gen # 0 => SampleRows = Current({"2"}) /\ Current({"2"}) # {}
        BY DEF SampleRows, Current
      <4> QED
        BY <2>1, <2>5, <3>1, <4>1 DEF WriteSamples, Sampled
    <3>2. CASE WriteManifest
      BY <2>1, <2>5, <3>2 DEF WriteManifest, Sampled, Ends
    <3> QED
      BY <1>6, <3>1, <3>2
  <2>8. Hashed'
    <3>1. CASE WriteSamples
      BY <2>6, <3>1 DEF WriteSamples, Hashed
    <3>2. CASE WriteManifest
      BY <2>5, <3>2 DEF WriteManifest, Hashed, Hashes
    <3> QED
      BY <1>6, <3>1, <3>2
  <2> QED
    BY <2>3, <2>4, <2>7, <2>8 DEF Ends
<1>7. ASSUME Reindex \/ UNCHANGED vars
      PROVE  Ends'
  <2>1. UNCHANGED <<file, marked, samples, manifest, pc, written, stage, resume, passages, vectors>>
    BY <1>7 DEF Reindex, vars, outputs, args, memory
  <2>2. Passed' = Passed /\ Before(pc)' = Before(pc) /\ SampleRows' = SampleRows
    BY <2>1 DEF Passed, Before, SampleRows, Current
  <2> QED
    BY <2>1, <2>2 DEF Ends, Marks, Verdicts, Sampled, Hashed, FreshMemory, FreshFiles, Current
<1>8. ASSUME Finalize
      PROVE  Ends'
  <2>1. pc' = "off" /\ Idle /\ written' = written
    BY <1>8 DEF Finalize, Idle
  <2> QED
    BY <2>1, IdleUnwritten, NothingPassed
<1> QED
  BY <1>1, <1>2, <1>3, <1>4, <1>5, <1>6, <1>7, <1>8, RunEnds, SkipEnds DEF Next

---------------------------------------------------------------------------

LEMMA StepFirsts ==
  ASSUME Types, Marks, Firsts, [Next]_vars
  PROVE  Firsts'
<1>1. ASSUME NEW s \in StageArgs, NEW r \in BOOLEAN, Start(s, r)
      PROVE  Firsts'
  <2>1. runs' # 0
    BY <1>1 DEF Start, Types, TypeOK
  <2>2. /\ documented' => documented /\ stage' = "all" /\ (resume' \/ runs = 0)
        /\ marked' = marked
    BY <1>1 DEF Start
  <2>3. FirstRun' /\ Arguments'
    BY <2>1, <2>2 DEF FirstRun, Arguments
  <2>4. FreshMarks' /\ Ordered'
    BY <2>2 DEF Firsts, FirstRun, FreshMarks, Ordered, Before
  <2> QED
    BY <2>3, <2>4 DEF Firsts
<1>2. ASSUME StartFails \/ ImportGapfill
      PROVE  Firsts'
  <2>1. /\ pc' = "off" /\ stage' = "all" /\ UNCHANGED <<marked, documented>>
        /\ runs' \in {runs, runs + 1}
    BY <1>2 DEF StartFails, ImportGapfill
  <2>2. runs' = 0 => runs = 0
    BY <2>1 DEF Types, TypeOK
  <2> QED
    BY <2>1, <2>2 DEF Firsts, FirstRun, Arguments, FreshMarks, Ordered, Before
<1>3. ASSUME Kill
      PROVE  Firsts'
  <2>1. pc' = "off" /\ stage' = "all" /\ UNCHANGED <<marked, documented, runs>>
    BY <1>3 DEF Kill, MarkedAtKill, history
  <2> QED
    BY <2>1 DEF Firsts, FirstRun, Arguments, FreshMarks, Ordered, Before
<1>4. ASSUME NEW s \in StageSet, Skip(s)
      PROVE  Firsts'
  <2>1. UNCHANGED <<marked, documented, runs, stage, resume>> /\ Skips(s) /\ pc = s
    BY <1>4 DEF Skip, args, history
  <2>2. documented => resume
    BY <2>1, StageNames DEF Firsts, Arguments, Skips
  <2>3. runs # 0
    BY <2>1, StageNames DEF Firsts, FirstRun
  <2> QED
    BY <2>1, <2>2, <2>3 DEF Firsts, FirstRun, Arguments, FreshMarks, Ordered, Before
<1>5. ASSUME Rescroll \/ Reindex \/ Finalize \/ UNCHANGED vars \/ \E s \in StageSet : RunStage(s)
      PROVE  Firsts'
  <2>1. UNCHANGED <<marked, documented, runs, stage, resume, pc>>
    BY <1>5 DEF Rescroll, Reindex, Finalize, RunStage, vars, args, history
  <2> QED
    BY <2>1 DEF Firsts, FirstRun, Arguments, FreshMarks, Ordered, Before
<1>6. ASSUME MarkDone
      PROVE  Firsts'
  <2>1. /\ UNCHANGED <<documented, runs, stage, resume>>
        /\ marked' = marked \cup {pc} /\ pc \in StageSet /\ pc' = Following(pc)
    BY <1>6 DEF MarkDone, args, history, Types
  <2>2. Before(pc') = Before(pc) \cup {pc}
    BY <2>1, BeforeWhat
  <2>3. runs # 0
    BY <2>1, StageNames DEF Firsts, FirstRun
  <2>4. FreshMarks'
    <3>1. Before(pc)' = Before(pc) \cup {pc}
      BY <2>2 DEF Before
    <3>2. pc # "off"
      BY <2>1, StageNames
    <3> QED
      BY <2>1, <3>1, <3>2 DEF Firsts, FreshMarks
  <2>5. Ordered'
    <3>1. documented => Before(pc) \subseteq marked
      BY DEF Firsts, Arguments, Marks
    <3> QED
      BY <2>1, <3>1 DEF Firsts, Ordered, Before
  <2> QED
    BY <2>1, <2>3, <2>4, <2>5 DEF Firsts, FirstRun, Arguments
<1>7. ASSUME WriteSamples \/ WriteManifest
      PROVE  Firsts'
  <2>1. /\ UNCHANGED <<documented, runs, stage, resume, marked>>
        /\ pc \in {"samples", "manifest"} /\ pc' \in {"manifest", "done"}
    BY <1>7 DEF WriteSamples, WriteManifest, args, history
  <2>2. Before(pc') = StageSet
    BY <2>1, BeforeWhat
  <2>3. Before(pc)' = StageSet
    BY <2>2 DEF Before
  <2>4. FreshMarks'
    BY <2>1, <2>3 DEF FreshMarks, Types, TypeOK
  <2> QED
    BY <2>1, <2>4 DEF Firsts, FirstRun, Arguments, Ordered, Before
<1> QED
  BY <1>1, <1>2, <1>3, <1>4, <1>5, <1>6, <1>7 DEF Next

\* A stage that writes its file is not marked, but for stage 2.
LEMMA WritesUnmarked ==
  ASSUME Types, Firsts, documented, NEW s \in StageSet, pc = s, ~Skips(s)
  PROVE  s \notin marked \ {"2"}
<1>1. stage = "all"
  BY DEF Firsts, Arguments
<1>2. CASE resume
  BY <1>1, <1>2 DEF Skips, Done
<1>3. CASE ~resume
  <2>1. marked \subseteq Before(s)
    BY <1>3, StageNames DEF Firsts, FreshMarks
  <2> QED
    BY <2>1, Order DEF Before
<1> QED
  BY <1>2, <1>3

\* Writing stage s leaves the other marked stages made of their inputs; it
\* is stage 2 only that may be written after the stages that need it.
LEMMA OthersMade ==
  ASSUME Types, Firsts, Contents, documented, index = 1, ~cutShort,
         NEW s \in StageSet, pc = s, ~written, ~Skips(s),
         \A u \in StageSet \ {s} : file'[u] = file[u],
         s = "2" /\ resume => file'["2"].gen \in {file["2"].gen, runs},
         NEW t \in marked \ {"1.5", "2"}, t # s
  PROVE  MadeOfInputs(t)'
<1>1. t \in {"0", "1a", "1b", "1c", "3", "4"} /\ file'[t] = file[t] /\ MadeOfInputs(t)
  BY StageNames DEF Contents, MarkedMade, Types, TypeOK
<1>2. CASE t \in {"0", "1a", "1b", "1c"}
  <2>1. s # "0"
    <3>1. SUFFICES ASSUME s = "0"
                   PROVE  FALSE
      OBVIOUS
    <3>2. "0" \in Before(t)
      BY <1>2, <3>1, StageNames, Numbers DEF Before
    <3>3. "0" \in marked
      BY <3>2 DEF Firsts, Ordered
    <3> QED
      BY <3>1, <3>3, WritesUnmarked
  <2>2. Inputs[t] \subseteq {"0"} /\ "0" \in StageSet
    BY <1>2, InputsOf, StageNames
  <2>3. Current(Inputs[t])' = Current(Inputs[t])
    BY <2>1, <2>2 DEF Current
  <2> QED
    BY <1>1, <1>2, <2>3 DEF MadeOfInputs
<1>3. CASE t \in {"3", "4"}
  <2>1. Inputs[t] = {"2"} /\ "2" \in StageSet
    BY <1>3, InputsOf, StageNames
  <2>2. CASE file'["2"].gen = file["2"].gen
    <3>1. Current(Inputs[t])' = Current(Inputs[t])
      BY <2>1, <2>2 DEF Current
    <3> QED
      BY <1>1, <2>2, <3>1 DEF MadeOfInputs
  <2>3. CASE file'["2"].gen # file["2"].gen
    <3>1. s = "2"
      BY <2>1, <2>3
    <3>2. t \notin Before("2")
      BY <1>3, Numbers DEF Before
    <3>3. resume
      BY <3>1, <3>2, StageNames DEF Firsts, FreshMarks
    <3>4. file'["2"].gen = runs
      BY <2>3, <3>1, <3>3
    <3>5. t \notin Passed
      BY <3>1, <3>2, PassedAfter
    <3>6. file[t].gen < runs
      BY <1>3, <3>5 DEF Contents, Older
    <3> QED
      BY <1>1, <1>3, <3>4, <3>6 DEF MadeOfInputs
  <2> QED
    BY <2>2, <2>3
<1> QED
  BY <1>1, <1>2, <1>3

\* Where the index stays, passages are of its one version, and a stage that
\* needs only passages is made of them however often it is resumed.
LEMMA MadeOfPassages ==
  ASSUME Types, Contents, documented, index = 1, ~cutShort, "0" \in Passed,
         NEW s \in {"1a", "1b", "1c"}
  PROVE  /\ Given(s) = {<<"0", 1>>}
         /\ s # "1a" => Made(s) \subseteq {<<"0", 1>>}
         /\ Made(s) = Given(s) \/ s \in Durable
<1>1. passages = 1
  BY DEF Contents, OnePassages
<1>2. Inputs[s] = {"0"}
  BY InputsOf
<1>3. Given(s) = {<<"0", 1>>}
  BY <1>1, <1>2 DEF Given, Current
<1>4. s # "1a" => file[s].of \subseteq {<<"0", 1>>}
  BY DEF Contents, OnePassages
<1> QED
  BY <1>3, <1>4 DEF Made

LEMMA RunContents ==
  ASSUME Types, Firsts, Contents, NEW s \in StageSet, RunStage(s)
  PROVE  Contents'
<1>1. /\ pc = s /\ ~written /\ ~Skips(s) /\ pc' = s /\ written' = TRUE
      /\ UNCHANGED <<marked, stage, resume, index, runs, documented, cutShort>>
  BY DEF RunStage, args, history
<1>2. PICK g : file' = [file EXCEPT ![s] = [gen |-> g, of |-> Made(s), whole |-> TRUE]] /\ g \in Generations(s)
  BY DEF RunStage
<1>3. /\ \A t \in StageSet \ {s} : file'[t] = file[t]
      /\ file'[s].gen = g /\ file'[s].of = Made(s)
  BY <1>2 DEF Types
<1>4. file'[s].whole
  BY <1>2 DEF Types
<1>5. Passed' = Passed \cup {s} /\ Passed = Before(s) /\ s \notin Passed
  BY <1>1, PassedAfter
<1>6. marked \subseteq StageSet
  BY DEF Types, TypeOK
<1>7. s = "2" => (g # 0 => Made("2") # {}) /\ (resume => g \in {file["2"].gen, runs})
  <2>1. ASSUME s = "2"
        PROVE  g \in Appended("2")
    BY <1>2, <2>1 DEF Generations, Durable
  <2>2. ASSUME s = "2", resume, Made("2") = {}
        PROVE  file["2"].gen = 0
    BY <2>2 DEF Made, Durable, Contents, Rows2
  <2> QED
    BY <2>1, <2>2 DEF Appended
<1>8. WholeFiles'
  BY <1>1, <1>3, <1>4, <1>6 DEF Contents, WholeFiles
<1>9. Older'
  BY <1>1, <1>3, <1>5, StageNames DEF Contents, Older
<1>10. Rows2'
  <2>1. CASE s = "2"
    BY <1>3, <1>7, <2>1 DEF Rows2
  <2>2. CASE s # "2"
    BY <1>3, <2>2, StageNames DEF Rows2, Contents
  <2> QED
    BY <2>1, <2>2
<1>11. OnePassages'
  <2>1. SUFFICES ASSUME documented', index' = 1, ~cutShort'
                 PROVE  OnePassages'
    BY DEF OnePassages
  <2>2. documented /\ index = 1 /\ ~cutShort
    BY <1>1, <2>1
  <2>3. ASSUME NEW t \in {"1b", "1c"}
        PROVE  file'[t].of \subseteq {<<"0", 1>>}
    <3>1. CASE t = s
      <4>1. "0" \in Passed
        BY <1>5, <2>3, <3>1, StageNames, Numbers DEF Before
      <4> QED
        BY <1>3, <2>2, <3>1, <4>1, MadeOfPassages
    <3>2. CASE t # s
      BY <1>3, <2>2, <3>2, StageNames DEF Contents, OnePassages
    <3> QED
      BY <3>1, <3>2
  <2>4. CASE s = "0"
    <3>1. passages' = 1 /\ file'["0"].gen = 1
      BY <1>2, <1>3, <2>2, <2>4, GenerationsTyped DEF RunStage
    <3> QED
      BY <2>3, <3>1 DEF OnePassages
  <2>5. CASE s # "0"
    <3>1. passages' = passages /\ file'["0"] = file["0"]
      BY <1>3, <2>5, StageNames DEF RunStage, memory
    <3> QED
      BY <1>1, <1>5, <2>2, <2>3, <2>5, <3>1 DEF OnePassages, Contents
  <2> QED
    BY <2>4, <2>5
<1>12. MarkedMade'
  <2>1. SUFFICES ASSUME documented', index' = 1, ~cutShort', NEW t \in marked' \ {"1.5", "2"}
                 PROVE  MadeOfInputs(t)'
    BY DEF MarkedMade
  <2>2. t # s
    BY <1>1, <2>1, WritesUnmarked
  <2> QED
    BY <1>1, <1>3, <1>7, <2>1, <2>2, OthersMade
<1>13. WrittenMade'
  <2>1. SUFFICES ASSUME documented', index' = 1, ~cutShort', s \notin {"1.5", "2"}
                 PROVE  Made(s) = Current(Inputs[s])'
    BY <1>1, <1>3 DEF WrittenMade
  <2>2. Current(Inputs[s])' = Current(Inputs[s])
    BY <1>1, <1>3, InputsStay
  <2>3. CASE s = "0"
    BY <2>2, <2>3, InputsOf DEF Made, Given, Current, Durable
  <2>4. CASE s \in {"1a", "1b", "1c"}
    <3>1. "0" \in Passed
      BY <1>5, <2>4, StageNames, Numbers DEF Before
    <3>2. passages = 1 /\ file["0"].gen = 1
      BY <1>1, <2>1, <3>1 DEF Contents, OnePassages
    <3>3. Given(s) = {<<"0", 1>>}
      BY <1>1, <2>1, <2>4, <3>1, MadeOfPassages
    <3>4. Current(Inputs[s]) = {<<"0", 1>>}
      BY <2>4, <3>2, InputsOf DEF Current
    <3>5. Made(s) = Given(s)
      BY <1>1, <2>1, <2>4, <3>1, MadeOfPassages DEF Made, Durable
    <3> QED
      BY <2>2, <3>3, <3>4, <3>5
  <2>5. CASE s \in {"3", "4"}
    BY <2>2, <2>5, InputsOf DEF Made, Given, Durable
  <2> QED
    BY <2>1, <2>3, <2>4, <2>5, StageNames
<1> QED
  BY <1>8, <1>9, <1>10, <1>11, <1>12, <1>13 DEF Contents

\* A kill in a scroll leaves the passages in doubt only where it is the
\* scroll of stage 1B: stage 0 is not marked before it has its file.
LEMMA ScrollCutContents ==
  ASSUME Types, Firsts, Contents, Kill, ScrollCut
  PROVE  Contents'
<1>1. /\ pc' = "off" /\ ~written' /\ Passed' = {}
      /\ UNCHANGED <<marked, index, runs, documented>>
  BY PassedAfter DEF Kill, MarkedAtKill, history
<1>2. /\ pc \in {"0", "1b"} /\ ~written /\ ~Skips(pc)
      /\ cutShort' = (cutShort \/ pc = "1b")
  BY DEF ScrollCut, Scrolling
<1>3. \A t \in StageSet \ {"0"} : file'[t] = file[t]
  BY StageNames DEF ScrollCut, Types
<1>4. Older' /\ WrittenMade' /\ Rows2'
  BY <1>1, <1>3, StageNames DEF Older, WrittenMade, Rows2, Contents
<1>5. ASSUME documented', ~cutShort'
      PROVE  documented /\ ~cutShort /\ pc = "0" /\ "0" \notin marked
  <2>1. documented /\ ~cutShort /\ pc = "0"
    BY <1>1, <1>2, <1>5 DEF Types, TypeOK
  <2> QED
    BY <1>2, <2>1, WritesUnmarked, StageNames
<1>6. WholeFiles'
  BY <1>1, <1>3, <1>5 DEF Contents, WholeFiles, Types, TypeOK
<1>7. OnePassages'
  BY <1>1, <1>3, <1>5, StageNames DEF Contents, OnePassages
<1>8. MarkedMade'
  <2>1. SUFFICES ASSUME documented', index' = 1, ~cutShort', NEW t \in marked' \ {"1.5", "2"}
                 PROVE  MadeOfInputs(t)'
    BY DEF MarkedMade
  <2>2. t \in StageSet /\ t # "0" /\ MadeOfInputs(t) /\ file'[t] = file[t]
    BY <1>1, <1>3, <1>5, <2>1 DEF Contents, MarkedMade, Types, TypeOK
  <2>3. "0" \notin Inputs[t] /\ Inputs[t] \subseteq StageSet
    <3>1. CASE t \in {"1a", "1b", "1c"}
      <4>1. "0" \in Before(t)
        BY <3>1, StageNames, Numbers DEF Before
      <4> QED
        BY <1>1, <1>5, <2>1, <4>1 DEF Firsts, Ordered
    <3>2. CASE t \in {"3", "4"}
      BY <3>2, InputsOf, StageNames
    <3> QED
      BY <2>1, <2>2, <3>1, <3>2, StageNames
  <2>4. Current(Inputs[t])' = Current(Inputs[t])
    BY <1>3, <2>3 DEF Current
  <2>5. file'["2"] = file["2"]
    BY <1>3, StageNames
  <2> QED
    BY <2>2, <2>4, <2>5 DEF MadeOfInputs
<1> QED
  BY <1>4, <1>6, <1>7, <1>8 DEF Contents

LEMMA KillContents ==
  ASSUME Types, Firsts, Contents, Kill
  PROVE  Contents'
<1>1. /\ pc' = "off" /\ ~written' /\ Passed' = {}
      /\ UNCHANGED <<marked, index, runs, documented>>
  BY PassedAfter DEF Kill, MarkedAtKill, history
<1>2. Older' /\ WrittenMade'
  BY <1>1, StageNames DEF Older, WrittenMade
<1>3. CASE UNCHANGED <<file, cutShort>>
  BY <1>1, <1>2, <1>3 DEF Contents, WholeFiles, Rows2, OnePassages, MarkedMade, MadeOfInputs, Current
<1>4. CASE StageCut
  <2>1. pc \in StageSet \ {"0"} /\ ~written /\ ~Skips(pc) /\ cutShort' = cutShort
    BY <1>4 DEF StageCut
  <2>2. PICK of \in (IF pc \in Durable /\ ~resume THEN SUBSET Made(pc) ELSE {Made(pc)}) :
           file' = [file EXCEPT ![pc] =
                      [gen |-> IF of = {} \/ pc = "1.5" THEN 0 ELSE runs, of |-> of, whole |-> FALSE]]
    BY <1>4 DEF StageCut
  <2>3. /\ \A t \in StageSet \ {pc} : file'[t] = file[t]
        /\ file'[pc].gen = IF of = {} \/ pc = "1.5" THEN 0 ELSE runs
        /\ file'[pc].of = of
    BY <2>1, <2>2 DEF Types
  <2>4. of \subseteq Made(pc) /\ (resume => of = Made(pc))
    BY <2>2
  <2>5. marked \subseteq StageSet /\ (documented => pc \notin marked \ {"2"})
    BY <2>1, WritesUnmarked DEF Types, TypeOK
  <2>6. WholeFiles'
    BY <1>1, <2>1, <2>3, <2>5 DEF Contents, WholeFiles
  <2>7. Rows2'
    <3>1. CASE pc = "2"
      BY <2>3, <3>1 DEF Rows2
    <3>2. CASE pc # "2"
      BY <2>3, <3>2, StageNames DEF Rows2, Contents
    <3> QED
      BY <3>1, <3>2
  <2>8. OnePassages'
    <3>1. SUFFICES ASSUME documented', index' = 1, ~cutShort'
                   PROVE  OnePassages'
      BY DEF OnePassages
    <3>2. documented /\ index = 1 /\ ~cutShort
      BY <1>1, <2>1, <3>1
    <3>3. ASSUME NEW t \in {"1b", "1c"}
          PROVE  file'[t].of \subseteq {<<"0", 1>>}
      <4>1. CASE t = pc
        <5>1. "0" \in Passed
          BY <2>1, <3>3, <4>1, PassedAfter, StageNames, Numbers DEF Before
        <5> QED
          BY <2>3, <2>4, <3>2, <3>3, <4>1, <5>1, MadeOfPassages
      <4>2. CASE t # pc
        BY <2>3, <3>2, <4>2, StageNames DEF Contents, OnePassages
      <4> QED
        BY <4>1, <4>2
    <3>4. file'["0"] = file["0"]
      BY <2>1, <2>3, StageNames
    <3> QED
      BY <1>1, <3>2, <3>3, <3>4 DEF OnePassages, Contents
  <2>9. MarkedMade'
    <3>1. SUFFICES ASSUME documented', index' = 1, ~cutShort', NEW t \in marked' \ {"1.5", "2"}
                   PROVE  MadeOfInputs(t)'
      BY DEF MarkedMade
    <3>2. t # pc
      BY <1>1, <2>5, <3>1
    <3>3. pc = "2" /\ resume => file'["2"].gen \in {file["2"].gen, runs}
      <4>1. ASSUME pc = "2", resume, Made("2") = {}
            PROVE  file["2"].gen = 0
        BY <4>1 DEF Made, Durable, Contents, Rows2
      <4> QED
        BY <2>3, <2>4, <4>1
    <3> QED
      BY <1>1, <2>1, <2>3, <3>1, <3>2, <3>3, OthersMade
  <2> QED
    BY <1>2, <2>6, <2>7, <2>8, <2>9 DEF Contents
<1> QED
  BY <1>3, <1>4, ScrollCutContents DEF Kill

LEMMA StepContents ==
  ASSUME Types, Firsts, Contents, [Next]_vars
  PROVE  Contents'
<1>1. ASSUME NEW s \in StageArgs, NEW r \in BOOLEAN, Start(s, r)
      PROVE  Contents'
  <2>1. /\ UNCHANGED <<index, file, marked>> /\ runs' = runs + 1
        /\ pc' = "0" /\ ~written' /\ (documented' => documented) /\ cutShort' = cutShort /\ Passed' = {}
    BY <1>1, PassedAfter DEF Start, Stages
  <2>2. Older'
    <3>1. \A t \in {"3", "4"} : file[t].gen \in 0..runs
      BY StageNames DEF Types, TypeOK, Versions
    <3>2. runs \in Nat
      BY DEF Types, TypeOK
    <3> QED
      BY <2>1, <3>1, <3>2 DEF Older
  <2>3. WrittenMade'
    BY <2>1 DEF WrittenMade
  <2>4. WholeFiles' /\ Rows2' /\ OnePassages' /\ MarkedMade'
    BY <2>1 DEF Contents, WholeFiles, Rows2, OnePassages, MarkedMade, MadeOfInputs, Current
  <2> QED
    BY <2>2, <2>3, <2>4 DEF Contents
<1>2. ASSUME StartFails
      PROVE  Contents'
  <2>1. /\ UNCHANGED <<index, file, marked, documented, cutShort>> /\ pc' = "off" /\ ~written'
    BY <1>2, IdleUnwritten DEF StartFails
  <2>2. Passed' = {} /\ "off" \notin StageSet
    BY <2>1, PassedAfter, StageNames
  <2> QED
    BY <2>1, <2>2 DEF Contents, Older, WrittenMade, WholeFiles, Rows2, OnePassages, MarkedMade, MadeOfInputs, Current
<1>3. ASSUME NEW s \in StageSet, Skip(s)
      PROVE  Contents'
  <2>1. /\ UNCHANGED <<index, file, marked, runs, documented, cutShort>> /\ ~written'
        /\ pc = s /\ Passed' = Passed \cup {s} /\ Skips(s)
    BY <1>3, PassedAfter DEF Skip, history
  <2>2. Older' /\ WrittenMade' /\ WholeFiles' /\ Rows2' /\ MarkedMade'
    BY <2>1 DEF Contents, Older, WrittenMade, WholeFiles, Rows2, MarkedMade, MadeOfInputs, Current
  <2>3. OnePassages'
    <3>1. CASE s = "0"
      <4>1. documented => "0" \in marked
        BY <2>1, <3>1 DEF Firsts, Arguments, Skips, Done
      <4>2. passages' = file["0"].gen
        BY <1>3, <3>1 DEF Skip
      <4> QED
        BY <2>1, <4>1, <4>2 DEF Contents, OnePassages
    <3>2. CASE s # "0"
      <4>1. passages' = passages
        BY <1>3, <3>2 DEF Skip
      <4> QED
        BY <2>1, <3>2, <4>1 DEF Contents, OnePassages
    <3> QED
      BY <3>1, <3>2
  <2> QED
    BY <2>2, <2>3 DEF Contents
<1>4. ASSUME Rescroll
      PROVE  Contents'
  <2>1. /\ UNCHANGED <<index, marked, runs, documented, pc, written, passages, cutShort>>
        /\ pc = "1b" /\ ~written
    BY <1>4 DEF Rescroll, Scrolling, history
  <2>2. /\ \A t \in StageSet \ {"0"} : file'[t] = file[t]
        /\ file'["0"].gen = index /\ file'["0"].of = {}
    BY <1>4, StageNames DEF Rescroll, Types
  <2>3. file'["0"].whole
    BY <1>4, StageNames DEF Rescroll, Types
  <2>4. Passed' = Passed /\ "0" \in Passed
    BY <2>1, PassedAfter, StageNames, Numbers DEF Before
  <2>5. marked \subseteq StageSet
    BY DEF Types, TypeOK
  <2>6. Older' /\ WrittenMade' /\ Rows2'
    BY <2>1, <2>2, <2>4, StageNames DEF Contents, Older, WrittenMade, Rows2
  <2>7. WholeFiles'
    BY <2>1, <2>2, <2>3, <2>5 DEF Contents, WholeFiles
  <2>8. OnePassages'
    BY <2>1, <2>2, <2>4, StageNames DEF Contents, OnePassages
  <2>9. MarkedMade'
    <3>1. SUFFICES ASSUME documented', index' = 1, ~cutShort', NEW t \in marked' \ {"1.5", "2"}
                   PROVE  MadeOfInputs(t)'
      BY DEF MarkedMade
    <3>2. file["0"].gen = 1
      BY <2>1, <2>4, <3>1 DEF Contents, OnePassages
    <3>3. \A u \in StageSet : file'[u].gen = file[u].gen
      BY <2>1, <2>2, <3>1, <3>2
    <3>4. t \in StageSet /\ Inputs[t] \subseteq StageSet /\ MadeOfInputs(t)
      BY <2>1, <2>5, <3>1, InputsBefore DEF Contents, MarkedMade
    <3>5. Current(Inputs[t])' = Current(Inputs[t])
      BY <3>3, <3>4 DEF Current
    <3>6. CASE t = "0"
      BY <2>2, <3>6, InputsOf DEF MadeOfInputs, Current
    <3>7. CASE t # "0"
      BY <2>2, <3>3, <3>4, <3>5, <3>7, StageNames DEF MadeOfInputs
    <3> QED
      BY <3>6, <3>7
  <2> QED
    BY <2>6, <2>7, <2>8, <2>9 DEF Contents
<1>5. ASSUME MarkDone
      PROVE  Contents'
  <2>1. /\ UNCHANGED <<index, file, runs, documented, passages, cutShort>> /\ ~written' /\ written
        /\ marked' = marked \cup {pc} /\ pc \in StageSet /\ file[pc].whole /\ Passed' = Passed
    BY <1>5, PassedAfter DEF MarkDone, memory, history, Types
  <2>2. Older' /\ WrittenMade' /\ Rows2'
    BY <2>1 DEF Contents, Older, WrittenMade, Rows2
  <2>3. WholeFiles'
    BY <2>1 DEF Contents, WholeFiles
  <2>4. OnePassages'
    <3>1. pc \in Passed
      BY <2>1 DEF Passed
    <3> QED
      BY <2>1, <3>1 DEF Contents, OnePassages
  <2>5. MarkedMade'
    BY <2>1 DEF Contents, MarkedMade, WrittenMade, MadeOfInputs, Current
  <2> QED
    BY <2>2, <2>3, <2>4, <2>5 DEF Contents
<1>6. ASSUME WriteSamples \/ WriteManifest
      PROVE  Contents'
  <2>1. UNCHANGED <<index, file, marked, runs, documented, passages, written, cutShort>> /\ Passed' = Passed
    BY <1>6, PassedAfter DEF WriteSamples, WriteManifest, memory, history
  <2>2. pc' \notin StageSet /\ pc \notin StageSet
    BY <1>6, StageNames DEF WriteSamples, WriteManifest
  <2>3. Older' /\ WrittenMade'
    BY <2>1, <2>2 DEF Older, WrittenMade, Types
  <2>4. WholeFiles' /\ Rows2' /\ OnePassages' /\ MarkedMade'
    BY <2>1 DEF Contents, WholeFiles, Rows2, OnePassages, MarkedMade, MadeOfInputs, Current
  <2> QED
    BY <2>3, <2>4 DEF Contents
<1>7. ASSUME Reindex
      PROVE  Contents'
  <2>1. UNCHANGED <<file, marked, runs, documented, pc, written, cutShort>>
    BY <1>7 DEF Reindex, history
  <2>2. index' # 1
    BY <1>7 DEF Reindex, Types, TypeOK
  <2>3. Passed' = Passed
    BY <2>1, PassedAfter
  <2> QED
    BY <2>1, <2>2, <2>3 DEF Contents, Older, WrittenMade, WholeFiles, Rows2, OnePassages, MarkedMade
<1>8. ASSUME ImportGapfill
      PROVE  Contents'
  <2>1. /\ UNCHANGED <<index, marked, runs, documented, cutShort>> /\ pc' = "off" /\ ~written'
    BY <1>8, IdleUnwritten DEF ImportGapfill, Collectable
  <2>2. /\ \A t \in StageSet \ {"1.5"} : file'[t] = file[t]
    BY <1>8, StageNames DEF ImportGapfill, Types
  <2>3. Passed' = {} /\ marked \subseteq StageSet
    BY <2>1, PassedAfter DEF Types, TypeOK
  <2>4. Older' /\ WrittenMade'
    BY <2>1, StageNames DEF Older, WrittenMade
  <2>5. WholeFiles' /\ Rows2' /\ OnePassages'
    BY <2>1, <2>2, <2>3, StageNames DEF Contents, WholeFiles, Rows2, OnePassages
  <2>6. MarkedMade'
    <3>1. SUFFICES ASSUME documented', index' = 1, ~cutShort', NEW t \in marked' \ {"1.5", "2"}
                   PROVE  MadeOfInputs(t)'
      BY DEF MarkedMade
    <3>2. t \in StageSet /\ MadeOfInputs(t) /\ file'[t] = file[t] /\ file'["2"] = file["2"]
      BY <2>1, <2>2, <2>3, <3>1, StageNames DEF Contents, MarkedMade
    <3>3. Inputs[t] \subseteq {"0", "2"} /\ {"0", "2"} \subseteq StageSet
      BY <3>1, <3>2, InputsOf, StageNames
    <3>4. Current(Inputs[t])' = Current(Inputs[t])
      BY <2>2, <3>3 DEF Current
    <3> QED
      BY <3>2, <3>4 DEF MadeOfInputs
  <2> QED
    BY <2>4, <2>5, <2>6 DEF Contents
<1>9. ASSUME Finalize \/ UNCHANGED vars
      PROVE  Contents'
  <2>1. UNCHANGED <<index, file, marked, runs, documented, passages, written, pc, cutShort>>
    BY <1>9 DEF Finalize, vars, memory, history
  <2>2. Passed' = Passed
    BY <2>1, PassedAfter
  <2> QED
    BY <2>1, <2>2 DEF Contents, Older, WrittenMade, WholeFiles, Rows2, OnePassages, MarkedMade, MadeOfInputs, Current
<1> QED
  BY <1>1, <1>2, <1>3, <1>4, <1>5, <1>6, <1>7, <1>8, <1>9, RunContents, KillContents DEF Next

---------------------------------------------------------------------------

LEMMA InitInv ==
  ASSUME Init
  PROVE  IInv
<1>1. Types
  BY StartTypes
<1>2. Passed = {} /\ Before("off") = {} /\ "off" \notin StageSet
  BY BeforeWhat, StageNames DEF Init, Passed
<1>3. \A s \in StageSet : file[s].gen = 0 /\ file[s].of = {}
  BY DEF Init, Absent
<1>4. Ends
  BY <1>2 DEF Init, Ends, Marks, Verdicts, Sampled, Hashed, FreshMemory, FreshFiles
<1>5. Firsts
  BY DEF Init, Firsts, FirstRun, Arguments, FreshMarks, Ordered
<1>6. Contents
  BY <1>2, <1>3, StageNames
     DEF Init, Contents, WholeFiles, Older, Rows2, OnePassages, MarkedMade, WrittenMade
<1>7. Imported
  BY DEF Init, Imported
<1> QED
  BY <1>1, <1>4, <1>5, <1>6, <1>7 DEF IInv

LEMMA StepInv ==
  ASSUME IInv, [Next]_vars
  PROVE  IInv'
<1>1. Types' /\ Ends' /\ Imported'
  BY StepTypes, StepEnds, StepImported DEF IInv, Firsts
<1>2. Types /\ Marks /\ Firsts /\ Contents
  BY DEF IInv, Ends
<1>3. Firsts' /\ Contents'
  BY <1>2, StepFirsts, StepContents
<1> QED
  BY <1>1, <1>3 DEF IInv

\* IInv holds of every behaviour of main.
THEOREM Inductive == Spec => []IInv
<1>1. Init => IInv
  BY InitInv
<1>2. IInv /\ [Next]_vars => IInv'
  BY StepInv
<1> QED
  BY <1>1, <1>2, PTL DEF Spec

\* The variables of main keep their types, for any arguments, programs,
\* versions of the index and imports.
THEOREM TypeCorrect == Spec => []TypeOK
<1>1. IInv => TypeOK
  BY DEF IInv, Types
<1> QED
  BY <1>1, Inductive, PTL

\* Gap-fill rows collected into gapfill_rows.jsonl once stage 1.5 is marked
\* (data_designer_gapfill.py, write_result_artifacts) are not written over by
\* any program started with --resume, wherever programs are killed.
THEOREM ImportsAlwaysKept == Spec => []ImportKept
<1>1. IInv => ImportKept
  BY DEF IInv, Imported, ImportKept
<1> QED
  BY <1>1, Inductive, PTL

\* A program of all stages that reaches its end (main of build_v2_dataset.py)
\* leaves all stages marked, verdicts on the rows that are there, and samples
\* and a manifest of what is on disk, after any history.
THEOREM AlwaysEndsWhole == Spec => []EndsWhole
<1>1. ASSUME IInv, pc = "done", stage = "all"
      PROVE  /\ marked = StageSet
             /\ Current(Inputs["2"]) \subseteq file["2"].of
             /\ file["2"].gen # 0 => samples = Current({"2"})
             /\ SampleRows # {} => manifest = Current(StageSet) \cup samples
             /\ ~resume => \A s \in StageSet : file[s].whole /\ file[s].of = Current(Inputs[s])
  <2>1. Passed = StageSet /\ Before(pc) = StageSet
    BY <1>1, PassedAfter, BeforeWhat DEF IInv
  <2>2. marked = StageSet
    BY <1>1, <2>1 DEF IInv, Ends, Marks, Types, TypeOK
  <2>3. Current(Inputs["2"]) \subseteq file["2"].of
    BY <1>1, <2>1, StageNames DEF IInv, Ends, Verdicts
  <2> QED
    BY <1>1, <2>1, <2>2, <2>3 DEF IInv, Ends, Sampled, Hashed, FreshFiles
<1>2. IInv => EndsWhole
  BY <1>1 DEF EndsWhole
<1> QED
  BY <1>2, Inductive, PTL

\* Where main is used as documented, progress.json lists the first stages,
\* and where the index stays what it lists is true of the files, wherever
\* programs were killed but in the scroll of stage 1B.
THEOREM AlwaysMarkedCurrent == Spec => []MarkedCurrent
<1>1. ASSUME IInv, documented
      PROVE  /\ \A k \in DOMAIN Stages : Stages[k] \in marked => \A i \in 1..k : Stages[i] \in marked
             /\ index = 1 /\ ~cutShort => \A s \in marked \ {"1.5"} :
                   /\ file[s].whole \/ (s = "2" /\ pc # "done")
                   /\ s # "2" => \/ file[s].of = Current(Inputs[s])
                                 \/ s \in {"3", "4"} /\ file[s].gen < file["2"].gen
  <2>1. stage = "all"
    BY <1>1 DEF IInv, Firsts, Arguments
  <2>2. ASSUME NEW k \in DOMAIN Stages, Stages[k] \in marked, NEW i \in 1..k
        PROVE  Stages[i] \in marked
    <3>1. Before(Stages[k]) \subseteq marked
      BY <1>1, <2>2 DEF IInv, Firsts, Ordered
    <3>2. i = k \/ Stages[i] \in Before(Stages[k])
      <4>1. DOMAIN Stages = {1, 2, 3, 4, 5, 6, 7, 8}
        BY DEF Stages
      <4>2. \A j \in DOMAIN Stages : Num(Stages[j]) = j /\ Stages[j] \in StageSet
        BY <4>1, Numbers DEF Stages, StageSet
      <4>3. i \in DOMAIN Stages /\ k \in DOMAIN Stages
        BY <4>1, <2>2
      <4> QED
        BY <4>1, <4>2, <4>3, <2>2 DEF Before
    <3> QED
      BY <2>2, <3>1, <3>2
  <2>3. ASSUME ~cutShort, NEW s \in marked \ {"1.5"}
        PROVE  file[s].whole \/ (s = "2" /\ pc # "done")
    <3>1. CASE s = "2" /\ pc = "done"
      <4>1. "2" \in Passed
        BY <3>1, PassedAfter, StageNames, <1>1 DEF IInv
      <4> QED
        BY <1>1, <2>1, <3>1, <4>1 DEF IInv, Ends, Verdicts
    <3>2. CASE s # "2"
      BY <1>1, <2>3, <3>2 DEF IInv, Contents, WholeFiles
    <3> QED
      BY <3>1, <3>2
  <2>4. ASSUME index = 1, ~cutShort, NEW s \in marked \ {"1.5", "2"}
        PROVE  MadeOfInputs(s)
    BY <1>1, <2>4 DEF IInv, Contents, MarkedMade
  <2> QED
    BY <2>2, <2>3, <2>4 DEF MadeOfInputs
<1>2. IInv => MarkedCurrent
  BY <1>1 DEF MarkedCurrent
<1> QED
  BY <1>2, Inductive, PTL
=============================================================================
