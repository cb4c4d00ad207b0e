------------------------- MODULE Evaluation_proofs --------------------------
(* The collector and the judges, and what is registered with the NeMo      *)
(* services, for any test set, caps, waves, jobs, versions, starts, kills  *)
(* and failures.                                                           *)
EXTENDS DirectEval, NemoServices, FiniteSetTheorems, SequenceTheorems, WellFoundedInduction, TLAPS

-----------------------------------------------------------------------------
(* Responses and scores are recorded once, the attempts of a row are       *)
(* capped but for kills, and the order of the sides decides nothing.       *)

\* The errors on file of a row.
ErrorsOf(i) == {l \in judgeErrors : l.i = i}

\* A row being collected has no response.
Unanswered ==
    /\ collects = 0 => responses = {} /\ cPending = {}
    /\ \A i \in cPending : i \notin Indices(responses)

\* A row being judged has no score; before the first run there are none.
Unscored ==
    /\ judges = 0 => scores = {} /\ judgeErrors = {} /\ jPending = {} /\ asked = [i \in Rows |-> 0]
    /\ resumedOnly => \A i \in jPending : i \notin Indices(scores)

\* A row has at most one error of a run, as the run's errors are of rows that
\* are no longer pending.
ErrorOnce ==
    /\ IsFiniteSet(judgeErrors)
    /\ \A l \in judgeErrors : l.run <= judges /\ (l.run = judges => l.i \notin jPending)

\* The calls that killed runs made about a row are at most these.
Lost(i) == MaxAttempts * kills[i]

\* The other calls about a row without score are paid for by its errors, and
\* only a row below the cap is pending.
Paid ==
    engine = "singleaxis" /\ resumedOnly =>
        \A i \in Rows :
            /\ asked[i] < Cap + MaxAttempts + Lost(i)
            /\ i \notin Indices(scores) => asked[i] <= PriorAttempts(i) + Lost(i)
            /\ i \in jPending => PriorAttempts(i) < Cap

\* The part of TypeOK that the proofs need.
Typed ==
    /\ engine \in {"singleaxis", "pairwise"}
    /\ responses \subseteq Record /\ scores \subseteq Record /\ judgeErrors \subseteq Record
    /\ collects \in Nat /\ judges \in Nat /\ asked \in [Rows -> Nat] /\ kills \in [Rows -> Nat]
    /\ cPending \subseteq Rows /\ jPending \subseteq Rows

IInv == Typed /\ Unanswered /\ OneResponse /\ Unscored /\ ScoredOnce /\ ErrorOnce /\ Paid

---------------------------------------------------------------------------

\* There is an attempt that ends the row: the last, or the first whose answer
\* is not to be tried again.
LEMMA FinalTyped ==
  ASSUME NEW a \in Answers
  PROVE  Final(a) \in 1..MaxAttempts
<1> DEFINE T == {n \in 1..MaxAttempts : n = MaxAttempts \/ a[n] # "retryable"}
           Less == OpToRel(<, Nat)
<1>1. T \subseteq Nat /\ MaxAttempts \in T
  BY AttemptsAssumption
<1>2. PICK n \in T : \A m \in T : ~(<<m, n>> \in Less)
  <2>1. IsWellFoundedOn(Less, Nat)
    BY NatLessThanWellFounded
  <2> HIDE DEF T, Less
  <2> QED
    BY <1>1, <2>1, WFMin
<1>3. \A m \in T : ~(m < n)
  BY <1>1, <1>2 DEF OpToRel
<1>4. \A m \in 1..n - 1 : a[m] = "retryable"
  BY <1>1, <1>3, AttemptsAssumption
<1> QED
  BY <1>2, <1>4 DEF Final

LEMMA CallsTyped ==
  ASSUME NEW c \in Calls
  PROVE  c.n \in 1..MaxAttempts
BY FinalTyped DEF Calls

LEMMA OutcomesTyped ==
  ASSUME NEW c \in Outcomes
  PROVE  c.n \in Nat /\ (engine = "singleaxis" => c.n <= MaxAttempts)
<1>1. \A d \in Calls : d.n \in 1..MaxAttempts
  BY CallsTyped
<1>2. c \in PairCalls => c.n \in Nat
  BY <1>1, AttemptsAssumption DEF PairCalls
<1> QED
  BY <1>1, <1>2, AttemptsAssumption DEF Outcomes

\* A run's error of a row raises what its attempts are taken to be.
LEMMA ErrorCounts ==
  ASSUME IInv, NEW i \in jPending
  PROVE  LET new == judgeErrors \cup {[i |-> i, run |-> judges]} IN
         /\ IsFiniteSet(new)
         /\ \A j \in Rows : MaxAttempts * Cardinality({l \in new : l.i = j})
                = IF j = i THEN PriorAttempts(i) + MaxAttempts ELSE PriorAttempts(j)
<1> DEFINE e == [i |-> i, run |-> judges]
           new == judgeErrors \cup {e}
<1>1. e \notin judgeErrors
  BY DEF IInv, ErrorOnce
<1>2. IsFiniteSet(judgeErrors) /\ IsFiniteSet(new)
  BY FS_AddElement DEF IInv, ErrorOnce
<1>3. \A j \in Rows : j # i => {l \in new : l.i = j} = ErrorsOf(j)
  BY DEF ErrorsOf
<1>4. {l \in new : l.i = i} = ErrorsOf(i) \cup {e} /\ e \notin ErrorsOf(i)
  BY <1>1 DEF ErrorsOf
<1>5. IsFiniteSet(ErrorsOf(i))
  BY <1>2, FS_Subset DEF ErrorsOf
<1>6. Cardinality(ErrorsOf(i) \cup {e}) = Cardinality(ErrorsOf(i)) + 1 /\ Cardinality(ErrorsOf(i)) \in Nat
  BY <1>4, <1>5, FS_AddElement, FS_CardinalityType
<1>7. MaxAttempts * (Cardinality(ErrorsOf(i)) + 1) = MaxAttempts * Cardinality(ErrorsOf(i)) + MaxAttempts
  BY <1>6, AttemptsAssumption
<1> QED
  BY <1>2, <1>3, <1>4, <1>6, <1>7 DEF PriorAttempts, ErrorsOf

LEMMA PriorTyped ==
  ASSUME IInv, NEW i
  PROVE  PriorAttempts(i) \in Nat
<1>1. IsFiniteSet({l \in judgeErrors : l.i = i})
  BY FS_Subset DEF IInv, ErrorOnce
<1>2. Cardinality({l \in judgeErrors : l.i = i}) \in Nat
  BY <1>1, FS_CardinalityType
<1> QED
  BY <1>2, AttemptsAssumption DEF PriorAttempts

LEMMA LostTyped ==
  ASSUME Typed, NEW i \in Rows
  PROVE  Lost(i) \in Nat
<1>1. kills[i] \in Nat /\ MaxAttempts \in Nat
  BY AttemptsAssumption DEF Typed
<1> QED
  BY <1>1 DEF Lost

LEMMA InitInv == Init => IInv
<1> SUFFICES ASSUME Init PROVE IInv
  OBVIOUS
<1>1. Typed
  BY DEF Init, Typed
<1>2. Unanswered /\ OneResponse /\ Unscored /\ ScoredOnce
  BY DEF Init, Unanswered, OneResponse, Unscored, ScoredOnce
<1>3. ErrorOnce
  BY FS_EmptySet DEF Init, ErrorOnce
<1>4. Paid
  <2>1. \A i \in Rows : PriorAttempts(i) = 0
    <3>1. \A i \in Rows : {l \in judgeErrors : l.i = i} = {}
      BY DEF Init
    <3> QED
      BY <3>1, FS_EmptySet, AttemptsAssumption DEF PriorAttempts
  <2>2. \A i \in Rows : asked[i] = 0 /\ Lost(i) \in Nat /\ i \notin jPending
    BY <1>1, LostTyped DEF Init
  <2> QED
    BY <2>1, <2>2, AttemptsAssumption DEF Paid
<1> QED
  BY <1>1, <1>2, <1>3, <1>4 DEF IInv

---------------------------------------------------------------------------

\* The collector changes nothing of the judge, and keeps its own part.
LEMMA CollectorKeeps ==
  ASSUME IInv,
         \/ CollectFresh \/ CollectResume \/ KillCollector
         \/ \E i \in Rows : Responded(i) \/ RowFailed(i)
  PROVE  IInv'
<1> USE DEF judge
<1>1. UNCHANGED <<engine, judge>>
  BY DEF CollectFresh, CollectResume, Collecting, KillCollector, Responded, RowFailed
<1>2. (Unscored /\ ScoredOnce /\ ErrorOnce)'
  BY <1>1 DEF IInv, Unscored, ScoredOnce, ErrorOnce, Indices
<1>3. Paid'
  BY <1>1 DEF IInv, Paid, PriorAttempts, Lost, Indices
<1>4. CASE CollectFresh
  <2>1. responses' = responses /\ cPending' = Rows /\ collects = 0 /\ collects' = 1
    BY <1>4 DEF CollectFresh, Collecting
  <2> QED
    BY <1>1, <1>2, <1>3, <2>1 DEF IInv, Typed, Unanswered, OneResponse, Indices
<1>5. CASE CollectResume
  <2>1. responses' = responses /\ cPending' \subseteq Rows \ Indices(responses) /\ collects' = collects + 1
    BY <1>5 DEF CollectResume, Collecting, SkipIndices
  <2> QED
    BY <1>1, <1>2, <1>3, <2>1 DEF IInv, Typed, Unanswered, OneResponse, Indices
<1>6. CASE KillCollector
  <2>1. responses' = responses /\ cPending' = {} /\ collects' = collects
    BY <1>6 DEF KillCollector
  <2> QED
    BY <1>1, <1>2, <1>3, <2>1 DEF IInv, Typed, Unanswered, OneResponse, Indices
<1>7. ASSUME NEW i \in Rows, Responded(i) PROVE IInv'
  <2>1. /\ i \in cPending /\ cPending' = cPending \ {i} /\ collects' = collects
        /\ responses' = responses \cup {[i |-> i, run |-> collects]}
    BY <1>7 DEF Responded
  <2>2. \A l \in responses : l.i # i
    BY <2>1 DEF IInv, Unanswered, Indices
  <2>3. Typed'
    BY <1>1, <2>1 DEF IInv, Typed, Record
  <2>4. OneResponse'
    BY <2>1, <2>2 DEF IInv, OneResponse
  <2>5. Unanswered'
    BY <2>1 DEF IInv, Unanswered, Indices
  <2> QED
    BY <1>2, <1>3, <2>3, <2>4, <2>5 DEF IInv
<1>8. ASSUME NEW i \in Rows, RowFailed(i) PROVE IInv'
  <2>1. responses' = responses /\ cPending' \subseteq cPending /\ collects' = collects
    BY <1>8 DEF RowFailed
  <2> QED
    BY <1>1, <1>2, <1>3, <2>1 DEF IInv, Typed, Unanswered, OneResponse, Indices
<1> QED
  BY <1>4, <1>5, <1>6, <1>7, <1>8

\* A judge that starts takes the rows with a response and without a score that
\* are below the cap.
LEMMA StartKeeps ==
  ASSUME IInv, NEW resume \in BOOLEAN, JudgeStart(resume)
  PROVE  IInv'
<1>1. /\ UNCHANGED <<engine, responses, cPending, collects, scores, judgeErrors, asked, kills>>
      /\ judges' = judges + 1 /\ resumedOnly' = (resumedOnly /\ (resume \/ judges = 0))
      /\ jPending' = (Candidates \ CompletedRows(resume)) \ Exhausted(resume, Candidates \ CompletedRows(resume))
  BY DEF JudgeStart, collector
<1>2. Candidates \subseteq Rows
  BY DEF IInv, Typed, Candidates, Indices, Record
<1>3. Typed'
  BY <1>1, <1>2 DEF IInv, Typed
<1>4. (Unanswered /\ OneResponse)'
  BY <1>1 DEF IInv, Unanswered, OneResponse, Indices
<1>5. Unscored' /\ ScoredOnce'
  <2>1. judges' # 0
    BY <1>1 DEF IInv, Typed
  <2>2. resumedOnly' => resumedOnly /\ CompletedRows(resume) = Indices(scores)
    BY <1>1 DEF IInv, Unscored, CompletedRows, Indices
  <2>3. \A i \in jPending' : i \notin CompletedRows(resume)
    BY <1>1
  <2> QED
    BY <1>1, <2>1, <2>2, <2>3 DEF IInv, Unscored, ScoredOnce, Indices
<1>6. ErrorOnce'
  BY <1>1 DEF IInv, Typed, ErrorOnce, Record
<1>7. Paid'
  <2> SUFFICES ASSUME engine = "singleaxis", resumedOnly, resume \/ judges = 0, NEW i \in Rows
               PROVE  /\ asked[i] < Cap + MaxAttempts + Lost(i)
                      /\ i \notin Indices(scores) => asked[i] <= PriorAttempts(i) + Lost(i)
                      /\ i \in jPending' => PriorAttempts(i) < Cap
    BY <1>1 DEF Paid, PriorAttempts, Lost, Indices
  <2>1. CASE resume
    <3>1. i \in jPending' => ~(PriorAttempts(i) >= Cap)
      BY <1>1, <2>1 DEF Exhausted
    <3> QED
      BY <3>1, PriorTyped, AttemptsAssumption DEF IInv, Paid
  <2>2. CASE judges = 0
    <3>1. {l \in judgeErrors : l.i = i} = {}
      BY <2>2 DEF IInv, Unscored
    <3>2. PriorAttempts(i) = 0
      BY <3>1, FS_EmptySet, AttemptsAssumption DEF PriorAttempts
    <3>3. 0 < Cap
      BY AttemptsAssumption
    <3> QED
      BY <3>2, <3>3 DEF IInv, Paid
  <2> QED
    BY <2>1, <2>2
<1> QED
  BY <1>3, <1>4, <1>5, <1>6, <1>7 DEF IInv

LEMMA JudgedKeeps ==
  ASSUME IInv, NEW i \in Rows, Judged(i)
  PROVE  IInv'
<1> DEFINE s == [i |-> i, run |-> judges]
<1>1. /\ i \in jPending /\ jPending' = jPending \ {i} /\ scores' = scores \cup {s}
      /\ UNCHANGED <<engine, responses, cPending, collects, judgeErrors, judges, kills, resumedOnly>>
  BY DEF Judged, collector
<1>2. PICK c \in Outcomes : asked' = [asked EXCEPT ![i] = @ + c.n]
  BY DEF Judged
<1>3. c.n \in Nat /\ (engine = "singleaxis" => c.n <= MaxAttempts)
  BY OutcomesTyped
<1>4. Typed'
  BY <1>1, <1>2, <1>3 DEF IInv, Typed, Record
<1>5. (Unanswered /\ OneResponse)'
  BY <1>1 DEF IInv, Unanswered, OneResponse, Indices
<1>6. Unscored'
  BY <1>1 DEF IInv, Unscored, Indices
<1>7. ScoredOnce'
  BY <1>1 DEF IInv, Unscored, ScoredOnce, Indices
<1>8. ErrorOnce'
  BY <1>1 DEF IInv, ErrorOnce
<1>9. Paid'
  <2> SUFFICES ASSUME engine = "singleaxis", resumedOnly, NEW j \in Rows
               PROVE  /\ asked'[j] < Cap + MaxAttempts + Lost(j)
                      /\ j \notin Indices(scores') => asked'[j] <= PriorAttempts(j) + Lost(j)
                      /\ j \in jPending' => PriorAttempts(j) < Cap
    BY <1>1 DEF Paid, PriorAttempts, Lost, Indices
  <2>1. j # i => asked'[j] = asked[j] /\ (j \in Indices(scores) => j \in Indices(scores'))
    BY <1>1, <1>2 DEF IInv, Typed, Indices
  <2>2. i \in Indices(scores')
    <3>1. s \in scores' /\ s.i = i
      BY <1>1
    <3> QED
      BY <3>1 DEF Indices
  <2>3. i \notin Indices(scores) /\ asked[i] <= PriorAttempts(i) + Lost(i) /\ PriorAttempts(i) < Cap
    BY <1>1 DEF IInv, Unscored, Paid
  <2>4. asked'[i] = asked[i] + c.n /\ asked[i] \in Nat
    BY <1>2 DEF IInv, Typed
  <2>5. asked'[i] < Cap + MaxAttempts + Lost(i)
    BY <1>3, <2>3, <2>4, PriorTyped, LostTyped, AttemptsAssumption DEF IInv
  <2> QED
    BY <1>1, <2>1, <2>2, <2>5 DEF IInv, Paid
<1> QED
  BY <1>4, <1>5, <1>6, <1>7, <1>8, <1>9 DEF IInv

LEMMA JudgeFailedKeeps ==
  ASSUME IInv, NEW i \in Rows, JudgeFailed(i)
  PROVE  IInv'
<1> DEFINE e == [i |-> i, run |-> judges]
<1>1. /\ i \in jPending /\ jPending' = jPending \ {i} /\ judgeErrors' = judgeErrors \cup {e}
      /\ UNCHANGED <<engine, responses, cPending, collects, scores, judges, kills, resumedOnly>>
  BY DEF JudgeFailed, collector
<1>2. PICK c \in Outcomes : asked' = [asked EXCEPT ![i] = @ + c.n]
  BY DEF JudgeFailed
<1>3. c.n \in Nat /\ (engine = "singleaxis" => c.n <= MaxAttempts)
  BY OutcomesTyped
<1>4. Typed'
  BY <1>1, <1>2, <1>3 DEF IInv, Typed, Record
<1>5. (Unanswered /\ OneResponse)'
  BY <1>1 DEF IInv, Unanswered, OneResponse, Indices
<1>6. Unscored' /\ ScoredOnce'
  BY <1>1 DEF IInv, Unscored, ScoredOnce, Indices
<1>7. ErrorOnce'
  <2>1. IsFiniteSet(judgeErrors')
    BY <1>1, ErrorCounts
  <2> QED
    BY <1>1, <2>1 DEF IInv, Typed, ErrorOnce
<1>8. \A j \in Rows : PriorAttempts(j)' = IF j = i THEN PriorAttempts(i) + MaxAttempts ELSE PriorAttempts(j)
  BY <1>1, ErrorCounts DEF PriorAttempts
<1>9. Paid'
  <2> SUFFICES ASSUME engine = "singleaxis", resumedOnly, NEW j \in Rows
               PROVE  /\ asked'[j] < Cap + MaxAttempts + Lost(j)
                      /\ j \notin Indices(scores) => asked'[j] <= PriorAttempts(j)' + Lost(j)
                      /\ j \in jPending' => PriorAttempts(j)' < Cap
    BY <1>1 DEF Paid, Lost, Indices
  <2>1. CASE j # i
    <3>1. asked'[j] = asked[j] /\ PriorAttempts(j)' = PriorAttempts(j)
      BY <1>2, <1>8, <2>1 DEF IInv, Typed
    <3> QED
      BY <1>1, <3>1 DEF IInv, Paid
  <2>2. CASE j = i
    <3>1. PriorAttempts(j)' = PriorAttempts(i) + MaxAttempts
      BY <1>8, <2>2
    <3>2. i \notin Indices(scores) /\ asked[i] <= PriorAttempts(i) + Lost(i) /\ PriorAttempts(i) < Cap
      BY <1>1 DEF IInv, Unscored, Paid
    <3>3. asked'[i] = asked[i] + c.n /\ asked[i] \in Nat
      BY <1>2 DEF IInv, Typed
    <3>4. asked'[i] < Cap + MaxAttempts + Lost(i) /\ asked'[i] <= PriorAttempts(i) + MaxAttempts + Lost(i)
      BY <1>3, <3>2, <3>3, PriorTyped, LostTyped, AttemptsAssumption DEF IInv
    <3> QED
      BY <1>1, <2>2, <3>1, <3>4
  <2> QED
    BY <2>1, <2>2
<1> QED
  BY <1>4, <1>5, <1>6, <1>7, <1>9 DEF IInv

\* A judge that cannot start leaves what is on file.
LEMMA QuietKeeps ==
  ASSUME IInv, JudgeCannotRead \/ UNCHANGED vars
  PROVE  IInv'
<1>1. /\ UNCHANGED <<engine, responses, cPending, collects, scores, judgeErrors, jPending, asked, kills, resumedOnly>>
      /\ judges' = judges \/ judges' = judges + 1
  BY DEF JudgeCannotRead, vars, collector, judge
<1>2. Typed'
  BY <1>1 DEF IInv, Typed
<1>3. (Unanswered /\ OneResponse /\ ScoredOnce)'
  BY <1>1 DEF IInv, Unanswered, OneResponse, ScoredOnce, Indices
<1>4. Unscored'
  BY <1>1 DEF IInv, Typed, Unscored, Indices
<1>5. ErrorOnce'
  BY <1>1 DEF IInv, Typed, ErrorOnce, Record
<1>6. Paid'
  BY <1>1 DEF IInv, Paid, PriorAttempts, Lost, Indices
<1> QED
  BY <1>2, <1>3, <1>4, <1>5, <1>6 DEF IInv

\* What a killed run asked is lost, a run's attempts about a row at most.
LEMMA KillTyped ==
  ASSUME asked \in [Rows -> Nat], kills \in [Rows -> Nat], engine \in {"singleaxis", "pairwise"},
         jPending \subseteq Rows, KillJudge
  PROVE  /\ asked' \in [Rows -> Nat] /\ kills' \in [Rows -> Nat]
         /\ \A i \in Rows : IF i \in jPending
                            THEN /\ kills'[i] = kills[i] + 1
                                 /\ engine = "singleaxis" => asked'[i] <= asked[i] + MaxAttempts
                            ELSE kills'[i] = kills[i] /\ asked'[i] = asked[i]
<1>1. PICK made \in [jPending -> CallsInFlight] :
         asked' = [i \in Rows |-> IF i \in jPending THEN asked[i] + made[i] ELSE asked[i]]
  BY DEF KillJudge
<1>2. \A i \in jPending : made[i] \in Nat /\ (engine = "singleaxis" => made[i] <= MaxAttempts)
  BY <1>1, AttemptsAssumption DEF CallsInFlight
<1>3. kills' = [i \in Rows |-> IF i \in jPending THEN kills[i] + 1 ELSE kills[i]]
  BY DEF KillJudge
<1>4. asked' \in [Rows -> Nat]
  BY <1>1, <1>2
<1>5. kills' \in [Rows -> Nat]
  BY <1>3
<1>6. \A i \in jPending : engine = "singleaxis" => asked'[i] <= asked[i] + MaxAttempts
  BY <1>1, <1>2, AttemptsAssumption
<1> QED
  BY <1>1, <1>3, <1>4, <1>5, <1>6

LEMMA KillJudgeKeeps ==
  ASSUME IInv, KillJudge
  PROVE  IInv'
<1>1. /\ UNCHANGED <<engine, responses, cPending, collects, scores, judgeErrors, judges, resumedOnly>>
      /\ jPending' = {}
  BY DEF KillJudge, collector
<1>2. /\ asked' \in [Rows -> Nat] /\ kills' \in [Rows -> Nat]
      /\ \A i \in Rows : IF i \in jPending
                         THEN /\ kills'[i] = kills[i] + 1
                              /\ engine = "singleaxis" => asked'[i] <= asked[i] + MaxAttempts
                         ELSE kills'[i] = kills[i] /\ asked'[i] = asked[i]
  BY KillTyped DEF IInv, Typed
<1>3. Typed'
  BY <1>1, <1>2 DEF IInv, Typed
<1>4. (Unanswered /\ OneResponse /\ ScoredOnce)'
  BY <1>1 DEF IInv, Unanswered, OneResponse, ScoredOnce, Indices
<1>5. Unscored'
  <2>1. judges = 0 => jPending = {} /\ asked = [i \in Rows |-> 0]
    BY DEF IInv, Unscored
  <2>2. judges = 0 => asked' = [i \in Rows |-> 0]
    BY <1>2, <2>1
  <2> QED
    BY <1>1, <2>2 DEF IInv, Unscored
<1>6. ErrorOnce'
  BY <1>1 DEF IInv, ErrorOnce
<1>7. \A i \in Rows : Lost(i)' = IF i \in jPending THEN Lost(i) + MaxAttempts ELSE Lost(i)
  <2> SUFFICES ASSUME NEW i \in Rows
               PROVE  Lost(i)' = IF i \in jPending THEN Lost(i) + MaxAttempts ELSE Lost(i)
    OBVIOUS
  <2>1. kills[i] \in Nat /\ MaxAttempts \in Nat
    BY AttemptsAssumption DEF IInv, Typed
  <2>2. MaxAttempts * (kills[i] + 1) = MaxAttempts * kills[i] + MaxAttempts
    BY <2>1
  <2> QED
    BY <1>2, <2>2 DEF Lost
<1>8. Paid'
  <2> SUFFICES ASSUME engine = "singleaxis", resumedOnly, NEW i \in Rows
               PROVE  /\ asked'[i] < Cap + MaxAttempts + Lost(i)'
                      /\ i \notin Indices(scores) => asked'[i] <= PriorAttempts(i) + Lost(i)'
    BY <1>1 DEF Paid, PriorAttempts, Indices
  <2>1. /\ asked[i] < Cap + MaxAttempts + Lost(i)
        /\ i \notin Indices(scores) => asked[i] <= PriorAttempts(i) + Lost(i)
        /\ asked[i] \in Nat /\ asked'[i] \in Nat /\ Lost(i) \in Nat /\ PriorAttempts(i) \in Nat
    BY <1>2, LostTyped, PriorTyped DEF IInv, Paid, Typed
  <2>2. CASE i \in jPending
    <3>1. asked'[i] <= asked[i] + MaxAttempts /\ Lost(i)' = Lost(i) + MaxAttempts
      BY <1>2, <1>7, <2>2
    <3> QED
      BY <2>1, <3>1, AttemptsAssumption
  <2>3. CASE i \notin jPending
    BY <1>2, <1>7, <2>1, <2>3
  <2> QED
    BY <2>2, <2>3
<1> QED
  BY <1>3, <1>4, <1>5, <1>6, <1>8 DEF IInv

LEMMA StepInv == IInv /\ [Next]_vars => IInv'
BY CollectorKeeps, StartKeeps, JudgedKeeps, JudgeFailedKeeps, QuietKeeps, KillJudgeKeeps DEF Next

LEMMA Inductive == Spec => []IInv
BY InitInv, StepInv, PTL DEF Spec

---------------------------------------------------------------------------

\* A row of the test set never gets a second response, however the collector
\* is killed, resumed and told to retry.
THEOREM OneResponseEver == Spec => []OneResponse
<1>1. IInv => OneResponse
  BY DEF IInv
<1> QED
  BY <1>1, Inductive, PTL

\* A judge that is only resumed scores no row twice.
THEOREM ScoredOnceEver == Spec => []ScoredOnce
<1>1. IInv => ScoredOnce
  BY DEF IInv
<1> QED
  BY <1>1, Inductive, PTL

\* The attempts of a row are capped over all resumed runs, but for one run's
\* attempts with every kill, for any caps.
THEOREM AttemptsAlwaysCapped == Spec => []AttemptsCapped
<1>1. IInv => AttemptsCapped
  BY DEF IInv, Paid, Lost, AttemptsCapped
<1> QED
  BY <1>1, Inductive, PTL

\* What two sides are resolved to.
LEMMA ResolveIs ==
  ASSUME NEW x \in {"left", "right", "tie"}, NEW y \in {"left", "right", "tie"}
  PROVE  Resolve({x, y}) = IF x = y THEN x ELSE IF x = "tie" THEN y ELSE IF y = "tie" THEN x ELSE "tie"
<1>1. IsFiniteSet({x, y})
  <2>1. {x, y} = {x} \cup {y}
    OBVIOUS
  <2>2. IsFiniteSet({x})
    BY FS_Singleton
  <2> QED
    BY <2>1, <2>2, FS_AddElement
<1>2. CASE x = y
  <2>1. Cardinality({x, y}) = 1
    BY <1>2, FS_Singleton
  <2> QED
    BY <1>2, <2>1 DEF Resolve
<1>3. CASE x # y
  <2>1. Cardinality({x, y}) # 1
    BY <1>1, <1>3, FS_Singleton
  <2>2. CASE x = "tie"
    <3>1. {x, y} \ {"tie"} = {y}
      BY <1>3, <2>2
    <3>2. Cardinality({x, y} \ {"tie"}) = 1
      BY <3>1, FS_Singleton
    <3> QED
      BY <1>3, <2>1, <2>2, <3>1, <3>2 DEF Resolve
  <2>3. CASE y = "tie"
    <3>1. {x, y} \ {"tie"} = {x}
      BY <1>3, <2>3
    <3>2. Cardinality({x, y} \ {"tie"}) = 1
      BY <3>1, FS_Singleton
    <3> QED
      BY <1>3, <2>1, <2>3, <3>1, <3>2 DEF Resolve
  <2>4. CASE x # "tie" /\ y # "tie"
    <3>1. {x, y} \ {"tie"} = {x, y}
      BY <2>4
    <3> QED
      BY <1>3, <2>1, <2>4, <3>1 DEF Resolve
  <2> QED
    BY <2>2, <2>3, <2>4
<1> QED
  BY <1>2, <1>3

\* No position wins by itself, and exchanging the sides exchanges the winner.
THEOREM SwapAlwaysFair == Spec => []SwapIsFair
<1>1. SwapIsFair
  <2> SUFFICES ASSUME NEW v \in {"A", "B", "TIE"}, NEW w \in {"A", "B", "TIE"}
               PROVE  /\ v = w => Winner(v, w) = "tie"
                      /\ Winner(w, v) = Exchange(Winner(v, w))
                      /\ Winner(v, w) = "left" => v # "B" /\ w # "A"
    BY DEF SwapIsFair
  <2>1. \A x \in {"A", "B", "TIE"}, swapped \in BOOLEAN : SideOf(x, swapped) \in {"left", "right", "tie"}
    BY DEF SideOf
  <2> DEFINE Of(l, r) == IF l = r THEN l ELSE IF l = "tie" THEN r ELSE IF r = "tie" THEN l ELSE "tie"
  <2>2. /\ Winner(v, w) = Of(SideOf(v, FALSE), SideOf(w, TRUE))
        /\ Winner(w, v) = Of(SideOf(w, FALSE), SideOf(v, TRUE))
    <3>1. /\ SideOf(v, FALSE) \in {"left", "right", "tie"} /\ SideOf(w, TRUE) \in {"left", "right", "tie"}
          /\ SideOf(w, FALSE) \in {"left", "right", "tie"} /\ SideOf(v, TRUE) \in {"left", "right", "tie"}
      BY <2>1
    <3>2. /\ Resolve({SideOf(v, FALSE), SideOf(w, TRUE)}) = Of(SideOf(v, FALSE), SideOf(w, TRUE))
          /\ Resolve({SideOf(w, FALSE), SideOf(v, TRUE)}) = Of(SideOf(w, FALSE), SideOf(v, TRUE))
      BY <3>1, ResolveIs
    <3> QED
      BY <3>2 DEF Winner
  <2>3. /\ SideOf("A", FALSE) = "left" /\ SideOf("B", FALSE) = "right" /\ SideOf("TIE", FALSE) = "tie"
        /\ SideOf("A", TRUE) = "right" /\ SideOf("B", TRUE) = "left" /\ SideOf("TIE", TRUE) = "tie"
    BY DEF SideOf
  <2> QED
    BY <2>2, <2>3 DEF Exchange
<1> QED
  BY <1>1, PTL

---------------------------------------------------------------------------
(* The summary *)

\* A file has no more rows than lines.
LEMMA IndicesFinite ==
  ASSUME NEW file, IsFiniteSet(file)
  PROVE  /\ IsFiniteSet(Indices(file))
         /\ Cardinality(file) \in Nat /\ Cardinality(Indices(file)) \in Nat
         /\ Cardinality(Indices(file)) <= Cardinality(file)
<1> DEFINE f == [l \in file |-> l.i]
<1>1. f \in Surjection(file, Indices(file))
  BY DEF Surjection, Indices
<1> QED
  BY <1>1, FS_Surjection, FS_CardinalityType

\* The rows of two sets that share none add up.
LEMMA DisjointSum ==
  ASSUME NEW S, NEW T, IsFiniteSet(S), IsFiniteSet(T), S \cap T = {}
  PROVE  /\ IsFiniteSet(S \cup T) /\ Cardinality(S \cup T) = Cardinality(S) + Cardinality(T)
         /\ Cardinality(S) \in Nat /\ Cardinality(T) \in Nat
BY FS_Union, FS_EmptySet, FS_CardinalityType

\* What is summarised accounts for the rows that have a line in either file.
LEMMA SummaryIs ==
  ASSUME NEW done, NEW failed, NEW run \in Nat, NEW S, IsFiniteSet(done), IsFiniteSet(failed),
         S \subseteq Indices(done) \cup Indices(failed),
         engine = "singleaxis" => Indices(done) \cup Indices(failed) \subseteq S
  PROVE  LET s == SummaryOf(done, failed, run) IN
         /\ s \in [done : Int, failed : Int, run : Nat] /\ s.run = run
         /\ engine = "singleaxis" => s.done + s.failed = Cardinality(S)
         /\ engine # "singleaxis" => s.done + s.failed >= Cardinality(S)
<1> DEFINE open == Unresolved(done, failed)
           D == Indices(done)
           O == Indices(open)
<1>1. O = Indices(failed) \ D
  BY DEF Unresolved, Indices
<1>2. IsFiniteSet(open)
  BY FS_Subset DEF Unresolved
<1>3. /\ IsFiniteSet(D) /\ IsFiniteSet(O)
      /\ Cardinality(done) \in Nat /\ Cardinality(D) \in Nat /\ Cardinality(D) <= Cardinality(done)
      /\ Cardinality(open) \in Nat /\ Cardinality(O) \in Nat /\ Cardinality(O) <= Cardinality(open)
  BY <1>2, IndicesFinite
<1>4. IsFiniteSet(D \cup O) /\ Cardinality(D \cup O) = Cardinality(D) + Cardinality(O)
  BY <1>1, <1>3, DisjointSum
<1>5. S \subseteq D \cup O /\ (engine = "singleaxis" => S = D \cup O)
  BY <1>1
<1>6. Cardinality(S) <= Cardinality(D \cup O) /\ Cardinality(S) \in Nat
  BY <1>4, <1>5, FS_Subset, FS_CardinalityType
<1>7. CASE engine = "singleaxis"
  <2>1. SummaryOf(done, failed, run) = [done |-> Cardinality(D), failed |-> Cardinality(O), run |-> run]
    BY <1>7 DEF SummaryOf
  <2> HIDE DEF D, O, open
  <2> QED
    BY <1>3, <1>4, <1>5, <1>7, <2>1
<1>8. CASE engine # "singleaxis"
  <2>1. SummaryOf(done, failed, run) = [done |-> Cardinality(done), failed |-> Cardinality(open), run |-> run]
    BY <1>8 DEF SummaryOf
  <2> HIDE DEF D, O, open
  <2> QED
    BY <1>3, <1>4, <1>6, <1>8, <2>1
<1> QED
  BY <1>7, <1>8

\* The rows a judge saw are pending or have a line; in a single-axis run every
\* line is of such a row. A summary of the present run is written at its end.
Accounts ==
    /\ IsFiniteSet(responses) /\ IsFiniteSet(scores)
    /\ Indices(scores) \subseteq Indices(responses) /\ Indices(judgeErrors) \subseteq Indices(responses)
    /\ engine = "singleaxis" => Indices(scores) \cup Indices(judgeErrors) \subseteq seen
    /\ seen \subseteq Indices(responses)
    /\ jState = "running" => seen \subseteq Indices(scores) \cup Indices(judgeErrors) \cup jPending
    /\ summary.run <= judges /\ (jState = "running" => summary.run < judges)
    /\ SummaryAccounts

\* One line more is one row more.
LEMMA OneMore ==
  ASSUME NEW file, NEW i, NEW run
  PROVE  Indices(file \cup {[i |-> i, run |-> run]}) = Indices(file) \cup {i}
<1> DEFINE e == [i |-> i, run |-> run]
<1>1. e.i = i
  OBVIOUS
<1> HIDE DEF e
<1>2. Indices(file \cup {e}) = Indices(file) \cup {i}
  BY <1>1 DEF Indices
<1> QED
  BY <1>2 DEF e

LEMMA AccountsInit == Init => TypeOK /\ Accounts
<1> SUFFICES ASSUME Init PROVE TypeOK /\ Accounts
  OBVIOUS
<1>1. TypeOK
  <2>1. other \subseteq Rows
    <3>1. CASE engine = "pairwise"
      BY <3>1 DEF Init
    <3>2. CASE engine # "pairwise"
      BY <3>2 DEF Init
    <3> QED
      BY <3>1, <3>2
  <2>2. (cState = "off") = (cPending = {}) /\ (jState = "off") = (jPending = {})
    BY DEF Init
  <2>3. summary \in [done : Int, failed : Int, run : Nat]
    BY DEF Init, NoSummary
  <2>4. engine \in {"singleaxis", "pairwise"} /\ asked \in [Rows -> Nat] /\ kills \in [Rows -> Nat]
    BY DEF Init
  <2> QED
    BY <2>1, <2>2, <2>3, <2>4 DEF Init, TypeOK
<1>2. Accounts
  BY FS_EmptySet DEF Init, Accounts, NoSummary, Indices, SummaryAccounts
<1> QED
  BY <1>1, <1>2

LEMMA CollectorAccounts ==
  ASSUME TypeOK, Accounts,
         \/ CollectFresh \/ CollectResume \/ KillCollector
         \/ \E i \in Rows : Responded(i) \/ RowFailed(i)
  PROVE  TypeOK' /\ Accounts'
<1> USE DEF judge
<1>1. UNCHANGED <<engine, other, judge>>
  BY DEF CollectFresh, CollectResume, Collecting, KillCollector, Responded, RowFailed
<1>2. /\ IsFiniteSet(responses') /\ responses' \subseteq Record
      /\ Indices(responses) \subseteq Indices(responses')
  <2>1. CASE \E i \in Rows : Responded(i)
    <3>1. PICK i \in Rows : responses' = responses \cup {[i |-> i, run |-> collects]}
      BY <2>1 DEF Responded
    <3>2. IsFiniteSet(responses')
      BY <3>1, FS_AddElement DEF Accounts
    <3>4. Indices(responses) \subseteq Indices(responses')
      BY <3>1 DEF Indices
    <3>3. [i |-> i, run |-> collects] \in Record
      BY DEF TypeOK, Record
    <3> QED
      BY <3>1, <3>2, <3>3, <3>4 DEF TypeOK
  <2>2. CASE responses' = responses
    BY <2>2 DEF Accounts, TypeOK, Indices
  <2>3. CollectFresh \/ CollectResume \/ KillCollector \/ (\E i \in Rows : RowFailed(i)) => responses' = responses
    BY DEF CollectFresh, CollectResume, Collecting, KillCollector, RowFailed
  <2> QED
    BY <2>1, <2>2, <2>3
<1>3. Accounts'
  BY <1>1, <1>2 DEF Accounts, SummaryAccounts, Indices
<1>4. /\ errors' \subseteq Record /\ cTorn' \in BOOLEAN /\ failFast' \in BOOLEAN
      /\ cState' \in {"off", "running"} /\ cPending' \subseteq Rows /\ collects' \in Nat
      /\ (cState' = "off") = (cPending' = {})
  BY DEF CollectFresh, CollectResume, Collecting, KillCollector, Responded, RowFailed, TypeOK, Record
<1>5. TypeOK'
  BY <1>1, <1>2, <1>4 DEF TypeOK
<1> QED
  BY <1>3, <1>5

\* A judge that starts has seen all rows with a response; those it leaves out
\* have a score, or the errors that exhausted them.
LEMMA StartAccounts ==
  ASSUME IInv, TypeOK, Accounts, NEW resume \in BOOLEAN, JudgeStart(resume)
  PROVE  TypeOK' /\ Accounts'
<1> DEFINE missing == Candidates \ CompletedRows(resume)
<1>1. /\ UNCHANGED <<engine, other, collector, scores, judgeErrors, jTorn, asked, kills>>
      /\ seen' = Candidates /\ judges' = judges + 1
      /\ exhausted' = Exhausted(resume, missing) /\ jPending' = missing \ exhausted'
      /\ IF jPending' = {}
         THEN jState' = "off" /\ summary' = SummaryOf(scores, judgeErrors, judges + 1)
         ELSE jState' = "running" /\ UNCHANGED summary
  BY DEF JudgeStart
<1>2. /\ Candidates \subseteq Indices(responses) /\ (engine = "singleaxis" => Candidates = Indices(responses))
      /\ Indices(responses) \subseteq Rows
  BY DEF Candidates, Indices, TypeOK, Record
<1>3. exhausted' \subseteq Candidates /\ jPending' \subseteq Candidates
  BY <1>1 DEF Exhausted
<1>4. exhausted' \subseteq Indices(judgeErrors)
  <2> SUFFICES ASSUME NEW i \in exhausted', i \notin Indices(judgeErrors) PROVE FALSE
    OBVIOUS
  <2>1. PriorAttempts(i) >= Cap
    BY <1>1 DEF Exhausted
  <2>2. {l \in judgeErrors : l.i = i} = {}
    BY DEF Indices
  <2>3. PriorAttempts(i) = 0
    BY <2>2, FS_EmptySet, AttemptsAssumption DEF PriorAttempts
  <2> QED
    BY <2>1, <2>3, AttemptsAssumption
<1>5. Candidates \subseteq Indices(scores) \cup Indices(judgeErrors) \cup jPending'
  <2>1. CompletedRows(resume) \subseteq Indices(scores)
    BY DEF CompletedRows
  <2> QED
    BY <1>1, <1>4, <2>1
<1>6. engine = "singleaxis" => Indices(scores) \cup Indices(judgeErrors) \subseteq Candidates
  BY <1>2 DEF Accounts
<1>7. judges \in Nat /\ judges + 1 \in Nat /\ summary.run \in Nat
  BY DEF TypeOK
<1>8. /\ summary' \in [done : Int, failed : Int, run : Nat] /\ summary'.run <= judges'
      /\ jState' = "running" => summary'.run < judges'
      /\ summary'.run = judges' => IF engine = "singleaxis"
                                  THEN summary'.done + summary'.failed = Cardinality(seen')
                                  ELSE summary'.done + summary'.failed >= Cardinality(seen')
  <2>1. CASE jPending' = {}
    <3>1. IsFiniteSet(scores) /\ IsFiniteSet(judgeErrors)
      BY DEF Accounts, IInv, ErrorOnce
    <3>2. summary' = SummaryOf(scores, judgeErrors, judges + 1) /\ jState' = "off"
      BY <1>1, <2>1
    <3> DEFINE s == SummaryOf(scores, judgeErrors, judges + 1)
    <3>3. Candidates \subseteq Indices(scores) \cup Indices(judgeErrors)
      BY <1>5, <2>1
    <3>4. /\ s \in [done : Int, failed : Int, run : Nat] /\ s.run = judges + 1
          /\ engine = "singleaxis" => s.done + s.failed = Cardinality(Candidates)
          /\ engine # "singleaxis" => s.done + s.failed >= Cardinality(Candidates)
      BY <1>6, <1>7, <3>1, <3>3, SummaryIs
    <3>5. summary' = s
      BY <3>2
    <3> HIDE DEF s
    <3> QED
      BY <1>1, <1>7, <3>2, <3>4, <3>5
  <2>2. CASE jPending' # {}
    <3>1. summary' = summary
      BY <1>1, <2>2
    <3> QED
      BY <1>1, <1>7, <3>1 DEF TypeOK, Accounts
  <2> QED
    BY <2>1, <2>2
<1>9. Accounts'
  <2>1. UNCHANGED <<responses, scores, judgeErrors, engine>> /\ seen' = Candidates
    BY <1>1 DEF collector
  <2>2. SummaryAccounts'
    BY <1>8, <2>1 DEF SummaryAccounts
  <2> QED
    BY <1>2, <1>5, <1>6, <1>8, <2>1, <2>2 DEF Accounts, Indices
<1>10. TypeOK'
  <2>1. resumedOnly' \in BOOLEAN
    BY DEF JudgeStart, TypeOK
  <2>2. jState' \in {"off", "running"} /\ (jState' = "off") = (jPending' = {})
    BY <1>1
  <2> QED
    BY <1>1, <1>2, <1>3, <1>7, <1>8, <2>1, <2>2 DEF TypeOK, collector
<1> QED
  BY <1>9, <1>10

\* The end of a judged row, scored or failed: the last one is followed by the
\* summary.
LEMMA RowEnds ==
  ASSUME IInv, TypeOK, Accounts, NEW i \in jPending, jState = "running",
         UNCHANGED <<engine, other, collector, jTorn, seen, exhausted, judges, kills, resumedOnly>>,
         jPending' = jPending \ {i}, asked' \in [Rows -> Nat],
         scores' \subseteq Record, judgeErrors' \subseteq Record,
         IsFiniteSet(scores'), IsFiniteSet(judgeErrors'),
         Indices(scores') \cup Indices(judgeErrors') = Indices(scores) \cup Indices(judgeErrors) \cup {i},
         IF LastTask
         THEN jState' = "off" /\ summary' = SummaryOf(scores', judgeErrors', judges)
         ELSE UNCHANGED <<jState, summary>>
  PROVE  TypeOK' /\ Accounts'
<1>1. /\ engine' = engine /\ seen' = seen /\ judges' = judges /\ judges \in Nat /\ responses' = responses
      /\ seen \subseteq Indices(responses) /\ i \in seen /\ summary.run \in Nat
  BY DEF TypeOK, Accounts, collector
<1>2. seen \subseteq Indices(scores') \cup Indices(judgeErrors') \cup jPending'
  BY DEF Accounts
<1>3. engine = "singleaxis" => Indices(scores') \cup Indices(judgeErrors') \subseteq seen
  BY <1>1 DEF Accounts
<1>4. Indices(scores') \cup Indices(judgeErrors') \subseteq Indices(responses)
  BY <1>1 DEF Accounts
<1>5. /\ summary' \in [done : Int, failed : Int, run : Nat] /\ summary'.run <= judges
      /\ jState' = "running" => summary'.run < judges
      /\ summary'.run = judges => IF engine = "singleaxis"
                                 THEN summary'.done + summary'.failed = Cardinality(seen)
                                 ELSE summary'.done + summary'.failed >= Cardinality(seen)
      /\ jState' \in {"off", "running"} /\ (jState' = "off") = (jPending' = {})
  <2>1. CASE jPending' = {}
    <3> DEFINE s == SummaryOf(scores', judgeErrors', judges)
    <3>1. summary' = s /\ jState' = "off"
      BY <2>1 DEF LastTask
    <3>2. seen \subseteq Indices(scores') \cup Indices(judgeErrors')
      BY <1>2, <2>1
    <3>3. /\ s \in [done : Int, failed : Int, run : Nat] /\ s.run = judges
          /\ engine = "singleaxis" => s.done + s.failed = Cardinality(seen)
          /\ engine # "singleaxis" => s.done + s.failed >= Cardinality(seen)
      <4>1. \A d, f : /\ IsFiniteSet(d) /\ IsFiniteSet(f)
                      /\ seen \subseteq Indices(d) \cup Indices(f)
                      /\ engine = "singleaxis" => Indices(d) \cup Indices(f) \subseteq seen
                      => LET t == SummaryOf(d, f, judges) IN
                         /\ t \in [done : Int, failed : Int, run : Nat] /\ t.run = judges
                         /\ engine = "singleaxis" => t.done + t.failed = Cardinality(seen)
                         /\ engine # "singleaxis" => t.done + t.failed >= Cardinality(seen)
        BY <1>1, SummaryIs
      <4> QED
        BY <1>3, <3>2, <4>1
    <3> HIDE DEF s
    <3> QED
      BY <1>1, <2>1, <3>1, <3>3
  <2>2. CASE jPending' # {}
    <3>1. UNCHANGED <<jState, summary>>
      BY <2>2 DEF LastTask
    <3>2. summary.run < judges /\ summary \in [done : Int, failed : Int, run : Nat]
      BY DEF Accounts, TypeOK
    <3> QED
      BY <1>1, <2>2, <3>1, <3>2
  <2> QED
    BY <2>1, <2>2
<1>6. SummaryAccounts'
  BY <1>1, <1>5 DEF SummaryAccounts
<1>7. Accounts'
  BY <1>1, <1>2, <1>3, <1>4, <1>5, <1>6 DEF Accounts, Indices
<1>8. TypeOK'
  BY <1>1, <1>5 DEF TypeOK, collector
<1> QED
  BY <1>7, <1>8

LEMMA JudgeAccounts ==
  ASSUME IInv, TypeOK, Accounts, NEW i \in Rows, Judged(i) \/ JudgeFailed(i)
  PROVE  TypeOK' /\ Accounts'
<1> DEFINE r == [i |-> i, run |-> judges]
<1>1. /\ i \in jPending /\ jState = "running" /\ jPending' = jPending \ {i}
      /\ UNCHANGED <<engine, other, collector, jTorn, seen, exhausted, judges, kills, resumedOnly>>
      /\ IF LastTask
         THEN jState' = "off" /\ summary' = SummaryOf(scores', judgeErrors', judges)
         ELSE UNCHANGED <<jState, summary>>
  BY DEF Judged, JudgeFailed
<1>2. asked' \in [Rows -> Nat]
  <2>1. PICK c \in Outcomes : asked' = [asked EXCEPT ![i] = @ + c.n]
    BY DEF Judged, JudgeFailed
  <2> QED
    BY <2>1, OutcomesTyped DEF TypeOK
<1>3. r \in Record /\ IsFiniteSet(scores) /\ IsFiniteSet(judgeErrors)
  BY DEF Record, TypeOK, Accounts, IInv, ErrorOnce
<1>4. CASE Judged(i)
  <2>1. scores' = scores \cup {r} /\ judgeErrors' = judgeErrors
    BY <1>4 DEF Judged
  <2>2. Indices(scores \cup {r}) = Indices(scores) \cup {i}
    BY OneMore
  <2>3. IsFiniteSet(scores') /\ scores' \subseteq Record
    BY <1>3, <2>1, FS_AddElement DEF TypeOK
  <2> HIDE DEF r
  <2>4. Indices(scores') \cup Indices(judgeErrors') = Indices(scores) \cup Indices(judgeErrors) \cup {i}
    BY <2>1, <2>2
  <2>5. IsFiniteSet(judgeErrors') /\ judgeErrors' \subseteq Record
    BY <1>3, <2>1 DEF TypeOK
  <2> QED
    BY <1>1, <1>2, <2>3, <2>4, <2>5, RowEnds
<1>5. CASE JudgeFailed(i)
  <2>1. judgeErrors' = judgeErrors \cup {r} /\ scores' = scores
    BY <1>5 DEF JudgeFailed
  <2>2. Indices(judgeErrors \cup {r}) = Indices(judgeErrors) \cup {i}
    BY OneMore
  <2>3. IsFiniteSet(judgeErrors') /\ judgeErrors' \subseteq Record
    BY <1>3, <2>1, FS_AddElement DEF TypeOK
  <2> HIDE DEF r
  <2>4. Indices(scores') \cup Indices(judgeErrors') = Indices(scores) \cup Indices(judgeErrors) \cup {i}
    BY <2>1, <2>2
  <2>5. IsFiniteSet(scores') /\ scores' \subseteq Record
    BY <1>3, <2>1 DEF TypeOK
  <2> QED
    BY <1>1, <1>2, <2>3, <2>4, <2>5, RowEnds
<1> QED
  BY <1>4, <1>5

\* A killed judge leaves the summary of an earlier run, one that cannot read
\* its input counts as a run.
LEMMA QuietAccounts ==
  ASSUME TypeOK, Accounts, JudgeCannotRead \/ KillJudge \/ UNCHANGED vars
  PROVE  TypeOK' /\ Accounts'
<1>1. /\ UNCHANGED <<engine, other, collector, scores, judgeErrors, seen, exhausted, summary, resumedOnly>>
      /\ judges' = judges \/ (judges' = judges + 1 /\ jState' = "off")
      /\ jState' = "off" \/ UNCHANGED <<jState, jPending, judges>>
      /\ jPending' \subseteq jPending
      /\ jState = "off" \/ judges' = judges
  BY DEF JudgeCannotRead, KillJudge, vars, collector, judge
<1>2. /\ jTorn' \in BOOLEAN /\ (jState' = "off") = (jPending' = {}) /\ jState' \in {"off", "running"}
  BY DEF JudgeCannotRead, KillJudge, vars, judge, TypeOK
<1>3. judges \in Nat /\ summary.run \in Nat /\ judges' \in Nat
  BY <1>1 DEF TypeOK
<1>7. asked' \in [Rows -> Nat] /\ kills' \in [Rows -> Nat]
  <2>1. CASE KillJudge
    BY <2>1, KillTyped DEF TypeOK
  <2>2. CASE UNCHANGED <<asked, kills>>
    BY <2>2 DEF TypeOK
  <2> QED
    BY <2>1, <2>2 DEF JudgeCannotRead, vars, judge
<1>4. TypeOK'
  BY <1>1, <1>2, <1>3, <1>7 DEF TypeOK, collector
<1>5. SummaryAccounts'
  BY <1>1, <1>3 DEF SummaryAccounts, Accounts
<1>6. Accounts'
  <2>1. UNCHANGED <<responses, scores, judgeErrors, engine, seen, summary>>
    BY <1>1 DEF collector
  <2>2. jState' = "running" => jState = "running" /\ jPending' = jPending /\ judges' = judges
    BY <1>1
  <2>3. summary'.run <= judges' /\ (jState' = "running" => summary'.run < judges')
    BY <1>1, <1>3, <2>1, <2>2 DEF Accounts
  <2>4. jState' = "running" => seen' \subseteq Indices(scores') \cup Indices(judgeErrors') \cup jPending'
    BY <2>1, <2>2 DEF Accounts
  <2> QED
    BY <1>5, <2>1, <2>3, <2>4 DEF Accounts, Indices
<1> QED
  BY <1>4, <1>6

LEMMA AccountsAlways == Spec => [](TypeOK /\ Accounts)
<1>1. IInv /\ (TypeOK /\ Accounts) /\ [Next]_vars => (TypeOK /\ Accounts)'
  BY CollectorAccounts, StartAccounts, JudgeAccounts, QuietAccounts DEF Next
<1> QED
  BY <1>1, AccountsInit, Inductive, PTL DEF Spec

\* The state variables have their types in every behaviour, for any rows,
\* finitely many or not.
THEOREM TypeCorrect == Spec => []TypeOK
BY AccountsAlways, PTL

\* The summary of a run accounts for every row the run saw, whatever earlier
\* runs left in the two files.
THEOREM SummaryAlwaysAccounts == Spec => []SummaryAccounts
<1>1. Accounts => SummaryAccounts
  BY DEF Accounts
<1> QED
  BY <1>1, AccountsAlways, PTL

-----------------------------------------------------------------------------
(* What is published is never behind what names it, and the waves of the   *)
(* matrix keep their order and their job map.                              *)

Job == [wave : WaveSet, run : Nat, status : {"active", "ended"}]

\* A program is only ever at its own places.
Control ==
    /\ program \in Programs /\ runs \in Nat /\ option \in BOOLEAN
    /\ pc \in {"off", "done", "create_repo", "push", "entity", "create", "patch", "delete", "recreate",
               "submit", "poll", "batch", "log", "total"}
    /\ pc \in {"create_repo", "push", "entity"} => program = "dataset"
    /\ pc \in {"create", "patch", "delete", "recreate"} => program = "target"
    /\ pc \in {"submit", "poll"} => program = "matrix"
    /\ pc \in {"batch", "log", "total"} => program = "saved"

\* The entry is written once the repository is at the present version.
PublishInv ==
    /\ source \in Nat \ {0} /\ repo \in Nat /\ entity \in Nat /\ target \in Nat
    /\ entity <= repo /\ repo <= source
    /\ pc = "entity" => repo = source
    /\ Published

MatrixTyped ==
    /\ jobs \in Seq(Job) /\ wave \in WaveSet
    /\ ids \subseteq DOMAIN jobs /\ waiting \subseteq ids
    /\ failing \in [waiting -> 0..MaxErrors]
    /\ jobMap \in [WaveSet -> SUBSET DOMAIN jobs]

\* The ids in hand are the jobs of the present wave of the present run; those of
\* its earlier waves have ended if it polls, and so have those it waits for no
\* longer.
WavesInv ==
    /\ pc # "poll" => waiting = {}
    /\ pc \notin {"submit", "poll"} => ids = {}
    /\ \A j \in DOMAIN jobs : jobs[j].run <= runs
    /\ \A j \in ids : jobs[j].wave = wave /\ jobs[j].run = runs
    /\ pc \in {"submit", "poll"} => \A j \in DOMAIN jobs : jobs[j].run = runs =>
          /\ jobs[j].wave <= wave
          /\ jobs[j].wave = wave => j \in ids
          /\ ~option /\ jobs[j].wave < wave => jobs[j].status = "ended"
    /\ pc = "poll" => ~option /\ \A j \in ids \ waiting : jobs[j].status = "ended"

BatchSummary == [status : {"none", "completed", "failed", "torn"}, upto : Nat, run : Nat]
TargetSummary == [status : {"none", "completed", "partial", "torn"}, read : Nat, run : Nat]

SavedTyped ==
    /\ length \in Nat /\ evaluable \in Nat /\ loaded \in Nat /\ batch \in Nat
    /\ summaries \in [0..LastBatch -> BatchSummary]
    /\ total \in TargetSummary

MatrixInv == MatrixTyped /\ WavesInv /\ WavesInOrder /\ JobMapWhole
NemoInv == Control /\ PublishInv /\ MatrixInv /\ SavedTyped

LEMMA JobTyped ==
  ASSUME MatrixTyped
  PROVE  /\ wave \in Nat
         /\ \A j \in DOMAIN jobs : /\ jobs[j] \in Job
                                   /\ jobs[j].wave \in Nat /\ jobs[j].run \in Nat
<1>1. jobs \in [1..Len(jobs) -> Job] /\ DOMAIN jobs = 1..Len(jobs)
  BY DEF MatrixTyped
<1>2. \A j \in DOMAIN jobs : jobs[j] \in Job
  BY <1>1
<1>3. \A job \in Job : job.wave \in Nat /\ job.run \in Nat
  BY BoundAssumption DEF Job, WaveSet
<1> QED
  BY <1>2, <1>3, BoundAssumption DEF MatrixTyped, WaveSet

LEMMA NemoInitInv == NemoInit => NemoInv
<1> SUFFICES ASSUME NemoInit PROVE NemoInv
  OBVIOUS
<1>1. Control /\ PublishInv
  <2>1. Control
    BY DEF NemoInit, Control, Programs
  <2>2. PublishInv
    BY DEF NemoInit, PublishInv, Published
  <2> QED
    BY <2>1, <2>2
<1>2. MatrixTyped
  <2>1. jobs \in Seq(Job) /\ DOMAIN jobs = {} /\ 1 \in WaveSet
    BY BoundAssumption DEF NemoInit, WaveSet
  <2>2. failing \in [{} -> 0..MaxErrors]
    BY DEF NemoInit
  <2> QED
    BY <2>1, <2>2 DEF NemoInit, MatrixTyped
<1>3. WavesInv /\ WavesInOrder /\ JobMapWhole
  BY DEF NemoInit, WavesInv, WavesInOrder, JobMapWhole
<1>4. SavedTyped
  BY DEF NemoInit, SavedTyped, NoBatchSummary, NoTotal, BatchSummary, TargetSummary
<1> QED
  BY <1>1, <1>2, <1>3, <1>4 DEF NemoInv, MatrixInv

---------------------------------------------------------------------------

LEMMA ControlKept == Control /\ [NemoNext]_nemoVars => Control'
<1> SUFFICES ASSUME Control, [NemoNext]_nemoVars PROVE Control'
  OBVIOUS
<1> USE DEF Control, Start, Goto, Programs
<1>1. CASE Stop \/ Rebuild
  BY <1>1 DEF Stop, Rebuild
<1>2. CASE RegisterStart \/ CreateRepo \/ Push \/ RegisterEntity
  BY <1>2 DEF RegisterStart, CreateRepo, Push, AfterPush, RegisterEntity
<1>3. CASE EntitiesStart \/ Create \/ Patch \/ PatchUnsupported \/ Delete \/ Recreate
  BY <1>3 DEF EntitiesStart, Create, OnConflict, Patch, PatchUnsupported, Delete, Recreate
<1>4. CASE MatrixStart \/ SubmitJob \/ WriteJobMap \/ WaveComplete \/ JobEnds
  BY <1>4 DEF MatrixStart, SubmitJob, WriteJobMap, NextWave, WaveComplete, JobEnds
<1>5. ASSUME NEW j \in waiting, Poll(j) \/ PollError(j) PROVE Control'
  BY <1>5 DEF Poll, PollError
<1>6. CASE Grow \/ SavedStart \/ SkipBatch \/ BatchJudged \/ BatchLogged \/ WriteTotal \/ KillInWrite
  BY <1>6 DEF Grow, SavedStart, SkipBatch, BatchJudged, BatchLogged, WriteTotal, KillInWrite, Submits,
    AfterBatch
<1>7. CASE UNCHANGED nemoVars
  BY <1>7 DEF nemoVars
<1> QED
  BY <1>1, <1>2, <1>3, <1>4, <1>5, <1>6, <1>7 DEF NemoNext

\* Only the two registrations touch what is published.
LEMMA PublishKept == Control /\ PublishInv /\ [NemoNext]_nemoVars => PublishInv'
<1> SUFFICES ASSUME Control, PublishInv, [NemoNext]_nemoVars PROVE PublishInv'
  OBVIOUS
<1> USE DEF Control, PublishInv, Published, Start, Goto, publish
<1>1. CASE Stop
  BY <1>1 DEF Stop
<1>2. CASE Rebuild
  BY <1>2 DEF Rebuild
<1>3. CASE RegisterStart \/ CreateRepo \/ Push \/ RegisterEntity
  BY <1>3 DEF RegisterStart, CreateRepo, Push, AfterPush, RegisterEntity
<1>4. CASE EntitiesStart \/ Create \/ Patch \/ PatchUnsupported \/ Delete \/ Recreate
  BY <1>4 DEF EntitiesStart, Create, OnConflict, Patch, PatchUnsupported, Delete, Recreate
<1>5. CASE MatrixStart \/ SubmitJob \/ WriteJobMap \/ WaveComplete \/ JobEnds
  BY <1>5 DEF MatrixStart, SubmitJob, WriteJobMap, NextWave, WaveComplete, JobEnds
<1>6. ASSUME NEW j \in waiting, Poll(j) \/ PollError(j) PROVE PublishInv'
  BY <1>6 DEF Poll, PollError
<1>7. CASE Grow \/ SavedStart \/ SkipBatch \/ BatchJudged \/ BatchLogged \/ WriteTotal \/ KillInWrite
  BY <1>7 DEF Grow, SavedStart, SkipBatch, BatchJudged, BatchLogged, WriteTotal, KillInWrite, Submits,
    AfterBatch
<1>8. CASE UNCHANGED nemoVars
  BY <1>8 DEF nemoVars
<1> QED
  BY <1>1, <1>2, <1>3, <1>4, <1>5, <1>6, <1>7, <1>8 DEF NemoNext

LEMMA SavedKept == Control /\ SavedTyped /\ [NemoNext]_nemoVars => SavedTyped'
<1> SUFFICES ASSUME Control, SavedTyped, [NemoNext]_nemoVars PROVE SavedTyped'
  OBVIOUS
<1>0. runs \in Nat
  BY DEF Control
<1> USE DEF SavedTyped, saved
<1>1. CASE Stop \/ Rebuild
  BY <1>1 DEF Stop, Rebuild
<1>2. CASE RegisterStart \/ CreateRepo \/ Push \/ RegisterEntity
  BY <1>2 DEF RegisterStart, CreateRepo, Push, RegisterEntity
<1>3. CASE EntitiesStart \/ Create \/ Patch \/ PatchUnsupported \/ Delete \/ Recreate
  BY <1>3 DEF EntitiesStart, Create, Patch, PatchUnsupported, Delete, Recreate
<1>4. CASE MatrixStart \/ SubmitJob \/ WriteJobMap \/ WaveComplete \/ JobEnds
  BY <1>4 DEF MatrixStart, SubmitJob, WriteJobMap, WaveComplete, JobEnds
<1>5. ASSUME NEW j \in waiting, Poll(j) \/ PollError(j) PROVE SavedTyped'
  BY <1>5 DEF Poll, PollError
<1>6. CASE Grow
  BY <1>6 DEF Grow
<1>7. CASE SavedStart
  BY <1>7 DEF EvalRows, SavedStart
<1>8. CASE SkipBatch \/ BatchLogged
  BY <1>8 DEF SkipBatch, BatchLogged, AfterBatch
<1>10. CASE BatchJudged
  <2>1. PICK status \in {"completed", "failed"} : summaries' = [summaries EXCEPT ![batch] = Summary(status)]
    BY <1>10 DEF BatchJudged
  <2>2. Summary(status) \in BatchSummary
    BY <1>0 DEF Summary, BatchSummary
  <2>3. summaries' \in [0..LastBatch -> BatchSummary]
    BY <2>1, <2>2
  <2> QED
    BY <1>10, <2>3 DEF BatchJudged
<1>11. CASE WriteTotal
  <2>1. total' \in TargetSummary
    BY <1>11, <1>0 DEF WriteTotal, Status, TargetSummary
  <2> QED
    BY <1>11, <2>1 DEF WriteTotal
<1>12. CASE KillInWrite
  <2>1. Summary("torn") \in BatchSummary /\ [status |-> "torn", read |-> loaded, run |-> runs] \in TargetSummary
    BY <1>0 DEF Summary, BatchSummary, TargetSummary
  <2>2. summaries' \in [0..LastBatch -> BatchSummary] /\ total' \in TargetSummary
    BY <1>12, <2>1 DEF KillInWrite
  <2> QED
    BY <1>12, <2>2 DEF KillInWrite
<1>9. CASE UNCHANGED nemoVars
  BY <1>9 DEF nemoVars
<1> QED
  BY <1>1, <1>2, <1>3, <1>4, <1>5, <1>6, <1>7, <1>8, <1>9, <1>10, <1>11, <1>12 DEF NemoNext

---------------------------------------------------------------------------

\* A step of another program, or that leaves the jobs alone and holds none.
LEMMA ElsewhereKeeps ==
  ASSUME MatrixInv, UNCHANGED <<jobs, wave, jobMap>>, pc' \notin {"submit", "poll"}, runs \in Nat,
         \/ UNCHANGED <<runs, option>>
         \/ runs' = runs + 1 /\ pc \in {"off", "done"},
         \/ UNCHANGED <<ids, waiting, failing>> /\ pc \notin {"submit", "poll"}
         \/ ids' = {} /\ waiting' = {} /\ failing' = <<>>
         \/ ids' = {} /\ UNCHANGED <<waiting, failing>> /\ waiting = {}
  PROVE  MatrixInv'
<1> USE DEF MatrixInv
<1>1. ids' = {} /\ waiting' = {}
  BY DEF WavesInv
<1>2. failing' \in [waiting' -> 0..MaxErrors]
  <2>1. CASE failing' = <<>>
    <3>1. <<>> \in [{} -> 0..MaxErrors]
      OBVIOUS
    <3> QED
      BY <1>1, <2>1, <3>1
  <2>2. CASE failing' = failing /\ waiting' = waiting
    BY <2>2 DEF MatrixTyped
  <2> QED
    BY <2>1, <2>2
<1>3. MatrixTyped'
  BY <1>1, <1>2 DEF MatrixTyped
<1>4. \A j \in DOMAIN jobs : jobs[j].run \in Nat /\ jobs[j].run <= runs
  BY JobTyped DEF WavesInv
<1>5. \A j \in DOMAIN jobs : jobs[j].run <= runs'
  BY <1>4
<1>6. WavesInv'
  BY <1>1, <1>5 DEF WavesInv
<1>7. WavesInOrder'
  <2>1. CASE UNCHANGED <<runs, option>>
    BY <2>1 DEF WavesInOrder
  <2>2. CASE runs' = runs + 1
    <3>1. \A j \in DOMAIN jobs : jobs[j].run # runs'
      BY <1>4, <2>2
    <3> QED
      BY <3>1 DEF WavesInOrder
  <2> QED
    BY <2>1, <2>2
<1>8. JobMapWhole'
  BY DEF JobMapWhole
<1> QED
  BY <1>3, <1>6, <1>7, <1>8

LEMMA MatrixStartKeeps ==
  ASSUME Control, MatrixInv, MatrixStart
  PROVE  MatrixInv'
<1> USE DEF MatrixInv
<1>1. /\ runs' = runs + 1 /\ runs \in Nat /\ pc \in {"off", "done"} /\ pc' = "submit"
      /\ wave' = 1 /\ ids' = {} /\ UNCHANGED <<jobs, waiting, failing, jobMap>>
  BY DEF MatrixStart, Start, Control
<1>2. waiting = {}
  BY <1>1 DEF WavesInv
<1>3. MatrixTyped'
  BY <1>1, <1>2, BoundAssumption DEF MatrixTyped, WaveSet
<1>4. \A j \in DOMAIN jobs : jobs[j].run <= runs' /\ jobs[j].run # runs'
  <2>1. \A j \in DOMAIN jobs : jobs[j].run \in Nat /\ jobs[j].run <= runs
    BY JobTyped DEF WavesInv
  <2> QED
    BY <1>1, <2>1
<1>5. WavesInv' /\ WavesInOrder'
  BY <1>1, <1>2, <1>4 DEF WavesInv, WavesInOrder
<1>6. JobMapWhole'
  BY <1>1 DEF JobMapWhole
<1> QED
  BY <1>3, <1>5, <1>6

LEMMA SubmitJobKeeps ==
  ASSUME Control, MatrixInv, SubmitJob
  PROVE  MatrixInv'
<1> USE DEF MatrixInv
<1> DEFINE job == [wave |-> wave, run |-> runs, status |-> "active"]
           n == Len(jobs) + 1
<1>1. /\ pc = "submit" /\ jobs' = Append(jobs, job) /\ ids' = ids \cup {Len(jobs')}
      /\ UNCHANGED <<pc, runs, option, wave, waiting, failing, jobMap>>
  BY DEF SubmitJob
<1>2. job \in Job /\ jobs \in Seq(Job) /\ runs \in Nat
  BY DEF MatrixTyped, Control, Job
<1>3. /\ jobs' \in Seq(Job) /\ Len(jobs') = n /\ n \in Nat /\ jobs'[n] = job
      /\ DOMAIN jobs = 1..Len(jobs) /\ DOMAIN jobs' = DOMAIN jobs \cup {n} /\ n \notin DOMAIN jobs
      /\ \A j \in DOMAIN jobs : jobs'[j] = jobs[j]
  BY <1>1, <1>2, AppendProperties
<1> HIDE DEF n, job
<1>4. ids' = ids \cup {n}
  BY <1>1, <1>3
<1>5. MatrixTyped'
  BY <1>1, <1>3, <1>4 DEF MatrixTyped
<1>6. job.wave = wave /\ job.run = runs
  BY DEF job
<1>7. WavesInv'
  <2>1. \A j \in DOMAIN jobs' : jobs'[j].run <= runs
    BY <1>2, <1>3, <1>6 DEF WavesInv
  <2>2. \A j \in ids' : jobs'[j].wave = wave /\ jobs'[j].run = runs
    BY <1>3, <1>4, <1>6 DEF WavesInv, MatrixTyped
  <2>3. \A j \in DOMAIN jobs' : jobs'[j].run = runs =>
          /\ jobs'[j].wave <= wave
          /\ jobs'[j].wave = wave => j \in ids'
          /\ ~option /\ jobs'[j].wave < wave => jobs'[j].status = "ended"
    <3>1. wave <= wave /\ ~(wave < wave)
      BY DEF MatrixTyped, WaveSet
    <3> QED
      BY <1>1, <1>3, <1>4, <1>6, <3>1 DEF WavesInv
  <2> QED
    BY <1>1, <2>1, <2>2, <2>3 DEF WavesInv
<1>8. WavesInOrder'
  <2> SUFFICES ASSUME ~option, NEW j \in DOMAIN jobs', NEW k \in DOMAIN jobs',
                      jobs'[j].run = runs, jobs'[k].run = runs, jobs'[j].wave < jobs'[k].wave
               PROVE  jobs'[j].status = "ended"
    BY <1>1 DEF WavesInOrder
  <2>1. \A i \in DOMAIN jobs : jobs[i].run = runs => jobs[i].wave <= wave /\ jobs[i].wave \in Nat
    BY <1>1, JobTyped DEF WavesInv
  <2>2. wave \in Nat
    BY DEF MatrixTyped, WaveSet
  <2>3. j # n
    BY <1>3, <1>6, <2>1, <2>2
  <2>4. CASE k = n
    BY <1>1, <1>3, <1>6, <2>3, <2>4 DEF WavesInv
  <2>5. CASE k # n
    BY <1>3, <2>3, <2>5 DEF WavesInOrder
  <2> QED
    BY <2>4, <2>5
<1>9. JobMapWhole'
  BY <1>1, <1>3 DEF JobMapWhole, MatrixTyped
<1> QED
  BY <1>5, <1>7, <1>8, <1>9

\* The next wave begins, or the program is done, with no job in hand: when it
\* polls, all its jobs have ended.
LEMMA NextWaveKeeps ==
  ASSUME Control, MatrixTyped', WavesInv, WavesInOrder, JobMapWhole', MatrixTyped,
         NextWave, pc \in {"submit", "poll"}, UNCHANGED <<jobs, waiting>>, waiting = {},
         ~option => pc = "poll"
  PROVE  MatrixInv'
<1> USE DEF MatrixInv, Goto
<1>1. UNCHANGED <<runs, option>> /\ ids' = {}
  BY DEF NextWave
<1>2. WavesInOrder'
  BY <1>1 DEF WavesInOrder
<1>3. WavesInv'
  <2>1. CASE pc' = "done"
    BY <1>1, <2>1 DEF WavesInv
  <2>2. CASE pc' = "submit" /\ wave' = wave + 1
    <3>1. \A j \in DOMAIN jobs : jobs[j].run = runs => jobs[j].wave < wave'
      <4>1. \A j \in DOMAIN jobs : jobs[j].wave \in Nat
        BY JobTyped
      <4>2. wave \in Nat
        BY JobTyped
      <4> QED
        BY <2>2, <4>1, <4>2 DEF WavesInv
    <3>2. \A j \in DOMAIN jobs : ~option /\ jobs[j].run = runs => jobs[j].status = "ended"
      <4> SUFFICES ASSUME NEW j \in DOMAIN jobs, ~option, jobs[j].run = runs
                   PROVE  jobs[j].status = "ended"
        OBVIOUS
      <4>1. CASE jobs[j].wave = wave
        BY <4>1 DEF WavesInv
      <4>2. CASE jobs[j].wave # wave
        <5>1. jobs[j].wave \in Nat /\ wave \in Nat /\ jobs[j].wave <= wave
          BY JobTyped DEF WavesInv
        <5> QED
          BY <4>2, <5>1 DEF WavesInv
      <4> QED
        BY <4>1, <4>2
    <3>3. \A j \in DOMAIN jobs : jobs[j].run = runs =>
            /\ jobs[j].wave <= wave' /\ jobs[j].wave # wave'
      <4>1. \A j \in DOMAIN jobs : jobs[j].wave \in Nat
        BY JobTyped
      <4>2. wave' \in Nat
        BY <2>2 DEF MatrixTyped, WaveSet
      <4> QED
        BY <3>1, <4>1, <4>2
    <3> QED
      BY <1>1, <2>2, <3>2, <3>3 DEF WavesInv
  <2> QED
    BY <2>1, <2>2 DEF NextWave
<1> QED
  BY <1>2, <1>3

LEMMA WriteJobMapKeeps ==
  ASSUME Control, MatrixInv, WriteJobMap
  PROVE  MatrixInv'
<1> USE DEF MatrixInv, Goto
<1>1. /\ pc = "submit" /\ Cardinality(ids) = WaveJobs /\ jobMap' = [jobMap EXCEPT ![wave] = ids]
      /\ jobs' = jobs /\ waiting = {}
  BY DEF WriteJobMap, MapWhen, WavesInv
<1>2. JobMapWhole'
  BY <1>1 DEF JobMapWhole, WavesInv, MatrixTyped
<1>3. jobMap' \in [WaveSet -> SUBSET DOMAIN jobs]
  BY <1>1 DEF MatrixTyped
<1>4. CASE option
  <2>1. NextWave /\ UNCHANGED <<waiting, failing>>
    BY <1>4 DEF WriteJobMap
  <2>2. wave' \in WaveSet
    BY <2>1, BoundAssumption DEF NextWave, MatrixTyped, WaveSet
  <2>3. MatrixTyped'
    BY <1>1, <1>3, <2>1, <2>2 DEF MatrixTyped, NextWave
  <2> QED
    BY <1>1, <1>2, <1>4, <2>1, <2>3, NextWaveKeeps
<1>5. CASE ~option
  <2>1. /\ waiting' = ids /\ failing' = [j \in ids |-> 0] /\ pc' = "poll"
        /\ UNCHANGED <<runs, option, wave, ids>>
    BY <1>5 DEF WriteJobMap
  <2>2. failing' \in [ids -> 0..MaxErrors]
    BY <2>1, BoundAssumption
  <2>3. MatrixTyped'
    BY <1>1, <1>3, <2>1, <2>2 DEF MatrixTyped
  <2>4. WavesInv'
    BY <1>1, <1>5, <2>1 DEF WavesInv
  <2>5. WavesInOrder'
    BY <1>1, <2>1 DEF WavesInOrder
  <2> QED
    BY <1>2, <2>3, <2>4, <2>5
<1> QED
  BY <1>4, <1>5

LEMMA PollKeeps ==
  ASSUME MatrixInv, NEW j \in waiting, Poll(j) \/ PollError(j)
  PROVE  MatrixInv'
<1> USE DEF MatrixInv
<1>1. UNCHANGED <<pc, runs, option, jobs, wave, ids, jobMap>> /\ pc = "poll"
  BY DEF Poll, PollError
<1>2. /\ waiting' \subseteq waiting /\ failing' \in [waiting' -> 0..MaxErrors]
      /\ \A i \in waiting \ waiting' : jobs[i].status = "ended"
  <2>1. CASE Poll(j) /\ Terminal(j)
    <3>1. waiting' = waiting \ {j} /\ failing' = [k \in waiting \ {j} |-> failing[k]] /\ jobs[j].status = "ended"
      BY <2>1 DEF Poll, Drop, Terminal
    <3> QED
      BY <3>1 DEF MatrixTyped
  <2>2. CASE Poll(j) /\ ~Terminal(j)
    <3>1. waiting' = waiting /\ failing' = [failing EXCEPT ![j] = 0]
      BY <2>2 DEF Poll
    <3> QED
      BY <3>1, BoundAssumption DEF MatrixTyped
  <2>3. CASE PollError(j)
    <3>1. waiting' = waiting /\ failing' = [failing EXCEPT ![j] = @ + 1] /\ failing[j] + 1 < MaxErrors
      BY <2>3 DEF PollError
    <3> QED
      BY <3>1, BoundAssumption DEF MatrixTyped
  <2> QED
    BY <2>1, <2>2, <2>3
<1>3. MatrixTyped'
  BY <1>1, <1>2 DEF MatrixTyped
<1>4. WavesInv'
  BY <1>1, <1>2 DEF WavesInv
<1>5. WavesInOrder' /\ JobMapWhole'
  BY <1>1 DEF WavesInOrder, JobMapWhole
<1> QED
  BY <1>3, <1>4, <1>5

LEMMA JobEndsKeeps ==
  ASSUME MatrixInv, JobEnds
  PROVE  MatrixInv'
<1> USE DEF MatrixInv
<1>1. PICK n \in DOMAIN jobs : jobs' = [jobs EXCEPT ![n].status = "ended"]
  BY DEF JobEnds
<1>2. UNCHANGED <<pc, runs, option, wave, ids, waiting, failing, jobMap>>
  BY DEF JobEnds
<1>3. /\ jobs' \in Seq(Job) /\ DOMAIN jobs' = DOMAIN jobs
      /\ \A j \in DOMAIN jobs : /\ jobs'[j].wave = jobs[j].wave /\ jobs'[j].run = jobs[j].run
                                /\ jobs[j].status = "ended" => jobs'[j].status = "ended"
  <2>1. jobs \in [1..Len(jobs) -> Job] /\ Len(jobs) \in Nat /\ DOMAIN jobs = 1..Len(jobs)
    BY DEF MatrixTyped
  <2>2. [jobs[n] EXCEPT !.status = "ended"] \in Job
    BY <2>1 DEF Job
  <2>3. jobs' = [jobs EXCEPT ![n] = [jobs[n] EXCEPT !.status = "ended"]]
    BY <1>1
  <2>4. jobs' \in [1..Len(jobs) -> Job]
    BY <2>1, <2>2, <2>3
  <2>5. jobs' \in Seq(Job)
    BY <2>1, <2>4, SeqDef
  <2>6. \A j \in DOMAIN jobs : jobs'[j] = IF j = n THEN [jobs[n] EXCEPT !.status = "ended"] ELSE jobs[j]
    BY <2>1, <2>3
  <2>7. \A j \in DOMAIN jobs : jobs[j] \in Job
    BY <2>1
  <2> QED
    BY <2>1, <2>4, <2>5, <2>6, <2>7 DEF Job
<1>4. MatrixTyped'
  BY <1>2, <1>3 DEF MatrixTyped
<1>5. WavesInv'
  BY <1>2, <1>3 DEF WavesInv, MatrixTyped
<1>6. WavesInOrder'
  BY <1>2, <1>3 DEF WavesInOrder
<1>7. JobMapWhole'
  <2>1. \A w \in WaveSet : jobMap[w] \subseteq DOMAIN jobs
    BY DEF MatrixTyped
  <2> QED
    BY <1>2, <1>3, <2>1 DEF JobMapWhole
<1> QED
  BY <1>4, <1>5, <1>6, <1>7

LEMMA MatrixKept == Control /\ MatrixInv /\ [NemoNext]_nemoVars => MatrixInv'
<1> SUFFICES ASSUME Control, MatrixInv, [NemoNext]_nemoVars PROVE MatrixInv'
  OBVIOUS
<1>0. runs \in Nat
  BY DEF Control
<1> USE DEF Start, Goto, matrix
<1>1. CASE Stop
  BY <1>0, <1>1, ElsewhereKeeps DEF Stop
<1>2. CASE Rebuild
  BY <1>0, <1>2, ElsewhereKeeps DEF Rebuild
<1>3. CASE RegisterStart \/ CreateRepo \/ Push \/ RegisterEntity
  BY <1>0, <1>3, ElsewhereKeeps DEF RegisterStart, CreateRepo, Push, AfterPush, RegisterEntity
<1>4. CASE EntitiesStart \/ Create \/ Patch \/ PatchUnsupported \/ Delete \/ Recreate
  BY <1>0, <1>4, ElsewhereKeeps DEF EntitiesStart, Create, OnConflict, Patch, PatchUnsupported, Delete, Recreate
<1>5. CASE WaveComplete
  <2>1. /\ NextWave /\ pc = "poll" /\ waiting = {} /\ UNCHANGED <<jobs, waiting, failing, jobMap>>
    BY <1>5 DEF WaveComplete
  <2>2. MatrixTyped'
    BY <2>1, BoundAssumption DEF NextWave, MatrixInv, MatrixTyped, WaveSet
  <2>3. JobMapWhole'
    BY <2>1 DEF MatrixInv, JobMapWhole
  <2> QED
    BY <2>1, <2>2, <2>3, NextWaveKeeps DEF MatrixInv
<1>6. CASE Grow
  <2>1. UNCHANGED <<pc, runs, option, jobs, wave, ids, waiting, failing, jobMap>>
    BY <1>6 DEF Grow
  <2> QED
    BY <2>1 DEF MatrixInv, MatrixTyped, WavesInv, WavesInOrder, JobMapWhole
<1>7. CASE SavedStart \/ SkipBatch \/ BatchJudged \/ BatchLogged \/ WriteTotal \/ KillInWrite
  <2>1. /\ UNCHANGED <<jobs, wave, ids, waiting, failing, jobMap>>
        /\ pc' \in {"batch", "log", "total", "done", "off"} /\ pc \notin {"submit", "poll"}
        /\ UNCHANGED <<runs, option>> \/ (runs' = runs + 1 /\ pc \in {"off", "done"})
    BY <1>7 DEF SavedStart, SkipBatch, BatchJudged, BatchLogged, WriteTotal, KillInWrite, Submits, AfterBatch
  <2> QED
    BY <1>0, <2>1, ElsewhereKeeps
<1>8. CASE UNCHANGED nemoVars
  BY <1>8 DEF nemoVars, MatrixInv, MatrixTyped, WavesInv, WavesInOrder, JobMapWhole
<1> QED
  BY <1>1, <1>2, <1>3, <1>4, <1>5, <1>6, <1>7, <1>8, MatrixStartKeeps, SubmitJobKeeps, WriteJobMapKeeps,
     PollKeeps, JobEndsKeeps DEF NemoNext

LEMMA NemoInductive == NemoSpec => []NemoInv
<1>1. NemoInv /\ [NemoNext]_nemoVars => NemoInv'
  BY ControlKept, PublishKept, MatrixKept, SavedKept DEF NemoInv
<1> QED
  BY <1>1, NemoInitInv, PTL DEF NemoSpec

---------------------------------------------------------------------------

\* The state variables have their types in every behaviour.
THEOREM NemoTypeCorrect == NemoSpec => []NemoTypeOK
<1>1. NemoInv => NemoTypeOK
  BY DEF NemoInv, Control, PublishInv, MatrixInv, MatrixTyped, SavedTyped, BatchSummary, TargetSummary, Job, NemoTypeOK
<1> QED
  BY <1>1, NemoInductive, PTL

\* Wherever a registration stops, the Entity Store is not ahead of the
\* repository, and one that ends well has published the present version.
THEOREM AlwaysPublishedInOrder == NemoSpec => []PublishedInOrder
<1>1. NemoInv => PublishedInOrder
  BY DEF NemoInv, PublishInv, PublishedInOrder, EntityNotAhead
<1> QED
  BY <1>1, NemoInductive, PTL

\* A wave is submitted when the waves before it have ended, and the job map
\* names whole waves of one run, for any matrix and any failures.
THEOREM WavesAlwaysWhole == NemoSpec => []WavesWhole
<1>1. NemoInv => WavesWhole
  BY DEF NemoInv, MatrixInv, WavesWhole
<1> QED
  BY <1>1, NemoInductive, PTL

---------------------------------------------------------------------------
(* Saved responses *)

LEMMA DivBounds ==
  ASSUME NEW n \in Nat, NEW B \in Nat \ {0}
  PROVE  n \div B \in Nat /\ B * (n \div B) <= n /\ n < B * (n \div B) + B
OBVIOUS

LEMMA MulMono ==
  ASSUME NEW a \in Nat, NEW b \in Nat, NEW B \in Nat, a <= b
  PROVE  B * a <= B * b
OBVIOUS

\* A batch that starts before the rows end has a summary of its own, the batch
\* after one that is not the last starts before the rows end, too, and the
\* last one is the batch of the last row.
LEMMA BatchArithmetic ==
  ASSUME NEW rows \in Nat, NEW b \in Nat, NEW B \in Nat \ {0}, NEW most \in Nat,
         rows <= most, B * b < rows
  PROVE  /\ b <= (most - 1) \div B
         /\ b + 1 < (rows + B - 1) \div B => B * (b + 1) < rows
         /\ ~(b + 1 < (rows + B - 1) \div B) => \A r \in 1..rows : (r - 1) \div B \in 0..b
<1> DEFINE q == (rows + B - 1) \div B
           last == (most - 1) \div B
<1>1. B * (b + 1) = B * b + B /\ B * (b + 2) = B * b + 2 * B /\ B * b \in Nat
  OBVIOUS
<1>2. q \in Nat /\ B * q <= rows + B - 1 /\ rows + B - 1 < B * q + B
  BY DivBounds
<1>3. last \in Nat /\ most - 1 < B * last + B
  <2>1. most - 1 \in Nat
    BY <1>1
  <2> QED
    BY <2>1, DivBounds
<1>4. b <= last
  <2> SUFFICES ASSUME last + 1 <= b PROVE FALSE
    BY <1>3
  <2>1. B * (last + 1) <= B * b
    BY <1>3, MulMono
  <2>2. B * (last + 1) = B * last + B /\ B * last \in Nat
    BY <1>3
  <2> QED
    BY <1>1, <1>3, <2>1, <2>2
<1>5. b + 1 < q => B * (b + 1) < rows
  <2> SUFFICES ASSUME b + 2 <= q PROVE B * (b + 1) < rows
    BY <1>2
  <2>1. B * (b + 2) <= B * q
    BY <1>2, MulMono
  <2> QED
    BY <1>1, <1>2, <2>1
<1>6. ASSUME q <= b + 1, NEW r \in 1..rows PROVE (r - 1) \div B \in 0..b
  <2> DEFINE d == (r - 1) \div B
  <2>1. d \in Nat /\ B * d <= r - 1
    BY DivBounds
  <2>2. B * q <= B * (b + 1)
    BY <1>2, <1>6, MulMono
  <2>3. B * d < B * b + B
    <3>1. B * d \in Nat /\ B * q \in Nat
      BY <1>2, <2>1
    <3> QED
      BY <1>1, <1>2, <2>1, <2>2, <3>1
  <2> SUFFICES ASSUME b + 1 <= d PROVE FALSE
    BY <2>1
  <2>4. B * (b + 1) <= B * d
    BY <2>1, MulMono
  <2> QED
    BY <1>1, <2>1, <2>3, <2>4
<1> QED
  BY <1>2, <1>4, <1>5, <1>6

\* The program is between its start and its end.
AtWork == pc \in {"batch", "log", "total"}

RowsInv == length \in 1..MaxRows /\ evaluable \in 0..length

\* A completed batch had rows of its own when it ran.
SummariesInv ==
    \A b \in 0..LastBatch :
        /\ summaries[b].run <= runs
        /\ summaries[b].status = "completed" => BatchSize * b < summaries[b].upto

\* A running program has completed the batches before the one at hand, which
\* has rows of this run; after a completed last one it writes the total.
WorkInv ==
    AtWork => /\ loaded \in 1..MaxRows /\ BatchSize * batch < loaded
              /\ \A b \in 0..LastBatch : b < batch => summaries[b].status = "completed"
              /\ total.run < runs
              /\ pc = "total" /\ summaries[batch].status = "completed" => \A r \in 1..loaded : BatchOf(r) \in 0..batch

\* The rows of a completed target are in completed batches, or in batches that
\* a later run has judged again.
TotalInv ==
    /\ total.run <= runs
    /\ program = "saved" /\ pc = "done" => total.run = runs
    /\ total.status = "completed" =>
          \A r \in 1..total.read :
              /\ BatchOf(r) \in 0..LastBatch
              /\ summaries[BatchOf(r)].status = "completed" \/ summaries[BatchOf(r)].run > total.run

CoversInv == RowsInv /\ SummariesInv /\ WorkInv /\ TotalInv

LEMMA CoversInit == NemoInit => CoversInv
<1> SUFFICES ASSUME NemoInit PROVE CoversInv
  OBVIOUS
<1>1. RowsInv /\ WorkInv
  BY BoundAssumption DEF NemoInit, RowsInv, WorkInv, AtWork
<1>2. SummariesInv /\ TotalInv
  BY DEF NemoInit, SummariesInv, TotalInv, NoBatchSummary, NoTotal
<1> QED
  BY <1>1, <1>2 DEF CoversInv

\* The batch at hand has a summary.
LEMMA BatchInRange ==
  ASSUME SavedTyped, WorkInv, AtWork
  PROVE  batch \in 0..LastBatch /\ LastBatch \in Int
<1>1. loaded \in Nat /\ batch \in Nat /\ loaded <= MaxRows /\ BatchSize * batch < loaded
  BY BoundAssumption DEF SavedTyped, WorkInv
<1>2. batch <= (MaxRows - 1) \div BatchSize
  BY <1>1, BatchArithmetic, BoundAssumption
<1>3. LastBatch \in Int
  BY DivBounds, BoundAssumption DEF LastBatch
<1> QED
  BY <1>1, <1>2, <1>3 DEF LastBatch

\* After a completed batch the program goes on to the next one, or all its rows
\* are in completed batches.
LEMMA AfterBatchKeeps ==
  ASSUME SavedTyped, CoversInv, pc \in {"batch", "log"}, summaries[batch].status = "completed",
         AfterBatch, UNCHANGED <<length, evaluable, loaded, summaries, total>>
  PROVE  CoversInv'
<1> USE BoundAssumption
<1>0. batch \in 0..LastBatch /\ LastBatch \in Int
  BY BatchInRange DEF CoversInv, AtWork
<1>1. /\ loaded \in Nat /\ loaded \in 1..MaxRows /\ batch \in Nat /\ loaded <= MaxRows /\ BatchSize * batch < loaded
      /\ total.run < runs
      /\ \A b \in 0..LastBatch : b < batch => summaries[b].status = "completed"
  BY DEF SavedTyped, CoversInv, WorkInv, AtWork
<1>2. /\ batch + 1 < BatchCount => BatchSize * (batch + 1) < loaded
      /\ ~(batch + 1 < BatchCount) => \A r \in 1..loaded : BatchOf(r) \in 0..batch
  BY <1>1, BatchArithmetic DEF BatchCount, BatchOf
<1>3. UNCHANGED <<program, runs>> /\ pc' \in {"batch", "total"}
  BY DEF AfterBatch, Goto
<1>4. RowsInv' /\ SummariesInv' /\ TotalInv'
  BY <1>3 DEF CoversInv, RowsInv, SummariesInv, TotalInv, BatchOf
<1>5. CASE batch + 1 < BatchCount
  <2>1. batch' = batch + 1 /\ pc' = "batch"
    BY <1>5 DEF AfterBatch, Goto
  <2>2. \A b \in 0..LastBatch : b < batch' => summaries[b].status = "completed"
    <3>1. \A b \in 0..LastBatch : b < batch' => b < batch \/ b = batch
      BY <1>0, <2>1
    <3> QED
      BY <1>1, <3>1
  <2>3. BatchSize * batch' < loaded
    BY <1>2, <1>5, <2>1
  <2> QED
    BY <1>1, <1>3, <1>4, <2>1, <2>2, <2>3 DEF CoversInv, WorkInv
<1>6. CASE ~(batch + 1 < BatchCount)
  <2>1. batch' = batch /\ pc' = "total"
    BY <1>6 DEF AfterBatch, Goto
  <2>2. \A r \in 1..loaded : BatchOf(r) \in 0..batch
    BY <1>2, <1>6
  <2>3. WorkInv'
    BY <1>1, <1>3, <2>1, <2>2 DEF WorkInv, BatchOf
  <2> QED
    BY <1>4, <2>3 DEF CoversInv
<1> QED
  BY <1>5, <1>6

\* A summary is written over that of the batch at hand, by a later run than the
\* total's.
LEMMA SummaryKeeps ==
  ASSUME Control, SavedTyped, CoversInv, AtWork, NEW status \in {"completed", "failed", "torn"},
         summaries' = [summaries EXCEPT ![batch] = Summary(status)],
         UNCHANGED <<length, evaluable, total, runs, program>>, pc' # "done"
  PROVE  RowsInv' /\ SummariesInv' /\ TotalInv'
<1> DEFINE new == Summary(status)
<1>1. batch \in 0..LastBatch /\ LastBatch \in Int
  BY BatchInRange DEF CoversInv
<1>2. new.status = status /\ new.upto = loaded /\ new.run = runs
  BY DEF Summary
<1> HIDE DEF new
<1>3. summaries'[batch] = new /\ \A b \in 0..LastBatch : b # batch => summaries'[b] = summaries[b]
  BY <1>1 DEF SavedTyped, new
<1>4. RowsInv'
  BY DEF CoversInv, RowsInv
<1>5. BatchSize * batch < loaded /\ total.run < runs /\ runs \in Nat
  BY DEF CoversInv, WorkInv, Control
<1>6. SummariesInv'
  BY <1>1, <1>2, <1>3, <1>5 DEF CoversInv, SummariesInv
<1>7. TotalInv'
  BY <1>2, <1>3, <1>5 DEF CoversInv, TotalInv, BatchOf
<1> QED
  BY <1>4, <1>6, <1>7

LEMMA JudgedBatchKeeps ==
  ASSUME Control, SavedTyped, CoversInv, BatchJudged
  PROVE  CoversInv'
<1>1. /\ AtWork /\ pc' = "log" /\ UNCHANGED <<length, evaluable, total, runs, program, loaded, batch>>
  BY DEF BatchJudged, Submits, Goto, AtWork
<1>2. PICK status \in {"completed", "failed"} : summaries' = [summaries EXCEPT ![batch] = Summary(status)]
  BY DEF BatchJudged
<1>3. RowsInv' /\ SummariesInv' /\ TotalInv'
  BY <1>1, <1>2, SummaryKeeps
<1>4. batch \in 0..LastBatch /\ LastBatch \in Int
  BY <1>1, BatchInRange DEF CoversInv
<1>5. \A b \in 0..LastBatch : b < batch => summaries'[b] = summaries[b]
  BY <1>2, <1>4 DEF SavedTyped
<1>6. WorkInv'
  BY <1>1, <1>5 DEF CoversInv, WorkInv
<1> QED
  BY <1>3, <1>6 DEF CoversInv

LEMMA WriteTotalKeeps ==
  ASSUME Control, SavedTyped, CoversInv, WriteTotal
  PROVE  CoversInv'
<1>1. /\ AtWork /\ pc = "total" /\ pc' = "done"
      /\ UNCHANGED <<length, evaluable, summaries, runs, program, loaded, batch>>
  BY DEF WriteTotal, Goto, AtWork
<1> DEFINE st == Status([b \in 0..batch |-> summaries[b]])
<1>2. total' = [status |-> st, read |-> loaded, run |-> runs]
  BY DEF WriteTotal
<1>3. batch \in 0..LastBatch /\ LastBatch \in Int /\ runs \in Nat
  BY <1>1, BatchInRange DEF CoversInv, Control
<1>4. st = "completed" => \A b \in 0..batch : summaries[b].status = "completed"
  BY DEF Status
<1> HIDE DEF st
<1>5. total'.status = st /\ total'.read = loaded /\ total'.run = runs
  BY <1>2
<1>6. st = "completed" => \A r \in 1..loaded : BatchOf(r) \in 0..LastBatch /\ summaries[BatchOf(r)].status = "completed"
  <2> SUFFICES ASSUME st = "completed", NEW r \in 1..loaded
               PROVE  BatchOf(r) \in 0..LastBatch /\ summaries[BatchOf(r)].status = "completed"
    OBVIOUS
  <2>1. batch \in 0..batch
    BY <1>3
  <2>2. BatchOf(r) \in 0..batch
    BY <1>1, <1>4, <2>1 DEF CoversInv, WorkInv
  <2>3. BatchOf(r) \in 0..LastBatch
    BY <1>3, <2>2
  <2> QED
    BY <1>4, <2>2, <2>3
<1>7. TotalInv'
  <2>1. total'.run <= runs' /\ total'.run = runs'
    BY <1>1, <1>3, <1>5
  <2>2. total'.status = "completed" => \A r \in 1..total'.read :
          BatchOf(r) \in 0..LastBatch /\ summaries'[BatchOf(r)].status = "completed"
    BY <1>1, <1>5, <1>6
  <2> QED
    BY <2>1, <2>2 DEF TotalInv, BatchOf
<1>8. RowsInv' /\ SummariesInv' /\ WorkInv'
  BY <1>1 DEF CoversInv, RowsInv, SummariesInv, WorkInv, AtWork
<1> QED
  BY <1>7, <1>8 DEF CoversInv

LEMMA KillInWriteKeeps ==
  ASSUME Control, SavedTyped, CoversInv, KillInWrite
  PROVE  CoversInv'
<1>1. AtWork /\ pc' = "off" /\ UNCHANGED <<length, evaluable, runs, program>>
  BY DEF KillInWrite, Submits, Goto, AtWork
<1>2. WorkInv'
  BY <1>1 DEF WorkInv, AtWork
<1>3. CASE summaries' = [summaries EXCEPT ![batch] = Summary("torn")] /\ UNCHANGED total
  <2>1. RowsInv' /\ SummariesInv' /\ TotalInv'
    BY <1>1, <1>3, SummaryKeeps
  <2> QED
    BY <1>2, <2>1 DEF CoversInv
<1>4. CASE total' = [status |-> "torn", read |-> loaded, run |-> runs] /\ UNCHANGED summaries
  <2>1. total'.status = "torn" /\ total'.run = runs /\ runs \in Nat
    BY <1>4 DEF Control
  <2>2. RowsInv' /\ SummariesInv' /\ TotalInv'
    BY <1>1, <1>4, <2>1 DEF CoversInv, RowsInv, SummariesInv, TotalInv
  <2> QED
    BY <1>2, <2>2 DEF CoversInv
<1> QED
  BY <1>3, <1>4 DEF KillInWrite

\* A step that writes no summary and starts no run of this program.
LEMMA AsideKeeps ==
  ASSUME Control, SavedTyped, CoversInv, UNCHANGED <<length, evaluable, summaries, total>>,
         runs' \in {runs, runs + 1},
         \/ UNCHANGED <<program, pc, runs, loaded, batch>>
         \/ ~AtWork' /\ ~(program' = "saved" /\ pc' = "done")
  PROVE  CoversInv'
<1>1. runs \in Nat /\ runs <= runs'
  BY DEF Control
<1>2. RowsInv'
  BY DEF CoversInv, RowsInv
<1>3. /\ \A b \in 0..LastBatch : summaries[b].run \in Nat /\ summaries[b].run <= runs
      /\ total.run \in Nat /\ total.run <= runs
  BY DEF SavedTyped, BatchSummary, TargetSummary, CoversInv, SummariesInv, TotalInv
<1>4. SummariesInv'
  BY <1>1, <1>3 DEF CoversInv, SummariesInv
<1>5. TotalInv'
  BY <1>1, <1>3 DEF CoversInv, TotalInv, BatchOf
<1>6. WorkInv'
  BY DEF CoversInv, WorkInv, AtWork, BatchOf
<1> QED
  BY <1>2, <1>4, <1>5, <1>6 DEF CoversInv

LEMMA CoversStep == Control /\ SavedTyped /\ CoversInv /\ [NemoNext]_nemoVars => CoversInv'
<1> SUFFICES ASSUME Control, SavedTyped, CoversInv, [NemoNext]_nemoVars PROVE CoversInv'
  OBVIOUS
<1>0. runs \in Nat
  BY DEF Control
<1>1. CASE Stop \/ Rebuild
  BY <1>1, AsideKeeps DEF Stop, Rebuild, Goto, saved, AtWork
<1>2. CASE RegisterStart \/ CreateRepo \/ Push \/ RegisterEntity
  <2>1. /\ UNCHANGED <<length, evaluable, summaries, total>> /\ runs' \in {runs, runs + 1}
        /\ ~AtWork' /\ ~(program' = "saved" /\ pc' = "done")
    BY <1>2 DEF RegisterStart, CreateRepo, Push, AfterPush, RegisterEntity, Start, Goto, saved, AtWork, Control
  <2> QED
    BY <2>1, AsideKeeps
<1>3. CASE EntitiesStart \/ Create \/ Patch \/ PatchUnsupported \/ Delete \/ Recreate
  <2>1. /\ UNCHANGED <<length, evaluable, summaries, total>> /\ runs' \in {runs, runs + 1}
        /\ ~AtWork' /\ ~(program' = "saved" /\ pc' = "done")
    BY <1>3 DEF EntitiesStart, Create, OnConflict, Patch, PatchUnsupported, Delete, Recreate, Start, Goto, saved,
      AtWork, Control
  <2> QED
    BY <2>1, AsideKeeps
<1>4. CASE MatrixStart \/ WriteJobMap \/ WaveComplete
  <2>1. /\ UNCHANGED <<length, evaluable, summaries, total>> /\ runs' \in {runs, runs + 1}
        /\ ~AtWork' /\ ~(program' = "saved" /\ pc' = "done")
    BY <1>4 DEF MatrixStart, WriteJobMap, NextWave, WaveComplete, Start, Goto, saved, AtWork, Control
  <2> QED
    BY <2>1, AsideKeeps
<1>5. ASSUME SubmitJob \/ JobEnds \/ (\E j \in waiting : Poll(j) \/ PollError(j)) \/ UNCHANGED nemoVars
      PROVE  CoversInv'
  <2>1. UNCHANGED <<length, evaluable, summaries, total, program, pc, runs, loaded, batch>>
    BY <1>5 DEF SubmitJob, JobEnds, Poll, PollError, nemoVars, saved
  <2> QED
    BY <2>1, AsideKeeps
<1>6. CASE Grow
  <2>1. /\ RowsInv' /\ UNCHANGED <<program, pc, runs, loaded, batch, summaries, total>>
    BY <1>6, BoundAssumption DEF Grow, CoversInv, RowsInv
  <2> QED
    BY <2>1 DEF CoversInv, SummariesInv, WorkInv, TotalInv, AtWork, BatchOf
<1>7. CASE SavedStart
  <2>1. /\ loaded' = evaluable /\ batch' = 0 /\ evaluable > 0 /\ runs' = runs + 1 /\ pc' = "batch"
        /\ UNCHANGED <<program, length, evaluable, summaries, total>>
    BY <1>7 DEF SavedStart, Start, EvalRows
  <2>2. /\ \A b \in 0..LastBatch : summaries[b].run \in Nat /\ summaries[b].run <= runs
        /\ total.run \in Nat /\ total.run <= runs
    BY DEF SavedTyped, BatchSummary, TargetSummary, CoversInv, SummariesInv, TotalInv
  <2>3. RowsInv' /\ SummariesInv'
    BY <1>0, <2>1, <2>2 DEF CoversInv, RowsInv, SummariesInv
  <2>4. TotalInv'
    BY <1>0, <2>1, <2>2 DEF CoversInv, TotalInv, BatchOf
  <2>5. loaded' \in 1..MaxRows /\ BatchSize * batch' = 0
    BY <2>1, BoundAssumption DEF CoversInv, RowsInv
  <2>6. \A b \in 0..LastBatch : ~(b < 0)
    BY DivBounds, BoundAssumption DEF LastBatch
  <2>7. WorkInv'
    BY <1>0, <2>1, <2>2, <2>5, <2>6 DEF WorkInv
  <2> QED
    BY <2>3, <2>4, <2>7 DEF CoversInv
<1>8. CASE SkipBatch
  BY <1>8, AfterBatchKeeps DEF SkipBatch
<1>9. CASE BatchLogged
  <2>1. CASE summaries[batch].status = "completed"
    BY <1>9, <2>1, AfterBatchKeeps DEF BatchLogged
  <2>2. CASE summaries[batch].status # "completed"
    <3>1. /\ pc = "log" /\ pc' = "total"
          /\ UNCHANGED <<program, runs, length, evaluable, loaded, batch, summaries, total>>
      BY <1>9, <2>2 DEF BatchLogged, Goto
    <3> QED
      BY <2>2, <3>1 DEF CoversInv, RowsInv, SummariesInv, WorkInv, TotalInv, AtWork, BatchOf
  <2> QED
    BY <2>1, <2>2
<1> QED
  BY <1>1, <1>2, <1>3, <1>4, <1>5, <1>6, <1>7, <1>8, <1>9, JudgedBatchKeeps, WriteTotalKeeps, KillInWriteKeeps
     DEF NemoNext

\* A target that is reported completed has, for each row with a context that
\* its run read, a completed batch which held the first of its rows at least,
\* or one that a later run has judged again; for any sizes, failures, kills
\* between and in the middle of the writes, resumes and rows that come in
\* between.
THEOREM CompletedAlwaysCovers == NemoSpec => []CompletedCovers
<1>1. SavedTyped /\ CoversInv => CompletedCovers
  <2> SUFFICES ASSUME SavedTyped, CoversInv PROVE CompletedCovers
    OBVIOUS
  <2>1. ASSUME total.status = "completed", NEW r \in 1..total.read
        PROVE  \/ /\ summaries[BatchOf(r)].status = "completed"
                  /\ summaries[BatchOf(r)].upto > BatchOf(r) * BatchSize
               \/ summaries[BatchOf(r)].run > total.run
    <3> DEFINE b == BatchOf(r)
    <3>1. b \in 0..LastBatch /\ (summaries[b].status = "completed" \/ summaries[b].run > total.run)
      BY <2>1 DEF CoversInv, TotalInv
    <3>2. summaries[b].upto \in Nat /\ (summaries[b].status = "completed" => BatchSize * b < summaries[b].upto)
      BY <3>1 DEF CoversInv, SummariesInv, SavedTyped, BatchSummary
    <3>3. b \in Int /\ BatchSize \in Int
      BY <3>1, BoundAssumption
    <3> HIDE DEF b
    <3>4. summaries[b].status = "completed" => summaries[b].upto > b * BatchSize
      <4>1. b * BatchSize = BatchSize * b
        BY <3>3
      <4> QED
        BY <3>2, <3>3, <4>1
    <3> QED
      BY <3>1, <3>4 DEF b
  <2>2. program = "saved" /\ pc = "done" => \A b \in DOMAIN summaries : summaries[b].run <= total.run
    BY DEF CoversInv, TotalInv, SummariesInv, SavedTyped
  <2> QED
    BY <2>1, <2>2 DEF CompletedCovers
<1>2. NemoInv => Control /\ SavedTyped
  BY DEF NemoInv
<1>3. NemoSpec => []CoversInv
  BY <1>2, NemoInductive, CoversInit, CoversStep, PTL DEF NemoSpec
<1> QED
  BY <1>1, <1>2, <1>3, NemoInductive, PTL
=============================================================================
