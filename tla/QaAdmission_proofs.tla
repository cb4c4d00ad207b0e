------------------------- MODULE QaAdmission_proofs -------------------------
(* Stage 2's three files and its list in memory agree, and a row gets one  *)
(* final verdict, for any number of rows, starts and kills.                *)
EXTENDS QaAdmission, TLAPS

Statuses == TERMINAL_QA_STATUSES \cup Retryable

\* The line being decided is of this run, and is in the file that its decision
\* says before the decision is on record.
RowFirst ==
    /\ pc \in {"writing", "logging"} => cur.run = runs
    /\ pc = "logging" => IF cur.status \in Admitted THEN cur \in kept ELSE cur \in dropped

Clearing == pc \in {"clearing_dropped", "clearing_quality"}

\* The lists in memory are the files, as long as a program works on them.
MemIsFile == pc # "off" /\ ~Clearing => memKept = kept /\ memDropped = dropped

\* A program that runs is one of those counted, and no decision is of a later one.
Started ==
    /\ runs \in 0..MaxRuns /\ (pc # "off" => runs > 0)
    /\ \A l \in quality : l.run <= runs
    /\ emptied["kept"] <= runs /\ emptied["dropped"] <= runs

\* While the files are cleared, those that are cleared are empty and the
\* decisions are of earlier runs.
ClearedSoFar ==
    /\ Clearing => memKept = {} /\ memDropped = {} /\ kept = {} /\ pending = {} /\ emptied["kept"] = runs /\ \A l \in quality : l.run < runs
    /\ pc = "clearing_quality" => dropped = {} /\ emptied["dropped"] = runs

\* Nothing is pending where no program runs.
Rest == pc \in {"off", "returned"} => pending = {}

IInv == TypeOK /\ Started /\ ClearedSoFar /\ Rest /\ RowFirst /\ MemIsFile /\ DecisionBacked

LEMMA InitInv == Init => IInv
<1> SUFFICES ASSUME Init PROVE IInv
  OBVIOUS
<1>1. TypeOK
  BY DEF Init, TypeOK
<1>2. Started /\ ClearedSoFar /\ Rest /\ RowFirst /\ MemIsFile /\ DecisionBacked
  BY RunsAssumption DEF Init, Started, ClearedSoFar, Rest, Clearing, RowFirst, MemIsFile, DecisionBacked
<1> QED
  BY <1>1, <1>2 DEF IInv

\* What is collected is a line of this run, of any of the six statuses.
LEMMA CollectedTyped ==
  ASSUME TypeOK, NEW w \in Work, Collect(w) \/ CollectException(w)
  PROVE  /\ pc = "running" /\ w \in pending
         /\ \E s \in Statuses : Finished(w, s) /\ cur' = [w |-> w, status |-> s, run |-> runs]
         /\ cur' \in Line
<1>1. PICK s \in Statuses : pc = "running" /\ w \in pending /\ Finished(w, s)
  BY DEF Collect, CollectException, Verdicts, Statuses, TERMINAL_QA_STATUSES, Retryable
<1> QED
  BY <1>1 DEF Finished, Line, TypeOK, Statuses

\* Every action keeps it, whatever the judge answers and wherever it is killed.
LEMMA StepInv == IInv /\ [Next]_vars => IInv'
<1> SUFFICES ASSUME IInv, [Next]_vars PROVE IInv'
  OBVIOUS
<1> USE RunsAssumption DEF IInv, TypeOK, Started, ClearedSoFar, Rest, Clearing, RowFirst, MemIsFile, DecisionBacked,
        Orphan, files, mem
<1>1. CASE ClearKept \/ ClearDropped \/ ClearQuality
  <2>1. CASE ClearKept
    <3>1. /\ pc \in {"off", "returned"} /\ pc' = "clearing_dropped" /\ cur = Nothing /\ runs \in Nat
          /\ runs' = runs + 1 /\ runs + 1 \in 1..MaxRuns /\ kept' = {} /\ memKept' = {} /\ memDropped' = {}
          /\ torn' \subseteq torn /\ emptied' = [emptied EXCEPT !["kept"] = runs + 1]
          /\ UNCHANGED <<input, dropped, quality, pending, cur>>
      BY <2>1 DEF ClearKept, Idle
    <3>2. /\ emptied' \in [{"kept", "dropped"} -> Nat] /\ emptied'["kept"] = runs + 1
          /\ emptied'["dropped"] = emptied["dropped"] /\ emptied["dropped"] \in Nat
      BY <3>1
    <3>3. \A l \in quality : l.run \in Nat /\ l.run < runs + 1
      BY <3>1 DEF Line
    <3>4. TypeOK'
      BY <3>1, <3>2
    <3>5. Started' /\ ClearedSoFar' /\ Rest' /\ RowFirst' /\ MemIsFile'
      BY <3>1, <3>2, <3>3
    <3>6. DecisionBacked'
      BY <3>1, <3>2, <3>3
    <3> QED
      BY <3>4, <3>5, <3>6
  <2>2. CASE ClearDropped
    <3>1. /\ pc = "clearing_dropped" /\ pc' = "clearing_quality" /\ dropped' = {} /\ kept = {}
          /\ torn' \subseteq torn /\ emptied' = [emptied EXCEPT !["dropped"] = runs] /\ runs \in Nat
          /\ UNCHANGED <<input, kept, quality, pending, cur, memKept, memDropped, runs>>
      BY <2>2 DEF ClearDropped
    <3>2. /\ emptied' \in [{"kept", "dropped"} -> Nat] /\ emptied'["kept"] = emptied["kept"]
          /\ emptied'["dropped"] = runs
      BY <3>1
    <3>3. TypeOK'
      BY <3>1, <3>2
    <3>4. Started' /\ ClearedSoFar' /\ Rest' /\ RowFirst' /\ MemIsFile'
      BY <3>1, <3>2
    <3>5. DecisionBacked'
      BY <3>1, <3>2
    <3> QED
      BY <3>3, <3>4, <3>5
  <2>3. CASE ClearQuality
    <3>1. /\ pc = "clearing_quality" /\ pc' \in {"running", "returned"} /\ quality' = {} /\ torn' = {}
          /\ input' \subseteq Work /\ pending' = input' /\ (pc' = "returned" => input' = {})
          /\ kept = {} /\ dropped = {} /\ cur = Nothing
          /\ UNCHANGED <<kept, dropped, cur, memKept, memDropped, runs, emptied>>
      BY <2>3 DEF ClearQuality
    <3>2. memKept = {} /\ memDropped = {}
      BY <3>1
    <3>3. TypeOK'
      BY <3>1
    <3>4. Started' /\ ClearedSoFar' /\ Rest' /\ RowFirst' /\ MemIsFile' /\ DecisionBacked'
      BY <3>1, <3>2
    <3> QED
      BY <3>3, <3>4
  <2> QED
    BY <1>1, <2>1, <2>2, <2>3
<1>01. /\ runs \in Nat /\ emptied["kept"] \in Nat /\ emptied["dropped"] \in Nat
       /\ \A l \in quality : l.run \in Nat
  BY DEF Line
<1>2. CASE Resume \/ ReadFails
  <2>1. /\ pc \in {"off", "returned"} /\ cur = Nothing /\ runs' = runs + 1 /\ runs + 1 \in 1..MaxRuns
        /\ pending' \subseteq input' /\ input' \subseteq Work /\ pc' \in {"off", "running", "returned"}
        /\ pc' \in {"off", "returned"} => pending' = {}
        /\ pc' # "off" => memKept' = kept /\ memDropped' = dropped
        /\ memKept' \subseteq Line /\ memDropped' \subseteq Line
        /\ UNCHANGED <<kept, dropped, quality, torn, cur, emptied>>
    BY <1>01, <1>2 DEF Resume, ReadFails, Idle, Known
  <2>2. TypeOK'
    BY <1>01, <2>1
  <2>3. Started' /\ ClearedSoFar' /\ Rest' /\ RowFirst' /\ MemIsFile'
    BY <1>01, <2>1
  <2>4. DecisionBacked'
    BY <2>1
  <2> QED
    BY <2>2, <2>3, <2>4
<1>4. ASSUME NEW w \in Work, Collect(w) \/ CollectException(w) PROVE IInv'
  <2>1. /\ pc = "running" /\ pc' = "writing" /\ pending' \subseteq pending /\ cur' \in Line /\ cur'.run = runs
        /\ UNCHANGED <<input, kept, dropped, quality, torn, memKept, memDropped, runs, emptied>>
    BY <1>4, CollectedTyped DEF Finished
  <2>2. TypeOK'
    BY <2>1
  <2>3. Started' /\ ClearedSoFar' /\ Rest' /\ RowFirst' /\ MemIsFile'
    BY <2>1
  <2>4. DecisionBacked'
    BY <2>1
  <2> QED
    BY <2>2, <2>3, <2>4
<1>5. CASE AppendRow
  BY <1>5 DEF AppendRow, Keeps
<1>6. CASE AppendDecision
  BY <1>6 DEF AppendDecision
<1>7. CASE Return
  BY <1>7 DEF Return
<1>8. CASE Kill
  BY <1>8 DEF Kill, Open
<1>9. CASE UNCHANGED vars
  BY <1>9 DEF vars
<1> QED
  BY <1>1, <1>2, <1>4, <1>5, <1>6, <1>7, <1>8, <1>9 DEF Next

LEMMA Inductive == Spec => []IInv
BY InitInv, StepInv, PTL DEF Spec

\* The state variables have their types in every behaviour.
THEOREM TypeCorrect == Spec => []TypeOK
<1>1. IInv => TypeOK
  BY DEF IInv
<1> QED
  BY <1>1, Inductive, PTL

\* The audit, the files and the list handed to stage 3 agree wherever the
\* stage is killed and however often it is resumed, but for the decisions that
\* a start killed while it cleared the files left without their rows.
THEOREM FilesAlwaysAgree == Spec => []FilesAgree
<1>1. IInv => FilesAgree
  BY DEF IInv, FilesAgree, KeptIsFile, MemIsFile, Clearing
<1> QED
  BY <1>1, Inductive, PTL

---------------------------------------------------------------------------

\* A row that waits to be judged, or whose line is being written, has no final
\* verdict in either file, and is not both; no row has two.
Undecided ==
    /\ \A w \in pending : pc \notin {"off", "returned"} => Final(w) = {}
    /\ pc = "writing" => Final(cur.w) = {} /\ cur.w \notin pending
AtMostOne == \A w \in Work : \A a, b \in Final(w) : a = b

\* The final verdicts are those of the two files.
LEMMA FinalIs ==
  ASSUME NEW w
  PROVE  Final(w) = {<<l.run, l.status>> : l \in {k \in kept \cup dropped :
                        k.w = w /\ k.status \in TERMINAL_QA_STATUSES}}
BY DEF Final, Of

\* A row without a place in Completed has no final verdict.
LEMMA CompletedDecided ==
  ASSUME NEW w \in Work, w \notin Completed
  PROVE  Final(w) = {}
<1>1. \A l \in kept \cup dropped : ~(l.w = w /\ l.status \in TERMINAL_QA_STATUSES)
  BY DEF Completed
<1> QED
  BY <1>1, FinalIs

\* Writing a line adds its verdict to that row, and to no other.
LEMMA AppendFinal ==
  ASSUME TypeOK, AppendRow, NEW w
  PROVE  Final(w)' = IF w = cur.w /\ cur.status \in TERMINAL_QA_STATUSES
                     THEN Final(w) \cup {<<cur.run, cur.status>>} ELSE Final(w)
<1>1. (kept \cup dropped)' = kept \cup dropped \cup {cur}
  BY DEF AppendRow
<1>2. Final(w)' = {<<l.run, l.status>> : l \in {k \in kept \cup dropped \cup {cur} :
                        k.w = w /\ k.status \in TERMINAL_QA_STATUSES}}
  BY <1>1 DEF Final, Of, TERMINAL_QA_STATUSES
<1>3. CASE w = cur.w /\ cur.status \in TERMINAL_QA_STATUSES
  BY <1>2, <1>3, FinalIs
<1>4. CASE ~(w = cur.w /\ cur.status \in TERMINAL_QA_STATUSES)
  BY <1>2, <1>4, FinalIs
<1> QED
  BY <1>3, <1>4

\* A step that leaves both files alone leaves the verdicts.
LEMMA SameFinal ==
  ASSUME UNCHANGED <<kept, dropped>>, NEW w
  PROVE  Final(w)' = Final(w)
BY DEF Final, Of, TERMINAL_QA_STATUSES

\* Clearing a file adds no verdict.
LEMMA ClearFinal ==
  ASSUME kept' \subseteq kept, dropped' \subseteq dropped, NEW w
  PROVE  Final(w)' \subseteq Final(w)
<1>1. {k \in kept' \cup dropped' : k.w = w /\ k.status \in TERMINAL_QA_STATUSES}
        \subseteq {k \in kept \cup dropped : k.w = w /\ k.status \in TERMINAL_QA_STATUSES}
  OBVIOUS
<1>2. Final(w)' = {<<l.run, l.status>> : l \in {k \in kept' \cup dropped' :
                        k.w = w /\ k.status \in TERMINAL_QA_STATUSES}}
  BY DEF Final, Of, TERMINAL_QA_STATUSES
<1> QED
  BY <1>1, <1>2, FinalIs

LEMMA UndecidedInit == Init => Undecided
BY DEF Init, Undecided

LEMMA UndecidedStep == IInv /\ Undecided /\ [Next]_vars => Undecided'
<1> SUFFICES ASSUME IInv, Undecided, [Next]_vars PROVE Undecided'
  OBVIOUS
<1>0. TypeOK
  BY DEF IInv
<1>1. CASE ClearKept \/ ClearDropped \/ ClearQuality
  <2>1. CASE ClearKept
    BY <2>1 DEF ClearKept, Idle, IInv, Rest, Undecided
  <2>2. CASE ClearDropped
    BY <2>2 DEF ClearDropped, IInv, ClearedSoFar, Clearing, Undecided
  <2>3. CASE ClearQuality
    <3>1. kept' = {} /\ dropped' = {} /\ pc' \in {"running", "returned"}
      BY <2>3 DEF ClearQuality, IInv, ClearedSoFar, Clearing
    <3>2. \A w : Final(w)' = {}
      BY <3>1 DEF Final, Of
    <3> QED
      BY <3>1, <3>2 DEF Undecided
  <2> QED
    BY <1>1, <2>1, <2>2, <2>3
<1>2. CASE Resume
  <2>1. pending' \subseteq Work \ Completed /\ kept' = kept /\ dropped' = dropped
    BY <1>2 DEF Resume, files
  <2>2. \A w \in pending' : Final(w)' = {}
    BY <2>1, CompletedDecided, SameFinal
  <2> QED
    BY <1>2, <2>2 DEF Resume, Undecided
<1>3. CASE ReadFails
  BY <1>3 DEF ReadFails, Undecided
<1>4. ASSUME NEW w \in Work, Collect(w) \/ CollectException(w) PROVE Undecided'
  <2>1. PICK s \in Statuses : Finished(w, s) /\ cur' = [w |-> w, status |-> s, run |-> runs]
    BY <1>0, <1>4, CollectedTyped
  <2>2. /\ pc = "running" /\ w \in pending /\ cur'.w = w
        /\ pending' = pending \ {w} /\ pc' = "writing" /\ UNCHANGED <<kept, dropped>>
    BY <1>0, <1>4, <2>1, CollectedTyped DEF Finished, files
  <2>3. \A v \in pending : Final(v)' = {}
    BY <2>2, SameFinal DEF Undecided
  <2> QED
    BY <2>2, <2>3 DEF Undecided
<1>5. CASE AppendRow
  <2>1. pc = "writing" /\ pc' = "logging" /\ pending' = pending
    BY <1>5 DEF AppendRow
  <2>2. \A w \in pending : Final(w)' = {}
    BY <1>0, <1>5, <2>1, AppendFinal DEF Undecided
  <2> QED
    BY <2>1, <2>2 DEF Undecided
<1>6. CASE AppendDecision
  <2>1. UNCHANGED <<kept, dropped, pending>> /\ pc = "logging" /\ pc' = "running"
    BY <1>6 DEF AppendDecision
  <2> QED
    BY <2>1, SameFinal DEF Undecided
<1>7. CASE Return
  BY <1>7 DEF Return, Undecided
<1>8. CASE Kill
  BY <1>8 DEF Kill, Undecided
<1>9. CASE UNCHANGED vars
  <2>1. UNCHANGED <<kept, dropped, pending, pc, cur>>
    BY <1>9 DEF vars, files
  <2>2. \A w : Final(w)' = Final(w)
    BY <2>1, SameFinal
  <2> QED
    BY <2>1, <2>2 DEF Undecided
<1> QED
  BY <1>1, <1>2, <1>3, <1>4, <1>5, <1>6, <1>7, <1>8, <1>9 DEF Next

LEMMA UndecidedAlways == Spec => []Undecided
BY Inductive, UndecidedInit, UndecidedStep, PTL DEF Spec

LEMMA AtMostOneStep == IInv /\ Undecided /\ AtMostOne /\ [Next]_vars => AtMostOne'
<1> SUFFICES ASSUME IInv, Undecided, AtMostOne, [Next]_vars, NEW w \in Work PROVE \A a, b \in Final(w)' : a = b
  BY DEF AtMostOne
<1>1. CASE AppendRow
  <2>1. TypeOK /\ Final(cur.w) = {}
    BY <1>1 DEF IInv, Undecided, AppendRow
  <2> QED
    BY <1>1, <2>1, AppendFinal DEF AtMostOne
<1>2. CASE ClearKept \/ ClearDropped
  <2>1. kept' \subseteq kept /\ dropped' \subseteq dropped
    BY <1>2 DEF ClearKept, ClearDropped
  <2> QED
    BY <2>1, ClearFinal DEF AtMostOne
<1>3. CASE UNCHANGED <<kept, dropped>>
  BY <1>3, SameFinal DEF AtMostOne
<1>4. Next => ClearKept \/ ClearDropped \/ AppendRow \/ UNCHANGED <<kept, dropped>>
  BY DEF Next, ClearQuality, Resume, ReadFails, Collect, CollectException, Finished, AppendDecision, Return,
     Kill, files
<1>5. UNCHANGED vars => UNCHANGED <<kept, dropped>>
  BY DEF vars, files
<1> QED
  BY <1>1, <1>2, <1>3, <1>4, <1>5

LEMMA AtMostOneAlways == Spec => []AtMostOne
<1>1. Init => AtMostOne
  BY DEF Init, AtMostOne, Final, Of
<1> QED
  BY <1>1, Inductive, UndecidedAlways, AtMostOneStep, PTL DEF Spec

\* Stage 2 keeps RecordOnce's promise: whatever is killed and resumed, a row
\* that has a final verdict keeps it, until a run starts over.
THEOREM OneVerdictEver == Spec => OneVerdict
<1> DEFINE out == [w \in Work |-> Final(w)]
<1>1. Init => Verdict!Init
  <2> SUFFICES ASSUME Init PROVE out = [w \in Work |-> {}]
    BY DEF Verdict!Init
  <2>1. \A w : Final(w) = {}
    BY DEF Init, Final, Of
  <2> QED
    BY <2>1
<1>2. IInv /\ Undecided /\ AtMostOne /\ [Next]_vars => [Verdict!Next]_out
  <2> SUFFICES ASSUME IInv, Undecided, AtMostOne, [Next]_vars PROVE Verdict!Next \/ out' = out
    OBVIOUS
  <2>0. TypeOK
    BY DEF IInv
  <2>1. CASE ClearKept \/ ClearDropped
    <3> DEFINE gone == {w \in Work : Final(w)' = {}}
    <3>0. kept' \subseteq kept /\ dropped' \subseteq dropped
      BY <2>1 DEF ClearKept, ClearDropped
    <3>1. ASSUME NEW w \in Work, Final(w)' # {} PROVE Final(w)' = Final(w)
      BY <3>0, <3>1, ClearFinal DEF AtMostOne
    <3>2. out' = [w \in Work |-> IF w \in gone THEN {} ELSE out[w]]
      BY <3>1
    <3>3. gone \in SUBSET Work
      OBVIOUS
    <3>4. Verdict!StartOver
      BY <3>2, <3>3 DEF Verdict!StartOver
    <3> QED
      BY <3>4 DEF Verdict!Next
  <2>2. CASE AppendRow
    <3>1. cur \in Line /\ pc = "writing" /\ Final(cur.w) = {} /\ cur.run \in 1..MaxRuns
      BY <2>0, <2>2, RunsAssumption DEF AppendRow, TypeOK, Undecided, IInv, RowFirst, Started
    <3>2. cur.w \in Work
      BY <3>1 DEF Line
    <3>3. CASE cur.status \in TERMINAL_QA_STATUSES
      <4> DEFINE a == <<cur.run, cur.status>>
      <4>1. a \in (1..MaxRuns) \X TERMINAL_QA_STATUSES
        BY <3>1, <3>3
      <4>2. \A w \in Work : Final(w)' = IF w = cur.w THEN {a} ELSE Final(w)
        BY <2>0, <2>2, <3>1, <3>3, AppendFinal
      <4>3. out' = [out EXCEPT ![cur.w] = {a}]
        BY <4>2
      <4>4. out[cur.w] = {}
        BY <3>1, <3>2
      <4>5. Verdict!Record(cur.w)
        BY <4>1, <4>3, <4>4 DEF Verdict!Record
      <4> QED
        BY <3>2, <4>5 DEF Verdict!Next
    <3>4. CASE cur.status \notin TERMINAL_QA_STATUSES
      <4>1. \A w \in Work : Final(w)' = Final(w)
        BY <2>0, <2>2, <3>4, AppendFinal
      <4> QED
        BY <4>1
    <3> QED
      BY <3>3, <3>4
  <2>3. CASE UNCHANGED <<kept, dropped>>
    <3>1. \A w \in Work : Final(w)' = Final(w)
      BY <2>3, SameFinal
    <3> QED
      BY <3>1
  <2>4. Next => ClearKept \/ ClearDropped \/ AppendRow \/ UNCHANGED <<kept, dropped>>
    BY DEF Next, ClearQuality, Resume, ReadFails, Collect, CollectException, Finished, AppendDecision, Return,
       Kill, files
  <2>5. UNCHANGED vars => UNCHANGED <<kept, dropped>>
    BY DEF vars, files
  <2> QED
    BY <2>1, <2>2, <2>3, <2>4, <2>5
<1> QED
  BY <1>1, <1>2, Inductive, UndecidedAlways, AtMostOneAlways, PTL DEF Spec, OneVerdict, Verdict!Spec

---------------------------------------------------------------------------

\* A failure of this run is on file.
TriedNow(w) == \E l \in dropped : l.w = w /\ l.run = runs /\ l.status \in Retryable

\* A final decision outlived its row.
LeftBehind(w) == \E l \in Last(quality, w) : l.status \in TERMINAL_QA_STATUSES /\ Orphan(l)

\* No row of the input is lost on the way: it waits, is in hand, has a verdict
\* or a failure of this run on file, or its decision is what was left behind.
NoneLost ==
    /\ \A l \in kept : l.status \in Admitted
    /\ pc = "returned" => pending = {}
    /\ pc # "off" /\ ~Clearing => \A w \in input :
          w \in pending \/ (pc = "writing" /\ cur.w = w) \/ Final(w) # {} \/ TriedNow(w) \/ LeftBehind(w)

\* A final line of a row, in either file, is a final verdict.
LEMMA LineIsFinal ==
  ASSUME NEW l \in kept \cup dropped, l.status \in TERMINAL_QA_STATUSES
  PROVE  Final(l.w) # {}
<1>1. <<l.run, l.status>> \in Final(l.w)
  BY FinalIs
<1> QED
  BY <1>1

\* What a resume takes for finished has a final verdict, or had one.
LEMMA CompletedFinal ==
  ASSUME IInv, NoneLost, NEW w \in Completed
  PROVE  Final(w) # {} \/ LeftBehind(w)
<1> USE DEF TERMINAL_QA_STATUSES, Admitted
<1>1. CASE \E l \in kept : l.w = w
  BY <1>1, LineIsFinal DEF NoneLost
<1>2. CASE \E l \in dropped : l.w = w /\ l.status \in TERMINAL_QA_STATUSES
  BY <1>2, LineIsFinal
<1>3. CASE \E l \in Last(quality, w) : l.status \in TERMINAL_QA_STATUSES
  <2>1. PICK l \in Last(quality, w) : l.status \in TERMINAL_QA_STATUSES
    BY <1>3
  <2>2. l \in quality /\ l.w = w
    BY <2>1 DEF Last, Of
  <2>3. CASE Orphan(l)
    BY <2>1, <2>3 DEF LeftBehind
  <2>4. CASE ~Orphan(l)
    <3>1. l \in kept \cup dropped
      BY <2>2, <2>4 DEF IInv, DecisionBacked
    <3> QED
      BY <2>1, <2>2, <3>1, LineIsFinal
  <2> QED
    BY <2>3, <2>4
<1> QED
  BY <1>1, <1>2, <1>3 DEF Completed

LEMMA NoneLostInit == Init => NoneLost
BY DEF Init, NoneLost

LEMMA NoneLostStep == IInv /\ NoneLost /\ [Next]_vars => NoneLost'
<1> SUFFICES ASSUME IInv, NoneLost, [Next]_vars PROVE NoneLost'
  OBVIOUS
<1>0. TypeOK
  BY DEF IInv
<1>1. CASE ClearKept \/ ClearDropped \/ ClearQuality
  <2>1. /\ kept' = {} \/ (kept' = kept)
        /\ pc' = "returned" => pending' = {}
        /\ pc' \in {"clearing_dropped", "clearing_quality"} \/ pending' = input'
    BY <1>1 DEF ClearKept, ClearDropped, ClearQuality
  <2> QED
    BY <2>1 DEF NoneLost, Clearing
<1>2. CASE Resume
  <2>1. /\ UNCHANGED <<kept, dropped, quality, emptied>> /\ pending' = input' \ Completed
        /\ pc' = "returned" => pending' = {}
    BY <1>2 DEF Resume, files
  <2>2. \A w \in Completed : Final(w)' # {} \/ LeftBehind(w)'
    <3>1. \A w : LeftBehind(w)' = LeftBehind(w)
      BY <2>1 DEF LeftBehind, Last, Of, Orphan, TERMINAL_QA_STATUSES, Admitted
    <3> QED
      BY <2>1, <3>1, CompletedFinal, SameFinal
  <2> QED
    BY <2>1, <2>2 DEF NoneLost
<1>3. CASE ReadFails
  BY <1>3 DEF ReadFails, files, NoneLost
<1>4. ASSUME NEW v \in Work, Collect(v) \/ CollectException(v) PROVE NoneLost'
  <2>1. /\ pc = "running" /\ pc' = "writing" /\ cur'.w = v /\ pending' = pending \ {v}
        /\ UNCHANGED <<input, kept, dropped, quality, runs, emptied>>
    <3>1. PICK s \in Statuses : Finished(v, s) /\ cur' = [w |-> v, status |-> s, run |-> runs]
      BY <1>0, <1>4, CollectedTyped
    <3> QED
      BY <1>0, <1>4, <3>1, CollectedTyped DEF Finished, files
  <2>2. \A w : Final(w)' = Final(w)
    BY <2>1, SameFinal
  <2>3. \A w : TriedNow(w)' = TriedNow(w)
    BY <2>1 DEF TriedNow
  <2>4. \A w : LeftBehind(w)' = LeftBehind(w)
    BY <2>1 DEF LeftBehind, Last, Of, Orphan, TERMINAL_QA_STATUSES, Admitted
  <2> QED
    BY <2>1, <2>2, <2>3, <2>4 DEF NoneLost, Clearing
<1>5. CASE AppendRow
  <2>1. /\ pc = "writing" /\ pc' = "logging" /\ UNCHANGED <<input, pending, quality, runs, emptied>>
        /\ cur \in Line /\ cur.run = runs /\ cur.status \in TERMINAL_QA_STATUSES \cup Retryable
    BY <1>0, <1>5 DEF AppendRow, TypeOK, Line, IInv, RowFirst
  <2>2. \A l \in kept' : l.status \in Admitted
    BY <1>5 DEF AppendRow, Keeps, NoneLost
  <2>3. \A w : Final(w) # {} => Final(w)' # {}
    BY <1>0, <1>5, AppendFinal
  <2>4. \A w : TriedNow(w) => TriedNow(w)'
    BY <1>5, <2>1 DEF AppendRow, TriedNow
  <2>5. \A w : w = cur.w => Final(w)' # {} \/ TriedNow(w)'
    <3>1. CASE cur.status \in TERMINAL_QA_STATUSES
      <4>1. \A w : w = cur.w => Final(w)' = Final(w) \cup {<<cur.run, cur.status>>}
        BY <1>0, <1>5, <3>1, AppendFinal
      <4> QED
        BY <4>1
    <3>2. CASE cur.status \in Retryable
      <4>1. dropped' = dropped \cup {cur}
        BY <1>5, <3>2 DEF AppendRow, Keeps, Admitted, Retryable
      <4> QED
        BY <2>1, <3>2, <4>1 DEF TriedNow
    <3> QED
      BY <2>1, <3>1, <3>2
  <2>6. \A w : LeftBehind(w)' = LeftBehind(w)
    BY <2>1 DEF LeftBehind, Last, Of, Orphan, TERMINAL_QA_STATUSES, Admitted
  <2> QED
    BY <2>1, <2>2, <2>3, <2>4, <2>5, <2>6 DEF NoneLost, Clearing
<1>6. CASE AppendDecision
  <2>1. /\ pc = "logging" /\ pc' = "running" /\ quality' = quality \cup {cur} /\ cur \in Line /\ cur.run = runs
        /\ IF cur.status \in Admitted THEN cur \in kept ELSE cur \in dropped
        /\ UNCHANGED <<input, kept, dropped, pending, runs, emptied>>
    BY <1>0, <1>6 DEF AppendDecision, TypeOK, IInv, RowFirst
  <2>2. \A w : Final(w)' = Final(w) /\ TriedNow(w)' = TriedNow(w)
    BY <2>1, SameFinal DEF TriedNow
  <2>3. \A w : w = cur.w => Final(w) # {} \/ TriedNow(w)
    <3>1. CASE cur.status \in TERMINAL_QA_STATUSES
      BY <2>1, <3>1, LineIsFinal
    <3>2. CASE cur.status \notin TERMINAL_QA_STATUSES
      BY <2>1, <3>2 DEF Line, TriedNow, Admitted, TERMINAL_QA_STATUSES, Retryable
    <3> QED
      BY <3>1, <3>2
  <2>4. \A w : w # cur.w => LeftBehind(w)' = LeftBehind(w)
    BY <2>1 DEF LeftBehind, Last, Of, Orphan, TERMINAL_QA_STATUSES, Admitted
  <2> QED
    BY <2>1, <2>2, <2>3, <2>4 DEF NoneLost, Clearing
<1>7. CASE Return \/ Kill \/ UNCHANGED vars
  <2>1. /\ UNCHANGED <<input, kept, dropped, quality, runs, emptied>>
        /\ \/ pc' = "off"
           \/ pc = "running" /\ pc' = "returned" /\ pending' = pending
           \/ pc' = pc /\ pending' = pending /\ cur' = cur
        /\ pc' = "returned" => pending' = {}
    BY <1>7 DEF Return, Kill, vars, files, NoneLost
  <2>2. \A w : Final(w)' = Final(w)
    BY <2>1, SameFinal
  <2>3. \A w : TriedNow(w)' = TriedNow(w) /\ LeftBehind(w)' = LeftBehind(w)
    BY <2>1 DEF TriedNow, LeftBehind, Last, Of, Orphan, TERMINAL_QA_STATUSES, Admitted
  <2> QED
    BY <2>1, <2>2, <2>3 DEF NoneLost, Clearing
<1> QED
  BY <1>1, <1>2, <1>3, <1>4, <1>5, <1>6, <1>7 DEF Next

\* When stage 2 returns, each row of its input has a final verdict, a failure
\* of this very run, or a decision that outlived its file in a start killed
\* while it cleared, for any input, starts and kills.
THEOREM EveryRowTriedEver == Spec => []EveryRowTried
<1>1. NoneLost => EveryRowTried
  <2> SUFFICES ASSUME NoneLost, pc = "returned", NEW w \in input, Final(w) = {}, ~LeftBehind(w)
               PROVE  \E l \in Of(dropped, w) : l.run = runs /\ l.status \in Retryable
    BY DEF EveryRowTried, LeftBehind
  <2>1. TriedNow(w)
    BY DEF NoneLost, Clearing
  <2> QED
    BY <2>1 DEF TriedNow, Of
<1>2. Spec => []NoneLost
  BY Inductive, NoneLostInit, NoneLostStep, PTL DEF Spec
<1> QED
  BY <1>1, <1>2, PTL
=============================================================================
