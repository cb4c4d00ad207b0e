------------------------ MODULE PassageStage_proofs ------------------------
(* What the statuses of stages 1B and 1C say of the rows, and that a       *)
(* passage has the rows of one run, for any passages, starts and kills.    *)
EXTENDS PassageStage, FiniteSetTheorems, SequenceTheorems, TLAPS

Busy == pc \in {"running", "writing", "logging"}
Writing == pc \in {"writing", "logging"}

\* What is collected is of this run, and no line of the log is of a later one.
RunsInOrder ==
    /\ runs \in 0..MaxRuns
    /\ pc # "off" => runs > 0
    /\ Writing => cur.run = runs
    /\ \A l \in log : l.run <= runs
    /\ emptied <= runs
    /\ pc = "clearing" => emptied = runs /\ \A l \in log : l.run < runs

\* The list in memory is the row file, as long as a program runs.
MemIsFile == pc # "off" => mem = rows

\* The row file is empty until the status file is unlinked too.
Cleared == pc = "clearing" => rows = <<>>

\* Only a passage with rows is logged as complete.
RowsMeanComplete ==
    /\ \A l \in log : l.n > 0 => l.status = "complete"
    /\ Writing /\ cur.n > 0 => cur.status = "complete"

\* A passage that is to be generated, or whose rows are being written, has none.
NoRowsYet ==
    /\ Busy => \A p \in pending : RowsOf(rows, p) = {}
    /\ pc = "writing" => RowsOf(rows, cur.p) = {}
    /\ Writing => cur.p \notin pending

\* The rows of the passage whose status comes next are in the file.
RowsFirst == pc = "logging" /\ cur.n > 0 => Cardinality(RowsOf(rows, cur.p)) = cur.n

\* A passage that is neither pending nor in hand has rows or a status.
Accounted ==
    Busy \/ pc = "returned" => \A p \in Passages \ pending :
        (Writing /\ p = cur.p) \/ RowsOf(rows, p) # {} \/ \E l \in Latest(p) : l.n = 0

AllCollected == pc = "returned" => pending = {}

IInv ==
    /\ TypeOK /\ RunsInOrder /\ Cleared /\ RowsMeanComplete /\ MemIsFile /\ NoRowsYet /\ RowsFirst
    /\ StatusBacked /\ Accounted /\ AllCollected

---------------------------------------------------------------------------

\* k rows of the passage in hand, appended: their lines, and the lines before.
LEMMA AppendedRows ==
  ASSUME NEW file \in Seq(Line), NEW k \in Nat, cur \in Result
  PROVE  LET new == file \o Lines(k) IN
         /\ new \in Seq(Line)
         /\ \A p : RowsOf(new, p) =
                IF p = cur.p THEN RowsOf(file, p) \cup (Len(file) + 1)..(Len(file) + k) ELSE RowsOf(file, p)
         /\ \A i \in DOMAIN file : new[i] = file[i]
         /\ \A i \in (Len(file) + 1)..(Len(file) + k) : new[i].run = cur.run
<1> DEFINE new == file \o Lines(k)
<1>1. Lines(k) \in [1..k -> Line]
  BY DEF Lines, Result, Line
<1>2. Lines(k) \in Seq(Line) /\ Len(Lines(k)) = k
  BY <1>1, SeqDef
<1>3. /\ new \in Seq(Line) /\ Len(new) = Len(file) + k
      /\ \A i \in 1..Len(new) : new[i] = IF i <= Len(file) THEN file[i] ELSE Lines(k)[i - Len(file)]
  BY <1>2, ConcatProperties
<1>4. DOMAIN new = 1..(Len(file) + k) /\ DOMAIN file = 1..Len(file) /\ Len(file) \in Nat
  BY <1>3
<1>5. \A i \in (Len(file) + 1)..(Len(file) + k) :
        /\ i \in 1..Len(new) /\ ~(i <= Len(file)) /\ i - Len(file) \in 1..k
        /\ new[i] = [p |-> cur.p, run |-> cur.run]
  BY <1>3, <1>4 DEF Lines
<1>6. \A i \in 1..Len(file) : new[i] = file[i]
  BY <1>3, <1>4
<1> HIDE DEF new
<1>7. \A p : RowsOf(new, p) =
           IF p = cur.p THEN RowsOf(file, p) \cup (Len(file) + 1)..(Len(file) + k) ELSE RowsOf(file, p)
  BY <1>4, <1>5, <1>6 DEF RowsOf
<1> QED
  BY <1>3, <1>4, <1>5, <1>6, <1>7 DEF new

\* A file without rows of a passage gets as many as are appended.
LEMMA AppendedCount ==
  ASSUME NEW file \in Seq(Line), NEW k \in Nat, cur \in Result, RowsOf(file, cur.p) = {}
  PROVE  Cardinality(RowsOf(file \o Lines(k), cur.p)) = k
<1>1. RowsOf(file \o Lines(k), cur.p) = (Len(file) + 1)..(Len(file) + k)
  BY AppendedRows
<1>2. Len(file) \in Nat
  OBVIOUS
<1>3. Cardinality((Len(file) + 1)..(Len(file) + k)) = k
  BY <1>2, FS_Interval
<1> QED
  BY <1>1, <1>3

LEMMA InitInv == Init => IInv
<1> SUFFICES ASSUME Init PROVE IInv
  OBVIOUS
<1>1. TypeOK
  <2>1. rows \in Seq(Line) /\ mem \in Seq(Line) /\ log \subseteq Result
    BY DEF Init
  <2>2. pc \in PCs /\ pc \notin {"writing", "logging"} /\ cur = Nothing
    BY DEF Init, PCs
  <2>3. /\ stage \in {"1b", "1c"} /\ tornRows \in BOOLEAN /\ tornLog \in BOOLEAN /\ marked \in BOOLEAN
        /\ pending \subseteq Passages /\ runs \in Nat /\ emptied \in Nat
    BY DEF Init
  <2> QED
    BY <2>1, <2>2, <2>3 DEF TypeOK
<1>2. /\ RunsInOrder /\ Cleared /\ RowsMeanComplete /\ MemIsFile /\ NoRowsYet /\ RowsFirst
      /\ StatusBacked /\ Accounted /\ AllCollected
  BY BoundAssumption DEF Init, Cleared, RowsMeanComplete, RunsInOrder, MemIsFile, NoRowsYet, RowsFirst, StatusBacked, Accounted,
     AllCollected, Busy, Writing
<1> QED
  BY <1>1, <1>2 DEF IInv

\* A start that empties the files, the rows first.
LEMMA ClearKeeps ==
  ASSUME IInv, ClearRows \/ ClearLog
  PROVE  IInv'
<1> USE BoundAssumption DEF IInv, RunsInOrder, AllCollected, Idle, Busy, Writing
<1>1. CASE ClearRows
  <2>1. /\ pc \in {"off", "done"} /\ runs < MaxRuns /\ rows' = <<>> /\ tornRows' = FALSE /\ mem' = <<>>
        /\ pc' = "clearing" /\ runs' = runs + 1 /\ emptied' = runs + 1
        /\ UNCHANGED <<stage, log, tornLog, marked, pending, cur>>
    BY <1>1 DEF ClearRows
  <2>2. runs \in Nat /\ emptied \in Nat /\ runs + 1 \in 1..MaxRuns
    BY <2>1 DEF TypeOK
  <2>3. \A l \in log : l.run \in Nat /\ l.run < runs + 1
    BY <2>2 DEF TypeOK, Result
  <2>4. TypeOK'
    <3>1. rows' \in Seq(Line) /\ mem' \in Seq(Line) /\ log' \subseteq Result /\ stage' \in {"1b", "1c"}
      BY <2>1 DEF TypeOK
    <3>2. tornRows' \in BOOLEAN /\ tornLog' \in BOOLEAN /\ marked' \in BOOLEAN /\ pending' \subseteq Passages
      BY <2>1 DEF TypeOK
    <3>3. pc' \in PCs /\ pc' \notin {"writing", "logging"} /\ cur' = Nothing /\ runs' \in Nat /\ emptied' \in Nat
      BY <2>1, <2>2 DEF TypeOK, PCs
    <3> QED
      BY <3>1, <3>2, <3>3 DEF TypeOK
  <2>5. RunsInOrder'
    BY <2>1, <2>2, <2>3
  <2>6. Cleared' /\ RowsMeanComplete' /\ MemIsFile' /\ NoRowsYet' /\ RowsFirst' /\ Accounted' /\ AllCollected'
    BY <2>1 DEF Cleared, RowsMeanComplete, MemIsFile, NoRowsYet, RowsFirst, Accounted
  <2>7. StatusBacked'
    BY <2>1, <2>3 DEF StatusBacked
  <2> QED
    BY <2>4, <2>5, <2>6, <2>7
<1>2. CASE ClearLog
  <2>1. /\ pc = "clearing" /\ rows = <<>> /\ log' = {} /\ tornLog' = FALSE /\ pending' = Passages
        /\ pc' \in {"running", "returned"} /\ (pc' = "returned" => Passages = {})
        /\ UNCHANGED <<stage, rows, tornRows, marked, cur, mem, runs, emptied>>
    BY <1>2 DEF ClearLog, Cleared
  <2>2. TypeOK'
    <3>1. rows' \in Seq(Line) /\ mem' \in Seq(Line) /\ log' \subseteq Result /\ stage' \in {"1b", "1c"}
      BY <2>1 DEF TypeOK
    <3>2. tornRows' \in BOOLEAN /\ tornLog' \in BOOLEAN /\ marked' \in BOOLEAN /\ pending' \subseteq Passages
      BY <2>1 DEF TypeOK
    <3>3. pc' \in PCs /\ pc' \notin {"writing", "logging"} /\ cur' = Nothing /\ runs' \in Nat /\ emptied' \in Nat
      BY <2>1 DEF TypeOK, PCs
    <3> QED
      BY <3>1, <3>2, <3>3 DEF TypeOK
  <2>3. \A p : RowsOf(rows', p) = {}
    BY <2>1 DEF RowsOf
  <2>4. RunsInOrder' /\ Cleared' /\ RowsMeanComplete' /\ MemIsFile'
    BY <2>1 DEF Cleared, RowsMeanComplete, MemIsFile
  <2>5. NoRowsYet' /\ RowsFirst' /\ StatusBacked'
    BY <2>1, <2>3 DEF NoRowsYet, RowsFirst, StatusBacked
  <2>6. Accounted' /\ AllCollected'
    BY <2>1 DEF Accounted
  <2> QED
    BY <2>2, <2>4, <2>5, <2>6
<1> QED
  BY <1>1, <1>2

\* A start that reads the files.
LEMMA StartKeeps ==
  ASSUME IInv, SkipDone \/ Resume \/ ReadFails
  PROVE  IInv'
<1> USE BoundAssumption DEF IInv, RunsInOrder, AllCollected, Idle, Busy, Writing, files, Cleared, RowsMeanComplete,
        Backed
<1>0. TypeOK /\ StatusBacked /\ pc \in {"off", "done"} /\ runs < MaxRuns /\ cur = Nothing /\ cur' = cur
      /\ runs' = runs + 1 /\ runs' \in 1..MaxRuns /\ emptied' = emptied /\ emptied \in Nat /\ emptied <= runs + 1
  BY DEF TypeOK, SkipDone, Resume, ReadFails
<1>01. \A l \in log : l.run <= runs + 1
  BY DEF TypeOK, Result
<1>1. CASE SkipDone
  <2>1. UNCHANGED <<rows, log, stage, pending, tornRows, tornLog, marked>> /\ mem' = rows /\ pc' = "done"
    BY <1>1 DEF SkipDone
  <2>2. TypeOK'
    BY <1>0, <2>1 DEF TypeOK, PCs
  <2>3. RunsInOrder' /\ Cleared' /\ RowsMeanComplete' /\ MemIsFile'
    BY <1>0, <1>01, <2>1 DEF MemIsFile
  <2>4. NoRowsYet' /\ RowsFirst' /\ StatusBacked' /\ Accounted' /\ AllCollected'
    BY <1>0, <2>1 DEF NoRowsYet, RowsFirst, StatusBacked, Accounted
  <2> QED
    BY <2>2, <2>3, <2>4
<1>2. CASE Resume
  <2>1. /\ UNCHANGED <<rows, log, stage, tornRows, tornLog, marked>> /\ mem' = rows
        /\ pending' = {p \in Passages : ~Settled(p)} /\ pc' \in {"running", "returned"}
        /\ (pc' = "returned" => pending' = {})
    BY <1>2 DEF Resume, KnownRows
  <2>2. TypeOK'
    BY <1>0, <2>1 DEF TypeOK, PCs
  <2>3. \A p \in pending' : RowsOf(rows, p) = {}
    BY <2>1 DEF Settled
  <2>4. \A p \in Passages \ pending' : RowsOf(rows, p) # {} \/ \E l \in Latest(p) : l.n = 0
    <3>1. ASSUME NEW p \in Passages, NEW l \in Latest(p), l.status \in Terminal PROVE l.n = 0
      <4>1. l \in log /\ l.status # "complete" /\ l.n \in 0..MaxPairs
        BY <3>1 DEF Latest, Terminal, Terminal1b, Terminal1c, TypeOK, Result
      <4> QED
        BY <4>1
    <3> QED
      BY <2>1, <3>1 DEF Settled
  <2>5. \A p \in Passages : Latest(p)' = Latest(p)
    BY <2>1 DEF Latest
  <2>6. RunsInOrder' /\ Cleared' /\ RowsMeanComplete' /\ MemIsFile'
    BY <1>0, <1>01, <2>1 DEF MemIsFile
  <2>7. NoRowsYet' /\ RowsFirst' /\ StatusBacked'
    BY <1>0, <2>1, <2>3 DEF NoRowsYet, RowsFirst, StatusBacked
  <2>8. Accounted' /\ AllCollected'
    BY <2>1, <2>4, <2>5 DEF Accounted
  <2> QED
    BY <2>2, <2>6, <2>7, <2>8
<1>3. CASE ReadFails
  <2>1. UNCHANGED <<rows, log, stage, pending, tornRows, tornLog, marked>> /\ mem' = <<>> /\ pc' = "off"
    BY <1>3 DEF ReadFails
  <2>2. TypeOK'
    BY <1>0, <2>1 DEF TypeOK, PCs
  <2>3. RunsInOrder' /\ Cleared' /\ RowsMeanComplete' /\ MemIsFile'
    BY <1>0, <1>01, <2>1 DEF MemIsFile
  <2>4. NoRowsYet' /\ RowsFirst' /\ StatusBacked' /\ Accounted' /\ AllCollected'
    BY <1>0, <2>1 DEF NoRowsYet, RowsFirst, StatusBacked, Accounted
  <2> QED
    BY <2>2, <2>3, <2>4
<1> QED
  BY <1>1, <1>2, <1>3

\* What a worker made of a passage is taken in hand.
LEMMA CollectKeeps ==
  ASSUME IInv, NEW p \in Passages, Collect(p) \/ CollectException(p)
  PROVE  IInv'
<1> USE BoundAssumption DEF Cleared, RowsMeanComplete, Backed, IInv, RunsInOrder, AllCollected, Busy, Writing, files
<1>1. PICK o \in [status : Statuses, n : 0..MaxPairs] :
        pc = "running" /\ p \in pending /\ Finished(p, o) /\ (o.n > 0 => o.status = "complete")
  BY DEF Collect, CollectException, Outcomes, Outcomes1b, Outcomes1c, Statuses, NoRowStatuses1b, NoRowStatuses1c
<1>2. /\ cur' = [p |-> p, status |-> o.status, n |-> o.n, run |-> runs] /\ pending' = pending \ {p}
      /\ pc' \in {"writing", "logging"} /\ (pc' = "logging" => ~(o.n > 0))
      /\ UNCHANGED <<rows, log, mem, stage, tornRows, tornLog, marked, runs, emptied>>
  BY <1>1 DEF Finished, AfterCollect
<1>3. cur' \in Result /\ runs \in Nat
  BY <1>2 DEF Result, TypeOK
<1>4. TypeOK'
  BY <1>2, <1>3 DEF TypeOK, PCs
<1>5. Accounted'
  <2>1. \A q \in Passages \ pending' : q = p \/ q \in Passages \ pending
    BY <1>2
  <2>2. \A q : Latest(q)' = Latest(q) /\ RowsOf(rows', q) = RowsOf(rows, q)
    BY <1>2 DEF Latest
  <2> QED
    BY <1>1, <1>2, <2>1, <2>2 DEF Accounted
<1> QED
  BY <1>1, <1>2, <1>3, <1>4, <1>5 DEF MemIsFile, NoRowsYet, RowsFirst, StatusBacked

\* The rows are written, all of them or, in a kill, the first k.
LEMMA RowsKeep ==
  ASSUME IInv, pc = "writing", NEW k \in Nat, rows' = rows \o Lines(k), log' = log, emptied' = emptied
  PROVE  /\ rows' \in Seq(Line)
         /\ StatusBacked'
         /\ \A p : p # cur.p => RowsOf(rows', p) = RowsOf(rows, p)
         /\ \A p : RowsOf(rows, p) # {} => RowsOf(rows', p) # {}
         /\ Cardinality(RowsOf(rows', cur.p)) = k
<1>1. rows \in Seq(Line) /\ cur \in Result /\ RowsOf(rows, cur.p) = {}
  BY DEF IInv, TypeOK, NoRowsYet
<1>2. /\ rows' \in Seq(Line)
      /\ \A p : p # cur.p => RowsOf(rows', p) = RowsOf(rows, p)
      /\ \A p : RowsOf(rows, p) # {} => RowsOf(rows', p) # {}
  BY <1>1, AppendedRows
<1>3. Cardinality(RowsOf(rows', cur.p)) = k
  BY <1>1, AppendedCount
<1>4. \A l \in log : l.n > 0 => l.p # cur.p \/ l.run < emptied
  <2>1. Cardinality(RowsOf(rows, cur.p)) = 0
    BY <1>1, FS_EmptySet
  <2> QED
    BY <2>1 DEF IInv, StatusBacked, Backed
<1>5. StatusBacked'
  BY <1>2, <1>4 DEF IInv, StatusBacked, Backed
<1> QED
  BY <1>2, <1>3, <1>5

LEMMA AppendRowsKeeps ==
  ASSUME IInv, AppendRows
  PROVE  IInv'
<1> USE BoundAssumption DEF Cleared, RowsMeanComplete, Backed, IInv, RunsInOrder, AllCollected, Busy, Writing
<1>1. /\ pc = "writing" /\ pc' = "logging" /\ rows' = rows \o Lines(cur.n) /\ mem' = mem \o Lines(cur.n)
      /\ UNCHANGED <<stage, tornRows, log, tornLog, marked, pending, cur, runs, emptied>>
  BY DEF AppendRows
<1>2. cur \in Result /\ cur.n \in Nat
  BY <1>1 DEF TypeOK, Result
<1>3. /\ rows' \in Seq(Line) /\ StatusBacked' /\ Cardinality(RowsOf(rows', cur.p)) = cur.n
      /\ \A p : p # cur.p => RowsOf(rows', p) = RowsOf(rows, p)
      /\ \A p : RowsOf(rows, p) # {} => RowsOf(rows', p) # {}
  BY <1>1, <1>2, RowsKeep
<1>4. mem' = rows'
  BY <1>1 DEF MemIsFile
<1>5. TypeOK'
  BY <1>1, <1>3, <1>4 DEF TypeOK, PCs
<1>6. Accounted'
  <2>1. \A q : Latest(q)' = Latest(q)
    BY <1>1 DEF Latest
  <2> QED
    BY <1>1, <1>3, <2>1 DEF Accounted
<1> QED
  BY <1>1, <1>2, <1>3, <1>4, <1>5, <1>6 DEF MemIsFile, NoRowsYet, RowsFirst

LEMMA AppendStatusKeeps ==
  ASSUME IInv, AppendStatus
  PROVE  IInv'
<1> USE BoundAssumption DEF Cleared, RowsMeanComplete, Backed, IInv, RunsInOrder, AllCollected, Busy, Writing
<1>1. /\ pc = "logging" /\ pc' = "running" /\ log' = log \cup {cur} /\ cur' = Nothing
      /\ UNCHANGED <<stage, rows, tornRows, tornLog, marked, pending, mem, runs, emptied>>
  BY DEF AppendStatus
<1>2. cur \in Result /\ cur.run = runs /\ runs \in Nat
  BY <1>1 DEF TypeOK, PCs
<1>3. TypeOK'
  BY <1>1, <1>2 DEF TypeOK, PCs
<1>4. RunsInOrder'
  BY <1>1, <1>2
<1>5. StatusBacked'
  BY <1>1 DEF StatusBacked, RowsFirst
<1>6. Accounted'
  <2>1. \A q : q = cur.p => cur \in Latest(q)'
    <3>1. \A l \in log' : l.run <= cur.run
      BY <1>1, <1>2
    <3> QED
      BY <1>1, <3>1 DEF Latest
  <2>2. \A q : q # cur.p => Latest(q)' = Latest(q)
    BY <1>1 DEF Latest
  <2>3. cur.n = 0 \/ RowsOf(rows, cur.p) # {}
    <3>1. cur.n \in Nat
      BY <1>2 DEF Result
    <3>2. cur.n > 0 => Cardinality(RowsOf(rows, cur.p)) = cur.n
      BY <1>1 DEF RowsFirst
    <3>3. CASE cur.n > 0
      <4>1. Cardinality(RowsOf(rows, cur.p)) # 0
        BY <3>1, <3>2, <3>3
      <4>2. Cardinality({}) = 0
        BY FS_EmptySet
      <4> QED
        BY <4>1, <4>2
    <3>4. CASE ~(cur.n > 0)
      BY <3>1, <3>4
    <3> QED
      BY <3>3, <3>4
  <2>4. ASSUME NEW q \in Passages \ pending' PROVE RowsOf(rows, q)' # {} \/ \E l \in Latest(q)' : l.n = 0
    <3>1. CASE q = cur.p
      BY <1>1, <2>1, <2>3, <3>1
    <3>2. CASE q # cur.p
      BY <1>1, <2>2, <2>4, <3>2 DEF Accounted
    <3> QED
      BY <3>1, <3>2
  <2> QED
    BY <2>4 DEF Accounted
<1> QED
  BY <1>1, <1>3, <1>4, <1>5, <1>6 DEF MemIsFile, NoRowsYet, RowsFirst

\* A kill forgets what is in memory; it may leave some rows of the passage.
LEMMA KillKeeps ==
  ASSUME IInv, Kill \/ KillInRows \/ KillInStatus
  PROVE  IInv'
<1> USE BoundAssumption DEF Cleared, RowsMeanComplete, Backed, IInv, RunsInOrder, AllCollected, Busy, Writing, Killed, files
<1>1. /\ pc' = "off" /\ pending' = {} /\ cur' = Nothing /\ mem' = <<>>
      /\ UNCHANGED <<stage, log, marked, runs, emptied>>
  BY DEF Kill, KillInRows, KillInStatus
<1>2. rows' \in Seq(Line) /\ StatusBacked' /\ tornRows' \in BOOLEAN /\ tornLog' \in BOOLEAN
  <2>1. CASE Kill \/ KillInStatus
    BY <2>1 DEF Kill, KillInStatus, TypeOK, StatusBacked
  <2>2. CASE KillInRows
    <3>1. PICK k \in 0..cur.n - 1 : rows' = rows \o Lines(k)
      BY <2>2 DEF KillInRows
    <3>2. pc = "writing" /\ tornLog' = tornLog /\ tornRows' \in BOOLEAN
      BY <2>2 DEF KillInRows
    <3>3. cur \in Result /\ k \in Nat
      BY <3>2 DEF TypeOK, Result
    <3> QED
      BY <1>1, <3>1, <3>2, <3>3, RowsKeep DEF TypeOK, PCs
  <2> QED
    BY <2>1, <2>2
<1>3. TypeOK'
  BY <1>1, <1>2 DEF TypeOK, PCs
<1> QED
  BY <1>1, <1>2, <1>3 DEF MemIsFile, NoRowsYet, RowsFirst, Accounted

LEMMA StepInv == IInv /\ [Next]_vars => IInv'
<1> SUFFICES ASSUME IInv, [Next]_vars PROVE IInv'
  OBVIOUS
<1>1. CASE Return
  BY <1>1 DEF Return, IInv, TypeOK, RunsInOrder, Cleared, RowsMeanComplete, MemIsFile, NoRowsYet, RowsFirst,
     StatusBacked, Backed, Accounted, AllCollected, Busy, Writing, Latest, PCs, files
<1>2. CASE MarkDone
  BY <1>2 DEF MarkDone, IInv, TypeOK, RunsInOrder, Cleared, RowsMeanComplete, MemIsFile, NoRowsYet, RowsFirst,
     StatusBacked, Backed, Accounted, AllCollected, Busy, Writing, Latest, PCs, files
<1>3. CASE UNCHANGED vars
  BY <1>3 DEF vars, IInv, TypeOK, RunsInOrder, Cleared, RowsMeanComplete, MemIsFile, NoRowsYet, RowsFirst,
     StatusBacked, Backed, Accounted, AllCollected, Busy, Writing, Latest, PCs, files
<1> QED
  BY <1>1, <1>2, <1>3, ClearKeeps, StartKeeps, CollectKeeps, AppendRowsKeeps, AppendStatusKeeps, KillKeeps DEF Next

LEMMA Inductive == Spec => []IInv
BY InitInv, StepInv, PTL DEF Spec

---------------------------------------------------------------------------

\* The state variables have their types in every behaviour.
THEOREM TypeCorrect == Spec => []TypeOK
<1>1. IInv => TypeOK
  BY DEF IInv
<1> QED
  BY <1>1, Inductive, PTL

\* Wherever a run is killed, a status of rows has its rows in the row file
\* unless that file was unlinked after it, by a run killed before it unlinked
\* the statuses; and a stage that returns has rows or a word on every passage.
THEOREM StatusesTrue == Spec => []StatusFileTrue
<1>1. IInv => StatusFileTrue
  BY DEF IInv, StatusFileTrue, EveryPassageAccounted, Accounted, AllCollected, Busy, Writing
<1> QED
  BY <1>1, Inductive, PTL

\* What a stage returns is its file, line by line.
THEOREM ReturnsItsFile == Spec => []ReturnedIsFile
<1>1. IInv => ReturnedIsFile
  BY DEF IInv, ReturnedIsFile, MemIsFile
<1> QED
  BY <1>1, Inductive, PTL

\* The stages keep RecordOnce's promise: the rows of a passage are those of one
\* run, wherever it was killed, until a run starts over.
THEOREM RowsOfOneRunEver == Spec => RowsOfOneRun
<1> DEFINE out == [p \in Passages |-> Runs(p)]
<1>1. Init => Kept!Init
  <2> SUFFICES ASSUME Init PROVE out = [p \in Passages |-> {}]
    BY DEF Kept!Init
  <2>1. \A p : Runs(p) = {}
    BY DEF Init, Runs, RowsOf
  <2> QED
    BY <2>1
<1>2. IInv /\ [Next]_vars => [Kept!Next]_out
  <2> SUFFICES ASSUME IInv, [Next]_vars PROVE Kept!Next \/ out' = out
    OBVIOUS
  <2>1. CASE rows' = <<>>
    <3>1. \A p : Runs(p)' = {}
      BY <2>1 DEF Runs, RowsOf
    <3>2. out' = [p \in Passages |-> {}]
      BY <3>1
    <3>3. Kept!StartOver
      BY <3>2 DEF Kept!StartOver
    <3> QED
      BY <3>3 DEF Kept!Next
  <2>2. ASSUME NEW k \in Nat, pc = "writing", rows' = rows \o Lines(k)
        PROVE  Kept!Next \/ out' = out
    <3>1. rows \in Seq(Line) /\ cur \in Result /\ RowsOf(rows, cur.p) = {} /\ cur.run \in 1..MaxRuns
      BY <2>2 DEF IInv, TypeOK, NoRowsYet, RunsInOrder, Writing
    <3>2. cur.p \in Passages
      BY <3>1 DEF Result
    <3>3. /\ \A p : RowsOf(rows', p) = IF p = cur.p THEN (Len(rows) + 1)..(Len(rows) + k) ELSE RowsOf(rows, p)
          /\ \A i \in DOMAIN rows : rows'[i] = rows[i]
          /\ \A i \in (Len(rows) + 1)..(Len(rows) + k) : rows'[i].run = cur.run
      BY <2>2, <3>1, AppendedRows
    <3>4. ASSUME NEW p, p # cur.p PROVE Runs(p)' = Runs(p)
      <4>1. RowsOf(rows', p) = RowsOf(rows, p) /\ RowsOf(rows, p) \subseteq DOMAIN rows
        BY <3>3, <3>4 DEF RowsOf
      <4>2. \A i \in RowsOf(rows, p) : rows'[i].run = rows[i].run
        BY <3>3, <4>1
      <4>3. {rows'[i].run : i \in RowsOf(rows, p)} = {rows[i].run : i \in RowsOf(rows, p)}
        BY <4>2
      <4> QED
        BY <4>1, <4>3 DEF Runs
    <3>5. Runs(cur.p) = {}
      BY <3>1 DEF Runs
    <3>6. CASE k = 0
      <4>1. {rows'[i].run : i \in RowsOf(rows', cur.p)} = {}
        BY <3>1, <3>3, <3>6
      <4>2. \A p \in Passages : {rows'[i].run : i \in RowsOf(rows', p)} = Runs(p)
        BY <3>4, <3>5, <4>1 DEF Runs
      <4>3. \A p \in Passages : Runs(p)' = Runs(p)
        BY <4>2 DEF Runs
      <4> QED
        BY <4>3
    <3>7. CASE k > 0
      <4>1. {rows'[i].run : i \in RowsOf(rows', cur.p)} = {cur.run}
        <5>1. Len(rows) + 1 \in (Len(rows) + 1)..(Len(rows) + k)
          BY <3>1, <3>7
        <5> QED
          BY <3>3, <5>1
      <4>2. \A p \in Passages : {rows'[i].run : i \in RowsOf(rows', p)} = IF p = cur.p THEN {cur.run} ELSE Runs(p)
        BY <3>4, <4>1 DEF Runs
      <4>3. out' = [out EXCEPT ![cur.p] = {cur.run}]
        BY <4>2 DEF Runs
      <4>4. Kept!Record(cur.p)
        BY <3>1, <3>2, <3>5, <4>3 DEF Kept!Record
      <4> QED
        BY <3>2, <4>4 DEF Kept!Next
    <3> QED
      BY <3>6, <3>7
  <2>3. CASE rows' = rows
    <3>1. \A p \in Passages : Runs(p)' = Runs(p)
      BY <2>3 DEF Runs, RowsOf
    <3> QED
      BY <3>1
  <2>4. CASE AppendRows
    <3>1. cur.n \in Nat
      BY <2>4 DEF AppendRows, IInv, TypeOK, Result
    <3> QED
      BY <2>2, <2>4, <3>1 DEF AppendRows
  <2>5. CASE KillInRows
    BY <2>2, <2>5 DEF KillInRows
  <2>6. Next => ClearRows \/ AppendRows \/ KillInRows \/ rows' = rows
    BY DEF Next, ClearLog, SkipDone, Resume, ReadFails, Collect, CollectException, Finished, AppendStatus, Return,
       MarkDone, Kill, KillInStatus, files
  <2>7. ClearRows => rows' = <<>>
    BY DEF ClearRows
  <2>8. UNCHANGED vars => rows' = rows
    BY DEF vars, files
  <2> QED
    BY <2>1, <2>3, <2>4, <2>5, <2>6, <2>7, <2>8
<1> QED
  BY <1>1, <1>2, Inductive, PTL DEF Spec, RowsOfOneRun, Kept!Spec
=============================================================================
