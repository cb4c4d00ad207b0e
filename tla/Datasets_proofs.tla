-------------------------- MODULE Datasets_proofs -------------------------
(* Augmentation: a seed on file is not made again, the seed files agree,   *)
(* accepted pairs are new and results are filed under the job that made    *)
(* them. Curation: the files of one run keep training, validation and test *)
(* apart, a passage of one row keeps it, and a golden test set asks        *)
(* nothing that was trained on.                                            *)
EXTENDS Augment, Curation, Integers, FiniteSetTheorems, SequenceTheorems, WellFoundedInduction, TLAPS

---------------------------------------------------------------------------
(* Induction over the natural numbers, from the library's well-founded     *)
(* order, and the functions that recursion defines.                        *)

LEMMA LeastNat ==
  ASSUME NEW T, T \subseteq Nat, T # {}
  PROVE  \E m \in T : \A k \in T : m <= k
<1>1. PICK m \in T : \A k \in T : <<k, m>> \notin OpToRel(<, Nat)
  BY NatLessThanWellFounded, WFMin DEF OpToRel
<1>2. \A k \in T : ~ (k < m)
  BY <1>1 DEF OpToRel
<1> QED
  BY <1>2

LEMMA NatSet ==
  ASSUME NEW T, 0 \in T, \A n \in Nat : n \in T => n + 1 \in T
  PROVE  Nat \subseteq T
<1> SUFFICES ASSUME Nat \ T # {} PROVE FALSE
  OBVIOUS
<1>1. PICK m \in Nat \ T : \A k \in Nat \ T : m <= k
  BY LeastNat
<1>2. m - 1 \in Nat /\ (m - 1) + 1 = m
  BY <1>1
<1>3. m - 1 \in T
  BY <1>1, <1>2
<1> QED
  BY <1>1, <1>2, <1>3

Recurs(f, N, S, a, g) ==
    /\ f \in [0..N -> S]
    /\ f = [k \in 0..N |-> IF k = 0 THEN a ELSE g[<<k, f[k - 1]>>]]

LEMMA Recursion ==
  ASSUME NEW N \in Nat, NEW S, NEW a, NEW g, a \in S, g \in [(1..N) \X S -> S]
  PROVE  \E f : Recurs(f, N, S, a, g)
<1> DEFINE T == {n \in Nat : n <= N => \E f : Recurs(f, n, S, a, g)}
<1>1. 0 \in T
  <2>1. Recurs([k \in 0..0 |-> a], 0, S, a, g)
    BY DEF Recurs
  <2> QED
    BY <2>1
<1>2. ASSUME NEW n \in Nat, n \in T
      PROVE  n + 1 \in T
  <2> SUFFICES ASSUME n + 1 <= N
               PROVE  \E f : Recurs(f, n + 1, S, a, g)
    OBVIOUS
  <2>1. PICK h : Recurs(h, n, S, a, g)
    BY <1>2
  <2> DEFINE e == [k \in 0..n + 1 |-> IF k = n + 1 THEN g[<<n + 1, h[n]>>] ELSE h[k]]
  <2>2. h[n] \in S /\ n + 1 \in 1..N
    BY <2>1 DEF Recurs
  <2>3. g[<<n + 1, h[n]>>] \in S
    BY <2>2
  <2>4. e \in [0..n + 1 -> S]
    BY <2>1, <2>3 DEF Recurs
  <2>5. ASSUME NEW k \in 0..n + 1
        PROVE  e[k] = IF k = 0 THEN a ELSE g[<<k, e[k - 1]>>]
    <3>1. CASE k = n + 1
      <4>1. e[n] = h[n] /\ k - 1 = n /\ k # 0
        BY <3>1
      <4> QED
        BY <3>1, <4>1
    <3>2. CASE k \in 0..n
      <4>1. h[k] = IF k = 0 THEN a ELSE g[<<k, h[k - 1]>>]
        BY <2>1, <3>2 DEF Recurs
      <4>2. k # n + 1 /\ (k # 0 => k - 1 \in 0..n + 1 /\ k - 1 # n + 1)
        BY <3>2
      <4> QED
        BY <3>2, <4>1, <4>2
    <3> QED
      BY <3>1, <3>2
  <2>6. DOMAIN e = 0..n + 1
    OBVIOUS
  <2>7. e = [k \in 0..n + 1 |-> IF k = 0 THEN a ELSE g[<<k, e[k - 1]>>]]
    <3> HIDE DEF e
    <3> QED
      BY <2>4, <2>5, <2>6
  <2>8. Recurs(e, n + 1, S, a, g)
    <3> HIDE DEF e
    <3> QED
      BY <2>4, <2>7 DEF Recurs
  <2> QED
    BY <2>8
<1> HIDE DEF T
<1>3. N \in T
  BY <1>1, <1>2, NatSet
<1> QED
  BY <1>3 DEF T

---------------------------------------------------------------------------
(* Augmentation: the invariant.                                            *)

SeedId == PairSet \X (1..Len(Pairs))
Record == [id : SeedId, pairs : Answers]
Job == [state : {"queued", "ended"}, seeds : SUBSET SeedId, records : Seq(Record)]

Running == pc \in {"making", "rewrite", "csv", "finish"}

SeedingTypes ==
    /\ pc \in {"off", "making", "rewrite", "csv", "finish", "submit", "record"}
    /\ held \in HeldSets
    /\ sel \in Seq(PairSet) /\ Len(sel) <= Len(Pairs)
    /\ pending \subseteq DOMAIN sel /\ (pc # "making" => pending = {})
    /\ mem \subseteq Seed /\ seedFile \subseteq Seed /\ csv \subseteq Seed
    /\ resumable \in BOOLEAN /\ resplit \in BOOLEAN /\ torn \in BOOLEAN
    /\ progress \in {"none", "running", "completed"}
    /\ starts \in 0..MaxStarts /\ (pc = "making" => starts # 0)

ServiceTypes ==
    /\ repo \subseteq SeedId
    /\ jobs \in Seq(Job)
    /\ response \in 0..Len(jobs)
    /\ download.job \in 0..Len(jobs) /\ download.cloned \in 0..Len(jobs)
    /\ clones \subseteq DOMAIN jobs
    /\ collected.job \in 0..Len(jobs)

\* No two records of S have one id.
KnownOnce(S) == \A s, t \in S : Id(s) = Id(t) => s = t

\* A seed is made only where none is on file, and the resumable program
\* writes the file again only with records that are on it.
Paid ==
    /\ KnownOnce(mem) /\ KnownOnce(seedFile)
    /\ pc \in {"making", "rewrite"} /\ resumable => mem \subseteq seedFile
    /\ pc = "making" => resumable /\ \A i \in pending : <<sel[i], i>> \notin Ids(seedFile)

\* The ids of the selection from the pairs that H leaves.
SelectedIds(H, n) == {<<Selected(H, n)[i], i>> : i \in DOMAIN Selected(H, n)}

\* What is in memory are the seeds of the selection but those awaited, and
\* the files get it as it is.
SeedFilesHold ==
    /\ Running =>
          /\ ~resplit /\ \E n \in SeedCounts : sel = Selected(held, n)
          /\ Ids(mem) = {<<sel[i], i>> : i \in DOMAIN sel \ pending}
          /\ resumable => progress = "running"
    /\ pc \in {"csv", "finish"} => seedFile = mem /\ ~torn
    /\ pc = "finish" => csv = mem
    /\ progress = "completed" /\ resumable /\ ~Running =>
          /\ seedFile = csv /\ ~torn
          /\ ~resplit => \E n \in SeedCounts : Ids(seedFile) = SelectedIds(held, n)

\* A clone is of the job that was downloaded, and records are of its seeds.
Filed ==
    /\ download.cloned \in {0, download.job}
    /\ \A j \in DOMAIN jobs : \A k \in DOMAIN jobs[j].records : jobs[j].records[k].id \in jobs[j].seeds
    /\ LineageTrue

\* Generated pairs that no source file has, each once.
NewPairs == {q \in Seq(Generated \ PairSet) : \A k, m \in DOMAIN q : q[k] = q[m] => k = m}

Accepted == collected.accepted \in NewPairs /\ augmented \in NewPairs

AugmentInv == SeedingTypes /\ ServiceTypes /\ Paid /\ SeedFilesHold /\ Filed /\ Accepted

---------------------------------------------------------------------------
(* The loops of the programs.                                              *)

\* load_candidate_rows keeps pairs that H does not hold.
LEMMA CandidatesFree ==
  ASSUME NEW H
  PROVE  /\ CandidateRows(H) \in Seq(PairSet \ H)
         /\ Len(CandidateRows(H)) <= Len(Pairs)
<1> DEFINE N == Len(Pairs)
           S == Seq(PairSet)
           P(f) == f = [k \in 0..N |->
                          IF k = 0 THEN <<>>
                          ELSE IF Pairs[k] \in H THEN f[k - 1] ELSE Append(f[k - 1], Pairs[k])]
           g == [x \in (1..N) \X S |-> IF Pairs[x[1]] \in H THEN x[2] ELSE Append(x[2], Pairs[x[1]])]
           a == <<>>
<1>1. N \in Nat /\ \A k \in 1..N : Pairs[k] \in PairSet
  BY PairAssumption
<1>2. a \in S /\ g \in [(1..N) \X S -> S]
  BY <1>1
<1>3. \A k \in 1..N, q \in S : g[<<k, q>>] = IF Pairs[k] \in H THEN q ELSE Append(q, Pairs[k])
  OBVIOUS
<1>4. PICK e : Recurs(e, N, S, a, g)
  <2> HIDE DEF N, S, g, a
  <2> QED
    BY <1>1, <1>2, Recursion
<1>5. P(e)
  <2>1. \A k \in 0..N : k # 0 => k \in 1..N /\ k - 1 \in 0..N
    BY <1>1
  <2> HIDE DEF N, S, g
  <2> QED
    BY <1>3, <1>4, <2>1 DEF Recurs
<1> DEFINE kept == CHOOSE f : P(f)
<1>6. P(kept)
  BY <1>5
<1>7. CandidateRows(H) = kept[N]
  BY DEF CandidateRows
<1> HIDE DEF kept, N
<1> DEFINE T == {k \in Nat : k <= N => kept[k] \in Seq(PairSet \ H) /\ Len(kept[k]) <= k}
<1>8. 0 \in T
  BY <1>1, <1>6
<1>9. ASSUME NEW n \in Nat, n \in T
      PROVE  n + 1 \in T
  <2> SUFFICES ASSUME n + 1 <= N
               PROVE  kept[n + 1] \in Seq(PairSet \ H) /\ Len(kept[n + 1]) <= n + 1
    OBVIOUS
  <2>1. kept[n] \in Seq(PairSet \ H) /\ Len(kept[n]) <= n
    BY <1>1, <1>9
  <2>2. n + 1 \in 0..N /\ n + 1 # 0 /\ (n + 1) - 1 = n
    BY <1>1
  <2>3. kept[n + 1] = IF Pairs[n + 1] \in H THEN kept[n] ELSE Append(kept[n], Pairs[n + 1])
    BY <1>6, <2>2
  <2>4. Pairs[n + 1] \in PairSet
    BY <1>1
  <2> QED
    BY <2>1, <2>3, <2>4
<1> HIDE DEF T
<1>10. N \in T
  BY <1>1, <1>8, <1>9, NatSet
<1> QED
  BY <1>1, <1>7, <1>10 DEF T, N

LEMMA SelectedFree ==
  ASSUME NEW H \in HeldSets, NEW n \in Nat
  PROVE  /\ Selected(H, n) \in Seq(PairSet \ H)
         /\ Len(Selected(H, n)) <= Len(Pairs)
<1> DEFINE c == CandidateRows(H)
           m == Mixed(c)
<1>1. c \in Seq(PairSet \ H) /\ Len(c) \in Nat /\ Len(c) <= Len(Pairs) /\ Len(Pairs) \in Nat
  BY CandidatesFree, PairAssumption
<1>2. m \in Seq(PairSet \ H) /\ Len(m) = Len(c)
  <2>1. m \in Seq(Range(c)) /\ Len(m) = Len(c)
    BY MixedAssumption
  <2>2. Range(c) \subseteq PairSet \ H
    <3> HIDE DEF c
    <3> QED
      BY <1>1 DEF Range
  <2> HIDE DEF c, m
  <2> QED
    BY <2>1, <2>2
<1>3. /\ n = 0 => Selected(H, n) = c
      /\ n # 0 /\ n > Len(c) => Selected(H, n) = m
      /\ ~ (n = 0 \/ n > Len(c)) => Selected(H, n) = SubSeq(m, 1, n)
  BY DEF Selected
<1> HIDE DEF c, m
<1>4. ASSUME n <= Len(m)
      PROVE  SubSeq(m, 1, n) \in Seq(PairSet \ H) /\ Len(SubSeq(m, 1, n)) = n
  BY <1>2, <1>4, SubSeqProperties
<1> QED
  BY <1>1, <1>2, <1>3, <1>4

\* normalize_records adds pairs that are in no source file, each once.
LEMMA FreshKept ==
  ASSUME NEW q \in NewPairs, NEW p \in Generated, Fresh(p, q)
  PROVE  Append(q, p) \in NewPairs
<1>1. q \in Seq(Generated \ PairSet) /\ Len(q) \in Nat /\ p \in Generated \ PairSet
  BY DEF NewPairs, Fresh
<1>2. \A k \in 1..Len(q) : q[k] # p
  BY <1>1 DEF Fresh, Range
<1>3. Append(q, p) \in Seq(Generated \ PairSet)
  BY <1>1
<1>4. DOMAIN Append(q, p) = 1..Len(q) + 1 /\ \A k \in 1..Len(q) : Append(q, p)[k] = q[k]
  BY <1>1
<1>5. Append(q, p)[Len(q) + 1] = p
  BY <1>1
<1>6. \A k, m \in 1..Len(q) : q[k] = q[m] => k = m
  BY <1>1 DEF NewPairs
<1>7. \A k \in 1..Len(q) + 1 : k \in 1..Len(q) \/ k = Len(q) + 1
  BY <1>1
<1>8. \A k, m \in DOMAIN Append(q, p) : Append(q, p)[k] = Append(q, p)[m] => k = m
  BY <1>2, <1>4, <1>5, <1>6, <1>7
<1> QED
  BY <1>3, <1>8 DEF NewPairs

LEMMA RecordKeepsNew ==
  ASSUME NEW done \in NewPairs, NEW pairs \in Seq(Generated)
  PROVE  AfterRecord(done, pairs) \in NewPairs
<1> DEFINE N == Len(pairs)
           S == NewPairs
           P(f) == f = [i \in 0..N |->
                          IF i = 0 THEN done
                          ELSE IF Fresh(pairs[i], f[i - 1]) THEN Append(f[i - 1], pairs[i]) ELSE f[i - 1]]
           g == [x \in (1..N) \X S |->
                   IF Fresh(pairs[x[1]], x[2]) THEN Append(x[2], pairs[x[1]]) ELSE x[2]]
<1>1. N \in Nat /\ \A i \in 1..N : pairs[i] \in Generated
  OBVIOUS
<1>2. \A i \in 1..N, q \in S : IF Fresh(pairs[i], q) THEN Append(q, pairs[i]) \in S ELSE q \in S
  BY <1>1, FreshKept
<1>3. done \in S /\ g \in [(1..N) \X S -> S]
  BY <1>2
<1>4. \A i \in 1..N, q \in S :
         g[<<i, q>>] = IF Fresh(pairs[i], q) THEN Append(q, pairs[i]) ELSE q
  OBVIOUS
<1>5. PICK e : Recurs(e, N, S, done, g)
  <2> HIDE DEF N, S, g
  <2> QED
    BY <1>1, <1>3, Recursion
<1>6. P(e)
  <2>1. \A i \in 0..N : i # 0 => i \in 1..N /\ i - 1 \in 0..N
    BY <1>1
  <2> HIDE DEF N, S, g
  <2> QED
    BY <1>4, <1>5, <2>1 DEF Recurs
<1> DEFINE upTo == CHOOSE f : P(f)
<1>7. P(upTo)
  BY <1>6
<1>8. AfterRecord(done, pairs) = upTo[N]
  BY DEF AfterRecord
<1> HIDE DEF upTo, N
<1> DEFINE T == {i \in Nat : i <= N => upTo[i] \in S}
<1>9. 0 \in T
  BY <1>1, <1>7
<1>10. ASSUME NEW n \in Nat, n \in T
       PROVE  n + 1 \in T
  <2> SUFFICES ASSUME n + 1 <= N
               PROVE  upTo[n + 1] \in S
    OBVIOUS
  <2>1. upTo[n] \in S
    BY <1>1, <1>10
  <2>2. n + 1 \in 0..N /\ n + 1 \in 1..N /\ n + 1 # 0 /\ (n + 1) - 1 = n
    BY <1>1
  <2>3. upTo[n + 1] = IF Fresh(pairs[n + 1], upTo[n]) THEN Append(upTo[n], pairs[n + 1]) ELSE upTo[n]
    BY <1>7, <2>2
  <2> HIDE DEF S
  <2> QED
    BY <1>2, <2>1, <2>2, <2>3
<1> HIDE DEF T
<1>11. N \in T
  BY <1>1, <1>9, <1>10, NatSet
<1> QED
  BY <1>1, <1>8, <1>11 DEF T

LEMMA AcceptedOfNew ==
  ASSUME NEW records \in Seq(Record)
  PROVE  AcceptedOf(records) \in NewPairs
<1> DEFINE N == Len(records)
           S == NewPairs
           a == <<>>
           P(f) == f = [k \in 0..N |-> IF k = 0 THEN <<>> ELSE AfterRecord(f[k - 1], records[k].pairs)]
           g == [x \in (1..N) \X S |-> AfterRecord(x[2], records[x[1]].pairs)]
<1>1. N \in Nat /\ \A k \in 1..N : records[k].pairs \in Seq(Generated)
  <2>1. N \in Nat /\ \A k \in 1..N : records[k] \in Record
    OBVIOUS
  <2> QED
    BY <2>1, PairAssumption DEF Record
<1>2. \A k \in 1..N, q \in S : AfterRecord(q, records[k].pairs) \in S
  BY <1>1, RecordKeepsNew
<1>3. a \in S
  BY DEF NewPairs
<1>4. a \in S /\ g \in [(1..N) \X S -> S]
  BY <1>2, <1>3
<1>5. \A k \in 1..N, q \in S : g[<<k, q>>] = AfterRecord(q, records[k].pairs)
  OBVIOUS
<1>6. PICK e : Recurs(e, N, S, a, g)
  <2> HIDE DEF N, S, g, a
  <2> QED
    BY <1>1, <1>4, Recursion
<1>7. P(e)
  <2>1. \A k \in 0..N : k # 0 => k \in 1..N /\ k - 1 \in 0..N
    BY <1>1
  <2> HIDE DEF N, S, g
  <2> QED
    BY <1>5, <1>6, <2>1 DEF Recurs
<1> DEFINE upTo == CHOOSE f : P(f)
<1>8. P(upTo)
  BY <1>7
<1>9. AcceptedOf(records) = upTo[N]
  BY DEF AcceptedOf
<1> HIDE DEF upTo, N
<1> DEFINE T == {k \in Nat : k <= N => upTo[k] \in S}
<1>10. 0 \in T
  BY <1>1, <1>3, <1>8
<1>11. ASSUME NEW n \in Nat, n \in T
       PROVE  n + 1 \in T
  <2> SUFFICES ASSUME n + 1 <= N
               PROVE  upTo[n + 1] \in S
    OBVIOUS
  <2>1. upTo[n] \in S
    BY <1>1, <1>11
  <2>2. n + 1 \in 0..N /\ n + 1 \in 1..N /\ n + 1 # 0 /\ (n + 1) - 1 = n
    BY <1>1
  <2>3. upTo[n + 1] = AfterRecord(upTo[n], records[n + 1].pairs)
    BY <1>8, <2>2
  <2> HIDE DEF S
  <2> QED
    BY <1>2, <2>1, <2>2, <2>3
<1> HIDE DEF T
<1>12. N \in T
  BY <1>1, <1>10, <1>11, NatSet
<1> QED
  BY <1>1, <1>9, <1>12 DEF T

---------------------------------------------------------------------------
(* Seeds are finitely many.                                                *)

LEMMA FinitePairs == IsFiniteSet(PairSet) /\ IsFiniteSet(SeedId) /\ Len(Pairs) \in Nat
<1>1. Len(Pairs) \in Nat /\ IsFiniteSet(1..Len(Pairs))
  BY PairAssumption, FS_Interval
<1>2. Pairs \in Surjection(1..Len(Pairs), PairSet)
  BY PairAssumption DEF PairSet, Range, Surjection
<1>3. IsFiniteSet(PairSet)
  BY <1>1, <1>2, FS_Surjection
<1> QED
  BY <1>1, <1>3, FS_Product DEF SeedId

LEMMA FiniteSeeds == IsFiniteSet(Seed)
<1> DEFINE A == 1..Len(Pairs)
           B == 1..MaxStarts
           C == PairSet \X A
           D == Authors \X B
           E == C \X D
           f == [x \in E |-> [pair |-> x[1][1], at |-> x[1][2], author |-> x[2][1], run |-> x[2][2]]]
<1>1. IsFiniteSet(PairSet) /\ IsFiniteSet(A) /\ IsFiniteSet(B)
  BY FinitePairs, FS_Interval, CountAssumption
<1>2. IsFiniteSet(Authors)
  <2>1. IsFiniteSet({"llm"}) /\ IsFiniteSet({"heuristic"})
    BY FS_Singleton
  <2>2. Authors = {"llm"} \cup {"heuristic"}
    BY DEF Authors
  <2> QED
    BY <2>1, <2>2, FS_Union
<1>3. f \in [E -> Seed]
  BY DEF Seed
<1>4. ASSUME NEW s \in Seed
      PROVE  \E x \in E : f[x] = s
  <2>1. <<<<s.pair, s.at>>, <<s.author, s.run>>>> \in E
    BY DEF Seed
  <2>2. s = [pair |-> s.pair, at |-> s.at, author |-> s.author, run |-> s.run]
    BY DEF Seed
  <2> QED
    BY <2>1, <2>2
<1>5. f \in Surjection(E, Seed)
  BY <1>3, <1>4 DEF Surjection
<1>6. IsFiniteSet(C) /\ IsFiniteSet(D)
  <2> HIDE DEF A, B
  <2> QED
    BY <1>1, <1>2, FS_Product
<1>7. IsFiniteSet(E)
  <2> HIDE DEF C, D
  <2> QED
    BY <1>6, FS_Product
<1> HIDE DEF E, f
<1> QED
  BY <1>5, <1>7, FS_Surjection

\* Records that are known once are as many as their ids.
LEMMA AsManyIds ==
  ASSUME NEW S, S \subseteq Seed, KnownOnce(S)
  PROVE  IsFiniteSet(Ids(S)) /\ Cardinality(Ids(S)) = Cardinality(S)
<1> DEFINE f == [s \in S |-> Id(s)]
<1>1. IsFiniteSet(S)
  BY FiniteSeeds, FS_Subset
<1>2. f \in Surjection(S, Ids(S)) /\ f \in Injection(S, Ids(S))
  BY DEF Surjection, Injection, Ids, KnownOnce, IsInjective
<1> HIDE DEF f
<1> QED
  BY <1>1, <1>2, FS_Surjection

\* What came back and what did not make up the whole.
LEMMA Parted ==
  ASSUME NEW S, IsFiniteSet(S), NEW T, T \subseteq S
  PROVE  Cardinality(S) = Cardinality(T) + Cardinality(S \ T)
<1>1. Cardinality(S \ T) = Cardinality(S) - Cardinality(S \cap T)
  BY FS_Difference
<1>2. S \cap T = T
  OBVIOUS
<1>3. Cardinality(S) \in Nat /\ Cardinality(T) \in Nat
  BY FS_CardinalityType, FS_Subset
<1> QED
  BY <1>1, <1>2, <1>3

---------------------------------------------------------------------------
(* The steps of the seeding programs.                                      *)

\* A selection that was made.
LEMMA SelectedTypes ==
  ASSUME NEW H \in HeldSets, NEW n \in SeedCounts
  PROVE  /\ Selected(H, n) \in Seq(PairSet) /\ Len(Selected(H, n)) \in Nat
         /\ Len(Selected(H, n)) <= Len(Pairs) /\ Len(Pairs) \in Nat
         /\ DOMAIN Selected(H, n) = 1..Len(Selected(H, n))
<1>1. n \in Nat
  BY CountAssumption
<1>2. Selected(H, n) \in Seq(PairSet \ H) /\ Len(Selected(H, n)) <= Len(Pairs)
  BY <1>1, SelectedFree
<1> HIDE DEF Selected
<1> QED
  BY <1>2, PairAssumption

LEMMA InitHolds ==
  ASSUME AugmentInit
  PROVE  AugmentInv
<1> USE DEF AugmentInit
<1>1. SeedingTypes
  <2>1. sel \in Seq(PairSet) /\ Len(sel) = 0 /\ DOMAIN sel = {}
    OBVIOUS
  <2>2. Len(Pairs) \in Nat /\ 0 \in 0..MaxStarts
    BY CountAssumption, PairAssumption
  <2>3. resumable \in BOOLEAN /\ resplit \in BOOLEAN /\ torn \in BOOLEAN
    OBVIOUS
  <2> QED
    BY <2>1, <2>2, <2>3 DEF SeedingTypes
<1>2. ServiceTypes
  BY DEF ServiceTypes, NoDownload, NotCollected
<1>3. Paid
  BY DEF Paid, KnownOnce
<1>4. SeedFilesHold
  BY DEF SeedFilesHold, Running
<1>5. Filed
  BY DEF Filed, LineageTrue, NoDownload, NotCollected
<1>6. Accepted
  BY DEF Accepted, NewPairs, NotCollected
<1> QED
  BY <1>1, <1>2, <1>3, <1>4, <1>5, <1>6 DEF AugmentInv

\* What the seeding programs leave alone.
LEMMA ServiceUnread ==
  ASSUME ServiceTypes, Filed, Accepted, UNCHANGED service
  PROVE  ServiceTypes' /\ Filed' /\ Accepted'
<1> USE DEF service
<1>1. ServiceTypes'
  BY DEF ServiceTypes
<1>2. Filed'
  BY DEF Filed, LineageTrue
<1>3. Accepted'
  BY DEF Accepted
<1> QED
  BY <1>1, <1>2, <1>3

LEMMA ResplitKeeps ==
  ASSUME SeedingTypes, Paid, SeedFilesHold, Resplit
  PROVE  SeedingTypes' /\ Paid' /\ SeedFilesHold'
<1> USE DEF Resplit
<1>1. SeedingTypes'
  BY DEF SeedingTypes
<1>2. Paid'
  BY DEF Paid
<1>3. SeedFilesHold'
  BY DEF SeedFilesHold, Running
<1> QED
  BY <1>1, <1>2, <1>3

LEMMA BuildSeedsKeeps ==
  ASSUME SeedingTypes, Paid, SeedFilesHold, BuildSeeds
  PROVE  SeedingTypes' /\ Paid' /\ SeedFilesHold'
<1>1. PICK n \in SeedCounts, author \in Authors :
         /\ sel' = Selected(held, n)
         /\ mem' = {[pair |-> sel'[i], at |-> i, author |-> author, run |-> starts'] : i \in DOMAIN sel'}
  BY DEF BuildSeeds
<1>2. /\ pc = "off" /\ pc' = "rewrite" /\ resumable' = FALSE /\ resplit' = FALSE
      /\ starts' = starts + 1 /\ starts < MaxStarts
      /\ UNCHANGED <<pending, seedFile, torn, progress, held, csv>>
  BY DEF BuildSeeds, StartRun
<1>3. /\ sel' \in Seq(PairSet) /\ Len(sel') \in Nat /\ Len(sel') <= Len(Pairs)
      /\ Len(Pairs) \in Nat /\ DOMAIN sel' = 1..Len(sel')
  BY <1>1, SelectedTypes DEF SeedingTypes
<1>4. pending = {} /\ pending' = {}
  BY <1>2 DEF SeedingTypes
<1>5. starts' \in 1..MaxStarts
  BY <1>2, CountAssumption DEF SeedingTypes
<1>6. mem' \subseteq Seed
  <2> SUFFICES ASSUME NEW i \in DOMAIN sel'
               PROVE  [pair |-> sel'[i], at |-> i, author |-> author, run |-> starts'] \in Seed
    BY <1>1
  <2>1. sel'[i] \in PairSet /\ i \in 1..Len(Pairs)
    BY <1>3
  <2> QED
    BY <2>1, <1>5 DEF Seed
<1>7. SeedingTypes'
  <2>1. starts' \in 0..MaxStarts /\ starts' # 0
    BY <1>5, CountAssumption
  <2>2. mem' \subseteq Seed /\ csv' \subseteq Seed /\ seedFile' \subseteq Seed
    BY <1>2, <1>6 DEF SeedingTypes
  <2>3. resumable' \in BOOLEAN /\ resplit' \in BOOLEAN /\ torn' \in BOOLEAN
    BY <1>2 DEF SeedingTypes
  <2> QED
    BY <1>2, <1>3, <1>4, <2>1, <2>2, <2>3 DEF SeedingTypes
<1>8. KnownOnce(mem')
  BY <1>1 DEF KnownOnce, Id
<1>9. Paid'
  BY <1>2, <1>8 DEF Paid, KnownOnce
<1>10. Ids(mem') = {<<sel'[i], i>> : i \in DOMAIN sel' \ pending'}
  <2>1. Ids(mem') = {Id(s) : s \in mem'}
    BY DEF Ids
  <2> DEFINE seed(i) == [pair |-> sel'[i], at |-> i, author |-> author, run |-> starts']
  <2>2. \A i : Id(seed(i)) = <<sel'[i], i>>
    BY DEF Id
  <2>3. mem' = {seed(i) : i \in DOMAIN sel'}
    BY <1>1
  <2>4. DOMAIN sel' \ pending' = DOMAIN sel'
    BY <1>4
  <2> HIDE DEF seed
  <2>5. Ids(mem') = {<<sel'[i], i>> : i \in DOMAIN sel'}
    BY <2>1, <2>2, <2>3
  <2> QED
    BY <2>4, <2>5
<1>11. SeedFilesHold'
  BY <1>1, <1>2, <1>10 DEF SeedFilesHold, Running, Ids
<1> QED
  BY <1>7, <1>9, <1>11

LEMMA ResumeSeedsKeeps ==
  ASSUME SeedingTypes, Paid, SeedFilesHold, ResumeSeeds
  PROVE  SeedingTypes' /\ Paid' /\ SeedFilesHold'
<1>1. PICK n \in SeedCounts :
         /\ sel' = Selected(held, n)
         /\ mem' = OnFile(sel')
         /\ pending' = {i \in DOMAIN sel' : <<sel'[i], i>> \notin Ids(OnFile(sel'))}
  BY DEF ResumeSeeds
<1>2. /\ pc = "off" /\ resumable' = TRUE /\ resplit' = FALSE /\ progress' = "running"
      /\ starts' = starts + 1 /\ starts < MaxStarts
      /\ UNCHANGED <<seedFile, torn, held, csv>>
  BY DEF ResumeSeeds, StartRun
<1>3. pc' = IF pending' = {} THEN "rewrite" ELSE "making"
  BY DEF ResumeSeeds
<1>4. /\ sel' \in Seq(PairSet) /\ Len(sel') \in Nat /\ Len(sel') <= Len(Pairs)
      /\ Len(Pairs) \in Nat /\ DOMAIN sel' = 1..Len(sel')
  BY <1>1, SelectedTypes DEF SeedingTypes
<1>5. starts' \in 1..MaxStarts
  BY <1>2, CountAssumption DEF SeedingTypes
<1>6. mem' \subseteq seedFile
  BY <1>1 DEF OnFile
<1>7. SeedingTypes'
  <2>1. starts' \in 0..MaxStarts /\ starts' # 0
    BY <1>5, CountAssumption
  <2>2. pending' \subseteq DOMAIN sel' /\ (pc' # "making" => pending' = {})
    BY <1>1, <1>3
  <2>3. mem' \subseteq Seed /\ csv' \subseteq Seed /\ seedFile' \subseteq Seed
    BY <1>2, <1>6 DEF SeedingTypes
  <2>4. resumable' \in BOOLEAN /\ resplit' \in BOOLEAN /\ torn' \in BOOLEAN
    BY <1>2 DEF SeedingTypes
  <2> QED
    BY <1>2, <1>3, <1>4, <2>1, <2>2, <2>3, <2>4 DEF SeedingTypes
<1>8. KnownOnce(mem')
  BY <1>6 DEF Paid, KnownOnce
<1>9. \A i \in pending' : <<sel'[i], i>> \notin Ids(seedFile)
  <2> SUFFICES ASSUME NEW i \in pending', <<sel'[i], i>> \in Ids(seedFile)
               PROVE  FALSE
    OBVIOUS
  <2>1. PICK l \in seedFile : Id(l) = <<sel'[i], i>>
    BY DEF Ids
  <2>2. i \in DOMAIN sel'
    BY <1>1
  <2>3. l \in OnFile(sel')
    BY <2>1, <2>2 DEF OnFile
  <2> QED
    BY <1>1, <2>1, <2>3 DEF Ids
<1>10. Paid'
  BY <1>2, <1>6, <1>8, <1>9 DEF Paid, KnownOnce, Ids
<1>11. Ids(mem') = {<<sel'[i], i>> : i \in DOMAIN sel' \ pending'}
  <2>1. \A l \in mem' : \E i \in DOMAIN sel' : Id(l) = <<sel'[i], i>>
    BY <1>1 DEF OnFile
  <2>2. \A i \in DOMAIN sel' : i \in pending' <=> <<sel'[i], i>> \notin Ids(mem')
    BY <1>1
  <2>3. \A x : x \in Ids(mem') <=> \E l \in mem' : x = Id(l)
    BY DEF Ids
  <2> QED
    BY <2>1, <2>2, <2>3
<1>12. SeedFilesHold'
  BY <1>1, <1>2, <1>3, <1>11 DEF SeedFilesHold, Running, Ids
<1> QED
  BY <1>7, <1>10, <1>12

LEMMA ResumeFailsKeeps ==
  ASSUME SeedingTypes, Paid, SeedFilesHold, ResumeFails
  PROVE  SeedingTypes' /\ Paid' /\ SeedFilesHold'
<1> USE DEF ResumeFails
<1>1. SeedingTypes'
  BY CountAssumption DEF SeedingTypes
<1>2. Paid'
  BY DEF Paid
<1>3. SeedFilesHold'
  BY DEF SeedFilesHold, Running
<1> QED
  BY <1>1, <1>2, <1>3

LEMMA SeedMadeKeeps ==
  ASSUME SeedingTypes, Paid, SeedFilesHold, NEW i \in pending, SeedMade(i)
  PROVE  /\ SeedingTypes' /\ Paid' /\ SeedFilesHold'
         /\ \A s \in seedFile, t \in seedFile' : Id(s) = Id(t) => s = t
<1>1. PICK author \in Authors :
         LET s == [pair |-> sel[i], at |-> i, author |-> author, run |-> starts]
         IN mem' = mem \cup {s} /\ seedFile' = Appended(s)
  BY DEF SeedMade
<1> DEFINE s == [pair |-> sel[i], at |-> i, author |-> author, run |-> starts]
<1>2. mem' = mem \cup {s} /\ seedFile' = seedFile \cup {s}
  BY <1>1 DEF Appended
<1>3. /\ pc = "making" /\ pending' = pending \ {i}
      /\ pc' = IF pending' = {} THEN "rewrite" ELSE "making"
      /\ UNCHANGED <<held, sel, resumable, resplit, torn, csv, progress, starts>>
  BY DEF SeedMade
<1>4. /\ sel \in Seq(PairSet) /\ Len(sel) \in Nat /\ Len(sel) <= Len(Pairs)
      /\ Len(Pairs) \in Nat /\ i \in 1..Len(sel)
  BY PairAssumption DEF SeedingTypes
<1>5. starts \in 1..MaxStarts
  BY <1>3, CountAssumption DEF SeedingTypes
<1>6. s \in Seed
  <2>1. sel[i] \in PairSet /\ i \in 1..Len(Pairs)
    BY <1>4
  <2> QED
    BY <2>1, <1>5 DEF Seed
<1>7. Id(s) = <<sel[i], i>>
  BY DEF Id
<1> HIDE DEF s
<1>8. SeedingTypes'
  BY <1>2, <1>3, <1>5, <1>6 DEF SeedingTypes
<1>9. Id(s) \notin Ids(seedFile) /\ mem \subseteq seedFile /\ KnownOnce(seedFile)
  BY <1>3, <1>7 DEF Paid
<1>10. \A l \in seedFile : Id(l) # Id(s)
  BY <1>9 DEF Ids
<1>11. \A l \in seedFile, m \in seedFile' : Id(l) = Id(m) => l = m
  BY <1>2, <1>9, <1>10 DEF KnownOnce
<1>12. KnownOnce(seedFile')
  BY <1>2, <1>11, <1>10 DEF KnownOnce
<1>13. mem' \subseteq seedFile'
  BY <1>2, <1>9
<1>14. KnownOnce(mem')
  BY <1>12, <1>13 DEF KnownOnce
<1>15. \A k \in pending' : <<sel'[k], k>> \notin Ids(seedFile')
  <2> SUFFICES ASSUME NEW k \in pending', NEW l \in seedFile', Id(l) = <<sel'[k], k>>
               PROVE  FALSE
    BY DEF Ids
  <2>1. k # i /\ k \in pending /\ sel' = sel
    BY <1>3
  <2>2. l # s
    BY <1>7, <2>1
  <2>3. l \in seedFile
    BY <1>2, <2>2
  <2>4. <<sel[k], k>> \in Ids(seedFile)
    BY <2>1, <2>3 DEF Ids
  <2> QED
    BY <1>3, <2>1, <2>4 DEF Paid
<1>16. Paid'
  BY <1>3, <1>12, <1>13, <1>14, <1>15 DEF Paid, KnownOnce, Ids
<1>17. Ids(mem') = {<<sel'[k], k>> : k \in DOMAIN sel' \ pending'}
  <2>1. Ids(mem) = {<<sel[k], k>> : k \in DOMAIN sel \ pending}
    BY <1>3 DEF SeedFilesHold, Running
  <2>2. Ids(mem') = Ids(mem) \cup {<<sel[i], i>>}
    BY <1>2, <1>7 DEF Ids
  <2>3. DOMAIN sel' \ pending' = (DOMAIN sel \ pending) \cup {i}
    BY <1>3, <1>4
  <2> QED
    BY <1>3, <2>1, <2>2, <2>3
<1>18. SeedFilesHold'
  BY <1>3, <1>17 DEF SeedFilesHold, Running, Ids
<1> QED
  BY <1>8, <1>11, <1>16, <1>18

LEMMA RewriteKeeps ==
  ASSUME SeedingTypes, Paid, SeedFilesHold, Rewrite
  PROVE  /\ SeedingTypes' /\ Paid' /\ SeedFilesHold'
         /\ resumable' => \A s \in seedFile, t \in seedFile' : Id(s) = Id(t) => s = t
<1> USE DEF Rewrite, Rewritten
<1>1. SeedingTypes'
  BY DEF SeedingTypes
<1>2. Paid'
  BY DEF Paid
<1>3. SeedFilesHold'
  BY DEF SeedFilesHold, Running
<1>4. resumable' => \A s \in seedFile, t \in seedFile' : Id(s) = Id(t) => s = t
  BY DEF Paid, KnownOnce
<1> QED
  BY <1>1, <1>2, <1>3, <1>4

LEMMA WriteCsvKeeps ==
  ASSUME SeedingTypes, Paid, SeedFilesHold, WriteCsv
  PROVE  SeedingTypes' /\ Paid' /\ SeedFilesHold'
<1> USE DEF WriteCsv
<1>1. SeedingTypes'
  BY DEF SeedingTypes
<1>2. Paid'
  BY DEF Paid
<1>3. SeedFilesHold'
  BY DEF SeedFilesHold, Running
<1> QED
  BY <1>1, <1>2, <1>3

LEMMA FinishKeeps ==
  ASSUME SeedingTypes, Paid, SeedFilesHold, Finish
  PROVE  SeedingTypes' /\ Paid' /\ SeedFilesHold'
<1>1. /\ pc = "finish" /\ pc' = "off" /\ mem' = {} /\ sel' = <<>>
      /\ progress' = IF resumable THEN "completed" ELSE progress
      /\ UNCHANGED <<held, pending, resumable, resplit, seedFile, torn, csv, starts>>
  BY DEF Finish
<1>2. pending = {}
  BY <1>1 DEF SeedingTypes
<1>3. SeedingTypes'
  BY <1>1, <1>2, PairAssumption DEF SeedingTypes
<1>4. Paid'
  BY <1>1 DEF Paid, KnownOnce
<1>5. seedFile = mem /\ ~torn /\ csv = mem
  BY <1>1 DEF SeedFilesHold
<1>6. PICK n \in SeedCounts : sel = Selected(held, n)
  BY <1>1 DEF SeedFilesHold, Running
<1>7. Ids(mem) = SelectedIds(held, n)
  BY <1>1, <1>2, <1>6 DEF SeedFilesHold, Running, SelectedIds
<1>8. Ids(seedFile') = SelectedIds(held', n)
  BY <1>1, <1>5, <1>7
<1>9. SeedFilesHold'
  BY <1>1, <1>5, <1>8 DEF SeedFilesHold, Running
<1> QED
  BY <1>3, <1>4, <1>9

LEMMA StopSeedingKeeps ==
  ASSUME SeedingTypes, Paid, SeedFilesHold, StopSeeding
  PROVE  /\ SeedingTypes' /\ Paid' /\ SeedFilesHold'
         /\ resumable' => \A s \in seedFile, t \in seedFile' : Id(s) = Id(t) => s = t
<1>1. /\ Running /\ pc' = "off" /\ pending' = {} /\ mem' = {} /\ sel' = <<>>
      /\ UNCHANGED <<held, resumable, resplit, csv, progress, starts>>
  BY DEF StopSeeding, Running
<1>2. torn' \in BOOLEAN
  BY DEF StopSeeding, SeedingTypes
<1>3. pc = "rewrite" => seedFile' \subseteq mem
  BY DEF StopSeeding
<1>4. pc # "rewrite" => seedFile' = seedFile
  BY DEF StopSeeding
<1>5. SeedingTypes'
  <2>1. seedFile' \subseteq Seed
    BY <1>3, <1>4 DEF SeedingTypes
  <2> QED
    BY <1>1, <1>2, <2>1, PairAssumption DEF SeedingTypes
<1>6. Paid'
  BY <1>1, <1>3, <1>4 DEF Paid, KnownOnce
<1>7. SeedFilesHold'
  BY <1>1 DEF SeedFilesHold, Running
<1>8. resumable' => \A s \in seedFile, t \in seedFile' : Id(s) = Id(t) => s = t
  BY <1>1, <1>3, <1>4 DEF Paid, KnownOnce
<1> QED
  BY <1>5, <1>6, <1>7, <1>8

---------------------------------------------------------------------------
(* The steps of the job and of the collection.                             *)

\* What the other programs and the service leave alone.
LEMMA SeedingUnread ==
  ASSUME SeedingTypes, Paid, SeedFilesHold, UNCHANGED seeding,
         pc \in {"off", "submit", "record"}, pc' \in {"off", "submit", "record"}
  PROVE  SeedingTypes' /\ Paid' /\ SeedFilesHold'
<1> USE DEF seeding
<1>1. SeedingTypes'
  BY DEF SeedingTypes
<1>2. Paid'
  BY DEF Paid
<1>3. SeedFilesHold'
  BY DEF SeedFilesHold, Running
<1> QED
  BY <1>1, <1>2, <1>3

LEMMA UploadKeeps ==
  ASSUME ServiceTypes, Filed, Accepted, SeedingTypes, Upload
  PROVE  ServiceTypes' /\ Filed' /\ Accepted'
<1>1. repo' = Ids(csv) /\ UNCHANGED <<jobs, response, download, clones, collected, augmented>>
  BY DEF Upload
<1>2. Ids(csv) \subseteq SeedId
  BY DEF SeedingTypes, Seed, Ids, Id, SeedId
<1>3. ServiceTypes'
  BY <1>1, <1>2 DEF ServiceTypes
<1>4. Filed' /\ Accepted'
  BY <1>1 DEF Filed, LineageTrue, Accepted
<1> QED
  BY <1>3, <1>4

LEMMA SubmitKeeps ==
  ASSUME ServiceTypes, Filed, Accepted, Submit
  PROVE  ServiceTypes' /\ Filed' /\ Accepted'
<1> DEFINE new == [state |-> "queued", seeds |-> {}, records |-> <<>>]
<1>1. jobs' = Append(jobs, new) /\ UNCHANGED <<repo, response, download, clones, collected, augmented>>
  BY DEF Submit
<1>2. new \in Job
  BY DEF Job
<1>3. DOMAIN new.records = {}
  OBVIOUS
<1> HIDE DEF new
<1>4. jobs \in Seq(Job) /\ Len(jobs) \in Nat
  BY DEF ServiceTypes
<1>5. /\ jobs' \in Seq(Job) /\ Len(jobs') = Len(jobs) + 1
      /\ DOMAIN jobs = 1..Len(jobs) /\ DOMAIN jobs' = 1..Len(jobs) + 1
      /\ \A j \in DOMAIN jobs : jobs'[j] = jobs[j]
      /\ jobs'[Len(jobs) + 1] = new
  BY <1>1, <1>2, <1>4
<1>6. ServiceTypes'
  BY <1>1, <1>4, <1>5 DEF ServiceTypes
<1>7. Filed'
  <2>1. ASSUME NEW j \in DOMAIN jobs', NEW k \in DOMAIN jobs'[j].records
        PROVE  jobs'[j].records[k].id \in jobs'[j].seeds
    <3>1. CASE j \in DOMAIN jobs
      BY <1>5, <2>1, <3>1 DEF Filed
    <3>2. CASE j = Len(jobs) + 1
      BY <1>3, <1>5, <2>1, <3>2
    <3> QED
      BY <1>4, <1>5, <3>1, <3>2
  <2> QED
    BY <1>1, <2>1 DEF Filed, LineageTrue
<1>8. Accepted'
  BY <1>1 DEF Accepted
<1> QED
  BY <1>6, <1>7, <1>8

LEMMA RecordJobKeeps ==
  ASSUME ServiceTypes, Filed, Accepted, RecordJob
  PROVE  ServiceTypes' /\ Filed' /\ Accepted'
<1>1. response' = Len(jobs) /\ UNCHANGED <<repo, jobs, download, clones, collected, augmented>>
  BY DEF RecordJob
<1>2. Len(jobs) \in Nat
  BY DEF ServiceTypes
<1>3. ServiceTypes'
  BY <1>1, <1>2 DEF ServiceTypes
<1>4. Filed' /\ Accepted'
  BY <1>1 DEF Filed, LineageTrue, Accepted
<1> QED
  BY <1>3, <1>4

LEMMA JobEndsKeeps ==
  ASSUME ServiceTypes, Filed, Accepted, NEW j \in DOMAIN jobs, JobEnds(j)
  PROVE  ServiceTypes' /\ Filed' /\ Accepted'
<1>1. PICK back \in SUBSET repo : \E order \in Orders(back), f \in [back -> Answers] :
         jobs' = [jobs EXCEPT ![j] =
                [state |-> "ended", seeds |-> repo,
                 records |-> [k \in DOMAIN order |-> [id |-> order[k], pairs |-> f[order[k]]]]]]
  BY DEF JobEnds
<1>2. PICK order \in Orders(back), f \in [back -> Answers] :
         jobs' = [jobs EXCEPT ![j] =
                [state |-> "ended", seeds |-> repo,
                 records |-> [k \in DOMAIN order |-> [id |-> order[k], pairs |-> f[order[k]]]]]]
  BY <1>1
<1>3. UNCHANGED <<repo, response, download, clones, collected, augmented>>
  BY DEF JobEnds
<1> DEFINE n == Cardinality(back)
           records == [k \in DOMAIN order |-> [id |-> order[k], pairs |-> f[order[k]]]]
           new == [state |-> "ended", seeds |-> repo, records |-> records]
<1>4. repo \subseteq SeedId /\ jobs \in Seq(Job) /\ Len(jobs) \in Nat
  BY DEF ServiceTypes
<1>5. n \in Nat
  BY <1>4, FinitePairs, FS_Subset, FS_CardinalityType
<1>6. order \in [1..n -> back]
  BY DEF Orders
<1>7. \A k \in 1..n : order[k] \in repo /\ order[k] \in SeedId /\ f[order[k]] \in Answers
  BY <1>4, <1>6
<1>8. records \in [1..n -> Record] /\ \A k \in DOMAIN records : records[k].id \in repo
  BY <1>6, <1>7 DEF Record
<1> HIDE DEF records, n
<1>9. records \in Seq(Record)
  BY <1>5, <1>8
<1>10. new \in Job
  BY <1>4, <1>9 DEF Job
<1>11. \A k \in DOMAIN new.records : new.records[k].id \in new.seeds
  BY <1>8
<1>12. jobs' = [jobs EXCEPT ![j] = new]
  BY <1>2 DEF records
<1> HIDE DEF new
<1>13. /\ jobs' \in Seq(Job) /\ Len(jobs') = Len(jobs) /\ DOMAIN jobs' = DOMAIN jobs
       /\ jobs'[j] = new /\ \A i \in DOMAIN jobs : i # j => jobs'[i] = jobs[i]
  BY <1>4, <1>10, <1>12
<1>14. ServiceTypes'
  BY <1>3, <1>13 DEF ServiceTypes
<1>15. Filed'
  <2>1. ASSUME NEW i \in DOMAIN jobs', NEW k \in DOMAIN jobs'[i].records
        PROVE  jobs'[i].records[k].id \in jobs'[i].seeds
    BY <1>11, <1>13, <2>1 DEF Filed
  <2> QED
    BY <1>3, <2>1 DEF Filed, LineageTrue
<1>16. Accepted'
  BY <1>3 DEF Accepted
<1> QED
  BY <1>14, <1>15, <1>16

LEMMA DownloadKeeps ==
  ASSUME ServiceTypes, Filed, Accepted, Download
  PROVE  ServiceTypes' /\ Filed' /\ Accepted'
<1>1. /\ response # 0 /\ download'.job = response /\ download'.cloned \in {0, response}
      /\ clones' \subseteq clones \cup {response}
      /\ UNCHANGED <<repo, jobs, response, collected, augmented>>
  BY DEF Download
<1>2. jobs \in Seq(Job) /\ Len(jobs) \in Nat /\ DOMAIN jobs = 1..Len(jobs) /\ response \in 0..Len(jobs)
  BY DEF ServiceTypes
<1>3. response \in DOMAIN jobs /\ 0 \in 0..Len(jobs)
  BY <1>1, <1>2
<1>4. ServiceTypes'
  BY <1>1, <1>2, <1>3 DEF ServiceTypes
<1>5. Filed' /\ Accepted'
  BY <1>1 DEF Filed, LineageTrue, Accepted
<1> QED
  BY <1>4, <1>5

LEMMA CollectKeeps ==
  ASSUME ServiceTypes, Filed, Accepted, SeedingTypes, Paid, Collect
  PROVE  ServiceTypes' /\ Filed' /\ Accepted'
<1> DEFINE from == ResultsOf(response)
           records == Records(from)
           returned == {records[k].id : k \in DOMAIN records}
<1>1. /\ response # 0 /\ from # 0
      /\ collected' = [job |-> response, from |-> from,
                       requested |-> Cardinality(seedFile), returned |-> returned,
                       omitted |-> Ids(seedFile) \ returned, accepted |-> AcceptedOf(records),
                       exact |-> jobs[response].seeds = Ids(seedFile) /\ download.job = response]
      /\ UNCHANGED <<repo, jobs, response, download, clones, augmented>>
  BY DEF Collect
<1>2. /\ jobs \in Seq(Job) /\ Len(jobs) \in Nat /\ DOMAIN jobs = 1..Len(jobs)
      /\ response \in 0..Len(jobs) /\ download.cloned \in 0..Len(jobs) /\ clones \subseteq DOMAIN jobs
  BY DEF ServiceTypes
<1>3. from \in DOMAIN jobs
  BY <1>1, <1>2 DEF ResultsOf
<1>4. records \in Seq(Record) /\ records = jobs[from].records
  <2>1. jobs[from] \in Job
    BY <1>2, <1>3
  <2>2. records = jobs[from].records
    BY DEF Records
  <2> HIDE DEF from, records
  <2> QED
    BY <2>1, <2>2 DEF Job
<1>5. /\ collected'.job = response /\ collected'.from = from
      /\ collected'.requested = Cardinality(seedFile) /\ collected'.returned = returned
      /\ collected'.omitted = Ids(seedFile) \ returned /\ collected'.accepted = AcceptedOf(records)
      /\ collected'.exact = (jobs[response].seeds = Ids(seedFile) /\ download.job = response)
  <2> HIDE DEF returned, records, from
  <2> QED
    BY <1>1
<1>6. ServiceTypes'
  BY <1>1, <1>2, <1>5 DEF ServiceTypes
<1>7. AcceptedOf(records) \in NewPairs
  BY <1>4, AcceptedOfNew
<1>8. Accepted'
  BY <1>1, <1>5, <1>7 DEF Accepted
<1>9. ASSUME jobs[response].seeds = Ids(seedFile), download.job = response
      PROVE  from = response /\ Cardinality(seedFile) = Cardinality(returned) + Cardinality(Ids(seedFile) \ returned)
  <2>1. download.cloned \in {0, response}
    BY <1>9 DEF Filed
  <2>2. from = response
    BY <1>1, <2>1 DEF ResultsOf
  <2>3. returned \subseteq Ids(seedFile)
    BY <1>3, <1>4, <1>9, <2>2 DEF Filed
  <2>4. IsFiniteSet(Ids(seedFile)) /\ Cardinality(Ids(seedFile)) = Cardinality(seedFile)
    BY AsManyIds DEF SeedingTypes, Paid
  <2> HIDE DEF returned
  <2> QED
    BY <2>2, <2>3, <2>4, Parted
<1>10. Filed'
  <2>1. LineageTrue'
    <3> HIDE DEF returned, records, from
    <3> QED
      BY <1>5, <1>9 DEF LineageTrue
  <2> QED
    BY <1>1, <2>1 DEF Filed
<1> QED
  BY <1>6, <1>8, <1>10

LEMMA BuildAugmentedKeeps ==
  ASSUME ServiceTypes, Filed, Accepted, BuildAugmented
  PROVE  ServiceTypes' /\ Filed' /\ Accepted'
<1>1. UNCHANGED <<repo, jobs, response, download, clones, collected>>
  BY DEF BuildAugmented
<1>2. ServiceTypes' /\ Filed'
  BY <1>1 DEF ServiceTypes, Filed, LineageTrue
<1>3. PICK n \in 0..Len(collected.accepted) : augmented' = SubSeq(collected.accepted, 1, n)
  BY DEF BuildAugmented
<1> DEFINE q == collected.accepted
           a == SubSeq(q, 1, n)
<1>4. q \in Seq(Generated \ PairSet) /\ Len(q) \in Nat /\ \A k, m \in 1..Len(q) : q[k] = q[m] => k = m
  BY DEF Accepted, NewPairs
<1>5. n \in Nat /\ n <= Len(q)
  BY <1>3, <1>4
<1>6. a \in Seq(Generated \ PairSet) /\ Len(a) = n /\ \A k \in 1..n : a[k] = q[k]
  BY <1>4, <1>5, SubSeqProperties
<1>7. DOMAIN a = 1..n
  BY <1>6
<1>8. \A k \in 1..n : k \in 1..Len(q)
  BY <1>4, <1>5
<1> HIDE DEF a, q
<1>9. \A k, m \in DOMAIN a : a[k] = a[m] => k = m
  BY <1>4, <1>6, <1>7, <1>8
<1>10. a \in NewPairs
  BY <1>6, <1>9 DEF NewPairs
<1>11. Accepted'
  BY <1>1, <1>3, <1>10 DEF Accepted, a, q
<1> QED
  BY <1>2, <1>11

---------------------------------------------------------------------------
(* The theorems.                                                           *)

\* The invariant implies what the runs check.
LEMMA InvSays ==
  ASSUME AugmentInv
  PROVE  AugmentTypeOK /\ SeedsAgree /\ AcceptedNew /\ LineageTrue
<1> USE DEF AugmentInv
<1>1. AugmentTypeOK
  <2>1. ASSUME pc = "making"
        PROVE  mem \subseteq seedFile /\ DOMAIN sel = pending \cup {s.at : s \in mem}
    <3>1. mem \subseteq seedFile
      BY <2>1 DEF Paid
    <3>2. Ids(mem) = {<<sel[i], i>> : i \in DOMAIN sel \ pending} /\ pending \subseteq DOMAIN sel
      BY <2>1 DEF SeedFilesHold, Running, SeedingTypes
    <3>3. ASSUME NEW s \in mem
          PROVE  s.at \in DOMAIN sel \ pending
      <4>1. Id(s) \in Ids(mem)
        BY DEF Ids
      <4>2. PICK i \in DOMAIN sel \ pending : Id(s) = <<sel[i], i>>
        BY <3>2, <4>1
      <4> QED
        BY <4>2 DEF Id
    <3>4. ASSUME NEW i \in DOMAIN sel \ pending
          PROVE  \E s \in mem : s.at = i
      <4>1. <<sel[i], i>> \in Ids(mem)
        BY <3>2
      <4>2. PICK s \in mem : Id(s) = <<sel[i], i>>
        BY <4>1 DEF Ids
      <4> QED
        BY <4>2 DEF Id
    <3> QED
      BY <3>1, <3>2, <3>3, <3>4
  <2>2. {resumable, resplit, torn} \subseteq BOOLEAN
    BY DEF SeedingTypes
  <2> QED
    BY <2>1, <2>2 DEF AugmentTypeOK, SeedingTypes, ServiceTypes, SeedId
<1>2. SeedsAgree
  <2> SUFFICES ASSUME progress = "completed", resumable, ~Running
               PROVE  /\ seedFile = csv /\ ~torn
                      /\ ~resplit => \E n \in SeedCounts :
                            Ids(seedFile) = SelectedIds(held, n) /\ \A s \in seedFile : s.pair \notin held
    BY DEF SeedsAgree, SelectedIds, Running
  <2>1. seedFile = csv /\ ~torn
    BY DEF SeedFilesHold
  <2>2. ASSUME ~resplit
        PROVE  \E n \in SeedCounts :
                  Ids(seedFile) = SelectedIds(held, n) /\ \A s \in seedFile : s.pair \notin held
    <3>1. PICK n \in SeedCounts : Ids(seedFile) = SelectedIds(held, n)
      BY <2>2 DEF SeedFilesHold
    <3>2. Selected(held, n) \in Seq(PairSet \ held)
      BY SelectedFree, CountAssumption DEF SeedingTypes
    <3>3. ASSUME NEW s \in seedFile
          PROVE  s.pair \notin held
      <4>1. Id(s) \in SelectedIds(held, n)
        BY <3>1 DEF Ids
      <4>2. PICK i \in DOMAIN Selected(held, n) : Id(s) = <<Selected(held, n)[i], i>>
        BY <4>1 DEF SelectedIds
      <4>3. s.pair = Selected(held, n)[i]
        BY <4>2 DEF Id
      <4> HIDE DEF Selected
      <4> QED
        BY <3>2, <4>3
    <3> QED
      BY <3>1, <3>3
  <2> QED
    BY <2>1, <2>2
<1>3. AcceptedNew
  <2>1. ASSUME NEW q \in NewPairs
        PROVE  Range(q) \cap PairSet = {} /\ \A k, m \in DOMAIN q : q[k] = q[m] => k = m
    BY DEF NewPairs, Range
  <2> QED
    BY <2>1 DEF Accepted, AcceptedNew
<1>4. LineageTrue
  BY DEF Filed
<1> QED
  BY <1>1, <1>2, <1>3, <1>4

\* The invariant is kept, and no step writes another record under an id that
\* is on file.
LEMMA StepKeeps ==
  ASSUME AugmentInv, [AugmentNext]_augmentVars
  PROVE  /\ AugmentInv'
         /\ resumable' => \A s \in seedFile, t \in seedFile' : Id(s) = Id(t) => s = t
<1> DEFINE Same == resumable' => \A s \in seedFile, t \in seedFile' : Id(s) = Id(t) => s = t
<1> SUFFICES AugmentInv' /\ Same
  OBVIOUS
<1>1. /\ SeedingTypes /\ ServiceTypes /\ Paid /\ SeedFilesHold /\ Filed /\ Accepted
  BY DEF AugmentInv
<1>2. UNCHANGED seedFile => Same
  BY <1>1 DEF Paid, KnownOnce
<1>3. ASSUME UNCHANGED service, SeedingTypes', Paid', SeedFilesHold'
      PROVE  AugmentInv'
  BY <1>1, <1>3, ServiceUnread DEF AugmentInv
<1>4. ASSUME UNCHANGED seeding, ServiceTypes', Filed', Accepted',
             pc \in {"off", "submit", "record"}, pc' \in {"off", "submit", "record"}
      PROVE  AugmentInv'
  BY <1>1, <1>4, SeedingUnread DEF AugmentInv
<1> HIDE DEF Same
<1>5. CASE Resplit
  BY <1>1, <1>2, <1>3, <1>5, ResplitKeeps DEF Resplit
<1>6. CASE BuildSeeds
  BY <1>1, <1>2, <1>3, <1>6, BuildSeedsKeeps DEF BuildSeeds, StartRun
<1>7. CASE ResumeSeeds
  BY <1>1, <1>2, <1>3, <1>7, ResumeSeedsKeeps DEF ResumeSeeds, StartRun
<1>8. CASE ResumeFails
  BY <1>1, <1>2, <1>3, <1>8, ResumeFailsKeeps DEF ResumeFails
<1>9. ASSUME NEW i \in pending, SeedMade(i)
      PROVE  AugmentInv' /\ Same
  <2>1. UNCHANGED service
    BY <1>9 DEF SeedMade
  <2> QED
    BY <1>1, <1>3, <1>9, <2>1, SeedMadeKeeps DEF Same
<1>10. CASE Rewrite
  <2>1. UNCHANGED service
    BY <1>10 DEF Rewrite
  <2> QED
    BY <1>1, <1>3, <1>10, <2>1, RewriteKeeps DEF Same
<1>11. CASE WriteCsv
  BY <1>1, <1>2, <1>3, <1>11, WriteCsvKeeps DEF WriteCsv
<1>12. CASE Finish
  BY <1>1, <1>2, <1>3, <1>12, FinishKeeps DEF Finish
<1>13. CASE StopSeeding
  <2>1. UNCHANGED service
    BY <1>13 DEF StopSeeding
  <2> QED
    BY <1>1, <1>3, <1>13, <2>1, StopSeedingKeeps DEF Same
<1>14. UNCHANGED seeding => UNCHANGED seedFile
  BY DEF seeding
<1>15. CASE Upload
  <2>1. /\ UNCHANGED seeding /\ pc \in {"off", "submit", "record"}
        /\ pc' \in {"off", "submit", "record"}
    BY <1>15 DEF Upload
  <2> QED
    BY <1>1, <1>2, <1>4, <1>14, <1>15, <2>1, UploadKeeps
<1>16. CASE Submit
  BY <1>1, <1>2, <1>4, <1>14, <1>16, SubmitKeeps DEF Submit
<1>17. CASE RecordJob
  BY <1>1, <1>2, <1>4, <1>14, <1>17, RecordJobKeeps DEF RecordJob
<1>18. CASE StopSubmit
  <2>1. /\ UNCHANGED seeding /\ UNCHANGED service /\ pc \in {"off", "submit", "record"}
        /\ pc' \in {"off", "submit", "record"}
    BY <1>18 DEF StopSubmit
  <2> QED
    BY <1>1, <1>2, <1>4, <1>14, <2>1, ServiceUnread
<1>19. ASSUME NEW j \in DOMAIN jobs, JobEnds(j)
       PROVE  AugmentInv' /\ Same
  <2>1. /\ UNCHANGED seeding /\ pc \in {"off", "submit", "record"}
        /\ pc' \in {"off", "submit", "record"}
    BY <1>19 DEF JobEnds
  <2> QED
    BY <1>1, <1>2, <1>4, <1>14, <1>19, <2>1, JobEndsKeeps
<1>20. CASE Download
  <2>1. /\ UNCHANGED seeding /\ pc \in {"off", "submit", "record"}
        /\ pc' \in {"off", "submit", "record"}
    BY <1>20 DEF Download
  <2> QED
    BY <1>1, <1>2, <1>4, <1>14, <1>20, <2>1, DownloadKeeps
<1>21. CASE Collect
  <2>1. /\ UNCHANGED seeding /\ pc \in {"off", "submit", "record"}
        /\ pc' \in {"off", "submit", "record"}
    BY <1>21 DEF Collect
  <2> QED
    BY <1>1, <1>2, <1>4, <1>14, <1>21, <2>1, CollectKeeps
<1>22. CASE BuildAugmented
  <2>1. /\ UNCHANGED seeding /\ pc \in {"off", "submit", "record"}
        /\ pc' \in {"off", "submit", "record"}
    BY <1>22 DEF BuildAugmented
  <2> QED
    BY <1>1, <1>2, <1>4, <1>14, <1>22, <2>1, BuildAugmentedKeeps
<1>23. CASE UNCHANGED augmentVars
  <2>1. UNCHANGED <<pc, seeding, service>>
    BY <1>23 DEF augmentVars
  <2>2. SeedingTypes' /\ Paid' /\ SeedFilesHold'
    BY <1>1, <2>1 DEF SeedingTypes, Paid, SeedFilesHold, Running, seeding
  <2> QED
    BY <1>2, <1>3, <1>14, <2>1, <2>2
<1> QED
  BY <1>5, <1>6, <1>7, <1>8, <1>9, <1>10, <1>11, <1>12, <1>13, <1>15, <1>16, <1>17,
     <1>18, <1>19, <1>20, <1>21, <1>22, <1>23 DEF AugmentNext

\* The invariant holds of the specification.
THEOREM AugmentInductive == AugmentSpec => []AugmentInv
<1>1. AugmentInit => AugmentInv
  BY InitHolds
<1>2. AugmentInv /\ [AugmentNext]_augmentVars => AugmentInv'
  BY StepKeeps
<1> QED
  BY <1>1, <1>2, PTL DEF AugmentSpec

\* Every variable keeps its type, and while seeds are made what the program
\* holds is on file and each selected position is held or awaited.
THEOREM AugmentTypeCorrect == AugmentSpec => []AugmentTypeOK
<1>1. AugmentInv => AugmentTypeOK
  BY InvSays
<1> QED
  BY <1>1, AugmentInductive, PTL

\* When a resumable run has completed, both seed files hold the seeds of one
\* selection from the pairs not held out.
THEOREM FilesAgree == AugmentSpec => []SeedsAgree
<1>1. AugmentInv => SeedsAgree
  BY InvSays
<1> QED
  BY <1>1, AugmentInductive, PTL

\* The resumable program writes no second record under an id on file.
THEOREM SeedsPaidOnce == AugmentSpec => PaidOnce
<1>1. AugmentInv /\ [AugmentNext]_augmentVars
        => [resumable' => \A s \in seedFile, t \in seedFile' : Id(s) = Id(t) => s = t]_augmentVars
  BY StepKeeps
<1> QED
  BY <1>1, AugmentInductive, PTL DEF AugmentSpec, PaidOnce

\* Accepted and augmented pairs are new, the augmented ones each once.
THEOREM NothingRepeated == AugmentSpec => []AcceptedNew
<1>1. AugmentInv => AcceptedNew
  BY InvSays
<1> QED
  BY <1>1, AugmentInductive, PTL

\* Exact results are filed under the job that made them, and every seed is
\* counted once, returned or omitted.
THEOREM ResultsFiled == AugmentSpec => []LineageTrue
<1>1. AugmentInv => LineageTrue
  BY InvSays
<1> QED
  BY <1>1, AugmentInductive, PTL

---------------------------------------------------------------------------
(* Curation: the invariant.                                                *)

RowsIn(x) == {x.rows[i] : i \in DOMAIN x.rows}
Asked(x) == {r.q : r \in RowsIn(x)}

\* Rows that neither ask the same question nor are near-duplicates.
Apart(S) == \A r, t \in S : r # t => Key[r.q] # Key[t.q] /\ ~Similar(r, t)

\* A training file t and a validation file v of one run share no row; where
\* stage 3 deduplicated them, their rows are apart.
FairPair(t, v) ==
    t.run = v.run =>
        RowsIn(t) \cap RowsIn(v) = {} /\ (t.deduped => Apart(RowsIn(t) \cup RowsIn(v)))

\* Adapter files a and b and a test set c of one run; that they hold what the
\* files t and v ask, if they were made from these and no file was cut short.
HeldOut(a, b, c) ==
    a.run = c.run /\ b.run = c.run =>
        /\ Asked(c) \cap (Asked(a) \cup Asked(b)) = {}
        /\ Cardinality(c.src) = 1 /\ c.deduped => Asked(a) \cap Asked(b) = {}
Covers(a, b, c, t, v) ==
    /\ a.run = c.run /\ b.run = c.run /\ {t.run} = c.src /\ {v.run} = c.src
    /\ a.whole /\ b.whole /\ c.whole /\ t.whole /\ v.whole
    =>
        Asked(a) \cup Asked(b) \cup Asked(c) = Asked(t) \cup Asked(v)

\* w was baked from c, row by row.
Prefix(w, c) ==
    w.src = {c.run} =>
        Len(w.rows) <= Len(c.rows) /\ \A i \in 1..Len(w.rows) : w.rows[i] = c.rows[i]

\* The files that are on disk or about to be written.
Known == [f \in Names |-> {disk[f]} \cup {job.todo[i].as : i \in {j \in DOMAIN job.todo : job.todo[j].file = f}}]

\* K[f]: versions of the file f that may stand side by side, of runs up to n.
Sound(K, n) ==
    /\ \A f \in Names : \A x \in K[f] : x.run \in 0..n /\ x.src \subseteq 0..n
    /\ \A t \in K["training"], v \in K["validation"] : FairPair(t, v)
    /\ \A a \in K["adapter_train"], b \in K["adapter_val"], c \in K["test_set"] :
          HeldOut(a, b, c) /\ \A t \in K["training"], v \in K["validation"] : Covers(a, b, c, t, v)

BakedFrom == \A c \in Known["test_set"] : Prefix(disk["with_context"], c)

\* Nothing was baked from a test set that is still to be written.
Ahead ==
    \A i \in DOMAIN job.todo :
        job.todo[i].file = "test_set" => disk["with_context"].src # {job.todo[i].as.run}

CurationInv ==
    /\ TypeOK
    /\ Sound(Known, runs)
    /\ BakedFrom
    /\ Ahead
    /\ SingletonsKept
    /\ GoldenUnseen

---------------------------------------------------------------------------
(* Sequences of rows.                                                      *)

\* A finite set listed as a sequence: the sequence holds the set.
LEMMA Listed ==
  ASSUME NEW R, IsFiniteSet(R)
  PROVE  /\ SetToSeq(R) \in Seq(R)
         /\ {SetToSeq(R)[i] : i \in DOMAIN SetToSeq(R)} = R
<1> DEFINE n == Cardinality(R)
           P(f) == f \in [1..n -> R] /\ IsInjective(f)
           s == CHOOSE f \in [1..n -> R] : IsInjective(f)
<1>1. n \in Nat
  BY FS_CardinalityType
<1>2. \E f : P(f)
  <2>1. PICK f \in Bijection(1..n, R) : TRUE
    BY FS_CardinalityType DEF ExistsBijection
  <2> QED
    BY <2>1 DEF Bijection, Injection
<1>3. s \in [1..n -> R] /\ IsInjective(s)
  BY <1>2
<1>4. s \in Injection(1..n, R)
  BY <1>3 DEF Injection
<1>5. IsFiniteSet(1..n) /\ Cardinality(1..n) = n
  BY <1>1, FS_Interval
<1>6. s \in Surjection(1..n, R)
  BY <1>4, <1>5, FS_Injection
<1>7. \A r \in R : \E i \in 1..n : s[i] = r
  BY <1>6 DEF Surjection
<1>8. s \in Seq(R)
  BY <1>1, <1>3
<1>9. {s[i] : i \in DOMAIN s} = R
  BY <1>3, <1>7
<1> QED
  BY <1>8, <1>9 DEF SetToSeq

\* The rows of a sequence are finite in number.
LEMMA FinitelyMany ==
  ASSUME NEW S, NEW a \in Seq(S)
  PROVE  /\ {a[i] : i \in DOMAIN a} \subseteq S
         /\ IsFiniteSet({a[i] : i \in DOMAIN a})
<1> DEFINE n == Len(a)
           f == [i \in 1..n |-> a[i]]
           T == {a[i] : i \in DOMAIN a}
<1>1. n \in Nat /\ DOMAIN a = 1..n /\ \A i \in 1..n : a[i] \in S
  OBVIOUS
<1>2. f \in Surjection(1..n, T)
  BY <1>1 DEF Surjection
<1>3. IsFiniteSet(1..n)
  BY <1>1, FS_Interval
<1>4. IsFiniteSet(T)
  <2> HIDE DEF T, f, n
  <2> QED
    BY <1>2, <1>3, FS_Surjection
<1> QED
  BY <1>1, <1>4

\* At picks rows of its sequence at positions of its set, as many from each
\* sequence of the same length.
AtShape(a, I) ==
    /\ Len(At(a, I)) = Cardinality(I \cap 1..Len(a))
    /\ \A k \in 1..Len(At(a, I)) : \E i \in I \cap 1..Len(a) : At(a, I)[k] = a[i]

LEMMA AtPicks ==
  ASSUME NEW S, NEW a \in Seq(S), NEW I
  PROVE  At(a, I) \in Seq(S) /\ AtShape(a, I)
<1> DEFINE N == Len(a)
           P(f) == f = [i \in 0..N |->
                          IF i = 0 THEN <<>> ELSE IF i \in I THEN Append(f[i - 1], a[i]) ELSE f[i - 1]]
           g == [x \in (1..N) \X Seq(S) |-> IF x[1] \in I THEN Append(x[2], a[x[1]]) ELSE x[2]]
           e == <<>>
           Z == Seq(S)
<1>1. N \in Nat /\ \A i \in 1..N : a[i] \in S
  OBVIOUS
<1>2. e \in Z /\ g \in [(1..N) \X Z -> Z]
  BY <1>1
<1>3. \A i \in 1..N, q \in Z : g[<<i, q>>] = IF i \in I THEN Append(q, a[i]) ELSE q
  OBVIOUS
<1>4. PICK h : Recurs(h, N, Z, e, g)
  <2> HIDE DEF N, Z, g, e
  <2> QED
    BY <1>1, <1>2, Recursion
<1>5. P(h)
  <2>1. \A i \in 0..N : i # 0 => i \in 1..N /\ i - 1 \in 0..N
    BY <1>1
  <2> HIDE DEF N, Z, g
  <2> QED
    BY <1>3, <1>4, <2>1 DEF Recurs
<1> DEFINE upTo == CHOOSE f : P(f)
<1>6. P(upTo)
  BY <1>5
<1>7. At(a, I) = upTo[N]
  BY DEF At
<1> HIDE DEF upTo, N
<1> DEFINE J(n) == I \cap 1..n
           Q(n) == /\ upTo[n] \in Seq(S)
                   /\ Len(upTo[n]) = Cardinality(J(n))
                   /\ \A k \in 1..Len(upTo[n]) : \E i \in J(n) : upTo[n][k] = a[i]
           T == {n \in Nat : n <= N => Q(n)}
<1>8. 0 \in T
  <2>1. upTo[0] = <<>>
    BY <1>1, <1>6
  <2>2. J(0) = {}
    OBVIOUS
  <2>3. Cardinality(J(0)) = 0
    BY <2>2, FS_EmptySet
  <2>4. upTo[0] \in Seq(S) /\ Len(upTo[0]) = 0
    BY <2>1
  <2>5. Q(0)
    <3> HIDE DEF J
    <3> QED
      BY <2>3, <2>4
  <2> QED
    BY <2>5
<1>9. ASSUME NEW n \in Nat, n \in T
      PROVE  n + 1 \in T
  <2> SUFFICES ASSUME n + 1 <= N
               PROVE  Q(n + 1)
    OBVIOUS
  <2>1. Q(n)
    BY <1>1, <1>9
  <2>2. n + 1 \in 0..N /\ n + 1 \in 1..N /\ n + 1 # 0 /\ (n + 1) - 1 = n
    BY <1>1
  <2>3. upTo[n + 1] = IF n + 1 \in I THEN Append(upTo[n], a[n + 1]) ELSE upTo[n]
    BY <1>6, <2>2
  <2>4. a[n + 1] \in S
    BY <1>1, <2>2
  <2>5. CASE n + 1 \in I
    <3>1. upTo[n + 1] = Append(upTo[n], a[n + 1])
      BY <2>3, <2>5
    <3>2. J(n + 1) = J(n) \cup {n + 1} /\ n + 1 \notin J(n)
      BY <2>5
    <3>3. IsFiniteSet(J(n))
      <4>1. IsFiniteSet(1..n)
        BY FS_Interval
      <4> QED
        BY <4>1, FS_Subset
    <3>4. Cardinality(J(n + 1)) = Cardinality(J(n)) + 1
      BY <3>2, <3>3, FS_AddElement
    <3>5. upTo[n + 1] \in Seq(S) /\ Len(upTo[n + 1]) = Len(upTo[n]) + 1
      BY <2>1, <2>4, <3>1
    <3>6. \A k \in 1..Len(upTo[n]) + 1 : k \in 1..Len(upTo[n]) \/ k = Len(upTo[n]) + 1
      BY <2>1
    <3>7. \A k \in 1..Len(upTo[n]) : upTo[n + 1][k] = upTo[n][k]
      BY <2>1, <2>4, <3>1
    <3>8. upTo[n + 1][Len(upTo[n]) + 1] = a[n + 1]
      BY <2>1, <2>4, <3>1
    <3>9. \A k \in 1..Len(upTo[n + 1]) : \E i \in J(n + 1) : upTo[n + 1][k] = a[i]
      BY <2>1, <3>2, <3>5, <3>6, <3>7, <3>8
    <3> QED
      BY <2>1, <3>4, <3>5, <3>9
  <2>6. CASE n + 1 \notin I
    <3>1. J(n + 1) = J(n)
      BY <2>6
    <3> QED
      BY <2>1, <2>3, <2>6, <3>1
  <2> QED
    BY <2>5, <2>6
<1> HIDE DEF T
<1>10. N \in T
  BY <1>1, <1>8, <1>9, NatSet
<1> QED
  BY <1>1, <1>7, <1>10 DEF T, N, AtShape

LEMMA HtmlTyped ==
  ASSUME NEW a \in Seq(AllRows)
  PROVE  HtmlRows(a) \in Seq(AllRows)
BY AtPicks DEF HtmlRows

---------------------------------------------------------------------------
(* Stage 3: what deduplication leaves is apart.                            *)

LEMMA SimilarBothWays ==
  ASSUME NEW r, NEW t
  PROVE  Similar(r, t) = Similar(t, r)
<1>1. {r.id, t.id} = {t.id, r.id}
  OBVIOUS
<1> QED
  BY <1>1 DEF Similar

\* minhash_dedup keeps positions of I of which no two hold similar rows.
LEMMA MinhashKeeps ==
  ASSUME NEW S, NEW a \in Seq(S), NEW I
  PROVE  /\ MinhashDedup(a, I) \subseteq I \cap 1..Len(a)
         /\ \A i, j \in MinhashDedup(a, I) : i # j => ~Similar(a[i], a[j])
<1> DEFINE N == Len(a)
           Z == SUBSET (1..N)
           Keep(q, i) == i \in I /\ \A j \in q : ~Similar(a[j], a[i])
           P(f) == f = [i \in 0..N |->
                          IF i = 0 THEN {}
                          ELSE IF i \in I /\ \A j \in f[i - 1] : ~Similar(a[j], a[i]) THEN f[i - 1] \cup {i}
                          ELSE f[i - 1]]
           g == [x \in (1..N) \X Z |-> IF Keep(x[2], x[1]) THEN x[2] \cup {x[1]} ELSE x[2]]
           e == {}
<1>1. N \in Nat
  OBVIOUS
<1>2. e \in Z /\ g \in [(1..N) \X Z -> Z]
  <2> HIDE DEF Keep
  <2> QED
    OBVIOUS
<1>3. \A i \in 1..N, q \in Z : g[<<i, q>>] = IF Keep(q, i) THEN q \cup {i} ELSE q
  <2> HIDE DEF Keep
  <2> QED
    OBVIOUS
<1>4. PICK h : Recurs(h, N, Z, e, g)
  <2> HIDE DEF N, Z, g, e
  <2> QED
    BY <1>1, <1>2, Recursion
<1>5. P(h)
  <2>1. \A i \in 0..N : i # 0 => i \in 1..N /\ i - 1 \in 0..N
    BY <1>1
  <2>2. h \in [0..N -> Z] /\ h = [i \in 0..N |-> IF i = 0 THEN {} ELSE g[<<i, h[i - 1]>>]]
    BY <1>4 DEF Recurs
  <2>3. \A i \in 0..N : h[i] = IF i = 0 THEN {} ELSE IF Keep(h[i - 1], i) THEN h[i - 1] \cup {i} ELSE h[i - 1]
    <3> HIDE DEF N, Z, g, Keep
    <3> QED
      BY <1>3, <2>1, <2>2
  <2>4. h = [i \in 0..N |-> IF i = 0 THEN {} ELSE IF Keep(h[i - 1], i) THEN h[i - 1] \cup {i} ELSE h[i - 1]]
    <3> HIDE DEF N, Z, g, Keep
    <3> QED
      BY <2>2, <2>3
  <2> QED
    BY <2>4
<1> DEFINE kept == CHOOSE f : P(f)
<1>6. P(kept)
  BY <1>5
<1>7. MinhashDedup(a, I) = kept[N]
  BY DEF MinhashDedup
<1> HIDE DEF kept, N
<1> DEFINE Q(n) == /\ kept[n] \subseteq I \cap 1..n
                   /\ \A i, j \in kept[n] : i # j => ~Similar(a[i], a[j])
           T == {n \in Nat : n <= N => Q(n)}
<1>8. 0 \in T
  <2>1. kept[0] = {}
    BY <1>1, <1>6
  <2> QED
    BY <2>1
<1>9. ASSUME NEW n \in Nat, n \in T
      PROVE  n + 1 \in T
  <2> SUFFICES ASSUME n + 1 <= N
               PROVE  Q(n + 1)
    OBVIOUS
  <2>1. Q(n)
    BY <1>1, <1>9
  <2>2. n + 1 \in 0..N /\ n + 1 # 0 /\ (n + 1) - 1 = n
    BY <1>1
  <2>3. kept[n + 1] = IF Keep(kept[n], n + 1) THEN kept[n] \cup {n + 1} ELSE kept[n]
    BY <1>6, <2>2
  <2>4. CASE Keep(kept[n], n + 1)
    <3>1. kept[n + 1] = kept[n] \cup {n + 1} /\ n + 1 \in I
      BY <2>3, <2>4
    <3>2. \A j \in kept[n] : ~Similar(a[j], a[n + 1]) /\ ~Similar(a[n + 1], a[j])
      BY <2>4, SimilarBothWays
    <3>3. 1..n \subseteq 1..n + 1 /\ n + 1 \in 1..n + 1
      OBVIOUS
    <3> QED
      BY <2>1, <3>1, <3>2, <3>3
  <2>5. CASE ~Keep(kept[n], n + 1)
    <3>1. kept[n + 1] = kept[n]
      BY <2>3, <2>5
    <3>2. 1..n \subseteq 1..n + 1
      OBVIOUS
    <3> QED
      BY <2>1, <3>1, <3>2
  <2> QED
    BY <2>4, <2>5
<1> HIDE DEF T
<1>10. N \in T
  BY <1>1, <1>8, <1>9, NatSet
<1> QED
  BY <1>1, <1>7, <1>10 DEF T, N

\* Curated rows are rows of the input, finitely many, and apart.
LEMMA CuratedApart ==
  ASSUME NEW S, NEW a \in Seq(S)
  PROVE  Curated(a) \subseteq S /\ IsFiniteSet(Curated(a)) /\ Apart(Curated(a))
<1> DEFINE M == MinhashDedup(a, ExactDedup(a))
<1>1. M \subseteq ExactDedup(a) \cap 1..Len(a)
  BY MinhashKeeps
<1>2. \A i, j \in M : i # j => ~Similar(a[i], a[j])
  BY MinhashKeeps
<1>3. \A i, j \in ExactDedup(a) : i # j => Key[a[i].q] # Key[a[j].q]
  <2> SUFFICES ASSUME NEW i \in ExactDedup(a), NEW j \in ExactDedup(a), i # j
               PROVE  Key[a[i].q] # Key[a[j].q]
    OBVIOUS
  <2>1. i \in 1..Len(a) /\ j \in 1..Len(a) /\ Len(a) \in Nat
    BY DEF ExactDedup
  <2>2. (i < j => i \in 1..j - 1) /\ (j < i => j \in 1..i - 1)
    BY <2>1
  <2>3. i < j \/ j < i
    BY <2>1
  <2> QED
    BY <2>2, <2>3 DEF ExactDedup
<1>4. \A r \in Curated(a) : \E i \in M : r = a[i]
  BY DEF Curated, Pos
<1>5. Curated(a) \subseteq {a[i] : i \in DOMAIN a}
  <2>1. DOMAIN a = 1..Len(a)
    OBVIOUS
  <2> HIDE DEF M
  <2> QED
    BY <1>1, <1>4, <2>1
<1>6. Apart(Curated(a))
  <2> HIDE DEF M
  <2> QED
    BY <1>1, <1>2, <1>3, <1>4 DEF Apart
<1>7. {a[i] : i \in DOMAIN a} \subseteq S /\ IsFiniteSet({a[i] : i \in DOMAIN a})
  BY FinitelyMany
<1>8. IsFiniteSet(Curated(a))
  BY <1>5, <1>7, FS_Subset
<1> QED
  BY <1>5, <1>6, <1>7, <1>8

---------------------------------------------------------------------------
(* The selection of the test rows.                                         *)

Uids(R) == {Uid(r) : r \in R}
Passages(R) == {r.p : r \in R}
Selections(R) == [picked : SUBSET Uids(R), final : SUBSET Uids(R), sel : [Passages(R) -> Int]]

\* u is the uid of a row of R whose passage has another row.
InCompany(R, u) == \E t \in R : u = Uid(t) /\ Cardinality(OfPassage(R, t.p)) > 1

\* Candidates after position k whose passage is p.
Waiting(c, k, p) == {i \in k + 1..Len(c) : c[i].p = p}

\* What holds of the selection after k candidates: `sel` counts at least those
\* that wait, and no passage of one row is touched.
ChoiceSound(R, c, k, st) ==
    /\ st \in Selections(R)
    /\ \A p \in Passages(R) : st.sel[p] >= Cardinality(Waiting(c, k, p))
    /\ \A u \in st.final : InCompany(R, u)

LEMMA WaitingFinite ==
  ASSUME NEW c, NEW k \in Nat, NEW p, Len(c) \in Nat
  PROVE  IsFiniteSet(Waiting(c, k, p)) /\ Cardinality(Waiting(c, k, p)) \in Nat
<1>1. IsFiniteSet(k + 1..Len(c))
  BY FS_Interval
<1>2. IsFiniteSet(Waiting(c, k, p))
  BY <1>1, FS_Subset DEF Waiting
<1> QED
  BY <1>2, FS_CardinalityType

\* One candidate less waits.
LEMMA WaitingLess ==
  ASSUME NEW R, NEW c \in Seq(R), NEW k \in Nat, k + 1 <= Len(c), NEW p
  PROVE  Cardinality(Waiting(c, k, p)) =
            Cardinality(Waiting(c, k + 1, p)) + (IF c[k + 1].p = p THEN 1 ELSE 0)
<1> DEFINE W == Waiting(c, k, p)
           V == Waiting(c, k + 1, p)
<1>1. Len(c) \in Nat /\ k + 1 \in Nat
  OBVIOUS
<1>2. \A i \in k + 1..Len(c) : i = k + 1 \/ i \in (k + 1) + 1..Len(c)
  BY <1>1
<1>3. k + 1 \in k + 1..Len(c) /\ (k + 1) + 1..Len(c) \subseteq k + 1..Len(c) /\ k + 1 \notin (k + 1) + 1..Len(c)
  BY <1>1
<1>4. W = (IF c[k + 1].p = p THEN V \cup {k + 1} ELSE V) /\ k + 1 \notin V
  BY <1>2, <1>3 DEF Waiting
<1>5. IsFiniteSet(V) /\ Cardinality(V) \in Nat
  BY <1>1, WaitingFinite
<1>6. Cardinality(V \cup {k + 1}) = Cardinality(V) + 1
  BY <1>4, <1>5, FS_AddElement
<1> HIDE DEF W, V
<1> QED
  BY <1>4, <1>5, <1>6 DEF W, V

LEMMA DroppedTyped ==
  ASSUME NEW R, NEW st \in Selections(R), NEW r \in R
  PROVE  [st EXCEPT !.picked = @ \ {Uid(r)}, !.sel[r.p] = @ - 1] \in Selections(R)
<1> DEFINE x == [st EXCEPT !.picked = @ \ {Uid(r)}, !.sel[r.p] = @ - 1]
<1>1. st.sel \in [Passages(R) -> Int] /\ st.picked \subseteq Uids(R) /\ st.final \subseteq Uids(R)
  BY DEF Selections
<1> DEFINE y == [st EXCEPT !.sel[r.p] = @ - 1]
<1>2. y.picked = st.picked /\ y.final = st.final /\ y.sel = [st.sel EXCEPT ![r.p] = @ - 1]
  BY DEF Selections
<1>3. y = [picked |-> st.picked, final |-> st.final, sel |-> [st.sel EXCEPT ![r.p] = @ - 1]]
  BY <1>2 DEF Selections
<1>4. x = [y EXCEPT !.picked = st.picked \ {Uid(r)}]
  BY DEF Selections
<1>5. x = [picked |-> st.picked \ {Uid(r)}, final |-> st.final, sel |-> [st.sel EXCEPT ![r.p] = @ - 1]]
  <2> HIDE DEF x, y
  <2> QED
    BY <1>3, <1>4
<1>6. r.p \in Passages(R)
  BY DEF Passages
<1>7. [st.sel EXCEPT ![r.p] = @ - 1] \in [Passages(R) -> Int]
  BY <1>1, <1>6
<1>8. st.picked \ {Uid(r)} \subseteq Uids(R)
  BY <1>1
<1> HIDE DEF x
<1>9. x \in Selections(R)
  BY <1>1, <1>5, <1>7, <1>8 DEF Selections
<1> QED
  BY <1>9 DEF x

\* A step of the second pass chooses among the uids of R.
LEMMA ResolveTyped ==
  ASSUME NEW R, NEW st \in Selections(R), NEW r \in R, NEW x \in Resolve(R, st, r)
  PROVE  x \in Selections(R)
<1>1. r.p \in Passages(R) /\ Uid(r) \in Uids(R)
  BY DEF Passages, Uids
<1>2. \A t \in Swaps(R, st.picked, r) : t.p \in Passages(R) /\ Uid(t) \in Uids(R)
  BY DEF Swaps, OfStage, Passages, Uids
<1>3. \A p \in Passages(R) : st.sel[p] \in Int
  BY DEF Selections
<1> DEFINE dropped == [st EXCEPT !.picked = @ \ {Uid(r)}, !.sel[r.p] = @ - 1]
<1>4. dropped \in Selections(R)
  BY <1>1, DroppedTyped
<1>5. CASE x = [st EXCEPT !.final = @ \cup {Uid(r)}]
  BY <1>1, <1>5 DEF Selections
<1>6. CASE x = dropped
  BY <1>4, <1>6
<1>7. ASSUME NEW t \in Swaps(R, st.picked, r),
             x = [dropped EXCEPT !.picked = @ \cup {Uid(t)}, !.sel[t.p] = @ + 1, !.final = @ \cup {Uid(t)}]
      PROVE  x \in Selections(R)
  <2> HIDE DEF dropped
  <2>1. \A p \in Passages(R) : dropped.sel[p] \in Int
    BY <1>4 DEF Selections
  <2>2. dropped.sel \in [Passages(R) -> Int] /\ dropped.picked \subseteq Uids(R) /\ dropped.final \subseteq Uids(R)
    BY <1>4 DEF Selections
  <2>3. x = [picked |-> dropped.picked \cup {Uid(t)}, final |-> dropped.final \cup {Uid(t)},
             sel |-> [dropped.sel EXCEPT ![t.p] = @ + 1]]
    BY <1>4, <1>7 DEF Selections
  <2>4. [dropped.sel EXCEPT ![t.p] = @ + 1] \in [Passages(R) -> Int]
    BY <1>2, <2>1, <2>2
  <2>5. dropped.picked \cup {Uid(t)} \subseteq Uids(R) /\ dropped.final \cup {Uid(t)} \subseteq Uids(R)
    BY <1>2, <2>2
  <2> QED
    BY <2>3, <2>4, <2>5 DEF Selections
<1> QED
  BY <1>5, <1>6, <1>7 DEF Resolve

LEMMA ResolveSound ==
  ASSUME NEW R, IsFiniteSet(R), NEW c \in Seq(R), NEW k \in Nat, k + 1 <= Len(c), NEW st,
         ChoiceSound(R, c, k, st), NEW x \in Resolve(R, st, c[k + 1])
  PROVE  ChoiceSound(R, c, k + 1, x)
<1> DEFINE r == c[k + 1]
           W(p) == Cardinality(Waiting(c, k, p))
           V(p) == Cardinality(Waiting(c, k + 1, p))
<1>1. r \in R /\ Len(c) \in Nat /\ k + 1 \in Nat
  OBVIOUS
<1>2. st \in Selections(R) /\ x \in Selections(R)
  BY <1>1, ResolveTyped DEF ChoiceSound
<1>3. \A p : W(p) \in Nat /\ V(p) \in Nat
  BY <1>1, WaitingFinite
<1>4. \A p : W(p) = V(p) + (IF r.p = p THEN 1 ELSE 0)
  BY WaitingLess
<1>5. \A p \in Passages(R) : st.sel[p] \in Int /\ x.sel[p] \in Int /\ st.sel[p] >= W(p)
  BY <1>2 DEF Selections, ChoiceSound
<1>6. \A u \in st.final : InCompany(R, u)
  BY DEF ChoiceSound
<1>7. r.p \in Passages(R)
  BY <1>1 DEF Passages
<1>8. Cardinality(OfPassage(R, r.p)) \in Nat
  <2>1. IsFiniteSet(OfPassage(R, r.p))
    BY FS_Subset DEF OfPassage
  <2> QED
    BY <2>1, FS_CardinalityType
<1> HIDE DEF W, V, r
<1> SUFFICES /\ \A p \in Passages(R) : x.sel[p] >= V(p)
             /\ \A u \in x.final : InCompany(R, u)
  BY <1>2 DEF ChoiceSound, V
<1> DEFINE dropped == [st EXCEPT !.picked = @ \ {Uid(r)}, !.sel[r.p] = @ - 1]
<1>9. ASSUME x = [st EXCEPT !.final = @ \cup {Uid(r)}], st.sel[r.p] < Cardinality(OfPassage(R, r.p))
      PROVE  (\A p \in Passages(R) : x.sel[p] >= V(p)) /\ \A u \in x.final : InCompany(R, u)
  <2>1. x.sel = st.sel /\ x.final = st.final \cup {Uid(r)}
    BY <1>2, <1>9 DEF Selections
  <2>2. W(r.p) = V(r.p) + 1
    BY <1>4
  <2>3. Cardinality(OfPassage(R, r.p)) > 1
    BY <1>3, <1>5, <1>7, <1>8, <1>9, <2>2
  <2>4. InCompany(R, Uid(r))
    BY <1>1, <2>3 DEF InCompany
  <2>5. \A p \in Passages(R) : x.sel[p] >= V(p)
    BY <1>3, <1>4, <1>5, <2>1
  <2> QED
    BY <1>6, <2>1, <2>4, <2>5
<1>10. dropped \in Selections(R) /\ dropped.final = st.final /\ \A p \in Passages(R) : dropped.sel[p] >= V(p)
  <2>1. dropped.final = st.final /\ dropped.sel = [st.sel EXCEPT ![r.p] = @ - 1]
    BY <1>2 DEF Selections
  <2>2. st.sel \in [Passages(R) -> Int]
    BY <1>2 DEF Selections
  <2>3. \A p \in Passages(R) : dropped.sel[p] = IF p = r.p THEN st.sel[p] - 1 ELSE st.sel[p]
    BY <2>1, <2>2
  <2>4. \A p \in Passages(R) : dropped.sel[p] >= V(p)
    <3> HIDE DEF dropped
    <3> QED
      BY <1>3, <1>4, <1>5, <2>3
  <2>5. dropped \in Selections(R)
    BY <1>1, <1>2, DroppedTyped
  <2> QED
    BY <2>1, <2>4, <2>5
<1>11. CASE x = dropped
  BY <1>6, <1>10, <1>11
<1>12. ASSUME NEW t \in Swaps(R, st.picked, r),
              x = [dropped EXCEPT !.picked = @ \cup {Uid(t)}, !.sel[t.p] = @ + 1, !.final = @ \cup {Uid(t)}]
       PROVE  (\A p \in Passages(R) : x.sel[p] >= V(p)) /\ \A u \in x.final : InCompany(R, u)
  <2>1. t \in R /\ Cardinality(OfPassage(R, t.p)) > 1
    BY DEF Swaps, OfStage
  <2> HIDE DEF dropped
  <2>2. x.final = dropped.final \cup {Uid(t)} /\ x.sel = [dropped.sel EXCEPT ![t.p] = @ + 1]
    BY <1>10, <1>12 DEF Selections
  <2>3. dropped.sel \in [Passages(R) -> Int]
    BY <1>10 DEF Selections
  <2>4. \A p \in Passages(R) : x.sel[p] = IF p = t.p THEN dropped.sel[p] + 1 ELSE dropped.sel[p]
    BY <2>2, <2>3
  <2>5. \A p \in Passages(R) : x.sel[p] >= V(p)
    BY <1>3, <1>10, <2>3, <2>4
  <2>6. InCompany(R, Uid(t))
    BY <2>1 DEF InCompany
  <2> QED
    BY <1>6, <1>10, <2>2, <2>5, <2>6
<1>13. x \in Resolve(R, st, r)
  BY DEF r
<1> HIDE DEF dropped
<1>14. \/ x = [st EXCEPT !.final = @ \cup {Uid(r)}] /\ st.sel[r.p] < Cardinality(OfPassage(R, r.p))
       \/ x = dropped
       \/ \E t \in Swaps(R, st.picked, r) :
             x = [dropped EXCEPT !.picked = @ \cup {Uid(t)}, !.sel[t.p] = @ + 1, !.final = @ \cup {Uid(t)}]
  BY <1>13 DEF Resolve, dropped
<1> QED
  BY <1>9, <1>11, <1>12, <1>14

LEMMA CandidatesList ==
  ASSUME NEW R, IsFiniteSet(R), NEW c \in Candidates(R)
  PROVE  /\ c \in Seq(R) /\ Len(c) \in Nat
         /\ \A i, j \in 1..Len(c) : i # j => c[i] # c[j]
<1>1. PICK T \in Stratified(R, TestSize) : c \in SetToSeqs(T)
  BY DEF Candidates
<1>2. T \subseteq R
  BY DEF Stratified
<1>3. Cardinality(T) \in Nat
  BY <1>2, FS_Subset, FS_CardinalityType
<1>4. c \in [1..Cardinality(T) -> T] /\ \A i, j \in 1..Cardinality(T) : i # j => c[i] # c[j]
  BY <1>1 DEF SetToSeqs
<1>5. c \in Seq(R) /\ Len(c) = Cardinality(T)
  BY <1>2, <1>3, <1>4
<1> QED
  BY <1>3, <1>4, <1>5

\* At first `sel` counts every candidate, and the candidates are distinct rows.
LEMMA AllWait ==
  ASSUME NEW R, IsFiniteSet(R), NEW c \in Seq(R), NEW p,
         \A i, j \in 1..Len(c) : i # j => c[i] # c[j]
  PROVE  /\ Cardinality(OfPassage(Range(c), p)) \in Nat
         /\ Cardinality(Waiting(c, 0, p)) <= Cardinality(OfPassage(Range(c), p))
<1> DEFINE W == Waiting(c, 0, p)
           O == OfPassage(Range(c), p)
           f == [i \in W |-> c[i]]
<1>1. \A i \in W : i \in 1..Len(c) /\ c[i].p = p
  BY DEF Waiting
<1>2. Range(c) \subseteq R
  BY DEF Range
<1>3. IsFiniteSet(O)
  <2>1. O \subseteq R
    BY <1>2 DEF OfPassage
  <2> QED
    BY <2>1, FS_Subset
<1>4. \A i \in W : c[i] \in O
  BY <1>1 DEF OfPassage, Range
<1>5. f \in Injection(W, O)
  <2> HIDE DEF W, O
  <2>1. f \in [W -> O]
    BY <1>4
  <2>2. \A i, j \in W : f[i] = f[j] => i = j
    BY <1>1
  <2>3. IsInjective(f)
    BY <2>2 DEF IsInjective
  <2> QED
    BY <2>1, <2>3 DEF Injection
<1> QED
  BY <1>3, <1>5, FS_Injection, FS_CardinalityType

\* pick_test_kvp_uids takes no row of a passage that has only one.
LEMMA PickedInCompany ==
  ASSUME NEW R, IsFiniteSet(R), NEW c \in Candidates(R), NEW U \in PickTest(R, c)
  PROVE  \A u \in U : InCompany(R, u)
<1> DEFINE N == Len(c)
           start == [picked |-> {Uid(r) : r \in Range(c)}, final |-> {},
                     sel |-> [p \in {r.p : r \in R} |-> Cardinality(OfPassage(Range(c), p))]]
           Z == SUBSET Selections(R)
           Step(X, r) == UNION {Resolve(R, st, r) : st \in X}
           P(f) == f = [i \in 0..N |-> IF i = 0 THEN {start} ELSE UNION {Resolve(R, st, c[i]) : st \in f[i - 1]}]
           g == [x \in (1..N) \X Z |-> Step(x[2], c[x[1]])]
           e == {start}
<1>1. c \in Seq(R) /\ N \in Nat /\ (\A i \in 1..N : c[i] \in R) /\ \A i, j \in 1..N : i # j => c[i] # c[j]
  BY CandidatesList
<1>2. \A p : /\ Cardinality(OfPassage(Range(c), p)) \in Nat
             /\ Cardinality(Waiting(c, 0, p)) <= Cardinality(OfPassage(Range(c), p))
  BY <1>1, AllWait
<1>3. start \in Selections(R)
  <2>1. Range(c) \subseteq R
    BY <1>1 DEF Range
  <2>2. {Uid(r) : r \in Range(c)} \subseteq Uids(R)
    BY <2>1 DEF Uids
  <2> QED
    BY <1>2, <2>2 DEF Selections, Passages
<1>4. ChoiceSound(R, c, 0, start)
  <2>1. \A p \in Passages(R) : start.sel[p] = Cardinality(OfPassage(Range(c), p))
    BY DEF Passages
  <2>2. start.final = {}
    OBVIOUS
  <2> HIDE DEF start
  <2> QED
    BY <1>2, <1>3, <2>1, <2>2 DEF ChoiceSound
<1> HIDE DEF start
<1>5. \A X \in Z, i \in 1..N : Step(X, c[i]) \in Z
  BY <1>1, ResolveTyped
<1>6. e \in Z /\ g \in [(1..N) \X Z -> Z]
  <2> HIDE DEF Step
  <2> QED
    BY <1>3, <1>5
<1>7. \A i \in 1..N, X \in Z : g[<<i, X>>] = Step(X, c[i])
  <2> HIDE DEF Step
  <2> QED
    OBVIOUS
<1>8. PICK h : Recurs(h, N, Z, e, g)
  <2> HIDE DEF N, Z, g, e
  <2> QED
    BY <1>1, <1>6, Recursion
<1>9. P(h)
  <2>1. \A i \in 0..N : i # 0 => i \in 1..N /\ i - 1 \in 0..N
    BY <1>1
  <2>2. h \in [0..N -> Z] /\ h = [i \in 0..N |-> IF i = 0 THEN {start} ELSE g[<<i, h[i - 1]>>]]
    BY <1>8 DEF Recurs
  <2>3. \A i \in 0..N : h[i] = IF i = 0 THEN {start} ELSE Step(h[i - 1], c[i])
    <3> HIDE DEF N, Z, g, Step
    <3> QED
      BY <1>7, <2>1, <2>2
  <2>4. h = [i \in 0..N |-> IF i = 0 THEN {start} ELSE Step(h[i - 1], c[i])]
    <3> HIDE DEF N, Z, g, Step
    <3> QED
      BY <2>2, <2>3
  <2> QED
    BY <2>4
<1> DEFINE after == CHOOSE f : P(f)
<1>10. P(after)
  BY <1>9
<1>11. PickTest(R, c) = {st.final : st \in after[N]}
  BY DEF PickTest, start
<1> HIDE DEF after, N
<1> DEFINE T == {n \in Nat : n <= N => \A st \in after[n] : ChoiceSound(R, c, n, st)}
<1>12. 0 \in T
  <2>1. after[0] = {start}
    BY <1>1, <1>10
  <2> QED
    BY <1>4, <2>1
<1>13. ASSUME NEW n \in Nat, n \in T
       PROVE  n + 1 \in T
  <2> SUFFICES ASSUME n + 1 <= N, NEW x \in after[n + 1]
               PROVE  ChoiceSound(R, c, n + 1, x)
    OBVIOUS
  <2>1. n + 1 \in 0..N /\ n + 1 # 0 /\ (n + 1) - 1 = n
    BY <1>1
  <2>2. after[n + 1] = UNION {Resolve(R, st, c[n + 1]) : st \in after[n]}
    BY <1>10, <2>1
  <2>3. PICK st \in after[n] : x \in Resolve(R, st, c[n + 1])
    BY <2>2
  <2>4. ChoiceSound(R, c, n, st)
    BY <1>1, <1>13, <2>1
  <2>5. n + 1 <= Len(c)
    BY DEF N
  <2> QED
    BY <1>1, <2>3, <2>4, <2>5, ResolveSound
<1> HIDE DEF T
<1>14. N \in T
  BY <1>1, <1>12, <1>13, NatSet
<1>15. \A st \in after[N] : ChoiceSound(R, c, N, st)
  BY <1>1, <1>14 DEF T
<1> QED
  BY <1>11, <1>15 DEF ChoiceSound

\* What a holdout split chooses: whole uids for the test set, rows of passages
\* that have others, and validation rows that are not test rows.
HoldoutSound(R, h) ==
    /\ h.test \subseteq R /\ h.val \subseteq R \ h.test
    /\ \A r \in h.test, x \in R : Uid(x) = Uid(r) => x \in h.test
    /\ \A r \in h.test : Cardinality(OfPassage(R, r.p)) > 1

LEMMA HoldoutsSound ==
  ASSUME NEW R, IsFiniteSet(R), NEW h \in Holdouts(R)
  PROVE  HoldoutSound(R, h)
<1>1. PICK c \in Candidates(R) : \E U \in PickTest(R, c) : \E V \in Stratified(R \ TestRows(R, U), ValSize) :
         h = [test |-> TestRows(R, U), val |-> V]
  BY DEF Holdouts
<1>2. PICK U \in PickTest(R, c) : \E V \in Stratified(R \ TestRows(R, U), ValSize) :
         h = [test |-> TestRows(R, U), val |-> V]
  BY <1>1
<1>3. PICK V \in Stratified(R \ TestRows(R, U), ValSize) : h = [test |-> TestRows(R, U), val |-> V]
  BY <1>2
<1>4. h.test = TestRows(R, U) /\ h.val = V
  BY <1>3
<1>5. V \subseteq R \ TestRows(R, U)
  BY <1>3 DEF Stratified
<1>6. \A u \in U : InCompany(R, u)
  BY <1>2, PickedInCompany
<1>7. \A r \in h.test : Cardinality(OfPassage(R, r.p)) > 1
  <2> SUFFICES ASSUME NEW r \in h.test
               PROVE  Cardinality(OfPassage(R, r.p)) > 1
    OBVIOUS
  <2>1. r \in R /\ Uid(r) \in U
    BY <1>4 DEF TestRows
  <2>2. PICK t \in R : Uid(r) = Uid(t) /\ Cardinality(OfPassage(R, t.p)) > 1
    BY <1>6, <2>1 DEF InCompany
  <2>3. r.p = t.p
    BY <2>2 DEF Uid
  <2> QED
    BY <2>2, <2>3
<1>8. \A r \in h.test, x \in R : Uid(x) = Uid(r) => x \in h.test
  BY <1>4 DEF TestRows
<1>9. h.test \subseteq R
  BY <1>4 DEF TestRows
<1> QED
  BY <1>4, <1>5, <1>7, <1>8, <1>9 DEF HoldoutSound

---------------------------------------------------------------------------
(* The files that may stand side by side.                                  *)

LEMMA SoundShrinks ==
  ASSUME NEW K, NEW L, NEW n \in Nat, NEW m \in Nat, n <= m, Sound(K, n),
         \A f \in Names : L[f] \subseteq K[f]
  PROVE  Sound(L, m)
<1>1. /\ L["training"] \subseteq K["training"] /\ L["validation"] \subseteq K["validation"]
      /\ L["adapter_train"] \subseteq K["adapter_train"] /\ L["adapter_val"] \subseteq K["adapter_val"]
      /\ L["test_set"] \subseteq K["test_set"]
  BY DEF Names
<1>2. \A f \in Names : \A x \in L[f] : x.run \in 0..n /\ x.src \subseteq 0..n
  BY DEF Sound
<1>3. 0..n \subseteq 0..m
  OBVIOUS
<1>4. \A f \in Names : \A x \in L[f] : x.run \in 0..m /\ x.src \subseteq 0..m
  BY <1>2, <1>3
<1>5. \A t \in L["training"], v \in L["validation"] : FairPair(t, v)
  BY <1>1 DEF Sound
<1>6. \A a \in L["adapter_train"], b \in L["adapter_val"], c \in L["test_set"] :
        HeldOut(a, b, c) /\ \A t \in L["training"], v \in L["validation"] : Covers(a, b, c, t, v)
  BY <1>1 DEF Sound
<1> QED
  BY <1>4, <1>5, <1>6 DEF Sound

\* N[f]: the versions of f that a new run writes.
NewRun(N, K, n) ==
    /\ \A f \in Names : \A x \in N[f] : x.run = n /\ x.src \subseteq 0..n
    /\ \A t \in N["training"], v \in N["validation"] : FairPair(t, v)
    /\ \A a \in N["adapter_train"], b \in N["adapter_val"], c \in N["test_set"] :
          /\ HeldOut(a, b, c)
          /\ \A t \in K["training"] \cup N["training"], v \in K["validation"] \cup N["validation"] :
                Covers(a, b, c, t, v)

\* Nothing of a new run goes with anything of an old one.
LEMMA SoundGrows ==
  ASSUME NEW K, NEW N, NEW L, NEW n \in Nat, Sound(K, n), NewRun(N, K, n + 1),
         \A f \in Names : L[f] \subseteq K[f] \cup N[f]
  PROVE  Sound(L, n + 1)
<1> DEFINE Old(f, x) == x \in K[f] /\ x.run \in 0..n /\ x.src \subseteq 0..n
           New(f, x) == x \in N[f] /\ x.run = n + 1 /\ x.src \subseteq 0..n + 1
<1>1. \A f \in Names : \A x \in L[f] : Old(f, x) \/ New(f, x)
  BY DEF Sound, NewRun
<1>2. 0..n \subseteq 0..n + 1 /\ n + 1 \in 0..n + 1 /\ n + 1 \notin 0..n
  OBVIOUS
<1>3. \A f \in Names : \A x \in L[f] : x.run \in 0..n + 1 /\ x.src \subseteq 0..n + 1
  BY <1>1, <1>2
<1>4. "training" \in Names /\ "validation" \in Names /\ "adapter_train" \in Names /\ "adapter_val" \in Names
        /\ "test_set" \in Names
  BY DEF Names
<1>5. ASSUME NEW t \in L["training"], NEW v \in L["validation"]
      PROVE  FairPair(t, v)
  <2>1. Old("training", t) \/ New("training", t)
    BY <1>1, <1>4
  <2>2. Old("validation", v) \/ New("validation", v)
    BY <1>1, <1>4
  <2>3. CASE t.run = v.run
    <3>1. CASE Old("training", t) /\ Old("validation", v)
      BY <3>1 DEF Sound
    <3>2. CASE New("training", t) /\ New("validation", v)
      BY <3>2 DEF NewRun
    <3> QED
      BY <1>2, <2>1, <2>2, <2>3, <3>1, <3>2
  <2>4. CASE t.run # v.run
    BY <2>4 DEF FairPair
  <2> QED
    BY <2>3, <2>4
<1>6. ASSUME NEW a \in L["adapter_train"], NEW b \in L["adapter_val"], NEW c \in L["test_set"]
      PROVE  HeldOut(a, b, c) /\ \A t \in L["training"], v \in L["validation"] : Covers(a, b, c, t, v)
  <2>1. Old("adapter_train", a) \/ New("adapter_train", a)
    BY <1>1, <1>4
  <2>2. Old("adapter_val", b) \/ New("adapter_val", b)
    BY <1>1, <1>4
  <2>3. Old("test_set", c) \/ New("test_set", c)
    BY <1>1, <1>4
  <2>4. CASE a.run = c.run /\ b.run = c.run
    <3>1. CASE Old("adapter_train", a) /\ Old("adapter_val", b) /\ Old("test_set", c)
      <4>1. HeldOut(a, b, c)
        BY <3>1 DEF Sound
      <4>2. ASSUME NEW t \in L["training"], NEW v \in L["validation"]
            PROVE  Covers(a, b, c, t, v)
        <5>1. Old("training", t) \/ New("training", t)
          BY <1>1, <1>4
        <5>2. Old("validation", v) \/ New("validation", v)
          BY <1>1, <1>4
        <5>3. CASE Old("training", t) /\ Old("validation", v)
          BY <3>1, <5>3 DEF Sound
        <5>4. CASE New("training", t) \/ New("validation", v)
          <6>1. n + 1 \notin c.src
            BY <1>2, <3>1
          <6>2. {t.run} # c.src \/ {v.run} # c.src
            BY <5>4, <6>1
          <6> QED
            BY <6>2 DEF Covers
        <5> QED
          BY <5>1, <5>2, <5>3, <5>4
      <4> QED
        BY <4>1, <4>2
    <3>2. CASE New("adapter_train", a) /\ New("adapter_val", b) /\ New("test_set", c)
      <4>1. L["training"] \subseteq K["training"] \cup N["training"]
              /\ L["validation"] \subseteq K["validation"] \cup N["validation"]
        BY <1>4
      <4> QED
        BY <3>2, <4>1 DEF NewRun
    <3> QED
      BY <1>2, <2>1, <2>2, <2>3, <2>4, <3>1, <3>2
  <2>5. CASE ~(a.run = c.run /\ b.run = c.run)
    BY <2>5 DEF HeldOut, Covers
  <2> QED
    BY <2>4, <2>5
<1> QED
  BY <1>3, <1>5, <1>6 DEF Sound

LEMMA NothingIsSound ==
  ASSUME NEW K, \A f \in Names : K[f] = {Missing}, NEW n \in Nat
  PROVE  Sound(K, n)
<1>1. Missing.run = 0 /\ Missing.src = {} /\ Missing.rows = <<>>
  BY DEF Missing
<1>2. RowsIn(Missing) = {} /\ Asked(Missing) = {}
  BY <1>1 DEF RowsIn, Asked
<1>3. FairPair(Missing, Missing) /\ HeldOut(Missing, Missing, Missing)
  BY <1>2 DEF FairPair, Apart, HeldOut
<1>4. Covers(Missing, Missing, Missing, Missing, Missing)
  BY <1>2 DEF Covers
<1>5. /\ K["training"] = {Missing} /\ K["validation"] = {Missing} /\ K["adapter_train"] = {Missing}
      /\ K["adapter_val"] = {Missing} /\ K["test_set"] = {Missing}
  BY DEF Names
<1>6. 0 \in 0..n
  OBVIOUS
<1> QED
  BY <1>1, <1>3, <1>4, <1>5, <1>6 DEF Sound

LEMMA RowsListed ==
  ASSUME NEW R, IsFiniteSet(R), NEW x, x.rows = SetToSeq(R)
  PROVE  RowsIn(x) = R
<1>1. {SetToSeq(R)[i] : i \in DOMAIN SetToSeq(R)} = R
  BY Listed
<1> QED
  BY <1>1 DEF RowsIn

\* Rows dealt out to training and validation.
LEMMA DealtFairly ==
  ASSUME NEW C, IsFiniteSet(C), NEW T, T \subseteq C, NEW t, NEW v, t.deduped => Apart(C),
         t.rows = SetToSeq(T), v.rows = SetToSeq(C \ T)
  PROVE  FairPair(t, v) /\ RowsIn(t) = T /\ RowsIn(v) = C \ T
<1>1. IsFiniteSet(T) /\ IsFiniteSet(C \ T)
  BY FS_Subset
<1>2. RowsIn(t) = T /\ RowsIn(v) = C \ T
  BY <1>1, RowsListed
<1>3. T \cup (C \ T) = C /\ T \cap (C \ T) = {}
  OBVIOUS
<1> QED
  BY <1>2, <1>3 DEF FairPair

\* The files of a holdout split h of the rows R.
LEMMA SplitAsks ==
  ASSUME NEW R, IsFiniteSet(R), NEW h, HoldoutSound(R, h), NEW a, NEW b, NEW c,
         a.rows = SetToSeq(R \ (h.test \cup h.val)), b.rows = SetToSeq(h.val), c.rows = SetToSeq(h.test)
  PROVE  Asked(a) \cup Asked(b) \cup Asked(c) = {x.q : x \in R}
<1>1. h.test \subseteq R /\ h.val \subseteq R /\ h.val \cap h.test = {}
  BY DEF HoldoutSound
<1>2. IsFiniteSet(h.test) /\ IsFiniteSet(h.val) /\ IsFiniteSet(R \ (h.test \cup h.val))
  BY <1>1, FS_Subset
<1>3. RowsIn(a) = R \ (h.test \cup h.val)
  BY <1>2, RowsListed
<1>4. RowsIn(b) = h.val
  BY <1>2, RowsListed
<1>5. RowsIn(c) = h.test
  BY <1>2, RowsListed
<1> QED
  BY <1>1, <1>3, <1>4, <1>5 DEF Asked

LEMMA SplitHolds ==
  ASSUME NEW R, IsFiniteSet(R), NEW h, HoldoutSound(R, h), NEW a, NEW b, NEW c,
         a.rows = SetToSeq(R \ (h.test \cup h.val)), b.rows = SetToSeq(h.val), c.rows = SetToSeq(h.test),
         \A x, y \in R : x.q = y.q => Uid(x) = Uid(y),
         Cardinality(c.src) = 1 /\ c.deduped => \A x, y \in R : x.q = y.q => x = y
  PROVE  HeldOut(a, b, c)
<1>1. h.test \subseteq R /\ h.val \subseteq R /\ h.val \cap h.test = {}
  BY DEF HoldoutSound
<1>2. IsFiniteSet(h.test) /\ IsFiniteSet(h.val) /\ IsFiniteSet(R \ (h.test \cup h.val))
  BY <1>1, FS_Subset
<1>3. RowsIn(a) = R \ (h.test \cup h.val)
  BY <1>2, RowsListed
<1>4. RowsIn(b) = h.val
  BY <1>2, RowsListed
<1>5. RowsIn(c) = h.test
  BY <1>2, RowsListed
<1>6. Asked(c) \cap (Asked(a) \cup Asked(b)) = {}
  <2> SUFFICES ASSUME NEW r \in h.test, NEW x \in R \ h.test, r.q = x.q
               PROVE  FALSE
    BY <1>1, <1>3, <1>4, <1>5 DEF Asked
  <2>1. Uid(x) = Uid(r)
    BY <1>1
  <2> QED
    BY <2>1 DEF HoldoutSound
<1>7. Cardinality(c.src) = 1 /\ c.deduped => Asked(a) \cap Asked(b) = {}
  BY <1>1, <1>3, <1>4 DEF Asked
<1> QED
  BY <1>6, <1>7 DEF HeldOut

---------------------------------------------------------------------------
(* The rows of a holdout split.                                            *)

LEMMA MaxIn ==
  ASSUME NEW n \in Nat, NEW S, S \subseteq 1..n, S # {}
  PROVE  Max(S) \in S
<1> DEFINE B == {k \in Nat : \A i \in S : i <= k}
<1>1. n \in B
  OBVIOUS
<1>2. PICK m \in B : \A k \in B : m <= k
  BY <1>1, LeastNat
<1>3. m \in S
  <2> SUFFICES ASSUME m \notin S PROVE FALSE
    OBVIOUS
  <2>1. \A i \in S : i \in Nat /\ i <= m /\ i # m /\ i >= 1
    BY <1>2
  <2>2. PICK i \in S : TRUE
    OBVIOUS
  <2>3. m \in Nat /\ m >= 1 /\ m - 1 \in Nat
    BY <1>2, <2>1, <2>2
  <2>4. m - 1 \in B
    BY <2>1, <2>3
  <2> QED
    BY <1>2, <2>3, <2>4
<1>4. \A i \in S : i \in Nat /\ m >= i
  BY <1>2
<1>5. \E x \in S : \A y \in S : x >= y
  BY <1>3, <1>4
<1> QED
  BY <1>5 DEF Max

\* Metadata depends on the question alone.
LEMMA MetaKnown ==
  ASSUME admitted \in Seq(AllRows), NEW r \in AllRows
  PROVE  /\ Meta(r).id = r.id /\ Meta(r).q = r.q
         /\ Meta(r).p \in {x.p : x \in AllRows} \cup {NoPassage}
         /\ Meta(r).s \in Stages
         /\ \A t \in AllRows : r.q = t.q => Meta(r).p = Meta(t).p
<1> DEFINE same(x) == {i \in DOMAIN admitted : admitted[i].q = x.q}
<1>1. \A x \in AllRows : DOMAIN x = {"id", "q", "p", "s", "ok"} /\ x.s \in Stages
  BY RowAssumption
<1>2. ASSUME NEW x \in AllRows, same(x) = {}
      PROVE  Meta(x) = [x EXCEPT !.p = NoPassage, !.s = "unknown"]
  BY <1>2 DEF Meta
<1>3. ASSUME NEW x \in AllRows, same(x) # {}
      PROVE  Meta(x) = [x EXCEPT !.p = admitted[Max(same(x))].p, !.s = admitted[Max(same(x))].s]
  BY <1>3 DEF Meta
<1>4. ASSUME NEW x \in AllRows, same(x) # {}
      PROVE  admitted[Max(same(x))] \in AllRows
  <2>1. same(x) \subseteq 1..Len(admitted) /\ Len(admitted) \in Nat
    OBVIOUS
  <2>2. Max(same(x)) \in same(x)
    <3> HIDE DEF same
    <3> QED
      BY <1>4, <2>1, MaxIn
  <2> QED
    BY <2>1, <2>2
<1>5. "unknown" \in Stages
  <2>1. StageOrder[5] = "unknown" /\ 5 \in DOMAIN StageOrder
    BY DEF StageOrder
  <2> QED
    BY <2>1 DEF Stages
<1> HIDE DEF same
<1> DEFINE Sane == /\ Meta(r).id = r.id /\ Meta(r).q = r.q
                   /\ Meta(r).p \in {x.p : x \in AllRows} \cup {NoPassage}
                   /\ Meta(r).s \in Stages
<1>6. ASSUME same(r) = {} PROVE Sane
  <2>1. Meta(r) = [r EXCEPT !.p = NoPassage, !.s = "unknown"]
    BY <1>2, <1>6
  <2>2. Meta(r).id = r.id /\ Meta(r).q = r.q /\ Meta(r).p = NoPassage /\ Meta(r).s = "unknown"
    BY <1>1, <2>1
  <2>3. Sane
    BY <1>5, <2>2
  <2> QED
    BY <2>3
<1>7. ASSUME same(r) # {} PROVE Sane
  <2> DEFINE y == admitted[Max(same(r))]
  <2>1. Meta(r) = [r EXCEPT !.p = y.p, !.s = y.s]
    BY <1>3, <1>7
  <2>2. y \in AllRows
    BY <1>4, <1>7
  <2> HIDE DEF y
  <2>3. Meta(r).id = r.id /\ Meta(r).q = r.q /\ Meta(r).p = y.p /\ Meta(r).s = y.s
    BY <1>1, <2>1
  <2>4. Sane
    BY <1>1, <2>2, <2>3
  <2> QED
    BY <2>4
<1>8. ASSUME NEW t \in AllRows, r.q = t.q
      PROVE  Meta(r).p = Meta(t).p
  <2>1. same(r) = same(t)
    BY <1>8 DEF same
  <2>2. CASE same(r) = {}
    <3>1. Meta(r) = [r EXCEPT !.p = NoPassage, !.s = "unknown"]
      BY <1>2, <2>2
    <3>2. Meta(t) = [t EXCEPT !.p = NoPassage, !.s = "unknown"]
      BY <1>2, <1>8, <2>1, <2>2
    <3> QED
      BY <1>1, <1>8, <3>1, <3>2
  <2>3. CASE same(r) # {}
    <3> DEFINE y == admitted[Max(same(r))]
    <3>1. Meta(r) = [r EXCEPT !.p = y.p, !.s = y.s]
      BY <1>3, <2>3
    <3>2. Meta(t) = [t EXCEPT !.p = y.p, !.s = y.s]
      BY <1>3, <1>8, <2>1, <2>3
    <3> HIDE DEF y
    <3> QED
      BY <1>1, <1>8, <3>1, <3>2
  <2> QED
    BY <2>2, <2>3
<1>9. Sane
  BY <1>6, <1>7
<1> QED
  BY <1>8, <1>9

LEMMA ImageFinite ==
  ASSUME NEW S, IsFiniteSet(S), NEW f, DOMAIN f = S, f = [x \in S |-> f[x]]
  PROVE  IsFiniteSet({f[x] : x \in S})
<1> DEFINE T == {f[x] : x \in S}
<1>1. f \in Surjection(S, T)
  <2>1. f \in [S -> T]
    OBVIOUS
  <2> QED
    BY <2>1 DEF Surjection
<1> HIDE DEF T
<1> QED
  BY <1>1, FS_Surjection DEF T

\* The row that a split makes of row r of file f, with the metadata of m.
Made(f, r, m) == [id |-> r.id, q |-> r.q, p |-> m.p, s |-> m.s, f |-> f]

\* The rows made from those of S, and the questions of S.
AllMade(f, S, m) == {Made(f, r, m[r]) : r \in S}
Asks(S) == {r.q : r \in S}

\* A question has one uid, or one row, in R.
OneUid(R) == \A x, y \in R : x.q = y.q => Uid(x) = Uid(y)
OneRow(R) == \A x, y \in R : x.q = y.q => x = y

\* R is made from two finite sets of rows, with metadata m by question.
MadeFrom(R, T, V, m) ==
    /\ T \subseteq AllRows /\ V \subseteq AllRows /\ IsFiniteSet(T) /\ IsFiniteSet(V)
    /\ R = AllMade("training", T, m) \cup AllMade("validation", V, m)
    /\ \A r \in T \cup V : m[r].p \in {x.p : x \in AllRows} \cup {NoPassage} /\ m[r].s \in Stages
    /\ \A r, t \in T \cup V : r.q = t.q => m[r].p = m[t].p

LEMMA RowSetFacts ==
  ASSUME NEW R, NEW T, NEW V, NEW m, MadeFrom(R, T, V, m)
  PROVE  /\ R \subseteq SplitRows
         /\ IsFiniteSet(R)
         /\ Asks(R) = Asks(T) \cup Asks(V)
<1>1. /\ T \subseteq AllRows /\ V \subseteq AllRows /\ IsFiniteSet(T) /\ IsFiniteSet(V)
      /\ R = AllMade("training", T, m) \cup AllMade("validation", V, m)
      /\ \A r \in T \cup V : m[r].p \in {x.p : x \in AllRows} \cup {NoPassage} /\ m[r].s \in Stages
  BY DEF MadeFrom
<1>2. R = {Made("training", r, m[r]) : r \in T} \cup {Made("validation", r, m[r]) : r \in V}
  BY <1>1 DEF AllMade
<1>3. R \subseteq SplitRows
  <2>1. \A r \in AllRows : <<r.id, r.q>> \in AllPairs
    BY DEF AllPairs
  <2>2. \A r \in T \cup V, f \in {"training", "validation"} : Made(f, r, m[r]) \in SplitRows
    BY <1>1, <2>1 DEF Made, SplitRows
  <2> QED
    BY <1>2, <2>2
<1>4. IsFiniteSet(AllMade("training", T, m))
  <2> DEFINE g == [r \in T |-> Made("training", r, m[r])]
  <2>1. {g[r] : r \in T} = {Made("training", r, m[r]) : r \in T}
    OBVIOUS
  <2>2. DOMAIN g = T /\ g = [r \in T |-> g[r]]
    OBVIOUS
  <2> HIDE DEF g
  <2>3. IsFiniteSet({g[r] : r \in T})
    BY <1>1, <2>2, ImageFinite
  <2> QED
    BY <2>1, <2>3 DEF AllMade
<1>5. IsFiniteSet(AllMade("validation", V, m))
  <2> DEFINE g == [r \in V |-> Made("validation", r, m[r])]
  <2>1. {g[r] : r \in V} = {Made("validation", r, m[r]) : r \in V}
    OBVIOUS
  <2>2. DOMAIN g = V /\ g = [r \in V |-> g[r]]
    OBVIOUS
  <2> HIDE DEF g
  <2>3. IsFiniteSet({g[r] : r \in V})
    BY <1>1, <2>2, ImageFinite
  <2> QED
    BY <2>1, <2>3 DEF AllMade
<1>6. IsFiniteSet(R)
  BY <1>1, <1>4, <1>5, FS_Union
<1>7. {x.q : x \in R} = {r.q : r \in T} \cup {r.q : r \in V}
  <2>1. \A f, r : Made(f, r, m[r]).q = r.q
    BY DEF Made
  <2>2. \A x \in R : \E r \in T \cup V : x.q = r.q
    <3> SUFFICES ASSUME NEW x \in R
                 PROVE  \E r \in T \cup V : x.q = r.q
      OBVIOUS
    <3>1. PICK r \in T \cup V : x = Made("training", r, m[r]) \/ x = Made("validation", r, m[r])
      BY <1>2
    <3>2. x.q = r.q
      BY <2>1, <3>1
    <3> QED
      BY <3>2
  <2>3. \A r \in T \cup V : \E x \in R : x.q = r.q
    <3>1. \A r \in T \cup V : Made("training", r, m[r]) \in R \/ Made("validation", r, m[r]) \in R
      BY <1>2
    <3> QED
      BY <2>1, <3>1
  <2>4. {x.q : x \in R} \subseteq {r.q : r \in T \cup V} /\ {r.q : r \in T \cup V} \subseteq {x.q : x \in R}
    BY <2>2, <2>3
  <2>5. {r.q : r \in T \cup V} = {r.q : r \in T} \cup {r.q : r \in V}
    OBVIOUS
  <2> QED
    BY <2>4, <2>5
<1> QED
  BY <1>3, <1>6, <1>7 DEF Asks


---------------------------------------------------------------------------
(* A program that starts.                                                  *)

\* The versions of each file that the writes w bring.
New(w) == [f \in Names |-> {w[i].as : i \in {j \in DOMAIN w : w[j].file = f}}]
OnDisk(d) == [f \in Names |-> {d[f]}]

\* w writes the rows R to the file f for the run that starts.
Writing(w, f, src, d, R) ==
    /\ w \in Writes /\ w.file = f /\ w.as \in Files(f)
    /\ w.as.run = runs + 1 /\ w.as.src = src /\ w.as.deduped = d /\ w.as.rows = SetToSeq(R)

LEMMA WriteTyped ==
  ASSUME runs \in 0..MaxRuns, runs < MaxRuns, NEW f \in Names \ {"with_context"}, NEW src,
         src \subseteq 0..runs + 1, NEW d \in BOOLEAN, NEW R, R \subseteq RowsOf(f), IsFiniteSet(R)
  PROVE  Writing(Write(f, src, d, R), f, src, d, R)
<1> DEFINE w == Write(f, src, d, R)
<1>1. w = [file |-> f,
           as |-> [run |-> runs + 1, src |-> src, deduped |-> d, whole |-> TRUE, rows |-> SetToSeq(R)]]
  BY DEF Write
<1>2. SetToSeq(R) \in Seq(RowsOf(f)) /\ SetToSeq(R) \in Seq(AllRows \cup SplitRows)
  <2>1. SetToSeq(R) \in Seq(R)
    BY Listed
  <2>2. R \subseteq AllRows \cup SplitRows
    BY DEF RowsOf
  <2>3. SetToSeq(R) \in Seq(RowsOf(f))
    BY <2>1
  <2> QED
    BY <2>1, <2>2, <2>3
<1>3. MaxRuns \in Nat
  BY RowAssumption
<1>4. runs + 1 \in 0..MaxRuns /\ src \in SUBSET (0..MaxRuns)
  BY <1>3
<1>5. w.as \in Files(f)
  BY <1>1, <1>2, <1>4 DEF Files, Holding
<1>6. w \in Writes
  BY <1>1, <1>2, <1>4 DEF Writes, Holding
<1> QED
  BY <1>1, <1>5, <1>6 DEF Writing

\* Where files are new or lie on a sound disk, a start keeps the invariant.
LEMMA StartKeeps ==
  ASSUME CurationInv, NEW w \in Seq(Writes), NEW A \in SUBSET SplitRows, NEW B \in SUBSET SplitRows,
         \A i \in DOMAIN w : w[i].as \in Files(w[i].file),
         \A r \in B : Cardinality(OfPassage(A, r.p)) > 1,
         Start(w, A, B),
         golden' = golden, admitted' \in Seq(AllRows),
         curator' \in [input : SUBSET AllRows, open : BOOLEAN, retained : SUBSET AllRows],
         DOMAIN disk' = Names, \A f \in Names : disk'[f] \in Files(f),
         Sound(OnDisk(disk'), runs), Prefix(disk'["with_context"], disk'["test_set"]),
         NewRun(New(w), OnDisk(disk'), runs + 1)
  PROVE  CurationInv'
<1>1. job' = [todo |-> w, all |-> A, test |-> B] /\ runs' = runs + 1 /\ runs < MaxRuns
  BY DEF Start
<1>2. runs \in 0..MaxRuns /\ MaxRuns \in Nat
  BY RowAssumption DEF CurationInv, TypeOK
<1>3. runs' \in 0..MaxRuns /\ runs \in Nat
  BY <1>1, <1>2
<1>4. TypeOK'
  BY <1>1, <1>3 DEF CurationInv, TypeOK
<1>5. \A f \in Names : Known'[f] = OnDisk(disk')[f] \cup New(w)[f]
  BY <1>1 DEF Known, OnDisk, New
<1>6. Sound(Known', runs')
  <2>1. Sound(Known', runs + 1)
    BY <1>3, <1>5, SoundGrows
  <2> QED
    BY <1>1, <2>1
<1>7. BakedFrom'
  <2>1. "test_set" \in Names /\ "with_context" \in Names
    BY DEF Names
  <2>2. disk'["with_context"].src \subseteq 0..runs
    BY <2>1 DEF Sound, OnDisk
  <2>3. \A c \in New(w)["test_set"] : c.run = runs + 1
    BY <2>1 DEF NewRun
  <2>4. \A c \in New(w)["test_set"] : disk'["with_context"].src # {c.run}
    <3>1. runs + 1 \notin disk'["with_context"].src
      BY <1>3, <2>2
    <3> QED
      BY <2>3, <3>1
  <2>5. \A c \in Known'["test_set"] : Prefix(disk'["with_context"], c)
    BY <1>5, <2>1, <2>4 DEF OnDisk, Prefix
  <2> QED
    BY <2>5 DEF BakedFrom, Prefix
<1>8. Ahead'
  <2>1. "test_set" \in Names /\ "with_context" \in Names
    BY DEF Names
  <2>2. disk'["with_context"].src \subseteq 0..runs
    BY <2>1 DEF Sound, OnDisk
  <2>3. \A i \in DOMAIN w : w[i].file = "test_set" => w[i].as.run = runs + 1
    BY <2>1 DEF NewRun, New
  <2>4. runs + 1 \notin disk'["with_context"].src
    BY <1>3, <2>2
  <2>5. job'.todo = w
    BY <1>1
  <2> QED
    BY <2>3, <2>4, <2>5 DEF Ahead
<1>9. SingletonsKept'
  <2>1. \A r \in job'.test : Cardinality(OfPassage(job'.all, r.p)) > 1
    BY <1>1
  <2> QED
    BY <2>1 DEF SingletonsKept, OfPassage
<1>10. GoldenUnseen'
  BY DEF CurationInv, GoldenUnseen
<1> QED
  BY <1>4, <1>6, <1>7, <1>8, <1>9, <1>10 DEF CurationInv

\* What the writes t and v of a data set bring.
DatasetBrought(C, T, d, t, v) ==
    /\ Writing(t, "training", {runs + 1}, d, T)
    /\ Writing(v, "validation", {runs + 1}, d, C \ T)
    /\ FairPair(t.as, v.as)
    /\ RowsIn(t.as) = T /\ RowsIn(v.as) = C \ T

LEMMA DatasetBrings ==
  ASSUME runs \in 0..MaxRuns, runs < MaxRuns, NEW d \in BOOLEAN,
         NEW C, C \subseteq AllRows, IsFiniteSet(C), d => Apart(C), NEW T, T \subseteq C
  PROVE  DatasetBrought(C, T, d, Write("training", {runs + 1}, d, T), Write("validation", {runs + 1}, d, C \ T))
<1> DEFINE t == Write("training", {runs + 1}, d, T)
           v == Write("validation", {runs + 1}, d, C \ T)
<1>1. IsFiniteSet(T) /\ IsFiniteSet(C \ T)
  BY FS_Subset
<1>2. "training" \in Names \ {"with_context"} /\ "validation" \in Names \ {"with_context"}
  BY DEF Names
<1>3. RowsOf("training") = AllRows /\ RowsOf("validation") = AllRows
  BY DEF RowsOf
<1>4. {runs + 1} \subseteq 0..runs + 1
  BY RowAssumption
<1>5. T \subseteq AllRows /\ C \ T \subseteq AllRows
  OBVIOUS
<1>6. Writing(t, "training", {runs + 1}, d, T)
  BY <1>1, <1>2, <1>3, <1>4, <1>5, WriteTyped
<1>7. Writing(v, "validation", {runs + 1}, d, C \ T)
  BY <1>1, <1>2, <1>3, <1>4, <1>5, WriteTyped
<1>8. t.as.rows = SetToSeq(T) /\ v.as.rows = SetToSeq(C \ T) /\ t.as.deduped = d
  BY <1>6, <1>7 DEF Writing
<1> HIDE DEF t, v
<1>9. FairPair(t.as, v.as) /\ RowsIn(t.as) = T /\ RowsIn(v.as) = C \ T
  BY <1>8, DealtFairly
<1> QED
  BY <1>6, <1>7, <1>9 DEF t, v, DatasetBrought

\* a, b and c are the writes of a holdout split h of the rows R.
SplitBrought(R, src, d, h, a, b, c) ==
    /\ Writing(a, "adapter_train", src, d, R \ (h.test \cup h.val))
    /\ Writing(b, "adapter_val", src, d, h.val)
    /\ Writing(c, "test_set", src, d, h.test)
    /\ HeldOut(a.as, b.as, c.as)
    /\ Asked(a.as) \cup Asked(b.as) \cup Asked(c.as) = Asks(R)

LEMMA SplitsBring ==
  ASSUME runs \in 0..MaxRuns, runs < MaxRuns,
         NEW R, R \subseteq SplitRows, IsFiniteSet(R), NEW h \in Holdouts(R), NEW src, src \subseteq 0..runs + 1,
         NEW d \in BOOLEAN, OneUid(R), Cardinality(src) = 1 /\ d => OneRow(R),
         NEW a, NEW b, NEW c, Splits(R, src, d, h) = <<a, b, c>>
  PROVE  SplitBrought(R, src, d, h, a, b, c)
<1>1. HoldoutSound(R, h)
  BY HoldoutsSound
<1>2. h.test \subseteq R /\ h.val \subseteq R
  BY <1>1 DEF HoldoutSound
<1>3. a = Write("adapter_train", src, d, R \ (h.test \cup h.val)) /\ b = Write("adapter_val", src, d, h.val)
        /\ c = Write("test_set", src, d, h.test)
  BY DEF Splits
<1>4. \A f \in {"adapter_train", "adapter_val", "test_set"} : f \in Names \ {"with_context"} /\ RowsOf(f) = SplitRows
  BY DEF Names, RowsOf
<1>5. ASSUME NEW f \in {"adapter_train", "adapter_val", "test_set"}, NEW S, S \subseteq R
      PROVE  Writing(Write(f, src, d, S), f, src, d, S)
  <2>1. IsFiniteSet(S)
    BY <1>5, FS_Subset
  <2>2. S \subseteq RowsOf(f) /\ f \in Names \ {"with_context"}
    BY <1>4, <1>5
  <2> QED
    BY <2>1, <2>2, WriteTyped
<1>6. Writing(a, "adapter_train", src, d, R \ (h.test \cup h.val))
  BY <1>3, <1>5
<1>7. Writing(b, "adapter_val", src, d, h.val)
  BY <1>2, <1>3, <1>5
<1>8. Writing(c, "test_set", src, d, h.test)
  BY <1>2, <1>3, <1>5
<1>9. /\ a.as.rows = SetToSeq(R \ (h.test \cup h.val)) /\ b.as.rows = SetToSeq(h.val)
      /\ c.as.rows = SetToSeq(h.test) /\ c.as.src = src /\ c.as.deduped = d
  BY <1>6, <1>7, <1>8 DEF Writing
<1>10. HeldOut(a.as, b.as, c.as) /\ Asked(a.as) \cup Asked(b.as) \cup Asked(c.as) = {x.q : x \in R}
  <2>1. \A x, y \in R : x.q = y.q => Uid(x) = Uid(y)
    BY DEF OneUid
  <2>2. Cardinality(c.as.src) = 1 /\ c.as.deduped => \A x, y \in R : x.q = y.q => x = y
    BY <1>9 DEF OneRow
  <2>3. HeldOut(a.as, b.as, c.as)
    BY ONLY IsFiniteSet(R), <1>1, <1>9, <2>1, <2>2, SplitHolds
  <2>4. Asked(a.as) \cup Asked(b.as) \cup Asked(c.as) = {x.q : x \in R}
    BY ONLY IsFiniteSet(R), <1>1, <1>9, SplitAsks
  <2> QED
    BY <2>3, <2>4
<1> QED
  BY <1>6, <1>7, <1>8, <1>10 DEF Asks, SplitBrought

---------------------------------------------------------------------------
(* The invariant, one step after the other.                                *)

LEMMA CurationInitHolds == Init => CurationInv
<1> SUFFICES ASSUME Init PROVE CurationInv
  OBVIOUS
<1>1. Missing \in Files("test_set") /\ Missing \in Files("with_context") /\ \A f \in Names : Missing \in Files(f)
  BY RowAssumption DEF Missing, Files, Holding
<1>2. TypeOK
  <2>1. admitted \in Seq(AllRows)
    BY RowAssumption DEF Init
  <2>2. curator \in [input : SUBSET AllRows, open : BOOLEAN, retained : SUBSET AllRows]
    BY DEF Init, NoHandoff
  <2>3. DOMAIN disk = Names /\ \A f \in Names : disk[f] \in Files(f)
    BY <1>1 DEF Init
  <2>4. /\ golden \in [test : 0..MaxRuns, baked : SUBSET (0..MaxRuns), seen : SUBSET {Words[r.q] : r \in AllRows},
                       plain : Seq(SplitRows), context : Seq(SplitRows)]
        /\ Len(golden.plain) = Len(golden.context)
    BY RowAssumption DEF Init
  <2>5. job = [todo |-> <<>>, all |-> {}, test |-> {}]
    BY DEF Init, Idle
  <2>6. job \in [todo : Seq(Writes), all : SUBSET SplitRows, test : SUBSET SplitRows]
    BY <2>5
  <2>7. \A i \in DOMAIN job.todo : job.todo[i].as \in Files(job.todo[i].file)
    BY <2>5
  <2>8. runs \in 0..MaxRuns
    BY RowAssumption DEF Init
  <2> QED
    BY <2>1, <2>2, <2>3, <2>4, <2>6, <2>7, <2>8 DEF TypeOK
<1>3. \A f \in Names : Known[f] = {Missing}
  BY DEF Init, Known, Idle
<1>4. Sound(Known, runs)
  <2>1. runs \in Nat
    BY DEF Init
  <2> QED
    BY <1>3, <2>1, NothingIsSound
<1>5. Ahead
  BY DEF Init, Idle, Ahead
<1>6. BakedFrom
  <2>1. disk["with_context"].src = {} /\ "test_set" \in Names
    BY DEF Init, Names, Missing
  <2> QED
    BY <2>1 DEF BakedFrom, Prefix
<1>7. SingletonsKept
  BY DEF Init, Idle, SingletonsKept
<1>8. GoldenUnseen
  BY DEF Init, GoldenUnseen
<1> QED
  BY <1>2, <1>4, <1>5, <1>6, <1>7, <1>8 DEF CurationInv

\* Steps that leave the files alone.
LEMMA FilesUnread ==
  ASSUME CurationInv, TypeOK', UNCHANGED <<disk, golden, job>>, runs' \in 0..MaxRuns, runs <= runs'
  PROVE  CurationInv'
<1>1. runs \in Nat /\ runs' \in Nat
  BY RowAssumption DEF CurationInv, TypeOK
<1>2. \A f \in Names : Known'[f] = Known[f]
  BY DEF Known
<1>3. Sound(Known', runs')
  BY <1>1, <1>2, SoundShrinks DEF CurationInv
<1>4. BakedFrom'
  <2>1. "test_set" \in Names
    BY DEF Names
  <2> QED
    BY <1>2, <2>1 DEF CurationInv, BakedFrom, Prefix
<1>5. SingletonsKept'
  BY DEF CurationInv, SingletonsKept, OfPassage
<1>6. GoldenUnseen'
  BY DEF CurationInv, GoldenUnseen
<1>7. Ahead'
  BY DEF CurationInv, Ahead
<1> QED
  BY <1>3, <1>4, <1>5, <1>6, <1>7 DEF CurationInv

LEMMA ReadmitKeeps ==
  ASSUME CurationInv, Readmit
  PROVE  CurationInv'
<1>1. runs' = runs + 1 /\ runs < MaxRuns /\ runs \in 0..MaxRuns /\ MaxRuns \in Nat
  BY RowAssumption DEF Readmit, CurationInv, TypeOK
<1>2. admitted' \in Seq(AllRows)
  BY RowAssumption DEF Readmit
<1>3. runs' \in 0..MaxRuns /\ runs <= runs'
  BY <1>1
<1>4. TypeOK'
  BY <1>2, <1>3 DEF Readmit, CurationInv, TypeOK
<1> QED
  BY <1>3, <1>4, FilesUnread DEF Readmit

LEMMA PrepareKeeps ==
  ASSUME CurationInv, PrepareHandoff
  PROVE  CurationInv'
<1>1. Range(admitted) \subseteq AllRows
  BY DEF CurationInv, TypeOK, Range
<1>2. curator \in [input : SUBSET AllRows, open : BOOLEAN, retained : SUBSET AllRows]
  BY DEF CurationInv, TypeOK
<1>3. curator' \in [input : SUBSET AllRows, open : BOOLEAN, retained : SUBSET AllRows]
  BY <1>1, <1>2 DEF PrepareHandoff
<1>4. TypeOK' /\ runs \in 0..MaxRuns
  BY <1>3 DEF PrepareHandoff, CurationInv, TypeOK
<1>5. runs' \in 0..MaxRuns /\ runs <= runs'
  BY <1>4, RowAssumption DEF PrepareHandoff
<1> QED
  BY <1>4, <1>5, FilesUnread DEF PrepareHandoff

LEMMA CuratorKeeps ==
  ASSUME CurationInv, CuratorEnds
  PROVE  CurationInv'
<1>1. curator \in [input : SUBSET AllRows, open : BOOLEAN, retained : SUBSET AllRows]
  BY DEF CurationInv, TypeOK
<1>2. PICK K \in SUBSET curator.input : curator' = [curator EXCEPT !.open = FALSE, !.retained = K]
  BY DEF CuratorEnds
<1>3. curator' \in [input : SUBSET AllRows, open : BOOLEAN, retained : SUBSET AllRows]
  BY <1>1, <1>2
<1>4. TypeOK' /\ runs \in 0..MaxRuns
  BY <1>3 DEF CuratorEnds, CurationInv, TypeOK
<1>5. runs' \in 0..MaxRuns /\ runs <= runs'
  BY <1>4, RowAssumption DEF CuratorEnds
<1> QED
  BY <1>4, <1>5, FilesUnread DEF CuratorEnds

\* Some of the rows of x, of the same run, in a file cut short.
Cut(y, x) ==
    /\ y.run = x.run /\ y.src = x.src /\ y.deduped = x.deduped /\ y.whole = FALSE
    /\ RowsIn(y) \subseteq RowsIn(x)

LEMMA CutFits ==
  ASSUME NEW y, NEW x, Cut(y, x)
  PROVE  /\ \A v : FairPair(x, v) => FairPair(y, v)
         /\ \A t : FairPair(t, x) => FairPair(t, y)
         /\ \A b, c : HeldOut(x, b, c) => HeldOut(y, b, c)
         /\ \A a, c : HeldOut(a, x, c) => HeldOut(a, y, c)
         /\ \A a, b : HeldOut(a, b, x) => HeldOut(a, b, y)
         /\ Asked(y) \subseteq Asked(x)
<1>1. Asked(y) \subseteq Asked(x)
  BY DEF Cut, Asked
<1>2. \A v : FairPair(x, v) => FairPair(y, v)
  BY DEF Cut, FairPair, Apart
<1>3. \A t : FairPair(t, x) => FairPair(t, y)
  BY DEF Cut, FairPair, Apart
<1>4. \A b, c : HeldOut(x, b, c) => HeldOut(y, b, c)
  BY <1>1 DEF Cut, HeldOut
<1>5. \A a, c : HeldOut(a, x, c) => HeldOut(a, y, c)
  BY <1>1 DEF Cut, HeldOut
<1>6. \A a, b : HeldOut(a, b, x) => HeldOut(a, b, y)
  BY <1>1 DEF Cut, HeldOut
<1> QED
  BY <1>1, <1>2, <1>3, <1>4, <1>5, <1>6

LEMMA CutRecord ==
  ASSUME NEW A, NEW B, NEW C, NEW D, NEW S, NEW whole \in D, NEW rows \in S,
         NEW x \in [run : A, src : B, deduped : C, whole : D, rows : S],
         NEW y, y = [x EXCEPT !.whole = whole, !.rows = rows]
  PROVE  /\ y \in [run : A, src : B, deduped : C, whole : D, rows : S]
         /\ y.run = x.run /\ y.src = x.src /\ y.deduped = x.deduped /\ y.whole = whole /\ y.rows = rows
OBVIOUS

\* One version of each file, known or cut short.
LEMMA CutsSound ==
  ASSUME NEW K, NEW L, NEW d, NEW n \in Nat, Sound(K, n), \A f \in Names : L[f] = {d[f]},
         \A f \in Names : \E x \in K[f] : d[f] = x \/ Cut(d[f], x)
  PROVE  Sound(L, n)
<1> DEFINE t == d["training"]
           v == d["validation"]
           a == d["adapter_train"]
           b == d["adapter_val"]
           c == d["test_set"]
           From(y, x) == y = x \/ Cut(y, x)
<1>1. /\ "training" \in Names /\ "validation" \in Names /\ "adapter_train" \in Names
      /\ "adapter_val" \in Names /\ "test_set" \in Names
  BY DEF Names
<1>2. /\ \E x \in K["training"] : From(t, x)
      /\ \E x \in K["validation"] : From(v, x)
      /\ \E x \in K["adapter_train"] : From(a, x)
      /\ \E x \in K["adapter_val"] : From(b, x)
      /\ \E x \in K["test_set"] : From(c, x)
  BY <1>1
<1>3. PICK t0 \in K["training"] : From(t, t0)
  BY <1>2
<1>4. PICK v0 \in K["validation"] : From(v, v0)
  BY <1>2
<1>5. PICK a0 \in K["adapter_train"] : From(a, a0)
  BY <1>2
<1>6. PICK b0 \in K["adapter_val"] : From(b, b0)
  BY <1>2
<1>7. PICK c0 \in K["test_set"] : From(c, c0)
  BY <1>2
<1>8. FairPair(t0, v0) /\ HeldOut(a0, b0, c0) /\ Covers(a0, b0, c0, t0, v0)
  BY <1>3, <1>4, <1>5, <1>6, <1>7 DEF Sound
<1>9. \A f \in Names : \A x \in L[f] : x.run \in 0..n /\ x.src \subseteq 0..n
  BY DEF Sound, Cut
<1>10. L["training"] = {t} /\ L["validation"] = {v} /\ L["adapter_train"] = {a} /\ L["adapter_val"] = {b}
         /\ L["test_set"] = {c}
  BY <1>1
<1> HIDE DEF t, v, a, b, c
<1>11. FairPair(t, v)
  <2>1. FairPair(t, v0)
    BY <1>3, <1>8, CutFits
  <2> QED
    BY <1>4, <2>1, CutFits
<1>12. HeldOut(a, b, c)
  <2>1. HeldOut(a, b0, c0)
    BY <1>5, <1>8, CutFits
  <2>2. HeldOut(a, b, c0)
    BY <1>6, <2>1, CutFits
  <2> QED
    BY <1>7, <2>2, CutFits
<1>13. Covers(a, b, c, t, v)
  <2>1. CASE a = a0 /\ b = b0 /\ c = c0 /\ t = t0 /\ v = v0
    BY <1>8, <2>1
  <2>2. CASE ~(a.whole /\ b.whole /\ c.whole /\ t.whole /\ v.whole)
    BY <2>2 DEF Covers
  <2> QED
    BY <1>3, <1>4, <1>5, <1>6, <1>7, <2>1, <2>2 DEF Cut
<1> QED
  BY <1>9, <1>10, <1>11, <1>12, <1>13 DEF Sound

LEMMA KillKeeps ==
  ASSUME CurationInv, Kill
  PROVE  CurationInv'
<1>1. job' = [todo |-> <<>>, all |-> {}, test |-> {}] /\ UNCHANGED <<admitted, curator, golden, runs>>
  BY DEF Kill, Idle
<1>2. runs' = runs /\ runs \in Nat
  BY <1>1, RowAssumption DEF CurationInv, TypeOK
<1> DEFINE w == Head(job.todo)
<1>3. /\ job.todo \in Seq(Writes) /\ job.todo # <<>>
      /\ \A i \in DOMAIN job.todo : job.todo[i].as \in Files(job.todo[i].file)
  BY DEF CurationInv, TypeOK, Kill
<1>4. w = job.todo[1] /\ 1 \in DOMAIN job.todo /\ w \in Writes
  BY <1>3
<1>5. w.file \in Names \ {"with_context"} /\ w.as \in Files(w.file)
  BY <1>3, <1>4 DEF Writes
<1>6. w.as \in Known[w.file]
  BY <1>4, <1>5 DEF Known
<1> HIDE DEF w
\* Every file is as it was, or is the one that was being written.
<1> DEFINE Partly(f, y) == f = w.file /\ y \in Files(f) /\ Cut(y, w.as)
<1>7. DOMAIN disk' = Names /\ \A f \in Names : disk'[f] = disk[f] \/ Partly(f, disk'[f])
  <2>1. CASE disk' = disk
    BY <2>1 DEF CurationInv, TypeOK
  <2>2. ASSUME NEW n \in 0..Len(w.as.rows),
               disk' = [disk EXCEPT ![w.file] = [w.as EXCEPT !.whole = FALSE, !.rows = SubSeq(@, 1, n)]]
        PROVE  DOMAIN disk' = Names /\ \A f \in Names : disk'[f] = disk[f] \/ Partly(f, disk'[f])
    <3> DEFINE y == [w.as EXCEPT !.whole = FALSE, !.rows = SubSeq(@, 1, n)]
    <3>1. w.as \in [run : 0..MaxRuns, src : SUBSET (0..MaxRuns), deduped : BOOLEAN, whole : BOOLEAN,
                     rows : Seq(RowsOf(w.file))]
      BY <1>5 DEF Files, Holding
    <3>2. /\ SubSeq(w.as.rows, 1, n) \in Seq(RowsOf(w.file)) /\ Len(SubSeq(w.as.rows, 1, n)) = n
          /\ \A i \in 1..n : SubSeq(w.as.rows, 1, n)[i] = w.as.rows[i]
      BY <3>1, SubSeqProperties
    <3>3. /\ y \in [run : 0..MaxRuns, src : SUBSET (0..MaxRuns), deduped : BOOLEAN, whole : BOOLEAN,
                    rows : Seq(RowsOf(w.file))]
          /\ y.run = w.as.run /\ y.src = w.as.src /\ y.deduped = w.as.deduped /\ y.whole = FALSE
          /\ y.rows = SubSeq(w.as.rows, 1, n)
      <4> DEFINE rows == SubSeq(w.as.rows, 1, n)
      <4>1. y = [w.as EXCEPT !.whole = FALSE, !.rows = rows]
        OBVIOUS
      <4>2. rows \in Seq(RowsOf(w.file)) /\ FALSE \in BOOLEAN
        BY <3>2
      <4> HIDE DEF rows, y
      <4>3. y \in [run : 0..MaxRuns, src : SUBSET (0..MaxRuns), deduped : BOOLEAN, whole : BOOLEAN,
                    rows : Seq(RowsOf(w.file))]
        BY ONLY <3>1, <4>1, <4>2, CutRecord
      <4>4. /\ y.run = w.as.run /\ y.src = w.as.src /\ y.deduped = w.as.deduped /\ y.whole = FALSE
            /\ y.rows = rows
        BY ONLY <3>1, <4>1, <4>2, CutRecord
      <4> QED
        BY <4>3, <4>4 DEF rows
    <3>4. y \in Files(w.file)
      BY <3>3 DEF Files, Holding
    <3>5. RowsIn(y) \subseteq RowsIn(w.as)
      <4>1. DOMAIN y.rows = 1..n /\ 1..n \subseteq DOMAIN w.as.rows
        BY <3>1, <3>2, <3>3
      <4> QED
        BY <3>2, <3>3, <4>1 DEF RowsIn
    <3>6. Cut(y, w.as)
      BY <3>3, <3>5 DEF Cut
    <3>7. disk' = [disk EXCEPT ![w.file] = y] /\ DOMAIN disk = Names
      BY <2>2 DEF CurationInv, TypeOK
    <3> HIDE DEF y
    <3> QED
      BY <3>4, <3>6, <3>7
  <2> QED
    BY <2>1, <2>2 DEF Kill, w
<1>8. TypeOK'
  <2>1. \A f \in Names : disk'[f] \in Files(f)
    BY <1>7 DEF CurationInv, TypeOK
  <2>2. job' \in [todo : Seq(Writes), all : SUBSET SplitRows, test : SUBSET SplitRows]
          /\ \A i \in DOMAIN job'.todo : job'.todo[i].as \in Files(job'.todo[i].file)
    BY <1>1
  <2> QED
    BY <1>1, <1>7, <2>1, <2>2 DEF CurationInv, TypeOK
<1>9. \A f \in Names : Known'[f] = {disk'[f]} /\ disk[f] \in Known[f]
  BY <1>1 DEF Known
<1>10. \A f \in Names : \E x \in Known[f] : disk'[f] = x \/ Cut(disk'[f], x)
  BY <1>6, <1>7, <1>9
<1>11. Sound(Known', runs')
  <2> HIDE DEF Partly
  <2> QED
    BY <1>2, <1>9, <1>10, CutsSound DEF CurationInv
<1>12. disk'["with_context"] = disk["with_context"] /\ "test_set" \in Names /\ "with_context" \in Names
  BY <1>5, <1>7 DEF Names
<1>13. BakedFrom'
  <2>1. CASE disk'["test_set"] = disk["test_set"]
    BY <1>9, <1>12, <2>1 DEF CurationInv, BakedFrom, Prefix
  <2>2. CASE Partly("test_set", disk'["test_set"])
    <3>1. disk["with_context"].src # {disk'["test_set"].run}
      BY <1>4, <2>2 DEF CurationInv, Ahead, Cut
    <3> QED
      BY <1>9, <1>12, <3>1 DEF BakedFrom, Prefix
  <2> QED
    BY <1>7, <1>12, <2>1, <2>2
<1>14. Ahead' /\ SingletonsKept'
  BY <1>1 DEF Ahead, SingletonsKept
<1>15. GoldenUnseen'
  BY <1>1 DEF CurationInv, GoldenUnseen
<1> QED
  BY <1>8, <1>11, <1>13, <1>14, <1>15 DEF CurationInv

LEMMA WriteKeeps ==
  ASSUME CurationInv, WriteNext
  PROVE  CurationInv'
<1> DEFINE w == Head(job.todo)
<1>1. job \in [todo : Seq(Writes), all : SUBSET SplitRows, test : SUBSET SplitRows]
        /\ \A i \in DOMAIN job.todo : job.todo[i].as \in Files(job.todo[i].file)
  BY DEF CurationInv, TypeOK
<1>2. job.todo # <<>> /\ disk' = [disk EXCEPT ![w.file] = w.as]
        /\ UNCHANGED <<admitted, curator, golden, runs>>
  BY DEF WriteNext
<1>3. w = job.todo[1] /\ 1 \in DOMAIN job.todo /\ w \in Writes
  BY <1>1, <1>2
<1>4. w.file \in Names \ {"with_context"} /\ w.as \in Files(w.file)
  BY <1>1, <1>3 DEF Writes
<1>5. job'.todo = Tail(job.todo) /\ job' \in [todo : Seq(Writes), all : SUBSET SplitRows, test : SUBSET SplitRows]
  <2>1. CASE Len(job.todo) = 1
    <3>1. job' = [todo |-> <<>>, all |-> {}, test |-> {}]
      BY <2>1 DEF WriteNext, Idle
    <3>2. Tail(job.todo) = <<>>
      BY <1>1, <2>1
    <3> QED
      BY <3>1, <3>2
  <2>2. CASE Len(job.todo) # 1
    <3>1. job' = [job EXCEPT !.todo = Tail(@)]
      BY <2>2 DEF WriteNext
    <3>2. job' = [todo |-> Tail(job.todo), all |-> job.all, test |-> job.test]
      BY <1>1, <3>1
    <3>3. Tail(job.todo) \in Seq(Writes)
      <4> DEFINE todo == job.todo
      <4>1. todo \in Seq(Writes) /\ todo # <<>>
        BY <1>1, <1>2
      <4> HIDE DEF todo
      <4>2. Tail(todo) \in Seq(Writes)
        BY <4>1
      <4> QED
        BY <4>2 DEF todo
    <3> QED
      BY <1>1, <3>2, <3>3
  <2> QED
    BY <2>1, <2>2
<1>6. \A i \in DOMAIN job'.todo : i + 1 \in DOMAIN job.todo /\ job'.todo[i] = job.todo[i + 1]
  BY <1>1, <1>2, <1>5
<1>7. DOMAIN disk' = Names /\ \A f \in Names : disk'[f] = IF f = w.file THEN w.as ELSE disk[f]
  BY <1>2 DEF CurationInv, TypeOK
<1>8. TypeOK'
  <2>1. \A f \in Names : disk'[f] \in Files(f)
    BY <1>4, <1>7 DEF CurationInv, TypeOK
  <2>2. \A i \in DOMAIN job'.todo : job'.todo[i].as \in Files(job'.todo[i].file)
    BY <1>1, <1>6
  <2> QED
    BY <1>2, <1>5, <1>7, <2>1, <2>2 DEF CurationInv, TypeOK
<1>9. \A f \in Names : Known'[f] \subseteq Known[f]
  <2> SUFFICES ASSUME NEW f \in Names, NEW x \in Known'[f]
               PROVE  x \in Known[f]
    OBVIOUS
  <2>1. \/ x = disk'[f]
        \/ \E i \in DOMAIN job'.todo : job'.todo[i].file = f /\ x = job'.todo[i].as
    BY DEF Known
  <2>2. CASE x = disk'[f]
    <3>1. x = disk[f] \/ (f = w.file /\ x = w.as)
      BY <1>7, <2>2
    <3> HIDE DEF w
    <3> QED
      BY <1>3, <3>1 DEF Known
  <2>3. CASE \E i \in DOMAIN job'.todo : job'.todo[i].file = f /\ x = job'.todo[i].as
    BY <1>6, <2>3 DEF Known
  <2> QED
    BY <2>1, <2>2, <2>3
<1>10. Sound(Known', runs')
  <2>1. runs' = runs /\ runs \in Nat
    BY <1>2, RowAssumption DEF CurationInv, TypeOK
  <2> QED
    BY <1>9, <2>1, SoundShrinks DEF CurationInv
<1>11. BakedFrom'
  <2>1. "test_set" \in Names /\ disk'["with_context"] = disk["with_context"]
    BY <1>4, <1>7 DEF Names
  <2> QED
    BY <1>9, <2>1 DEF CurationInv, BakedFrom, Prefix
<1>12. SingletonsKept'
  <2>1. job'.test = {} \/ (job'.test = job.test /\ job'.all = job.all)
    BY <1>1 DEF WriteNext, Idle
  <2> QED
    BY <2>1 DEF CurationInv, SingletonsKept, OfPassage
<1>13. GoldenUnseen'
  BY <1>2 DEF CurationInv, GoldenUnseen
<1>14. Ahead'
  <2>1. disk'["with_context"] = disk["with_context"]
    BY <1>4, <1>7 DEF Names
  <2> QED
    BY <1>6, <2>1 DEF CurationInv, Ahead
<1> QED
  BY <1>8, <1>10, <1>11, <1>12, <1>13, <1>14 DEF CurationInv

LEMMA BakeKeeps ==
  ASSUME CurationInv, Bake
  PROVE  CurationInv'
<1>1. PICK n \in 0..Len(disk["test_set"].rows) : disk' = [disk EXCEPT !["with_context"] = Baked(n)]
  BY DEF Bake
<1>2. job = Idle /\ UNCHANGED <<admitted, curator, golden, job, runs>>
  BY DEF Bake
<1> DEFINE c == disk["test_set"]
<1>3. "test_set" \in Names /\ "with_context" \in Names /\ RowsOf("test_set") = SplitRows
        /\ RowsOf("with_context") = SplitRows
  BY DEF Names, RowsOf
<1>4. c.rows \in Seq(SplitRows) /\ c.run \in 0..MaxRuns /\ runs \in 0..MaxRuns
        /\ c.deduped \in BOOLEAN /\ c.whole \in BOOLEAN
  BY <1>3 DEF CurationInv, TypeOK, Files, Holding
<1>5. SubSeq(c.rows, 1, n) \in Seq(SplitRows) /\ Len(SubSeq(c.rows, 1, n)) = n
        /\ \A i \in 1..n : SubSeq(c.rows, 1, n)[i] = c.rows[i]
  BY <1>1, <1>4, SubSeqProperties
<1>6. Baked(n) = [run |-> runs, src |-> {c.run}, deduped |-> c.deduped, whole |-> c.whole,
                  rows |-> SubSeq(c.rows, 1, n)]
  <2>1. c \in [run : 0..MaxRuns, src : SUBSET (0..MaxRuns), deduped : BOOLEAN, whole : BOOLEAN,
               rows : Seq(SplitRows)]
    BY <1>3 DEF CurationInv, TypeOK, Files, Holding
  <2>2. Baked(n) = [c EXCEPT !.run = runs, !.src = {c.run}, !.rows = SubSeq(@, 1, n)]
    BY DEF Baked
  <2> HIDE DEF c
  <2> QED
    BY <2>1, <2>2
<1> HIDE DEF c
<1>7. Baked(n) \in Files("with_context")
  BY <1>3, <1>4, <1>5, <1>6 DEF Files, Holding
<1>8. Prefix(Baked(n), c)
  BY <1>1, <1>4, <1>5, <1>6 DEF Prefix, c
<1>9. DOMAIN disk' = Names /\ \A f \in Names : disk'[f] = IF f = "with_context" THEN Baked(n) ELSE disk[f]
  BY <1>1, <1>3 DEF CurationInv, TypeOK
<1>10. TypeOK'
  <2>1. \A f \in Names : disk'[f] \in Files(f)
    BY <1>7, <1>9 DEF CurationInv, TypeOK
  <2> QED
    BY <1>2, <1>9, <2>1 DEF CurationInv, TypeOK
<1>11. job.todo = <<>> /\ job'.todo = <<>>
  BY <1>2 DEF Idle
<1>12. \A f \in Names : Known[f] = {disk[f]} /\ Known'[f] = {disk'[f]}
  BY <1>11 DEF Known
<1>13. Sound(Known', runs')
  <2>1. /\ \A f \in Names \ {"with_context"} : Known'[f] = Known[f]
        /\ Known'["with_context"] = {Baked(n)}
    BY <1>3, <1>9, <1>12
  <2>2. c.run \in 0..runs /\ runs \in Nat
    BY <1>3, <1>4, <1>12, RowAssumption DEF CurationInv, Sound, c
  <2>3. \A x \in Known'["with_context"] : x.run \in 0..runs /\ x.src \subseteq 0..runs
    BY <1>6, <2>1, <2>2
  <2>4. \A f \in Names : \A x \in Known'[f] : x.run \in 0..runs /\ x.src \subseteq 0..runs
    BY <2>1, <2>3 DEF CurationInv, Sound
  <2>5. /\ Known'["training"] = Known["training"] /\ Known'["validation"] = Known["validation"]
        /\ Known'["adapter_train"] = Known["adapter_train"] /\ Known'["adapter_val"] = Known["adapter_val"]
        /\ Known'["test_set"] = Known["test_set"]
    BY <2>1 DEF Names
  <2>6. runs' = runs
    BY <1>2
  <2> QED
    BY <2>4, <2>5, <2>6 DEF CurationInv, Sound
<1>14. BakedFrom'
  <2>1. Known'["test_set"] = {c} /\ disk'["with_context"] = Baked(n)
    BY <1>3, <1>9, <1>12 DEF c
  <2> QED
    BY <1>8, <2>1 DEF BakedFrom, Prefix
<1>15. SingletonsKept'
  BY <1>2 DEF CurationInv, SingletonsKept, OfPassage
<1>16. GoldenUnseen'
  BY <1>2 DEF CurationInv, GoldenUnseen
<1>17. Ahead'
  BY <1>11 DEF Ahead
<1> QED
  BY <1>10, <1>13, <1>14, <1>15, <1>16, <1>17 DEF CurationInv

\* Between the programs, a file has one version: what is on disk.
LEMMA Settled ==
  ASSUME CurationInv, job = Idle
  PROVE  /\ \A f \in Names : Known[f] = {disk[f]} /\ OnDisk(disk)[f] = {disk[f]}
         /\ Sound(OnDisk(disk), runs)
         /\ Prefix(disk["with_context"], disk["test_set"])
<1>1. \A f \in Names : Known[f] = {disk[f]} /\ OnDisk(disk)[f] = {disk[f]}
  BY DEF Idle, Known, OnDisk
<1>2. runs \in Nat
  BY RowAssumption DEF CurationInv, TypeOK
<1>3. Sound(OnDisk(disk), runs)
  BY <1>1, <1>2, SoundShrinks DEF CurationInv
<1>4. "test_set" \in Names
  BY DEF Names
<1> QED
  BY <1>1, <1>3, <1>4 DEF CurationInv, BakedFrom

\* A program that deals the rows C to training and validation.
LEMMA DealKeeps ==
  ASSUME CurationInv, NEW C, C \subseteq AllRows, IsFiniteSet(C), NEW T, T \subseteq C,
         NEW d \in BOOLEAN, d => Apart(C),
         Start(Dataset(T, C \ T, d), {}, {}), UNCHANGED <<admitted, curator, disk, golden>>
  PROVE  CurationInv'
<1> DEFINE t == Write("training", {runs + 1}, d, T)
           v == Write("validation", {runs + 1}, d, C \ T)
<1>1. runs \in 0..MaxRuns /\ runs < MaxRuns /\ job = Idle /\ runs \in Nat
  BY RowAssumption DEF Start, CurationInv, TypeOK
<1>2. Writing(t, "training", {runs + 1}, d, T) /\ Writing(v, "validation", {runs + 1}, d, C \ T)
        /\ FairPair(t.as, v.as)
  <2>1. DatasetBrought(C, T, d, t, v)
    BY <1>1, DatasetBrings
  <2> QED
    BY <2>1 DEF DatasetBrought
<1>3. Start(<<t, v>>, {}, {})
  BY DEF Dataset
<1> HIDE DEF t, v
<1>4. /\ t \in Writes /\ t.file = "training" /\ t.as \in Files("training") /\ t.as.run = runs + 1
      /\ t.as.src = {runs + 1}
      /\ v \in Writes /\ v.file = "validation" /\ v.as \in Files("validation") /\ v.as.run = runs + 1
      /\ v.as.src = {runs + 1}
  BY <1>2 DEF Writing
<1>5. <<t, v>> \in Seq(Writes) /\ \A i \in DOMAIN <<t, v>> : <<t, v>>[i].as \in Files(<<t, v>>[i].file)
  BY <1>4
<1>6. NewRun(New(<<t, v>>), OnDisk(disk'), runs + 1)
  <2>1. \A f \in Names : New(<<t, v>>)[f] = IF f = "training" THEN {t.as} ELSE IF f = "validation" THEN {v.as} ELSE {}
    BY <1>4 DEF New
  <2>2. /\ New(<<t, v>>)["training"] = {t.as} /\ New(<<t, v>>)["validation"] = {v.as}
        /\ New(<<t, v>>)["test_set"] = {}
    BY <2>1 DEF Names
  <2>3. runs + 1 \in 0..runs + 1
    BY <1>1
  <2>4. \A f \in Names : \A x \in New(<<t, v>>)[f] : x.run = runs + 1 /\ x.src \subseteq 0..runs + 1
    BY <1>4, <2>1, <2>3
  <2> QED
    BY <1>2, <2>2, <2>4 DEF NewRun
<1>7. admitted' \in Seq(AllRows) /\ curator' \in [input : SUBSET AllRows, open : BOOLEAN, retained : SUBSET AllRows]
        /\ DOMAIN disk' = Names /\ \A f \in Names : disk'[f] \in Files(f)
  BY DEF CurationInv, TypeOK
<1>8. Sound(OnDisk(disk'), runs) /\ Prefix(disk'["with_context"], disk'["test_set"])
  <2>1. disk' = disk
    OBVIOUS
  <2> QED
    BY <1>1, <2>1, Settled
<1>9. \A r \in {} : Cardinality(OfPassage({}, r.p)) > 1
  OBVIOUS
<1>10. golden' = golden /\ {} \in SUBSET SplitRows
  OBVIOUS
<1> DEFINE w == <<t, v>>
<1>11. /\ w \in Seq(Writes) /\ Start(w, {}, {}) /\ NewRun(New(w), OnDisk(disk'), runs + 1)
       /\ \A i \in DOMAIN w : w[i].as \in Files(w[i].file)
  BY <1>3, <1>5, <1>6
<1> HIDE DEF w
<1> QED
  BY <1>7, <1>8, <1>9, <1>10, <1>11, StartKeeps

LEMMA RunStage3Keeps ==
  ASSUME CurationInv, RunStage3
  PROVE  CurationInv'
<1> DEFINE C == Curated(admitted)
<1>1. C \subseteq AllRows /\ IsFiniteSet(C) /\ Apart(C)
  BY CuratedApart DEF CurationInv, TypeOK
<1>2. PICK T \in Stratified(C, TrainSize) : Start(Dataset(T, C \ T, TRUE), {}, {})
  BY DEF RunStage3
<1>3. T \subseteq C
  BY DEF Stratified
<1> HIDE DEF C
<1> QED
  BY <1>1, <1>2, <1>3, DealKeeps DEF RunStage3

LEMMA CollectHandoffKeeps ==
  ASSUME CurationInv, CollectHandoff
  PROVE  CurationInv'
<1>1. Retained \subseteq AllRows /\ IsFiniteSet(Retained)
  <2>1. IsFiniteSet(Range(admitted))
    BY FinitelyMany DEF CurationInv, TypeOK, Range
  <2> QED
    BY <2>1, FS_Subset DEF CurationInv, TypeOK, Retained
<1>2. PICK T \in Stratified(Retained, HandoffSize) : Start(Dataset(T, Retained \ T, FALSE), {}, {})
  BY DEF CollectHandoff
<1>3. T \subseteq Retained
  BY DEF Stratified
<1> QED
  BY <1>1, <1>2, <1>3, DealKeeps DEF CollectHandoff

LEMMA RowsMade ==
  ASSUME NEW S, NEW m, NEW M, M = {m[r] : r \in S}, NEW f, \A r \in S : m[r].id = r.id /\ m[r].q = r.q
  PROVE  Rows(f, M) = AllMade(f, S, m)
<1>1. \A r \in S : Made(f, r, m[r]) = [id |-> m[r].id, q |-> m[r].q, p |-> m[r].p, s |-> m[r].s, f |-> f]
  BY DEF Made
<1>2. Rows(f, M) =
        {[id |-> m[r].id, q |-> m[r].q, p |-> m[r].p, s |-> m[r].s, f |-> f] : r \in S}
  BY DEF Rows
<1> QED
  BY <1>1, <1>2 DEF AllMade

\* A question has one uid in the rows of a split, and one row where the rows
\* it is made from are apart.
LEMMA QuestionTells ==
  ASSUME NEW R, NEW T, NEW V, NEW m, MadeFrom(R, T, V, m)
  PROVE  OneUid(R) /\ (Apart(T \cup V) /\ T \cap V = {} => OneRow(R))
<1>1. \A r, f : Made(f, r, m[r]).q = r.q /\ Made(f, r, m[r]).p = m[r].p
  BY DEF Made
<1>2. \A x \in R : \E r \in T \cup V, f \in {"training", "validation"} :
         x = Made(f, r, m[r]) /\ (f = "training" => r \in T) /\ (f = "validation" => r \in V)
  BY DEF AllMade, MadeFrom
<1>3. ASSUME NEW x \in R, NEW y \in R, x.q = y.q
      PROVE  /\ Uid(x) = Uid(y)
             /\ Apart(T \cup V) /\ T \cap V = {} => x = y
  <2>1. PICK r \in T \cup V, f \in {"training", "validation"} :
           x = Made(f, r, m[r]) /\ (f = "training" => r \in T) /\ (f = "validation" => r \in V)
    BY <1>2
  <2>2. PICK t \in T \cup V, g \in {"training", "validation"} :
           y = Made(g, t, m[t]) /\ (g = "training" => t \in T) /\ (g = "validation" => t \in V)
    BY <1>2
  <2>3. r.q = t.q /\ x.p = m[r].p /\ y.p = m[t].p /\ m[r].p = m[t].p
    <3>1. r.q = t.q /\ x.p = m[r].p /\ y.p = m[t].p
      BY <1>1, <1>3, <2>1, <2>2
    <3> QED
      BY <3>1 DEF MadeFrom
  <2>4. Uid(x) = Uid(y)
    BY <1>3, <2>3 DEF Uid
  <2>5. ASSUME Apart(T \cup V), T \cap V = {} PROVE x = y
    <3>1. r = t
      BY <2>3, <2>5 DEF Apart
    <3>2. f = g
      BY <2>1, <2>2, <2>5, <3>1
    <3> QED
      BY <2>1, <2>2, <3>1, <3>2
  <2> QED
    BY <2>4, <2>5
<1> QED
  BY <1>3 DEF OneUid, OneRow

LEMMA RunSplitKeeps ==
  ASSUME CurationInv, RunSplit
  PROVE  CurationInv'
<1> DEFINE d == disk["training"]
           e == disk["validation"]
           T == RowsIn(d)
           V == RowsIn(e)
           m == [r \in AllRows |-> Meta(r)]
           R == AllMade("training", T, m) \cup AllMade("validation", V, m)
           src == {d.run, e.run}
           dd == d.deduped /\ e.deduped
<1>1. "training" \in Names /\ "validation" \in Names /\ RowsOf("training") = AllRows /\ RowsOf("validation") = AllRows
  BY DEF Names, RowsOf
<1>2. d.rows \in Seq(AllRows) /\ e.rows \in Seq(AllRows) /\ d.run \in 0..MaxRuns /\ e.run \in 0..MaxRuns
        /\ d.deduped \in BOOLEAN /\ e.deduped \in BOOLEAN
  BY <1>1 DEF CurationInv, TypeOK, Files, Holding
<1>3. T \subseteq AllRows /\ V \subseteq AllRows /\ IsFiniteSet(T) /\ IsFiniteSet(V)
  BY <1>2, FinitelyMany DEF RowsIn
<1>4. admitted \in Seq(AllRows) /\ runs \in 0..MaxRuns /\ runs \in Nat
  BY RowAssumption DEF CurationInv, TypeOK
<1>5. \A r \in AllRows : /\ m[r].id = r.id /\ m[r].q = r.q
                         /\ m[r].p \in {x.p : x \in AllRows} \cup {NoPassage} /\ m[r].s \in Stages
                         /\ \A t \in AllRows : r.q = t.q => m[r].p = m[t].p
  BY <1>4, MetaKnown
<1>6. R = UNION {Rows(f, {Meta(r) : r \in Range(disk[f].rows)}) : f \in {"training", "validation"}}
  <2>1. Range(d.rows) = T /\ Range(e.rows) = V
    BY DEF Range, RowsIn
  <2>2. ASSUME NEW S, S \subseteq AllRows, NEW f
        PROVE  Rows(f, {Meta(r) : r \in S}) = AllMade(f, S, m)
    <3>1. {Meta(r) : r \in S} = {m[r] : r \in S}
      BY <2>2
    <3>2. \A r \in S : m[r].id = r.id /\ m[r].q = r.q
      BY <1>5, <2>2
    <3> HIDE DEF m
    <3> QED
      BY <3>1, <3>2, RowsMade
  <2>3. Rows("training", {Meta(r) : r \in Range(d.rows)}) = AllMade("training", T, m)
    <3> HIDE DEF T, m
    <3> QED
      BY <1>3, <2>1, <2>2
  <2>4. Rows("validation", {Meta(r) : r \in Range(e.rows)}) = AllMade("validation", V, m)
    <3> HIDE DEF V, m
    <3> QED
      BY <1>3, <2>1, <2>2
  <2>5. UNION {Rows(f, {Meta(r) : r \in Range(disk[f].rows)}) : f \in {"training", "validation"}}
          = Rows("training", {Meta(r) : r \in Range(d.rows)}) \cup Rows("validation", {Meta(r) : r \in Range(e.rows)})
    OBVIOUS
  <2> HIDE DEF d, e, T, V, m
  <2> QED
    BY <2>3, <2>4, <2>5
<1>7. job = Idle /\ runs < MaxRuns /\ UNCHANGED <<admitted, curator, disk, golden>>
  BY DEF RunSplit, Start
<1>8. PICK h \in Holdouts(R) : Start(Splits(R, src, dd, h), R, h.test)
  BY <1>6 DEF RunSplit
<1> DEFINE a == Write("adapter_train", src, dd, R \ (h.test \cup h.val))
           b == Write("adapter_val", src, dd, h.val)
           c == Write("test_set", src, dd, h.test)
           w == <<a, b, c>>
<1>9. Splits(R, src, dd, h) = w
  BY DEF Splits
<1>10. MadeFrom(R, T, V, m)
  BY <1>3, <1>5 DEF MadeFrom
<1>11. src \subseteq 0..runs
  <2>1. d.run \in 0..runs /\ e.run \in 0..runs
    BY <1>1 DEF CurationInv, Sound, Known
  <2> QED
    BY <2>1
<1>12. /\ R \subseteq SplitRows /\ IsFiniteSet(R) /\ Asks(R) = Asked(d) \cup Asked(e)
       /\ OneUid(R) /\ (Apart(T \cup V) /\ T \cap V = {} => OneRow(R))
  <2>1. Asks(T) = Asked(d) /\ Asks(V) = Asked(e)
    BY DEF Asks, Asked
  <2> HIDE DEF R, T, V, m
  <2>2. R \subseteq SplitRows
    BY <1>10, RowSetFacts
  <2>3. IsFiniteSet(R)
    BY <1>10, RowSetFacts
  <2>4. Asks(R) = Asks(T) \cup Asks(V)
    BY <1>10, RowSetFacts
  <2>5. OneUid(R)
    BY <1>10, QuestionTells
  <2>6. Apart(T \cup V) /\ T \cap V = {} => OneRow(R)
    BY <1>10, QuestionTells
  <2> QED
    BY <2>1, <2>2, <2>3, <2>4, <2>5, <2>6
<1>13. Cardinality(src) = 1 /\ dd => Apart(T \cup V) /\ T \cap V = {}
  <2>1. ASSUME Cardinality(src) = 1 PROVE d.run = e.run
    <3>1. IsFiniteSet(src)
      <4>1. IsFiniteSet({d.run}) /\ IsFiniteSet({e.run})
        BY FS_Singleton
      <4>2. src = {d.run} \cup {e.run}
        OBVIOUS
      <4> QED
        BY <4>1, <4>2, FS_Union
    <3>2. \E z : src = {z}
      BY <2>1, <3>1, FS_Singleton
    <3> QED
      BY <3>2
  <2>2. FairPair(d, e)
    BY <1>1 DEF CurationInv, Sound, Known
  <2> QED
    BY <2>1, <2>2 DEF FairPair
<1>14. \A z \in h.test : Cardinality(OfPassage(R, z.p)) > 1
  BY <1>12, HoldoutsSound DEF HoldoutSound
<1>15. h.test \subseteq R
  BY <1>12, HoldoutsSound DEF HoldoutSound
<1>16. dd \in BOOLEAN
  BY <1>2
<1> HIDE DEF R, T, V, m, src, dd, a, b, c
<1>17. SplitBrought(R, src, dd, h, a, b, c)
  <2>1. src \subseteq 0..runs + 1
    BY <1>4, <1>11
  <2>2. OneUid(R) /\ (Cardinality(src) = 1 /\ dd => OneRow(R))
    BY <1>12, <1>13
  <2>3. Splits(R, src, dd, h) = <<a, b, c>> /\ h \in Holdouts(R)
    BY <1>9
  <2> QED
    BY <1>4, <1>7, <1>12, <1>16, <2>1, <2>2, <2>3, SplitsBring
<1>18. /\ a \in Writes /\ a.file = "adapter_train" /\ a.as \in Files("adapter_train") /\ a.as.run = runs + 1
       /\ b \in Writes /\ b.file = "adapter_val" /\ b.as \in Files("adapter_val") /\ b.as.run = runs + 1
       /\ c \in Writes /\ c.file = "test_set" /\ c.as \in Files("test_set") /\ c.as.run = runs + 1
       /\ a.as.src = src /\ b.as.src = src /\ c.as.src = src
  BY <1>17 DEF Writing, SplitBrought
<1>19. w \in Seq(Writes) /\ \A i \in DOMAIN w : w[i].as \in Files(w[i].file)
  BY <1>18
<1>20. NewRun(New(w), OnDisk(disk'), runs + 1)
  <2>1. \A f \in Names : New(w)[f] = IF f = "adapter_train" THEN {a.as} ELSE IF f = "adapter_val" THEN {b.as}
                                     ELSE IF f = "test_set" THEN {c.as} ELSE {}
    BY <1>18 DEF New
  <2>2. /\ New(w)["training"] = {} /\ New(w)["validation"] = {}
        /\ New(w)["adapter_train"] = {a.as} /\ New(w)["adapter_val"] = {b.as} /\ New(w)["test_set"] = {c.as}
    BY <2>1 DEF Names
  <2>3. OnDisk(disk')["training"] = {d} /\ OnDisk(disk')["validation"] = {e}
    BY <1>1, <1>7 DEF OnDisk
  <2>4. src \subseteq 0..runs + 1
    BY <1>4, <1>11
  <2>5. \A f \in Names : \A x \in New(w)[f] : x.run = runs + 1 /\ x.src \subseteq 0..runs + 1
    <3>1. \A f \in Names : \A x \in New(w)[f] : x \in {a.as, b.as, c.as}
      BY <2>1
    <3>2. \A x \in {a.as, b.as, c.as} : x.run = runs + 1 /\ x.src = src
      BY <1>18
    <3> QED
      BY <2>4, <3>1, <3>2
  <2>6. Covers(a.as, b.as, c.as, d, e)
    BY <1>12, <1>17 DEF Covers, SplitBrought
  <2> HIDE DEF w, d, e
  <2> QED
    BY <1>17, <2>2, <2>3, <2>5, <2>6 DEF NewRun, SplitBrought
<1>21. admitted' \in Seq(AllRows) /\ curator' \in [input : SUBSET AllRows, open : BOOLEAN, retained : SUBSET AllRows]
         /\ DOMAIN disk' = Names /\ \A f \in Names : disk'[f] \in Files(f)
  BY <1>7 DEF CurationInv, TypeOK
<1>22. Sound(OnDisk(disk'), runs) /\ Prefix(disk'["with_context"], disk'["test_set"])
  <2>1. disk' = disk
    BY <1>7
  <2> QED
    BY <1>7, <2>1, Settled
<1>23. golden' = golden /\ R \in SUBSET SplitRows /\ h.test \in SUBSET SplitRows /\ Start(w, R, h.test)
  BY <1>7, <1>8, <1>9, <1>12, <1>15
<1> HIDE DEF w
<1> QED
  BY <1>14, <1>19, <1>20, <1>21, <1>22, <1>23, StartKeeps

LEMMA FiveInARow ==
  ASSUME NEW t, NEW v, NEW a, NEW b, NEW c
  PROVE  <<t, v>> \o <<a, b, c>> = <<t, v, a, b, c>>
<1> DEFINE S == {t, v, a, b, c}
           x == <<t, v>>
           y == <<a, b, c>>
           w == <<t, v, a, b, c>>
<1>1. x \in Seq(S) /\ y \in Seq(S) /\ w \in Seq(S) /\ Len(x) = 2 /\ Len(y) = 3 /\ Len(w) = 5
  OBVIOUS
<1>2. /\ x[1] = t /\ x[2] = v /\ y[1] = a /\ y[2] = b /\ y[3] = c
      /\ w[1] = t /\ w[2] = v /\ w[3] = a /\ w[4] = b /\ w[5] = c
  OBVIOUS
<1> HIDE DEF S, x, y, w
<1>3. /\ x \o y \in Seq(S) /\ Len(x \o y) = 5
      /\ \A i \in 1..5 : (x \o y)[i] = IF i <= 2 THEN x[i] ELSE y[i - 2]
  <2>1. /\ x \o y \in Seq(S) /\ Len(x \o y) = Len(x) + Len(y)
        /\ \A i \in 1..Len(x) + Len(y) : (x \o y)[i] = IF i <= Len(x) THEN x[i] ELSE y[i - Len(x)]
    BY <1>1, ConcatProperties
  <2> QED
    BY <1>1, <2>1
<1>4. \A i \in 1..5 : (x \o y)[i] = w[i]
  <2>1. \A i \in 1..5 : i = 1 \/ i = 2 \/ i = 3 \/ i = 4 \/ i = 5
    OBVIOUS
  <2>2. (x \o y)[1] = t /\ (x \o y)[2] = v
    BY <1>2, <1>3
  <2>3. (x \o y)[3] = a /\ (x \o y)[4] = b /\ (x \o y)[5] = c
    BY <1>2, <1>3
  <2> QED
    BY <1>2, <2>1, <2>2, <2>3
<1>5. x \o y = w
  BY <1>1, <1>3, <1>4, SeqEqual
<1> QED
  BY <1>5 DEF x, y, w

LEMMA RunHtmlOnlyKeeps ==
  ASSUME CurationInv, RunHtmlOnly
  PROVE  CurationInv'
<1> DEFINE H == HtmlRows(admitted)
           C == Curated(H)
           rows(T) == Rows("training", T) \cup Rows("validation", C \ T)
           m == [r \in AllRows |-> r]
           src == {runs + 1}
<1>1. H \in Seq(AllRows) /\ runs \in 0..MaxRuns /\ runs \in Nat
  BY HtmlTyped, RowAssumption DEF CurationInv, TypeOK
<1>2. C \subseteq AllRows /\ IsFiniteSet(C) /\ Apart(C)
  <2> HIDE DEF H
  <2> QED
    BY <1>1, CuratedApart
<1>3. PICK T \in Stratified(C, TrainSize) : \E h \in Holdouts(rows(T)) :
         Start(Dataset(T, C \ T, TRUE) \o Splits(rows(T), src, TRUE, h), rows(T), h.test)
  BY DEF RunHtmlOnly
<1> DEFINE R == rows(T)
<1>4. PICK h \in Holdouts(R) : Start(Dataset(T, C \ T, TRUE) \o Splits(R, src, TRUE, h), R, h.test)
  BY <1>3
<1>5. /\ admitted' = H /\ disk' = [f \in Names |-> Missing] /\ curator' = NoHandoff
      /\ golden' = golden
  BY DEF RunHtmlOnly
<1>6. job = Idle /\ runs < MaxRuns
  BY <1>4 DEF Start
<1>7. T \subseteq C
  BY DEF Stratified
<1> DEFINE V == C \ T
           t == Write("training", src, TRUE, T)
           v == Write("validation", src, TRUE, V)
           a == Write("adapter_train", src, TRUE, R \ (h.test \cup h.val))
           b == Write("adapter_val", src, TRUE, h.val)
           c == Write("test_set", src, TRUE, h.test)
           w == <<t, v, a, b, c>>
<1>8. Dataset(T, C \ T, TRUE) \o Splits(R, src, TRUE, h) = w
  <2>1. Dataset(T, C \ T, TRUE) = <<t, v>>
    BY DEF Dataset
  <2>2. Splits(R, src, TRUE, h) = <<a, b, c>>
    BY DEF Splits
  <2> HIDE DEF R, src, t, v, a, b, c
  <2>3. <<t, v>> \o <<a, b, c>> = w
    BY FiveInARow
  <2> QED
    BY <2>1, <2>2, <2>3
<1> HIDE DEF H, C
<1>9. /\ Writing(t, "training", src, TRUE, T) /\ Writing(v, "validation", src, TRUE, V) /\ FairPair(t.as, v.as)
      /\ RowsIn(t.as) = T /\ RowsIn(v.as) = V
  <2>1. DatasetBrought(C, T, TRUE, t, v)
    BY <1>1, <1>2, <1>6, <1>7, DatasetBrings
  <2> QED
    BY <2>1 DEF DatasetBrought
<1>10. T \subseteq AllRows /\ V \subseteq AllRows /\ IsFiniteSet(T) /\ IsFiniteSet(V)
         /\ Apart(T \cup V) /\ T \cap V = {}
  <2>1. IsFiniteSet(T) /\ IsFiniteSet(V)
    BY <1>2, <1>7, FS_Subset
  <2>2. T \cup V = C
    BY <1>7
  <2> QED
    BY <1>2, <1>7, <2>1, <2>2
<1>11. MadeFrom(R, T, V, m)
  <2>1. ASSUME NEW S, S \subseteq AllRows, NEW f PROVE Rows(f, S) = AllMade(f, S, m)
    <3>1. S = {m[r] : r \in S}
      BY <2>1
    <3>2. \A r \in S : m[r].id = r.id /\ m[r].q = r.q
      BY <2>1
    <3> HIDE DEF m
    <3> QED
      BY <3>1, <3>2, RowsMade
  <2>2. R = AllMade("training", T, m) \cup AllMade("validation", V, m)
    <3> HIDE DEF m
    <3> QED
      BY <1>10, <2>1
  <2>3. \A r \in AllRows : m[r] = r /\ r.s \in Stages
    BY RowAssumption
  <2>4. \A r \in T \cup V : m[r].p \in {x.p : x \in AllRows} \cup {NoPassage} /\ m[r].s \in Stages
    BY <1>10, <2>3
  <2>5. \A r, x \in T \cup V : r.q = x.q => m[r].p = m[x].p
    BY <1>10, <2>3 DEF Apart
  <2> HIDE DEF R, V, m
  <2> QED
    BY <1>10, <2>2, <2>4, <2>5 DEF MadeFrom
<1> HIDE DEF R, V, m
<1>12. R \subseteq SplitRows
  BY <1>11, RowSetFacts
<1>13. IsFiniteSet(R)
  BY <1>11, RowSetFacts
<1>14. Asks(R) = Asks(T) \cup Asks(V)
  BY <1>11, RowSetFacts
<1>15. OneUid(R)
  BY <1>11, QuestionTells
<1>16. OneRow(R)
  BY <1>10, <1>11, QuestionTells
<1>17. HoldoutSound(R, h)
  BY <1>13, HoldoutsSound
<1>18. (\A z \in h.test : Cardinality(OfPassage(R, z.p)) > 1) /\ h.test \subseteq R
  BY <1>17 DEF HoldoutSound
<1>19. src \subseteq 0..runs + 1
  BY <1>1
<1>20. SplitBrought(R, src, TRUE, h, a, b, c)
  <2>1. Splits(R, src, TRUE, h) = <<a, b, c>>
    BY DEF Splits
  <2> HIDE DEF src, a, b, c
  <2> QED
    BY <1>1, <1>6, <1>12, <1>13, <1>15, <1>16, <1>19, <2>1, SplitsBring
<1> HIDE DEF src, t, v, a, b, c
<1>21. /\ t \in Writes /\ t.file = "training" /\ t.as \in Files("training")
       /\ v \in Writes /\ v.file = "validation" /\ v.as \in Files("validation")
       /\ a \in Writes /\ a.file = "adapter_train" /\ a.as \in Files("adapter_train")
       /\ b \in Writes /\ b.file = "adapter_val" /\ b.as \in Files("adapter_val")
       /\ c \in Writes /\ c.file = "test_set" /\ c.as \in Files("test_set")
  BY <1>9, <1>20 DEF Writing, SplitBrought
<1>22. \A x \in {t.as, v.as, a.as, b.as, c.as} : x.run = runs + 1 /\ x.src = src
  BY <1>9, <1>20 DEF Writing, SplitBrought
<1>23. w \in Seq(Writes) /\ \A i \in DOMAIN w : w[i].as \in Files(w[i].file)
  BY <1>21
<1>24. \A f \in Names : OnDisk(disk')[f] = {Missing} /\ disk'[f] = Missing
  BY <1>5 DEF OnDisk
<1>25. Missing.run = 0 /\ Missing.src = {} /\ Missing.rows = <<>>
  BY DEF Missing
<1>26. NewRun(New(w), OnDisk(disk'), runs + 1)
  <2>1. \A f \in Names : New(w)[f] = IF f = "training" THEN {t.as} ELSE IF f = "validation" THEN {v.as}
                                     ELSE IF f = "adapter_train" THEN {a.as} ELSE IF f = "adapter_val" THEN {b.as}
                                     ELSE IF f = "test_set" THEN {c.as} ELSE {}
    BY <1>21 DEF New
  <2>2. /\ New(w)["training"] = {t.as} /\ New(w)["validation"] = {v.as}
        /\ New(w)["adapter_train"] = {a.as} /\ New(w)["adapter_val"] = {b.as} /\ New(w)["test_set"] = {c.as}
    BY <2>1 DEF Names
  <2>3. OnDisk(disk')["training"] = {Missing} /\ OnDisk(disk')["validation"] = {Missing}
    BY <1>24 DEF Names
  <2>4. \A f \in Names : \A x \in New(w)[f] : x.run = runs + 1 /\ x.src \subseteq 0..runs + 1
    <3>1. \A f \in Names : \A x \in New(w)[f] : x \in {t.as, v.as, a.as, b.as, c.as}
      BY <2>1
    <3> QED
      BY <1>19, <1>22, <3>1
  <2>5. \A x \in {Missing, t.as}, y \in {Missing, v.as} : Covers(a.as, b.as, c.as, x, y)
    <3>1. c.as.src = {runs + 1} /\ Missing.run # runs + 1
      BY <1>1, <1>22, <1>25 DEF src
    <3>2. Asked(a.as) \cup Asked(b.as) \cup Asked(c.as) = Asked(t.as) \cup Asked(v.as)
      BY <1>9, <1>14, <1>20 DEF Asks, Asked, SplitBrought
    <3>3. ASSUME NEW x \in {Missing, t.as}, NEW y \in {Missing, v.as},
                 {x.run} = c.as.src, {y.run} = c.as.src
          PROVE  x = t.as /\ y = v.as
      BY <3>1, <3>3
    <3> QED
      BY <3>2, <3>3 DEF Covers
  <2>6. HeldOut(a.as, b.as, c.as)
    BY <1>20 DEF SplitBrought
  <2> HIDE DEF w
  <2> QED
    BY <1>9, <2>2, <2>3, <2>4, <2>5, <2>6 DEF NewRun
<1>27. admitted' \in Seq(AllRows) /\ curator' \in [input : SUBSET AllRows, open : BOOLEAN, retained : SUBSET AllRows]
  BY <1>1, <1>5 DEF NoHandoff
<1>28. DOMAIN disk' = Names /\ \A f \in Names : disk'[f] \in Files(f)
  <2>1. \A f \in Names : Missing \in Files(f)
    BY RowAssumption DEF Missing, Files, Holding
  <2> QED
    BY <1>5, <2>1
<1>29. Sound(OnDisk(disk'), runs)
  BY <1>1, <1>24, NothingIsSound
<1>30. Prefix(disk'["with_context"], disk'["test_set"])
  <2>1. disk'["with_context"] = Missing
    BY <1>24 DEF Names
  <2> QED
    BY <1>25, <2>1 DEF Prefix
<1>31. R \in SUBSET SplitRows /\ h.test \in SUBSET SplitRows /\ Start(w, R, h.test)
  BY <1>4, <1>8, <1>12, <1>18
<1> HIDE DEF w
<1> QED
  BY <1>5, <1>18, <1>23, <1>26, <1>27, <1>28, <1>29, <1>30, <1>31, StartKeeps

LEMMA KillHtmlOnlyKeeps ==
  ASSUME CurationInv, KillHtmlOnly
  PROVE  CurationInv'
<1>1. /\ job' = job /\ job.todo = <<>> /\ golden' = golden /\ curator' = NoHandoff
      /\ disk' = [f \in Names |-> Missing] /\ runs' = runs + 1 /\ runs < MaxRuns
  BY DEF KillHtmlOnly, Idle
<1>2. runs \in Nat /\ runs' \in 0..MaxRuns
  BY <1>1, RowAssumption DEF CurationInv, TypeOK
<1>3. admitted' \in Seq(AllRows)
  <2> DEFINE H == HtmlRows(admitted)
  <2>1. H \in Seq(AllRows)
    BY HtmlTyped DEF CurationInv, TypeOK
  <2>2. PICK n \in 0..Len(H) : admitted' = SubSeq(H, 1, n)
    BY DEF KillHtmlOnly
  <2> HIDE DEF H
  <2> QED
    BY <2>1, <2>2, SubSeqProperties
<1>4. curator' \in [input : SUBSET AllRows, open : BOOLEAN, retained : SUBSET AllRows]
  BY <1>1 DEF NoHandoff
<1>5. DOMAIN disk' = Names /\ \A f \in Names : disk'[f] = Missing /\ disk'[f] \in Files(f)
  <2>1. \A f \in Names : Missing \in Files(f)
    BY RowAssumption DEF Missing, Files, Holding
  <2> QED
    BY <1>1, <2>1
<1>6. TypeOK'
  BY <1>1, <1>2, <1>3, <1>4, <1>5 DEF CurationInv, TypeOK
<1>7. \A f \in Names : Known'[f] = {Missing}
  BY <1>1, <1>5 DEF Known
<1>8. Sound(Known', runs')
  <2>1. runs' \in Nat
    BY <1>1, <1>2
  <2> QED
    BY <1>7, <2>1, NothingIsSound
<1>9. BakedFrom'
  <2>1. "with_context" \in Names
    BY DEF Names
  <2>2. disk'["with_context"].src = {}
    BY <1>5, <2>1 DEF Missing
  <2> QED
    BY <2>2 DEF BakedFrom, Prefix
<1>10. Ahead'
  BY <1>1 DEF Ahead
<1>11. SingletonsKept' /\ GoldenUnseen'
  BY <1>1 DEF CurationInv, SingletonsKept, GoldenUnseen, OfPassage
<1> QED
  BY <1>6, <1>8, <1>9, <1>10, <1>11 DEF CurationInv

LEMMA GoldenKeeps ==
  ASSUME CurationInv, BuildGolden
  PROVE  CurationInv'
<1> DEFINE c == disk["test_set"]
           x == disk["with_context"]
           kept == KeptPairs(c.rows, x.rows, Prompts)
<1>1. /\ job = Idle /\ Len(c.rows) = Len(x.rows)
      /\ golden' = [test |-> c.run, baked |-> x.src, seen |-> Prompts, plain |-> At(c.rows, kept), context |-> At(x.rows, kept)]
      /\ UNCHANGED <<admitted, curator, disk, job, runs>>
  BY DEF BuildGolden
<1>2. "test_set" \in Names /\ "with_context" \in Names /\ "adapter_train" \in Names /\ "adapter_val" \in Names
        /\ \A f \in {"test_set", "with_context", "adapter_train", "adapter_val"} : RowsOf(f) = SplitRows
  BY DEF Names, RowsOf
<1>3. /\ c \in Files("test_set") /\ x \in Files("with_context")
      /\ \A f \in {"test_set", "with_context", "adapter_train", "adapter_val"} : disk[f].rows \in Seq(SplitRows)
  BY <1>2 DEF CurationInv, TypeOK, Files, Holding
<1>4. c.rows \in Seq(SplitRows) /\ x.rows \in Seq(SplitRows) /\ c.run \in 0..MaxRuns /\ x.src \subseteq 0..MaxRuns
  BY <1>3 DEF Files, Holding
<1>5. /\ At(c.rows, kept) \in Seq(SplitRows) /\ AtShape(c.rows, kept)
      /\ At(x.rows, kept) \in Seq(SplitRows) /\ AtShape(x.rows, kept)
  <2> HIDE DEF kept, c, x
  <2> QED
    BY <1>4, AtPicks
<1>6. Len(At(c.rows, kept)) = Len(At(x.rows, kept))
  BY <1>1, <1>5 DEF AtShape
<1>7. Prompts \subseteq {Words[r.q] : r \in AllRows}
  <2>1. \A r \in SplitRows : \E y \in AllRows : r.q = y.q
    BY DEF SplitRows
  <2>2. Range(disk["adapter_train"].rows) \subseteq SplitRows /\ Range(disk["adapter_val"].rows) \subseteq SplitRows
    BY <1>3 DEF Range
  <2> QED
    BY <2>1, <2>2 DEF Prompts
<1> HIDE DEF kept
<1>8. TypeOK'
  <2> HIDE DEF c, x
  <2>1. golden' \in [test : 0..MaxRuns, baked : SUBSET (0..MaxRuns), seen : SUBSET {Words[r.q] : r \in AllRows},
                     plain : Seq(SplitRows), context : Seq(SplitRows)]
    BY <1>1, <1>4, <1>5, <1>7
  <2>2. Len(golden'.plain) = Len(golden'.context)
    BY <1>1, <1>6
  <2> QED
    BY <1>1, <2>1, <2>2 DEF CurationInv, TypeOK
<1>9. Known' = Known
  BY <1>1 DEF Known
<1>10. Sound(Known', runs')
  BY <1>1, <1>9 DEF CurationInv
<1>11. Ahead'
  BY <1>1 DEF Idle, Ahead
<1>12. BakedFrom'
  BY <1>1, <1>9 DEF CurationInv, BakedFrom, Prefix
<1>13. SingletonsKept'
  BY <1>1 DEF CurationInv, SingletonsKept, OfPassage
<1>14. GoldenUnseen'
  <2> SUFFICES ASSUME golden'.baked = {golden'.test}, NEW i \in DOMAIN golden'.plain
               PROVE  Words[golden'.plain[i].q] \notin golden'.seen /\ Words[golden'.context[i].q] \notin golden'.seen
    BY DEF GoldenUnseen
  <2>1. x.src = {c.run} /\ golden'.plain = At(c.rows, kept) /\ golden'.context = At(x.rows, kept)
          /\ golden'.seen = Prompts
    BY <1>1
  <2>2. Prefix(x, c)
    BY <1>1, <1>2, Settled DEF CurationInv
  <2>3. \A j \in 1..Len(c.rows) : x.rows[j] = c.rows[j]
    BY <1>1, <2>1, <2>2 DEF Prefix
  <2>4. \A j \in kept : j \in DOMAIN c.rows /\ Words[c.rows[j].q] \notin Prompts
    BY DEF kept, KeptPairs
  <2> HIDE DEF c, x
  <2>5. i \in 1..Len(At(c.rows, kept)) /\ i \in 1..Len(At(x.rows, kept))
    BY <1>5, <1>6, <2>1
  <2>6. PICK j \in kept : j \in 1..Len(c.rows) /\ At(c.rows, kept)[i] = c.rows[j]
    BY <1>5, <2>5 DEF AtShape
  <2>7. PICK k \in kept : k \in 1..Len(x.rows) /\ At(x.rows, kept)[i] = x.rows[k]
    BY <1>5, <2>5 DEF AtShape
  <2>8. Words[golden'.plain[i].q] \notin golden'.seen
    BY <2>1, <2>4, <2>6
  <2>9. x.rows[k] = c.rows[k]
    BY <1>1, <2>3, <2>7
  <2>10. Words[golden'.context[i].q] \notin golden'.seen
    BY <2>1, <2>4, <2>7, <2>9
  <2> QED
    BY <2>8, <2>10
<1> QED
  BY <1>8, <1>10, <1>11, <1>12, <1>13, <1>14 DEF CurationInv

---------------------------------------------------------------------------
(* The results.                                                            *)

LEMMA CurationStep == CurationInv /\ [Next]_vars => CurationInv'
<1> SUFFICES ASSUME CurationInv, [Next]_vars PROVE CurationInv'
  OBVIOUS
<1>1. CASE Readmit
  BY <1>1, ReadmitKeeps
<1>2. CASE RunStage3
  BY <1>2, RunStage3Keeps
<1>3. CASE PrepareHandoff
  BY <1>3, PrepareKeeps
<1>4. CASE CuratorEnds
  BY <1>4, CuratorKeeps
<1>5. CASE CollectHandoff
  BY <1>5, CollectHandoffKeeps
<1>6. CASE RunSplit
  BY <1>6, RunSplitKeeps
<1>7. CASE RunHtmlOnly
  BY <1>7, RunHtmlOnlyKeeps
<1>8. CASE KillHtmlOnly
  BY <1>8, KillHtmlOnlyKeeps
<1>9. CASE WriteNext
  BY <1>9, WriteKeeps
<1>10. CASE Bake
  BY <1>10, BakeKeeps
<1>11. CASE BuildGolden
  BY <1>11, GoldenKeeps
<1>12. CASE Kill
  BY <1>12, KillKeeps
<1>13. CASE UNCHANGED vars
  <2>1. UNCHANGED <<admitted, curator, disk, golden, job, runs>>
    BY <1>13 DEF vars
  <2>2. TypeOK'
    BY <2>1 DEF CurationInv, TypeOK
  <2>4. runs' \in 0..MaxRuns /\ runs <= runs'
    BY <2>1, RowAssumption DEF CurationInv, TypeOK
  <2> QED
    BY <2>1, <2>2, <2>4, FilesUnread
<1> QED
  BY <1>1, <1>2, <1>3, <1>4, <1>5, <1>6, <1>7, <1>9, <1>10, <1>11, <1>12, <1>13, <1>8 DEF Next

\* The invariant holds in every state of every run of the programs, for
\* every content of the admission file, whatever the hash orders pick.
THEOREM CurationInductive == Spec => []CurationInv
<1>1. Init => CurationInv
  BY CurationInitHolds
<1>2. CurationInv /\ [Next]_vars => CurationInv'
  BY CurationStep
<1> QED
  BY <1>1, <1>2, PTL DEF Spec

\* Every file holds rows of its kind with a run that is known.
THEOREM CurationTypeCorrect == Spec => []TypeOK
<1>1. CurationInv => TypeOK
  BY DEF CurationInv
<1> QED
  BY <1>1, CurationInductive, PTL

\* Training and validation rows of one run, killed in a file or not, are
\* different rows; where stage 3 deduplicated them they neither share a
\* question nor are near-duplicates.
THEOREM SplitsStayApart == Spec => []SplitsDisjoint
<1>1. CurationInv => SplitsDisjoint
  <2> SUFFICES ASSUME CurationInv, SameRun({"training", "validation"}),
                      NEW t \in Range(disk["training"].rows), NEW v \in Range(disk["validation"].rows)
               PROVE  t # v /\ (disk["training"].deduped => Key[t.q] # Key[v.q] /\ ~Similar(t, v))
    BY DEF SplitsDisjoint
  <2> DEFINE d == disk["training"]
             e == disk["validation"]
  <2>1. d \in Known["training"] /\ e \in Known["validation"]
    BY DEF Known, Names
  <2>2. FairPair(d, e) /\ d.run = e.run
    BY <2>1 DEF CurationInv, Sound, SameRun
  <2>3. t \in RowsIn(d) /\ v \in RowsIn(e)
    BY DEF Range, RowsIn
  <2>4. d.deduped = disk["training"].deduped
    OBVIOUS
  <2> HIDE DEF d, e
  <2> QED
    BY <2>2, <2>3, <2>4 DEF FairPair, Apart
<1> QED
  BY <1>1, CurationInductive, PTL

\* No question of a test set is in the adapter's files of its run; of one run
\* of stage 3 these two share none, and the three files hold every question of
\* the files they are made from, unless a kill cut one short.
THEOREM HoldoutStaysApart == Spec => []HoldoutPartitions
<1>1. CurationInv => HoldoutPartitions
  <2> SUFFICES ASSUME CurationInv, SameRun({"adapter_train", "adapter_val", "test_set"})
               PROVE  /\ Questions("test_set") \cap (Questions("adapter_train") \cup Questions("adapter_val")) = {}
                      /\ Cardinality(disk["test_set"].src) = 1 /\ disk["test_set"].deduped =>
                            Questions("adapter_train") \cap Questions("adapter_val") = {}
                      /\ (\A f \in {"training", "validation"} : {disk[f].run} = disk["test_set"].src)
                         /\ (\A f \in Names \ {"with_context"} : disk[f].whole) =>
                            UNION {Questions(f) : f \in {"adapter_train", "adapter_val", "test_set"}} =
                                Questions("training") \cup Questions("validation")
    BY DEF HoldoutPartitions
  <2> DEFINE t == disk["training"]
             v == disk["validation"]
             a == disk["adapter_train"]
             b == disk["adapter_val"]
             c == disk["test_set"]
  <2>1. /\ t \in Known["training"] /\ v \in Known["validation"]
        /\ a \in Known["adapter_train"] /\ b \in Known["adapter_val"] /\ c \in Known["test_set"]
    BY DEF Known, Names
  <2>2. HeldOut(a, b, c) /\ Covers(a, b, c, t, v)
    <3> HIDE DEF t, v, a, b, c
    <3> QED
      BY <2>1 DEF CurationInv, Sound
  <2>3. a.run = c.run /\ b.run = c.run
    BY DEF SameRun
  <2>4. /\ Questions("training") = Asked(t) /\ Questions("validation") = Asked(v)
        /\ Questions("adapter_train") = Asked(a) /\ Questions("adapter_val") = Asked(b)
        /\ Questions("test_set") = Asked(c)
    BY DEF Questions, Asked, RowsIn, Range
  <2>5. UNION {Questions(f) : f \in {"adapter_train", "adapter_val", "test_set"}} =
          Questions("adapter_train") \cup Questions("adapter_val") \cup Questions("test_set")
    OBVIOUS
  <2>6. Asked(c) \cap (Asked(a) \cup Asked(b)) = {} /\ (Cardinality(c.src) = 1 /\ c.deduped => Asked(a) \cap Asked(b) = {})
    BY <2>2, <2>3 DEF HeldOut
  <2>7. /\ {t.run} = c.src /\ {v.run} = c.src
        /\ a.whole /\ b.whole /\ c.whole /\ t.whole /\ v.whole
        => Asked(a) \cup Asked(b) \cup Asked(c) = Asked(t) \cup Asked(v)
    BY <2>2, <2>3 DEF Covers
  <2> QED
    BY <2>4, <2>5, <2>6, <2>7 DEF Names
<1> QED
  BY <1>1, CurationInductive, PTL

\* Whatever the order of the candidates and whichever row is swapped in, no
\* passage with a single row gives it to the test set.
THEOREM SingletonsStay == Spec => []SingletonsKept
<1>1. CurationInv => SingletonsKept
  BY DEF CurationInv
<1> QED
  BY <1>1, CurationInductive, PTL

\* No row of a golden test set, plain or with context, asks what the adapter
\* was trained on, when the context was baked from that test set.
THEOREM GoldenStaysUnseen == Spec => []GoldenUnseen
<1>1. CurationInv => GoldenUnseen
  BY DEF CurationInv
<1> QED
  BY <1>1, CurationInductive, PTL

=============================================================================
