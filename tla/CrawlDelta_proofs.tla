------------------------- MODULE CrawlDelta_proofs -------------------------
(* Proofs about the delta upsert, for every set of URLs, every capacity    *)
(* and every number of failures.                                           *)
EXTENDS CrawlDelta, FiniteSetTheorems, SequenceTheorems, TLAPS

\* The chunks made of a URL are well-formed.
LEMMA ChunksTyped ==
  ASSUME NEW u \in Urls, NEW c \in Contents, NEW isStale \in BOOLEAN
  PROVE  Chunks(u, c, isStale) \subseteq Item
BY DEF Chunks, Item

\* A failure is counted, and the bound on failures holds.
LEMMA FaultTyped ==
  ASSUME faults \in 0..MaxFaults, NEW kind, Fault(kind)
  PROVE  faults' \in 0..MaxFaults
BY SizeAssumption DEF Fault

\* delete_by_source_uris leaves an index, whatever it answers.
LEMMA PurgeTyped ==
  ASSUME TypeOK, NEW u \in Urls, Purged(u)
  PROVE  /\ index' \in [Urls -> Seq(Contents)] /\ faults' \in 0..MaxFaults
         /\ textLost' \in [Pages -> Nat]
<1>1. <<>> \in Seq(Contents)
  OBVIOUS
<1>2. CASE Fault("delete") /\ UNCHANGED <<index, textLost>>
  BY <1>2, FaultTyped DEF TypeOK
<1>3. CASE /\ index' = [index EXCEPT ![u] = IF HomeOf[u] = TargetOf[u] THEN <<>> ELSE @]
           /\ textLost' = [v \in Pages |-> IF v = u THEN 0 ELSE textLost[v]]
           /\ UNCHANGED faults
  <2>1. CASE HomeOf[u] = TargetOf[u]
    BY <1>1, <1>3, <2>1 DEF TypeOK
  <2>2. CASE HomeOf[u] # TargetOf[u]
    BY <1>3, <2>2 DEF TypeOK
  <2> QED
    BY <2>1, <2>2
<1> QED
  BY <1>2, <1>3 DEF Purged

\* A first start, with no registry file and an empty index, is well-typed.
LEMMA InitTyped == Init => TypeOK
<1>1. ASSUME Init PROVE TypeOK
  <2> USE <1>1 DEF Init
  <2>1. index \in [Urls -> Seq(Contents)]
    OBVIOUS
  <2>2. textLost \in [Pages -> Nat]
    OBVIOUS
  <2>3. saved \in [Urls -> Entry] /\ reg \in [Urls -> Entry]
    BY DEF Entry, NoEntry
  <2>4. batch \in [Slots -> Batch] /\ \A b \in Slots : batch[b].cur \subseteq batch[b].items
    BY DEF Batch, NoBatch
  <2>5. pending \subseteq Item /\ faults \in 0..MaxFaults
    BY SizeAssumption
  <2>6. /\ phase \in {"idle", "bfs", "drain", "purge"} /\ force \in BOOLEAN
        /\ todo \subseteq Urls /\ round \subseteq Urls
        /\ deleted \subseteq Urls /\ redirected \subseteq Urls
    OBVIOUS
  <2> QED
    BY <2>1, <2>2, <2>3, <2>4, <2>5, <2>6 DEF TypeOK
<1> QED
  BY <1>1

\* So is whatever a step of the crawler or of a batch makes.
LEMMA StepTyped == TypeOK /\ [Next]_vars => TypeOK'
<1>2. TypeOK /\ [Next]_vars => TypeOK'
  <2> SUFFICES ASSUME TypeOK, [Next]_vars PROVE TypeOK'
    OBVIOUS
  <2> USE ModeAssumption, SizeAssumption
      DEF TypeOK, Fault, crawlVars, Entry, NoEntry, Batch, NoBatch
  <2>1. CASE StartCrawl
    BY <2>1 DEF StartCrawl
  <2>2. CASE TakeRound
    BY <2>2 DEF TakeRound
  <2>3. CASE EndBfs
    BY <2>3 DEF EndBfs
  <2>4. CASE Drained
    BY <2>4 DEF Drained
  <2>5. CASE FinishCrawl
    BY <2>5 DEF FinishCrawl
  <2>6. ASSUME NEW u \in Urls, Process(u) PROVE TypeOK'
    <3>1. CASE PageUnchanged(u)
      BY <3>1 DEF PageUnchanged, Take
    <3>2. CASE PageIngested(u)
      <4>0. PICK c \in Contents :
               /\ pending' = pending \cup Chunks(u, c, IsChanged(u, c))
               /\ reg' = [reg EXCEPT
                            ![u] = [hash |-> c, ingested |-> ~IsChanged(u, c)]]
               /\ textLost' = [textLost EXCEPT
                                 ![u] = IF LosesText(u, c) THEN @ + 1 ELSE @]
        BY <3>2 DEF PageIngested
      <4>1. IsChanged(u, c) \in BOOLEAN
        BY DEF IsChanged
      <4>2. pending' \subseteq Item
        BY <4>0, <4>1, ChunksTyped
      <4>3. reg' \in [Urls -> Entry]
        BY <4>0, <4>1
      <4>4. textLost' \in [Pages -> Nat]
        <5>1. textLost \in [Pages -> Nat] /\ u \in Pages
          BY <3>2 DEF PageIngested
        <5>2. CASE LosesText(u, c)
          BY ONLY <4>0, <5>1, <5>2
        <5>3. CASE ~LosesText(u, c)
          BY ONLY <4>0, <5>1, <5>3
        <5> QED
          BY <5>2, <5>3
      <4> QED
        BY <3>2, <4>2, <4>3, <4>4 DEF PageIngested, Take
    <3>3. CASE PageMoved(u)
      BY <3>3 DEF PageMoved, Take
    <3>4. CASE UrlGone(u)
      BY <3>4 DEF UrlGone, Take
    <3>5. CASE TextUnchanged(u)
      BY <3>5 DEF TextUnchanged, Take
    <3>6. CASE TextIngested(u)
      <4>0. PICK c \in Contents :
               /\ pending' = pending \cup Chunks(u, c, FALSE)
               /\ reg' = [reg EXCEPT ![u] = [hash |-> c, ingested |-> TRUE]]
        BY <3>6 DEF TextIngested
      <4>1. pending' \subseteq Item
        BY <4>0, ChunksTyped
      <4>2. reg' \in [Urls -> Entry]
        BY <4>0
      <4> QED
        BY <3>6, <4>1, <4>2 DEF TextIngested, Take
    <3> QED
      BY <2>6, <3>1, <3>2, <3>3, <3>4, <3>5, <3>6 DEF Process
  <2>7. ASSUME NEW u \in Urls, PurgeRedirected(u) PROVE TypeOK'
    BY <2>7, PurgeTyped DEF PurgeRedirected
  <2>8. ASSUME NEW u \in Urls, PurgeDeleted(u) PROVE TypeOK'
    <3>1. reg' \in [Urls -> Entry]
      BY <2>8 DEF PurgeDeleted
    <3> QED
      BY <2>8, <3>1, PurgeTyped DEF PurgeDeleted
  <2>9. ASSUME NEW b \in Slots, Dispatch(b) PROVE TypeOK'
    BY <2>9 DEF Dispatch
  <2>10. ASSUME NEW b \in Slots, DeleteStale(b) PROVE TypeOK'
    <3> PICK c \in Collections :
          LET group == {i \in batch[b].items : TargetOf[i.url] = c}
              stale == UrlsIn({i \in group : i.stale})
          IN  /\ batch' = [batch EXCEPT ![b].cur = group]
              /\ \/ /\ index' = [u \in Urls |->
                                    IF u \in stale THEN <<>> ELSE index[u]]
                    /\ textLost' = [u \in Pages |->
                                       IF u \in stale THEN 0 ELSE textLost[u]]
                    /\ UNCHANGED faults
                 \/ Fault("delete") /\ UNCHANGED <<index, textLost>>
      BY <2>10 DEF DeleteStale
    <3> DEFINE group == {i \in batch[b].items : TargetOf[i.url] = c}
               stale == UrlsIn({i \in group : i.stale})
    <3>1. /\ index' \in [Urls -> Seq(Contents)] /\ faults' \in 0..MaxFaults
          /\ textLost' \in [Pages -> Nat]
      <4>1. CASE Fault("delete") /\ UNCHANGED <<index, textLost>>
        BY <4>1, FaultTyped
      <4>2. CASE /\ index' = [u \in Urls |-> IF u \in stale THEN <<>> ELSE index[u]]
                 /\ textLost' = [u \in Pages |-> IF u \in stale THEN 0 ELSE textLost[u]]
                 /\ UNCHANGED faults
        <5> HIDE DEF stale
        <5>1. <<>> \in Seq(Contents)
          OBVIOUS
        <5> QED
          BY <4>2, <5>1
      <4> QED
        BY <4>1, <4>2
    <3>2. batch' \in [Slots -> Batch]
          /\ \A d \in Slots : batch'[d].cur \subseteq batch'[d].items
      <4>1. group \subseteq batch[b].items
        OBVIOUS
      <4>2. batch' = [batch EXCEPT ![b].cur = group]
        OBVIOUS
      <4>3. /\ batch \in [Slots -> [items : SUBSET Item, cur : SUBSET Item, orphan : BOOLEAN]]
            /\ \A d \in Slots : batch[d].cur \subseteq batch[d].items
        OBVIOUS
      <4> HIDE DEF group
      <4> QED
        BY ONLY <4>1, <4>2, <4>3 DEF Batch
    <3> QED
      BY <2>10, <3>1, <3>2 DEF DeleteStale
  <2>11. ASSUME NEW b \in Slots, WriteGroup(b) PROVE TypeOK'
    <3>1. /\ batch' \in [Slots -> Batch]
          /\ \A d \in Slots : batch'[d].cur \subseteq batch'[d].items
      <4>1. /\ batch \in [Slots -> [items : SUBSET Item, cur : SUBSET Item, orphan : BOOLEAN]]
            /\ \A d \in Slots : batch[d].cur \subseteq batch[d].items
            /\ batch' = [batch EXCEPT ![b].items = @ \ batch[b].cur, ![b].cur = {}]
        BY <2>11 DEF WriteGroup
      <4> QED
        BY ONLY <4>1 DEF Batch
    <3>2. /\ index' \in [Urls -> Seq(Contents)] /\ faults' \in 0..MaxFaults
      <4>1. PICK lost \in SUBSET batch[b].cur :
              /\ IF lost = {} THEN UNCHANGED faults ELSE Fault("write")
              /\ index' = [u \in Urls |->
                    IF \E i \in batch[b].cur \ lost : i.url = u
                    THEN Append(index[u],
                                (CHOOSE i \in batch[b].cur \ lost : i.url = u).hash)
                    ELSE index[u]]
        BY <2>11 DEF WriteGroup
      <4>2. \A i \in batch[b].cur : i.hash \in Contents
        BY DEF Item
      <4> QED
        BY <4>1, <4>2
    <3> QED
      BY <2>11, <3>1, <3>2 DEF WriteGroup
  <2>12. CASE DrainTimeout
    BY <2>12 DEF DrainTimeout
  <2>13. CASE CrawlError
    <3>1. batch' \in [Slots -> Batch]
          /\ \A d \in Slots : batch'[d].cur \subseteq batch'[d].items
      <4>1. \A d \in Slots : Orphaned(batch[d]) \in Batch
        BY DEF Orphaned
      <4>2. \A d \in Slots : /\ batch'[d].cur = batch[d].cur
                             /\ batch'[d].items = batch[d].items
        BY <2>13 DEF CrawlError, Orphaned
      <4> QED
        BY <2>13, <4>1, <4>2 DEF CrawlError
    <3>2. faults' \in 0..MaxFaults
      BY <2>13, FaultTyped DEF CrawlError
    <3> QED
      BY <2>13, <3>1, <3>2 DEF CrawlError
  <2>14. CASE Crash
    BY <2>14 DEF Crash
  <2>15. ASSUME NEW u \in Urls, FetchFailed(u) PROVE TypeOK'
    BY <2>15 DEF FetchFailed, Take
  <2>16. ASSUME NEW b \in Slots, AbortBatch(b) PROVE TypeOK'
    BY <2>16 DEF AbortBatch
  <2>17. CASE UNCHANGED vars
    BY <2>17 DEF vars
  <2> QED
    BY <2>1, <2>2, <2>3, <2>4, <2>5, <2>6, <2>7, <2>8, <2>9, <2>10, <2>11,
       <2>12, <2>13, <2>14, <2>15, <2>16, <2>17
    DEF Next, Progress, Failure
<1> QED
  BY <1>2

\* Every variable keeps its type, in particular a batch never embeds chunks
\* that are not its own.
THEOREM TypeCorrect == Spec => []TypeOK
BY InitTyped, StepTyped, PTL DEF Spec

-----------------------------------------------------------------------------
\* A URL taken from the round may be added to the pending chunks: it is
\* nowhere else.
LEMMA AtMostInRound ==
  ASSUME OnePlace, NEW u \in round,
         round' = round \ {u}, todo' = todo, batch' = batch,
         deleted' = deleted, redirected' = redirected,
         UrlsIn(pending') \subseteq UrlsIn(pending) \cup {u},
         \A i, j \in pending' : i.url = j.url => i = j
  PROVE  OnePlace'
<1> DEFINE inBatches == UNION {InBatch(b) : b \in Slots}
<1>1. \A b \in Slots : InBatch(b)' = InBatch(b) /\ InBatch(b) \subseteq inBatches
  BY DEF InBatch
<1>2. inBatches' = inBatches
  BY <1>1
<1>3. u \notin todo \cup deleted \cup redirected \cup inBatches
  BY DEF OnePlace
<1>4. (deleted \cup redirected) \cap
         (todo \cup round \cup UrlsIn(pending) \cup inBatches) = {}
  BY DEF OnePlace
<1>5. (deleted' \cup redirected') \cap
         (todo' \cup round' \cup UrlsIn(pending') \cup inBatches') = {}
  <2> HIDE DEF inBatches
  <2> QED
    BY <1>2, <1>3, <1>4
<1>6. \A b \in Slots :
         InBatch(b)' \cap (todo' \cup round' \cup UrlsIn(pending')) = {}
  <2> HIDE DEF inBatches
  <2> QED
    BY <1>1, <1>3 DEF OnePlace
<1>7. UrlsIn(pending') \cap (todo' \cup round') = {} /\ todo' \cap round' = {}
  BY <1>3 DEF OnePlace
<1>8. /\ \A b \in Slots : \A i, j \in batch'[b].items : i.url = j.url => i = j
      /\ \A b \in Slots : \A c \in Slots \ {b} : InBatch(b)' \cap InBatch(c)' = {}
      /\ deleted' \cap redirected' = {}
  BY <1>1 DEF OnePlace
<1> QED
  BY <1>5, <1>6, <1>7, <1>8 DEF OnePlace

\* Where the URLs of a crawl may be.
Places == TypeOK /\ PhaseShape /\ OnePlace

LEMMA PlacesStep == (Init => Places) /\ (Places /\ [Next]_vars => Places')
<1> USE DEF Places
<1>1. Init => Places
  <2> SUFFICES ASSUME Init PROVE PhaseShape /\ OnePlace
    BY InitTyped
  <2> QED
    BY DEF Init, PhaseShape, OnePlace, InBatch, UrlsIn, NoBatch
<1>2. Places /\ [Next]_vars => Places'
  <2> SUFFICES ASSUME Places, [Next]_vars PROVE PhaseShape' /\ OnePlace'
    BY StepTyped
  <2> USE DEF PhaseShape, crawlVars
  <2>1. CASE StartCrawl
    BY <2>1 DEF StartCrawl, OnePlace, InBatch, UrlsIn
  <2>2. CASE TakeRound
    BY <2>2 DEF TakeRound, OnePlace, InBatch
  <2>3. CASE EndBfs
    BY <2>3 DEF EndBfs, OnePlace, InBatch
  <2>4. CASE Drained
    BY <2>4 DEF Drained, OnePlace, InBatch, InFlight, Running, UrlsIn
  <2>5. CASE FinishCrawl
    BY <2>5 DEF FinishCrawl, OnePlace, InBatch
  <2>6. ASSUME NEW u \in Urls, Process(u) PROVE PhaseShape' /\ OnePlace'
    <3> USE DEF Take, OnePlace, InBatch
    <3>0. PhaseShape'
      BY <2>6 DEF Process, PageUnchanged, PageIngested, PageMoved, UrlGone,
         TextUnchanged, TextIngested
    <3>1. CASE PageUnchanged(u)
      BY <3>0, <3>1 DEF PageUnchanged
    <3>2. CASE PageIngested(u)
      <4>0. PICK c \in Contents :
               pending' = pending \cup Chunks(u, c, IsChanged(u, c))
        BY <3>2 DEF PageIngested
      <4>1. \A i \in pending' : i \in pending \/ i.url = u
        BY <4>0 DEF Chunks
      <4>2. \A i, j \in pending' : i.url = j.url => i = j
        BY <3>2, <4>0 DEF PageIngested, Chunks, UrlsIn
      <4>3. UrlsIn(pending') \subseteq UrlsIn(pending) \cup {u}
        BY <4>1 DEF UrlsIn
      <4>4. /\ u \in round /\ round' = round \ {u} /\ todo' = todo /\ batch' = batch
            /\ deleted' = deleted /\ redirected' = redirected
        BY <3>2 DEF PageIngested
      <4> QED
        BY <3>0, <4>2, <4>3, <4>4, AtMostInRound
    <3>3. CASE PageMoved(u)
      BY <3>0, <3>3 DEF PageMoved
    <3>4. CASE UrlGone(u)
      BY <3>0, <3>4 DEF UrlGone
    <3>5. CASE TextUnchanged(u)
      BY <3>0, <3>5 DEF TextUnchanged
    <3>6. CASE TextIngested(u)
      <4>0. PICK c \in Contents : pending' = pending \cup Chunks(u, c, FALSE)
        BY <3>6 DEF TextIngested
      <4>1. \A i \in pending' : i \in pending \/ i.url = u
        BY <4>0 DEF Chunks
      <4>2. \A i, j \in pending' : i.url = j.url => i = j
        <5>1. \A i \in Chunks(u, c, FALSE) : i.url = u
          BY DEF Chunks
        <5>2. \A i, j \in Chunks(u, c, FALSE) : i = j
          BY DEF Chunks
        <5>3. \A i \in pending : i.url # u
          BY <3>6 DEF TextIngested, UrlsIn
        <5> QED
          BY <4>0, <5>1, <5>2, <5>3
      <4>3. UrlsIn(pending') \subseteq UrlsIn(pending) \cup {u}
        BY <4>1 DEF UrlsIn
      <4>4. /\ u \in round /\ round' = round \ {u} /\ todo' = todo /\ batch' = batch
            /\ deleted' = deleted /\ redirected' = redirected
        BY <3>6 DEF TextIngested
      <4> QED
        BY <3>0, <4>2, <4>3, <4>4, AtMostInRound
    <3> QED
      BY <2>6, <3>1, <3>2, <3>3, <3>4, <3>5, <3>6 DEF Process
  <2>7. ASSUME NEW u \in Urls, PurgeRedirected(u) PROVE PhaseShape' /\ OnePlace'
    BY <2>7 DEF PurgeRedirected, OnePlace, InBatch
  <2>8. ASSUME NEW u \in Urls, PurgeDeleted(u) PROVE PhaseShape' /\ OnePlace'
    BY <2>8 DEF PurgeDeleted, OnePlace, InBatch
  <2>9. ASSUME NEW b \in Slots, Dispatch(b) PROVE PhaseShape' /\ OnePlace'
    <3>1. /\ batch'[b].items = pending /\ InBatch(b)' = UrlsIn(pending)
          /\ \A d \in Slots \ {b} : batch'[d] = batch[d] /\ InBatch(d)' = InBatch(d)
      BY <2>9 DEF Dispatch, InBatch, TypeOK
    <3>2. UrlsIn(pending') = {}
      BY <2>9 DEF Dispatch, UrlsIn
    <3>3. PhaseShape'
      BY <2>9 DEF Dispatch
    <3> QED
      BY <2>9, <3>1, <3>2, <3>3 DEF Dispatch, OnePlace
  <2>10. ASSUME NEW b \in Slots, DeleteStale(b) PROVE PhaseShape' /\ OnePlace'
    <3>1. PICK g : batch' = [batch EXCEPT ![b].cur = g]
      BY <2>10 DEF DeleteStale
    <3>2. \A d \in Slots : batch'[d].items = batch[d].items /\ InBatch(d)' = InBatch(d)
      BY <3>1 DEF TypeOK, Batch, InBatch
    <3> QED
      BY <2>10, <3>2 DEF DeleteStale, OnePlace
  <2>11. ASSUME NEW b \in Slots, WriteGroup(b) PROVE PhaseShape' /\ OnePlace'
    BY <2>11 DEF WriteGroup, OnePlace, InBatch, UrlsIn, TypeOK, Batch
  <2>12. CASE DrainTimeout
    BY <2>12 DEF DrainTimeout, OnePlace, InBatch, InFlight, Running, NoBatch, UrlsIn
  <2>13. CASE CrawlError
    BY <2>13 DEF CrawlError, OnePlace, InBatch, Orphaned, Running, UrlsIn
  <2>14. CASE Crash
    BY <2>14 DEF Crash, OnePlace, InBatch, NoBatch, UrlsIn
  <2>15. ASSUME NEW u \in Urls, FetchFailed(u) PROVE PhaseShape' /\ OnePlace'
    BY <2>15 DEF FetchFailed, Take, OnePlace, InBatch
  <2>16. ASSUME NEW b \in Slots, AbortBatch(b) PROVE PhaseShape' /\ OnePlace'
    <3>1. /\ batch'[b].items = {} /\ InBatch(b)' = {}
          /\ \A d \in Slots \ {b} : batch'[d] = batch[d] /\ InBatch(d)' = InBatch(d)
      BY <2>16 DEF AbortBatch, InBatch, NoBatch, UrlsIn, TypeOK
    <3> QED
      BY <2>16, <3>1 DEF AbortBatch, OnePlace
  <2>17. CASE UNCHANGED vars
    BY <2>17 DEF vars, OnePlace, InBatch
  <2> QED
    BY <2>1, <2>2, <2>3, <2>4, <2>5, <2>6, <2>7, <2>8, <2>9, <2>10, <2>11,
       <2>12, <2>13, <2>14, <2>15, <2>16, <2>17
    DEF Next, Progress, Failure
<1> QED
  BY <1>1, <1>2

\* Whatever fails, a crawl has each URL in at most one place, so that nothing
\* it deletes was written by itself.
THEOREM FetchedOnce == Spec => []OnePlace
<1>1. Places => OnePlace
  BY DEF Places
<1> QED
  BY PlacesStep, <1>1, PTL DEF Spec

-----------------------------------------------------------------------------
(* What the registry promises about the index.                             *)

\* The batches of the crawl, what they and the pending chunks bring, and what
\* they have made room for.
InCrawl == {b \in Slots : ~batch[b].orphan}
Live == pending \cup UNION {batch[b].items : b \in InCrawl}
Cleared == UNION {batch[b].cur : b \in InCrawl}

\* The batches of earlier crawls that still bring u: each of them may add a
\* generation of u.
Orphans(u) == {b \in Slots : batch[b].orphan /\ u \in UrlsIn(batch[b].items)}
Owed(u) == Len(index[u]) + Cardinality(Orphans(u))

EntriesSound ==
    /\ phase = "idle" => reg = saved
    /\ \A u \in Urls : /\ reg[u].ingested => reg[u].hash # NoHash
                       /\ saved[u].ingested => saved[u].hash # NoHash
    /\ \A u \in redirected : reg[u] = NoEntry
    /\ \A u \in deleted : reg[u].ingested

\* Chunks on their way are those of the entry, and replace what is there
\* exactly if the entry lost its last_ingested.
ItemsSound ==
    \A i \in Live : /\ i.stale <=> ~reg[i.url].ingested
                    /\ i.hash = reg[i.url].hash /\ i.hash # Blank

\* RegistryBacked, in every phase.
Backed ==
    faults = 0 =>
       /\ \A b \in Slots : ~batch[b].orphan
       /\ \A u \in Urls :
             reg[u].hash \in Contents \ {Blank} /\ u \notin UrlsIn(Live) =>
                index[u] # <<>> /\ index[u][Len(index[u])] = reg[u].hash

\* What failures and lost texts may have left of u.
Room(u) == 2 * faults + textLost[u]

\* EntryAccountsForIndex with what every failure may leave behind.
WithinAllowance(u) ==
    /\ IsFiniteSet(Orphans(u)) /\ Cardinality(Orphans(u)) <= faults
    /\ Owed(u) <= Room(u) + 2
    /\ (~reg[u].ingested \/ reg[u].hash = Blank) /\ u \notin UrlsIn(Live) \cup redirected
          => Owed(u) <= Room(u) + 1
    /\ \A i \in Live : i.url = u /\ ~i.stale => Owed(u) <= Room(u) + 1
    /\ \A i \in Cleared : i.url = u /\ i.stale => Owed(u) <= Room(u)

Counted == \A u \in Pages : WithinAllowance(u)

Accounts == EntriesSound /\ ItemsSound /\ Backed /\ Counted

\* The inductive invariant.
Sound == Places /\ Accounts

\* Chunks on their way: one item for each URL, which is nowhere else.
LEMMA LiveFacts ==
  ASSUME Places
  PROVE  /\ Live \subseteq Item /\ Cleared \subseteq Live
         /\ \A i, j \in Live : i.url = j.url => i = j
         /\ UrlsIn(Live) \cap (todo \cup round \cup deleted \cup redirected) = {}
         /\ phase \in {"idle", "purge"} => Live = {}
<1> USE DEF Places
<1>1. Live \subseteq Item /\ Cleared \subseteq Live
  BY DEF Live, Cleared, InCrawl, TypeOK, Batch
<1>2. \A b \in InCrawl : b \in Slots /\ InBatch(b) = UrlsIn(batch[b].items)
  BY DEF InCrawl, InBatch
<1>3. \A i, j \in Live : i.url = j.url => i = j
  <2> SUFFICES ASSUME NEW i \in Live, NEW j \in Live, i.url = j.url PROVE i = j
    OBVIOUS
  <2>1. CASE i \in pending /\ j \in pending
    BY <2>1 DEF OnePlace
  <2>2. \A b \in InCrawl : \A k \in batch[b].items : k.url \in InBatch(b)
    BY <1>2 DEF UrlsIn
  <2>3. \A k \in pending : k.url \in UrlsIn(pending)
    BY DEF UrlsIn
  <2>4. \A b \in InCrawl : InBatch(b) \cap UrlsIn(pending) = {}
    BY <1>2 DEF OnePlace
  <2>5. \A b, c \in InCrawl : b # c => InBatch(b) \cap InBatch(c) = {}
    BY <1>2 DEF OnePlace
  <2>6. \A b \in InCrawl : \A k, l \in batch[b].items : k.url = l.url => k = l
    BY <1>2 DEF OnePlace
  <2> QED
    BY <2>1, <2>2, <2>3, <2>4, <2>5, <2>6 DEF Live
<1>4. UrlsIn(Live) \cap (todo \cup round \cup deleted \cup redirected) = {}
  <2>1. \A i \in Live : i.url \in UrlsIn(pending) \/ \E b \in InCrawl : i.url \in InBatch(b)
    BY <1>2 DEF Live, UrlsIn
  <2>2. \A v \in UrlsIn(Live) : v \in UrlsIn(pending) \/ \E b \in InCrawl : v \in InBatch(b)
    BY <2>1 DEF UrlsIn
  <2>3. \A b \in InCrawl : InBatch(b) \cap (todo \cup round) = {}
    BY <1>2 DEF OnePlace
  <2>4. \A b \in InCrawl : InBatch(b) \cap (deleted \cup redirected) = {}
    BY <1>2 DEF OnePlace
  <2>5. UrlsIn(pending) \cap (todo \cup round \cup deleted \cup redirected) = {}
    BY DEF OnePlace
  <2> QED
    BY <2>2, <2>3, <2>4, <2>5
<1>5. phase \in {"idle", "purge"} => Live = {}
  BY <1>2 DEF PhaseShape, Live, UrlsIn
<1> QED
  BY <1>1, <1>3, <1>4, <1>5

LEMMA Lengths ==
  ASSUME Places, NEW u \in Urls
  PROVE  /\ index[u] \in Seq(Contents) /\ Len(index[u]) \in Nat
         /\ Len(index[u]) = 0 <=> index[u] = <<>>
         /\ faults \in Nat
         /\ u \in Pages => textLost[u] \in Nat /\ Room(u) \in Nat
<1>1. faults \in Nat
  BY SizeAssumption DEF Places, TypeOK
<1>2. u \in Pages => textLost[u] \in Nat /\ Room(u) \in Nat
  BY <1>1 DEF Places, TypeOK, Room
<1> QED
  BY <1>1, <1>2, EmptySeq, LenProperties DEF Places, TypeOK

\* What is owed does not grow when nothing is written.
LEMMA FewerOrphans ==
  ASSUME NEW u, IsFiniteSet(Orphans(u)), Orphans(u)' \subseteq Orphans(u),
         Len(index[u]) \in Nat, Len(index'[u]) \in Nat,
         Len(index'[u]) <= Len(index[u])
  PROVE  /\ IsFiniteSet(Orphans(u)')
         /\ Cardinality(Orphans(u)') <= Cardinality(Orphans(u))
         /\ Cardinality(Orphans(u)) \in Nat /\ Cardinality(Orphans(u)') \in Nat
         /\ Owed(u) \in Nat /\ Owed(u)' \in Nat /\ Owed(u)' <= Owed(u)
BY FS_Subset, FS_CardinalityType DEF Owed

\* A failure pays for two generations of every page.
LEMMA AfterFailure ==
  ASSUME Sound, Places', faults' = faults + 1, textLost' = textLost,
         \A u \in Pages : /\ Orphans(u)' \subseteq Orphans(u)
                          /\ Len(index'[u]) <= Len(index[u])
  PROVE  Counted'
<1> SUFFICES ASSUME NEW u \in Pages PROVE WithinAllowance(u)'
  BY DEF Counted
<1>1. u \in Urls
  BY DEF Urls
<1>2. Len(index[u]) \in Nat /\ faults \in Nat /\ textLost[u] \in Nat
  BY <1>1, Lengths DEF Sound
<1>3. Len(index'[u]) \in Nat
  BY <1>1, EmptySeq, LenProperties DEF Places, TypeOK
<1>4. WithinAllowance(u)
  BY DEF Sound, Accounts, Counted
<1>5. /\ IsFiniteSet(Orphans(u)')
      /\ Cardinality(Orphans(u)') <= Cardinality(Orphans(u))
      /\ Cardinality(Orphans(u)) \in Nat /\ Cardinality(Orphans(u)') \in Nat
      /\ Owed(u) \in Nat /\ Owed(u)' \in Nat /\ Owed(u)' <= Owed(u)
  BY <1>2, <1>3, <1>4, FewerOrphans DEF WithinAllowance
<1>6. Room(u) \in Nat /\ Room(u)' = Room(u) + 2
  BY <1>2 DEF Room
<1> QED
  BY <1>2, <1>4, <1>5, <1>6 DEF WithinAllowance

\* Steps that lose chunks and nothing else.
LEMMA Dropped ==
  ASSUME Sound, Places', faults' = faults + 1, textLost' = textLost,
         index' = index, saved' = saved,
         Live' \subseteq Live, phase' = "idle" => reg' = saved,
         redirected' \subseteq redirected, deleted' \subseteq deleted,
         \/ reg' = reg
         \/ reg' = saved /\ Live' = {} /\ redirected' = {} /\ deleted' = {},
         \A u \in Pages : Orphans(u)' \subseteq Orphans(u)
  PROVE  Accounts'
<1>1. faults \in Nat
  BY SizeAssumption DEF Sound, Places, TypeOK
<1>2. Backed'
  BY <1>1 DEF Backed
<1>3. EntriesSound' /\ ItemsSound'
  BY DEF Sound, Accounts, EntriesSound, ItemsSound
<1>4. \A u \in Pages : Len(index'[u]) <= Len(index[u])
  BY Lengths DEF Sound, Urls
<1>5. Counted'
  BY <1>4, AfterFailure
<1> QED
  BY <1>2, <1>3, <1>5 DEF Accounts

\* Steps that leave the chunks and the entries alone.
LEMMA Unmoved ==
  ASSUME Sound, Places', UNCHANGED <<index, reg, redirected, textLost>>,
         Live' = Live, Cleared' \subseteq Cleared,
         \A b \in Slots : batch'[b].orphan => batch[b].orphan,
         \A u \in Pages : Orphans(u)' = Orphans(u),
         saved' \in {saved, reg}, phase' = "idle" => reg' = saved',
         \A u \in deleted' : reg[u].ingested,
         faults' \in {faults, faults + 1}
  PROVE  Accounts'
<1>1. faults \in Nat
  BY SizeAssumption DEF Sound, Places, TypeOK
<1>2. EntriesSound' /\ ItemsSound'
  BY DEF Sound, Accounts, EntriesSound, ItemsSound
<1>3. Backed'
  BY <1>1 DEF Sound, Accounts, Backed
<1>4. Counted'
  <2>1. CASE faults' = faults
    BY <2>1 DEF Sound, Accounts, Counted, WithinAllowance, Owed, Room
  <2>2. CASE faults' = faults + 1
    <3>1. \A u \in Pages : Len(index'[u]) <= Len(index[u])
      BY Lengths DEF Sound, Urls
    <3> QED
      BY <2>2, <3>1, AfterFailure
  <2> QED
    BY <2>1, <2>2
<1> QED
  BY <1>2, <1>3, <1>4 DEF Accounts

LEMMA BatchesStay ==
  ASSUME UNCHANGED <<batch, pending>>
  PROVE  /\ Live' = Live /\ Cleared' = Cleared
         /\ \A b \in Slots : batch'[b].orphan => batch[b].orphan
         /\ \A u \in Urls : Orphans(u)' = Orphans(u)
BY DEF Live, Cleared, InCrawl, Orphans

\* A URL of the round gets a new entry, and chunks that replace what is there
\* (stale) or, for a page that was not indexed, add to it.
LEMMA Registered ==
  ASSUME Sound, Places', NEW u \in round, u \in Urls, NEW c \in Contents,
         NEW isStale \in BOOLEAN,
         u \in Pages /\ ~isStale => ~reg[u].ingested,
         \A w \in Pages \ {u} : textLost'[w] = textLost[w],
         u \in Pages => textLost'[u] \in {textLost[u], textLost[u] + 1},
         u \in Pages /\ c = Blank /\ reg[u].ingested /\ reg[u].hash # Blank
            => textLost'[u] = textLost[u] + 1,
         reg' = [reg EXCEPT ![u] = [hash |-> c, ingested |-> ~isStale]],
         pending' = pending \cup Chunks(u, c, isStale), phase' # "idle",
         UNCHANGED <<index, saved, batch, deleted, redirected, faults>>
  PROVE  Accounts'
<1> USE DEF Sound, Accounts
<1>1. /\ reg \in [Urls -> Entry] /\ Live \subseteq Item /\ Cleared \subseteq Live
      /\ u \notin UrlsIn(Live) \cup deleted \cup redirected
      /\ deleted \subseteq Urls /\ redirected \subseteq Urls
  BY LiveFacts DEF Places, TypeOK, OnePlace
<1>2. Live' = Live \cup Chunks(u, c, isStale) /\ Cleared' = Cleared
  BY DEF Live, Cleared, InCrawl
<1>3. \A w \in Urls \ {u} : reg'[w] = reg[w]
  BY <1>1
<1>4. reg'[u] = [hash |-> c, ingested |-> ~isStale]
  BY <1>1
<1>5. \A i \in Chunks(u, c, isStale) : i.url = u /\ i.hash = c /\ i.hash # Blank /\ i.stale = isStale
  BY DEF Chunks
<1>6. \A i \in Live : i.url \in Urls \ {u}
  BY <1>1 DEF UrlsIn, Item
<1>7. \A w \in Urls \ {u} : w \in UrlsIn(Live') <=> w \in UrlsIn(Live)
  BY <1>2, <1>5 DEF UrlsIn
<1>8. c # Blank => u \in UrlsIn(Live')
  <2>1. c # Blank => [url |-> u, hash |-> c, stale |-> isStale] \in Live'
    BY <1>2 DEF Chunks
  <2> QED
    BY <2>1 DEF UrlsIn
<1>9. EntriesSound'
  BY <1>1, <1>3, <1>4, ContentAssumption DEF EntriesSound
<1>10. ItemsSound'
  <2>1. ASSUME NEW i \in Live
        PROVE  /\ i.stale <=> ~reg'[i.url].ingested
               /\ i.hash = reg'[i.url].hash /\ i.hash # Blank
    BY <1>3, <1>6 DEF ItemsSound
  <2>2. ASSUME NEW i \in Chunks(u, c, isStale)
        PROVE  /\ i.stale <=> ~reg'[i.url].ingested
               /\ i.hash = reg'[i.url].hash /\ i.hash # Blank
    <3>1. reg'[u].ingested = ~isStale /\ reg'[u].hash = c
      BY <1>4
    <3>2. i.url = u /\ i.stale = isStale /\ i.hash = c /\ i.hash # Blank
      BY <1>5
    <3> QED
      BY <3>1, <3>2
  <2> QED
    BY <1>2, <2>1, <2>2 DEF ItemsSound
<1>11. Backed'
  <2> SUFFICES ASSUME faults = 0, NEW w \in Urls,
                      reg'[w].hash \in Contents \ {Blank}, w \notin UrlsIn(Live')
               PROVE  index[w] # <<>> /\ index[w][Len(index[w])] = reg'[w].hash
    BY DEF Backed
  <2>1. w # u
    BY <1>4, <1>8
  <2> QED
    BY <1>3, <1>7, <2>1 DEF Backed
<1>12. Counted'
  <2> SUFFICES ASSUME NEW w \in Pages PROVE WithinAllowance(w)'
    BY DEF Counted
  <2>1. WithinAllowance(w) /\ w \in Urls /\ textLost[w] \in Nat /\ faults \in Nat
    BY Lengths DEF Counted, Urls
  <2>2. Orphans(w)' = Orphans(w) /\ Owed(w)' = Owed(w) /\ Owed(w) \in Nat
    BY <2>1, Lengths, FS_CardinalityType DEF Orphans, Owed, WithinAllowance
  <2>3. CASE w # u
    <3>1. reg'[w] = reg[w] /\ (w \in UrlsIn(Live') <=> w \in UrlsIn(Live))
      BY <1>3, <1>7, <2>1, <2>3
    <3>2. \A i \in Live' : i.url = w => i \in Live
      BY <1>2, <1>5, <2>3
    <3>3. Room(w)' = Room(w)
      BY <2>3 DEF Room
    <3> QED
      BY <1>2, <2>1, <2>2, <3>1, <3>2, <3>3 DEF WithinAllowance
  <2>4. CASE w = u
    <3>1. Room(u) \in Nat /\ Room(u)' \in Nat /\ Room(u) <= Room(u)'
      BY <2>1, <2>4 DEF Room
    <3>2. \A i \in Live' : i.url = u => i.stale = isStale
      BY <1>2, <1>5, <1>6
    <3>3. ~isStale => Owed(u) <= Room(u)' + 1
      BY <1>1, <2>1, <2>2, <2>4, <3>1 DEF WithinAllowance
    <3>4. \A i \in Cleared' : i.url # u
      BY <1>1, <1>2, <1>6
    <3>5. u \notin UrlsIn(Live') => Owed(u) <= Room(u)' + 1
      <4> SUFFICES ASSUME c = Blank PROVE Owed(u) <= Room(u)' + 1
        BY <1>8
      <4>1. CASE reg[u].ingested /\ reg[u].hash # Blank
        <5>1. Room(u)' = Room(u) + 1
          BY <2>1, <2>4, <4>1 DEF Room
        <5> QED
          BY <2>1, <2>2, <2>4, <3>1, <5>1 DEF WithinAllowance
      <4>2. CASE ~reg[u].ingested \/ reg[u].hash = Blank
        BY <1>1, <2>1, <2>2, <2>4, <3>1, <4>2 DEF WithinAllowance
      <4> QED
        BY <4>1, <4>2
    <3>6. Owed(u) <= Room(u)' + 2
      BY <2>1, <2>2, <2>4, <3>1 DEF WithinAllowance
    <3> QED
      BY <2>1, <2>2, <2>4, <3>2, <3>3, <3>4, <3>5, <3>6 DEF WithinAllowance
  <2> QED
    BY <2>3, <2>4
<1> QED
  BY <1>9, <1>10, <1>11, <1>12

\* The pages and files of a round.
LEMMA ProcessAccounts ==
  ASSUME Sound, Places', NEW u \in Urls, Process(u)
  PROVE  Accounts'
<1> USE DEF Sound, Accounts
<1>0. /\ u \in round /\ phase = "bfs" /\ phase' = "bfs"
      /\ UNCHANGED <<index, saved, batch, faults>>
      /\ reg \in [Urls -> Entry] /\ faults \in Nat
  <2>1. Take(u) /\ faults' = faults
    BY DEF Process, PageUnchanged, PageIngested, PageMoved, UrlGone, TextUnchanged,
       TextIngested
  <2>2. reg \in [Urls -> Entry] /\ faults \in Nat
    BY SizeAssumption DEF Places, TypeOK
  <2> QED
    BY <2>1, <2>2 DEF Take
<1>1. CASE PageUnchanged(u) \/ TextUnchanged(u) \/ UrlGone(u)
  <2>1. UNCHANGED <<pending, reg, redirected>>
    BY <1>1 DEF PageUnchanged, TextUnchanged, UrlGone
  <2>0. textLost' = textLost
    BY <1>1 DEF PageUnchanged, TextUnchanged, UrlGone
  <2>2. \A w \in deleted' : reg[w].ingested
    BY <1>1 DEF PageUnchanged, TextUnchanged, UrlGone, EntriesSound
  <2>3. /\ Live' = Live /\ Cleared' = Cleared
        /\ \A b \in Slots : batch'[b].orphan => batch[b].orphan
        /\ \A w \in Pages : Orphans(w)' = Orphans(w)
    BY <1>0, <2>1, BatchesStay DEF Urls
  <2> QED
    BY <1>0, <2>0, <2>1, <2>2, <2>3, Unmoved
<1>2. CASE PageIngested(u)
  <2>1. PICK c \in Contents :
           /\ ~Unchanged(u, c)
           /\ pending' = pending \cup Chunks(u, c, IsChanged(u, c))
           /\ reg' = [reg EXCEPT
                        ![u] = [hash |-> c, ingested |-> ~IsChanged(u, c)]]
           /\ textLost' = [textLost EXCEPT
                             ![u] = IF LosesText(u, c) THEN @ + 1 ELSE @]
    BY <1>2 DEF PageIngested
  <2>2. IsChanged(u, c) \in BOOLEAN /\ UNCHANGED <<deleted, redirected>>
    BY <1>2 DEF IsChanged, PageIngested
  <2>3. reg[u].ingested => IsChanged(u, c)
    <3>1. reg[u].ingested => reg[u].hash # NoHash
      BY DEF EntriesSound
    <3> QED
      BY <2>1, <3>1 DEF Unchanged, IsChanged
  <2>4. /\ textLost \in [Pages -> Nat] /\ u \in Pages
    BY <1>2 DEF Places, TypeOK, PageIngested
  <2>5. /\ \A w \in Pages \ {u} : textLost'[w] = textLost[w]
        /\ textLost'[u] \in {textLost[u], textLost[u] + 1}
        /\ c = Blank /\ reg[u].ingested /\ reg[u].hash # Blank
             => textLost'[u] = textLost[u] + 1
    BY <2>1, <2>3, <2>4 DEF LosesText
  <2> QED
    BY <1>0, <2>1, <2>2, <2>3, <2>5, Registered
<1>3. CASE TextIngested(u)
  <2>1. u \notin Pages
    BY <1>3, ContentAssumption DEF TextIngested
  <2>2. ~FALSE = TRUE
    OBVIOUS
  <2>3. PICK c \in Contents :
           /\ reg' = [reg EXCEPT ![u] = [hash |-> c, ingested |-> ~FALSE]]
           /\ pending' = pending \cup Chunks(u, c, FALSE)
    BY <1>3, <2>2 DEF TextIngested
  <2>4. UNCHANGED <<deleted, redirected, textLost>>
    BY <1>3 DEF TextIngested
  <2> QED
    BY <1>0, <2>1, <2>3, <2>4, Registered
<1>4. CASE PageMoved(u)
  <2>1. /\ reg' = [reg EXCEPT ![u] = NoEntry]
        /\ redirected' = redirected \cup (IF reg[u].ingested THEN {u} ELSE {})
        /\ UNCHANGED <<pending, deleted, textLost>>
    BY <1>4 DEF PageMoved
  <2>2. /\ Live' = Live /\ Cleared' = Cleared /\ Live \subseteq Item
        /\ u \notin UrlsIn(Live) \cup deleted \cup redirected
        /\ deleted \subseteq Urls /\ redirected \subseteq Urls
    BY <1>0, <2>1, BatchesStay, LiveFacts DEF Places, TypeOK, OnePlace
  <2>3. /\ \A w \in Urls \ {u} : reg'[w] = reg[w]
        /\ reg'[u] = NoEntry
    BY <1>0, <2>1
  <2>4. \A i \in Live : i.url \in Urls \ {u}
    BY <2>2 DEF UrlsIn, Item
  <2>5. EntriesSound'
    BY <1>0, <2>1, <2>2, <2>3 DEF EntriesSound, NoEntry
  <2>6. ItemsSound'
    BY <2>2, <2>3, <2>4 DEF ItemsSound
  <2>7. Backed'
    BY <1>0, <2>2, <2>3, ContentAssumption DEF Backed, NoEntry
  <2>8. Counted'
    <3> SUFFICES ASSUME NEW w \in Pages PROVE WithinAllowance(w)'
      BY DEF Counted
    <3>1. WithinAllowance(w) /\ w \in Urls
      BY DEF Counted, Urls
    <3>2. Orphans(w)' = Orphans(w) /\ Owed(w)' = Owed(w) /\ Room(w)' = Room(w)
      BY <1>0, <2>1 DEF Orphans, Owed, Room
    <3>3. (~reg'[w].ingested \/ reg'[w].hash = Blank) /\ w \notin redirected'
            => (~reg[w].ingested \/ reg[w].hash = Blank) /\ w \notin redirected
      BY <2>1, <2>3, <3>1 DEF NoEntry
    <3> QED
      BY <1>0, <2>2, <3>1, <3>2, <3>3 DEF WithinAllowance
  <2> QED
    BY <2>5, <2>6, <2>7, <2>8
<1> QED
  BY <1>1, <1>2, <1>3, <1>4 DEF Process

\* Dispatching moves chunks from one place to another.
LEMMA DispatchAccounts ==
  ASSUME Sound, Places', NEW b \in Slots, Dispatch(b)
  PROVE  Accounts'
<1>1. /\ batch \in [Slots -> Batch] /\ batch[b].items = {} /\ batch[b].cur = {}
      /\ batch'[b] = [items |-> pending, cur |-> {}, orphan |-> FALSE]
      /\ \A c \in Slots \ {b} : batch'[c] = batch[c]
      /\ pending' = {}
  BY DEF Dispatch, Running, Sound, Places, TypeOK
<1>2. b \in InCrawl' /\ \A c \in Slots \ {b} : c \in InCrawl' <=> c \in InCrawl
  BY <1>1 DEF InCrawl
<1>3. Live' = Live
  <2>1. ASSUME NEW i \in Live PROVE i \in Live'
    <3>1. CASE i \in pending
      BY <1>1, <1>2, <3>1 DEF Live
    <3>2. ASSUME NEW c \in InCrawl, i \in batch[c].items PROVE i \in Live'
      BY <1>1, <1>2, <3>2 DEF Live, InCrawl
    <3> QED
      BY <3>1, <3>2 DEF Live
  <2>2. ASSUME NEW i \in Live' PROVE i \in Live
    <3>1. PICK c \in InCrawl' : i \in batch'[c].items
      BY <1>1, <2>2 DEF Live
    <3>2. c \in Slots
      BY <3>1 DEF InCrawl
    <3> QED
      BY <1>1, <1>2, <3>1, <3>2 DEF Live
  <2> QED
    BY <2>1, <2>2
<1>4. Cleared' \subseteq Cleared
  <2> SUFFICES ASSUME NEW i \in Cleared' PROVE i \in Cleared
    OBVIOUS
  <2>1. PICK c \in InCrawl' : i \in batch'[c].cur
    BY DEF Cleared
  <2>2. c \in Slots
    BY <2>1 DEF InCrawl
  <2> QED
    BY <1>1, <1>2, <2>1, <2>2 DEF Cleared
<1>5. \A u \in Pages : Orphans(u)' = Orphans(u)
  BY <1>1 DEF Orphans, UrlsIn
<1>6. \A c \in Slots : batch'[c].orphan => batch[c].orphan
  BY <1>1
<1>7. /\ UNCHANGED <<index, reg, redirected, textLost>> /\ saved' \in {saved, reg}
      /\ phase' # "idle" /\ faults' = faults
      /\ \A u \in deleted' : reg[u].ingested
  BY DEF Dispatch, crawlVars, Sound, Accounts, EntriesSound
<1> QED
  BY <1>3, <1>4, <1>5, <1>6, <1>7, Unmoved

\* Deleting what a group of chunks replaces.
LEMMA DeleteStaleAccounts ==
  ASSUME Sound, Places', NEW b \in Slots, DeleteStale(b)
  PROVE  Accounts'
<1> USE DEF Sound, Accounts
<1>1. PICK c \in Collections :
        LET group == {i \in batch[b].items : TargetOf[i.url] = c}
            stale == UrlsIn({i \in group : i.stale})
        IN  /\ batch' = [batch EXCEPT ![b].cur = group]
            /\ \/ /\ index' = [u \in Urls |-> IF u \in stale THEN <<>> ELSE index[u]]
                  /\ textLost' = [u \in Pages |->
                                     IF u \in stale THEN 0 ELSE textLost[u]]
                  /\ UNCHANGED faults
               \/ Fault("delete") /\ UNCHANGED <<index, textLost>>
  BY DEF DeleteStale
<1> DEFINE group == {i \in batch[b].items : TargetOf[i.url] = c}
           stale == UrlsIn({i \in group : i.stale})
<1>2. /\ batch \in [Slots -> Batch] /\ batch[b].cur = {} /\ faults \in Nat
      /\ UNCHANGED <<saved, reg, phase, pending, deleted, redirected>>
  BY SizeAssumption DEF DeleteStale, crawlVars, Places, TypeOK
<1>3. /\ batch'[b].cur = group /\ batch'[b].items = batch[b].items
      /\ batch'[b].orphan = batch[b].orphan
      /\ \A d \in Slots \ {b} : batch'[d] = batch[d]
  BY <1>1, <1>2 DEF Batch
<1>4. group \subseteq batch[b].items /\ \A u \in stale : \E i \in batch[b].items : i.url = u
  BY DEF UrlsIn
<1>5. \A i \in group : i.stale => i.url \in stale
  BY DEF UrlsIn
<1>6. \A u \in Urls : \/ index'[u] = index[u]
                      \/ index'[u] = <<>> /\ u \in stale /\ faults' = faults
  BY <1>1
<1>7. faults' = faults =>
         /\ \A u \in Urls : u \in stale => index'[u] = <<>>
         /\ \A u \in Pages : textLost'[u] = IF u \in stale THEN 0 ELSE textLost[u]
  BY <1>1, <1>2 DEF Fault
<1>0. faults' = faults + 1 => textLost' = textLost
  BY <1>1, <1>2
<1>8. faults' \in {faults, faults + 1}
  BY <1>1 DEF Fault
<1> HIDE DEF group, stale
<1>9. /\ InCrawl' = InCrawl /\ Live' = Live
      /\ Cleared' \subseteq Cleared \cup group
      /\ \A u : Orphans(u)' = Orphans(u)
      /\ ~batch[b].orphan => group \subseteq Live
  <2>1. InCrawl' = InCrawl
    BY <1>3 DEF InCrawl
  <2>2. \A d \in Slots : batch'[d].items = batch[d].items
    BY <1>3
  <2>3. Live' = Live /\ \A u : Orphans(u)' = Orphans(u)
    BY <1>2, <1>3, <2>1, <2>2 DEF Live, Orphans, InCrawl
  <2>4. \A d \in Slots : batch'[d].cur \subseteq batch[d].cur \cup group
    BY <1>3
  <2>5. Cleared' \subseteq Cleared \cup group
    BY <2>1, <2>4 DEF Cleared, InCrawl
  <2> QED
    BY <1>4, <2>1, <2>3, <2>5 DEF Live, InCrawl
<1>10. EntriesSound' /\ ItemsSound'
  BY <1>2, <1>9 DEF EntriesSound, ItemsSound
<1>11. Backed'
  <2> SUFFICES ASSUME faults' = 0 PROVE Backed'
    BY DEF Backed
  <2>1. faults = 0 /\ \A d \in Slots : ~batch[d].orphan /\ ~batch'[d].orphan
    BY <1>2, <1>3, <1>8 DEF Backed
  <2>2. stale \subseteq UrlsIn(Live)
    BY <1>4, <2>1 DEF UrlsIn, Live, InCrawl
  <2> QED
    BY <1>2, <1>6, <1>9, <2>1, <2>2 DEF Backed
<1>12. \A u \in Urls : Len(index'[u]) <= Len(index[u]) /\ Len(index'[u]) \in Nat
  BY <1>6, Lengths, EmptySeq
<1>13. Counted'
  <2>1. CASE faults' = faults + 1
    BY <1>0, <1>9, <1>12, <2>1, AfterFailure DEF Urls
  <2>2. CASE faults' = faults
    <3> SUFFICES ASSUME NEW u \in Pages PROVE WithinAllowance(u)'
      BY DEF Counted
    <3>1. WithinAllowance(u) /\ u \in Urls
      BY DEF Counted, Urls
    <3>2. /\ Cardinality(Orphans(u)) \in Nat /\ Len(index[u]) \in Nat
          /\ Owed(u)' <= Owed(u) /\ Owed(u) \in Nat /\ Owed(u)' \in Nat
      BY <1>9, <1>12, <3>1, Lengths, FewerOrphans DEF WithinAllowance
    <3>3. u \in stale => Owed(u)' <= faults
      <4>1. u \in stale => Len(index'[u]) = 0
        BY <1>7, <2>2, <3>1, EmptySeq
      <4> QED
        BY <1>9, <3>1, <3>2, <4>1 DEF Owed, WithinAllowance
    <3>4. textLost[u] \in Nat /\ Room(u) \in Nat
      BY <3>1, Lengths
    <3>5. CASE u \notin stale
      <4>1. Room(u)' = Room(u)
        BY <1>7, <2>2, <3>5 DEF Room
      <4>2. \A i \in Cleared' : i.url = u /\ i.stale => i \in Cleared
        BY <1>5, <1>9, <3>5
      <4> QED
        BY <1>2, <1>9, <2>2, <3>1, <3>2, <3>4, <4>1, <4>2 DEF WithinAllowance
    <3>6. CASE u \in stale
      <4>1. Room(u)' \in Nat /\ faults <= Room(u)'
        BY <1>2, <1>7, <2>2, <3>6 DEF Room
      <4>2. Owed(u)' <= Room(u)'
        BY <1>2, <3>2, <3>3, <3>6, <4>1
      <4> QED
        BY <1>2, <1>9, <2>2, <3>1, <3>2, <4>1, <4>2 DEF WithinAllowance
    <3> QED
      BY <3>5, <3>6
  <2> QED
    BY <1>8, <2>1, <2>2
<1> QED
  BY <1>10, <1>11, <1>13

\* An exception: the batches under way become orphans, one at most for a URL.
LEMMA CrawlErrorAccounts ==
  ASSUME Sound, Places', CrawlError
  PROVE  Accounts'
<1> USE DEF Sound, Accounts
<1>1. /\ faults' = faults + 1 /\ faults \in Nat /\ phase' = "purge" /\ pending' = {}
      /\ UNCHANGED <<index, saved, reg, deleted, redirected, textLost>>
      /\ batch' = [b \in Slots |-> IF Running(b) THEN Orphaned(batch[b]) ELSE batch[b]]
      /\ batch \in [Slots -> Batch]
  BY SizeAssumption DEF CrawlError, Fault, Places, TypeOK
<1>2. /\ \A b \in Slots : Running(b) => batch'[b].orphan
      /\ \A b \in Slots : batch'[b].items = batch[b].items
      /\ \A b \in Slots : batch'[b].cur \subseteq batch[b].items
  BY <1>1 DEF Orphaned, Running, Places, TypeOK
<1>3. Live' = {} /\ Cleared' = {}
  <2>1. \A b \in InCrawl' : b \in Slots /\ ~batch'[b].orphan
    BY DEF InCrawl
  <2>2. \A b \in InCrawl' : batch'[b].items = {} /\ batch'[b].cur = {}
    BY <1>2, <2>1 DEF Running
  <2> QED
    BY <1>1, <2>2 DEF Live, Cleared
<1>4. EntriesSound' /\ ItemsSound' /\ Backed'
  BY <1>1, <1>3 DEF EntriesSound, ItemsSound, Backed
<1>5. Counted'
  <2> SUFFICES ASSUME NEW u \in Pages PROVE WithinAllowance(u)'
    BY DEF Counted
  <2>1. /\ WithinAllowance(u) /\ u \in Urls /\ Len(index[u]) \in Nat
        /\ textLost[u] \in Nat
    BY Lengths DEF Counted, Urls
  <2>2. PICK d : Orphans(u)' \subseteq Orphans(u) \cup {d}
    <3>1. \A b, c \in Slots :
             ~batch[b].orphan /\ ~batch[c].orphan /\
             u \in UrlsIn(batch[b].items) /\ u \in UrlsIn(batch[c].items) => b = c
      BY DEF Places, OnePlace, InBatch
    <3>2. \A b \in Orphans(u)' : b \in Slots /\ u \in UrlsIn(batch[b].items)
      BY <1>2 DEF Orphans
    <3>3. \A b \in Slots : u \in UrlsIn(batch[b].items) =>
             b \in Orphans(u) \/ ~batch[b].orphan
      BY DEF Orphans
    <3> QED
      BY <3>1, <3>2, <3>3
  <2>3. /\ IsFiniteSet(Orphans(u) \cup {d})
        /\ Cardinality(Orphans(u) \cup {d}) <= Cardinality(Orphans(u)) + 1
        /\ Cardinality(Orphans(u)) \in Nat /\ Cardinality(Orphans(u) \cup {d}) \in Nat
    <3>1. IsFiniteSet(Orphans(u))
      BY <2>1 DEF WithinAllowance
    <3>2. /\ IsFiniteSet(Orphans(u) \cup {d})
          /\ \/ Cardinality(Orphans(u) \cup {d}) = Cardinality(Orphans(u))
             \/ Cardinality(Orphans(u) \cup {d}) = Cardinality(Orphans(u)) + 1
      BY <3>1, FS_AddElement
    <3>3. Cardinality(Orphans(u)) \in Nat
      BY <3>1, FS_CardinalityType
    <3> QED
      BY <3>2, <3>3
  <2>4. /\ IsFiniteSet(Orphans(u)') /\ Cardinality(Orphans(u)') \in Nat
        /\ Cardinality(Orphans(u)') <= Cardinality(Orphans(u)) + 1
    BY <2>2, <2>3, FS_Subset, FS_CardinalityType
  <2>5. Owed(u)' <= Room(u)' + 1 /\ Room(u)' \in Nat
    <3>1. Room(u) \in Nat /\ Room(u)' = Room(u) + 2
      BY <1>1, <2>1 DEF Room
    <3>2. /\ Owed(u) = Len(index[u]) + Cardinality(Orphans(u))
          /\ Owed(u)' = Len(index[u]) + Cardinality(Orphans(u)')
          /\ Owed(u) <= Room(u) + 2
      BY <1>1, <2>1 DEF Owed, WithinAllowance
    <3> QED
      BY <2>1, <2>3, <2>4, <3>1, <3>2
  <2>6. Owed(u)' \in Nat
    BY <1>1, <2>1, <2>4 DEF Owed
  <2> QED
    BY <1>1, <1>3, <2>1, <2>3, <2>4, <2>5, <2>6 DEF WithinAllowance
<1> QED
  BY <1>4, <1>5

\* What the finally block deletes.
LEMMA PurgeAccounts ==
  ASSUME Sound, Places', NEW u \in Urls, PurgeRedirected(u) \/ PurgeDeleted(u)
  PROVE  Accounts'
<1> USE DEF Sound, Accounts
<1>1. /\ phase = "purge" /\ phase' = phase /\ Purged(u)
      /\ UNCHANGED <<saved, pending, batch>>
      /\ redirected' \subseteq redirected /\ deleted' \subseteq deleted
      /\ reg \in [Urls -> Entry] /\ faults \in Nat
  BY SizeAssumption DEF PurgeRedirected, PurgeDeleted, crawlVars, Places, TypeOK
<1>2. /\ \A w \in Urls \ {u} : reg'[w] = reg[w]
      /\ reg'[u] = NoEntry
  BY <1>1 DEF PurgeRedirected, PurgeDeleted, EntriesSound
<1>3. Live' = {} /\ Live = {} /\ Cleared' = {}
  BY <1>1, LiveFacts, BatchesStay
<1>4. \A w \in Urls : Orphans(w)' = Orphans(w)
  BY <1>1, BatchesStay
<1>5. /\ redirected' \subseteq Urls /\ deleted' \subseteq Urls /\ u \notin deleted'
      /\ u \in Pages => HomeOf[u] = TargetOf[u]
  BY ModeAssumption DEF PurgeRedirected, PurgeDeleted, Places, TypeOK, OnePlace
<1>6. EntriesSound' /\ ItemsSound'
  <2>1. ItemsSound'
    BY <1>3 DEF ItemsSound
  <2>2. \A w \in Urls : reg'[w] \in {reg[w], NoEntry}
    BY <1>2
  <2>3. \A w \in redirected' : reg'[w] = NoEntry
    BY <1>1, <1>2, <1>5 DEF EntriesSound
  <2>4. \A w \in deleted' : reg'[w].ingested
    BY <1>1, <1>2, <1>5 DEF EntriesSound
  <2>5. \A w \in Urls : /\ reg'[w].ingested => reg'[w].hash # NoHash
                        /\ saved'[w].ingested => saved'[w].hash # NoHash
    BY <1>1, <2>2 DEF EntriesSound, NoEntry
  <2>6. phase' # "idle"
    BY <1>1
  <2> QED
    BY <2>1, <2>3, <2>4, <2>5, <2>6 DEF EntriesSound
<1>7. /\ \A w \in Urls \ {u} : index'[w] = index[w]
      /\ index'[u] \in {index[u], <<>>}
      /\ u \in Pages /\ faults' = faults => index'[u] = <<>>
      /\ faults' \in {faults, faults + 1}
      /\ faults' = faults + 1 => textLost' = textLost
      /\ faults' = faults => \A w \in Pages :
            textLost'[w] = IF w = u THEN 0 ELSE textLost[w]
  <2>1. index \in [Urls -> Seq(Contents)]
    BY DEF Places, TypeOK
  <2>2. CASE Fault("delete") /\ UNCHANGED <<index, textLost>>
    BY <1>1, <2>2 DEF Fault
  <2>3. CASE /\ index' = [index EXCEPT ![u] = IF HomeOf[u] = TargetOf[u] THEN <<>> ELSE @]
             /\ textLost' = [v \in Pages |-> IF v = u THEN 0 ELSE textLost[v]]
             /\ UNCHANGED faults
    BY <1>1, <1>5, <2>1, <2>3
  <2> QED
    BY <1>1, <2>2, <2>3 DEF Purged
<1>8. Backed'
  <2> SUFFICES ASSUME faults' = 0 PROVE Backed'
    BY DEF Backed
  <2>1. faults = 0
    BY <1>1, <1>7
  <2> QED
    BY <1>1, <1>2, <1>3, <1>7, <2>1, ContentAssumption DEF Backed, NoEntry
<1>9. \A w \in Urls : Len(index'[w]) <= Len(index[w]) /\ Len(index'[w]) \in Nat
  BY <1>7, Lengths, EmptySeq
<1>10. Counted'
  <2>1. CASE faults' = faults + 1
    BY <1>4, <1>7, <1>9, <2>1, AfterFailure DEF Urls
  <2>2. CASE faults' = faults
    <3> SUFFICES ASSUME NEW w \in Pages PROVE WithinAllowance(w)'
      BY DEF Counted
    <3>1. WithinAllowance(w) /\ w \in Urls
      BY DEF Counted, Urls
    <3>2. /\ Cardinality(Orphans(w)) \in Nat /\ Len(index[w]) \in Nat
          /\ Owed(w)' <= Owed(w) /\ Owed(w) \in Nat /\ Owed(w)' \in Nat
      BY <1>4, <1>9, <3>1, Lengths, FewerOrphans DEF WithinAllowance
    <3>3. w = u => Owed(w)' <= faults
      <4>1. w = u => Len(index'[w]) = 0
        BY <1>7, <2>2, EmptySeq
      <4> QED
        BY <1>4, <3>1, <3>2, <4>1 DEF Owed, WithinAllowance
    <3>4. w # u => (w \in redirected' <=> w \in redirected)
      BY DEF PurgeRedirected, PurgeDeleted
    <3>5. textLost[w] \in Nat /\ Room(w) \in Nat
      BY <3>1, Lengths
    <3>6. CASE w # u
      <4>1. Room(w)' = Room(w)
        BY <1>7, <2>2, <3>6 DEF Room
      <4> QED
        BY <1>1, <1>2, <1>3, <1>4, <2>2, <3>1, <3>2, <3>4, <3>5, <3>6, <4>1
        DEF WithinAllowance
    <3>7. CASE w = u
      <4>1. Room(w)' \in Nat /\ faults <= Room(w)'
        BY <1>1, <1>7, <2>2, <3>7 DEF Room
      <4>2. Owed(w)' <= Room(w)'
        BY <1>1, <3>2, <3>3, <3>7, <4>1
      <4> QED
        BY <1>1, <1>3, <1>4, <2>2, <3>1, <3>2, <4>1, <4>2 DEF WithinAllowance
    <3> QED
      BY <3>6, <3>7
  <2> QED
    BY <1>7, <2>1, <2>2
<1> QED
  BY <1>6, <1>8, <1>10

\* What a bulk request does to the batch and to the index: a URL of the group
\* gets at most one generation, that of the item of the batch.
LEMMA Written ==
  ASSUME Sound, NEW b \in Slots, WriteGroup(b)
  PROVE  /\ batch'[b].items = batch[b].items \ batch[b].cur /\ batch'[b].cur = {}
         /\ batch'[b].orphan = batch[b].orphan
         /\ \A c \in Slots \ {b} : batch'[c] = batch[c]
         /\ batch[b].cur \subseteq batch[b].items
         /\ faults' \in {faults, faults + 1}
         /\ \A u \in Urls : u \notin UrlsIn(batch[b].cur) => index'[u] = index[u]
         /\ \A i \in batch[b].cur :
               /\ i.url \in Urls /\ i.hash \in Contents
               /\ index'[i.url] \in {index[i.url], Append(index[i.url], i.hash)}
               /\ faults' = faults => index'[i.url] = Append(index[i.url], i.hash)
<1> USE DEF Sound
<1>1. /\ batch \in [Slots -> Batch] /\ batch[b].cur \subseteq batch[b].items
      /\ \A i, j \in batch[b].items : i.url = j.url => i = j
      /\ \A i \in batch[b].cur : i \in Item /\ i.url \in Urls /\ i.hash \in Contents
      /\ faults \in Nat
  BY SizeAssumption DEF Places, TypeOK, OnePlace, Batch, Item
<1>2. batch' = [batch EXCEPT ![b].items = @ \ batch[b].cur, ![b].cur = {}]
  BY DEF WriteGroup
<1>3. PICK lost \in SUBSET batch[b].cur :
          /\ IF lost = {} THEN UNCHANGED faults ELSE Fault("write")
          /\ index' = [u \in Urls |->
                IF \E i \in batch[b].cur \ lost : i.url = u
                THEN Append(index[u],
                            (CHOOSE i \in batch[b].cur \ lost : i.url = u).hash)
                ELSE index[u]]
  BY DEF WriteGroup
<1>4. /\ batch'[b].items = batch[b].items \ batch[b].cur /\ batch'[b].cur = {}
      /\ batch'[b].orphan = batch[b].orphan
      /\ \A c \in Slots \ {b} : batch'[c] = batch[c]
  BY <1>1, <1>2 DEF Batch
<1>5. faults' \in {faults, faults + 1} /\ (faults' = faults => lost = {})
  BY <1>1, <1>3 DEF Fault
<1>6. \A u \in Urls : u \notin UrlsIn(batch[b].cur) => index'[u] = index[u]
  BY <1>3 DEF UrlsIn
<1>7. ASSUME NEW i \in batch[b].cur \ lost
      PROVE  index'[i.url] = Append(index[i.url], i.hash)
  <2> DEFINE j == CHOOSE k \in batch[b].cur \ lost : k.url = i.url
  <2>1. j \in batch[b].cur \ lost /\ j.url = i.url
    OBVIOUS
  <2>2. j = i
    BY <1>1, <2>1
  <2>3. i.url \in Urls
    BY <1>1
  <2>4. index'[i.url] = Append(index[i.url], j.hash)
    BY <1>3, <2>3
  <2> QED
    BY <2>2, <2>4
<1>8. ASSUME NEW i \in lost PROVE index'[i.url] = index[i.url]
  <2>1. ~ \E k \in batch[b].cur \ lost : k.url = i.url
    BY <1>1
  <2>2. i.url \in Urls
    BY <1>1
  <2> QED
    BY <1>3, <2>1, <2>2
<1> QED
  BY <1>1, <1>4, <1>5, <1>6, <1>7, <1>8

LEMMA AppendedLast ==
  ASSUME NEW s \in Seq(Contents), NEW c \in Contents
  PROVE  /\ Append(s, c) # <<>> /\ Len(Append(s, c)) = Len(s) + 1
         /\ Append(s, c)[Len(Append(s, c))] = c
BY AppendProperties, EmptySeq

\* A batch of this crawl writes what its chunks were allowed.
LEMMA WriteAccounts ==
  ASSUME Sound, Places', NEW b \in Slots, WriteGroup(b), ~batch[b].orphan
  PROVE  Accounts'
<1> DEFINE cur == batch[b].cur
<1>1. /\ batch'[b].items = batch[b].items \ cur /\ batch'[b].cur = {}
      /\ batch'[b].orphan = batch[b].orphan
      /\ \A c \in Slots \ {b} : batch'[c] = batch[c]
      /\ cur \subseteq batch[b].items
      /\ faults' \in {faults, faults + 1} /\ faults \in Nat
      /\ UNCHANGED <<saved, reg, phase, pending, deleted, redirected, textLost>>
  <2>1. UNCHANGED <<saved, reg, phase, pending, deleted, redirected, textLost>>
    BY DEF WriteGroup, crawlVars
  <2>2. faults \in Nat
    BY SizeAssumption DEF Sound, Places, TypeOK
  <2> QED
    BY <2>1, <2>2, Written
<1>0. \A u \in Pages : Room(u) \in Nat /\ Room(u)' \in Nat /\ Room(u) <= Room(u)'
  BY <1>1, Lengths DEF Room, Sound, Urls
<1>2. \A u \in Urls : u \notin UrlsIn(cur) => index'[u] = index[u]
  BY Written
<1>3. ASSUME NEW i \in cur
      PROVE  /\ i.url \in Urls /\ i.hash \in Contents
             /\ index'[i.url] \in {index[i.url], Append(index[i.url], i.hash)}
             /\ faults' = faults => index'[i.url] = Append(index[i.url], i.hash)
  BY Written
<1>4. InCrawl' = InCrawl /\ b \in InCrawl /\ cur \subseteq Live /\ cur \subseteq Cleared
  BY <1>1 DEF InCrawl, Live, Cleared
<1>5. /\ Live' \subseteq Live /\ Live \subseteq Live' \cup cur
      /\ Cleared' \subseteq Cleared /\ Cleared' \subseteq Live'
  <2>1. \A c \in Slots : /\ batch'[c].items \subseteq batch[c].items
                         /\ batch[c].items \subseteq batch'[c].items \cup cur
                         /\ batch'[c].cur \subseteq batch[c].cur
    BY <1>1
  <2>2. \A c \in InCrawl : c \in Slots
    BY DEF InCrawl
  <2>3. Cleared' \subseteq Live'
    BY <1>4, <2>2 DEF Cleared, Live, Places, TypeOK
  <2> QED
    BY <1>1, <1>4, <2>1, <2>2, <2>3 DEF Live, Cleared
<1>6. \A i \in Live' : i.url \notin UrlsIn(cur)
  <2>1. cur \cap Live' = {}
    <3>1. \A c \in InCrawl : c # b => batch[c].items \cap batch[b].items = {}
      BY DEF InCrawl, Sound, Places, OnePlace, InBatch, UrlsIn
    <3>2. pending \cap batch[b].items = {}
      BY DEF Sound, Places, OnePlace, InBatch, UrlsIn
    <3>3. \A c \in InCrawl : c \in Slots
      BY DEF InCrawl
    <3> QED
      BY <1>1, <1>4, <3>1, <3>2, <3>3 DEF Live
  <2>2. \A i, j \in Live : i.url = j.url => i = j
    BY LiveFacts DEF Sound
  <2> QED
    BY <1>4, <1>5, <2>1, <2>2 DEF UrlsIn
<1>7. \A u : Orphans(u)' = Orphans(u)
  BY <1>1 DEF Orphans
<1> HIDE DEF cur
<1>8. EntriesSound' /\ ItemsSound'
  BY <1>1, <1>5 DEF Sound, Accounts, EntriesSound, ItemsSound
<1>9. \A u \in Urls : u \notin UrlsIn(cur) => (u \in UrlsIn(Live') <=> u \in UrlsIn(Live))
  BY <1>5 DEF UrlsIn
<1>10. \A u \in UrlsIn(cur) : \E i \in cur : i.url = u
  BY DEF UrlsIn
<1>11. Backed'
  <2> SUFFICES ASSUME faults' = 0 PROVE Backed'
    BY DEF Backed
  <2>1. faults = 0
    BY <1>1
  <2>2. \A c \in Slots : ~batch'[c].orphan
    BY <1>1, <2>1 DEF Sound, Accounts, Backed
  <2>3. ASSUME NEW u \in Urls, reg'[u].hash \in Contents \ {Blank}, u \notin UrlsIn(Live')
        PROVE  index'[u] # <<>> /\ index'[u][Len(index'[u])] = reg'[u].hash
    <3>1. CASE u \notin UrlsIn(cur)
      BY <1>1, <1>2, <1>9, <2>1, <2>3, <3>1 DEF Sound, Accounts, Backed
    <3>2. CASE u \in UrlsIn(cur)
      <4>1. PICK i \in cur : i.url = u
        BY <1>10, <3>2
      <4>2. index'[u] = Append(index[u], i.hash) /\ i.hash \in Contents
        BY <1>3, <2>1, <4>1
      <4>3. i.hash = reg'[u].hash
        BY <1>1, <1>4, <4>1 DEF Sound, Accounts, ItemsSound
      <4>4. index[u] \in Seq(Contents)
        BY Lengths DEF Sound
      <4> QED
        BY <4>2, <4>3, <4>4, AppendedLast
    <3> QED
      BY <3>1, <3>2
  <2> QED
    BY <2>2, <2>3 DEF Backed
<1>12. Counted'
  <2> SUFFICES ASSUME NEW u \in Pages PROVE WithinAllowance(u)'
    BY DEF Counted
  <2>1. /\ WithinAllowance(u) /\ u \in Urls
        /\ index[u] \in Seq(Contents) /\ Len(index[u]) \in Nat
        /\ Cardinality(Orphans(u)) \in Nat
    BY Lengths, FS_CardinalityType DEF Sound, Accounts, Counted, Urls, WithinAllowance
  <2>2. CASE u \notin UrlsIn(cur)
    <3>1. index'[u] = index[u] /\ Owed(u)' = Owed(u) /\ Owed(u) \in Nat
      BY <1>2, <1>7, <2>1, <2>2 DEF Owed
    <3>2. u \in UrlsIn(Live') <=> u \in UrlsIn(Live)
      BY <1>9, <2>1, <2>2
    <3> QED
      BY <1>0, <1>1, <1>5, <1>7, <2>1, <3>1, <3>2 DEF WithinAllowance
  <2>3. CASE u \in UrlsIn(cur)
    <3>1. PICK i \in cur : i.url = u
      BY <1>10, <2>3
    <3>2. /\ i \in Live /\ i \in Cleared
          /\ i.stale <=> ~reg[u].ingested
          /\ reg[u].hash # Blank
      BY <1>4, <3>1 DEF Sound, Accounts, ItemsSound
    <3>3. /\ Len(index'[u]) \in Nat /\ Len(index'[u]) <= Len(index[u]) + 1
      BY <1>3, <2>1, <3>1, AppendedLast
    <3>4. Owed(u)' \in Nat /\ Owed(u) \in Nat /\ Owed(u)' <= Owed(u) + 1
      BY <1>7, <2>1, <3>3 DEF Owed
    <3>5. /\ ~i.stale => Owed(u) <= Room(u) + 1
          /\ i.stale => Owed(u) <= Room(u)
      BY <2>1, <3>1, <3>2 DEF WithinAllowance
    <3>6. \A j \in Live' : j.url # u
      BY <1>6, <2>3
    <3>7. /\ Owed(u)' <= Room(u)' + 2
          /\ ~reg'[u].ingested \/ reg'[u].hash = Blank => Owed(u)' <= Room(u)' + 1
      BY <1>0, <1>1, <3>2, <3>4, <3>5
    <3> QED
      BY <1>0, <1>1, <1>5, <1>7, <2>1, <3>6, <3>7 DEF WithinAllowance
  <2> QED
    BY <2>2, <2>3
<1> QED
  BY <1>8, <1>11, <1>12 DEF Accounts

\* A batch that outlived its crawl writes what was accounted for when it was
\* orphaned.
LEMMA OrphanWriteAccounts ==
  ASSUME Sound, Places', NEW b \in Slots, WriteGroup(b), batch[b].orphan
  PROVE  Accounts'
<1> DEFINE cur == batch[b].cur
<1>1. /\ batch'[b].items = batch[b].items \ cur /\ batch'[b].cur = {}
      /\ batch'[b].orphan = batch[b].orphan
      /\ \A c \in Slots \ {b} : batch'[c] = batch[c]
      /\ cur \subseteq batch[b].items
      /\ faults' \in {faults, faults + 1} /\ faults \in Nat
      /\ UNCHANGED <<saved, reg, phase, pending, deleted, redirected, textLost>>
  <2>1. UNCHANGED <<saved, reg, phase, pending, deleted, redirected, textLost>>
    BY DEF WriteGroup, crawlVars
  <2>2. faults \in Nat
    BY SizeAssumption DEF Sound, Places, TypeOK
  <2> QED
    BY <2>1, <2>2, Written
<1>0. \A u \in Pages : Room(u) \in Nat /\ Room(u)' \in Nat /\ Room(u) <= Room(u)'
  BY <1>1, Lengths DEF Room, Sound, Urls
<1>2. \A u \in Urls : u \notin UrlsIn(cur) => index'[u] = index[u]
  BY Written
<1>3. ASSUME NEW i \in cur
      PROVE  /\ i.url \in Urls /\ i.hash \in Contents
             /\ index'[i.url] \in {index[i.url], Append(index[i.url], i.hash)}
  BY Written
<1>4. InCrawl' = InCrawl /\ b \notin InCrawl
  BY <1>1 DEF InCrawl
<1>5. Live' = Live /\ Cleared' = Cleared
  <2>1. \A c \in InCrawl : batch'[c] = batch[c]
    BY <1>1, <1>4 DEF InCrawl
  <2> QED
    BY <1>1, <1>4, <2>1 DEF Live, Cleared
<1>6. faults # 0 /\ faults' # 0
  BY <1>1 DEF Sound, Accounts, Backed
<1>7. EntriesSound' /\ ItemsSound' /\ Backed'
  BY <1>1, <1>5, <1>6 DEF Sound, Accounts, EntriesSound, ItemsSound, Backed
<1>8. \A u : Orphans(u)' \subseteq Orphans(u)
  BY <1>1 DEF Orphans, UrlsIn
<1>9. \A u \in UrlsIn(cur) : Orphans(u)' \subseteq Orphans(u) \ {b} /\ b \in Orphans(u)
  <2>1. \A i, j \in batch[b].items : i.url = j.url => i = j
    BY DEF Sound, Places, OnePlace
  <2>2. \A u \in UrlsIn(cur) : u \notin UrlsIn(batch'[b].items) /\ u \in UrlsIn(batch[b].items)
    BY <1>1, <2>1 DEF UrlsIn
  <2> QED
    BY <1>8, <2>2 DEF Orphans
<1>10. \A u \in UrlsIn(cur) : \E i \in cur : i.url = u
  BY DEF UrlsIn
<1> HIDE DEF cur
<1>11. Counted'
  <2> SUFFICES ASSUME NEW u \in Pages PROVE WithinAllowance(u)'
    BY DEF Counted
  <2>1. /\ WithinAllowance(u) /\ u \in Urls
        /\ index[u] \in Seq(Contents) /\ Len(index[u]) \in Nat
        /\ IsFiniteSet(Orphans(u)) /\ Cardinality(Orphans(u)) \in Nat
    BY Lengths, FS_CardinalityType DEF Sound, Accounts, Counted, Urls, WithinAllowance
  <2>2. /\ IsFiniteSet(Orphans(u)') /\ Cardinality(Orphans(u)') \in Nat
        /\ Cardinality(Orphans(u)') <= Cardinality(Orphans(u))
    BY <1>8, <2>1, FS_Subset, FS_CardinalityType
  <2>3. Owed(u)' \in Nat /\ Owed(u) \in Nat /\ Owed(u)' <= Owed(u)
    <3>1. CASE u \notin UrlsIn(cur)
      BY <1>2, <2>1, <2>2, <3>1 DEF Owed
    <3>2. CASE u \in UrlsIn(cur)
      <4>1. PICK i \in cur : i.url = u
        BY <1>10, <3>2
      <4>2. Len(index'[u]) \in Nat /\ Len(index'[u]) <= Len(index[u]) + 1
        BY <1>3, <2>1, <4>1, AppendedLast
      <4>3. /\ IsFiniteSet(Orphans(u) \ {b})
            /\ Cardinality(Orphans(u) \ {b}) = Cardinality(Orphans(u)) - 1
        BY <1>9, <2>1, <3>2, FS_RemoveElement
      <4>4. Cardinality(Orphans(u)') <= Cardinality(Orphans(u)) - 1
        BY <1>9, <3>2, <4>3, FS_Subset
      <4>5. \A m, n, k, l \in Nat : k <= m + 1 /\ l <= n - 1 => k + l <= m + n
        OBVIOUS
      <4>6. Len(index'[u]) + Cardinality(Orphans(u)')
               <= Len(index[u]) + Cardinality(Orphans(u))
        BY <2>1, <2>2, <4>2, <4>4, <4>5
      <4>7. /\ Len(index'[u]) + Cardinality(Orphans(u)') \in Nat
            /\ Len(index[u]) + Cardinality(Orphans(u)) \in Nat
        BY <2>1, <2>2, <4>2
      <4> QED
        BY <4>6, <4>7 DEF Owed
    <3> QED
      BY <3>1, <3>2
  <2> QED
    BY <1>0, <1>1, <1>5, <2>1, <2>2, <2>3 DEF WithinAllowance
<1> QED
  BY <1>7, <1>11 DEF Accounts

\* Batches that are given up, crawls that end without the registry written.
LEMMA GivenUpAccounts ==
  ASSUME Sound, Places',
         \/ DrainTimeout \/ Crash \/ \E b \in Slots : AbortBatch(b)
         \/ FinishCrawl /\ saved' = saved /\ Fault("save")
  PROVE  Accounts'
<1>1. /\ faults' = faults + 1 /\ index' = index /\ saved' = saved
      /\ textLost' = textLost
      /\ pending' \subseteq pending
      /\ redirected' \subseteq redirected /\ deleted' \subseteq deleted
      /\ phase' = "idle" => reg' = saved
  BY DEF DrainTimeout, Crash, AbortBatch, FinishCrawl, Fault, crawlVars, Sound,
     Accounts, EntriesSound
<1>2. \A b \in Slots : batch'[b] \in {batch[b], NoBatch}
  BY DEF DrainTimeout, Crash, AbortBatch, FinishCrawl, Sound, Places, TypeOK
<1>3. \A b \in Slots : /\ batch'[b].items \subseteq batch[b].items
                       /\ batch'[b].orphan => batch[b].orphan
                       /\ batch'[b].items # {} => batch'[b] = batch[b]
  BY <1>2 DEF NoBatch
<1>4. Live' \subseteq Live
  <2> SUFFICES ASSUME NEW i \in Live', i \notin pending PROVE i \in Live
    BY DEF Live
  <2>1. PICK b \in InCrawl' : i \in batch'[b].items
    BY <1>1 DEF Live
  <2>2. b \in Slots /\ ~batch'[b].orphan
    BY <2>1 DEF InCrawl
  <2>3. batch'[b] = batch[b]
    BY <1>3, <2>1, <2>2
  <2> QED
    BY <2>1, <2>2, <2>3 DEF Live, InCrawl
<1>5. \A u \in Pages : Orphans(u)' \subseteq Orphans(u)
  BY <1>3 DEF Orphans, UrlsIn
<1>6. \/ reg' = reg
      \/ reg' = saved /\ Live' = {} /\ redirected' = {} /\ deleted' = {}
  <2>1. CASE DrainTimeout \/ \E b \in Slots : AbortBatch(b)
    BY <2>1 DEF DrainTimeout, AbortBatch
  <2>2. CASE Crash
    <3>1. /\ reg' = saved /\ redirected' = {} /\ deleted' = {} /\ pending' = {}
          /\ \A b \in Slots : batch'[b].items = {}
      BY <2>2 DEF Crash, NoBatch
    <3> QED
      BY <3>1 DEF Live, InCrawl
  <2>3. CASE FinishCrawl /\ saved' = saved
    <3>1. Live = {}
      BY <2>3, LiveFacts DEF FinishCrawl, Sound
    <3> QED
      BY <1>4, <2>3, <3>1 DEF FinishCrawl
  <2> QED
    BY <2>1, <2>2, <2>3
<1> QED
  BY <1>1, <1>4, <1>5, <1>6, Dropped

\* Steps that are about something else than chunks and entries.
LEMMA QuietAccounts ==
  ASSUME Sound, Places',
         \/ StartCrawl \/ TakeRound \/ EndBfs \/ Drained \/ UNCHANGED vars
         \/ FinishCrawl /\ saved' = reg /\ UNCHANGED faults
         \/ \E u \in Urls : FetchFailed(u)
  PROVE  Accounts'
<1>1. UNCHANGED <<index, batch, pending, redirected, deleted, textLost>>
  BY DEF StartCrawl, TakeRound, EndBfs, Drained, FinishCrawl, FetchFailed, Take,
     vars
<1>2. /\ Live' = Live /\ Cleared' = Cleared
      /\ \A b \in Slots : batch'[b].orphan => batch[b].orphan
      /\ \A u \in Pages : Orphans(u)' = Orphans(u)
  BY <1>1, BatchesStay DEF Urls
<1>3. reg' = reg
  BY DEF StartCrawl, TakeRound, EndBfs, Drained, FinishCrawl, FetchFailed, Take,
     vars, Sound, Accounts, EntriesSound
<1>4. saved' \in {saved, reg} /\ (phase' = "idle" => reg' = saved')
  BY <1>3 DEF StartCrawl, TakeRound, EndBfs, Drained, FinishCrawl, FetchFailed, Take,
     vars, crawlVars, Sound, Accounts, EntriesSound
<1>5. faults' \in {faults, faults + 1}
  BY DEF StartCrawl, TakeRound, EndBfs, Drained, FinishCrawl, FetchFailed, Take,
     vars, Fault
<1>6. \A u \in deleted' : reg[u].ingested
  BY <1>1 DEF Sound, Accounts, EntriesSound
<1> QED
  BY <1>1, <1>2, <1>3, <1>4, <1>5, <1>6, Unmoved

LEMMA InitAccounts == Init => Accounts
<1> SUFFICES ASSUME Init PROVE Accounts
  OBVIOUS
<1>1. Live = {} /\ Cleared = {}
  BY DEF Init, Live, Cleared, InCrawl, NoBatch
<1>2. EntriesSound /\ ItemsSound
  BY <1>1 DEF Init, EntriesSound, ItemsSound, NoEntry
<1>3. Backed
  BY <1>1, ContentAssumption DEF Init, Backed, NoBatch, NoEntry
<1>4. ASSUME NEW u \in Pages PROVE WithinAllowance(u)
  <2>1. /\ Orphans(u) = {} /\ Len(index[u]) = 0 /\ faults = 0
        /\ textLost[u] = 0
    BY DEF Init, Orphans, NoBatch, Urls
  <2>2. IsFiniteSet(Orphans(u)) /\ Cardinality(Orphans(u)) = 0
    BY <2>1, FS_EmptySet
  <2> QED
    BY <1>1, <2>1, <2>2 DEF WithinAllowance, Owed, Room
<1> QED
  BY <1>2, <1>3, <1>4 DEF Accounts, Counted

LEMMA SoundStep == Sound /\ [Next]_vars => Sound'
<1> SUFFICES ASSUME Sound, [Next]_vars PROVE Accounts'
  BY PlacesStep DEF Sound
<1>1. Places'
  BY PlacesStep DEF Sound
<1>2. CASE Progress
  <2>1. CASE StartCrawl \/ TakeRound \/ EndBfs \/ Drained
    BY <1>1, <2>1, QuietAccounts
  <2>2. CASE FinishCrawl
    <3>1. \/ FinishCrawl /\ saved' = saved /\ Fault("save")
          \/ FinishCrawl /\ saved' = reg /\ UNCHANGED faults
      BY <2>2 DEF FinishCrawl
    <3> QED
      BY <1>1, <3>1, GivenUpAccounts, QuietAccounts
  <2>3. ASSUME NEW u \in Urls, Process(u) \/ PurgeRedirected(u) \/ PurgeDeleted(u)
        PROVE  Accounts'
    BY <1>1, <2>3, ProcessAccounts, PurgeAccounts
  <2>4. ASSUME NEW b \in Slots, Dispatch(b) \/ DeleteStale(b) \/ WriteGroup(b)
        PROVE  Accounts'
    BY <1>1, <2>4, DispatchAccounts, DeleteStaleAccounts, WriteAccounts,
       OrphanWriteAccounts
  <2> QED
    BY <1>2, <2>1, <2>2, <2>3, <2>4 DEF Progress
<1>3. CASE Failure
  BY <1>1, <1>3, GivenUpAccounts, CrawlErrorAccounts, QuietAccounts DEF Failure
<1>4. CASE UNCHANGED vars
  BY <1>1, <1>4, QuietAccounts
<1> QED
  BY <1>2, <1>3, <1>4 DEF Next

LEMMA SoundEver == Spec => []Sound
<1>1. Init => Sound
  BY PlacesStep, InitAccounts DEF Sound
<1> QED
  BY <1>1, SoundStep, PTL DEF Spec

LEMMA SoundBacks == Sound => RegistryBacked
<1> SUFFICES ASSUME Sound, phase = "idle", faults = 0, NEW u \in Urls,
                    saved[u].hash \in Contents \ {Blank}
             PROVE  index[u] # <<>> /\ index[u][Len(index[u])] = saved[u].hash
  BY DEF RegistryBacked
<1>1. u \notin UrlsIn(Live) /\ reg = saved
  BY LiveFacts DEF Sound, Accounts, EntriesSound, UrlsIn
<1> QED
  BY <1>1 DEF Sound, Accounts, Backed

\* What the registry file calls indexed is the newest generation in the index,
\* until the first failure; for any number of batches, collections and crawls,
\* and for pages that lose all their text too.
THEOREM SkippedIsThere == Spec => []RegistryBacked
BY SoundEver, SoundBacks, PTL

LEMMA SoundCounts ==
  ASSUME Sound
  PROVE  ExcessByFaults /\ EntryAccountsForIndex
<1> USE DEF Sound, Accounts
<1>1. ASSUME NEW u \in Pages
      PROVE  /\ WithinAllowance(u) /\ u \in Urls /\ faults \in Nat
             /\ Len(index[u]) \in Nat /\ Cardinality(Orphans(u)) \in Nat
             /\ Len(index[u]) <= Owed(u) /\ Owed(u) \in Nat
             /\ textLost[u] \in Nat /\ Room(u) = 2 * faults + textLost[u]
  <2>1. WithinAllowance(u) /\ u \in Urls /\ textLost[u] \in Nat
    BY Lengths DEF Counted, Urls
  <2>2. faults \in Nat /\ Len(index[u]) \in Nat /\ Cardinality(Orphans(u)) \in Nat
    BY <2>1, Lengths, FS_CardinalityType DEF WithinAllowance
  <2> QED
    BY <2>1, <2>2 DEF Owed, Room
<1>2. ExcessByFaults
  BY <1>1 DEF ExcessByFaults, WithinAllowance
<1>3. ASSUME faults = 0 PROVE EntryAccountsForIndex
  <2>1. InCrawl = Slots
    BY <1>3 DEF Backed, InCrawl
  <2>2. \A b \in Slots : batch[b].items \subseteq Live /\ batch[b].cur \subseteq Cleared
    BY <2>1 DEF Live, Cleared
  <2>3. pending \subseteq Live
    BY DEF Live
  <2>4. \A u \in Pages : /\ u \in redirected \cup deleted
                              => Len(index[u]) <= 2 + textLost[u]
                         /\ u \in deleted => reg[u].ingested
    BY <1>1, <1>3 DEF EntriesSound, WithinAllowance
  <2>5. ASSUME NEW u \in Pages, Settled(u)
        PROVE  Len(index[u]) <= textLost[u] +
                  (IF reg[u].ingested /\ reg[u].hash # Blank THEN 2 ELSE 1)
    <3>1. u \notin UrlsIn(Live) \cup redirected
      BY <2>5 DEF Settled, Live, InCrawl, UrlsIn
    <3> QED
      BY <1>1, <1>3, <3>1 DEF WithinAllowance
  <2>6. ASSUME NEW i \in Live PROVE Accounted(i, FALSE) /\ (i \in Cleared => Accounted(i, TRUE))
    <3> SUFFICES ASSUME i.url \in Pages
                 PROVE  /\ i.stale <=> ~reg[i.url].ingested
                        /\ ~i.stale => Len(index[i.url]) <= 1 + textLost[i.url]
                        /\ i.stale => Len(index[i.url]) <= 2 + textLost[i.url]
                        /\ i.stale /\ i \in Cleared
                             => Len(index[i.url]) <= 0 + textLost[i.url]
      BY DEF Accounted
    <3>1. i.stale <=> ~reg[i.url].ingested
      BY DEF ItemsSound
    <3>2. WithinAllowance(i.url) /\ Len(index[i.url]) <= Owed(i.url)
          /\ Len(index[i.url]) \in Nat /\ Owed(i.url) \in Nat
          /\ textLost[i.url] \in Nat /\ Room(i.url) = textLost[i.url]
      BY <1>1, <1>3
    <3> QED
      BY <1>3, <3>1, <3>2 DEF WithinAllowance
  <2>7. ASSUME NEW b \in Slots, NEW i \in batch[b].items
        PROVE  Accounted(i, i \in batch[b].cur)
    <3>1. CASE i \in batch[b].cur
      BY <2>2, <2>6, <3>1 DEF Accounted
    <3>2. CASE i \notin batch[b].cur
      BY <2>2, <2>6, <3>2 DEF Accounted
    <3> QED
      BY <3>1, <3>2
  <2> QED
    BY <2>3, <2>4, <2>5, <2>6, <2>7 DEF EntryAccountsForIndex
<1> QED
  BY <1>2, <1>3 DEF EntryAccountsForIndex

\* All that the runs check of the delta upsert, for every number of pages, of
\* concurrent batches, of crawls and of failures, and for pages that lose their
\* text: no more than two generations of a page are in the index, two for every
\* failure, and one for every time a crawl found it without text since its
\* chunks were last removed.
THEOREM SafetyHolds == Spec => []Safety
<1>1. Sound => Safety
  <2> SUFFICES ASSUME Sound PROVE Safety
    OBVIOUS
  <2>1. TypeOK /\ OnePlace /\ PhaseShape
    BY DEF Sound, Places
  <2>2. ExcessByFaults /\ EntryAccountsForIndex
    BY SoundCounts
  <2>3. RegistryBacked
    BY SoundBacks
  <2> QED
    BY <2>1, <2>2, <2>3 DEF Safety
<1> QED
  BY <1>1, SoundEver, PTL
=============================================================================
