----------------------------- MODULE CrawlDelta -----------------------------
(***************************************************************************)
(* The delta upsert of external/rag-crawler (crawl.py, es_client.py): how  *)
(* one crawl after another keeps an Elasticsearch index in step with a     *)
(* site, remembering in a URL registry what it has already indexed.        *)
(*                                                                         *)
(* Three copies of the same facts drift apart and are brought together     *)
(* again: what the site serves, what the registry says was indexed (reg in *)
(* memory, saved on disk) and what the index holds (index).  The owner of  *)
(* the site publishes, removes and moves pages at any time, so a URL may   *)
(* serve anything each time it is fetched.  A content stands for its       *)
(* sha256, and index[u] is the sequence of the generations of chunks       *)
(* present for u, in the order they were written: documents get automatic  *)
(* ids, so writing never replaces, only delete_by_source_uris removes, and *)
(* it removes all of them.                                                 *)
(*                                                                         *)
(* The order in which the BFS reaches the URLs is the business of          *)
(* Frontier.tla; here a crawl takes rounds out of the URLs left to visit.  *)
(***************************************************************************)
EXTENDS Naturals, Sequences, FiniteSets

CONSTANTS
    Pages,          \* HTML pages
    TextFiles,      \* linked .md / .rst / .txt files, indexed inline
    Contents,       \* what a URL may serve (stands for its hash)
    Blank,          \* the content from which no chunk is made
    NoHash,         \* content_hash of an entry that has none
    Validated,      \* text files whose server answers conditional GETs (304)
    Collections,    \* Elasticsearch indices
    HomeOf,         \* collection resolved from a URL itself
    TargetOf,       \* collection its chunks are written to
    Slots,          \* identities of embed batches (a bound of the model)
    MaxBatches,     \* max_concurrent_batches
    BatchSize,      \* batch_size, counted in URLs with chunks
    RoundWidth,     \* _FETCH_CONCURRENCY
    ForceModes,     \* the values of force_recrawl a crawl may be given
    Faults,         \* the kinds of failure that may happen
    MaxFaults,      \* how many of them (a bound of the model)
    MaxTextLost     \* how often a page is emptied (a bound of the model)

Urls == Pages \cup TextFiles

FaultKinds == {"fetch", "write", "delete", "abort", "drain", "stop",
               "error", "save", "crash"}

ASSUME ContentAssumption ==
    /\ NoHash \notin Contents
    /\ Pages \cap TextFiles = {}
    /\ Validated \subseteq TextFiles

ASSUME SizeAssumption ==
    /\ MaxBatches \in Nat \ {0}
    /\ BatchSize \in Nat \ {0}
    /\ RoundWidth \in Nat \ {0}
    /\ MaxFaults \in Nat
    /\ MaxTextLost \in Nat

ASSUME ModeAssumption ==
    /\ ForceModes \subseteq BOOLEAN
    /\ Faults \subseteq FaultKinds
    /\ HomeOf \in [Urls -> Collections]
    /\ TargetOf \in [Urls -> Collections]
    /\ \A u \in Pages : HomeOf[u] = TargetOf[u]

VARIABLES
    index,      \* generations of chunks in Elasticsearch, oldest first
    saved,      \* the registry file
    reg,        \* the registry of the running crawl
    phase,      \* where the crawl is
    force,      \* force_recrawl of the running crawl
    todo,       \* URLs the crawl has not taken yet
    round,      \* URLs fetched together and not processed yet
    pending,    \* chunks collected and not dispatched
    batch,      \* the embed-and-store tasks
    deleted,    \* deleted_urls
    redirected, \* redirected_urls
    faults,     \* failures so far
    textLost    \* history: how often a crawl found an indexed page without
                \* text since the chunks of that page were last removed

crawlVars == <<phase, force, todo, round>>
vars == <<index, saved, reg, crawlVars, pending, batch, deleted,
          redirected, faults, textLost>>

\* What the delta logic reads of a registry entry.  An absent entry and one
\* that only holds redirect_to read the same.
Entry == [hash : Contents \cup {NoHash}, ingested : BOOLEAN]
NoEntry == [hash |-> NoHash, ingested |-> FALSE]

\* All the chunks of one URL; stale says that the URL is in changed_urls.
Item == [url : Urls, hash : Contents, stale : BOOLEAN]
UrlsIn(items) == {i.url : i \in items}

\* items: not written yet; cur: the collection group whose stale chunks were
\* deleted and whose vectors are being computed; orphan: its crawl is over.
Batch == [items : SUBSET Item, cur : SUBSET Item, orphan : BOOLEAN]
NoBatch == [items |-> {}, cur |-> {}, orphan |-> FALSE]

Running(b) == batch[b].items # {}
InFlight == {b \in Slots : Running(b) /\ ~batch[b].orphan}

TypeOK ==
    /\ index \in [Urls -> Seq(Contents)]
    /\ saved \in [Urls -> Entry]
    /\ reg \in [Urls -> Entry]
    /\ phase \in {"idle", "bfs", "drain", "purge"}
    /\ force \in BOOLEAN
    /\ todo \subseteq Urls
    /\ round \subseteq Urls
    /\ pending \subseteq Item
    /\ batch \in [Slots -> Batch]
    /\ \A b \in Slots : batch[b].cur \subseteq batch[b].items
    /\ deleted \subseteq Urls
    /\ redirected \subseteq Urls
    /\ faults \in 0..MaxFaults
    /\ textLost \in [Pages -> Nat]

Init ==
    /\ index = [u \in Urls |-> <<>>]
    /\ saved = [u \in Urls |-> NoEntry]
    /\ reg = saved
    /\ phase = "idle"
    /\ force = FALSE
    /\ todo = {} /\ round = {} /\ pending = {}
    /\ batch = [b \in Slots |-> NoBatch]
    /\ deleted = {} /\ redirected = {}
    /\ faults = 0
    /\ textLost = [u \in Pages |-> 0]

Fault(kind) ==
    /\ kind \in Faults
    /\ faults < MaxFaults
    /\ faults' = faults + 1

-----------------------------------------------------------------------------
(* Phase 1: rounds of fetches.                                             *)

StartCrawl ==
    /\ phase = "idle"
    /\ phase' = "bfs"
    /\ force' \in ForceModes
    /\ reg' = saved
    /\ todo' = Urls
    /\ UNCHANGED <<index, saved, round, pending, batch, deleted,
                   redirected, faults, textLost>>

\* Mutant: the URLs taken are not marked visited.
MutTakeRound ==
    /\ phase = "bfs" /\ round = {}
    /\ Cardinality(pending) < BatchSize
    /\ \E R \in SUBSET todo :
          /\ R # {} /\ Cardinality(R) <= RoundWidth
          /\ round' = R
    /\ UNCHANGED <<index, saved, reg, phase, force, todo, pending, batch,
                   deleted, redirected, faults, textLost>>

\* A round starts once the previous one is processed and the chunks it left
\* are below the dispatch threshold.
TakeRound ==
    /\ phase = "bfs" /\ round = {}
    /\ Cardinality(pending) < BatchSize
    /\ \E R \in SUBSET todo :
          /\ R # {} /\ Cardinality(R) <= RoundWidth
          /\ round' = R
          /\ todo' = todo \ R
    /\ UNCHANGED <<index, saved, reg, phase, force, pending, batch,
                   deleted, redirected, faults, textLost>>

Take(u) ==
    /\ phase = "bfs" /\ u \in round
    /\ round' = round \ {u}
    /\ UNCHANGED <<index, saved, phase, force, todo, batch>>

\* 304, the same raw hash or the same rendered hash: u serves c again.
Unchanged(u, c) == ~force /\ reg[u].hash = c

\* Mutant: a forced crawl does not replace what is there.
MutIsChanged(u, c) ==
    reg[u].ingested /\ reg[u].hash # NoHash /\ reg[u].hash # c

\* The URL was indexed before and now has other content.
IsChanged(u, c) ==
    /\ reg[u].ingested
    /\ force \/ (reg[u].hash # NoHash /\ reg[u].hash # c)

Chunks(u, c, isStale) ==
    IF c = Blank THEN {} ELSE {[url |-> u, hash |-> c, stale |-> isStale]}

\* Only the entry changes then: the chunks of the text the page had stay.
LosesText(u, c) == IsChanged(u, c) /\ c = Blank /\ reg[u].hash # Blank

\* Whether the site may still be blank, in the bounds of the model.
MayServe(u, c) == c = Blank => textLost[u] < MaxTextLost

PageUnchanged(u) ==
    /\ Take(u)
    /\ u \in Pages /\ \E c \in Contents : Unchanged(u, c)
    /\ UNCHANGED <<reg, pending, deleted, redirected, faults, textLost>>

\* Mutant: the new entry never gets last_ingested.
MutPageIngested(u) ==
    /\ Take(u) /\ u \in Pages
    /\ \E c \in Contents :
          /\ ~Unchanged(u, c) /\ MayServe(u, c)
          /\ pending' = pending \cup Chunks(u, c, IsChanged(u, c))
          /\ reg' = [reg EXCEPT ![u] = [hash |-> c, ingested |-> FALSE]]
          /\ textLost' = [textLost EXCEPT
                            ![u] = IF LosesText(u, c) THEN @ + 1 ELSE @]
    /\ UNCHANGED <<deleted, redirected, faults>>

\* The entry is rebuilt from nothing: last_ingested is set only when the URL
\* was not a changed one.  A page may turn out to have no text.
PageIngested(u) ==
    /\ Take(u) /\ u \in Pages
    /\ \E c \in Contents :
          /\ ~Unchanged(u, c) /\ MayServe(u, c)
          /\ pending' = pending \cup Chunks(u, c, IsChanged(u, c))
          /\ reg' = [reg EXCEPT
                       ![u] = [hash |-> c, ingested |-> ~IsChanged(u, c)]]
          /\ textLost' = [textLost EXCEPT
                            ![u] = IF LosesText(u, c) THEN @ + 1 ELSE @]
    /\ UNCHANGED <<deleted, redirected, faults>>

\* The page redirects to another one.
PageMoved(u) ==
    /\ Take(u) /\ u \in Pages
    /\ redirected' = redirected \cup (IF reg[u].ingested THEN {u} ELSE {})
    /\ reg' = [reg EXCEPT ![u] = NoEntry]
    /\ UNCHANGED <<pending, deleted, faults, textLost>>

\* The URL answers 404 or 410.
UrlGone(u) ==
    /\ Take(u)
    /\ deleted' = deleted \cup (IF reg[u].ingested THEN {u} ELSE {})
    /\ UNCHANGED <<reg, pending, redirected, faults, textLost>>

\* A linked text file is skipped on 304 only: its hash is never compared.
TextUnchanged(u) ==
    /\ Take(u)
    /\ u \in Validated /\ \E c \in Contents : Unchanged(u, c)
    /\ UNCHANGED <<reg, pending, deleted, redirected, faults, textLost>>

\* It never enters changed_urls.
TextIngested(u) ==
    /\ Take(u) /\ u \in TextFiles
    /\ \E c \in Contents :
          /\ ~(u \in Validated /\ Unchanged(u, c))
          /\ pending' = pending \cup Chunks(u, c, FALSE)
          /\ reg' = [reg EXCEPT ![u] = [hash |-> c, ingested |-> TRUE]]
    /\ UNCHANGED <<deleted, redirected, faults, textLost>>

\* 5xx, a timeout, a wrong content type, an exception: only an error record.
FetchFailed(u) ==
    /\ Take(u)
    /\ Fault("fetch")
    /\ UNCHANGED <<reg, pending, deleted, redirected, textLost>>

-----------------------------------------------------------------------------
(* Dispatch: everything pending becomes one batch.  The registry is saved  *)
(* on the way, unless it was saved less than a minute ago.                 *)

Dispatch(b) ==
    /\ phase \in {"bfs", "drain"} /\ round = {}
    /\ pending # {}
    /\ phase = "bfs" => Cardinality(pending) >= BatchSize
    /\ Cardinality(InFlight) < MaxBatches
    /\ ~Running(b)
    /\ batch' = [batch EXCEPT ![b] =
                    [items |-> pending, cur |-> {}, orphan |-> FALSE]]
    /\ pending' = {}
    /\ saved' \in {saved, reg}
    /\ UNCHANGED <<index, reg, crawlVars, deleted, redirected, faults,
                   textLost>>

\* The BFS runs out of URLs, or stops early (cancelled, max_pages reached).
EndBfs ==
    /\ phase = "bfs" /\ round = {}
    /\ Cardinality(pending) < BatchSize
    /\ IF todo = {} THEN UNCHANGED faults ELSE Fault("stop")
    /\ phase' = "drain"
    /\ todo' = {}
    /\ UNCHANGED <<index, saved, reg, force, round, pending, batch,
                   deleted, redirected, textLost>>

-----------------------------------------------------------------------------
(* The embed-and-store tasks, concurrent with the crawl and one another.   *)
(* Each goes through its collections: delete the stale chunks, embed,      *)
(* bulk-write.                                                             *)

DeleteStale(b) ==
    /\ Running(b) /\ batch[b].cur = {}
    /\ \E c \in Collections :
          LET group == {i \in batch[b].items : TargetOf[i.url] = c}
              stale == UrlsIn({i \in group : i.stale})
          IN  /\ group # {}
              /\ batch' = [batch EXCEPT ![b].cur = group]
              /\ \/ /\ index' = [u \in Urls |->
                                    IF u \in stale THEN <<>> ELSE index[u]]
                    /\ textLost' = [u \in Pages |->
                                       IF u \in stale THEN 0 ELSE textLost[u]]
                    /\ UNCHANGED faults
                 \/ /\ stale # {} /\ Fault("delete")
                    /\ UNCHANGED <<index, textLost>>
    /\ UNCHANGED <<saved, reg, crawlVars, pending, deleted, redirected>>

\* Mutant: the group just written stays the current one.
MutWriteGroup(b) ==
    /\ Running(b) /\ batch[b].cur # {}
    /\ index' = [u \in Urls |->
          IF u \in UrlsIn(batch[b].cur)
          THEN Append(index[u], (CHOOSE i \in batch[b].cur : i.url = u).hash)
          ELSE index[u]]
    /\ batch' = [batch EXCEPT ![b].items = @ \ batch[b].cur]
    /\ UNCHANGED <<saved, reg, crawlVars, pending, deleted, redirected,
                   faults, textLost>>

\* Chunks without a vector and chunks the bulk request rejects are skipped.
WriteGroup(b) ==
    /\ Running(b) /\ batch[b].cur # {}
    /\ \E lost \in SUBSET batch[b].cur :
          /\ IF lost = {} THEN UNCHANGED faults ELSE Fault("write")
          /\ index' = [u \in Urls |->
                IF \E i \in batch[b].cur \ lost : i.url = u
                THEN Append(index[u],
                            (CHOOSE i \in batch[b].cur \ lost : i.url = u).hash)
                ELSE index[u]]
    /\ batch' = [batch EXCEPT ![b].items = @ \ batch[b].cur, ![b].cur = {}]
    /\ UNCHANGED <<saved, reg, crawlVars, pending, deleted, redirected,
                   textLost>>

\* The 300 s wait_for expires, or the task raises.
AbortBatch(b) ==
    /\ Running(b)
    /\ Fault("abort")
    /\ batch' = [batch EXCEPT ![b] = NoBatch]
    /\ UNCHANGED <<index, saved, reg, crawlVars, pending, deleted,
                   redirected, textLost>>

-----------------------------------------------------------------------------
(* Phase 2 and the finally block.                                          *)

\* Mutant: nobody waits for the batches.
MutDrained ==
    /\ phase = "drain" /\ pending = {}
    /\ phase' = "purge"
    /\ UNCHANGED <<index, saved, reg, force, todo, round, pending,
                   batch, deleted, redirected, faults, textLost>>

Drained ==
    /\ phase = "drain" /\ pending = {}
    /\ InFlight = {}
    /\ phase' = "purge"
    /\ UNCHANGED <<index, saved, reg, force, todo, round, pending,
                   batch, deleted, redirected, faults, textLost>>

\* The drain deadline: every batch still in flight is cancelled.
DrainTimeout ==
    /\ phase = "drain" /\ pending = {}
    /\ InFlight # {}
    /\ Fault("drain")
    /\ batch' = [b \in Slots |-> IF b \in InFlight THEN NoBatch ELSE batch[b]]
    /\ phase' = "purge"
    /\ UNCHANGED <<index, saved, reg, force, todo, round, pending,
                   deleted, redirected, textLost>>

Orphaned(B) == [items |-> B.items, cur |-> B.cur, orphan |-> TRUE]

\* An exception leaves the try block: the finally block runs at once, and
\* nobody waits for the batches any more.
CrawlError ==
    /\ phase \in {"bfs", "drain"}
    /\ Fault("error")
    /\ phase' = "purge"
    /\ todo' = {} /\ round' = {} /\ pending' = {}
    /\ batch' = [b \in Slots |->
                    IF Running(b) THEN Orphaned(batch[b]) ELSE batch[b]]
    /\ UNCHANGED <<index, saved, reg, force, deleted, redirected,
                   textLost>>

\* delete_by_source_uris looks in the collection resolved from the URL.
Purged(u) ==
    \/ /\ index' = [index EXCEPT
                        ![u] = IF HomeOf[u] = TargetOf[u] THEN <<>> ELSE @]
       /\ textLost' = [v \in Pages |-> IF v = u THEN 0 ELSE textLost[v]]
       /\ UNCHANGED faults
    \/ /\ Fault("delete")
       /\ UNCHANGED <<index, textLost>>

PurgeRedirected(u) ==
    /\ phase = "purge" /\ u \in redirected
    /\ Purged(u)
    /\ redirected' = redirected \ {u}
    /\ UNCHANGED <<saved, reg, crawlVars, pending, batch, deleted>>

\* The entry leaves the registry whatever became of the chunks.
PurgeDeleted(u) ==
    /\ phase = "purge" /\ redirected = {} /\ u \in deleted
    /\ Purged(u)
    /\ deleted' = deleted \ {u}
    /\ reg' = [reg EXCEPT ![u] = NoEntry]
    /\ UNCHANGED <<saved, crawlVars, pending, batch, redirected>>

FinishCrawl ==
    /\ phase = "purge" /\ redirected = {} /\ deleted = {}
    /\ \/ saved' = reg /\ UNCHANGED faults
       \/ saved' = saved /\ Fault("save")
    /\ reg' = saved'
    /\ phase' = "idle"
    /\ UNCHANGED <<index, force, todo, round, pending, batch, deleted,
                   redirected, textLost>>

-----------------------------------------------------------------------------
\* The pod restarts: only the index and the registry file survive.
Crash ==
    /\ Fault("crash")
    /\ phase # "idle" \/ \E b \in Slots : Running(b)
    /\ phase' = "idle"
    /\ reg' = saved
    /\ todo' = {} /\ round' = {} /\ pending' = {}
    /\ batch' = [b \in Slots |-> NoBatch]
    /\ deleted' = {} /\ redirected' = {}
    /\ UNCHANGED <<index, saved, force, textLost>>

Process(u) ==
    \/ PageUnchanged(u) \/ PageIngested(u) \/ PageMoved(u) \/ UrlGone(u)
    \/ TextUnchanged(u) \/ TextIngested(u)

\* What the crawler does when nothing goes wrong.
Progress ==
    \/ StartCrawl \/ TakeRound \/ EndBfs \/ Drained \/ FinishCrawl
    \/ \E u \in Urls : Process(u) \/ PurgeRedirected(u) \/ PurgeDeleted(u)
    \/ \E b \in Slots : Dispatch(b) \/ DeleteStale(b) \/ WriteGroup(b)

Failure ==
    \/ DrainTimeout \/ CrawlError \/ Crash
    \/ \E u \in Urls : FetchFailed(u)
    \/ \E b \in Slots : AbortBatch(b)

Next == Progress \/ Failure

\* The scheduler keeps starting crawls, and every await of a crawl ends: each
\* fetch, delete, embed and bulk request has a timeout.
Spec == Init /\ [][Next]_vars /\ WF_vars(Progress)

-----------------------------------------------------------------------------
(* Properties.                                                             *)

\* What chunks of a page may pile up.  The registry entry of a changed page loses
\* last_ingested (crawl.py 990-1002), so the next change of that page is not
\* treated as a change and its old chunks stay; but that very step sets
\* last_ingested again.  A page that keeps its text therefore never has more
\* than two generations in the index, whatever the order of changes, removals,
\* moves and forced crawls.  A failed delete, a lost registry save, a crash or a
\* batch that outlives its crawl may each leave at most two more behind, and so
\* does every time the page loses its text: then (986-1002) its old chunks are
\* not deleted, its entry loses last_ingested all the same, and what it leaves
\* stays until the next change that replaces it, one generation each time.
ExcessByFaults ==
    \A u \in Pages : Len(index[u]) <= 2 + 2 * faults + textLost[u]

\* Why: last_ingested is a promise about the index.  Until the first failure,
\* an entry without it, or without text, accounts for at most one generation
\* (and one for every time the text was lost); chunks on their way either
\* replace what is there (stale) or find no more than that; a URL to be purged
\* because it is gone still has its last_ingested.
Settled(u) ==
    /\ u \notin UrlsIn(pending) \cup redirected \cup deleted
    /\ \A b \in Slots : u \notin UrlsIn(batch[b].items)

Accounted(i, cleared) ==
    i.url \in Pages =>
       /\ i.stale <=> ~reg[i.url].ingested
       /\ ~i.stale => Len(index[i.url]) <= 1 + textLost[i.url]
       /\ i.stale => Len(index[i.url])
                        <= (IF cleared THEN 0 ELSE 2) + textLost[i.url]

EntryAccountsForIndex ==
  faults = 0 =>
    /\ \A u \in Pages :
          /\ Settled(u) => Len(index[u]) <= textLost[u] +
                (IF reg[u].ingested /\ reg[u].hash # Blank THEN 2 ELSE 1)
          /\ u \in redirected \cup deleted => Len(index[u]) <= 2 + textLost[u]
          /\ u \in deleted => reg[u].ingested
    /\ \A i \in pending : Accounted(i, FALSE)
    /\ \A b \in Slots : \A i \in batch[b].items : Accounted(i, i \in batch[b].cur)

\* What the registry file says was indexed is the newest generation in the
\* index: a page skipped as unchanged (304 or equal hash) is really there.
\* Between two crawls, until the first failure, for every URL with text.
RegistryBacked ==
    phase = "idle" /\ faults = 0 =>
       \A u \in Urls :
          saved[u].hash \in Contents \ {Blank} =>
             /\ index[u] # <<>>
             /\ index[u][Len(index[u])] = saved[u].hash

\* A crawl has each URL in one place at most: to be visited, fetched, pending,
\* in one batch, or to be purged.  This is what keeps delete_by_source_uris
\* from removing chunks the same crawl has written: a second batch with
\* chunks of a changed URL, or the purge, would erase the first one's work.
InBatch(b) == IF batch[b].orphan THEN {} ELSE UrlsIn(batch[b].items)
OnePlace ==
    /\ todo \cap round = {}
    /\ UrlsIn(pending) \cap (todo \cup round) = {}
    /\ \A i, j \in pending : i.url = j.url => i = j
    /\ \A b \in Slots :
          /\ InBatch(b) \cap (todo \cup round \cup UrlsIn(pending)) = {}
          /\ \A i, j \in batch[b].items : i.url = j.url => i = j
          /\ \A c \in Slots \ {b} : InBatch(b) \cap InBatch(c) = {}
    /\ (deleted \cup redirected) \cap
          (todo \cup round \cup UrlsIn(pending) \cup UNION {InBatch(b) : b \in Slots}) = {}
    /\ deleted \cap redirected = {}

\* Which of these places a phase may use at all.
PhaseShape ==
    /\ phase = "idle" => deleted = {} /\ redirected = {}
    /\ phase # "bfs" => todo = {} /\ round = {}
    /\ phase \in {"idle", "purge"} => pending = {} /\ \A b \in Slots : InBatch(b) = {}

\* The invariants above at once.
Safety ==
    TypeOK /\ OnePlace /\ PhaseShape /\ ExcessByFaults /\ EntryAccountsForIndex /\ RegistryBacked
=============================================================================
