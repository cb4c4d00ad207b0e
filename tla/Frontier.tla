------------------------------ MODULE Frontier ------------------------------
(***************************************************************************)
(* The breadth-first search of external/rag-crawler (crawl.py): which URLs *)
(* a crawl fetches, in which order and at which depth, when it stops, and  *)
(* what the two files that outlive it (the URL registry and the error      *)
(* matrix) make the next crawl do.                                         *)
(*                                                                         *)
(* The site does not change here (CrawlDelta.tla is about a changing one), *)
(* so a page the registry knows is an unchanged page.  Its links come in   *)
(* the order of the document, each of them once.                           *)
(***************************************************************************)
EXTENDS Naturals, Sequences, FiniteSets

CONSTANTS
    Pages,          \* HTML pages
    Start,          \* start_url
    Seeds,          \* seed_urls and sitemap pages, in order
    Allowed,        \* same host, inside the prefixes and not blocked
    Sites,          \* the sites considered, see Answer
    Validating,     \* pages whose server answers conditional GETs (304)
    FetchConcurrency,
    ForceModes,     \* the values of force_recrawl a crawl may be given
    Limits,         \* the limits it may be given (beyond any crawl: null)
    Events,         \* which of "flaky", "cancel", "crash" may happen
    MaxEvents,      \* how many of them (a bound of the model)
    MaxCrawls       \* how many crawls (a bound of the model)

\* What a URL answers: a page and its links, a redirect, 404/410, or a body
\* that is not HTML.
Answer ==
    [kind : {"page"}, hrefs : Seq(Pages)] \cup [kind : {"moved"}, to : Pages]
        \cup [kind : {"gone", "other"}]

ASSUME RootAssumption ==
    /\ Start \in Pages
    /\ Seeds \in Seq(Pages)
    /\ \A i \in DOMAIN Seeds :
          /\ Seeds[i] \in Allowed \ {Start}
          /\ \A j \in DOMAIN Seeds : Seeds[i] = Seeds[j] => i = j

ASSUME SiteAssumption ==
    /\ Allowed \subseteq Pages
    /\ Validating \subseteq Pages
    /\ Sites \subseteq [Pages -> Answer]
    /\ \A s \in Sites : \A u \in Pages : s[u].kind = "page" =>
          \A i, j \in DOMAIN s[u].hrefs : s[u].hrefs[i] = s[u].hrefs[j] => i = j

ASSUME LimitAssumption ==
    /\ Limits \subseteq [max_pages : Nat \ {0}, max_depth : Nat]
    /\ FetchConcurrency \in Nat \ {0}
    /\ MaxEvents \in Nat /\ MaxCrawls \in Nat
    /\ ForceModes \subseteq BOOLEAN
    /\ Events \subseteq {"flaky", "cancel", "crash"}

VARIABLES
    site,           \* what each URL answers
    saved,          \* URLs with an entry in the registry file
    matrix,         \* broken_links of the error matrix file
    phase,          \* where the crawl is
    force,          \* force_recrawl of this crawl
    limits,         \* its max_pages and max_depth
    registry,       \* URLs with an entry in the registry of this crawl
    known_errors,   \* the error matrix as this crawl found it
    errors,         \* URLs this crawl reports as broken links
    queue,          \* URLs to fetch, with their depths
    queued_html,    \* URLs that have ever been in the queue
    visited_html,   \* URLs taken out of it
    to_fetch,       \* the round being fetched, then processed in this order
    pages_crawled,
    cancelled,      \* the cancel flag of the task
    read,           \* pages whose links this crawl has followed (history)
    depths,         \* the depth at which each URL was taken (history)
    events,
    crawls

files == <<saved, matrix>>
crawlVars == <<force, limits, registry, known_errors, errors, queue, queued_html,
               visited_html, to_fetch, pages_crawled, read, depths>>
bounds == <<events, crawls>>
vars == <<site, files, phase, cancelled, crawlVars, bounds>>

Item == [url : Pages, depth : Nat]
UrlsOf(q) == {q[i].url : i \in DOMAIN q}

TypeOK ==
    /\ site \in Sites
    /\ saved \subseteq Pages /\ matrix \subseteq Pages
    /\ phase \in {"idle", "loop", "fill", "process", "done"}
    /\ force \in BOOLEAN /\ cancelled \in BOOLEAN
    /\ limits \in Limits
    /\ registry \subseteq Pages
    /\ known_errors \subseteq Pages /\ errors \subseteq Pages
    /\ queue \in Seq(Item) /\ to_fetch \in Seq(Item)
    /\ queued_html \subseteq Pages /\ visited_html \subseteq Pages
    /\ pages_crawled \in Nat
    /\ read \subseteq Pages
    /\ depths \in [visited_html -> Nat]
    /\ events \in 0..MaxEvents /\ crawls \in 0..MaxCrawls

Init ==
    /\ site \in Sites
    /\ saved = {} /\ matrix = {}
    /\ phase = "idle"
    /\ force = FALSE /\ cancelled = FALSE
    /\ limits \in Limits
    /\ registry = {} /\ known_errors = {} /\ errors = {}
    /\ queue = <<>> /\ to_fetch = <<>>
    /\ queued_html = {} /\ visited_html = {}
    /\ pages_crawled = 0
    /\ read = {} /\ depths = [u \in {} |-> 0]
    /\ events = 0 /\ crawls = 0

Event(e) ==
    /\ e \in Events
    /\ events < MaxEvents
    /\ events' = events + 1
    /\ UNCHANGED crawls

-----------------------------------------------------------------------------
At(u, d) == [url |-> u, depth |-> d]

\* Mutant: the URLs of the last crawl stay visited.
MutStartCrawl ==
    /\ phase \in {"idle", "done"}
    /\ crawls < MaxCrawls
    /\ crawls' = crawls + 1
    /\ phase' = "loop"
    /\ cancelled' = FALSE
    /\ force' \in ForceModes /\ limits' \in Limits
    /\ registry' = saved
    /\ known_errors' = IF force' THEN {} ELSE matrix
    /\ errors' = {}
    /\ queue' = <<At(Start, 0)>> \o [i \in DOMAIN Seeds |-> At(Seeds[i], 0)]
    /\ queued_html' = UrlsOf(queue')
    /\ to_fetch' = <<>>
    /\ pages_crawled' = 0
    /\ read' = {} /\ depths' = [u \in {} |-> 0]
    /\ UNCHANGED <<site, files, visited_html, events>>

\* The registry and the error matrix are loaded; a forced crawl ignores the
\* matrix.  A cancel request left by somebody is cleared.
StartCrawl ==
    /\ phase \in {"idle", "done"}
    /\ crawls < MaxCrawls
    /\ crawls' = crawls + 1
    /\ phase' = "loop"
    /\ cancelled' = FALSE
    /\ force' \in ForceModes /\ limits' \in Limits
    /\ registry' = saved
    /\ known_errors' = IF force' THEN {} ELSE matrix
    /\ errors' = {}
    /\ queue' = <<At(Start, 0)>> \o [i \in DOMAIN Seeds |-> At(Seeds[i], 0)]
    /\ queued_html' = UrlsOf(queue')
    /\ visited_html' = {} /\ to_fetch' = <<>>
    /\ pages_crawled' = 0
    /\ read' = {} /\ depths' = [u \in {} |-> 0]
    /\ UNCHANGED <<site, files, events>>

\* Mutant: the page limit is only looked at where links are queued.
MutContinue == queue # <<>> /\ ~cancelled

\* The while condition and the cancel check.
Continue == queue # <<>> /\ pages_crawled < limits.max_pages /\ ~cancelled

BeginRound ==
    /\ phase = "loop" /\ Continue
    /\ phase' = "fill"
    /\ UNCHANGED <<site, files, cancelled, crawlVars, bounds>>

PopUrl ==
    /\ phase = "fill"
    /\ queue # <<>> /\ Len(to_fetch) < FetchConcurrency
    /\ LET item == Head(queue) IN
          IF item.url \in visited_html
          THEN UNCHANGED <<visited_html, to_fetch, depths>>
          ELSE /\ visited_html' = visited_html \cup {item.url}
               /\ to_fetch' = Append(to_fetch, item)
               /\ depths' = [u \in visited_html' |->
                                IF u = item.url THEN item.depth ELSE depths[u]]
    /\ queue' = Tail(queue)
    /\ UNCHANGED <<site, files, phase, force, limits, registry, known_errors, errors,
                   queued_html, pages_crawled, cancelled, read, bounds>>

\* Mutant: the round is filled up although nothing is left to fetch.
MutFetch ==
    /\ phase = "fill"
    /\ Len(to_fetch) = FetchConcurrency
    /\ phase' = "process"
    /\ UNCHANGED <<site, files, cancelled, crawlVars, bounds>>

\* gather() brings the answers of the whole round; a round that is empty ends
\* the crawl.
Fetch ==
    /\ phase = "fill"
    /\ queue = <<>> \/ Len(to_fetch) = FetchConcurrency
    /\ phase' = IF to_fetch = <<>> THEN "loop" ELSE "process"
    /\ UNCHANGED <<site, files, cancelled, crawlVars, bounds>>

-----------------------------------------------------------------------------
(* One answer after the other, in the order of the round.                  *)

Answered(u) ==
    /\ phase = "process"
    /\ to_fetch # <<>> /\ Head(to_fetch).url = u
    /\ to_fetch' = Tail(to_fetch)
    /\ UNCHANGED <<site, files, phase, force, limits, known_errors, visited_html,
                   cancelled, depths>>

\* The entry has an ETag and a hash, and a forced crawl does not use them.
Recorded(u) == ~force /\ u \in registry

\* Mutant: what waits in the queue already is queued again.
MutFollowable(v, depth) ==
    /\ v \in Allowed
    /\ v \notin visited_html \cup known_errors
    /\ pages_crawled' < limits.max_pages
    /\ depth <= limits.max_depth

\* Mutant: off by one at the depth limit.
MutDepthFollowable(v, depth) ==
    /\ v \in Allowed
    /\ v \notin visited_html \cup queued_html \cup known_errors
    /\ pages_crawled' < limits.max_pages
    /\ depth < limits.max_depth

Followable(v, depth) ==
    /\ v \in Allowed
    /\ v \notin visited_html \cup queued_html \cup known_errors
    /\ pages_crawled' < limits.max_pages
    /\ depth <= limits.max_depth

\* Positions one after the other: the only element of Ascending(F) is F in order.
Ascending(F) ==
    {f \in [1..Cardinality(F) -> F] :
        \A i, j \in 1..Cardinality(F) : i < j => f[i] < f[j]}

\* The positions of the links of u to follow.
FreshLinks(u, depth) ==
    {i \in 1..Len(site[u].hrefs) : Followable(site[u].hrefs[i], depth)}

\* Mutant: the links get the depth of the page.
MutFollowLinks(u) ==
    LET depth == Head(to_fetch).depth
        hrefs == site[u].hrefs
        fresh == FreshLinks(u, depth)
    IN  /\ \E order \in Ascending(fresh) :
              queue' = queue \o
                       [i \in 1..Cardinality(fresh) |-> At(hrefs[order[i]], depth)]
        /\ queued_html' = queued_html \cup {hrefs[i] : i \in fresh}
        /\ read' = read \cup {u}

\* They go to the end of the queue, in the order of the document.
FollowLinks(u) ==
    LET depth == Head(to_fetch).depth + 1
        hrefs == site[u].hrefs
        fresh == FreshLinks(u, depth)
    IN  /\ \E order \in Ascending(fresh) :
              queue' = queue \o
                       [i \in 1..Cardinality(fresh) |-> At(hrefs[order[i]], depth)]
        /\ queued_html' = queued_html \cup {hrefs[i] : i \in fresh}
        /\ read' = read \cup {u}

\* 304: counted, and nothing else.
NotModified(u) ==
    /\ Answered(u)
    /\ site[u].kind = "page" /\ Recorded(u) /\ u \in Validating
    /\ pages_crawled' = pages_crawled + 1
    /\ UNCHANGED <<registry, errors, queue, queued_html, read, bounds>>

\* The same content: the links come from the registry entry.
Unchanged(u) ==
    /\ Answered(u)
    /\ site[u].kind = "page" /\ Recorded(u) /\ u \notin Validating
    /\ pages_crawled' = pages_crawled + 1
    /\ FollowLinks(u)
    /\ UNCHANGED <<registry, errors, bounds>>

Collected(u) ==
    /\ Answered(u)
    /\ site[u].kind = "page" /\ ~Recorded(u)
    /\ pages_crawled' = pages_crawled + 1
    /\ FollowLinks(u)
    /\ registry' = registry \cup {u}
    /\ UNCHANGED <<errors, bounds>>

\* Mutant: the redirect is taken back from the depth, which gets below 0.
MutRedirected(u) ==
    /\ Answered(u)
    /\ site[u].kind = "moved"
    /\ pages_crawled' = pages_crawled + 1
    /\ LET v == site[u].to
           depth == Head(to_fetch).depth - 1
           fresh == /\ v \in Allowed \ (visited_html \cup queued_html)
                    /\ depth + 1 <= limits.max_depth
       IN  /\ queue' = (IF fresh THEN <<At(v, depth)>> ELSE <<>>) \o queue
           /\ queued_html' = queued_html \cup (IF fresh THEN {v} ELSE {})
    /\ registry' = registry \ {u}
    /\ UNCHANGED <<errors, read, bounds>>

\* The target goes to the front, at the depth of the URL that led there; the
\* error matrix and the page limit are not looked at.
Redirected(u) ==
    /\ Answered(u)
    /\ site[u].kind = "moved"
    /\ pages_crawled' = pages_crawled + 1
    /\ LET v == site[u].to
           depth == Head(to_fetch).depth
           fresh == /\ v \in Allowed \ (visited_html \cup queued_html)
                    /\ depth + 1 <= limits.max_depth
       IN  /\ queue' = (IF fresh THEN <<At(v, depth)>> ELSE <<>>) \o queue
           /\ queued_html' = queued_html \cup (IF fresh THEN {v} ELSE {})
    /\ registry' = registry \ {u}
    /\ UNCHANGED <<errors, read, bounds>>

Gone(u) ==
    /\ Answered(u)
    /\ site[u].kind = "gone"
    /\ errors' = errors \cup {u}
    /\ UNCHANGED <<registry, queue, queued_html, pages_crawled, read, bounds>>

\* Another content type: no error is recorded.
NotHtml(u) ==
    /\ Answered(u)
    /\ site[u].kind = "other"
    /\ UNCHANGED <<registry, errors, queue, queued_html, pages_crawled, read,
                   bounds>>

\* 5xx, a timeout or an exception.
Flaky(u) ==
    /\ Answered(u)
    /\ Event("flaky")
    /\ errors' = errors \cup {u}
    /\ UNCHANGED <<registry, queue, queued_html, pages_crawled, read>>

\* A dispatch may follow the round: it writes the error matrix, and the
\* registry unless it was written less than a minute ago.
EndRound ==
    /\ phase = "process" /\ to_fetch = <<>>
    /\ phase' = "loop"
    /\ \/ UNCHANGED files
       \/ matrix' = errors /\ saved' \in {saved, registry}
    /\ UNCHANGED <<site, cancelled, crawlVars, bounds>>

\* Mutant: the error matrix is added to the old one.
MutFinishCrawl ==
    /\ phase = "loop" /\ ~Continue
    /\ phase' = "done"
    /\ saved' = registry
    /\ matrix' = errors \cup known_errors
    /\ UNCHANGED <<site, cancelled, crawlVars, bounds>>

FinishCrawl ==
    /\ phase = "loop" /\ ~Continue
    /\ phase' = "done"
    /\ saved' = registry
    /\ matrix' = errors
    /\ UNCHANGED <<site, cancelled, crawlVars, bounds>>

-----------------------------------------------------------------------------
RequestCancel ==
    /\ phase \in {"loop", "fill", "process"} /\ ~cancelled
    /\ Event("cancel")
    /\ cancelled' = TRUE
    /\ UNCHANGED <<site, files, phase, crawlVars>>

\* The pod restarts: the two files are what remains.
Crash ==
    /\ phase \in {"loop", "fill", "process"}
    /\ Event("crash")
    /\ phase' = "idle"
    /\ UNCHANGED <<site, files, cancelled, crawlVars>>

Process(u) ==
    \/ NotModified(u) \/ Unchanged(u) \/ Collected(u) \/ Redirected(u)
    \/ Gone(u) \/ NotHtml(u)

Crawling ==
    \/ BeginRound \/ PopUrl \/ Fetch \/ EndRound \/ FinishCrawl
    \/ \E u \in Pages : Process(u)

Next ==
    \/ StartCrawl \/ Crawling \/ RequestCancel \/ Crash
    \/ \E u \in Pages : Flaky(u)

\* Every fetch has a timeout, so a round always gets its answers.
Spec == Init /\ [][Next]_vars /\ WF_vars(Crawling)

-----------------------------------------------------------------------------
(* Properties.                                                             *)

\* Where a URL may lead: its links, or its redirect.
LeadsOf(u) ==
    CASE site[u].kind = "page" -> {site[u].hrefs[i] : i \in DOMAIN site[u].hrefs}
      [] site[u].kind = "moved" -> {site[u].to}
      [] OTHER -> {}

\* Whatever the order of the queue and the limits, a crawl explores the URLs it
\* has discovered, each once, and discovers them only where a link or a redirect
\* of the URL it is looking at leads: it implements OncePerCrawl.
Abstract == INSTANCE OncePerCrawl WITH
    Roots <- {Start} \cup {Seeds[i] : i \in DOMAIN Seeds},
    leads <- [u \in Pages |-> LeadsOf(u)],
    running <- phase \in {"loop", "fill", "process"},
    discovered <- queued_html,
    explored <- visited_html
ExploresOnce == Abstract!Spec

\* A URL enters the queue once in a crawl and is taken once: the queue, the
\* round and the URLs processed never share one, although links, seeds and
\* redirects all add to the queue and guard it with different conditions.
QueuedOnce ==
    /\ UrlsOf(queue) \cap visited_html = {}
    /\ UrlsOf(queue) \cup visited_html = queued_html
    /\ Cardinality(UrlsOf(queue)) = Len(queue)
    /\ Cardinality(UrlsOf(to_fetch)) = Len(to_fetch)

\* max_pages is looked at between rounds, so that one round at most goes
\* beyond it.
PagesBounded == pages_crawled <= limits.max_pages + FetchConcurrency - 1

\* The crawl depth of a page (crawl_depth of its chunks, and what max_depth
\* cuts) is its distance from the roots over the pages that were read, on a
\* site without redirects, which add a URL at the same depth: fetching in
\* rounds does not disturb the breadth-first order.
Within[k \in Nat] ==
    IF k = 0 THEN {Start} \cup {Seeds[i] : i \in DOMAIN Seeds}
    ELSE Within[k - 1] \cup
         {v \in Pages : \E u \in Within[k - 1] \cap read :
                           \E i \in DOMAIN site[u].hrefs : v = site[u].hrefs[i]}

DepthIsDistance ==
    (\A u \in Pages : site[u].kind # "moved") => \A u \in visited_html :
        \A k \in 0..depths[u] : u \in Within[k] <=> k = depths[u]

\* A crawl that was not cancelled and did not meet its limits has fetched all
\* that the pages it read link to, except known broken links.
Exhaustive ==
    phase = "done" /\ ~cancelled /\ pages_crawled < limits.max_pages =>
        \A u \in read : \A v \in (LeadsOf(u) \cap Allowed) \ known_errors :
            v \in visited_html \/ depths[u] + 1 > limits.max_depth

\* A broken link is left out by one crawl at most: the crawl that leaves it
\* out does not list it again, so the next one tries it.
SkippedOnce ==
    phase = "done" => matrix \cap known_errors \subseteq visited_html

\* The invariants above at once.
Safety ==
    TypeOK /\ QueuedOnce /\ PagesBounded /\ DepthIsDistance /\ Exhaustive /\ SkippedOnce

\* Every crawl ends, on any graph of links and redirects.
CrawlEnds == phase = "loop" ~> phase \in {"done", "idle"}
=============================================================================
