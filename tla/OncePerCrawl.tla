---------------------------- MODULE OncePerCrawl ----------------------------
(* What the BFS of external/rag-crawler promises, whatever the order in    *)
(* which it takes URLs and whatever ends it: a crawl explores URLs it has  *)
(* discovered, each of them once, and discovers new ones only from the URL *)
(* it is looking at.                                                       *)
EXTENDS FiniteSets

CONSTANTS
    Pages,      \* URLs
    Roots       \* start_url, seed_urls and the pages of the sitemap

VARIABLES
    leads,      \* where each URL may lead: its links and its redirect
    running, discovered, explored

vars == <<leads, running, discovered, explored>>

Init ==
    /\ leads \in [Pages -> SUBSET Pages]
    /\ running = FALSE
    /\ discovered = {} /\ explored = {}

Begin ==
    /\ ~running
    /\ running' = TRUE
    /\ discovered' = Roots
    /\ explored' = {}
    /\ UNCHANGED leads

Explore(u) ==
    /\ running
    /\ u \in discovered \ explored
    /\ explored' = explored \cup {u}
    /\ UNCHANGED <<leads, running, discovered>>

Discover(u) ==
    /\ running
    /\ u \in explored
    /\ \E new \in SUBSET (leads[u] \ discovered) :
          discovered' = discovered \cup new
    /\ UNCHANGED <<leads, running, explored>>

\* The end of a crawl, also by a limit, a cancellation or a restart.
Stop ==
    /\ running
    /\ running' = FALSE
    /\ UNCHANGED <<leads, discovered, explored>>

Next == Begin \/ Stop \/ \E u \in Pages : Explore(u) \/ Discover(u)

Spec == Init /\ [][Next]_vars
=============================================================================
