---------------------------- MODULE MCCrawlDelta ----------------------------
(* Small instances of CrawlDelta for TLC.                                  *)
EXTENDS CrawlDelta, TLC

CONSTANTS p1, p2, t1, v1, v2, blank, b1, b2, home, other,
    MaxGenerations  \* how many generations of a text file a run goes on with

OneCollection == [u \in Urls |-> home]
\* A text file on another host: its chunks go to the collection of the page
\* that links to it.
TextElsewhere == [u \in Urls |-> IF u \in TextFiles THEN other ELSE home]
Symmetric == Permutations({v1, v2}) \cup Permutations({b1, b2})

\* The chunks of a text file pile up; a run is cut there.
IndexBound == \A u \in TextFiles : Len(index[u]) <= MaxGenerations

\* So is a run where a batch outlives its crawl, at a forced crawl, a page that
\* loses its text and the second generation of a text file, while it lives.
OrphanBound ==
    (\E b \in Slots : batch[b].orphan) =>
        /\ ~force
        /\ \A u \in Pages : textLost[u] = 0
        /\ \A u \in TextFiles : Len(index[u]) <= 1
=============================================================================
