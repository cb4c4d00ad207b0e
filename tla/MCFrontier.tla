----------------------------- MODULE MCFrontier -----------------------------
(* Small instances of Frontier for TLC.                                    *)
EXTENDS Frontier, TLC

CONSTANTS p1, p2, p3

OneSeed == <<p2>>
AnyLimits == {[max_pages |-> 99, max_depth |-> d] : d \in 0..1}
             \cup {[max_pages |-> 1, max_depth |-> 99]}

\* Any page may link to any others, in any order.
Orders(S) == {s \in UNION {[1..n -> S] : n \in 0..Cardinality(S)} :
                 \A i, j \in DOMAIN s : s[i] = s[j] => i = j}
PageAnswers(u) == {[kind |-> "page", hrefs |-> s] : s \in Orders(Pages \ {u})}
MovedAnswers(u) == {[kind |-> "moved", to |-> v] : v \in Pages \ {u}}
OtherAnswers == {[kind |-> "gone"], [kind |-> "other"]}
SitesFrom(A(_)) == {s \in [Pages -> UNION {A(u) : u \in Pages}] :
                       \A u \in Pages : s[u] \in A(u)}

AllSites ==
    LET A(u) == PageAnswers(u) \cup MovedAnswers(u) \cup OtherAnswers
    IN  SitesFrom(A)
=============================================================================
