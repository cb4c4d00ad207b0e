--------------------------- MODULE Frontier_proofs ---------------------------
(* Theorems about Frontier: the search implements OncePerCrawl, a URL is   *)
(* queued and taken once, at its distance from the seeds, and no round     *)
(* goes beyond the page limit by more than itself; for any site, seeds,    *)
(* limits and concurrency, any failures and any number of crawls.          *)
EXTENDS Frontier, FiniteSetTheorems, SequenceTheorems, WellFoundedInduction, TLAPS

USE DEF UrlsOf, At

-----------------------------------------------------------------------------
(* Queues without repetition.                                              *)

Distinct(q) == \A i, j \in DOMAIN q : q[i].url = q[j].url => i = j

LEMMA TailUrls ==
  ASSUME NEW q \in Seq(Item), q # <<>>
  PROVE  /\ Tail(q) \in Seq(Item) /\ Len(Tail(q)) = Len(q) - 1
         /\ Head(q) \in Item
         /\ UrlsOf(q) = {Head(q).url} \cup UrlsOf(Tail(q))
         /\ Distinct(q) => Distinct(Tail(q)) /\ Head(q).url \notin UrlsOf(Tail(q))
<1>1. Tail(q) \in Seq(Item) /\ Len(Tail(q)) = Len(q) - 1 /\ Len(q) > 0
  BY EmptySeq
<1>2. \A i \in 1..Len(Tail(q)) : Tail(q)[i] = q[i + 1] /\ i + 1 \in DOMAIN q
  BY <1>1
<1>3. Head(q) = q[1] /\ 1 \in DOMAIN q /\ q[1] \in Item
  BY <1>1
<1>4. \A i \in DOMAIN q : i = 1 \/ \E j \in DOMAIN Tail(q) : Tail(q)[j] = q[i]
  <2>1. ASSUME NEW i \in DOMAIN q, i # 1
        PROVE  i - 1 \in 1..Len(Tail(q)) /\ (i - 1) + 1 = i
    BY <1>1, <2>1
  <2>2. DOMAIN Tail(q) = 1..Len(Tail(q))
    BY <1>1
  <2> QED
    BY <1>2, <2>1, <2>2
<1>5. UrlsOf(q) = {Head(q).url} \cup UrlsOf(Tail(q))
  <2>1. UrlsOf(Tail(q)) \subseteq UrlsOf(q)
    <3>1. DOMAIN Tail(q) = 1..Len(Tail(q))
      BY <1>1
    <3> QED
      BY <1>2, <3>1
  <2>2. UrlsOf(q) \subseteq {Head(q).url} \cup UrlsOf(Tail(q))
    BY <1>1, <1>3, <1>4
  <2> QED
    BY <2>1, <2>2, <1>3
<1>6. Distinct(q) => Distinct(Tail(q)) /\ Head(q).url \notin UrlsOf(Tail(q))
  <2> SUFFICES ASSUME Distinct(q)
               PROVE  Distinct(Tail(q)) /\ Head(q).url \notin UrlsOf(Tail(q))
    OBVIOUS
  <2>1. ASSUME NEW i \in 1..Len(Tail(q)), NEW j \in 1..Len(Tail(q)),
               Tail(q)[i].url = Tail(q)[j].url
        PROVE  i = j
    <3>1. i + 1 \in DOMAIN q /\ j + 1 \in DOMAIN q /\ q[i + 1].url = q[j + 1].url
      BY <1>2, <2>1
    <3>2. i + 1 = j + 1
      BY <3>1 DEF Distinct
    <3> QED
      BY <3>2
  <2>2. ASSUME NEW i \in 1..Len(Tail(q)) PROVE Tail(q)[i].url # Head(q).url
    <3>1. i + 1 \in DOMAIN q /\ i + 1 # 1 /\ Tail(q)[i] = q[i + 1]
      BY <1>2
    <3> QED
      BY <1>3, <3>1 DEF Distinct
  <2>3. DOMAIN Tail(q) = 1..Len(Tail(q))
    BY <1>1
  <2> QED
    BY <2>1, <2>2, <2>3 DEF Distinct
<1> QED
  BY <1>1, <1>3, <1>5, <1>6

LEMMA AppendUrls ==
  ASSUME NEW q \in Seq(Item), NEW x \in Item
  PROVE  /\ Append(q, x) \in Seq(Item) /\ Len(Append(q, x)) = Len(q) + 1
         /\ UrlsOf(Append(q, x)) = UrlsOf(q) \cup {x.url}
         /\ Distinct(q) /\ x.url \notin UrlsOf(q) => Distinct(Append(q, x))
<1>1. /\ Append(q, x) \in Seq(Item) /\ Len(Append(q, x)) = Len(q) + 1
      /\ DOMAIN Append(q, x) = DOMAIN q \cup {Len(q) + 1}
      /\ Append(q, x)[Len(q) + 1] = x
      /\ \A i \in DOMAIN q : Append(q, x)[i] = q[i]
  OBVIOUS
<1>2. UrlsOf(Append(q, x)) = UrlsOf(q) \cup {x.url}
  BY <1>1
<1>3. Distinct(q) /\ x.url \notin UrlsOf(q) => Distinct(Append(q, x))
  BY <1>1 DEF Distinct
<1> QED
  BY <1>1, <1>2, <1>3

LEMMA ConcatUrls ==
  ASSUME NEW p \in Seq(Item), NEW q \in Seq(Item)
  PROVE  /\ p \o q \in Seq(Item)
         /\ UrlsOf(p \o q) = UrlsOf(p) \cup UrlsOf(q)
         /\ Distinct(p) /\ Distinct(q) /\ UrlsOf(p) \cap UrlsOf(q) = {} => Distinct(p \o q)
<1>1. /\ p \o q \in Seq(Item)
      /\ DOMAIN p = 1..Len(p) /\ DOMAIN q = 1..Len(q)
      /\ DOMAIN (p \o q) = 1..(Len(p) + Len(q))
      /\ \A i \in 1..Len(p) : (p \o q)[i] = p[i] /\ i \in DOMAIN (p \o q)
      /\ \A i \in 1..Len(q) : (p \o q)[Len(p) + i] = q[i] /\ Len(p) + i \in DOMAIN (p \o q)
  OBVIOUS
<1>2. \A i \in DOMAIN (p \o q) :
         i \in 1..Len(p) \/ (i - Len(p) \in 1..Len(q) /\ i = Len(p) + (i - Len(p)))
  BY <1>1
<1>3. \A i \in DOMAIN (p \o q) :
         \/ i \in DOMAIN p /\ (p \o q)[i] = p[i]
         \/ i - Len(p) \in DOMAIN q /\ (p \o q)[i] = q[i - Len(p)]
  BY <1>1, <1>2
<1>4. UrlsOf(p \o q) = UrlsOf(p) \cup UrlsOf(q)
  <2>1. ASSUME NEW i \in DOMAIN (p \o q)
        PROVE  (p \o q)[i].url \in UrlsOf(p) \cup UrlsOf(q)
    BY <1>3
  <2>2. ASSUME NEW i \in DOMAIN p PROVE p[i].url \in UrlsOf(p \o q)
    <3>1. (p \o q)[i] = p[i] /\ i \in DOMAIN (p \o q)
      BY <1>1
    <3> QED
      BY <3>1
  <2>3. ASSUME NEW i \in DOMAIN q PROVE q[i].url \in UrlsOf(p \o q)
    <3>1. (p \o q)[Len(p) + i] = q[i] /\ Len(p) + i \in DOMAIN (p \o q)
      BY <1>1
    <3> QED
      BY <3>1
  <2> QED
    BY <2>1, <2>2, <2>3
<1>5. ASSUME Distinct(p), Distinct(q), UrlsOf(p) \cap UrlsOf(q) = {}
      PROVE  Distinct(p \o q)
  <2> SUFFICES ASSUME NEW i \in DOMAIN (p \o q), NEW j \in DOMAIN (p \o q),
                      (p \o q)[i].url = (p \o q)[j].url
               PROVE  i = j
    BY DEF Distinct
  <2>1. CASE i \in DOMAIN p /\ (p \o q)[i] = p[i] /\ j \in DOMAIN p /\ (p \o q)[j] = p[j]
    BY <1>5, <2>1 DEF Distinct
  <2>2. CASE /\ i - Len(p) \in DOMAIN q /\ (p \o q)[i] = q[i - Len(p)]
             /\ j - Len(p) \in DOMAIN q /\ (p \o q)[j] = q[j - Len(p)]
    <3>1. i - Len(p) = j - Len(p)
      BY <1>5, <2>2 DEF Distinct
    <3> QED
      BY <1>1, <3>1
  <2>3. CASE /\ i \in DOMAIN p /\ (p \o q)[i] = p[i]
             /\ j - Len(p) \in DOMAIN q /\ (p \o q)[j] = q[j - Len(p)]
    BY <1>5, <2>3
  <2>4. CASE /\ j \in DOMAIN p /\ (p \o q)[j] = p[j]
             /\ i - Len(p) \in DOMAIN q /\ (p \o q)[i] = q[i - Len(p)]
    BY <1>5, <2>4
  <2> QED
    BY <1>3, <2>1, <2>2, <2>3, <2>4
<1> QED
  BY <1>1, <1>4, <1>5

LEMMA ItemSequence ==
  ASSUME NEW n \in Nat, NEW f \in [1..n -> Item]
  PROVE  f \in Seq(Item) /\ Len(f) = n /\ DOMAIN f = 1..n
BY SeqDef

\* A queue without repetition is as long as the set of its URLs is large.
LEMMA DistinctCounted ==
  ASSUME NEW q \in Seq(Item), Distinct(q)
  PROVE  Cardinality(UrlsOf(q)) = Len(q)
<1> DEFINE f == [i \in 1..Len(q) |-> q[i].url]
<1>1. Len(q) \in Nat /\ DOMAIN q = 1..Len(q)
  OBVIOUS
<1>2. IsFiniteSet(1..Len(q)) /\ Cardinality(1..Len(q)) = Len(q)
  <2>1. Cardinality(1..Len(q)) = IF 1 > Len(q) THEN 0 ELSE Len(q) - 1 + 1
    BY <1>1, FS_Interval
  <2>2. IsFiniteSet(1..Len(q))
    BY <1>1, FS_Interval
  <2> QED
    BY <1>1, <2>1, <2>2
<1>3. f \in Injection(1..Len(q), UrlsOf(q))
  <2>1. \A i \in 1..Len(q) : f[i] = q[i].url /\ f[i] \in UrlsOf(q)
    BY <1>1
  <2>2. \A i, j \in 1..Len(q) : f[i] = f[j] => i = j
    BY <1>1, <2>1 DEF Distinct
  <2>3. f \in [1..Len(q) -> UrlsOf(q)]
    BY <2>1
  <2> HIDE DEF f
  <2> QED
    BY <2>2, <2>3 DEF Injection, IsInjective
<1>4. f \in Surjection(1..Len(q), UrlsOf(q))
  BY <1>1 DEF Surjection
<1>5. f \in Bijection(1..Len(q), UrlsOf(q))
  BY <1>3, <1>4 DEF Bijection
<1> QED
  BY <1>2, <1>5, FS_Bijection DEF ExistsBijection

\* The roots in the queue at the start of a crawl.
LEMMA RootUrls ==
  LET q == <<At(Start, 0)>> \o [i \in DOMAIN Seeds |-> At(Seeds[i], 0)]
  IN  /\ q \in Seq(Item) /\ Distinct(q)
      /\ UrlsOf(q) = {Start} \cup {Seeds[i] : i \in DOMAIN Seeds}
      /\ \A i \in DOMAIN q : q[i].depth = 0
<1> DEFINE p == <<At(Start, 0)>>
           s == [i \in DOMAIN Seeds |-> At(Seeds[i], 0)]
<1>1. p \in Seq(Item) /\ UrlsOf(p) = {Start} /\ Distinct(p)
  BY RootAssumption DEF Item, Distinct
<1>2. Len(Seeds) \in Nat /\ DOMAIN Seeds = 1..Len(Seeds)
      /\ \A i \in DOMAIN Seeds : Seeds[i] \in Pages
  BY RootAssumption, LenProperties, ElementOfSeq
<1>3. s \in [1..Len(Seeds) -> Item]
  BY <1>2 DEF Item
<1>4. s \in Seq(Item) /\ DOMAIN s = DOMAIN Seeds
  BY <1>2, <1>3, ItemSequence
<1>5. \A i \in DOMAIN Seeds : s[i].url = Seeds[i]
  OBVIOUS
<1>6. UrlsOf(s) = {Seeds[i] : i \in DOMAIN Seeds} /\ Distinct(s) /\ Start \notin UrlsOf(s)
  <2> HIDE DEF s
  <2> QED
    BY <1>4, <1>5, RootAssumption DEF Distinct
<1> HIDE DEF p, s
<1>7. /\ p \o s \in Seq(Item) /\ Distinct(p \o s)
      /\ UrlsOf(p \o s) = {Start} \cup {Seeds[i] : i \in DOMAIN Seeds}
  BY <1>1, <1>4, <1>6, ConcatUrls
<1>8. \A i \in DOMAIN (p \o s) : (p \o s)[i].depth = 0
  <2>1. (\A i \in DOMAIN p : p[i].depth = 0) /\ (\A i \in DOMAIN s : s[i].depth = 0)
    BY DEF p, s
  <2>2. /\ DOMAIN p = 1..Len(p) /\ DOMAIN s = 1..Len(s) /\ Len(p) \in Nat /\ Len(s) \in Nat
        /\ DOMAIN (p \o s) = 1..(Len(p) + Len(s))
    BY <1>1, <1>4
  <2>3. ASSUME NEW i \in DOMAIN (p \o s)
        PROVE  \/ i \in DOMAIN p /\ (p \o s)[i] = p[i]
               \/ i - Len(p) \in DOMAIN s /\ (p \o s)[i] = s[i - Len(p)]
    BY <1>1, <1>4, <2>2
  <2> QED
    BY <2>1, <2>3
<1> QED
  BY <1>7, <1>8 DEF p, s

-----------------------------------------------------------------------------
(* The invariant.                                                          *)

\* QueuedOnce, with repetition in place of cardinalities.
QueueSound ==
    /\ UrlsOf(queue) \cap visited_html = {}
    /\ UrlsOf(queue) \cup visited_html = queued_html
    /\ UrlsOf(to_fetch) \subseteq visited_html
    /\ Distinct(queue) /\ Distinct(to_fetch)

\* PagesBounded, as it builds up in a round.
RoundSound ==
    /\ phase = "loop" => to_fetch = <<>>
    /\ phase = "fill" => /\ pages_crawled < limits.max_pages
                         /\ Len(to_fetch) <= FetchConcurrency
    /\ phase = "process" =>
          pages_crawled + Len(to_fetch) <= limits.max_pages + FetchConcurrency - 1
    /\ pages_crawled <= limits.max_pages + FetchConcurrency - 1

IInv == TypeOK /\ QueueSound /\ RoundSound

LEMMA LimitsTyped ==
  ASSUME TypeOK
  PROVE  /\ limits.max_pages \in Nat \ {0} /\ limits.max_depth \in Nat
         /\ FetchConcurrency \in Nat \ {0}
BY LimitAssumption DEF TypeOK

LEMMA EventTyped ==
  ASSUME TypeOK, NEW e, Event(e)
  PROVE  events' \in 0..MaxEvents /\ crawls' = crawls
BY LimitAssumption DEF TypeOK, Event

LEMMA InitInv == Init => IInv
<1> SUFFICES ASSUME Init PROVE IInv
  OBVIOUS
<1> USE DEF Init
<1>1. queue \in Seq(Item) /\ to_fetch \in Seq(Item) /\ UrlsOf(queue) = {}
      /\ UrlsOf(to_fetch) = {} /\ Distinct(queue) /\ Distinct(to_fetch)
  BY DEF Distinct
<1>2. depths \in [visited_html -> Nat]
  OBVIOUS
<1>3. TypeOK
  <2>1. events \in 0..MaxEvents /\ crawls \in 0..MaxCrawls
    BY LimitAssumption
  <2>2. /\ site \in Sites /\ limits \in Limits /\ force \in BOOLEAN /\ cancelled \in BOOLEAN
        /\ phase \in {"idle", "loop", "fill", "process", "done"} /\ pages_crawled \in Nat
    OBVIOUS
  <2>3. /\ saved \subseteq Pages /\ matrix \subseteq Pages /\ registry \subseteq Pages
        /\ known_errors \subseteq Pages /\ errors \subseteq Pages
        /\ queued_html \subseteq Pages /\ visited_html \subseteq Pages /\ read \subseteq Pages
    OBVIOUS
  <2> QED
    BY <1>1, <1>2, <2>1, <2>2, <2>3 DEF TypeOK
<1>4. QueueSound
  BY <1>1 DEF QueueSound
<1>5. RoundSound
  BY <1>3, LimitsTyped DEF RoundSound
<1> QED
  BY <1>3, <1>4, <1>5 DEF IInv

\* What a page links to goes to the end of the queue: every fresh link once, a
\* level below the page, and nothing else.
LEMMA Queueing ==
  ASSUME IInv, NEW u \in Pages, site[u].kind = "page",
         to_fetch # <<>>, Head(to_fetch).url = u, FollowLinks(u)
  PROVE  LET depth == Head(to_fetch).depth + 1
             fresh == {site[u].hrefs[i] : i \in FreshLinks(u, depth)}
         IN  \E s \in Seq(Item) :
               /\ queue' = queue \o s /\ Distinct(s) /\ UrlsOf(s) = fresh
               /\ \A i \in DOMAIN s : s[i].depth = depth
               /\ fresh \subseteq (LeadsOf(u) \cap Pages) \ queued_html
               /\ queued_html' = queued_html \cup fresh
<1> DEFINE depth == Head(to_fetch).depth + 1
           hrefs == site[u].hrefs
           fresh == FreshLinks(u, depth)
           n == Cardinality(fresh)
           new == {hrefs[i] : i \in fresh}
<1>1. site[u] \in Answer /\ hrefs \in Seq(Pages)
      /\ \A i, j \in 1..Len(hrefs) : hrefs[i] = hrefs[j] => i = j
  <2>1. site \in Sites /\ site[u] \in Answer
    BY SiteAssumption DEF IInv, TypeOK
  <2>2. hrefs \in Seq(Pages)
    BY <2>1 DEF Answer
  <2>3. \A i, j \in DOMAIN hrefs : hrefs[i] = hrefs[j] => i = j
    BY <2>1, SiteAssumption
  <2> QED
    BY <2>1, <2>2, <2>3, LenProperties
<1>2. depth \in Nat
  <2>1. to_fetch \in Seq(Item)
    BY DEF IInv, TypeOK
  <2>2. Head(to_fetch) \in Item
    BY <2>1, TailUrls
  <2> QED
    BY <2>2 DEF Item
<1>3. fresh \subseteq 1..Len(hrefs) /\ IsFiniteSet(fresh) /\ n \in Nat
  <2>1. fresh \subseteq 1..Len(hrefs)
    BY DEF FreshLinks
  <2>2. IsFiniteSet(1..Len(hrefs))
    BY <1>1, LenProperties, FS_Interval
  <2>3. IsFiniteSet(fresh)
    BY <2>1, <2>2, FS_Subset
  <2> QED
    BY <2>1, <2>3, FS_CardinalityType
<1>4. \A i \in fresh : hrefs[i] \in Pages /\ hrefs[i] \notin queued_html
  BY <1>1, <1>3, ElementOfSeq DEF FreshLinks, Followable
<1>5. new \subseteq (LeadsOf(u) \cap Pages) \ queued_html
  <2>1. LeadsOf(u) = {hrefs[i] : i \in DOMAIN hrefs}
    BY DEF LeadsOf
  <2>2. DOMAIN hrefs = 1..Len(hrefs)
    BY <1>1, LenProperties
  <2> QED
    BY <1>3, <1>4, <2>1, <2>2
<1>6. PICK order \in Ascending(fresh) :
         queue' = queue \o [i \in 1..n |-> At(hrefs[order[i]], depth)]
  BY DEF FollowLinks
<1>7. /\ order \in [1..n -> fresh]
      /\ \A i, j \in 1..n : i < j => order[i] < order[j]
  BY DEF Ascending
<1> DEFINE s == [i \in 1..n |-> At(hrefs[order[i]], depth)]
<1> HIDE DEF n, new
<1>8. \A i, j \in 1..n : order[i] = order[j] => i = j
  <2> SUFFICES ASSUME NEW i \in 1..n, NEW j \in 1..n, order[i] = order[j], i # j
               PROVE  FALSE
    OBVIOUS
  <2>1. order[i] \in Nat /\ order[j] \in Nat /\ i \in Int /\ j \in Int
    BY <1>1, <1>3, <1>7, LenProperties
  <2>2. i < j \/ j < i
    BY <2>1
  <2> QED
    BY <1>7, <2>1, <2>2
<1>9. \A k \in fresh : \E i \in 1..n : order[i] = k
  <2>1. order \in Injection(1..n, fresh)
    BY <1>7, <1>8 DEF Injection, IsInjective
  <2>2. Cardinality(1..n) = n
    <3>1. Cardinality(1..n) = IF 1 > n THEN 0 ELSE n - 1 + 1
      BY <1>3, FS_Interval
    <3> QED
      BY <1>3, <3>1
  <2>3. order \in Surjection(1..n, fresh)
    BY <1>3, <2>1, <2>2, FS_Injection DEF n
  <2> QED
    BY <2>3 DEF Surjection
<1>10. s \in [1..n -> Item]
       /\ \A i \in 1..n : s[i].url = hrefs[order[i]] /\ s[i].depth = depth
  BY <1>2, <1>4, <1>7 DEF Item
<1>11. s \in Seq(Item) /\ DOMAIN s = 1..n
  BY <1>3, <1>10, ItemSequence
<1> HIDE DEF s
<1>12. UrlsOf(s) = new
  BY <1>7, <1>9, <1>10, <1>11 DEF new
<1>13. Distinct(s)
  <2> SUFFICES ASSUME NEW i \in 1..n, NEW j \in 1..n, s[i].url = s[j].url
               PROVE  i = j
    BY <1>11 DEF Distinct
  <2>1. order[i] \in 1..Len(hrefs) /\ order[j] \in 1..Len(hrefs)
    BY <1>3, <1>7
  <2>2. order[i] = order[j]
    BY <1>1, <1>10, <2>1
  <2> QED
    BY <1>8, <2>2
<1>14. queue' = queue \o s
  BY <1>6 DEF s
<1>15. queued_html' = queued_html \cup new
  BY DEF FollowLinks, new
<1>16. \A i \in DOMAIN s : s[i].depth = depth
  BY <1>10, <1>11
<1> HIDE DEF depth, fresh
<1>17. \E t \in Seq(Item) :
         /\ queue' = queue \o t /\ Distinct(t) /\ UrlsOf(t) = new
         /\ \A i \in DOMAIN t : t[i].depth = depth
  <2> HIDE DEF UrlsOf
  <2> QED
    BY <1>11, <1>12, <1>13, <1>14, <1>16
<1> QED
  BY <1>5, <1>15, <1>17 DEF new, depth, fresh

\* The same, as far as the invariant goes.
LEMMA Following ==
  ASSUME IInv, NEW u \in Pages, site[u].kind = "page",
         to_fetch # <<>>, Head(to_fetch).url = u, FollowLinks(u)
  PROVE  \E new \in SUBSET (LeadsOf(u) \ queued_html) :
            /\ new \subseteq Pages
            /\ queue' \in Seq(Item) /\ Distinct(queue')
            /\ UrlsOf(queue') = UrlsOf(queue) \cup new
            /\ queued_html' = queued_html \cup new
            /\ read' = read \cup {u}
<1> HIDE DEF UrlsOf
<1> DEFINE new == {site[u].hrefs[i] : i \in FreshLinks(u, Head(to_fetch).depth + 1)}
<1>1. PICK s \in Seq(Item) :
         /\ queue' = queue \o s /\ Distinct(s) /\ UrlsOf(s) = new
         /\ new \subseteq (LeadsOf(u) \cap Pages) \ queued_html
         /\ queued_html' = queued_html \cup new
  BY Queueing
<1>2. queue \in Seq(Item) /\ Distinct(queue) /\ UrlsOf(queue) \subseteq queued_html
  BY DEF IInv, TypeOK, QueueSound
<1> HIDE DEF new
<1>3. UrlsOf(queue) \cap UrlsOf(s) = {}
  BY <1>1, <1>2
<1>4. /\ queue \o s \in Seq(Item) /\ Distinct(queue \o s)
      /\ UrlsOf(queue \o s) = UrlsOf(queue) \cup new
  BY <1>1, <1>2, <1>3, ConcatUrls
<1>5. read' = read \cup {u}
  BY DEF FollowLinks
<1> QED
  BY <1>1, <1>4, <1>5

-----------------------------------------------------------------------------
(* The steps.                                                              *)

\* The rest of the round after one answer.
LEMMA Answering ==
  ASSUME IInv, NEW u \in Pages, Answered(u)
  PROVE  /\ to_fetch' \in Seq(Item) /\ Len(to_fetch') = Len(to_fetch) - 1
         /\ UrlsOf(to_fetch') \subseteq visited_html /\ Distinct(to_fetch')
         /\ Head(to_fetch).depth \in Nat /\ u \in visited_html
<1>1. to_fetch \in Seq(Item) /\ to_fetch # <<>> /\ to_fetch' = Tail(to_fetch)
      /\ Head(to_fetch).url = u
  BY DEF Answered, IInv, TypeOK
<1>2. UrlsOf(to_fetch) \subseteq visited_html /\ Distinct(to_fetch)
  BY DEF IInv, QueueSound
<1>3. Head(to_fetch).depth \in Nat
  BY <1>1, TailUrls DEF Item
<1> HIDE DEF UrlsOf
<1> QED
  BY <1>1, <1>2, <1>3, TailUrls

\* The round, the counter and the limits after it.
LEMMA Counting ==
  ASSUME IInv, NEW u \in Pages, Answered(u),
         pages_crawled' = pages_crawled \/ pages_crawled' = pages_crawled + 1
  PROVE  pages_crawled' \in Nat /\ RoundSound'
<1>1. Len(to_fetch') = Len(to_fetch) - 1 /\ Len(to_fetch') \in Nat /\ Len(to_fetch) \in Nat
  BY Answering, LenProperties DEF IInv, TypeOK
<1>2. /\ phase = "process" /\ phase' = phase /\ limits' = limits
      /\ pages_crawled + Len(to_fetch) <= limits.max_pages + FetchConcurrency - 1
      /\ pages_crawled \in Nat
  BY DEF Answered, IInv, RoundSound, TypeOK
<1>3. limits.max_pages \in Nat /\ FetchConcurrency \in Nat
  BY LimitsTyped DEF IInv
<1> QED
  BY <1>1, <1>2, <1>3 DEF RoundSound

LEMMA StepProcess ==
  ASSUME IInv, NEW u \in Pages, Process(u) \/ Flaky(u)
  PROVE  IInv'
<1>0. /\ Answered(u)
      /\ pages_crawled' = pages_crawled \/ pages_crawled' = pages_crawled + 1
      /\ events' \in 0..MaxEvents /\ crawls' \in 0..MaxCrawls
  BY EventTyped DEF Process, Flaky, NotModified, Unchanged, Collected,
     Redirected, Gone, NotHtml, IInv, TypeOK, bounds
<1>1. pages_crawled' \in Nat /\ RoundSound'
  BY <1>0, Counting
<1>2. /\ to_fetch' \in Seq(Item) /\ UrlsOf(to_fetch') \subseteq visited_html
      /\ Distinct(to_fetch')
      /\ Head(to_fetch).depth \in Nat /\ u \in visited_html
  BY <1>0, Answering
<1>3. /\ UNCHANGED <<site, saved, matrix, phase, force, limits, known_errors,
                     visited_html, cancelled, depths>>
  BY <1>0 DEF Answered, files
<1>4. /\ queue' \in Seq(Item) /\ Distinct(queue')
      /\ \E new \in SUBSET (Pages \ queued_html) :
            UrlsOf(queue') = UrlsOf(queue) \cup new /\ queued_html' = queued_html \cup new
      /\ registry' \subseteq Pages /\ errors' \subseteq Pages /\ read' \subseteq Pages
  <2>0. /\ queue \in Seq(Item) /\ Distinct(queue) /\ UrlsOf(queue) \subseteq queued_html
        /\ visited_html \subseteq queued_html
        /\ registry \subseteq Pages /\ errors \subseteq Pages /\ read \subseteq Pages
    BY DEF IInv, TypeOK, QueueSound
  <2>1. CASE NotModified(u) \/ Gone(u) \/ NotHtml(u) \/ Flaky(u)
    <3>1. /\ queue' = queue /\ queued_html' = queued_html /\ registry' = registry
          /\ read' = read /\ errors' \in {errors, errors \cup {u}}
      BY <2>1 DEF NotModified, Gone, NotHtml, Flaky
    <3>2. {} \in SUBSET (Pages \ queued_html) /\ UrlsOf(queue') = UrlsOf(queue) \cup {}
          /\ queued_html' = queued_html \cup {}
      BY <3>1
    <3> QED
      BY <2>0, <3>1, <3>2
  <2>2. CASE Unchanged(u) \/ Collected(u)
    <3>1. /\ site[u].kind = "page" /\ FollowLinks(u)
          /\ to_fetch # <<>> /\ Head(to_fetch).url = u
          /\ registry' \subseteq registry \cup {u} /\ errors' = errors
      BY <2>2 DEF Unchanged, Collected, Answered
    <3> HIDE DEF UrlsOf
    <3> QED
      BY <2>0, <3>1, Following
  <2>3. CASE Redirected(u)
    <3> DEFINE v == site[u].to
               depth == Head(to_fetch).depth
               fresh == /\ v \in Allowed \ (visited_html \cup queued_html)
                        /\ depth + 1 <= limits.max_depth
               first == IF fresh THEN <<At(v, depth)>> ELSE <<>>
               new == IF fresh THEN {v} ELSE {}
    <3>1. /\ queue' = first \o queue /\ queued_html' = queued_html \cup new
          /\ registry' = registry \ {u} /\ errors' = errors /\ read' = read
      BY <2>3 DEF Redirected
    <3>2. first \in Seq(Item) /\ UrlsOf(first) = new /\ Distinct(first)
      <4>1. CASE fresh
        <5>1. At(v, depth) \in Item
          BY <1>2, <4>1, SiteAssumption DEF Item
        <5>2. first = <<At(v, depth)>> /\ new = {v}
          BY <4>1
        <5> QED
          BY <5>1, <5>2 DEF Distinct
      <4>2. CASE ~fresh
        <5>1. first = <<>> /\ new = {}
          BY <4>2
        <5> QED
          BY <5>1, EmptySeq DEF Distinct
      <4> QED
        BY <4>1, <4>2
    <3>3. new \subseteq Pages \ queued_html
      BY SiteAssumption
    <3> HIDE DEF first, new, UrlsOf
    <3>4. UrlsOf(first) \cap UrlsOf(queue) = {}
      BY <2>0, <3>2, <3>3
    <3>5. first \o queue \in Seq(Item) /\ Distinct(first \o queue)
          /\ UrlsOf(first \o queue) = UrlsOf(queue) \cup new
      BY <2>0, <3>2, <3>4, ConcatUrls
    <3> QED
      BY <2>0, <3>1, <3>3, <3>5
  <2> QED
    BY <2>1, <2>2, <2>3 DEF Process
<1>5. TypeOK'
  BY <1>0, <1>1, <1>2, <1>3, <1>4 DEF IInv, TypeOK
<1>6. QueueSound'
  <2> HIDE DEF UrlsOf
  <2> QED
    BY <1>2, <1>3, <1>4 DEF IInv, QueueSound
<1> QED
  BY <1>1, <1>5, <1>6 DEF IInv

LEMMA StepPop == IInv /\ PopUrl => IInv'
<1> SUFFICES ASSUME IInv, PopUrl PROVE IInv'
  OBVIOUS
<1> DEFINE item == Head(queue)
<1>1. /\ queue \in Seq(Item) /\ queue # <<>> /\ queue' = Tail(queue)
      /\ to_fetch \in Seq(Item) /\ Len(to_fetch) \in Nat
      /\ Distinct(queue) /\ Distinct(to_fetch)
      /\ UrlsOf(queue) \cap visited_html = {}
      /\ UrlsOf(queue) \cup visited_html = queued_html
      /\ UrlsOf(to_fetch) \subseteq visited_html
  BY LenProperties DEF PopUrl, IInv, TypeOK, QueueSound
<1> HIDE DEF UrlsOf
<1>2. /\ queue' \in Seq(Item) /\ Distinct(queue') /\ item \in Item
      /\ UrlsOf(queue) = {item.url} \cup UrlsOf(queue')
      /\ item.url \notin UrlsOf(queue')
  BY <1>1, TailUrls
<1>3. item.url \notin visited_html
  BY <1>1, <1>2
<1>4. /\ visited_html' = visited_html \cup {item.url}
      /\ to_fetch' = Append(to_fetch, item)
      /\ depths' = [u \in visited_html' |-> IF u = item.url THEN item.depth ELSE depths[u]]
  BY <1>3 DEF PopUrl
<1>5. /\ to_fetch' \in Seq(Item) /\ Len(to_fetch') = Len(to_fetch) + 1
      /\ UrlsOf(to_fetch') = UrlsOf(to_fetch) \cup {item.url} /\ Distinct(to_fetch')
  BY <1>1, <1>2, <1>3, <1>4, AppendUrls
<1>6. TypeOK'
  <2>1. depths' \in [visited_html' -> Nat] /\ visited_html' \subseteq Pages
    BY <1>2, <1>4 DEF IInv, TypeOK, Item
  <2> QED
    BY <1>2, <1>5, <2>1 DEF PopUrl, IInv, TypeOK, files, bounds
<1>7. QueueSound'
  BY <1>1, <1>2, <1>3, <1>4, <1>5 DEF QueueSound, PopUrl
<1>8. RoundSound'
  <2>1. /\ phase = "fill" /\ phase' = phase /\ limits' = limits
        /\ pages_crawled' = pages_crawled /\ Len(to_fetch) < FetchConcurrency
    BY DEF PopUrl
  <2>2. FetchConcurrency \in Nat
    BY LimitAssumption
  <2> QED
    BY <1>1, <1>5, <2>1, <2>2 DEF IInv, RoundSound
<1> QED
  BY <1>6, <1>7, <1>8 DEF IInv

LEMMA StepStart == IInv /\ StartCrawl => IInv'
<1> SUFFICES ASSUME IInv, StartCrawl PROVE IInv'
  OBVIOUS
<1>1. queue' \in Seq(Item) /\ Distinct(queue')
      /\ UrlsOf(queue') = {Start} \cup {Seeds[i] : i \in DOMAIN Seeds}
  BY RootUrls DEF StartCrawl
<1>2. UrlsOf(queue') \subseteq Pages
  <2>1. DOMAIN Seeds = 1..Len(Seeds) /\ \A i \in 1..Len(Seeds) : Seeds[i] \in Pages
    BY RootAssumption, LenProperties, ElementOfSeq
  <2> HIDE DEF UrlsOf
  <2> QED
    BY <1>1, <2>1, RootAssumption
<1> HIDE DEF UrlsOf
<1>3. /\ queued_html' = UrlsOf(queue') /\ visited_html' = {} /\ to_fetch' = <<>>
      /\ depths' \in [visited_html' -> Nat] /\ phase' = "loop" /\ pages_crawled' = 0
      /\ known_errors' \subseteq Pages
  BY DEF StartCrawl, IInv, TypeOK
<1>4. to_fetch' \in Seq(Item) /\ UrlsOf(to_fetch') = {} /\ Distinct(to_fetch')
  BY <1>3 DEF UrlsOf, Distinct
<1>5. /\ force' \in BOOLEAN /\ limits' \in Limits /\ crawls' \in 0..MaxCrawls
  BY LimitAssumption DEF StartCrawl, IInv, TypeOK
<1>6. TypeOK'
  <2>1. /\ site' \in Sites /\ saved' \subseteq Pages /\ matrix' \subseteq Pages
        /\ cancelled' \in BOOLEAN /\ registry' \subseteq Pages /\ errors' \subseteq Pages
        /\ read' \subseteq Pages /\ events' \in 0..MaxEvents
    BY DEF StartCrawl, IInv, TypeOK, files
  <2> QED
    BY <1>1, <1>2, <1>3, <1>4, <1>5, <2>1 DEF TypeOK
<1>7. QueueSound'
  BY <1>1, <1>3, <1>4 DEF QueueSound
<1>8. RoundSound'
  <2>1. limits'.max_pages \in Nat \ {0} /\ FetchConcurrency \in Nat \ {0}
    BY <1>5, LimitAssumption
  <2> QED
    BY <1>3, <2>1 DEF RoundSound
<1> QED
  BY <1>6, <1>7, <1>8 DEF IInv

\* Steps that take nothing out of the queue or out of the round.
LEMMA StepRest ==
  ASSUME IInv,
         \/ BeginRound \/ Fetch \/ EndRound \/ FinishCrawl \/ RequestCancel
         \/ Crash \/ UNCHANGED vars
  PROVE  IInv'
<1>1. /\ UNCHANGED <<site, crawlVars>> /\ crawls' = crawls /\ events' \in 0..MaxEvents
  BY EventTyped DEF BeginRound, Fetch, EndRound, FinishCrawl, RequestCancel,
     Crash, vars, bounds, IInv, TypeOK
<1>2. /\ phase' \in {"idle", "loop", "fill", "process", "done"} /\ cancelled' \in BOOLEAN
      /\ saved' \subseteq Pages /\ matrix' \subseteq Pages
  BY DEF BeginRound, Fetch, EndRound, FinishCrawl, RequestCancel, Crash, vars,
     files, IInv, TypeOK
<1>3. TypeOK'
  BY <1>1, <1>2 DEF IInv, TypeOK, crawlVars
<1>4. QueueSound'
  BY <1>1 DEF IInv, QueueSound, crawlVars
<1>5. RoundSound'
  <2> USE DEF RoundSound, crawlVars
  <2>0. /\ RoundSound /\ pages_crawled \in Nat /\ Len(to_fetch) \in Nat
        /\ limits.max_pages \in Nat /\ FetchConcurrency \in Nat \ {0}
    BY LenProperties, LimitsTyped DEF IInv, TypeOK
  <2>1. CASE BeginRound
    <3>1. Len(to_fetch) = 0
      BY <2>0, <2>1 DEF BeginRound
    <3> QED
      BY <1>1, <2>0, <2>1, <3>1 DEF BeginRound, Continue
  <2>2. CASE Fetch
    BY <1>1, <2>0, <2>2 DEF Fetch
  <2>3. CASE EndRound
    BY <1>1, <2>0, <2>3 DEF EndRound
  <2>4. CASE FinishCrawl \/ Crash
    BY <1>1, <2>0, <2>4 DEF FinishCrawl, Crash
  <2>5. CASE RequestCancel \/ UNCHANGED vars
    BY <1>1, <2>0, <2>5 DEF RequestCancel, vars
  <2> QED
    BY <2>1, <2>2, <2>3, <2>4, <2>5
<1> QED
  BY <1>3, <1>4, <1>5 DEF IInv

LEMMA Inductive == Spec => []IInv
<1>1. IInv /\ [Next]_vars => IInv'
  BY StepProcess, StepPop, StepStart, StepRest DEF Next, Crawling
<1> QED
  BY InitInv, <1>1, PTL DEF Spec

-----------------------------------------------------------------------------
(* What a finished crawl has tried.                                        *)

\* The depth a page of the round carries is the depth it was taken at, and what
\* a page that was read leads to is known, unless a limit or the error matrix
\* stood against it; a crawl is done for a reason.
LinksKnown ==
    \A u \in read :
       /\ u \in visited_html /\ site[u].kind = "page"
       /\ \A v \in (LeadsOf(u) \cap Allowed) \ known_errors :
             \/ v \in queued_html
             \/ depths[u] + 1 > limits.max_depth
             \/ pages_crawled >= limits.max_pages

RoundDepths ==
    \A i \in DOMAIN to_fetch : to_fetch[i].depth = depths[to_fetch[i].url]

DoneForReason ==
    phase = "done" => /\ matrix = errors
                      /\ \/ queue = <<>> \/ pages_crawled >= limits.max_pages
                         \/ cancelled

Tried == errors \subseteq visited_html /\ LinksKnown /\ RoundDepths /\ DoneForReason

LEMMA InitTried == Init => Tried
BY DEF Init, Tried, LinksKnown, RoundDepths, DoneForReason

\* The links of a page that are not queued were known or stopped by a limit.
LEMMA FollowedAll ==
  ASSUME IInv, NEW u \in Pages, site[u].kind = "page", FollowLinks(u),
         pages_crawled' \in Nat, Head(to_fetch).depth \in Nat,
         NEW v \in (LeadsOf(u) \cap Allowed) \ known_errors
  PROVE  \/ v \in queued_html'
         \/ Head(to_fetch).depth + 1 > limits.max_depth
         \/ pages_crawled' >= limits.max_pages
<1> DEFINE depth == Head(to_fetch).depth + 1
           hrefs == site[u].hrefs
           fresh == FreshLinks(u, depth)
<1>1. queued_html' = queued_html \cup {hrefs[i] : i \in fresh}
  BY DEF FollowLinks
<1>2. site[u] \in Answer
  BY SiteAssumption DEF IInv, TypeOK
<1>3. hrefs \in Seq(Pages)
  BY <1>2 DEF Answer
<1>4. PICK i \in 1..Len(hrefs) : v = hrefs[i]
  BY <1>3, LenProperties DEF LeadsOf
<1>5. CASE i \in fresh
  BY <1>1, <1>4, <1>5
<1>6. CASE i \notin fresh
  <2>1. ~Followable(v, depth)
    BY <1>4, <1>6 DEF FreshLinks
  <2>2. visited_html \cup queued_html = queued_html
    BY DEF IInv, QueueSound
  <2>3. limits.max_pages \in Nat /\ limits.max_depth \in Nat
    BY LimitsTyped DEF IInv
  <2> QED
    BY <1>1, <2>1, <2>2, <2>3 DEF Followable
<1> QED
  BY <1>5, <1>6

\* The steps of a page of the round.
LEMMA ProcessTried ==
  ASSUME IInv, Tried, NEW u \in Pages, Process(u) \/ Flaky(u)
  PROVE  Tried'
<1>0. Answered(u)
  BY DEF Process, NotModified, Unchanged, Collected, Redirected, Gone, NotHtml, Flaky
<1>1. IInv'
  BY StepProcess
<1>2. /\ to_fetch \in Seq(Item) /\ to_fetch # <<>> /\ to_fetch' = Tail(to_fetch)
      /\ Head(to_fetch).url = u /\ u \in visited_html /\ phase' = "process"
      /\ UNCHANGED <<site, limits, known_errors, visited_html, depths>>
  BY <1>0, Answering DEF Answered, IInv, TypeOK
<1>3. pages_crawled \in Nat /\ pages_crawled' \in {pages_crawled, pages_crawled + 1}
      /\ limits.max_pages \in Nat
  BY LimitsTyped DEF Process, NotModified, Unchanged, Collected, Redirected, Gone,
     NotHtml, Flaky, IInv, TypeOK
<1>4. errors' \subseteq visited_html' /\ DoneForReason'
  BY <1>2 DEF Process, NotModified, Unchanged, Collected, Redirected, Gone, NotHtml,
     Flaky, Tried, DoneForReason
<1>5. RoundDepths'
  <2>1. Tail(to_fetch) \in Seq(Item) /\ Len(to_fetch) \in Nat /\ Len(to_fetch) > 0
        /\ Len(Tail(to_fetch)) = Len(to_fetch) - 1
    BY <1>2, EmptySeq
  <2>2. ASSUME NEW i \in 1..Len(Tail(to_fetch))
        PROVE  Tail(to_fetch)[i] = to_fetch[i + 1] /\ i + 1 \in DOMAIN to_fetch
    BY <1>2, <2>1
  <2>3. DOMAIN Tail(to_fetch) = 1..Len(Tail(to_fetch))
    BY <2>1
  <2> QED
    BY <1>2, <2>2, <2>3 DEF Tried, RoundDepths
<1>6. depths[u] = Head(to_fetch).depth
  <2>1. 1 \in DOMAIN to_fetch /\ Head(to_fetch) = to_fetch[1]
    BY <1>2, EmptySeq
  <2> QED
    BY <1>2, <2>1 DEF Tried, RoundDepths
<1>7. \A w \in Pages : LeadsOf(w)' = LeadsOf(w)
  BY <1>2 DEF LeadsOf
<1>8. queued_html \subseteq queued_html' /\ read \subseteq Pages
  BY DEF Process, NotModified, Unchanged, Collected, Redirected, Gone, NotHtml,
     Flaky, FollowLinks, IInv, TypeOK
<1>9. ASSUME NEW w \in read
      PROVE  /\ w \in visited_html' /\ site'[w].kind = "page"
             /\ \A v \in (LeadsOf(w)' \cap Allowed) \ known_errors' :
                   \/ v \in queued_html'
                   \/ depths'[w] + 1 > limits'.max_depth
                   \/ pages_crawled' >= limits'.max_pages
  BY <1>2, <1>3, <1>7, <1>8, <1>9 DEF Tried, LinksKnown
<1>10. CASE read' = read
  BY <1>4, <1>5, <1>9, <1>10 DEF Tried, LinksKnown
<1>11. CASE Unchanged(u) \/ Collected(u)
  <2>1. site[u].kind = "page" /\ FollowLinks(u) /\ read' = read \cup {u}
    BY <1>11 DEF Unchanged, Collected, FollowLinks
  <2>2. pages_crawled' \in Nat
    BY <1>3
  <2>3. \A v \in (LeadsOf(u)' \cap Allowed) \ known_errors' :
           \/ v \in queued_html'
           \/ depths'[u] + 1 > limits'.max_depth
           \/ pages_crawled' >= limits'.max_pages
    BY <1>0, <1>2, <1>6, <1>7, <2>1, <2>2, FollowedAll, Answering
  <2>4. LinksKnown'
    BY <1>2, <1>9, <2>1, <2>3 DEF LinksKnown
  <2> QED
    BY <1>4, <1>5, <2>4 DEF Tried
<1> QED
  BY <1>10, <1>11 DEF Process, NotModified, Redirected, Gone, NotHtml, Flaky

LEMMA PopTried == IInv /\ Tried /\ PopUrl => Tried'
<1> SUFFICES ASSUME IInv, Tried, PopUrl PROVE Tried'
  OBVIOUS
<1> DEFINE item == Head(queue)
<1>1. /\ queue \in Seq(Item) /\ queue # <<>> /\ to_fetch \in Seq(Item)
      /\ UrlsOf(queue) \cap visited_html = {} /\ UrlsOf(to_fetch) \subseteq visited_html
      /\ UNCHANGED <<site, phase, read, errors, known_errors, limits, queued_html,
                     pages_crawled>>
      /\ phase = "fill"
  BY DEF PopUrl, IInv, TypeOK, QueueSound
<1>2. item \in Item /\ item.url \notin visited_html
  <2> HIDE DEF UrlsOf
  <2>1. item \in Item /\ item.url \in UrlsOf(queue)
    BY <1>1, TailUrls
  <2> QED
    BY <1>1, <2>1
<1>3. /\ visited_html' = visited_html \cup {item.url}
      /\ to_fetch' = Append(to_fetch, item)
      /\ depths' = [u \in visited_html' |-> IF u = item.url THEN item.depth ELSE depths[u]]
  BY <1>2 DEF PopUrl
<1>4. \A u \in visited_html : depths'[u] = depths[u]
  BY <1>2, <1>3
<1>5. RoundDepths'
  <2>1. /\ DOMAIN Append(to_fetch, item) = DOMAIN to_fetch \cup {Len(to_fetch) + 1}
        /\ Append(to_fetch, item)[Len(to_fetch) + 1] = item
        /\ \A i \in DOMAIN to_fetch : Append(to_fetch, item)[i] = to_fetch[i]
    BY <1>1, <1>2
  <2>2. depths'[item.url] = item.depth
    BY <1>3
  <2>3. \A i \in DOMAIN to_fetch : to_fetch[i].url \in visited_html
    BY <1>1
  <2> QED
    BY <1>3, <1>4, <2>1, <2>2, <2>3 DEF Tried, RoundDepths
<1>6. LinksKnown'
  <2>1. \A u \in read : LeadsOf(u)' = LeadsOf(u)
    BY <1>1 DEF LeadsOf
  <2> QED
    BY <1>1, <1>3, <1>4, <2>1 DEF Tried, LinksKnown
<1> QED
  BY <1>1, <1>3, <1>5, <1>6 DEF Tried, DoneForReason

LEMMA StepTried == IInv /\ Tried /\ [Next]_vars => Tried'
<1> SUFFICES ASSUME IInv, Tried, [Next]_vars PROVE Tried'
  OBVIOUS
<1>1. CASE StartCrawl
  BY <1>1 DEF StartCrawl, Tried, LinksKnown, RoundDepths, DoneForReason
<1>2. CASE \/ BeginRound \/ Fetch \/ EndRound \/ FinishCrawl \/ RequestCancel
           \/ Crash \/ UNCHANGED vars
  <2>1. UNCHANGED <<site, crawlVars>>
    BY <1>2 DEF BeginRound, Fetch, EndRound, FinishCrawl, RequestCancel, Crash, vars
  <2>2. \A u \in read : LeadsOf(u)' = LeadsOf(u)
    BY <2>1 DEF LeadsOf
  <2>3. LinksKnown' /\ RoundDepths' /\ errors' \subseteq visited_html'
    BY <2>1, <2>2 DEF Tried, LinksKnown, RoundDepths, crawlVars
  <2>4. DoneForReason'
    <3>1. CASE FinishCrawl
      BY <2>1, <3>1, LimitsTyped DEF FinishCrawl, Continue, DoneForReason, crawlVars,
         IInv, TypeOK
    <3>2. CASE \/ BeginRound \/ Fetch \/ EndRound \/ RequestCancel \/ Crash
               \/ UNCHANGED vars
      BY <2>1, <3>2 DEF BeginRound, Fetch, EndRound, RequestCancel, Crash, vars,
         files, crawlVars, Tried, DoneForReason
    <3> QED
      BY <1>2, <3>1, <3>2
  <2> QED
    BY <2>3, <2>4 DEF Tried
<1> QED
  BY <1>1, <1>2, ProcessTried, PopTried DEF Next, Crawling

LEMMA TriedEver == Spec => [](IInv /\ Tried)
<1>1. IInv /\ [Next]_vars => IInv'
  BY StepProcess, StepPop, StepStart, StepRest DEF Next, Crawling
<1> QED
  BY InitInv, InitTried, StepTried, <1>1, PTL DEF Spec

-----------------------------------------------------------------------------
(* Induction over the naturals, without a parameter.                       *)

LEMMA LeastNat ==
  ASSUME NEW T, T \subseteq Nat, T # {}
  PROVE  \E m \in T : \A k \in T : m <= k
<1>1. PICK m \in T : \A k \in T : <<k, m>> \notin OpToRel(<, Nat)
  BY NatLessThanWellFounded, WFMin DEF OpToRel
<1>2. \A k \in T : ~ (k < m)
  BY <1>1 DEF OpToRel
<1> QED
  BY <1>2

LEMMA NatSet ==
  ASSUME NEW T, 0 \in T, \A n \in Nat : n \in T => n + 1 \in T
  PROVE  Nat \subseteq T
<1> SUFFICES ASSUME Nat \ T # {} PROVE FALSE
  OBVIOUS
<1>1. PICK m \in Nat \ T : \A k \in Nat \ T : m <= k
  BY LeastNat
<1>2. m - 1 \in Nat /\ (m - 1) + 1 = m
  BY <1>1
<1>3. m - 1 \in T
  BY <1>1, <1>2
<1> QED
  BY <1>1, <1>2, <1>3

LEMMA Iteration ==
  ASSUME NEW S, NEW a \in S, NEW g \in [S -> S]
  PROVE  \E f \in [Nat -> S] : /\ f[0] = a
                               /\ \A k \in Nat : f[k + 1] = g[f[k]]
<1> DEFINE Begins(h, n) == /\ h \in [0..n -> S] /\ h[0] = a
                           /\ \A k \in 0..n - 1 : h[k + 1] = g[h[k]]
<1>1. \A n \in Nat : \E h : Begins(h, n)
  <2> DEFINE T == {n \in Nat : \E h : Begins(h, n)}
  <2>1. 0 \in T
    <3>1. Begins([k \in 0..0 |-> a], 0)
      OBVIOUS
    <3> QED
      BY <3>1
  <2>2. ASSUME NEW n \in Nat, n \in T PROVE n + 1 \in T
    <3>1. PICK h : Begins(h, n)
      BY <2>2
    <3> DEFINE e == [k \in 0..n + 1 |-> IF k = n + 1 THEN g[h[n]] ELSE h[k]]
    <3>2. e \in [0..n + 1 -> S]
      BY <3>1
    <3>3. e[0] = a
      BY <3>1
    <3>4. ASSUME NEW k \in 0..n PROVE e[k + 1] = g[e[k]]
      <4>1. CASE k = n
        BY <4>1
      <4>2. CASE k \in 0..n - 1
        BY <3>1, <4>2
      <4> QED
        BY <4>1, <4>2
    <3> HIDE DEF e
    <3>5. (n + 1) - 1 = n
      OBVIOUS
    <3>6. Begins(e, n + 1)
      BY <3>2, <3>3, <3>4, <3>5
    <3> QED
      BY <3>6
  <2> HIDE DEF T
  <2>3. Nat \subseteq T
    BY <2>1, <2>2, NatSet
  <2> QED
    BY <2>3 DEF T
<1>2. ASSUME NEW n \in Nat, NEW m \in Nat, NEW h, NEW e, Begins(h, n), Begins(e, m)
      PROVE  \A k \in Nat : k <= n /\ k <= m => h[k] = e[k]
  <2> DEFINE T == {k \in Nat : k <= n /\ k <= m => h[k] = e[k]}
  <2>1. 0 \in T
    BY <1>2
  <2>2. ASSUME NEW k \in Nat, k \in T PROVE k + 1 \in T
    <3> SUFFICES ASSUME k + 1 <= n, k + 1 <= m PROVE h[k + 1] = e[k + 1]
      OBVIOUS
    <3>1. k \in 0..n - 1 /\ k \in 0..m - 1 /\ h[k] = e[k]
      BY <2>2
    <3> QED
      BY <1>2, <3>1
  <2> HIDE DEF T
  <2>3. Nat \subseteq T
    BY <2>1, <2>2, NatSet
  <2> QED
    BY <2>3 DEF T
<1> DEFINE h(n) == CHOOSE h : Begins(h, n)
           f == [n \in Nat |-> h(n)[n]]
<1>3. \A n \in Nat : Begins(h(n), n)
  BY <1>1
<1> HIDE DEF h
<1>4. f \in [Nat -> S]
  BY <1>3
<1>5. f[0] = a
  BY <1>3
<1>6. ASSUME NEW k \in Nat PROVE f[k + 1] = g[f[k]]
  <2>1. h(k + 1)[k + 1] = g[h(k + 1)[k]]
    <3>1. Begins(h(k + 1), k + 1) /\ k \in 0..(k + 1) - 1
      BY <1>3
    <3> QED
      BY <3>1
  <2>2. h(k + 1)[k] = h(k)[k]
    <3>1. Begins(h(k + 1), k + 1) /\ Begins(h(k), k) /\ k <= k + 1 /\ k <= k
      BY <1>3
    <3> HIDE DEF Begins
    <3> QED
      BY <1>2, <3>1
  <2> QED
    BY <2>1, <2>2
<1> HIDE DEF f
<1> QED
  BY <1>4, <1>5, <1>6

-----------------------------------------------------------------------------
(* The recursion of Within.                                                *)

Roots == {Start} \cup {Seeds[i] : i \in DOMAIN Seeds}

\* The URLs that the pages of r among T link to, on a site s.
Linked(T, s, r) ==
    {v \in Pages : \E u \in T \cap r : \E i \in DOMAIN s[u].hrefs : v = s[u].hrefs[i]}

\* The equation of Within, for a site s and a set r of pages read.
Layered(W, s, r) ==
    W = [k \in Nat |-> IF k = 0 THEN {Start} \cup {Seeds[i] : i \in DOMAIN Seeds}
                       ELSE W[k - 1] \cup
                            {v \in Pages : \E u \in W[k - 1] \cap r :
                                              \E i \in DOMAIN s[u].hrefs : v = s[u].hrefs[i]}]

LEMMA LayersExist ==
  ASSUME NEW s, NEW r
  PROVE  \E W : Layered(W, s, r)
<1> DEFINE S == SUBSET (Roots \cup Pages)
           g == [T \in S |-> T \cup Linked(T, s, r)]
<1>1. Roots \in S /\ g \in [S -> S]
  BY DEF Linked
<1>2. PICK h \in [Nat -> S] : h[0] = Roots /\ \A k \in Nat : h[k + 1] = g[h[k]]
  <2> DEFINE a == Roots
  <2>1. a \in S /\ g \in [S -> S]
    BY <1>1
  <2> HIDE DEF g, S, a
  <2>2. \E f \in [Nat -> S] : f[0] = a /\ \A k \in Nat : f[k + 1] = g[f[k]]
    BY <2>1, Iteration
  <2> QED
    BY <2>2 DEF a
<1>3. \A k \in Nat \ {0} : k - 1 \in Nat /\ (k - 1) + 1 = k
  OBVIOUS
<1>4. \A k \in Nat : g[h[k]] = h[k] \cup Linked(h[k], s, r)
  BY <1>2
<1>5. \A k \in Nat : h[k] = IF k = 0 THEN Roots ELSE h[k - 1] \cup Linked(h[k - 1], s, r)
  <2> HIDE DEF g, S
  <2> QED
    BY <1>2, <1>3, <1>4
<1>6. h = [k \in Nat |-> IF k = 0 THEN Roots ELSE h[k - 1] \cup Linked(h[k - 1], s, r)]
  <2> HIDE DEF g, S
  <2> QED
    BY <1>2, <1>5
<1> QED
  BY <1>6 DEF Layered, Linked, Roots

LEMMA LayersSay ==
  ASSUME NEW s, NEW r, NEW W, Layered(W, s, r)
  PROVE  W[0] = Roots /\ \A k \in Nat : W[k + 1] = W[k] \cup Linked(W[k], s, r)
<1>1. W = [k \in Nat |-> IF k = 0 THEN Roots ELSE W[k - 1] \cup Linked(W[k - 1], s, r)]
  BY DEF Layered, Linked, Roots
<1>2. \A k \in Nat : k + 1 \in Nat /\ k + 1 # 0 /\ (k + 1) - 1 = k
  OBVIOUS
<1> QED
  BY <1>1, <1>2

LEMMA WithinLayered ==
  /\ Layered(Within, site, read)
  /\ Layered(Within', site', read')
<1>1. Within = CHOOSE W : Layered(W, site, read)
  BY DEF Within, Layered
<1>2. Within' = CHOOSE W : Layered(W, site', read')
  BY DEF Within, Layered
<1> QED
  BY <1>1, <1>2, LayersExist

LEMMA WithinSays ==
  /\ Within[0] = Roots /\ \A k \in Nat : Within[k + 1] = Within[k] \cup Linked(Within[k], site, read)
  /\ Within'[0] = Roots /\ \A k \in Nat : Within'[k + 1] = Within'[k] \cup Linked(Within'[k], site', read')
<1>1. ASSUME NEW s, NEW r, NEW W, Layered(W, s, r)
      PROVE  W[0] = Roots /\ \A k \in Nat : W[k + 1] = W[k] \cup Linked(W[k], s, r)
  BY <1>1, LayersSay
<1> QED
  BY <1>1, WithinLayered
-----------------------------------------------------------------------------
(* How deep the URLs of a crawl are, on a site without redirects.          *)

NoMoves == \A u \in Pages : site[u].kind # "moved"

\* A URL was taken at depth d, or waits in the queue with it.
PlacedAt(u, d) ==
    \/ u \in visited_html /\ depths[u] = d
    \/ \E i \in DOMAIN queue : queue[i].url = u /\ queue[i].depth = d

\* The depths of what the crawl has yet to look at.
Pending == {to_fetch[i].depth : i \in DOMAIN to_fetch} \cup {queue[i].depth : i \in DOMAIN queue}

\* The round and then the queue are in the order of the levels.
InOrder ==
    /\ \A i, j \in DOMAIN queue : i <= j => queue[i].depth <= queue[j].depth
    /\ \A i, j \in DOMAIN to_fetch : i <= j => to_fetch[i].depth <= to_fetch[j].depth
    /\ \A i \in DOMAIN to_fetch : \A j \in DOMAIN queue : to_fetch[i].depth <= queue[j].depth

\* Nothing known is more than a level below what is pending, and no page was
\* read that is below it.
OneLevel == \A u \in Pages, d \in Nat : PlacedAt(u, d) => \A p \in Pending : d <= p + 1
ReadBehind == \A u \in read : \A p \in Pending : depths[u] <= p

\* What keeps a link to v at depth d out of the queue, now and later.
Blocked(v, d) ==
    \/ v \notin Allowed \/ v \in known_errors
    \/ pages_crawled >= limits.max_pages \/ d > limits.max_depth

\* A link is known at no more than a level below its page, or it is left out
\* for good.
LinksNear ==
    \A u \in read : \A v \in LeadsOf(u) :
        \/ \E d \in Nat : PlacedAt(v, d) /\ d <= depths[u] + 1
        \/ v \notin queued_html /\ Blocked(v, depths[u] + 1)

PlacedWithin == \A u \in Pages, d \in Nat : PlacedAt(u, d) => u \in Within[d]
RootsPlaced == queued_html = {} \/ \A u \in Roots : PlacedAt(u, 0)

Levels == InOrder /\ OneLevel /\ ReadBehind /\ LinksNear /\ PlacedWithin /\ RootsPlaced

Deep == NoMoves => Levels

LEMMA WithinKept ==
  ASSUME site' = site, read \subseteq read'
  PROVE  \A k \in Nat : Within[k] \subseteq Within'[k]
<1> DEFINE W == Within
           V == Within'
           T == {k \in Nat : W[k] \subseteq V[k]}
<1>1. /\ W[0] = Roots /\ \A k \in Nat : W[k + 1] = W[k] \cup Linked(W[k], site, read)
      /\ V[0] = Roots /\ \A k \in Nat : V[k + 1] = V[k] \cup Linked(V[k], site, read')
  BY WithinSays
<1> HIDE DEF W, V
<1>2. 0 \in T
  BY <1>1
<1>3. ASSUME NEW k \in Nat, k \in T PROVE k + 1 \in T
  <2>1. Linked(W[k], site, read) \subseteq Linked(V[k], site, read')
    BY <1>3 DEF Linked
  <2> QED
    BY <1>1, <1>3, <2>1
<1> HIDE DEF T
<1>4. Nat \subseteq T
  BY <1>2, <1>3, NatSet
<1> QED
  BY <1>4 DEF T, W, V

\* Every URL in the queue is at its depth, and so is every URL of the round.
LEMMA PlacedTyped ==
  ASSUME IInv, Tried
  PROVE  /\ \A i \in DOMAIN queue : /\ queue[i].url \in Pages /\ queue[i].depth \in Nat
                                    /\ PlacedAt(queue[i].url, queue[i].depth)
         /\ \A i \in DOMAIN to_fetch : /\ to_fetch[i].url \in Pages /\ to_fetch[i].depth \in Nat
                                       /\ PlacedAt(to_fetch[i].url, to_fetch[i].depth)
         /\ \A u \in visited_html : u \in Pages /\ depths[u] \in Nat /\ PlacedAt(u, depths[u])
         /\ Pending \subseteq Nat
         /\ read \subseteq visited_html
         /\ \A u \in queued_html : \E d \in Nat : PlacedAt(u, d)
<1>1. /\ queue \in Seq(Item) /\ to_fetch \in Seq(Item) /\ visited_html \subseteq Pages
      /\ depths \in [visited_html -> Nat]
      /\ UrlsOf(to_fetch) \subseteq visited_html
      /\ UrlsOf(queue) \cup visited_html = queued_html
  BY DEF IInv, TypeOK, QueueSound
<1>2. /\ \A i \in DOMAIN queue : queue[i].url \in Pages /\ queue[i].depth \in Nat
      /\ \A i \in DOMAIN to_fetch : to_fetch[i].url \in Pages /\ to_fetch[i].depth \in Nat
  <2>1. ASSUME NEW q \in Seq(Item), NEW i \in DOMAIN q
        PROVE  q[i].url \in Pages /\ q[i].depth \in Nat
    <3>1. q[i] \in Item
      OBVIOUS
    <3> QED
      BY <3>1 DEF Item
  <2> QED
    BY <1>1, <2>1
<1>3. \A i \in DOMAIN queue : PlacedAt(queue[i].url, queue[i].depth)
  BY DEF PlacedAt
<1>4. \A u \in visited_html : u \in Pages /\ depths[u] \in Nat /\ PlacedAt(u, depths[u])
  BY <1>1 DEF PlacedAt
<1>5. \A i \in DOMAIN to_fetch : PlacedAt(to_fetch[i].url, to_fetch[i].depth)
  BY <1>1 DEF PlacedAt, Tried, RoundDepths
<1>6. Pending \subseteq Nat
  BY <1>2 DEF Pending
<1>7. read \subseteq visited_html
  BY DEF Tried, LinksKnown
<1>8. \A u \in queued_html : \E d \in Nat : PlacedAt(u, d)
  BY <1>1, <1>2, <1>3, <1>4
<1> QED
  BY <1>2, <1>3, <1>4, <1>5, <1>6, <1>7, <1>8

\* Steps that place nothing anew and read no page.
LEMMA LevelsKept ==
  ASSUME IInv, Tried, Levels, InOrder',
         UNCHANGED <<site, read, limits, known_errors, queued_html>>,
         pages_crawled' \in Nat, pages_crawled' >= pages_crawled,
         \A u \in read : depths'[u] = depths[u],
         \A u, d : PlacedAt(u, d)' <=> PlacedAt(u, d),
         Pending' \subseteq Pending
  PROVE  Levels'
<1>1. OneLevel'
  BY DEF Levels, OneLevel
<1>2. ReadBehind'
  BY DEF Levels, ReadBehind
<1>3. LinksNear'
  <2> SUFFICES ASSUME NEW u \in read, NEW v \in LeadsOf(u)
               PROVE  \/ \E d \in Nat : PlacedAt(v, d) /\ d <= depths[u] + 1
                      \/ v \notin queued_html /\ Blocked(v, depths[u] + 1)'
    <3>1. \A u \in read : LeadsOf(u)' = LeadsOf(u)
      BY DEF LeadsOf
    <3> QED
      BY <3>1 DEF LinksNear
  <2>1. CASE \E d \in Nat : PlacedAt(v, d) /\ d <= depths[u] + 1
    BY <2>1
  <2>2. CASE v \notin queued_html /\ Blocked(v, depths[u] + 1)
    <3>1. limits.max_pages \in Nat /\ pages_crawled \in Nat
      BY LimitsTyped DEF IInv, TypeOK
    <3> QED
      BY <2>2, <3>1 DEF Blocked
  <2> QED
    BY <2>1, <2>2 DEF Levels, LinksNear
<1>4. PlacedWithin'
  <2>1. \A k \in Nat : Within[k] \subseteq Within'[k]
    BY WithinKept
  <2> QED
    BY <2>1 DEF Levels, PlacedWithin
<1>5. RootsPlaced'
  BY DEF Levels, RootsPlaced
<1> QED
  BY <1>1, <1>2, <1>3, <1>4, <1>5 DEF Levels

LEMMA StartDeep ==
  ASSUME IInv, StartCrawl
  PROVE  Levels'
<1>1. /\ queue' \in Seq(Item) /\ UrlsOf(queue') = Roots
      /\ \A i \in DOMAIN queue' : queue'[i].depth = 0
  BY RootUrls DEF StartCrawl, Roots
<1>2. visited_html' = {} /\ to_fetch' = <<>> /\ read' = {}
  BY DEF StartCrawl
<1>3. Within'[0] = Roots
  BY WithinSays
<1>4. \A u, d : PlacedAt(u, d)' <=> u \in Roots /\ d = 0
  BY <1>1, <1>2 DEF PlacedAt
<1>5. Pending' \subseteq {0}
  BY <1>1, <1>2 DEF Pending
<1>6. InOrder'
  BY <1>1, <1>2 DEF InOrder
<1>7. OneLevel'
  BY <1>4, <1>5 DEF OneLevel
<1>8. ReadBehind' /\ LinksNear'
  BY <1>2 DEF ReadBehind, LinksNear
<1>9. PlacedWithin' /\ RootsPlaced'
  BY <1>3, <1>4 DEF PlacedWithin, RootsPlaced
<1> QED
  BY <1>6, <1>7, <1>8, <1>9 DEF Levels

LEMMA PopDeep ==
  ASSUME IInv, Tried, Levels, PopUrl
  PROVE  Levels'
<1> DEFINE item == Head(queue)
<1>1. /\ queue \in Seq(Item) /\ queue # <<>> /\ to_fetch \in Seq(Item)
      /\ UrlsOf(queue) \cap visited_html = {} /\ queue' = Tail(queue)
      /\ UNCHANGED <<site, read, limits, known_errors, queued_html, pages_crawled>>
  BY DEF PopUrl, IInv, TypeOK, QueueSound
<1>2. /\ Tail(queue) \in Seq(Item) /\ Len(queue) \in Nat /\ Len(queue) > 0
      /\ Len(Tail(queue)) = Len(queue) - 1
      /\ DOMAIN queue = 1..Len(queue) /\ DOMAIN Tail(queue) = 1..Len(Tail(queue))
      /\ item = queue[1] /\ item \in Item
  BY <1>1, EmptySeq
<1>3. \A i \in DOMAIN queue' : i + 1 \in DOMAIN queue /\ queue'[i] = queue[i + 1]
  BY <1>1, <1>2
<1>4. \A i \in DOMAIN queue : i = 1 \/ \E j \in DOMAIN queue' : queue'[j] = queue[i]
  <2>1. ASSUME NEW i \in DOMAIN queue, i # 1
        PROVE  i - 1 \in DOMAIN queue' /\ (i - 1) + 1 = i
    BY <1>1, <1>2, <2>1
  <2> QED
    BY <1>3, <2>1
<1>5. 1 \in DOMAIN queue /\ item.url \notin visited_html
  <2>1. 1 \in DOMAIN queue
    BY <1>2
  <2> QED
    BY <1>1, <1>2, <2>1
<1>6. /\ visited_html' = visited_html \cup {item.url}
      /\ to_fetch' = Append(to_fetch, item)
      /\ depths' = [u \in visited_html' |-> IF u = item.url THEN item.depth ELSE depths[u]]
  BY <1>5 DEF PopUrl
<1>7. /\ DOMAIN to_fetch' = DOMAIN to_fetch \cup {Len(to_fetch) + 1}
      /\ Len(to_fetch) \in Nat /\ DOMAIN to_fetch = 1..Len(to_fetch)
      /\ to_fetch'[Len(to_fetch) + 1] = item
      /\ \A i \in DOMAIN to_fetch : to_fetch'[i] = to_fetch[i]
  BY <1>1, <1>2, <1>6
<1>8. /\ \A u \in visited_html : depths'[u] = depths[u]
      /\ depths'[item.url] = item.depth
  BY <1>5, <1>6
<1>9. ASSUME NEW u, NEW d PROVE PlacedAt(u, d)' <=> PlacedAt(u, d)
  <2>1. ASSUME PlacedAt(u, d) PROVE PlacedAt(u, d)'
    <3>1. CASE u \in visited_html /\ depths[u] = d
      BY <1>6, <1>8, <3>1 DEF PlacedAt
    <3>2. ASSUME NEW i \in DOMAIN queue, queue[i].url = u, queue[i].depth = d
          PROVE  PlacedAt(u, d)'
      <4>1. CASE i = 1
        BY <1>2, <1>6, <1>8, <3>2, <4>1 DEF PlacedAt
      <4>2. CASE i # 1
        BY <1>4, <3>2, <4>2 DEF PlacedAt
      <4> QED
        BY <4>1, <4>2
    <3> QED
      BY <2>1, <3>1, <3>2 DEF PlacedAt
  <2>2. ASSUME PlacedAt(u, d)' PROVE PlacedAt(u, d)
    <3>1. CASE u \in visited_html' /\ depths'[u] = d
      <4>1. CASE u = item.url
        BY <1>2, <1>5, <1>8, <3>1, <4>1 DEF PlacedAt
      <4>2. CASE u # item.url
        BY <1>6, <1>8, <3>1, <4>2 DEF PlacedAt
      <4> QED
        BY <4>1, <4>2
    <3>2. CASE \E i \in DOMAIN queue' : queue'[i].url = u /\ queue'[i].depth = d
      BY <1>3, <3>2 DEF PlacedAt
    <3> QED
      BY <2>2, <3>1, <3>2 DEF PlacedAt
  <2> QED
    BY <2>1, <2>2
<1>10. Pending' \subseteq Pending
  BY <1>2, <1>3, <1>5, <1>7 DEF Pending
<1>11. InOrder'
  <2>0. /\ InOrder
        /\ \A i \in DOMAIN queue : queue[i].depth \in Nat
        /\ \A i \in DOMAIN to_fetch : to_fetch[i].depth \in Nat
    BY PlacedTyped DEF Levels
  <2>1. \A i, j \in DOMAIN queue' : i <= j => queue'[i].depth <= queue'[j].depth
    <3>1. \A i, j \in DOMAIN queue' : i <= j => i + 1 <= j + 1
      BY <1>1, <1>2
    <3> QED
      BY <1>3, <2>0, <3>1 DEF InOrder
  <2>2. \A j \in DOMAIN queue : item.depth <= queue[j].depth
    BY <1>2, <1>5, <2>0 DEF InOrder
  <2>3. \A i, j \in DOMAIN to_fetch' : i <= j => to_fetch'[i].depth <= to_fetch'[j].depth
    <3> SUFFICES ASSUME NEW i \in DOMAIN to_fetch', NEW j \in DOMAIN to_fetch', i <= j
                 PROVE  to_fetch'[i].depth <= to_fetch'[j].depth
      OBVIOUS
    <3>1. CASE j \in DOMAIN to_fetch
      <4>1. i \in DOMAIN to_fetch
        BY <1>7, <3>1
      <4> QED
        BY <1>7, <2>0, <3>1, <4>1 DEF InOrder
    <3>2. CASE j = Len(to_fetch) + 1
      <4>1. CASE i \in DOMAIN to_fetch
        BY <1>2, <1>5, <1>7, <2>0, <3>2, <4>1 DEF InOrder
      <4>2. CASE i = Len(to_fetch) + 1
        <5>1. item.depth \in Nat
          BY <1>2 DEF Item
        <5> QED
          BY <1>7, <3>2, <4>2, <5>1
      <4> QED
        BY <1>7, <4>1, <4>2
    <3> QED
      BY <1>7, <3>1, <3>2
  <2>4. \A i \in DOMAIN to_fetch' : \A j \in DOMAIN queue' : to_fetch'[i].depth <= queue'[j].depth
    BY <1>3, <1>7, <2>0, <2>2 DEF InOrder
  <2> QED
    BY <2>1, <2>3, <2>4 DEF InOrder
<1>12. pages_crawled' \in Nat /\ pages_crawled' >= pages_crawled
  BY <1>1 DEF IInv, TypeOK
<1>13. \A u \in read : depths'[u] = depths[u]
  BY <1>8, PlacedTyped
<1> QED
  BY <1>1, <1>9, <1>10, <1>11, <1>12, <1>13, LevelsKept

LEMMA RestOfRound ==
  ASSUME NEW q \in Seq(Item), q # <<>>
  PROVE  /\ \A i \in DOMAIN Tail(q) : i + 1 \in DOMAIN q /\ Tail(q)[i] = q[i + 1]
         /\ 1 \in DOMAIN q /\ Head(q) = q[1]
         /\ \A i, j \in DOMAIN Tail(q) : i <= j => i + 1 <= j + 1
         /\ \A i \in DOMAIN q : 1 <= i
<1>1. /\ Tail(q) \in Seq(Item) /\ Len(q) \in Nat /\ Len(q) > 0 /\ Len(Tail(q)) = Len(q) - 1
      /\ DOMAIN q = 1..Len(q) /\ DOMAIN Tail(q) = 1..Len(Tail(q)) /\ Head(q) = q[1]
  BY EmptySeq
<1>2. \A i \in 1..Len(Tail(q)) : Tail(q)[i] = q[i + 1] /\ i + 1 \in 1..Len(q)
  BY <1>1
<1>3. 1 \in 1..Len(q) /\ \A i, j \in 1..Len(Tail(q)) : i <= j => i + 1 <= j + 1
  BY <1>1
<1> QED
  BY <1>1, <1>2, <1>3

\* An answer that adds nothing to the queue.
LEMMA AnswerDeep ==
  ASSUME IInv, Tried, Levels, NEW u \in Pages, Answered(u),
         queue' = queue, queued_html' = queued_html, read' = read,
         pages_crawled' \in {pages_crawled, pages_crawled + 1}
  PROVE  Levels'
<1>1. /\ to_fetch \in Seq(Item) /\ to_fetch # <<>> /\ to_fetch' = Tail(to_fetch)
      /\ UNCHANGED <<site, limits, known_errors, visited_html, depths>>
  BY DEF Answered, IInv, TypeOK
<1>2. \A i \in DOMAIN to_fetch' : i + 1 \in DOMAIN to_fetch /\ to_fetch'[i] = to_fetch[i + 1]
  BY <1>1, RestOfRound
<1>3. \A w, d : PlacedAt(w, d)' <=> PlacedAt(w, d)
  BY <1>1 DEF PlacedAt
<1>4. Pending' \subseteq Pending
  BY <1>2 DEF Pending
<1>5. InOrder'
  <2>1. \A i, j \in DOMAIN to_fetch' : i <= j => i + 1 <= j + 1
    BY <1>1, RestOfRound
  <2> QED
    BY <1>2, <2>1 DEF Levels, InOrder
<1>6. pages_crawled' \in Nat /\ pages_crawled' >= pages_crawled
  BY DEF IInv, TypeOK
<1>7. \A w \in read : depths'[w] = depths[w]
  BY <1>1
<1> QED
  BY <1>1, <1>3, <1>4, <1>5, <1>6, <1>7, LevelsKept

\* A page whose links are followed.
LEMMA FollowDeep ==
  ASSUME IInv, Tried, Levels, NEW u \in Pages, Answered(u), site[u].kind = "page",
         FollowLinks(u), pages_crawled' = pages_crawled + 1
  PROVE  Levels'
<1> DEFINE d == Head(to_fetch).depth
           new == {site[u].hrefs[i] : i \in FreshLinks(u, d + 1)}
<1>1. /\ to_fetch \in Seq(Item) /\ to_fetch # <<>> /\ to_fetch' = Tail(to_fetch)
      /\ Head(to_fetch).url = u /\ queue \in Seq(Item)
      /\ UNCHANGED <<site, limits, known_errors, visited_html, depths>>
      /\ read' = read \cup {u}
      /\ UrlsOf(queue) \cup visited_html = queued_html
  BY DEF Answered, FollowLinks, IInv, TypeOK, QueueSound
<1>2. /\ \A i \in DOMAIN to_fetch' : i + 1 \in DOMAIN to_fetch /\ to_fetch'[i] = to_fetch[i + 1]
      /\ 1 \in DOMAIN to_fetch /\ Head(to_fetch) = to_fetch[1]
      /\ \A i, j \in DOMAIN to_fetch' : i <= j => i + 1 <= j + 1
      /\ \A i \in DOMAIN to_fetch : 1 <= i
  BY <1>1, RestOfRound
<1>3. d \in Nat /\ d \in Pending /\ u \in visited_html /\ depths[u] = d
  BY <1>1, <1>2, PlacedTyped, Answering DEF Pending, Tried, RoundDepths
<1>4. PICK s \in Seq(Item) :
         /\ queue' = queue \o s /\ UrlsOf(s) = new
         /\ \A i \in DOMAIN s : s[i].depth = d + 1
         /\ new \subseteq (LeadsOf(u) \cap Pages) \ queued_html
         /\ queued_html' = queued_html \cup new
  <2> HIDE DEF UrlsOf
  <2> QED
    BY <1>1, Queueing
<1>5. /\ \A i \in DOMAIN queue : i \in DOMAIN queue' /\ queue'[i] = queue[i]
      /\ \A i \in DOMAIN queue' : \/ i \in DOMAIN queue /\ queue'[i] = queue[i]
                                  \/ /\ i > Len(queue)
                                     /\ queue'[i].depth = d + 1 /\ queue'[i].url \in new
      /\ \A v \in new : \E i \in DOMAIN queue' : queue'[i].url = v /\ queue'[i].depth = d + 1
      /\ DOMAIN queue = 1..Len(queue) /\ Len(queue) \in Nat
      /\ DOMAIN queue' \subseteq Nat
  <2>1. /\ DOMAIN queue = 1..Len(queue) /\ DOMAIN s = 1..Len(s)
        /\ Len(queue) \in Nat /\ Len(s) \in Nat
        /\ DOMAIN (queue \o s) = 1..(Len(queue) + Len(s))
        /\ \A i \in 1..Len(queue) : (queue \o s)[i] = queue[i] /\ i \in DOMAIN (queue \o s)
        /\ \A i \in 1..Len(s) : /\ (queue \o s)[Len(queue) + i] = s[i]
                                /\ Len(queue) + i \in DOMAIN (queue \o s)
    BY <1>1
  <2>2. \A i \in DOMAIN (queue \o s) :
           i \in 1..Len(queue) \/ (i - Len(queue) \in 1..Len(s) /\ i = Len(queue) + (i - Len(queue)))
    BY <2>1
  <2>3. \A i \in DOMAIN s : s[i].url \in new
    BY <1>4
  <2>4. \A v \in new : \E i \in DOMAIN s : s[i].url = v
    BY <1>4
  <2> HIDE DEF new
  <2>5. \A i \in DOMAIN queue' : \/ i \in DOMAIN queue /\ queue'[i] = queue[i]
                                 \/ /\ i > Len(queue)
                                    /\ queue'[i].depth = d + 1 /\ queue'[i].url \in new
    <3> SUFFICES ASSUME NEW i \in DOMAIN queue', i \notin DOMAIN queue
                 PROVE  i > Len(queue) /\ queue'[i].depth = d + 1 /\ queue'[i].url \in new
      BY <1>4, <2>1
    <3>1. i - Len(queue) \in 1..Len(s) /\ i = Len(queue) + (i - Len(queue))
      BY <1>4, <2>1, <2>2
    <3>2. queue'[i] = s[i - Len(queue)]
      BY <1>4, <2>1, <3>1
    <3>3. i > Len(queue)
      BY <2>1, <3>1
    <3> QED
      BY <1>4, <2>1, <2>3, <3>1, <3>2, <3>3
  <2>6. \A v \in new : \E i \in DOMAIN queue' : queue'[i].url = v /\ queue'[i].depth = d + 1
    <3> SUFFICES ASSUME NEW v \in new
                 PROVE  \E i \in DOMAIN queue' : queue'[i].url = v /\ queue'[i].depth = d + 1
      OBVIOUS
    <3>1. PICK i \in DOMAIN s : s[i].url = v
      BY <2>4
    <3>2. Len(queue) + i \in DOMAIN queue' /\ queue'[Len(queue) + i] = s[i]
      BY <1>4, <2>1
    <3> QED
      BY <1>4, <3>1, <3>2
  <2>7. DOMAIN queue' \subseteq Nat
    BY <1>4, <2>1
  <2> QED
    BY <1>4, <2>1, <2>5, <2>6, <2>7
<1> HIDE DEF new
<1>6. ASSUME NEW v, NEW e
      PROVE  PlacedAt(v, e)' <=> PlacedAt(v, e) \/ (v \in new /\ e = d + 1)
  BY <1>1, <1>5 DEF PlacedAt
<1>7. Pending' \subseteq Pending \cup {d + 1}
  BY <1>2, <1>5 DEF Pending
<1>8. \A p \in Pending : p \in Nat /\ d <= p
  BY <1>2, PlacedTyped DEF Levels, InOrder, Pending
<1>9. \A v \in Pages, e \in Nat : PlacedAt(v, e) => e <= d + 1
  BY <1>3 DEF Levels, OneLevel
<1>10. InOrder'
  <2>0. /\ InOrder
        /\ \A i \in DOMAIN queue : queue[i].depth \in Nat /\ queue[i].depth <= d + 1
        /\ \A i \in DOMAIN to_fetch : to_fetch[i].depth \in Nat /\ to_fetch[i].depth <= d + 1
    BY <1>9, PlacedTyped DEF Levels
  <2>1. \A i, j \in DOMAIN queue' : i <= j => queue'[i].depth <= queue'[j].depth
    <3> SUFFICES ASSUME NEW i \in DOMAIN queue', NEW j \in DOMAIN queue', i <= j
                 PROVE  queue'[i].depth <= queue'[j].depth
      OBVIOUS
    <3>1. CASE j \in DOMAIN queue
      <4>1. i \in DOMAIN queue
        BY <1>5, <3>1
      <4> QED
        BY <1>5, <2>0, <3>1, <4>1 DEF InOrder
    <3>2. CASE queue'[j].depth = d + 1
      BY <1>3, <1>5, <2>0, <3>2
    <3> QED
      BY <1>5, <3>1, <3>2
  <2>2. \A i, j \in DOMAIN to_fetch' : i <= j => to_fetch'[i].depth <= to_fetch'[j].depth
    BY <1>2, <2>0 DEF InOrder
  <2>3. \A i \in DOMAIN to_fetch' : \A j \in DOMAIN queue' : to_fetch'[i].depth <= queue'[j].depth
    BY <1>2, <1>5, <2>0 DEF InOrder
  <2> QED
    BY <2>1, <2>2, <2>3 DEF InOrder
<1>11. OneLevel'
  <2> SUFFICES ASSUME NEW v \in Pages, NEW e \in Nat, PlacedAt(v, e)', NEW p \in Pending'
               PROVE  e <= p + 1
    BY DEF OneLevel
  <2>1. e <= d + 1
    BY <1>3, <1>6, <1>9
  <2>2. p \in Nat /\ d <= p
    BY <1>3, <1>7, <1>8
  <2> QED
    BY <1>3, <2>1, <2>2
<1>12. ReadBehind'
  <2> SUFFICES ASSUME NEW w \in read', NEW p \in Pending'
               PROVE  depths[w] <= p
    BY <1>1 DEF ReadBehind
  <2>1. depths[w] \in Nat /\ depths[w] <= d
    BY <1>1, <1>3, PlacedTyped DEF Levels, ReadBehind
  <2>2. p \in Nat /\ d <= p
    BY <1>3, <1>7, <1>8
  <2> QED
    BY <1>3, <2>1, <2>2
<1>13. LinksNear'
  <2> SUFFICES ASSUME NEW w \in read', NEW v \in LeadsOf(w)
               PROVE  \/ \E e \in Nat : PlacedAt(v, e)' /\ e <= depths[w] + 1
                      \/ v \notin queued_html' /\ Blocked(v, depths[w] + 1)'
    <3>1. \A x \in Pages : LeadsOf(x)' = LeadsOf(x)
      BY <1>1 DEF LeadsOf
    <3>2. read' \subseteq Pages
      BY <1>1 DEF IInv, TypeOK
    <3> QED
      BY <1>1, <3>1, <3>2 DEF LinksNear
  <2>0. /\ limits.max_pages \in Nat /\ limits.max_depth \in Nat
        /\ pages_crawled \in Nat /\ pages_crawled' \in Nat
    BY LimitsTyped DEF IInv, TypeOK
  <2>1. \A x \in new : /\ x \in Allowed /\ x \notin known_errors
                       /\ pages_crawled' < limits.max_pages /\ d + 1 <= limits.max_depth
    BY DEF new, FreshLinks, Followable
  <2>2. CASE \E e \in Nat : PlacedAt(v, e) /\ e <= depths[w] + 1
    BY <1>6, <2>2
  <2>3. CASE w \in read /\ v \notin queued_html /\ Blocked(v, depths[w] + 1)
    <3>1. depths[w] \in Nat /\ depths[w] <= d
      BY <1>3, <2>3, PlacedTyped DEF Levels, ReadBehind
    <3>2. v \notin new
      BY <1>3, <2>0, <2>1, <2>3, <3>1 DEF Blocked
    <3>3. Blocked(v, depths[w] + 1)'
      BY <1>1, <2>0, <2>3 DEF Blocked
    <3> QED
      BY <1>1, <1>4, <2>3, <3>2, <3>3
  <2>4. CASE w = u /\ v \in queued_html
    <3>1. PICK e \in Nat : PlacedAt(v, e)
      BY <2>4, PlacedTyped
    <3>2. v \in Pages
      BY <2>4 DEF IInv, TypeOK
    <3>3. PlacedAt(v, e)' /\ e <= depths[w] + 1
      BY <1>3, <1>6, <1>9, <2>4, <3>1, <3>2
    <3> QED
      BY <3>3
  <2>5. CASE w = u /\ v \in new
    <3>1. PICK e \in Nat : e = d + 1
      BY <1>3
    <3>2. PlacedAt(v, e)' /\ e <= depths[w] + 1
      BY <1>3, <1>6, <2>5, <3>1
    <3> QED
      BY <3>2
  <2>6. CASE w = u /\ v \notin queued_html /\ v \notin new
    <3>1. PICK i \in DOMAIN site[u].hrefs : v = site[u].hrefs[i]
      BY <2>6 DEF LeadsOf
    <3>2. DOMAIN site[u].hrefs = 1..Len(site[u].hrefs)
      <4>1. site[u] \in Answer
        BY SiteAssumption DEF IInv, TypeOK
      <4>2. site[u].hrefs \in Seq(Pages)
        BY <4>1 DEF Answer
      <4> QED
        BY <4>2
    <3>3. ~Followable(v, d + 1)
      BY <2>6, <3>1, <3>2 DEF new, FreshLinks
    <3>4. v \notin visited_html
      BY <1>1, <2>6
    <3>5. Blocked(v, depths[w] + 1)'
      BY <1>1, <1>3, <2>0, <2>6, <3>3, <3>4 DEF Followable, Blocked
    <3> QED
      BY <1>4, <2>6, <3>5
  <2> QED
    BY <1>1, <2>2, <2>3, <2>4, <2>5, <2>6 DEF Levels, LinksNear
<1>14. PlacedWithin'
  <2> SUFFICES ASSUME NEW v \in Pages, NEW e \in Nat, PlacedAt(v, e)'
               PROVE  v \in Within'[e]
    BY DEF PlacedWithin
  <2>1. \A k \in Nat : Within[k] \subseteq Within'[k]
    BY <1>1, WithinKept
  <2>2. CASE PlacedAt(v, e)
    BY <2>1, <2>2 DEF Levels, PlacedWithin
  <2>3. CASE v \in new /\ e = d + 1
    <3>1. u \in Within[d]
      BY <1>3, PlacedTyped DEF Levels, PlacedWithin
    <3>2. u \in Within'[d] /\ u \in read'
      BY <1>1, <1>3, <2>1, <3>1
    <3>3. \E i \in DOMAIN site'[u].hrefs : v = site'[u].hrefs[i]
      <4>1. v \in LeadsOf(u)
        BY <1>4, <2>3
      <4> QED
        BY <1>1, <4>1 DEF LeadsOf
    <3>4. v \in Linked(Within'[d], site', read')
      BY <3>2, <3>3 DEF Linked
    <3> QED
      BY <1>3, <2>3, <3>4, WithinSays
  <2> QED
    BY <1>6, <2>2, <2>3
<1>15. RootsPlaced'
  <2>1. queued_html # {}
    BY <1>1, <1>3
  <2> QED
    BY <1>6, <2>1 DEF Levels, RootsPlaced
<1> QED
  BY <1>10, <1>11, <1>12, <1>13, <1>14, <1>15 DEF Levels

LEMMA StepDeep == IInv /\ Tried /\ Deep /\ [Next]_vars => Deep'
<1> SUFFICES ASSUME IInv, Tried, Deep, [Next]_vars, NoMoves' PROVE Levels'
  BY DEF Deep
<1>1. site' = site
  BY DEF Next, Crawling, Process, StartCrawl, BeginRound, PopUrl, Fetch, EndRound,
     FinishCrawl, NotModified, Unchanged, Collected, Redirected, Gone, NotHtml,
     Flaky, Answered, RequestCancel, Crash, vars
<1>2. NoMoves /\ Levels
  BY <1>1 DEF NoMoves, Deep
<1>3. CASE StartCrawl
  BY <1>3, StartDeep
<1>4. CASE PopUrl
  BY <1>2, <1>4, PopDeep
<1>5. ASSUME NEW u \in Pages, Process(u) \/ Flaky(u) PROVE Levels'
  <2>1. CASE Unchanged(u) \/ Collected(u)
    BY <1>2, <2>1, FollowDeep DEF Unchanged, Collected
  <2>2. CASE NotModified(u) \/ Gone(u) \/ NotHtml(u) \/ Flaky(u)
    BY <1>2, <2>2, AnswerDeep DEF NotModified, Gone, NotHtml, Flaky
  <2>3. ~Redirected(u)
    BY <1>2 DEF NoMoves, Redirected
  <2> QED
    BY <1>5, <2>1, <2>2, <2>3 DEF Process
<1>6. CASE \/ BeginRound \/ Fetch \/ EndRound \/ FinishCrawl \/ RequestCancel
           \/ Crash \/ UNCHANGED vars
  <2>1. UNCHANGED <<site, crawlVars>>
    BY <1>6 DEF BeginRound, Fetch, EndRound, FinishCrawl, RequestCancel, Crash, vars
  <2>2. UNCHANGED <<site, read, limits, known_errors, queued_html, pages_crawled, depths,
                    queue, to_fetch, visited_html>>
    BY <2>1 DEF crawlVars
  <2>3. \A v, d : PlacedAt(v, d)' <=> PlacedAt(v, d)
    BY <2>2 DEF PlacedAt
  <2>4. Pending' \subseteq Pending /\ InOrder'
    BY <1>2, <2>2 DEF Pending, InOrder, Levels
  <2>5. pages_crawled' \in Nat /\ pages_crawled' >= pages_crawled
    BY <2>2 DEF IInv, TypeOK
  <2> QED
    BY <1>2, <2>2, <2>3, <2>4, <2>5, LevelsKept
<1> QED
  BY <1>3, <1>4, <1>5, <1>6 DEF Next, Crawling

-----------------------------------------------------------------------------
(* The theorems.                                                           *)

\* Whatever the site, the redirects and the failures, a URL enters the queue of
\* a crawl once and is taken once.
THEOREM OnceQueued == Spec => []QueuedOnce
<1>1. IInv => QueuedOnce
  <2> SUFFICES ASSUME IInv PROVE QueuedOnce
    OBVIOUS
  <2>1. Cardinality(UrlsOf(queue)) = Len(queue) /\ Cardinality(UrlsOf(to_fetch)) = Len(to_fetch)
    BY DistinctCounted DEF IInv, TypeOK, QueueSound
  <2> QED
    BY <2>1 DEF QueuedOnce, IInv, QueueSound
<1> QED
  BY <1>1, Inductive, PTL

\* A crawl goes beyond max_pages by less than one round.
THEOREM Bounded == Spec => []PagesBounded
<1>1. IInv => PagesBounded
  BY DEF IInv, RoundSound, PagesBounded
<1> QED
  BY <1>1, Inductive, PTL

\* A crawl that was neither cancelled nor stopped by its page limit leaves no
\* allowed link of a page it read untried, unless it is too deep or was a known
\* broken link when the crawl began; for every site and every failure.
THEOREM NothingMissed == Spec => []Exhaustive
<1>1. IInv /\ Tried => Exhaustive
  <2> SUFFICES ASSUME IInv, Tried, phase = "done", ~cancelled,
                      pages_crawled < limits.max_pages,
                      NEW u \in read, NEW v \in (LeadsOf(u) \cap Allowed) \ known_errors
               PROVE  v \in visited_html \/ depths[u] + 1 > limits.max_depth
    BY DEF Exhaustive
  <2>1. queue = <<>>
    BY LimitsTyped DEF Tried, DoneForReason, IInv, TypeOK
  <2>2. queued_html = visited_html
    <3>1. UrlsOf(queue) = {}
      BY <2>1
    <3> QED
      BY <3>1 DEF IInv, QueueSound
  <2> QED
    BY <2>2, LimitsTyped DEF Tried, LinksKnown, IInv, TypeOK
<1> QED
  BY <1>1, TriedEver, PTL

\* The error matrix never keeps a link out of two crawls in a row.
THEOREM NeverSkippedTwice == Spec => []SkippedOnce
<1>1. Tried => SkippedOnce
  BY DEF Tried, DoneForReason, SkippedOnce
<1> QED
  BY <1>1, TriedEver, PTL

\* The variables keep their types.
THEOREM TypeCorrect == Spec => []TypeOK
<1>1. IInv => TypeOK
  BY DEF IInv
<1> QED
  BY <1>1, Inductive, PTL

\* On a site without redirects, however the crawl is batched, limited, cancelled
\* or killed and whatever fails, the depth of a page is its distance from the
\* roots over the pages read.
THEOREM DepthsAreDistances == Spec => []DepthIsDistance
<1>1. Init => Deep
  <2>1. Init => RootsPlaced
    BY DEF Init, RootsPlaced
  <2>2. Init => InOrder /\ OneLevel /\ ReadBehind /\ LinksNear /\ PlacedWithin
    BY DEF Init, InOrder, OneLevel, ReadBehind, LinksNear, PlacedWithin, PlacedAt, Pending
  <2> QED
    BY <2>1, <2>2 DEF Deep, Levels
<1>2. IInv /\ Tried /\ Deep => DepthIsDistance
  <2> SUFFICES ASSUME IInv, Tried, Levels
               PROVE  \A u \in visited_html : \A k \in 0..depths[u] : u \in Within[k] <=> k = depths[u]
    BY DEF Deep, NoMoves, DepthIsDistance
  <2> DEFINE W == Within
             T == {k \in Nat : \A u \in visited_html : u \in W[k] => depths[u] <= k}
  <2>1. W[0] = Roots /\ \A k \in Nat : W[k + 1] = W[k] \cup Linked(W[k], site, read)
    BY WithinSays
  <2>2. \A u \in visited_html : u \in Pages /\ depths[u] \in Nat /\ u \in W[depths[u]]
    BY PlacedTyped DEF Levels, PlacedWithin
  <2>3. ASSUME NEW u \in visited_html, NEW d, PlacedAt(u, d) PROVE d = depths[u]
    BY <2>3 DEF PlacedAt, IInv, QueueSound
  <2>4. visited_html \subseteq queued_html /\ read \subseteq visited_html
    BY PlacedTyped DEF IInv, QueueSound
  <2> HIDE DEF W
  <2>5. 0 \in T
    <3>1. \A u \in Roots \cap visited_html : depths[u] = 0
      BY <2>3, <2>4 DEF Levels, RootsPlaced
    <3> QED
      BY <2>1, <3>1
  <2>6. ASSUME NEW k \in Nat, k \in T PROVE k + 1 \in T
    <3> SUFFICES ASSUME NEW u \in visited_html, u \in W[k + 1] PROVE depths[u] <= k + 1
      OBVIOUS
    <3>1. CASE u \in W[k]
      BY <2>2, <2>6, <3>1
    <3>2. CASE u \in Linked(W[k], site, read)
      <4>1. PICK w \in W[k] \cap read : u \in LeadsOf(w)
        <5>1. PICK w \in W[k] \cap read : \E i \in DOMAIN site[w].hrefs : u = site[w].hrefs[i]
          BY <3>2 DEF Linked
        <5>2. site[w].kind = "page"
          BY DEF Tried, LinksKnown
        <5> QED
          BY <5>1, <5>2 DEF LeadsOf
      <4>2. depths[w] <= k /\ depths[w] \in Nat
        BY <2>2, <2>4, <2>6
      <4>3. PICK d \in Nat : PlacedAt(u, d) /\ d <= depths[w] + 1
        BY <2>4, <4>1 DEF Levels, LinksNear
      <4>4. d = depths[u]
        BY <2>3, <4>3
      <4> QED
        BY <4>2, <4>3, <4>4
    <3> QED
      BY <2>1, <3>1, <3>2
  <2> HIDE DEF T
  <2>7. Nat \subseteq T
    BY <2>5, <2>6, NatSet
  <2>8. \A k \in Nat : \A u \in visited_html : u \in W[k] => depths[u] <= k
    BY <2>7 DEF T
  <2>9. ASSUME NEW u \in visited_html, NEW k \in 0..depths[u]
        PROVE  u \in W[k] <=> k = depths[u]
    <3>1. k \in Nat /\ depths[u] \in Nat /\ k <= depths[u] /\ u \in W[depths[u]]
      BY <2>2
    <3>2. u \in W[k] => depths[u] <= k
      BY <2>8, <3>1
    <3> QED
      BY <3>1, <3>2
  <2> QED
    BY <2>9 DEF W
<1> QED
  BY <1>1, <1>2, StepDeep, TriedEver, PTL DEF Spec

\* The type invariant and the facts above, which the run checks at once.
THEOREM SafetyHolds == Spec => []Safety
BY TypeCorrect, OnceQueued, Bounded, DepthsAreDistances, NothingMissed, NeverSkippedTwice,
   PTL DEF Safety

LEMMA InitMaps == Init => Abstract!Init
<1> SUFFICES ASSUME Init PROVE Abstract!Init
  OBVIOUS
<1>1. \A u \in Pages : LeadsOf(u) \subseteq Pages
  <2> SUFFICES ASSUME NEW u \in Pages PROVE LeadsOf(u) \subseteq Pages
    OBVIOUS
  <2>1. site[u] \in Answer
    BY SiteAssumption DEF Init
  <2>2. CASE site[u].kind = "page"
    <3>1. site[u].hrefs \in Seq(Pages)
      BY <2>1, <2>2 DEF Answer
    <3>2. \A i \in DOMAIN site[u].hrefs : site[u].hrefs[i] \in Pages
      BY <3>1, LenProperties, ElementOfSeq
    <3> QED
      BY <2>2, <3>2 DEF LeadsOf
  <2>3. CASE site[u].kind = "moved"
    <3>1. site[u].to \in Pages
      BY <2>1, <2>3 DEF Answer
    <3> QED
      BY <2>3, <3>1 DEF LeadsOf
  <2>4. CASE site[u].kind # "page" /\ site[u].kind # "moved"
    BY <2>4 DEF LeadsOf
  <2> QED
    BY <2>2, <2>3, <2>4
<1>2. [u \in Pages |-> LeadsOf(u)] \in [Pages -> SUBSET Pages]
  BY <1>1
<1> QED
  BY <1>2 DEF Init, Abstract!Init

LEMMA StepMaps == IInv /\ IInv' /\ [Next]_vars => [Abstract!Next]_Abstract!vars
<1> SUFFICES ASSUME IInv, [Next]_vars PROVE [Abstract!Next]_Abstract!vars
  OBVIOUS
<1> DEFINE leadsTo == [u \in Pages |-> LeadsOf(u)]
           running == phase \in {"loop", "fill", "process"}
<1>0. site' = site
  BY DEF Next, Crawling, Process, StartCrawl, BeginRound, PopUrl, Fetch, EndRound,
     FinishCrawl, NotModified, Unchanged, Collected, Redirected, Gone, NotHtml,
     Flaky, Answered, RequestCancel, Crash, vars
<1>1. leadsTo' = leadsTo
  BY <1>0 DEF LeadsOf
<1>2. CASE StartCrawl
  <2>1. queued_html' = {Start} \cup {Seeds[i] : i \in DOMAIN Seeds} /\ visited_html' = {}
    BY <1>2, RootUrls DEF StartCrawl
  <2>2. ~running /\ running'
    BY <1>2 DEF StartCrawl
  <2>3. Abstract!Begin
    BY <1>1, <2>1, <2>2 DEF Abstract!Begin
  <2> QED
    BY <2>3 DEF Abstract!Next
<1>3. CASE PopUrl
  <2> DEFINE u == Head(queue).url
  <2>1. /\ queue \in Seq(Item) /\ queue # <<>>
        /\ UrlsOf(queue) \subseteq queued_html /\ UrlsOf(queue) \cap visited_html = {}
    BY <1>3 DEF PopUrl, IInv, TypeOK, QueueSound
  <2>2. u \in UrlsOf(queue) /\ u \in Pages
    <3> HIDE DEF UrlsOf
    <3>1. Head(queue) \in Item /\ UrlsOf(queue) = {Head(queue).url} \cup UrlsOf(Tail(queue))
      BY <2>1, TailUrls
    <3> QED
      BY <3>1 DEF Item
  <2>3. running /\ running' /\ queued_html' = queued_html
        /\ u \in queued_html \ visited_html /\ visited_html' = visited_html \cup {u}
    BY <1>3, <2>1, <2>2 DEF PopUrl
  <2>4. Abstract!Explore(u)
    BY <1>1, <2>3 DEF Abstract!Explore
  <2> QED
    BY <2>2, <2>4 DEF Abstract!Next
<1>4. ASSUME NEW u \in Pages, Unchanged(u) \/ Collected(u)
      PROVE  Abstract!Next
  <2>1. /\ site[u].kind = "page" /\ FollowLinks(u) /\ Answered(u)
        /\ to_fetch # <<>> /\ Head(to_fetch).url = u
        /\ running /\ running' /\ visited_html' = visited_html
    BY <1>4 DEF Unchanged, Collected, Answered
  <2>2. u \in visited_html
    BY <2>1, Answering
  <2>3. PICK new \in SUBSET (LeadsOf(u) \ queued_html) : queued_html' = queued_html \cup new
    BY <2>1, Following
  <2>4. leadsTo[u] = LeadsOf(u)
    OBVIOUS
  <2>5. Abstract!Discover(u)
    BY <1>1, <2>1, <2>2, <2>3, <2>4 DEF Abstract!Discover
  <2> QED
    BY <2>5 DEF Abstract!Next
<1>5. ASSUME NEW u \in Pages, Redirected(u)
      PROVE  Abstract!Next
  <2>1. /\ Answered(u) /\ site[u].kind = "moved"
        /\ running /\ running' /\ visited_html' = visited_html
    BY <1>5 DEF Redirected, Answered
  <2>2. u \in visited_html
    BY <2>1, Answering
  <2>3. \E new \in SUBSET (LeadsOf(u) \ queued_html) : queued_html' = queued_html \cup new
    <3>1. LeadsOf(u) = {site[u].to}
      BY <2>1 DEF LeadsOf
    <3>2. \/ queued_html' = queued_html \cup {}
          \/ queued_html' = queued_html \cup {site[u].to} /\ site[u].to \notin queued_html
      BY <1>5 DEF Redirected
    <3> QED
      BY <3>1, <3>2
  <2>4. leadsTo[u] = LeadsOf(u)
    OBVIOUS
  <2>5. Abstract!Discover(u)
    BY <1>1, <2>1, <2>2, <2>3, <2>4 DEF Abstract!Discover
  <2> QED
    BY <2>5 DEF Abstract!Next
<1>6. CASE FinishCrawl \/ Crash
  <2>1. running /\ ~running' /\ queued_html' = queued_html /\ visited_html' = visited_html
    BY <1>6 DEF FinishCrawl, Crash, crawlVars
  <2>2. Abstract!Stop
    BY <1>1, <2>1 DEF Abstract!Stop
  <2> QED
    BY <2>2 DEF Abstract!Next
<1>7. CASE \/ BeginRound \/ Fetch \/ EndRound \/ RequestCancel \/ UNCHANGED vars
           \/ \E u \in Pages : NotModified(u) \/ Gone(u) \/ NotHtml(u) \/ Flaky(u)
  <2>1. running' = running /\ queued_html' = queued_html /\ visited_html' = visited_html
    BY <1>7 DEF BeginRound, Fetch, EndRound, RequestCancel, NotModified, Gone,
       NotHtml, Flaky, Answered, crawlVars, vars
  <2> QED
    BY <1>1, <2>1 DEF Abstract!vars
<1> QED
  BY <1>2, <1>3, <1>4, <1>5, <1>6, <1>7 DEF Next, Crawling, Process

\* The breadth-first search of crawl.py, with its rounds, redirects, limits,
\* cancellations and restarts, implements OncePerCrawl.
THEOREM Implements == Spec => ExploresOnce
<1> QED
  BY InitMaps, StepMaps, Inductive, PTL DEF Spec, ExploresOnce, Abstract!Spec
=============================================================================
