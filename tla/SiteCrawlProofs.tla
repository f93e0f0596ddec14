--------------------------- MODULE SiteCrawlProofs ---------------------------
(***************************************************************************)
(* Proofs about SiteCrawl: types, URLs that are in one place, the best     *)
(* candidate of every model, the reason a saved run gives for its end; the *)
(* order of the queue, depths that are distances, crawls that are complete.*)
(***************************************************************************)
EXTENDS SiteCrawl, DataLemmas

-----------------------------------------------------------------------------
(* Indices and sequences                                                   *)

LEMMA LeastIndex ==
    ASSUME NEW S \in SUBSET Nat, S # {}
    PROVE  Min(S) \in S /\ \A y \in S : Min(S) <= y
<1> DEFINE T == {0..n : n \in S}
<1>1. T \subseteq FiniteSubsetsOf(Nat) /\ T # {}
  <2>1. \A n \in S : IsFiniteSet(0..n) /\ 0..n \subseteq Nat
    BY FS_Interval
  <2>2. QED
    BY <2>1 DEF FiniteSubsetsOf
<1>2. IsWellFoundedOn(StrictSubsetOrdering(Nat), FiniteSubsetsOf(Nat))
  BY FS_StrictSubsetOrderingWellFounded
<1> HIDE DEF T
<1>3. PICK X \in T : \A Y \in T : <<Y, X>> \notin StrictSubsetOrdering(Nat)
  BY <1>1, <1>2, WFMin
<1>4. PICK x \in S : X = 0..x
  BY <1>3 DEF T
<1>5. \A y \in S : x <= y
  <2> SUFFICES ASSUME NEW y \in S, y < x PROVE FALSE
    OBVIOUS
  <2>1. 0..y \in T /\ 0..y \subseteq 0..x /\ x \in 0..x /\ x \notin 0..y
    BY DEF T
  <2>2. 0..y \in SUBSET Nat /\ 0..x \in SUBSET Nat /\ 0..y # 0..x
    BY <2>1
  <2>3. <<0..y, 0..x>> \in StrictSubsetOrdering(Nat)
    <3> DEFINE Y == 0..y
               Z == 0..x
    <3>1. Y \in SUBSET Nat /\ Z \in SUBSET Nat /\ Y \subseteq Z /\ Y # Z
      BY <2>1, <2>2
    <3> HIDE DEF Y, Z
    <3>2. <<Y, Z>> \in StrictSubsetOrdering(Nat)
      BY <3>1 DEF StrictSubsetOrdering
    <3>3. QED
      BY <3>2 DEF Y, Z
  <2>4. QED
    BY <1>3, <1>4, <2>1, <2>3
<1>6. QED
  BY <1>5 DEF Min

\* The URLs of a sequence of entries are all different.
Distinct(entries) ==
    \A i, j \in DOMAIN entries : entries[i].url = entries[j].url => i = j

LEMMA UrlsOfUnion ==
    /\ \A S, T : UrlsOf(S \cup T) = UrlsOf(S) \cup UrlsOf(T)
    /\ \A e : UrlsOf({e}) = {e.url}
<1>1. ASSUME NEW S, NEW T PROVE UrlsOf(S \cup T) = UrlsOf(S) \cup UrlsOf(T)
  BY DEF UrlsOf
<1>2. QED
  BY <1>1 DEF UrlsOf

LEMMA TailOfEntries ==
    ASSUME NEW q \in Seq(Entry), q # <<>>
    PROVE  /\ Head(q) \in Entry /\ Tail(q) \in Seq(Entry)
           /\ UrlsOf(Range(q)) = UrlsOf(Range(Tail(q))) \cup {Head(q).url}
           /\ Distinct(q) => Distinct(Tail(q)) /\ Head(q).url \notin UrlsOf(Range(Tail(q)))
<1>1. /\ Head(q) = q[1] /\ Len(q) \in Nat \ {0} /\ DOMAIN q = 1..Len(q)
      /\ q \in [1..Len(q) -> Entry]
  BY EmptySeq, LenProperties
<1>2. /\ Tail(q) \in Seq(Entry) /\ DOMAIN Tail(q) = 1..(Len(q) - 1)
      /\ \A i \in 1..(Len(q) - 1) : Tail(q)[i] = q[i + 1]
  BY <1>1, HeadTailProperties, LenProperties
<1>3. Range(q) = Range(Tail(q)) \cup {Head(q)}
  <2>1. \A i \in DOMAIN q : i = 1 \/ (i - 1 \in DOMAIN Tail(q) /\ q[i] = Tail(q)[i - 1])
    BY <1>1, <1>2
  <2>2. \A i \in DOMAIN Tail(q) : i + 1 \in DOMAIN q
    BY <1>1, <1>2
  <2>3. 1 \in DOMAIN q
    BY <1>1
  <2>4. \A x : x \in Range(q) => x \in Range(Tail(q)) \cup {Head(q)}
    BY <1>1, <2>1 DEF Range
  <2>5. \A x : x \in Range(Tail(q)) => x \in Range(q)
    BY <1>2, <2>2 DEF Range
  <2>6. Head(q) \in Range(q)
    BY <1>1, <2>3 DEF Range
  <2>7. QED
    BY <2>4, <2>5, <2>6
<1>4. ASSUME Distinct(q)
      PROVE  Distinct(Tail(q)) /\ Head(q).url \notin UrlsOf(Range(Tail(q)))
  <2>1. \A i \in DOMAIN Tail(q) : i + 1 \in DOMAIN q /\ i + 1 # 1 /\ Tail(q)[i] = q[i + 1]
    BY <1>1, <1>2
  <2>2. Distinct(Tail(q))
    BY <1>2, <1>4, <2>1 DEF Distinct
  <2>3. Head(q).url \notin UrlsOf(Range(Tail(q)))
    BY <1>1, <1>4, <2>1 DEF Distinct, UrlsOf, Range
  <2>4. QED
    BY <2>2, <2>3
<1>5. UrlsOf(Range(q)) = UrlsOf(Range(Tail(q))) \cup {Head(q).url}
  <2>1. UrlsOf(Range(q)) = UrlsOf(Range(Tail(q))) \cup UrlsOf({Head(q)})
    BY <1>3, UrlsOfUnion
  <2>2. QED
    BY <2>1, UrlsOfUnion
<1>6. QED
  BY <1>1, <1>2, <1>4, <1>5

LEMMA ConcatOfEntries ==
    ASSUME NEW q \in Seq(Entry), NEW t \in Seq(Entry)
    PROVE  /\ q \o t \in Seq(Entry)
           /\ UrlsOf(Range(q \o t)) = UrlsOf(Range(q)) \cup UrlsOf(Range(t))
           /\ Distinct(q) /\ Distinct(t) /\ UrlsOf(Range(q)) \cap UrlsOf(Range(t)) = {}
                 => Distinct(q \o t)
<1> DEFINE m == Len(q)
           n == Len(t)
           c == q \o t
<1>1. m \in Nat /\ n \in Nat /\ DOMAIN q = 1..m /\ DOMAIN t = 1..n
  BY LenProperties
<1>2. /\ c \in Seq(Entry) /\ DOMAIN c = 1..(m + n)
      /\ \A i \in 1..(m + n) : c[i] = IF i <= m THEN q[i] ELSE t[i - m]
  BY <1>1, ConcatProperties, LenProperties
<1> HIDE DEF c, m, n
<1>3. \A i \in DOMAIN c : \/ i \in DOMAIN q /\ c[i] = q[i]
                          \/ i - m \in DOMAIN t /\ c[i] = t[i - m]
  BY <1>1, <1>2
<1>4. /\ \A i \in DOMAIN q : i \in DOMAIN c /\ c[i] = q[i]
      /\ \A i \in DOMAIN t : i + m \in DOMAIN c /\ c[i + m] = t[i]
  BY <1>1, <1>2
<1>5. Range(c) = Range(q) \cup Range(t)
  BY <1>3, <1>4 DEF Range
<1>6. ASSUME Distinct(q), Distinct(t), UrlsOf(Range(q)) \cap UrlsOf(Range(t)) = {}
      PROVE  Distinct(c)
  <2>1. \A i \in DOMAIN q, j \in DOMAIN t : q[i].url # t[j].url
    BY <1>6 DEF UrlsOf, Range
  <2>2. SUFFICES ASSUME NEW i \in DOMAIN c, NEW j \in DOMAIN c, c[i].url = c[j].url PROVE i = j
    BY DEF Distinct
  <2>3. i \in Int /\ j \in Int
    BY <1>1, <1>2
  <2>4. CASE i \in DOMAIN q /\ c[i] = q[i]
    BY <1>3, <1>6, <2>1, <2>2, <2>4 DEF Distinct
  <2>5. CASE i - m \in DOMAIN t /\ c[i] = t[i - m]
    <3>1. j - m \in DOMAIN t /\ c[j] = t[j - m]
      BY <1>3, <2>1, <2>2, <2>5
    <3>2. i - m = j - m
      BY <1>6, <2>2, <2>5, <3>1 DEF Distinct
    <3>3. QED
      BY <1>1, <2>3, <3>2
  <2>6. QED
    BY <1>3, <2>4, <2>5
<1>7. QED
  BY <1>2, <1>5, <1>6 DEF c, UrlsOf

LEMMA InOrderEnumerates ==
    ASSUME NEW S, NEW at \in InOrder(S)
    PROVE  /\ at \in [1..Cardinality(S) -> S]
           /\ \A i, j \in 1..Cardinality(S) : at[i] = at[j] => i = j
           /\ \A f \in S : \E i \in 1..Cardinality(S) : at[i] = f
<1>1. at \in Injection(1..Cardinality(S), S) /\ at \in Surjection(1..Cardinality(S), S)
  BY DEF InOrder, Bijection
<1>2. QED
  BY <1>1 DEF Injection, Surjection, IsInjective

\* The entries made of the links that are new.
LEMMA NewEntries ==
    ASSUME NEW offer \in Offer, NEW entry \in Entry, seen \in SUBSET Urls,
           NEW at \in InOrder(Fresh(offer.links))
    PROVE  LET new == Entries(offer.links, at, entry)
           IN  /\ new \in Seq(Entry) /\ Distinct(new)
               /\ UrlsOf(Range(new)) = {offer.links[i] : i \in Fresh(offer.links)}
               /\ UrlsOf(Range(new)) \in SUBSET (Urls \ seen)
<1> DEFINE links == offer.links
           fresh == Fresh(links)
           n == Cardinality(fresh)
           new == Entries(links, at, entry)
<1>0. links \in Seq(Urls)
  BY DEF Offer
<1>1. links \in [1..Len(links) -> Urls] /\ Len(links) \in Nat
  BY <1>0, LenProperties
<1>2. fresh \subseteq 1..Len(links) /\ DOMAIN links = 1..Len(links)
  BY <1>1 DEF Fresh
<1>3. n \in Nat
  <2>1. IsFiniteSet(1..Len(links)) /\ fresh \in SUBSET (1..Len(links))
    BY <1>1, <1>2, FS_Interval
  <2>2. IsFiniteSet(fresh)
    BY <2>1, FS_Subset
  <2>3. QED
    BY <2>2, FS_CardinalityType
<1>4. /\ at \in [1..n -> fresh]
      /\ \A i, j \in 1..n : at[i] = at[j] => i = j
      /\ \A f \in fresh : \E i \in 1..n : at[i] = f
  BY InOrderEnumerates
<1>5. \A f \in fresh : links[f] \in Urls \ seen
  BY <1>1, <1>2 DEF Fresh
<1>6. \A f, g \in fresh : links[f] = links[g] => f = g
  <2> SUFFICES ASSUME NEW f \in fresh, NEW g \in fresh, links[f] = links[g] PROVE f = g
    OBVIOUS
  <2>1. f \in 1..Len(links) /\ g \in 1..Len(links)
    BY <1>2
  <2>2. ~(f < g)
    BY <2>1, <1>1 DEF Fresh
  <2>3. ~(g < f)
    BY <2>1, <1>1 DEF Fresh
  <2>4. QED
    BY <2>1, <2>2, <2>3
<1> HIDE DEF n, fresh, links
<1>7. /\ DOMAIN new = 1..n
      /\ \A k \in 1..n : /\ new[k] = [url |-> links[at[k]], depth |-> entry.depth + 1,
                                      parent |-> entry.url]
                         /\ new[k] \in Entry /\ new[k].url = links[at[k]]
  BY <1>4, <1>5 DEF Entries, Entry
<1>8. new \in Seq(Entry)
  <2>1. new = [k \in 1..n |-> new[k]]
    BY <1>4 DEF Entries
  <2>2. new \in [1..n -> Entry]
    BY <1>7, <2>1
  <2>3. QED
    BY <1>3, <2>2, SeqDef
<1>9. Distinct(new)
  BY <1>4, <1>6, <1>7 DEF Distinct
<1>10. UrlsOf(Range(new)) = {links[i] : i \in fresh}
  BY <1>4, <1>7 DEF UrlsOf, Range
<1>11. QED
  BY <1>5, <1>8, <1>9, <1>10 DEF links, fresh

-----------------------------------------------------------------------------
(* Candidates                                                              *)

LEMMA ConfidenceType == \A x \in Candidate : x.confidence \in 0..100
<1>1. Confidences \subseteq 0..100
  BY CrawlAssumption
<1>2. QED
  BY <1>1 DEF Candidate

LEMMA BeforeOrder ==
    ASSUME NEW c \in Candidate, NEW d \in Candidate, NEW e \in Candidate
    PROVE  /\ Before(c, d) => ~Before(d, c)
           /\ ~Before(c, d) /\ ~Before(d, e) => ~Before(c, e)
<1>1. \A x \in Candidate : x.depth \in Nat /\ x.confidence \in Int
  BY ConfidenceType DEF Candidate
<1>2. QED
  BY <1>1 DEF Before

\* Of candidates of one depth there is one that no other goes before.
LEMMA FirstExists ==
    ASSUME NEW depth \in Nat, NEW C, NEW candidates \in [C -> Candidate], C # {},
           \A i \in C : candidates[i].depth = depth
    PROVE  \E k \in C : \A j \in C : ~Before(candidates[j], candidates[k])
<1> DEFINE S == {100 - candidates[i].confidence : i \in C}
<1>1. \A i \in C : candidates[i].confidence \in 0..100
  BY ConfidenceType
<1>2. S \in SUBSET Nat /\ S # {}
  BY <1>1
<1>3. Min(S) \in S /\ \A y \in S : Min(S) <= y
  <2> HIDE DEF S
  <2>1. QED
    BY <1>2, LeastIndex
<1>4. PICK k \in C : Min(S) = 100 - candidates[k].confidence
  BY <1>3
<1>5. \A j \in C : ~(candidates[j].confidence > candidates[k].confidence)
  <2>1. \A j \in C : 100 - candidates[k].confidence <= 100 - candidates[j].confidence
    BY <1>3, <1>4
  <2>2. QED
    BY <1>1, <2>1
<1>6. QED
  BY <1>5 DEF Before

\* What is kept for a model after a page: its type, that it is no worse than
\* before, and no worse than what the page offers.
LEMMA BestOfPage ==
    ASSUME NEW depth \in Nat, NEW candidates \in Seq(Candidate), NEW m \in Models,
           \A i \in DOMAIN candidates : candidates[i].depth = depth,
           kept[m] \in Candidate \cup {NoCandidate}
    PROVE  /\ Best(m, candidates) \in Candidate \cup {NoCandidate}
           /\ kept[m] # NoCandidate =>
                 Best(m, candidates) # NoCandidate /\ ~Before(kept[m], Best(m, candidates))
           /\ \A i \in DOMAIN candidates : ModelOf[candidates[i].url] = m =>
                 /\ Best(m, candidates) # NoCandidate
                 /\ ~Before(candidates[i], Best(m, candidates))
<1> DEFINE of == {i \in DOMAIN candidates : ModelOf[candidates[i].url] = m}
           better == {i \in of : /\ kept[m] = NoCandidate \/ Before(candidates[i], kept[m])
                                 /\ \A j \in of : ~Before(candidates[j], candidates[i])}
           best == Best(m, candidates)
<1>1. candidates \in [1..Len(candidates) -> Candidate] /\ Len(candidates) \in Nat
  BY LenProperties
<1>2. of \subseteq 1..Len(candidates) /\ \A i \in of : candidates[i] \in Candidate
  BY <1>1
<1>3. NoCandidate \notin Candidate
  BY CrawlAssumption DEF Candidate
<1>4. best = IF better = {} THEN kept[m] ELSE candidates[Min(better)]
  BY DEF Best
<1>5. CASE better # {}
  <2>1. better \in SUBSET Nat
    BY <1>2
  <2>2. Min(better) \in better
    <3> HIDE DEF better
    <3>1. QED
      BY <1>5, <2>1, LeastIndex
  <2>3. best = candidates[Min(better)] /\ best \in Candidate
    BY <1>2, <1>4, <1>5, <2>2
  <2>4. kept[m] = NoCandidate \/ ~Before(kept[m], best)
    BY <1>3, <2>2, <2>3, BeforeOrder
  <2>5. QED
    BY <1>3, <2>2, <2>3, <2>4
<1>6. CASE better = {}
  <2>1. best = kept[m]
    BY <1>4, <1>6
  <2>2. kept[m] # NoCandidate => ~Before(kept[m], best)
    BY <1>3, <2>1, BeforeOrder
  <2>3. ASSUME NEW i \in of
        PROVE  best # NoCandidate /\ ~Before(candidates[i], best)
    <3>1. PICK k \in of : \A j \in of : ~Before(candidates[j], candidates[k])
      <4> DEFINE those == [j \in of |-> candidates[j]]
      <4>1. those \in [of -> Candidate] /\ \A j \in of : those[j].depth = depth
        BY <1>2
      <4>2. of # {}
        BY <2>3
      <4> HIDE DEF of, those
      <4>3. \E k \in of : \A j \in of : ~Before(those[j], those[k])
        BY <4>1, <4>2, FirstExists
      <4>4. QED
        BY <4>3 DEF those
    <3>2. kept[m] # NoCandidate /\ ~Before(candidates[k], kept[m])
      BY <1>6, <3>1
    <3>3. kept[m] \in Candidate /\ candidates[i] \in Candidate /\ candidates[k] \in Candidate
      BY <1>2, <3>2
    <3>4. QED
      BY <2>1, <3>1, <3>2, <3>3, BeforeOrder
  <2>4. QED
    BY <1>3, <2>1, <2>2, <2>3
<1>7. QED
  BY <1>5, <1>6

-----------------------------------------------------------------------------
(* Types                                                                   *)

LEMMA NormalizedType ==
    ASSUME NEW depth \in Int, NEW pages \in Int, NEW same \in BOOLEAN
    PROVE  Normalized(depth, pages, same) \in Policy
<1>1. DepthCap \in Nat /\ PageCap \in Nat \ {0}
  BY CrawlAssumption
<1>2. Clamp(depth, 0, DepthCap) \in 0..DepthCap /\ Clamp(pages, 1, PageCap) \in 1..PageCap
  BY <1>1 DEF Clamp
<1>3. QED
  BY <1>2 DEF Normalized, Policy

\* What a scanned page leaves of the queue and what of the candidates.
LEMMA ScanQueue ==
    ASSUME TypeOK, NEW offer, ScanPage(offer)
    PROVE  /\ offer \in Offer /\ Head(queue) \in Entry /\ queue # <<>>
           /\ \E new \in Seq(Entry) :
                 /\ queue' = Tail(queue) \o new /\ Distinct(new)
                 /\ UrlsOf(Range(new)) \in SUBSET (Urls \ seen)
                 /\ seen' = seen \cup UrlsOf(Range(new))
<1>1. queue \in Seq(Entry) /\ queue # <<>> /\ seen \in SUBSET Urls
  BY DEF TypeOK, ScanPage, Visiting
<1>2. Head(queue) \in Entry /\ Head(queue).url \in Urls
  BY <1>1, TailOfEntries DEF Entry
<1>3. offer \in Offer
  <2>1. Offers \in [Urls -> SUBSET Offer]
    BY CrawlAssumption
  <2>2. offer \in Offers[Head(queue).url]
    BY DEF ScanPage
  <2>3. QED
    BY <1>2, <2>1, <2>2
<1>4. PICK at \in InOrder(Fresh(offer.links)) :
          queue' = Tail(queue) \o Entries(offer.links, at, Head(queue))
  BY DEF ScanPage, Enqueued
<1> DEFINE new == Entries(offer.links, at, Head(queue))
<1>5. /\ new \in Seq(Entry) /\ Distinct(new)
      /\ UrlsOf(Range(new)) = {offer.links[i] : i \in Fresh(offer.links)}
      /\ UrlsOf(Range(new)) \in SUBSET (Urls \ seen)
  BY <1>1, <1>2, <1>3, NewEntries
<1>6. seen' = seen \cup UrlsOf(Range(new))
  BY <1>5 DEF ScanPage
<1>7. QED
  BY <1>1, <1>2, <1>3, <1>4, <1>5, <1>6

LEMMA ScanKept ==
    ASSUME TypeOK, NEW offer, ScanPage(offer)
    PROVE  /\ kept' \in [Models -> Candidate \cup {NoCandidate}]
           /\ \A m \in Models : kept[m] # NoCandidate =>
                 kept'[m] # NoCandidate /\ ~Before(kept[m], kept'[m])
           /\ \A found \in Range(offer.candidates) :
                 LET c == Found(found, Head(queue).depth)
                 IN  /\ c \in Candidate /\ ModelOf[c.url] \in Models
                     /\ kept'[ModelOf[c.url]] # NoCandidate
                     /\ ~Before(c, kept'[ModelOf[c.url]])
<1> DEFINE depth == Head(queue).depth
           candidates == [i \in DOMAIN offer.candidates |-> Found(offer.candidates[i], depth)]
<1>1. offer \in Offer /\ depth \in Nat
  BY ScanQueue DEF Entry
<1>2. offer.candidates \in Seq([url : Urls \ Unusable, confidence : Confidences])
  BY <1>1 DEF Offer
<1>3. /\ Len(offer.candidates) \in Nat /\ DOMAIN offer.candidates = 1..Len(offer.candidates)
      /\ \A i \in DOMAIN offer.candidates :
            offer.candidates[i] \in [url : Urls \ Unusable, confidence : Confidences]
  <2> DEFINE Model == [url : Urls \ Unusable, confidence : Confidences]
             models == offer.candidates
  <2>1. models \in Seq(Model)
    BY <1>2
  <2> HIDE DEF Model, models
  <2>2. models \in [1..Len(models) -> Model] /\ Len(models) \in Nat
    BY <2>1, LenProperties
  <2>3. \A i \in DOMAIN models : models[i] \in Model
    BY <2>2
  <2>4. DOMAIN models = 1..Len(models)
    BY <2>2
  <2>5. QED
    BY <2>2, <2>3, <2>4 DEF Model, models
<1>4. /\ DOMAIN candidates = 1..Len(offer.candidates)
      /\ \A i \in DOMAIN candidates : /\ candidates[i] = Found(offer.candidates[i], depth)
                                      /\ candidates[i] \in Candidate
                                      /\ candidates[i].depth = depth
  BY <1>1, <1>3 DEF Found, Candidate
<1>5. candidates \in Seq(Candidate)
  <2>1. candidates \in [1..Len(offer.candidates) -> Candidate]
    BY <1>3, <1>4
  <2>2. QED
    BY <1>3, <2>1, SeqDef
<1>6. kept' = [m \in Models |-> Best(m, candidates)]
  BY DEF ScanPage
<1>7. kept \in [Models -> Candidate \cup {NoCandidate}]
  BY DEF TypeOK
<1> HIDE DEF candidates, depth
<1>8. ASSUME NEW m \in Models
      PROVE  /\ kept'[m] \in Candidate \cup {NoCandidate}
             /\ kept[m] # NoCandidate => kept'[m] # NoCandidate /\ ~Before(kept[m], kept'[m])
             /\ \A i \in DOMAIN candidates : ModelOf[candidates[i].url] = m =>
                   kept'[m] # NoCandidate /\ ~Before(candidates[i], kept'[m])
  BY <1>1, <1>4, <1>5, <1>6, <1>7, BestOfPage
<1>9. \A i \in DOMAIN candidates : ModelOf[candidates[i].url] \in Models
  <2>1. ModelOf \in [Urls -> Models]
    BY CrawlAssumption
  <2>2. QED
    BY <1>4, <2>1 DEF Candidate
<1>10. \A found \in Range(offer.candidates) :
          \E i \in DOMAIN candidates : candidates[i] = Found(found, depth)
  BY <1>3, <1>4 DEF Range
<1>11. QED
  BY <1>4, <1>6, <1>8, <1>9, <1>10 DEF depth

\* What is counted is finite.
Counted == IsFiniteSet(scanned) /\ IsFiniteSet(limited)

LEMMA TypesInductive ==
    ASSUME TypeOK, Counted, [Next]_vars
    PROVE  TypeOK' /\ Counted'
<1> DEFINE entry == Head(queue)
<1>1. ASSUME NEW depth \in AskedDepths, NEW pages \in AskedPages, NEW same \in BOOLEAN,
             BeginScan(depth, pages, same)
      PROVE  TypeOK' /\ Counted'
  <2>1. policy' \in Policy
    <3>1. depth \in Int /\ pages \in Int
      BY CrawlAssumption
    <3>2. QED
      BY <1>1, <3>1, NormalizedType DEF BeginScan
  <2>2. Start \in Urls
    BY CrawlAssumption
  <2>3. queue' \in Seq(Entry) /\ seen' \in SUBSET Urls
    BY <1>1, <2>2 DEF BeginScan, Entry
  <2>4. QED
    BY <1>1, <2>1, <2>3 DEF BeginScan, TypeOK, Counted
<1>2. CASE RejectStart
  BY <1>2 DEF RejectStart, TypeOK, Counted, Reasons
<1>3. CASE StopAtPages
  BY <1>3 DEF StopAtPages, TypeOK, Counted, Reasons
<1>4. CASE StopAtRuntime
  BY <1>4 DEF StopAtRuntime, TypeOK, Counted, Reasons
<1>5. CASE RejectEntry
  <2>1. entry \in Entry /\ queue' \in Seq(Entry)
    BY <1>5, TailOfEntries DEF RejectEntry, Visiting, TypeOK
  <2>2. limited' \in SUBSET Entry /\ IsFiniteSet(limited')
    BY <1>5, <2>1, FS_AddElement DEF RejectEntry, TypeOK, Counted
  <2>3. stop' \in Reasons
    BY <1>5 DEF RejectEntry, Reasons
  <2>4. QED
    BY <1>5, <2>1, <2>2, <2>3 DEF RejectEntry, TypeOK, Counted
<1>6. ASSUME NEW offer, ScanPage(offer) PROVE TypeOK' /\ Counted'
  <2>1. offer \in Offer /\ entry \in Entry /\ queue \in Seq(Entry) /\ queue # <<>>
    BY <1>6, ScanQueue DEF TypeOK
  <2>2. queue' \in Seq(Entry) /\ seen' \in SUBSET Urls
    <3>1. PICK new \in Seq(Entry) : /\ queue' = Tail(queue) \o new
                                    /\ UrlsOf(Range(new)) \in SUBSET (Urls \ seen)
                                    /\ seen' = seen \cup UrlsOf(Range(new))
      BY <1>6, ScanQueue
    <3>2. QED
      BY <2>1, <3>1, TailOfEntries, ConcatOfEntries DEF TypeOK
  <2>3. count' \in 0..PageCap
    <3>1. policy.pages \in 1..PageCap /\ PageCap \in Nat
      BY CrawlAssumption DEF TypeOK, Policy
    <3>2. count \in Nat /\ count < policy.pages /\ count' = count + 1
      BY <1>6, <3>1 DEF TypeOK, ScanPage, Visiting, AtPageLimit
    <3>3. QED
      BY <3>1, <3>2
  <2>4. scanned' \in SUBSET Entry /\ IsFiniteSet(scanned')
    BY <1>6, <2>1, FS_AddElement DEF ScanPage, TypeOK, Counted
  <2>5. unusable' \in Nat
    <3> DEFINE bad == {i \in DOMAIN offer.links : offer.links[i] \in Unusable}
    <3>1. offer.links \in Seq(Urls)
      BY <2>1 DEF Offer
    <3>2. DOMAIN offer.links = 1..Len(offer.links) /\ Len(offer.links) \in Nat
      BY <3>1, LenProperties
    <3>3. IsFiniteSet(1..Len(offer.links)) /\ bad \in SUBSET (1..Len(offer.links))
      BY <3>2, FS_Interval
    <3>4. Cardinality(bad) \in Nat
      <4> HIDE DEF bad
      <4>1. QED
        BY <3>3, FS_Subset, FS_CardinalityType
    <3>5. QED
      BY <1>6, <3>4 DEF ScanPage, TypeOK
  <2>6. page' \in [Urls -> Offer]
    BY <1>6, <2>1 DEF ScanPage, TypeOK
  <2>7. kept' \in [Models -> Candidate \cup {NoCandidate}]
    BY <1>6, ScanKept
  <2>8. QED
    BY <1>6, <2>2, <2>3, <2>4, <2>5, <2>6, <2>7 DEF ScanPage, TypeOK, Counted
<1>7. CASE FetchFails
  BY <1>7 DEF FetchFails, TypeOK, Counted
<1>8. CASE Finish
  BY <1>8 DEF Finish, TypeOK, Counted
<1>9. CASE Save
  <2>1. IsFiniteSet(seen)
    BY CrawlAssumption, FS_Subset DEF TypeOK
  <2>2. IsFiniteSet({m \in Models : kept[m] # NoCandidate})
    BY CrawlAssumption, FS_Subset
  <2>3. /\ Cardinality(seen) \in Nat /\ Cardinality(limited) \in Nat
        /\ Cardinality({m \in Models : kept[m] # NoCandidate}) \in Nat
    BY <2>1, <2>2, FS_CardinalityType DEF Counted
  <2>4. stop \in Reasons /\ count \in Nat /\ unusable \in Nat
    BY DEF TypeOK
  <2>5. row' \in Row
    BY <1>9, <2>3, <2>4 DEF Save, Row
  <2>6. QED
    BY <1>9, <2>5 DEF Save, TypeOK, Counted
<1>10. CASE UNCHANGED vars
  BY <1>10 DEF vars, TypeOK, Counted
<1>11. QED
  BY <1>1, <1>2, <1>3, <1>4, <1>5, <1>6, <1>7, <1>8, <1>9, <1>10 DEF Next

LEMMA InitialTypes == ASSUME Init PROVE TypeOK /\ Counted
<1>1. 0 \in Int /\ 1 \in Int /\ TRUE \in BOOLEAN
  OBVIOUS
<1>2. policy \in Policy
  BY <1>1, NormalizedType DEF Init
<1>3. NoOffer \in Offer
  <2>1. <<>> \in Seq([url : Urls \ Unusable, confidence : Confidences]) /\ <<>> \in Seq(Urls)
    BY EmptySeq
  <2>2. QED
    BY <2>1 DEF NoOffer, Offer
<1>4. PageCap \in Nat
  BY CrawlAssumption
<1>5. Counted
  BY FS_EmptySet DEF Init, Counted
<1>6. queue \in Seq(Entry) /\ count \in 0..PageCap /\ page \in [Urls -> Offer]
  BY <1>3, <1>4 DEF Init
<1>7. QED
  BY <1>2, <1>5, <1>6 DEF Init, TypeOK, Reasons

\* Every part of a scan keeps its type, however the pages link to each other.
THEOREM CrawlTypes == Spec => []TypeOK
<1>1. Init => TypeOK /\ Counted
  BY InitialTypes
<1>2. TypeOK /\ Counted /\ [Next]_vars => (TypeOK /\ Counted)'
  BY TypesInductive
<1>3. QED
  BY <1>1, <1>2, PTL DEF Spec

-----------------------------------------------------------------------------
(* The invariant                                                           *)

\* Before a scan begins nothing has been found.
IdleInv ==
    stage = "idle" =>
        queue = <<>> /\ seen = {} /\ scanned = {} /\ limited = {} /\ stop = "completed"

\* Until it is saved, the reason tells a scan that has left something out.
StopInv ==
    /\ stage \in {"idle", "crawl"} => (stop = "completed" <=> limited = {})
    /\ stage = "done" /\ stop # "invalid_url" =>
          (stop = "completed" <=> limited = {} /\ queue = <<>>)

Invariant ==
    /\ TypeOK /\ Counted /\ IdleInv /\ StopInv
    /\ PlacedOnce /\ BestKept /\ CompletedMeansAll

\* PlacedOnce in terms of the URLs that wait and those that have been visited.
LEMMA Placed ==
    PlacedOnce <=>
        /\ count = Cardinality(scanned)
        /\ Distinct(queue)
        /\ \A e, f \in scanned \cup limited : e.url = f.url => e = f
        /\ scanned \cap limited = {}
        /\ UrlsOf(Range(queue)) \cap UrlsOf(scanned \cup limited) = {}
        /\ seen = UrlsOf(Range(queue)) \cup UrlsOf(scanned \cup limited)
<1>1. UrlsOf(Range(queue) \cup scanned \cup limited)
          = UrlsOf(Range(queue)) \cup UrlsOf(scanned \cup limited)
  <2>1. Range(queue) \cup scanned \cup limited = Range(queue) \cup (scanned \cup limited)
    OBVIOUS
  <2>2. QED
    BY <2>1, UrlsOfUnion
<1>2. QED
  BY <1>1 DEF PlacedOnce, Distinct

\* Four sets of URLs: the head leaves the waiting ones, the found ones join.
LEMMA WaitingApart ==
    ASSUME NEW waiting, NEW visited, NEW rest, NEW found, NEW u,
           waiting = rest \cup {u}, u \notin rest,
           waiting \cap visited = {}, found \cap (waiting \cup visited) = {}
    PROVE  /\ rest \cap found = {} /\ u \notin visited
           /\ (rest \cup found) \cap (visited \cup {u}) = {}
<1>1. \A x : x \in waiting <=> x \in rest \/ x = u
  OBVIOUS
<1>2. \A x : ~ (x \in waiting /\ x \in visited)
  OBVIOUS
<1>3. \A x : x \in found => x \notin waiting /\ x \notin visited
  OBVIOUS
<1>4. ASSUME NEW x, x \in rest \cup found
      PROVE  x \notin visited /\ x # u
  BY <1>1, <1>2, <1>3, <1>4
<1>5. u \notin visited /\ rest \cap found = {}
  BY <1>1, <1>2, <1>3
<1>6. QED
  BY <1>4, <1>5

\* The head of the queue is visited, and what is found is new.
LEMMA VisitPlaces ==
    ASSUME TypeOK, Counted, PlacedOnce, queue # <<>>,
           NEW new \in Seq(Entry), Distinct(new),
           UrlsOf(Range(new)) \in SUBSET (Urls \ seen),
           queue' = Tail(queue) \o new, seen' = seen \cup UrlsOf(Range(new)),
           scanned' \cup limited' = scanned \cup limited \cup {Head(queue)},
           \/ limited' = limited /\ scanned' = scanned \cup {Head(queue)} /\ count' = count + 1
           \/ limited' = limited \cup {Head(queue)} /\ scanned' = scanned /\ count' = count
    PROVE  PlacedOnce' /\ Head(queue) \notin scanned \cup limited
<1> DEFINE head == Head(queue)
           visited == UrlsOf(scanned \cup limited)
           waiting == UrlsOf(Range(queue))
           rest == UrlsOf(Range(Tail(queue)))
           found == UrlsOf(Range(new))
<1>1. /\ count = Cardinality(scanned) /\ Distinct(queue)
      /\ \A e, f \in scanned \cup limited : e.url = f.url => e = f
      /\ scanned \cap limited = {} /\ waiting \cap visited = {}
      /\ seen = waiting \cup visited
  BY Placed
<1>2. queue \in Seq(Entry)
  BY DEF TypeOK
<1>3. /\ Tail(queue) \in Seq(Entry) /\ Distinct(Tail(queue))
      /\ waiting = rest \cup {head.url} /\ head.url \notin rest
  BY <1>1, <1>2, TailOfEntries
<1>3a. /\ waiting = rest \cup {head.url} /\ head.url \notin rest
       /\ waiting \cap visited = {} /\ found \cap (waiting \cup visited) = {}
  <2>1. found \cap seen = {}
    OBVIOUS
  <2> HIDE DEF head, visited, waiting, rest, found
  <2>2. QED
    BY <1>1, <1>3, <2>1
<1>3b. /\ rest \cap found = {} /\ head.url \notin visited
       /\ (rest \cup found) \cap (visited \cup {head.url}) = {}
  <2> DEFINE u == head.url
  <2>1. waiting = rest \cup {u} /\ u \notin rest
    BY <1>3a
  <2> HIDE DEF head, visited, waiting, rest, found, u
  <2>2. /\ rest \cap found = {} /\ u \notin visited
        /\ (rest \cup found) \cap (visited \cup {u}) = {}
    BY <1>3a, <2>1, WaitingApart
  <2>3. QED
    BY <2>2 DEF u
<1>4. /\ Distinct(queue') /\ UrlsOf(Range(queue')) = rest \cup found
  BY <1>3, <1>3b, ConcatOfEntries
<1>5. \A e \in scanned \cup limited : e.url # head.url
  <2>1. \A e \in scanned \cup limited : e.url \in visited
    BY DEF UrlsOf
  <2> HIDE DEF head, visited
  <2>2. QED
    BY <1>3b, <2>1
<1>6. head \notin scanned \cup limited
  BY <1>5
<1>7. UrlsOf(scanned' \cup limited') = visited \cup {head.url}
  <2>1. UrlsOf(scanned' \cup limited') = visited \cup UrlsOf({head})
    BY UrlsOfUnion
  <2>2. QED
    BY <2>1, UrlsOfUnion
<1>8. count' = Cardinality(scanned')
  <2>1. IsFiniteSet(scanned) /\ head \notin scanned
    BY <1>6 DEF Counted
  <2>2. Cardinality(scanned \cup {head}) = Cardinality(scanned) + 1
    BY <2>1, FS_AddElement
  <2>3. QED
    BY <1>1, <2>2
<1>9. \A e, f \in scanned' \cup limited' : e.url = f.url => e = f
  <2>1. scanned' \cup limited' = (scanned \cup limited) \cup {head}
    OBVIOUS
  <2> HIDE DEF head
  <2>2. ASSUME NEW e \in (scanned \cup limited) \cup {head},
               NEW f \in (scanned \cup limited) \cup {head}, e.url = f.url
        PROVE  e = f
    <3>1. CASE e = head
      BY <1>5, <2>2, <3>1
    <3>2. CASE e # head /\ f = head
      BY <1>5, <2>2, <3>2
    <3>3. CASE e # head /\ f # head
      BY <1>1, <2>2, <3>3
    <3>4. QED
      BY <3>1, <3>2, <3>3
  <2>3. QED
    BY <2>1, <2>2
<1>10. scanned' \cap limited' = {}
  BY <1>1, <1>6
<1>11. (rest \cup found) \cap (visited \cup {head.url}) = {}
  BY <1>3b
<1>12. seen' = (rest \cup found) \cup (visited \cup {head.url})
  <2>1. seen' = (waiting \cup visited) \cup found
    BY <1>1
  <2> HIDE DEF head, visited, waiting, rest, found
  <2>2. QED
    BY <1>3a, <2>1
<1>13. PlacedOnce'
  <2>1. /\ UrlsOf(Range(queue')) \cap UrlsOf(scanned' \cup limited') = {}
        /\ seen' = UrlsOf(Range(queue')) \cup UrlsOf(scanned' \cup limited')
    BY <1>4, <1>7, <1>11, <1>12
  <2>2. UrlsOf(Range(queue') \cup scanned' \cup limited') = seen'
    <3>1. Range(queue') \cup scanned' \cup limited' = Range(queue') \cup (scanned' \cup limited')
      OBVIOUS
    <3>2. QED
      BY <2>1, <3>1, UrlsOfUnion
  <2>3. QED
    BY <1>4, <1>8, <1>9, <1>10, <2>1, <2>2 DEF PlacedOnce, Distinct
<1>14. QED
  BY <1>6, <1>13

\* What the saved numbers say: the reason against what has been found.
LEMMA SavedReason ==
    ASSUME Invariant, Save
    PROVE  CompletedMeansAll'
<1> SUFFICES ASSUME stop # "invalid_url"
             PROVE  stop = "completed" <=> Cardinality(seen) = count
  BY DEF Save, CompletedMeansAll
<1> DEFINE visited == UrlsOf(scanned)
           f == [e \in scanned |-> e.url]
<1>1. /\ count = Cardinality(scanned) /\ IsFiniteSet(scanned)
      /\ \A e, g \in scanned : e.url = g.url => e = g
      /\ scanned \cap limited = {} /\ UrlsOf(Range(queue)) \cap UrlsOf(scanned \cup limited) = {}
      /\ seen = UrlsOf(Range(queue)) \cup UrlsOf(scanned \cup limited)
      /\ \A e, g \in scanned \cup limited : e.url = g.url => e = g
  BY Placed DEF Invariant, Counted
<1>2. IsFiniteSet(visited) /\ Cardinality(visited) = count
  <2>1. f \in Surjection(scanned, visited) /\ f \in Injection(scanned, visited)
    BY <1>1 DEF UrlsOf, Surjection, Injection, IsInjective
  <2> HIDE DEF f, visited
  <2>2. QED
    BY <1>1, <2>1, FS_Surjection
<1>3. visited \in SUBSET seen /\ IsFiniteSet(seen)
  <2>1. UrlsOf(scanned \cup limited) = visited \cup UrlsOf(limited)
    BY UrlsOfUnion
  <2>2. IsFiniteSet(Urls) /\ seen \in SUBSET Urls
    BY CrawlAssumption DEF Invariant, TypeOK
  <2>3. QED
    BY <1>1, <2>1, <2>2, FS_Subset
<1>4. Cardinality(seen) = count <=> seen = visited
  <2> HIDE DEF visited
  <2>1. QED
    BY <1>2, <1>3, FS_Subset
<1>5. seen = visited <=> limited = {} /\ queue = <<>>
  <2>1. ASSUME limited = {}, queue = <<>> PROVE seen = visited
    <3>1. UrlsOf(Range(queue)) = {}
      BY <2>1 DEF UrlsOf, Range
    <3>2. scanned \cup limited = scanned
      BY <2>1
    <3>3. QED
      BY <1>1, <3>1, <3>2
  <2>2. ASSUME NEW e \in limited PROVE e.url \in seen /\ e.url \notin visited
    BY <1>1, <2>2 DEF UrlsOf
  <2>3. ASSUME queue # <<>> PROVE Head(queue).url \in seen /\ Head(queue).url \notin visited
    <3>1. queue \in Seq(Entry)
      BY DEF Invariant, TypeOK
    <3>2. Head(queue).url \in UrlsOf(Range(queue))
      BY <2>3, <3>1, TailOfEntries
    <3>3. UrlsOf(scanned \cup limited) = visited \cup UrlsOf(limited)
      BY UrlsOfUnion
    <3>4. QED
      BY <1>1, <3>2, <3>3
  <2>4. QED
    BY <2>1, <2>2, <2>3
<1>6. stop = "completed" <=> limited = {} /\ queue = <<>>
  BY DEF Invariant, StopInv, Save
<1>7. QED
  BY <1>4, <1>5, <1>6

LEMMA InvariantInductive ==
    ASSUME Invariant, [Next]_vars
    PROVE  Invariant'
<1> USE DEF Invariant
<1>1. TypeOK' /\ Counted'
  BY TypesInductive
<1>2. ASSUME NEW depth \in AskedDepths, NEW pages \in AskedPages, NEW same \in BOOLEAN,
             BeginScan(depth, pages, same)
      PROVE  Invariant'
  <2>1. queue = <<>> /\ seen = {} /\ scanned = {} /\ limited = {} /\ count = 0 /\ stop = "completed"
    BY <1>2, FS_EmptySet DEF BeginScan, IdleInv, PlacedOnce
  <2> DEFINE first == [url |-> Start, depth |-> 0, parent |-> NoUrl]
  <2>2. /\ DOMAIN queue' = {1} /\ queue'[1] = first /\ Range(queue') = {first}
        /\ seen' = {first.url}
    BY <1>2 DEF BeginScan, Range
  <2>3. UrlsOf(Range(queue') \cup scanned' \cup limited') = seen'
    <3>1. Range(queue') \cup scanned' \cup limited' = {first}
      BY <1>2, <2>1, <2>2 DEF BeginScan
    <3>2. QED
      BY <2>2, <3>1, UrlsOfUnion
  <2>4. UrlsOf(scanned' \cup limited') = {}
    BY <1>2, <2>1 DEF BeginScan, UrlsOf
  <2>5. PlacedOnce'
    BY <1>2, <2>1, <2>2, <2>3, <2>4, FS_EmptySet DEF PlacedOnce, BeginScan
  <2>6. BestKept' /\ CompletedMeansAll' /\ IdleInv' /\ StopInv'
    BY <1>2, <2>1 DEF BeginScan, BestKept, CompletedMeansAll, IdleInv, StopInv
  <2>7. QED
    BY <1>1, <2>5, <2>6
<1>3. CASE RejectStart
  BY <1>1, <1>3
     DEF RejectStart, PlacedOnce, BestKept, CompletedMeansAll, IdleInv, StopInv
<1>4. CASE StopAtPages
  BY <1>1, <1>4
     DEF StopAtPages, PlacedOnce, BestKept, CompletedMeansAll, IdleInv, StopInv
<1>5. CASE StopAtRuntime
  BY <1>1, <1>5
     DEF StopAtRuntime, PlacedOnce, BestKept, CompletedMeansAll, IdleInv, StopInv
<1>6. CASE RejectEntry
  <2>1. PlacedOnce'
    <3>1. /\ <<>> \in Seq(Entry) /\ Distinct(<<>>) /\ UrlsOf(Range(<<>>)) = {}
          /\ Tail(queue) \o <<>> = Tail(queue)
      <4>1. queue \in Seq(Entry) /\ queue # <<>>
        BY <1>6 DEF TypeOK, RejectEntry, Visiting
      <4>2. Tail(queue) \o <<>> = Tail(queue)
        BY <4>1, TailOfEntries, ConcatEmptySeq
      <4>3. Distinct(<<>>) /\ UrlsOf(Range(<<>>)) = {} /\ <<>> \in Seq(Entry)
        BY EmptySeq DEF Distinct, UrlsOf, Range
      <4>4. QED
        BY <4>2, <4>3
    <3>2. /\ queue # <<>> /\ queue' = Tail(queue) /\ seen' = seen
          /\ limited' = limited \cup {Head(queue)} /\ scanned' = scanned /\ count' = count
      BY <1>6 DEF RejectEntry, Visiting
    <3>3. /\ UrlsOf(Range(<<>>)) \in SUBSET (Urls \ seen)
          /\ queue' = Tail(queue) \o <<>> /\ seen' = seen \cup UrlsOf(Range(<<>>))
          /\ scanned' \cup limited' = scanned \cup limited \cup {Head(queue)}
      BY <3>1, <3>2
    <3>4. QED
      BY <3>1, <3>2, <3>3, VisitPlaces
  <2>2. IdleInv' /\ StopInv'
    BY <1>6 DEF RejectEntry, Visiting, IdleInv, StopInv
  <2>3. BestKept' /\ CompletedMeansAll'
    BY <1>6 DEF RejectEntry, BestKept, CompletedMeansAll
  <2>4. QED
    BY <1>1, <2>1, <2>2, <2>3
<1>7. ASSUME NEW offer, ScanPage(offer) PROVE Invariant'
  <2>1. /\ count' = count + 1 /\ scanned' = scanned \cup {Head(queue)} /\ limited' = limited
        /\ page' = [page EXCEPT ![Head(queue).url] = offer] /\ stop' = stop /\ row' = row
        /\ stage = "crawl" /\ stage' = stage
    BY <1>7 DEF ScanPage, Visiting
  <2>2. PlacedOnce' /\ Head(queue) \notin scanned \cup limited
    <3>1. PICK new \in Seq(Entry) :
              /\ queue' = Tail(queue) \o new /\ Distinct(new)
              /\ UrlsOf(Range(new)) \in SUBSET (Urls \ seen)
              /\ seen' = seen \cup UrlsOf(Range(new))
      BY <1>7, ScanQueue
    <3>2. queue # <<>>
      BY <1>7, ScanQueue
    <3>3. scanned' \cup limited' = scanned \cup limited \cup {Head(queue)}
      BY <2>1
    <3>4. QED
      BY <2>1, <3>1, <3>2, <3>3, VisitPlaces
  <2>3. IdleInv' /\ StopInv' /\ CompletedMeansAll'
    BY <2>1 DEF IdleInv, StopInv, CompletedMeansAll
  <2>4. BestKept'
    <3> SUFFICES ASSUME NEW e \in scanned', NEW found \in Range(page'[e.url].candidates)
                 PROVE  LET c == Found(found, e.depth)
                        IN  /\ kept'[ModelOf[c.url]] # NoCandidate
                            /\ ~Before(c, kept'[ModelOf[c.url]])
      BY DEF BestKept
    <3>1. Head(queue) \in Entry /\ page \in [Urls -> Offer] /\ scanned \subseteq Entry
      BY <1>7, ScanQueue DEF TypeOK
    <3>2. CASE e = Head(queue)
      <4>1. page'[e.url] = offer
        BY <2>1, <3>1, <3>2 DEF Entry
      <4>2. QED
        BY <1>7, <3>2, <4>1, ScanKept
    <3>3. CASE e \in scanned /\ e # Head(queue)
      <4> DEFINE c == Found(found, e.depth)
                 m == ModelOf[c.url]
      <4>1. e.url # Head(queue).url
        BY <2>1, <2>2, <3>3 DEF PlacedOnce
      <4>2. page'[e.url] = page[e.url] /\ page[e.url] \in Offer
        BY <2>1, <3>1, <3>3, <4>1 DEF Entry
      <4>3. kept[m] # NoCandidate /\ ~Before(c, kept[m])
        BY <3>3, <4>2 DEF BestKept
      <4>4. c \in Candidate /\ m \in Models
        <5>1. found \in [url : Urls \ Unusable, confidence : Confidences]
          <6>1. page[e.url].candidates \in Seq([url : Urls \ Unusable, confidence : Confidences])
            BY <4>2 DEF Offer
          <6>2. PICK i \in DOMAIN page[e.url].candidates : found = page[e.url].candidates[i]
            BY <4>2 DEF Range
          <6>3. QED
            BY <6>1, <6>2, LenProperties, ElementOfSeq
        <5>2. e.depth \in Nat
          BY <3>1, <3>3 DEF Entry
        <5>3. ModelOf \in [Urls -> Models]
          BY CrawlAssumption
        <5>4. QED
          BY <5>1, <5>2, <5>3 DEF Found, Candidate
      <4>5. kept'[m] # NoCandidate /\ ~Before(kept[m], kept'[m])
        BY <1>7, <4>3, <4>4, ScanKept
      <4>6. kept[m] \in Candidate /\ kept'[m] \in Candidate
        BY <1>1, <4>3, <4>4, <4>5 DEF TypeOK
      <4>7. QED
        BY <4>3, <4>4, <4>5, <4>6, BeforeOrder
    <3>4. QED
      BY <2>1, <3>2, <3>3
  <2>5. QED
    BY <1>1, <2>2, <2>3, <2>4
<1>8. CASE FetchFails
  BY <1>1, <1>8
     DEF FetchFails, Visiting, PlacedOnce, BestKept, CompletedMeansAll, IdleInv, StopInv
<1>9. CASE Finish
  BY <1>1, <1>9
     DEF Finish, PlacedOnce, BestKept, CompletedMeansAll, IdleInv, StopInv
<1>10. CASE Save
  <2>1. CompletedMeansAll'
    BY <1>10, SavedReason
  <2>2. QED
    BY <1>1, <1>10, <2>1 DEF Save, PlacedOnce, BestKept, IdleInv, StopInv
<1>11. CASE UNCHANGED vars
  BY <1>1, <1>11 DEF vars, PlacedOnce, BestKept, CompletedMeansAll, IdleInv, StopInv
<1>12. QED
  BY <1>2, <1>3, <1>4, <1>5, <1>6, <1>7, <1>8, <1>9, <1>10, <1>11 DEF Next

LEMMA InitialInvariant == ASSUME Init PROVE Invariant
<1>1. TypeOK /\ Counted
  BY InitialTypes
<1>2. queue = <<>> /\ scanned = {} /\ limited = {} /\ seen = {} /\ count = 0
      /\ stop = "completed" /\ row = NoRow /\ stage = "idle"
  BY DEF Init
<1>3. Range(queue) \cup scanned \cup limited = {} /\ Range(queue) = {}
  BY <1>2 DEF Range
<1>4. UrlsOf(Range(queue) \cup scanned \cup limited) = {} /\ UrlsOf(Range(queue)) = {}
  BY <1>3 DEF UrlsOf
<1>5. PlacedOnce
  BY <1>2, <1>4, FS_EmptySet DEF PlacedOnce
<1>6. QED
  BY <1>1, <1>2, <1>5 DEF Invariant, BestKept, CompletedMeansAll, IdleInv, StopInv

\* The inductive invariant of a scan.
THEOREM CrawlInvariant == Spec => []Invariant
<1>1. Init => Invariant
  BY InitialInvariant
<1>2. Invariant /\ [Next]_vars => Invariant'
  BY InvariantInductive
<1>3. QED
  BY <1>1, <1>2, PTL DEF Spec

\* A URL waits, was scanned once or was rejected, whatever pages link to.
THEOREM UrlsArePlacedOnce == Spec => []PlacedOnce
<1>1. Invariant => PlacedOnce
  BY DEF Invariant
<1>2. QED
  BY <1>1, CrawlInvariant, PTL

\* The candidate kept for a model is one of the best that was offered.
THEOREM BestIsKept == Spec => []BestKept
<1>1. Invariant => BestKept
  BY DEF Invariant
<1>2. QED
  BY <1>1, CrawlInvariant, PTL

\* A run says that it completed exactly when it has scanned all it has found.
THEOREM CompletedRunsAreComplete == Spec => []CompletedMeansAll
<1>1. Invariant => CompletedMeansAll
  BY DEF Invariant
<1>2. QED
  BY <1>1, CrawlInvariant, PTL

-----------------------------------------------------------------------------
(* The breadth-first order                                                 *)

\* The entries made so far.
Known == Range(queue) \cup scanned \cup limited

\* The depths in the queue rise, by one at the most, and what has been visited
\* is no deeper than what waits.
InOrderOfDepth ==
    /\ \A i, j \in DOMAIN queue : i <= j => queue[i].depth <= queue[j].depth
    /\ \A e, f \in Range(queue) : f.depth <= e.depth + 1
    /\ \A e \in scanned \cup limited, f \in Range(queue) : e.depth <= f.depth

\* What a scanned page links to has an entry no deeper than one further link.
LinksAreKnown ==
    \A e \in scanned : \A u \in LinksOf(e.url) :
        \E f \in Known : f.url = u /\ f.depth <= e.depth + 1

\* An entry but that of the start was found on its parent's page.
ParentsAreScanned ==
    \A e \in Known :
        IF e.url = Start THEN e.depth = 0
        ELSE \E p \in scanned : /\ p.url = e.parent /\ e.url \in LinksOf(p.url)
                                /\ e.depth = p.depth + 1

\* Only a scanned page has offered anything.
OnlyScannedOffer == \A u \in Urls \ UrlsOf(scanned) : page[u] = NoOffer

\* Host and depth decide what is scanned.
LimitsDecide ==
    /\ \A e \in scanned : ~OffLimits(e.url) /\ ~TooDeep(e)
    /\ \A e \in limited : OffLimits(e.url) \/ TooDeep(e)

\* A scan that has begun knows the start.
StartIsKnown ==
    /\ seen # {} => Start \in seen
    /\ stage = "crawl" => Start \in seen
    /\ stage = "done" /\ stop # "invalid_url" => Start \in seen

BreadthInv ==
    /\ InOrderOfDepth /\ LinksAreKnown /\ ParentsAreScanned
    /\ OnlyScannedOffer /\ LimitsDecide /\ StartIsKnown

-----------------------------------------------------------------------------
(* The queue in order of depth                                             *)

Rising(entries) ==
    \A i, j \in DOMAIN entries : i <= j => entries[i].depth <= entries[j].depth

LEMMA RisingTail ==
    ASSUME NEW q \in Seq(Entry), q # <<>>, Rising(q)
    PROVE  /\ Rising(Tail(q)) /\ Range(q) = Range(Tail(q)) \cup {Head(q)}
           /\ \A e \in Range(q) : Head(q).depth <= e.depth
<1>1. /\ Head(q) = q[1] /\ Len(q) \in Nat \ {0} /\ DOMAIN q = 1..Len(q)
  BY EmptySeq, LenProperties
<1>2. /\ Tail(q) \in Seq(Entry) /\ DOMAIN Tail(q) = 1..(Len(q) - 1)
      /\ \A i \in 1..(Len(q) - 1) : Tail(q)[i] = q[i + 1]
  BY <1>1, HeadTailProperties, LenProperties
<1>3. \A i \in DOMAIN Tail(q) : i + 1 \in DOMAIN q /\ Tail(q)[i] = q[i + 1]
  BY <1>1, <1>2
<1>4. \A i \in DOMAIN q : i = 1 \/ (i - 1 \in DOMAIN Tail(q) /\ q[i] = Tail(q)[i - 1])
  BY <1>1, <1>2
<1>5. Rising(Tail(q))
  <2> SUFFICES ASSUME NEW i \in DOMAIN Tail(q), NEW j \in DOMAIN Tail(q), i <= j
               PROVE  Tail(q)[i].depth <= Tail(q)[j].depth
    BY DEF Rising
  <2>1. i + 1 <= j + 1
    BY <1>1, <1>2
  <2>2. q[i + 1].depth <= q[j + 1].depth
    BY <1>3, <2>1 DEF Rising
  <2>3. QED
    BY <1>3, <2>2
<1>6. 1 \in DOMAIN q /\ \A j \in DOMAIN q : 1 <= j
  BY <1>1
<1>7. \A e \in Range(q) : Head(q).depth <= e.depth
  BY <1>1, <1>6 DEF Range, Rising
<1>8. Range(q) = Range(Tail(q)) \cup {Head(q)}
  <2>1. \A x : x \in Range(q) => x \in Range(Tail(q)) \cup {Head(q)}
    BY <1>1, <1>4 DEF Range
  <2>2. \A x : x \in Range(Tail(q)) => x \in Range(q)
    BY <1>3 DEF Range
  <2>3. Head(q) \in Range(q)
    BY <1>1, <1>6 DEF Range
  <2>4. QED
    BY <2>1, <2>2, <2>3
<1>9. QED
  BY <1>5, <1>7, <1>8

LEMMA RisingConcat ==
    ASSUME NEW q \in Seq(Entry), NEW t \in Seq(Entry), Rising(q), Rising(t),
           \A e \in Range(q), f \in Range(t) : e.depth <= f.depth
    PROVE  Rising(q \o t) /\ Range(q \o t) = Range(q) \cup Range(t)
<1> DEFINE m == Len(q)
           n == Len(t)
           c == q \o t
<1>1. m \in Nat /\ n \in Nat /\ DOMAIN q = 1..m /\ DOMAIN t = 1..n
  BY LenProperties
<1>2. /\ c \in Seq(Entry) /\ DOMAIN c = 1..(m + n)
      /\ \A i \in 1..(m + n) : c[i] = IF i <= m THEN q[i] ELSE t[i - m]
  BY <1>1, ConcatProperties, LenProperties
<1> HIDE DEF c, m, n
<1>3. \A i \in DOMAIN c : \/ i <= m /\ i \in DOMAIN q /\ c[i] = q[i]
                          \/ i > m /\ i - m \in DOMAIN t /\ c[i] = t[i - m]
  BY <1>1, <1>2
<1>4. /\ \A i \in DOMAIN q : i \in DOMAIN c /\ c[i] = q[i]
      /\ \A i \in DOMAIN t : i + m \in DOMAIN c /\ c[i + m] = t[i]
  BY <1>1, <1>2
<1>5. Range(c) = Range(q) \cup Range(t)
  BY <1>3, <1>4 DEF Range
<1>6. Rising(c)
  <2> SUFFICES ASSUME NEW i \in DOMAIN c, NEW j \in DOMAIN c, i <= j
               PROVE  c[i].depth <= c[j].depth
    BY DEF Rising
  <2>1. i \in Int /\ j \in Int
    BY <1>1, <1>2
  <2>2. CASE i <= m /\ j <= m
    <3>1. i \in DOMAIN q /\ c[i] = q[i] /\ j \in DOMAIN q /\ c[j] = q[j]
      BY <1>1, <1>3, <2>1, <2>2
    <3>2. QED
      BY <3>1 DEF Rising
  <2>3. CASE i <= m /\ j > m
    <3>1. i \in DOMAIN q /\ c[i] = q[i] /\ j - m \in DOMAIN t /\ c[j] = t[j - m]
      BY <1>1, <1>3, <2>1, <2>3
    <3>2. QED
      BY <3>1 DEF Range
  <2>4. CASE i > m /\ j > m
    <3>1. i - m \in DOMAIN t /\ c[i] = t[i - m] /\ j - m \in DOMAIN t /\ c[j] = t[j - m]
      BY <1>1, <1>3, <2>1, <2>4
    <3>2. i - m <= j - m
      BY <1>1, <2>1
    <3>3. QED
      BY <3>1, <3>2 DEF Rising
  <2>5. QED
    BY <1>1, <2>1, <2>2, <2>3, <2>4
<1>7. QED
  BY <1>5, <1>6 DEF c

\* The entries made of the new links: their depth, their parent, and that every
\* usable link was seen before or has one of them.
LEMMA NewLinks ==
    ASSUME NEW offer \in Offer, NEW entry \in Entry,
           NEW at \in InOrder(Fresh(offer.links))
    PROVE  LET new == Entries(offer.links, at, entry)
           IN  /\ \A e \in Range(new) : /\ e.depth = entry.depth + 1 /\ e.parent = entry.url
                                        /\ e.url \in Range(offer.links) \ Unusable
               /\ \A u \in Range(offer.links) \ Unusable :
                     u \in seen \/ \E e \in Range(new) : e.url = u
<1> DEFINE links == offer.links
           fresh == Fresh(links)
           n == Cardinality(fresh)
           new == Entries(links, at, entry)
<1>0. links \in Seq(Urls)
  BY DEF Offer
<1>1. links \in [1..Len(links) -> Urls] /\ Len(links) \in Nat
  BY <1>0, LenProperties
<1>2. /\ at \in [1..n -> fresh]
      /\ \A f \in fresh : \E i \in 1..n : at[i] = f
  BY InOrderEnumerates
<1>3. \A k \in 1..n : /\ new[k].url = links[at[k]] /\ new[k].depth = entry.depth + 1
                      /\ new[k].parent = entry.url
  BY <1>2 DEF Entries
<1>4. DOMAIN new = 1..n
  BY <1>2 DEF Entries
<1>5. \A f \in fresh : f \in DOMAIN links /\ links[f] \notin Unusable
  BY DEF Fresh
<1>6. ASSUME NEW e \in Range(new)
      PROVE  /\ e.depth = entry.depth + 1 /\ e.parent = entry.url
             /\ e.url \in Range(links) \ Unusable
  <2>1. PICK k \in 1..n : e = new[k]
    BY <1>4 DEF Range
  <2>2. at[k] \in fresh
    BY <1>2
  <2>3. links[at[k]] \in Range(links) \ Unusable
    BY <1>5, <2>2 DEF Range
  <2> HIDE DEF new, n, links
  <2>4. QED
    BY <1>3, <2>1, <2>3
<1>7. ASSUME NEW u \in Range(links) \ Unusable, u \notin seen
      PROVE  \E e \in Range(new) : e.url = u
  <2> DEFINE those == {i \in DOMAIN links : links[i] = u}
  <2>1. those \in SUBSET Nat /\ those # {}
    BY <1>1 DEF Range
  <2>2. Min(those) \in those /\ \A y \in those : Min(those) <= y
    <3> HIDE DEF those
    <3> QED
      BY <2>1, LeastIndex
  <2>3. PICK i \in those : \A y \in those : i <= y
    BY <2>2
  <2>4. i \in fresh
    <3>1. i \in DOMAIN links /\ links[i] = u /\ i \in 1..Len(links)
      BY <1>1
    <3>2. \A j \in 1..(i - 1) : links[j] # links[i]
      <4> SUFFICES ASSUME NEW j \in 1..(i - 1), links[j] = u PROVE FALSE
        BY <3>1
      <4>1. j \in DOMAIN links /\ ~(i <= j)
        BY <1>1, <3>1
      <4>2. QED
        BY <2>3, <4>1
    <3>3. QED
      BY <1>7, <3>1, <3>2 DEF Fresh
  <2>5. PICK k \in 1..n : at[k] = i
    BY <1>2, <2>4
  <2>6. new[k] \in Range(new)
    BY <1>4 DEF Range
  <2>7. new[k].url = u
    BY <1>3, <2>3, <2>5
  <2>8. QED
    BY <2>6, <2>7
<1>8. QED
  BY <1>6, <1>7

\* Entries of the next depth join the queue as its head is visited.
LEMMA VisitInOrder ==
    ASSUME TypeOK, InOrderOfDepth, queue # <<>>,
           NEW new \in Seq(Entry), \A e \in Range(new) : e.depth = Head(queue).depth + 1,
           queue' = Tail(queue) \o new,
           scanned' \cup limited' = scanned \cup limited \cup {Head(queue)}
    PROVE  InOrderOfDepth' /\ Known' = Known \cup Range(new)
<1> DEFINE head == Head(queue)
           rest == Range(Tail(queue))
           visited == scanned \cup limited
<1>1. queue \in Seq(Entry) /\ Tail(queue) \in Seq(Entry) /\ head \in Entry
  BY TailOfEntries DEF TypeOK
<1>2. Rising(queue)
  BY DEF InOrderOfDepth, Rising
<1>3. /\ Rising(Tail(queue)) /\ Range(queue) = rest \cup {head}
      /\ \A e \in Range(queue) : head.depth <= e.depth
  BY <1>1, <1>2, RisingTail
<1>4. /\ \A e, f \in Range(queue) : f.depth <= e.depth + 1
      /\ \A e \in visited, f \in Range(queue) : e.depth <= f.depth
  BY DEF InOrderOfDepth
<1>5. \A e \in Range(queue) \cup visited \cup Range(new) : e.depth \in Nat
  <2>1. Range(queue) \subseteq Entry /\ Range(new) \subseteq Entry
    <3>1. \A q \in Seq(Entry) : Range(q) \subseteq Entry
      BY LenProperties, ElementOfSeq DEF Range
    <3>2. QED
      BY <1>1, <3>1
  <2>2. visited \subseteq Entry
    BY DEF TypeOK
  <2>3. QED
    BY <2>1, <2>2 DEF Entry
<1>6. head.depth \in Nat
  BY <1>1 DEF Entry
<1>7. Rising(new)
  <2>1. \A i \in DOMAIN new : new[i].depth = head.depth + 1
    BY DEF Range
  <2> HIDE DEF head
  <2>2. QED
    BY <1>6, <2>1 DEF Rising
<1>8. /\ \A e \in Range(new) : e.depth = head.depth + 1
      /\ \A e \in rest : head.depth <= e.depth /\ e.depth <= head.depth + 1
      /\ \A e \in visited : e.depth <= head.depth
  BY <1>3, <1>4
<1>9. \A e \in rest, f \in Range(new) : e.depth <= f.depth
  BY <1>8
<1>10. Rising(queue') /\ Range(queue') = rest \cup Range(new)
  BY <1>1, <1>3, <1>7, <1>9, RisingConcat
<1>11. scanned' \cup limited' = visited \cup {head}
  OBVIOUS
<1> HIDE DEF head, rest, visited
<1>12. \A e, f \in Range(queue') : f.depth <= e.depth + 1
  <2>1. \A e \in Range(queue') : /\ e.depth \in Nat
                                 /\ head.depth <= e.depth /\ e.depth <= head.depth + 1
    BY <1>3, <1>5, <1>6, <1>8, <1>10
  <2>2. QED
    BY <1>6, <2>1
<1>13. \A e \in scanned' \cup limited', f \in Range(queue') : e.depth <= f.depth
  <2>1. \A f \in Range(queue') : head.depth <= f.depth /\ f.depth \in Nat
    BY <1>3, <1>5, <1>6, <1>8, <1>10
  <2>2. \A e \in scanned' \cup limited' : e.depth <= head.depth /\ e.depth \in Nat
    BY <1>5, <1>6, <1>8, <1>11
  <2>3. QED
    BY <1>6, <2>1, <2>2
<1>14. Known' = Known \cup Range(new)
  BY <1>3, <1>10, <1>11 DEF Known, visited
<1>15. QED
  BY <1>10, <1>12, <1>13, <1>14 DEF InOrderOfDepth, Rising

\* What depends on the entries and the pages stays when they do.
LEMMA BreadthUnchanged ==
    ASSUME BreadthInv, UNCHANGED <<policy, queue, scanned, limited, page>>
    PROVE  /\ InOrderOfDepth' /\ LinksAreKnown' /\ ParentsAreScanned'
           /\ OnlyScannedOffer' /\ LimitsDecide'
<1>1. Known' = Known /\ \A u : LinksOf(u)' = LinksOf(u) /\ OffLimits(u)' = OffLimits(u)
  BY DEF Known, LinksOf, OffLimits
<1>2. \A e : TooDeep(e)' = TooDeep(e)
  BY DEF TooDeep
<1>3. InOrderOfDepth'
  BY DEF BreadthInv, InOrderOfDepth
<1>4. LinksAreKnown'
  BY <1>1 DEF BreadthInv, LinksAreKnown
<1>5. ParentsAreScanned'
  BY <1>1 DEF BreadthInv, ParentsAreScanned
<1>6. OnlyScannedOffer' /\ LimitsDecide'
  BY <1>1, <1>2 DEF BreadthInv, OnlyScannedOffer, LimitsDecide, UrlsOf
<1>7. QED
  BY <1>3, <1>4, <1>5, <1>6

LEMMA RejectBreadth ==
    ASSUME Invariant, BreadthInv, RejectEntry
    PROVE  BreadthInv'
<1> DEFINE head == Head(queue)
<1>1. /\ queue \in Seq(Entry) /\ queue # <<>> /\ queue' = Tail(queue)
      /\ limited' = limited \cup {head} /\ scanned' = scanned
      /\ UNCHANGED <<stage, policy, seen, page>> /\ stage = "crawl"
  BY DEF RejectEntry, Visiting, Invariant, TypeOK
<1>2. InOrderOfDepth' /\ Known' = Known
  <2>1. <<>> \in Seq(Entry) /\ Range(<<>>) = {}
    BY EmptySeq DEF Range
  <2>2. queue' = Tail(queue) \o <<>>
    BY <1>1, TailOfEntries, ConcatEmptySeq
  <2>3. scanned' \cup limited' = scanned \cup limited \cup {head}
    BY <1>1
  <2>4. InOrderOfDepth' /\ Known' = Known \cup Range(<<>>)
    BY <1>1, <2>1, <2>2, <2>3, VisitInOrder DEF Invariant, BreadthInv
  <2>5. QED
    BY <2>1, <2>4
<1>3. \A u : LinksOf(u)' = LinksOf(u) /\ OffLimits(u)' = OffLimits(u)
  BY <1>1 DEF LinksOf, OffLimits
<1>4. \A e : TooDeep(e)' = TooDeep(e)
  BY <1>1 DEF TooDeep
<1>5. LinksAreKnown' /\ ParentsAreScanned'
  BY <1>1, <1>2, <1>3 DEF BreadthInv, LinksAreKnown, ParentsAreScanned
<1>6. OnlyScannedOffer'
  BY <1>1 DEF BreadthInv, OnlyScannedOffer
<1>7. LimitsDecide'
  <2>1. OffLimits(head.url) \/ TooDeep(head)
    BY DEF RejectEntry
  <2> HIDE DEF head
  <2>2. QED
    BY <1>1, <1>3, <1>4, <2>1 DEF BreadthInv, LimitsDecide
<1>8. StartIsKnown'
  BY <1>1 DEF BreadthInv, StartIsKnown
<1>9. QED
  BY <1>2, <1>5, <1>6, <1>7, <1>8 DEF BreadthInv

\* What a page adds to the entries.
LEMMA ScanLinks ==
    ASSUME TypeOK, NEW offer, ScanPage(offer)
    PROVE  \E new \in Seq(Entry) :
              /\ queue' = Tail(queue) \o new
              /\ \A e \in Range(new) : /\ e.depth = Head(queue).depth + 1
                                       /\ e.parent = Head(queue).url
                                       /\ e.url \in Range(offer.links) \ Unusable
                                       /\ e.url \notin seen
              /\ \A u \in Range(offer.links) \ Unusable :
                    u \in seen \/ \E e \in Range(new) : e.url = u
              /\ seen' = seen \cup UrlsOf(Range(new))
<1>1. offer \in Offer /\ Head(queue) \in Entry /\ seen \in SUBSET Urls
  BY ScanQueue DEF TypeOK
<1>2. PICK at \in InOrder(Fresh(offer.links)) :
          queue' = Tail(queue) \o Entries(offer.links, at, Head(queue))
  BY DEF ScanPage, Enqueued
<1> DEFINE new == Entries(offer.links, at, Head(queue))
<1>3. /\ new \in Seq(Entry)
      /\ UrlsOf(Range(new)) = {offer.links[i] : i \in Fresh(offer.links)}
      /\ UrlsOf(Range(new)) \in SUBSET (Urls \ seen)
  BY <1>1, NewEntries
<1>4. /\ \A e \in Range(new) : /\ e.depth = Head(queue).depth + 1
                               /\ e.parent = Head(queue).url
                               /\ e.url \in Range(offer.links) \ Unusable
      /\ \A u \in Range(offer.links) \ Unusable :
            u \in seen \/ \E e \in Range(new) : e.url = u
  BY <1>1, NewLinks
<1>5. seen' = seen \cup UrlsOf(Range(new))
  BY <1>3 DEF ScanPage
<1>6. queue' = Tail(queue) \o new
  BY <1>2
<1> HIDE DEF new
<1>7. \A e \in Range(new) : e.url \notin seen
  BY <1>3 DEF UrlsOf
<1>8. QED
  BY <1>3, <1>4, <1>5, <1>6, <1>7

LEMMA ScanBreadth ==
    ASSUME Invariant, BreadthInv, NEW offer, ScanPage(offer)
    PROVE  BreadthInv'
<1> DEFINE links == Range(offer.links) \ Unusable
<1>0. PICK head : head = Head(queue)
  OBVIOUS
<1>1. /\ TypeOK /\ offer \in Offer /\ head \in Entry /\ head.url \in Urls
      /\ queue \in Seq(Entry) /\ queue # <<>> /\ page \in [Urls -> Offer]
      /\ scanned \subseteq Entry
  BY <1>0, ScanQueue DEF Invariant, TypeOK, Entry
<1>2. /\ scanned' = scanned \cup {head} /\ limited' = limited
      /\ page' = [page EXCEPT ![head.url] = offer]
      /\ stage = "crawl" /\ UNCHANGED <<policy, stage, stop>>
      /\ ~OffLimits(head.url) /\ ~TooDeep(head)
  BY <1>0 DEF ScanPage, Visiting
<1>3. PICK new \in Seq(Entry) :
          /\ queue' = Tail(queue) \o new
          /\ \A e \in Range(new) : /\ e.depth = head.depth + 1 /\ e.parent = head.url
                                   /\ e.url \in links /\ e.url \notin seen
          /\ \A u \in links : u \in seen \/ \E e \in Range(new) : e.url = u
          /\ seen' = seen \cup UrlsOf(Range(new))
  BY <1>0, <1>1, ScanLinks
<1>4. InOrderOfDepth' /\ Known' = Known \cup Range(new)
  <2>1. scanned' \cup limited' = scanned \cup limited \cup {head}
    BY <1>2
  <2>2. QED
    BY <1>0, <1>1, <1>3, <2>1, VisitInOrder DEF BreadthInv
<1>5. head \in Range(queue) /\ Range(queue) \subseteq Known
  <2>1. head = queue[1] /\ 1 \in DOMAIN queue
    BY <1>0, <1>1, EmptySeq, LenProperties
  <2>2. QED
    BY <2>1 DEF Range, Known
<1>6. /\ seen = UrlsOf(Known)
      /\ \A e \in scanned : e.url # head.url
      /\ head.depth \in Nat /\ \A e \in Known : e.depth <= head.depth + 1
  <2>1. seen = UrlsOf(Known) /\ UrlsOf(Range(queue)) \cap UrlsOf(scanned \cup limited) = {}
    BY DEF Invariant, PlacedOnce, Known
  <2>2. \A e \in scanned : e.url # head.url
    <3>1. \A e \in scanned : e.url \in UrlsOf(scanned \cup limited)
      BY DEF UrlsOf
    <3>2. head.url \in UrlsOf(Range(queue))
      BY <1>5 DEF UrlsOf
    <3>3. QED
      BY <2>1, <3>1, <3>2
  <2>3. head.depth \in Nat
    BY <1>1 DEF Entry
  <2>4. \A e \in scanned \cup limited : e.depth \in Nat
    BY DEF Invariant, TypeOK, Entry
  <2>5. /\ \A e \in Range(queue) : e.depth <= head.depth + 1
        /\ \A e \in scanned \cup limited : e.depth <= head.depth
    BY <1>5 DEF BreadthInv, InOrderOfDepth
  <2>6. \A e \in scanned \cup limited : e.depth <= head.depth + 1
    BY <2>3, <2>4, <2>5
  <2>7. QED
    BY <2>1, <2>2, <2>3, <2>5, <2>6 DEF Known
<1>7. /\ \A u \in Urls \ {head.url} : LinksOf(u)' = LinksOf(u) /\ page'[u] = page[u]
      /\ LinksOf(head.url)' = links
  <2>1. \A u \in Urls \ {head.url} : LinksOf(u)' = LinksOf(u) /\ page'[u] = page[u]
    BY <1>1, <1>2 DEF LinksOf
  <2>2. page'[head.url] = offer
    BY <1>1, <1>2
  <2>3. LinksOf(head.url)' = Range(page'[head.url].links) \ Unusable
    BY DEF LinksOf
  <2>4. QED
    BY <2>1, <2>2, <2>3
<1>8. \A e \in scanned : LinksOf(e.url)' = LinksOf(e.url)
  BY <1>1, <1>6, <1>7 DEF Entry
<1>9. LinksAreKnown'
  <2> SUFFICES ASSUME NEW e \in scanned', NEW u \in LinksOf(e.url)'
               PROVE  \E f \in Known' : f.url = u /\ f.depth <= e.depth + 1
    BY DEF LinksAreKnown
  <2>1. CASE e \in scanned
    <3>1. u \in LinksOf(e.url)
      BY <1>8, <2>1
    <3>2. QED
      BY <1>4, <2>1, <3>1 DEF BreadthInv, LinksAreKnown
  <2>2. CASE e = head
    <3>1. u \in links
      BY <1>7, <2>2
    <3>2. CASE u \in seen
      <4>1. PICK f \in Known : f.url = u
        BY <1>6, <3>2 DEF UrlsOf
      <4>2. QED
        BY <1>4, <1>6, <2>2, <4>1
    <3>3. CASE u \notin seen
      <4>1. PICK f \in Range(new) : f.url = u
        BY <1>3, <3>1, <3>3
      <4>2. f.depth <= e.depth + 1
        <5>1. f.depth = e.depth + 1 /\ e.depth \in Nat
          BY <1>3, <1>6, <2>2
        <5>2. QED
          BY <5>1
      <4>3. QED
        BY <1>4, <4>1, <4>2
    <3>4. QED
      BY <3>2, <3>3
  <2>3. QED
    BY <1>2, <2>1, <2>2
<1>10. ParentsAreScanned'
  <2> SUFFICES ASSUME NEW e \in Known'
               PROVE  IF e.url = Start THEN e.depth = 0
                      ELSE \E p \in scanned' :
                              /\ p.url = e.parent /\ e.url \in LinksOf(p.url)'
                              /\ e.depth = p.depth + 1
    BY DEF ParentsAreScanned
  <2>1. CASE e \in Known
    <3>1. e.url = Start => e.depth = 0
      BY <2>1 DEF BreadthInv, ParentsAreScanned
    <3>2. ASSUME e.url # Start
          PROVE  \E p \in scanned' : /\ p.url = e.parent /\ e.url \in LinksOf(p.url)'
                                     /\ e.depth = p.depth + 1
      <4>1. PICK p \in scanned : /\ p.url = e.parent /\ e.url \in LinksOf(p.url)
                                 /\ e.depth = p.depth + 1
        BY <2>1, <3>2 DEF BreadthInv, ParentsAreScanned
      <4>2. p \in scanned' /\ e.url \in LinksOf(p.url)'
        BY <1>2, <1>8, <4>1
      <4>3. QED
        BY <4>1, <4>2
    <3>3. QED
      BY <3>1, <3>2
  <2>2. CASE e \in Range(new)
    <3>1. Start \in seen
      BY <1>2 DEF BreadthInv, StartIsKnown
    <3>2. e.url # Start
      BY <1>3, <2>2, <3>1
    <3>3. head \in scanned' /\ e.url \in LinksOf(head.url)'
      BY <1>2, <1>3, <1>7, <2>2
    <3>4. head.url = e.parent /\ e.depth = head.depth + 1
      BY <1>3, <2>2
    <3>5. QED
      BY <3>2, <3>3, <3>4
  <2>3. QED
    BY <1>4, <2>1, <2>2
<1>11. OnlyScannedOffer'
  <2> SUFFICES ASSUME NEW u \in Urls, u \notin UrlsOf(scanned')
               PROVE  page'[u] = NoOffer
    BY DEF OnlyScannedOffer
  <2>1. u \notin UrlsOf(scanned) /\ u # head.url
    BY <1>2 DEF UrlsOf
  <2>2. page[u] = NoOffer
    BY <2>1 DEF BreadthInv, OnlyScannedOffer
  <2>3. QED
    BY <1>7, <2>1, <2>2
<1>12. LimitsDecide'
  <2>1. \A e : OffLimits(e.url)' = OffLimits(e.url) /\ TooDeep(e)' = TooDeep(e)
    BY <1>2 DEF OffLimits, TooDeep
  <2>2. QED
    BY <1>2, <2>1 DEF BreadthInv, LimitsDecide
<1>13. StartIsKnown'
  <2>1. Start \in seen /\ seen \subseteq seen'
    BY <1>2, <1>3 DEF BreadthInv, StartIsKnown
  <2>2. QED
    BY <2>1 DEF StartIsKnown
<1>14. QED
  BY <1>4, <1>9, <1>10, <1>11, <1>12, <1>13 DEF BreadthInv

LEMMA BreadthInductive ==
    ASSUME Invariant, BreadthInv, [Next]_vars
    PROVE  BreadthInv'
<1>1. ASSUME NEW depth \in AskedDepths, NEW pages \in AskedPages, NEW same \in BOOLEAN,
             BeginScan(depth, pages, same)
      PROVE  BreadthInv'
  <2> DEFINE first == [url |-> Start, depth |-> 0, parent |-> NoUrl]
  <2>1. /\ scanned = {} /\ limited = {} /\ scanned' = {} /\ limited' = {} /\ page' = page
        /\ seen' = {Start} /\ stage' = "crawl"
    BY <1>1 DEF BeginScan, Invariant, IdleInv
  <2>2. DOMAIN queue' = {1} /\ queue'[1] = first /\ Range(queue') = {first}
    BY <1>1 DEF BeginScan, Range
  <2>3. Known' = {first} /\ first.depth = 0 /\ first.url = Start
    BY <2>1, <2>2 DEF Known
  <2>4. InOrderOfDepth'
    BY <2>1, <2>2, <2>3 DEF InOrderOfDepth
  <2>5. LinksAreKnown' /\ ParentsAreScanned' /\ LimitsDecide'
    BY <2>1, <2>3 DEF LinksAreKnown, ParentsAreScanned, LimitsDecide
  <2>6. OnlyScannedOffer' /\ StartIsKnown'
    BY <2>1 DEF BreadthInv, OnlyScannedOffer, StartIsKnown
  <2>7. QED
    BY <2>4, <2>5, <2>6 DEF BreadthInv
<1>2. CASE RejectStart
  BY <1>2, BreadthUnchanged DEF RejectStart, BreadthInv, StartIsKnown
<1>3. CASE StopAtPages
  BY <1>3, BreadthUnchanged DEF StopAtPages, BreadthInv, StartIsKnown
<1>4. CASE StopAtRuntime
  BY <1>4, BreadthUnchanged DEF StopAtRuntime, BreadthInv, StartIsKnown
<1>5. CASE RejectEntry
  BY <1>5, RejectBreadth
<1>6. ASSUME NEW offer, ScanPage(offer) PROVE BreadthInv'
  BY <1>6, ScanBreadth
<1>7. CASE FetchFails
  BY <1>7, BreadthUnchanged DEF FetchFails, Visiting, BreadthInv, StartIsKnown
<1>8. CASE Finish
  BY <1>8, BreadthUnchanged DEF Finish, BreadthInv, StartIsKnown
<1>9. CASE Save
  BY <1>9, BreadthUnchanged DEF Save, BreadthInv, StartIsKnown
<1>10. CASE UNCHANGED vars
  BY <1>10, BreadthUnchanged DEF vars, BreadthInv, StartIsKnown
<1>11. QED
  BY <1>1, <1>2, <1>3, <1>4, <1>5, <1>6, <1>7, <1>8, <1>9, <1>10 DEF Next

LEMMA InitialBreadth == ASSUME Init PROVE BreadthInv
<1>1. /\ queue = <<>> /\ scanned = {} /\ limited = {} /\ seen = {} /\ stage = "idle"
      /\ page = [u \in Urls |-> NoOffer]
  BY DEF Init
<1>2. Range(queue) = {} /\ DOMAIN queue = {} /\ Known = {}
  BY <1>1 DEF Range, Known
<1>3. InOrderOfDepth /\ LinksAreKnown /\ ParentsAreScanned
  BY <1>1, <1>2 DEF InOrderOfDepth, LinksAreKnown, ParentsAreScanned
<1>4. OnlyScannedOffer /\ LimitsDecide /\ StartIsKnown
  BY <1>1 DEF OnlyScannedOffer, LimitsDecide, StartIsKnown
<1>5. QED
  BY <1>3, <1>4 DEF BreadthInv

\* The crawl goes by breadth: the queue is in the order of depth, what a scanned
\* page links to is known, and every entry has the scanned page it was found on.
THEOREM CrawlGoesByBreadth == Spec => []BreadthInv
<1>1. Init => BreadthInv
  BY InitialBreadth
<1>2. Invariant /\ BreadthInv /\ [Next]_vars => BreadthInv'
  BY BreadthInductive
<1>3. QED
  BY <1>1, <1>2, CrawlInvariant, PTL DEF Spec

-----------------------------------------------------------------------------
(* Distances                                                               *)

\* What is reached from a set of URLs by one link of the pages that may be
\* scanned.
Onward(S) == S \cup UNION {LinksOf(u) : u \in {v \in S : ~OffLimits(v)}}

LEMMA OnwardType ==
    ASSUME TypeOK, NEW S \in SUBSET Urls
    PROVE  Onward(S) \in SUBSET Urls
<1>1. ASSUME NEW u \in Urls PROVE LinksOf(u) \subseteq Urls
  <2>1. page[u].links \in Seq(Urls)
    BY DEF TypeOK, Offer
  <2> DEFINE links == page[u].links
  <2>2. links \in Seq(Urls)
    BY <2>1
  <2> HIDE DEF links
  <2>3. Range(links) \subseteq Urls
    BY <2>2, LenProperties, ElementOfSeq DEF Range
  <2>4. QED
    BY <2>3 DEF LinksOf, links
<1>2. QED
  BY <1>1 DEF Onward

LEMMA WithinUnfold ==
    ASSUME TypeOK
    PROVE  /\ Within = [n \in Nat |-> IF n = 0 THEN {Start} ELSE Onward(Within[n - 1])]
           /\ Within \in [Nat -> SUBSET Urls]
<1> DEFINE step == [S \in SUBSET Urls |-> Onward(S)]
           D == SUBSET Urls
<1>1. {Start} \in D /\ step \in [D -> D]
  BY CrawlAssumption, OnwardType
<1>2. PICK f \in [Nat -> D] : f = [n \in Nat |-> IF n = 0 THEN {Start} ELSE step[f[n - 1]]]
  <2> HIDE DEF D, step
  <2> QED
    BY <1>1, RecursiveFunction
<1>3. \A n \in Nat : n # 0 => step[f[n - 1]] = Onward(f[n - 1])
  OBVIOUS
<1>4. f = [n \in Nat |-> IF n = 0 THEN {Start} ELSE Onward(f[n - 1])]
  <2> HIDE DEF step
  <2> QED
    BY <1>2, <1>3
<1>5. Within = CHOOSE g : g = [n \in Nat |-> IF n = 0 THEN {Start} ELSE Onward(g[n - 1])]
  BY DEF Within, Onward
<1>6. Within = [n \in Nat |-> IF n = 0 THEN {Start} ELSE Onward(Within[n - 1])]
  <2>1. \E g : g = [n \in Nat |-> IF n = 0 THEN {Start} ELSE Onward(g[n - 1])]
    BY <1>4
  <2>2. QED
    BY <1>5, <2>1
<1>7. PICK w : w = Within
  OBVIOUS
<1> DEFINE Good == {n \in Nat : w[n] \in SUBSET Urls}
<1>8. w[0] = {Start} /\ \A n \in Nat : w[n + 1] = Onward(w[n])
  <2>1. \A n \in Nat : w[n] = IF n = 0 THEN {Start} ELSE Onward(w[n - 1])
    BY <1>6, <1>7
  <2>2. \A n \in Nat : n + 1 \in Nat /\ n + 1 # 0 /\ (n + 1) - 1 = n
    OBVIOUS
  <2>3. QED
    BY <2>1, <2>2
<1>9. 0 \in Good /\ \A n \in Nat : n \in Good => n + 1 \in Good
  BY <1>8, CrawlAssumption, OnwardType
<1>10. \A n \in Nat : n \in Good
  <2> HIDE DEF Good
  <2> QED
    BY <1>9, NatSetInduction
<1>11. w \in [Nat -> SUBSET Urls]
  <2>1. w = [n \in Nat |-> w[n]]
    BY <1>6, <1>7
  <2>2. QED
    BY <1>10, <2>1
<1>12. QED
  BY <1>6, <1>7, <1>11

\* What is within some number of links is within any greater number.
LEMMA WithinGrows ==
    ASSUME TypeOK
    PROVE  /\ Within[0] = {Start} /\ \A n \in Nat : Within[n + 1] = Onward(Within[n])
           /\ \A m, n \in Nat : m <= n => Within[m] \subseteq Within[n]
<1>1. PICK w : w = Within
  OBVIOUS
<1>2. /\ w[0] = {Start} /\ \A n \in Nat : w[n + 1] = Onward(w[n])
  <2>1. \A n \in Nat : w[n] = IF n = 0 THEN {Start} ELSE Onward(w[n - 1])
    BY <1>1, WithinUnfold
  <2>2. \A n \in Nat : n + 1 \in Nat /\ n + 1 # 0 /\ (n + 1) - 1 = n
    OBVIOUS
  <2>3. QED
    BY <2>1, <2>2
<1>3. \A n \in Nat : w[n] \subseteq w[n + 1]
  BY <1>2 DEF Onward
<1>4. ASSUME NEW m \in Nat PROVE \A n \in Nat : m <= n => w[m] \subseteq w[n]
  <2> DEFINE Good == {n \in Nat : m <= n => w[m] \subseteq w[n]}
  <2>1. 0 \in Good
    <3>1. m <= 0 => m = 0
      OBVIOUS
    <3>2. QED
      BY <3>1
  <2>2. ASSUME NEW n \in Nat, n \in Good PROVE n + 1 \in Good
    <3>1. m <= n + 1 => m <= n \/ m = n + 1
      OBVIOUS
    <3>2. QED
      BY <1>3, <2>2, <3>1
  <2> HIDE DEF Good
  <2>3. \A n \in Nat : n \in Good
    BY <2>1, <2>2, NatSetInduction
  <2>4. QED
    BY <2>3 DEF Good
<1>5. QED
  BY <1>1, <1>2, <1>4

\* An entry is alone with its URL.
LEMMA OneEntry ==
    ASSUME PlacedOnce, NEW e \in Known, NEW f \in Known, e.url = f.url
    PROVE  e = f
<1>1. CASE e \in Range(queue) /\ f \in Range(queue)
  BY <1>1 DEF PlacedOnce, Range
<1>2. CASE e \in scanned \cup limited /\ f \in scanned \cup limited
  BY <1>2 DEF PlacedOnce
<1>3. ASSUME NEW a \in Range(queue), NEW b \in scanned \cup limited
      PROVE  a.url # b.url
  <2>1. a.url \in UrlsOf(Range(queue)) /\ b.url \in UrlsOf(scanned \cup limited)
    BY <1>3 DEF UrlsOf
  <2>2. QED
    BY <2>1 DEF PlacedOnce
<1>4. QED
  BY <1>1, <1>2, <1>3 DEF Known

\* The URL of an entry is within as many links as the entry is deep.
LEMMA EntriesAreReached ==
    ASSUME TypeOK, BreadthInv
    PROVE  \A e \in Known : e.depth \in Nat /\ e.url \in Within[e.depth]
<1> DEFINE Good == {n \in Nat : \A e \in Known : e.depth = n => e.url \in Within[n]}
<1>1. Known \subseteq Entry
  <2>1. Range(queue) \subseteq Entry
    BY LenProperties, ElementOfSeq DEF Range, TypeOK
  <2>2. QED
    BY <2>1 DEF Known, TypeOK
<1>2. \A e \in Known : e.depth \in Nat
  BY <1>1 DEF Entry
<1>3. scanned \subseteq Known
  BY DEF Known
<1>4. ASSUME NEW e \in Known, e.url # Start
      PROVE  \E p \in Known : /\ p.url = e.parent /\ e.url \in LinksOf(p.url)
                              /\ e.depth = p.depth + 1 /\ ~OffLimits(p.url)
  BY <1>3, <1>4 DEF BreadthInv, ParentsAreScanned, LimitsDecide
<1>5. 0 \in Good
  <2> SUFFICES ASSUME NEW e \in Known, e.depth = 0 PROVE e.url = Start
    BY WithinGrows
  <2> SUFFICES ASSUME e.url # Start PROVE FALSE
    OBVIOUS
  <2>1. PICK p \in Known : e.depth = p.depth + 1
    BY <1>4
  <2>2. p.depth \in Nat
    BY <1>2
  <2>3. QED
    BY <2>1, <2>2
<1>6. ASSUME NEW n \in Nat, n \in Good PROVE n + 1 \in Good
  <2> SUFFICES ASSUME NEW e \in Known, e.depth = n + 1 PROVE e.url \in Within[n + 1]
    OBVIOUS
  <2>1. e.url # Start
    BY DEF BreadthInv, ParentsAreScanned
  <2>2. PICK p \in Known : /\ e.url \in LinksOf(p.url) /\ e.depth = p.depth + 1
                           /\ ~OffLimits(p.url)
    BY <1>4, <2>1
  <2>3. p.depth = n
    <3>1. p.depth \in Nat
      BY <1>2
    <3>2. QED
      BY <2>2, <3>1
  <2>4. p.url \in Within[n]
    BY <1>6, <2>3
  <2>5. Within[n + 1] = Onward(Within[n])
    BY WithinGrows
  <2>6. QED
    BY <2>2, <2>4, <2>5 DEF Onward
<1> HIDE DEF Good
<1>7. \A n \in Nat : n \in Good
  BY <1>5, <1>6, NatSetInduction
<1>8. QED
  BY <1>2, <1>7 DEF Good

\* What is within a number of links has an entry no deeper than that.
LEMMA ReachedIsKnown ==
    ASSUME TypeOK, PlacedOnce, BreadthInv, Start \in seen
    PROVE  \A n \in Nat : \A u \in Within[n] : \E f \in Known : f.url = u /\ f.depth <= n
<1> DEFINE Good == {n \in Nat : \A u \in Within[n] : \E f \in Known : f.url = u /\ f.depth <= n}
<1>1. seen = UrlsOf(Known) /\ scanned \subseteq Known
  BY DEF PlacedOnce, Known
<1>2. \A e \in Known : e.depth \in Nat
  BY EntriesAreReached
<1>3. 0 \in Good
  <2>1. PICK f \in Known : f.url = Start
    BY <1>1 DEF UrlsOf
  <2>2. f.depth = 0
    BY <2>1 DEF BreadthInv, ParentsAreScanned
  <2>3. Within[0] = {Start} /\ f.depth <= 0
    BY <2>2, WithinGrows
  <2>4. QED
    BY <2>1, <2>3
<1>4. ASSUME NEW v \in Urls, NEW u \in LinksOf(v)
      PROVE  \E e \in scanned : e.url = v
  <2>1. page[v] # NoOffer
    <3> SUFFICES ASSUME page[v] = NoOffer PROVE FALSE
      OBVIOUS
    <3>1. page[v].links = <<>>
      BY DEF NoOffer
    <3>2. LinksOf(v) = {}
      BY <3>1 DEF LinksOf, Range
    <3>3. QED
      BY <1>4, <3>2
  <2>2. v \in UrlsOf(scanned)
    BY <2>1 DEF BreadthInv, OnlyScannedOffer
  <2>3. QED
    BY <2>2 DEF UrlsOf
<1>5. ASSUME NEW n \in Nat, n \in Good PROVE n + 1 \in Good
  <2> SUFFICES ASSUME NEW u \in Within[n + 1]
               PROVE  \E f \in Known : f.url = u /\ f.depth <= n + 1
    OBVIOUS
  <2>1. Within[n + 1] = Onward(Within[n]) /\ Within[n] \subseteq Urls
    BY WithinGrows, WithinUnfold
  <2>2. CASE u \in Within[n]
    <3>1. PICK f \in Known : f.url = u /\ f.depth <= n
      BY <1>5, <2>2
    <3>2. f.depth <= n + 1
      BY <1>2, <3>1
    <3>3. QED
      BY <3>1, <3>2
  <2>3. ASSUME NEW v \in Within[n], u \in LinksOf(v)
        PROVE  \E f \in Known : f.url = u /\ f.depth <= n + 1
    <3>1. PICK g \in Known : g.url = v /\ g.depth <= n
      BY <1>5, <2>3
    <3>2. PICK e \in scanned : e.url = v
      BY <1>4, <2>1, <2>3
    <3>3. e = g
      BY <1>1, <3>1, <3>2, OneEntry
    <3>4. PICK f \in Known : f.url = u /\ f.depth <= e.depth + 1
      BY <2>3, <3>2 DEF BreadthInv, LinksAreKnown
    <3>5. f.depth <= n + 1
      <4>1. f.depth \in Nat /\ e.depth \in Nat /\ e.depth <= n
        BY <1>2, <3>1, <3>3
      <4>2. QED
        BY <3>4, <4>1
    <3>6. QED
      BY <3>4, <3>5
  <2>4. QED
    BY <2>1, <2>2, <2>3 DEF Onward
<1> HIDE DEF Good
<1>6. \A n \in Nat : n \in Good
  BY <1>3, <1>5, NatSetInduction
<1>7. QED
  BY <1>6 DEF Good

\* There are more URLs than any entry is deep.
LEMMA DepthIsBounded ==
    ASSUME TypeOK, PlacedOnce, BreadthInv
    PROVE  \A e \in Known : e.depth <= Cardinality(Urls)
<1> DEFINE Chain(e, S) == /\ e.url \in S /\ Cardinality(S) = e.depth + 1
                          /\ \A u \in S : \E f \in Known : f.url = u /\ f.depth <= e.depth
           Good == {n \in Nat : \A e \in Known : e.depth = n => \E S \in SUBSET Urls : Chain(e, S)}
<1>1. \A e \in Known : e.depth \in Nat /\ e.url \in Urls
  <2>1. \A e \in Known : e.depth \in Nat /\ e.url \in Within[e.depth]
    BY EntriesAreReached
  <2>2. QED
    BY <2>1, WithinUnfold
<1>2. IsFiniteSet(Urls) /\ \A S \in SUBSET Urls : IsFiniteSet(S) /\ Cardinality(S) \in Nat
  BY CrawlAssumption, FS_Subset, FS_CardinalityType
<1>3. 0 \in Good
  <2>1. ASSUME NEW e \in Known, e.depth = 0 PROVE \E S \in SUBSET Urls : Chain(e, S)
    <3>1. {e.url} \in SUBSET Urls /\ Cardinality({e.url}) = 1
      BY <1>1, FS_Singleton
    <3>2. Chain(e, {e.url})
      BY <2>1, <3>1
    <3> HIDE DEF Chain
    <3>3. QED
      BY <3>1, <3>2
  <2> HIDE DEF Chain
  <2>2. QED
    BY <2>1
<1>4. ASSUME NEW n \in Nat, n \in Good PROVE n + 1 \in Good
  <2> SUFFICES ASSUME NEW e \in Known, e.depth = n + 1
               PROVE  \E S \in SUBSET Urls : Chain(e, S)
    OBVIOUS
  <2>1. PICK p \in Known : e.depth = p.depth + 1
    <3>1. e.url # Start
      BY DEF BreadthInv, ParentsAreScanned
    <3>2. QED
      BY <3>1 DEF BreadthInv, ParentsAreScanned, Known
  <2>2. p.depth = n
    <3>1. p.depth \in Nat
      BY <1>1
    <3>2. QED
      BY <2>1, <3>1
  <2>3. PICK S \in SUBSET Urls : Chain(p, S)
    BY <1>4, <2>2
  <2>4. e.url \notin S
    <3> SUFFICES ASSUME e.url \in S PROVE FALSE
      OBVIOUS
    <3>1. PICK f \in Known : f.url = e.url /\ f.depth <= n
      BY <2>2, <2>3
    <3>2. f = e
      BY <3>1, OneEntry
    <3>3. QED
      BY <3>1, <3>2
  <2> DEFINE T == S \cup {e.url}
  <2>5. T \in SUBSET Urls /\ Cardinality(T) = e.depth + 1
    <3>1. Cardinality(T) = Cardinality(S) + 1
      BY <1>2, <2>4, FS_AddElement
    <3>2. QED
      BY <1>1, <2>2, <2>3, <3>1
  <2>6. \A u \in T : \E f \in Known : f.url = u /\ f.depth <= e.depth
    <3>1. \A u \in S : \E f \in Known : f.url = u /\ f.depth <= n
      BY <2>2, <2>3
    <3>2. \A f \in Known : f.depth <= n => f.depth <= e.depth
      BY <1>1
    <3>3. e.depth <= e.depth
      OBVIOUS
    <3>4. QED
      BY <3>1, <3>2, <3>3
  <2>7. Chain(e, T)
    BY <2>5, <2>6
  <2> HIDE DEF Chain
  <2>8. QED
    BY <2>5, <2>7
<1> HIDE DEF Good
<1>5. \A n \in Nat : n \in Good
  BY <1>3, <1>4, NatSetInduction
<1>6. ASSUME NEW e \in Known PROVE e.depth <= Cardinality(Urls)
  <2>1. PICK S \in SUBSET Urls : Cardinality(S) = e.depth + 1
    BY <1>1, <1>5 DEF Good
  <2>2. Cardinality(S) <= Cardinality(Urls)
    BY <1>2, FS_Subset
  <2>3. QED
    BY <1>1, <1>2, <2>1, <2>2
<1>7. QED
  BY <1>6

LEMMA DepthsAreDistances ==
    ASSUME TypeOK, PlacedOnce, BreadthInv, NEW e \in Known
    PROVE  e.depth = Distance(e.url)
<1> DEFINE S == {n \in 0..Cardinality(Urls) : e.url \in Within[n]}
<1>1. e.depth \in Nat /\ e.url \in Within[e.depth]
  BY EntriesAreReached
<1>2. Cardinality(Urls) \in Nat
  BY CrawlAssumption, FS_CardinalityType
<1>3. e.depth \in S
  BY <1>1, <1>2, DepthIsBounded
<1>4. ASSUME NEW n \in S PROVE e.depth <= n
  <2>1. Start \in seen
    <3>1. e.url \in seen
      BY DEF PlacedOnce, Known, UrlsOf
    <3>2. QED
      BY <3>1 DEF BreadthInv, StartIsKnown
  <2>2. n \in Nat /\ e.url \in Within[n]
    BY <1>2
  <2>3. PICK f \in Known : f.url = e.url /\ f.depth <= n
    BY <2>1, <2>2, ReachedIsKnown
  <2>4. QED
    BY <2>3, OneEntry
<1>5. Min(S) \in S /\ \A n \in S : Min(S) <= n
  <2>1. S \in SUBSET Nat /\ S # {}
    BY <1>2, <1>3
  <2> HIDE DEF S
  <2>2. QED
    BY <2>1, LeastIndex
<1>6. Distance(e.url) = Min(S)
  BY DEF Distance
<1>7. Min(S) \in Nat /\ Min(S) <= e.depth /\ e.depth <= Min(S)
  <2>1. S \subseteq Nat
    BY <1>2
  <2> HIDE DEF S
  <2>2. QED
    BY <1>3, <1>4, <1>5, <2>1
<1> HIDE DEF S
<1>8. QED
  BY <1>1, <1>6, <1>7

\* The depth of an entry is the least number of links to it, by way of its
\* parent, however the pages link to each other and whatever they offer first.
THEOREM DepthsAreLeast == Spec => []DepthIsDistance
<1>1. ASSUME Invariant, BreadthInv PROVE DepthIsDistance
  <2>1. TypeOK /\ PlacedOnce
    BY <1>1 DEF Invariant
  <2>2. \A e \in Known : e.depth = Distance(e.url)
    BY <1>1, <2>1, DepthsAreDistances
  <2>3. ASSUME NEW e \in Known, e.url # Start
        PROVE  e.url \in LinksOf(e.parent) /\ Distance(e.parent) = e.depth - 1
    <3>1. PICK p \in scanned : /\ p.url = e.parent /\ e.url \in LinksOf(p.url)
                               /\ e.depth = p.depth + 1
      BY <1>1, <2>3 DEF BreadthInv, ParentsAreScanned
    <3>2. p \in Known /\ p.depth \in Nat
      BY <2>1 DEF Known, TypeOK, Entry
    <3>3. Distance(e.parent) = p.depth
      BY <2>2, <3>1, <3>2
    <3>4. e.depth - 1 = p.depth
      BY <3>1, <3>2
    <3>5. QED
      BY <3>1, <3>3, <3>4
  <2>4. QED
    BY <2>2, <2>3 DEF DepthIsDistance, Known
<1>2. QED
  BY <1>1, CrawlInvariant, CrawlGoesByBreadth, PTL

\* A crawl that ran dry has scanned exactly the pages within the depth limit on
\* hosts that are allowed.
THEOREM DrainedCrawlsAreComplete == Spec => []DrainedIsComplete
<1>1. ASSUME Invariant, BreadthInv PROVE DrainedIsComplete
  <2> SUFFICES ASSUME stage = "done", queue = <<>>, stop # "invalid_url"
               PROVE  UrlsOf(scanned) = {u \in Within[policy.depth] : ~OffLimits(u)}
    BY DEF DrainedIsComplete
  <2>1. TypeOK /\ PlacedOnce /\ Start \in seen
    BY <1>1 DEF Invariant, BreadthInv, StartIsKnown
  <2>2. policy.depth \in Nat
    BY <2>1, CrawlAssumption DEF TypeOK, Policy
  <2>3. Known = scanned \cup limited
    BY DEF Known, Range
  <2>4. ASSUME NEW e \in scanned
        PROVE  e.url \in Within[policy.depth] /\ ~OffLimits(e.url)
    <3>1. e.depth \in Nat /\ e.url \in Within[e.depth]
      BY <1>1, <2>1, <2>3, EntriesAreReached
    <3>2. e.depth <= policy.depth
      <4>1. ~TooDeep(e)
        BY <1>1 DEF BreadthInv, LimitsDecide
      <4>2. QED
        BY <2>2, <3>1, <4>1 DEF TooDeep
    <3>3. Within[e.depth] \subseteq Within[policy.depth]
      BY <2>1, <2>2, <3>1, <3>2, WithinGrows
    <3>4. QED
      BY <1>1, <3>1, <3>3 DEF BreadthInv, LimitsDecide
  <2>5. ASSUME NEW u \in Within[policy.depth], ~OffLimits(u)
        PROVE  \E e \in scanned : e.url = u
    <3>1. PICK f \in Known : f.url = u /\ f.depth <= policy.depth
      BY <1>1, <2>1, <2>2, ReachedIsKnown
    <3>2. f.depth \in Nat
      BY <1>1, <2>1, EntriesAreReached
    <3>3. ~TooDeep(f) /\ ~OffLimits(f.url)
      BY <2>2, <2>5, <3>1, <3>2 DEF TooDeep
    <3>4. f \notin limited
      BY <1>1, <3>3 DEF BreadthInv, LimitsDecide
    <3>5. QED
      BY <2>3, <3>1, <3>4
  <2>6. QED
    BY <2>4, <2>5 DEF UrlsOf
<1>2. QED
  BY <1>1, CrawlInvariant, CrawlGoesByBreadth, PTL

=============================================================================
