------------------------------ MODULE SiteCrawl ------------------------------
(***************************************************************************)
(* One scan of a model site: the breadth-first crawl of SiteScanService.   *)
(* scan within its limits, and the run that is saved (backend/domains/     *)
(* site_scanning/service.py, store.py).                                    *)
(*                                                                         *)
(* A URL is normalized or unusable.  An adapter makes candidates and links *)
(* of a page; what a page offers is chosen when it is fetched.  Scans      *)
(* share nothing, and their results are only ever inserted: one scan is    *)
(* modelled.                                                               *)
(***************************************************************************)
EXTENDS Integers, Sequences, FiniteSets, FiniteSetsExt, Functions

CONSTANTS
    Urls,        \* normalized URLs
    Unusable,    \* those among them that stand for what cannot be normalized
    Foreign,     \* those whose host is outside the allowed hosts
    Start,       \* start_url
    Models,      \* candidate keys
    ModelOf,     \* [Urls -> Models]: the candidate key of a URL
    Offers,      \* [Urls -> SUBSET Offer]: what a page may offer
    Confidences, \* confidences of candidates, in hundredths
    AskedDepths, \* max_depth of a policy given to scan (a route sends 0..3)
    AskedPages,  \* max_pages of a policy (a route sends 1..250)
    DepthCap,    \* 3: the depth a policy is clamped to
    PageCap,     \* 250: the number of pages a policy is clamped to
    NoUrl,       \* the parent of the start page
    NoCandidate, \* there is no candidate for the key
    NoRow        \* the run has not been saved

\* AdapterDiscoveryResult
Offer == [candidates : Seq([url : Urls \ Unusable, confidence : Confidences]), links : Seq(Urls)]

ASSUME CrawlAssumption ==
    /\ IsFiniteSet(Urls) /\ Unusable \subseteq Urls /\ Foreign \subseteq Urls
    /\ Start \in Urls \ (Unusable \cup Foreign)
    /\ ModelOf \in [Urls -> Models]
    /\ Offers \in [Urls -> SUBSET Offer]
    /\ IsFiniteSet(Models) /\ Confidences \subseteq 0..100
    /\ AskedDepths \subseteq Int /\ AskedPages \subseteq Int
    /\ DepthCap \in Nat /\ PageCap \in Nat \ {0}
    /\ NoUrl \notin Urls
    /\ NoCandidate \notin [url : Urls, confidence : Confidences, depth : Nat]
    /\ NoRow \notin [stop : STRING, queued : Nat, scanned : Nat, accepted : Nat, rejected : Nat]

VARIABLES
    stage,     \* where the scan is
    policy,    \* the normalized CrawlPolicy
    queue,     \* the entries to visit
    seen,      \* the URLs that have been queued
    count,     \* scanned_url_count
    scanned,   \* the entries whose page was scanned
    limited,   \* the entries rejected by host or depth
    unusable,  \* rejections of unusable URLs
    kept,      \* candidates_by_key
    stop,      \* stop_reason
    page,      \* page[u]: what the page of u offered when it was scanned
    row        \* the saved run

vars == <<stage, policy, queue, seen, count, scanned, limited, unusable, kept, stop, page, row>>

Policy == [depth : 0..DepthCap, pages : 1..PageCap, sameDomain : BOOLEAN]

NoOffer == [candidates |-> <<>>, links |-> <<>>]

Entry == [url : Urls, depth : Nat, parent : Urls \cup {NoUrl}]

Candidate == [url : Urls, confidence : Confidences, depth : Nat]

Reasons == {"completed", "depth_limit", "page_limit", "runtime_limit", "domain_limit", "invalid_url"}

Row == [stop : Reasons, queued : Nat, scanned : Nat, accepted : Nat, rejected : Nat]

TypeOK ==
    /\ stage \in {"idle", "crawl", "done", "saved", "failed"}
    /\ policy \in Policy
    /\ queue \in Seq(Entry) /\ seen \in SUBSET Urls
    /\ count \in 0..PageCap
    /\ scanned \in SUBSET Entry /\ limited \in SUBSET Entry /\ unusable \in Nat
    /\ kept \in [Models -> Candidate \cup {NoCandidate}]
    /\ stop \in Reasons
    /\ page \in [Urls -> Offer]
    /\ row \in Row \cup {NoRow}

\* CrawlPolicy.normalized
Clamp(asked, low, high) == IF asked < low THEN low ELSE IF asked > high THEN high ELSE asked

\* Mutant of Normalized: nothing below zero is cut off.
NormalizedAbove(depth, pages, same) ==
    [depth |-> IF depth > DepthCap THEN DepthCap ELSE depth,
     pages |-> Clamp(pages, 1, PageCap), sameDomain |-> same]

Normalized(depth, pages, same) ==
    [depth |-> Clamp(depth, 0, DepthCap), pages |-> Clamp(pages, 1, PageCap), sameDomain |-> same]

Init ==
    /\ stage = "idle" /\ policy = Normalized(0, 1, TRUE)
    /\ queue = <<>> /\ seen = {} /\ count = 0
    /\ scanned = {} /\ limited = {} /\ unusable = 0
    /\ kept = [m \in Models |-> NoCandidate]
    /\ stop = "completed"
    /\ page = [u \in Urls |-> NoOffer]
    /\ row = NoRow

-----------------------------------------------------------------------------
\* The host of the start URL is always among the allowed ones.
BeginScan(depth, pages, same) ==
    /\ stage = "idle"
    /\ stage' = "crawl"
    /\ policy' = Normalized(depth, pages, same)
    /\ queue' = <<[url |-> Start, depth |-> 0, parent |-> NoUrl]>>
    /\ seen' = {Start}
    /\ UNCHANGED <<count, scanned, limited, unusable, kept, stop, page, row>>

\* A start URL that cannot be normalized is the only rejection.
RejectStart ==
    /\ stage = "idle"
    /\ stage' = "done"
    /\ stop' = "invalid_url"
    /\ unusable' = 1
    /\ UNCHANGED <<policy, queue, seen, count, scanned, limited, kept, page, row>>

AtPageLimit == count >= policy.pages

\* Mutant of StopAtPages: the reason is not recorded.
StopAtPagesSilently ==
    /\ stage = "crawl" /\ queue # <<>> /\ AtPageLimit
    /\ stage' = "done"
    /\ UNCHANGED <<policy, queue, seen, count, scanned, limited, unusable, kept, stop, page, row>>

StopAtPages ==
    /\ stage = "crawl" /\ queue # <<>> /\ AtPageLimit
    /\ stage' = "done"
    /\ stop' = "page_limit"
    /\ UNCHANGED <<policy, queue, seen, count, scanned, limited, unusable, kept, page, row>>

\* The time is up.
StopAtRuntime ==
    /\ stage = "crawl" /\ queue # <<>> /\ ~AtPageLimit
    /\ stage' = "done"
    /\ stop' = "runtime_limit"
    /\ UNCHANGED <<policy, queue, seen, count, scanned, limited, unusable, kept, page, row>>

Visiting == stage = "crawl" /\ queue # <<>> /\ ~AtPageLimit

OffLimits(u) == policy.sameDomain /\ u \in Foreign

\* Mutant of TooDeep: the deepest pages are left out.
TooDeepEarly(entry) == entry.depth >= policy.depth /\ entry.depth > 0

TooDeep(entry) == entry.depth > policy.depth

\* The entry at the head is not scanned: its host first, then its depth.
RejectEntry ==
    LET entry == Head(queue) IN
    /\ Visiting
    /\ OffLimits(entry.url) \/ TooDeep(entry)
    /\ queue' = Tail(queue)
    /\ limited' = limited \cup {entry}
    /\ stop' = IF OffLimits(entry.url) THEN "domain_limit" ELSE "depth_limit"
    /\ UNCHANGED <<stage, policy, seen, count, scanned, unusable, kept, page, row>>

\* The CrawlCandidate the adapter makes of a model on a page at that depth.
Found(c, depth) == [url |-> c.url, confidence |-> c.confidence, depth |-> depth]

\* _candidate_rank: the lower depth, then the higher confidence, goes first.
Before(c, d) == c.depth < d.depth \/ (c.depth = d.depth /\ c.confidence > d.confidence)

\* Mutant of Best: the last candidate of a key replaces the one before.
BestLast(m, candidates) ==
    LET of == {i \in DOMAIN candidates : ModelOf[candidates[i].url] = m}
    IN IF of = {} THEN kept[m] ELSE candidates[Max(of)]

\* The candidate kept for key m once those of a page have been compared with
\* it one after the other: only one that goes before it takes its place.
Best(m, candidates) ==
    LET of == {i \in DOMAIN candidates : ModelOf[candidates[i].url] = m}
        better == {i \in of : /\ kept[m] = NoCandidate \/ Before(candidates[i], kept[m])
                              /\ \A j \in of : ~Before(candidates[j], candidates[i])}
    IN IF better = {} THEN kept[m] ELSE candidates[Min(better)]

\* Mutant of Fresh: what has been queued before is queued again.
FreshAgain(links) == {i \in DOMAIN links : links[i] \notin Unusable}

\* The discovered URLs to queue: usable, not seen, each once, in their order.
Fresh(links) ==
    {i \in DOMAIN links : /\ links[i] \notin Unusable \cup seen
                          /\ \A j \in 1..(i - 1) : links[j] # links[i]}

\* The one enumeration of a set of indices in increasing order.
InOrder(S) == {at \in Bijection(1..Cardinality(S), S) :
                  \A i, j \in DOMAIN at : i < j => at[i] < at[j]}

Entries(links, at, entry) ==
    [k \in DOMAIN at |-> [url |-> links[at[k]], depth |-> entry.depth + 1, parent |-> entry.url]]

\* Mutant of Enqueued: what a page offers is visited next.
EnqueuedFirst(entries) == entries \o Tail(queue)

Enqueued(entries) == Tail(queue) \o entries

ScanPage(offer) ==
    LET entry == Head(queue)
        links == offer.links
        candidates == [i \in DOMAIN offer.candidates |-> Found(offer.candidates[i], entry.depth)]
    IN /\ Visiting
       /\ ~OffLimits(entry.url) /\ ~TooDeep(entry)
       /\ offer \in Offers[entry.url]
       /\ count' = count + 1
       /\ scanned' = scanned \cup {entry}
       /\ page' = [page EXCEPT ![entry.url] = offer]
       /\ kept' = [m \in Models |-> Best(m, candidates)]
       /\ unusable' = unusable + Cardinality({i \in DOMAIN links : links[i] \in Unusable})
       /\ \E at \in InOrder(Fresh(links)) : queue' = Enqueued(Entries(links, at, entry))
       /\ seen' = seen \cup {links[i] : i \in Fresh(links)}
       /\ UNCHANGED <<stage, policy, limited, stop, row>>

\* The page cannot be fetched: the scan is given up and nothing is saved.
FetchFails ==
    /\ Visiting
    /\ ~OffLimits(Head(queue).url) /\ ~TooDeep(Head(queue))
    /\ stage' = "failed"
    /\ UNCHANGED <<policy, queue, seen, count, scanned, limited, unusable, kept, stop, page, row>>

Finish ==
    /\ stage = "crawl" /\ queue = <<>>
    /\ stage' = "done"
    /\ UNCHANGED <<policy, queue, seen, count, scanned, limited, unusable, kept, stop, page, row>>

\* save_scan_result: one transaction.
Save ==
    /\ stage = "done"
    /\ stage' = "saved"
    /\ row' = [stop |-> stop, queued |-> Cardinality(seen), scanned |-> count,
               accepted |-> Cardinality({m \in Models : kept[m] # NoCandidate}),
               rejected |-> Cardinality(limited) + unusable]
    /\ UNCHANGED <<policy, queue, seen, count, scanned, limited, unusable, kept, stop, page>>

Next ==
    \/ \E depth \in AskedDepths, pages \in AskedPages, same \in BOOLEAN :
          BeginScan(depth, pages, same)
    \/ RejectStart
    \/ StopAtPages \/ StopAtRuntime \/ RejectEntry
    \/ \E offer \in UNION Range(Offers) : ScanPage(offer)
    \/ FetchFails \/ Finish \/ Save

Spec == Init /\ [][Next]_vars

-----------------------------------------------------------------------------
(* Reference definitions: the web as far as it has been seen               *)

LinksOf(u) == Range(page[u].links) \ Unusable

\* The URLs within n links of the start, along pages that may be scanned.
Within[n \in Nat] ==
    IF n = 0 THEN {Start}
    ELSE Within[n - 1] \cup UNION {LinksOf(u) : u \in {v \in Within[n - 1] : ~OffLimits(v)}}

Distance(u) == Min({n \in 0..Cardinality(Urls) : u \in Within[n]})

UrlsOf(entries) == {e.url : e \in entries}

-----------------------------------------------------------------------------
(* Properties                                                              *)

\* Every URL that has been queued is in one place: it waits, or its page was
\* scanned once, or it was rejected (service.py 114-163).
PlacedOnce ==
    /\ count = Cardinality(scanned)
    /\ \A i, j \in DOMAIN queue : queue[i].url = queue[j].url => i = j
    /\ \A e, f \in scanned \cup limited : e.url = f.url => e = f
    /\ scanned \cap limited = {}
    /\ UrlsOf(Range(queue)) \cap UrlsOf(scanned \cup limited) = {}
    /\ seen = UrlsOf(Range(queue) \cup scanned \cup limited)

\* The crawl is breadth-first: the depth of an entry is the least number of
\* links to it, by way of its parent, whatever was found first (service.py
\* 148-163).
DepthIsDistance ==
    \A e \in Range(queue) \cup scanned \cup limited :
        /\ e.depth = Distance(e.url)
        /\ e.url # Start => e.url \in LinksOf(e.parent) /\ Distance(e.parent) = e.depth - 1

\* A crawl that was not cut short has scanned every page within the depth
\* limit, and no other.
DrainedIsComplete ==
    stage = "done" /\ queue = <<>> /\ stop # "invalid_url" =>
        UrlsOf(scanned) = {u \in Within[policy.depth] : ~OffLimits(u)}

\* Of the candidates of one model, none of the scanned pages offered one that
\* goes before the one kept, and there is one (service.py 142-146).
BestKept ==
    \A e \in scanned : \A found \in Range(page[e.url].candidates) :
        LET c == Found(found, e.depth)
        IN kept[ModelOf[c.url]] # NoCandidate /\ ~Before(c, kept[ModelOf[c.url]])

\* A saved run says "completed" exactly when every URL it has found was scanned.
CompletedMeansAll ==
    row # NoRow /\ row.stop # "invalid_url" => (row.stop = "completed" <=> row.queued = row.scanned)

=============================================================================
