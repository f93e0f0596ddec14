----------------------------- MODULE MCSiteCrawl -----------------------------
(***************************************************************************)
(* A web of six URLs.  Page p4 is two links away by way of one page and    *)
(* three by way of another; pages link back, to themselves, to another     *)
(* host and to what is no URL; one model has two URLs.  A page of a site   *)
(* links to what it offers; a captured page offers itself and links to     *)
(* nothing.                                                                *)
(***************************************************************************)
EXTENDS SiteCrawl

CONSTANTS p0, p1, p2, p3, p4, out, bad

MCUrls == {p0, p1, p2, p3, p4, out, bad}

MCModelOf == [u \in MCUrls |-> IF u \in {p2, p3} THEN "one" ELSE IF u = p4 THEN "two" ELSE "other"]

\* A candidate with the lower or the higher confidence.
C(u, confidence) == [url |-> u, confidence |-> confidence]

\* A page that offers candidates, and links to them and to others.
P(candidates, others) ==
    [candidates |-> candidates,
     links |-> [i \in DOMAIN candidates |-> candidates[i].url] \o others]

\* A page of which only the metadata is captured.
M(u) == [candidates |-> <<C(u, 35)>>, links |-> <<>>]

MCOffers ==
    [u \in MCUrls |->
        CASE u = p0 -> {NoOffer, M(p0), P(<<C(p1, 35), C(p3, 35)>>, <<>>), P(<<C(p3, 58), C(p1, 35), C(p0, 35)>>, <<>>),
                       P(<<C(p1, 58)>>, <<out, bad>>)}
          [] u = p1 -> {NoOffer, P(<<C(p2, 35)>>, <<>>), P(<<C(p2, 58), C(p3, 35)>>, <<>>), P(<<C(p3, 58)>>, <<p0, p2>>)}
          [] u = p2 -> {NoOffer, P(<<C(p4, 58), C(p2, 58)>>, <<>>), P(<<C(p4, 35)>>, <<out>>), P(<<C(p3, 58)>>, <<bad, p3, bad>>)}
          [] u = p3 -> {NoOffer, M(p3), P(<<C(p4, 35)>>, <<>>), P(<<C(p4, 58), C(p1, 35)>>, <<>>), P(<<C(p3, 58), C(p2, 35)>>, <<>>)}
          [] u = p4 -> {NoOffer, P(<<C(p4, 58)>>, <<>>), P(<<C(p0, 58)>>, <<out>>)}
          [] u = out -> {NoOffer, P(<<C(p4, 58)>>, <<bad>>)}
          [] OTHER -> {NoOffer}]

MCDepths == -1..4

MCModels == {"one", "two", "other"}
=============================================================================
