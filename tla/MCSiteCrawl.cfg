SPECIFICATION Spec
CONSTANTS
    p0 = p0
    p1 = p1
    p2 = p2
    p3 = p3
    p4 = p4
    out = out
    bad = bad
    Urls <- MCUrls
    Unusable = {bad}
    Foreign = {out}
    Start = p0
    Models <- MCModels
    ModelOf <- MCModelOf
    Offers <- MCOffers
    Confidences = {35, 58}
    AskedDepths <- MCDepths
    AskedPages = {0, 2, 4, 10}
    DepthCap = 3
    PageCap = 7
    NoUrl = NoUrl
    NoCandidate = NoCandidate
    NoRow = NoRow
INVARIANTS TypeOK PlacedOnce DepthIsDistance DrainedIsComplete BestKept CompletedMeansAll
CHECK_DEADLOCK FALSE
