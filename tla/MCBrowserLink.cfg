\* Two threads and one link, fair.
CONSTANTS
    s1 = s1
    Links = {s1}
    r1 = r1
    r2 = r2
    Requests = {r1, r2}
    NoLink = NoLink
    Manual = Manual
    NoSecret = NoSecret
    a1 = a1
    Accounts = {a1}
    NoAccount = NoAccount
    Edits <- ManualOrNone
SPECIFICATION FairSpec
INVARIANTS
    TypeOK
    StoredIsCaptured
    ExpiredHelperIsStopped
PROPERTIES
    LinkSettles
