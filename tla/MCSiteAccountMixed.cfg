SPECIFICATION SiteSpec
CONSTANTS
    SiteThreads = {t1, t2}
    UsedModes = {"api_token", "bearer_token", "cookie_header"}
    SiteAccountIds = {}
    HeaderNames = {h1}
    SiteSecrets = {s1}
    Null = Null
    Declarations = {"new"}
    Declared = "new"
    DeclaredEnabled = TRUE
INVARIANT ReadinessAgrees
CHECK_DEADLOCK FALSE
