SPECIFICATION Spec
CONSTANTS
    Requests = {r1, r2}
    MaxEvents = 2
    Runs = {x1, x2}
    Costs = {1, 2}
    Totals = {0, 5, 10}
    Monthly = 3
    Single = 2
    Tolerance = 1
    ColumnLimit = 6
    NoCost = NoCost
    NoRun = NoRun
PROPERTY FailureClosesRun
CHECK_DEADLOCK FALSE
