SPECIFICATION Spec
CONSTANTS
    Requests = {r1, r2}
    MaxEvents = 3
    Runs = {x1, x2}
    Costs = {1, 2}
    Totals = {0, 5, 10}
    Monthly = 3
    Single = 2
    Tolerance = 1
    ColumnLimit = 6
    NoCost = NoCost
    NoRun = NoRun
SYMMETRY Symmetry
INVARIANTS TypeOK OverspendBounded FinalCostHasRun CompletedRunSettles RunIsAllocated
PROPERTY StaysReconciled
CHECK_DEADLOCK FALSE
