SPECIFICATION Spec
CONSTANTS
    r1 = r1
    r2 = r2
    Runs = {r1, r2}
    Scenarios <- mcScenarios
    NodeOrder <- mcNodeOrder
    PerPage = 2
    MaxPages = 2
    MaxComments = 6
CHECK_DEADLOCK FALSE
INVARIANTS GateTellsTheTruth OneStickyComment SavedComparisonReviewsAlike ImpactIsReachability
