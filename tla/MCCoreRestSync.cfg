SPECIFICATION Spec
CONSTANTS
    Assets <- MCAssets
    Edges <- MCEdges
    CreateRank <- MCCreateRank
    UpdateRank <- MCUpdateRank
    Types = 2
    TypeOf <- MCTypeOf
    PageSize = 1
    MaxPages = 3
    Remotes <- MCRemotes
    Initial <- MCInitial
    MaxRuns = 2
    MaxChanges = 1
INVARIANTS
    AppliedIsDone
    SuccessMeansConverged
    RerunPlansNothing
    DuplicateOnlyAfterDoubt
    ForeignUntouched
