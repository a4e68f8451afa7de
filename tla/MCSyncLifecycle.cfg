SPECIFICATION Spec
CONSTANTS
    N <- MCN
    Cut <- MCCut
    Creates <- MCCreates
INVARIANTS
    TypeOK
    SuccessIsTrue
    StagedBatches
    AppliedCountBracketsTenant
    ReportIsComplete
    OccupiedIdentifierBlocksWrites
PROPERTIES
    NoWriteAfterDoubt
    ImplementsStagedApply
