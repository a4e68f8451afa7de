SPECIFICATION Spec
CONSTANTS
    DisplayName = "display_name"
    Attributes = {"description"}
    Values = {"u", "v"}
    None = "none"
    LocalId = "local_id"
    Assets = {1}
    Targets = {"t1", "t2"}
    Settings = {"s1", "s2"}
    DerivedId = FALSE
    Worlds <- mcOneAsset
    MaxChanges = 1
    MaxCommands = 3
INVARIANTS TypeOK PlanAppliesOnce ExitTellsTheTruth OnlyStalePlansAreRefused
PROPERTIES WritesAreJustified ConflictsBlockWrites RejectedModelsAreNotApplied
