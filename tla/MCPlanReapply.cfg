SPECIFICATION Spec
CONSTANTS
    DisplayName = "display_name"
    Attributes = {"description"}
    Values = {"u", "v"}
    None = "none"
    LocalId = "local_id"
    Assets = {1, 2}
    Targets = {"t1", "t2"}
    Settings = {"s1", "s2"}
    DerivedId = FALSE
    Worlds <- mcTwoAssets
    MaxChanges = 0
    MaxCommands = 3
INVARIANTS PlanAppliesOnce ExitTellsTheTruth
