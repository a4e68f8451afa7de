CONSTANTS
    LocalIds <- MCLocalIds
    HardMaxResources = 3
    HardMaxCharacteristics = 8
    Scenarios <- MCScenarios
    MaxRuns = 3
SPECIFICATION Spec
INVARIANTS
    EveryJobCanRun
    ImportRealisesThePlan
