SPECIFICATION Spec
CONSTANTS
    Namespace = "lake"
    Names <- MCNames
    Scenarios <- MCScenarios
    Files = {"runs.json", "more.json"}
    MaxEvents = 3
INVARIANT EvidenceIsWhatWasSaid
