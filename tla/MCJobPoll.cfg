SPECIFICATION Spec
CONSTANTS
    Interval = 3
    Timeout = 7
    Slow = 2
INVARIANTS
    FetchesAreSpaced
    TimeoutIsExact
PROPERTIES
    ImplementsJobObservation
