SPECIFICATION Spec
CONSTANTS
    Commands = {c1, c2, c3}
    Paths = {"a", "b", "o", "q", "r"}
    Versions <- mcVersions
    Requests <- mcRequests
    Queries <- mcQueries
    Earlier <- mcEarlier
    MaxChanges = 1
CHECK_DEADLOCK FALSE
INVARIANTS EntriesAreKept AddedHistoriesResolve TransitionsChain
SYMMETRY mcSymmetry
