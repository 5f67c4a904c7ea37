SPECIFICATION Spec
CONSTANTS
    Prices = {1}
    Ids = {i1, i2}
    Sizes = {1, 2}
    NoEntry = NoEntry
    NoDelta = NoDelta
    Recaps <- MCRecaps
    ClearStale = TRUE
    UpdateStale = FALSE
    UpdateGapped = FALSE
    MaxDeltas = 2
    MaxEnds = 1
INVARIANTS NothingLost InStep LockedForTimer FreedBeforeUpdates
PROPERTIES SnapshotIsServed
