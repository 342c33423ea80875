SPECIFICATION Spec
CONSTANTS
    Items = {i1, i2}
    CheckpointEvery = 3
    MaxRevisions = 2
    MaxReleases = 4
    MaxSequence = 5
SYMMETRY Symmetry
INVARIANTS
    OnePublishedRelease
    ChangesStartFromParent
PROPERTY
    ImplementsReleaseStore
CHECK_DEADLOCK FALSE
