SPECIFICATION Spec
CONSTANTS
    NumSlots = 3
    MaxGen = 1
    NumHandles = 2
    MaxHandleGen = 1
    StackSizes = {1, 2}
    TrapSize = 1
CHECK_DEADLOCK FALSE
INVARIANTS
    TypeOK
    NoOrphans
    EveryChildHasOneCollector
    HandlesNameChildren
    WaitersWaitForRunningChildren
    WaitsAreWellFounded
    ExtentsConserved
PROPERTIES
    KeysNeverReused
    ZombiesKeptForParent
    HandleMeaningFixed
