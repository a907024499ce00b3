SPECIFICATION Spec
CONSTANTS
    NumProcs = 2
    MaxGen = 1
    MaxSlotGen = 1
    Latency = 1
    MaxMailbox = 1
    MaxAsync = 1
    Quantum = 1
    HasTimer = TRUE
    MayCall <- ClientAndDriver
CHECK_DEADLOCK FALSE
INVARIANTS
    PeerDiedIsFinal
    NothingQueuedFromAwaitedPeer
    StopIsJustified
PROPERTIES
    AwaitedSenderIsHeard
