SPECIFICATION FairSpec
CONSTANTS
    NumProcs = 3
    MaxGen = 1
    MaxSlotGen = 1
    Latency = 1
    MaxMailbox = 1
    MaxAsync = 1
    Quantum = 1
    HasTimer = FALSE
    MayCall <- WaiterAndSpawner
CHECK_DEADLOCK FALSE
PROPERTIES
    PeerDeathIsReported
