SPECIFICATION Spec
CONSTANTS
    NumProcs = 2
    MaxGen = 1
    MaxSlotGen = 2
    Latency = 1
    MaxMailbox = 1
    MaxAsync = 2
    Quantum = 1
    HasTimer = FALSE
    MayCall <- DeviceUsers
CHECK_DEADLOCK FALSE
INVARIANTS
    TypeOK
    CompletionOrderCoherent
    OutstandingAgree
    StopIsJustified
PROPERTIES
    CompletionsAreExact
