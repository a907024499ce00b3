SPECIFICATION StaticSpec
CONSTANTS
    NumObjects = 2
    MaxSize = 1
    Sizes = {1}
    Windows <- OneWindow
    Kinds = {"Write"}
    AddrMax = 2
    MemSize = 1
    MaxCaps = 1
    PermSets = {{"READ", "WRITE"}}
    TxIds = {t1}
    Values = {0, 1}
    GenMod = 2
    ProcDomains = {p1}
    DmaDomains = {q1}
    ZeroValue = 0
INVARIANTS LivePlacementsDisjoint
PROPERTIES CommitProvenance SealedImmutable
