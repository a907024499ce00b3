SPECIFICATION StaticSpec
CONSTANTS
    NumObjects = 1
    MaxSize = 2
    Sizes = {2}
    Windows <- TwoWindows
    Kinds = {"Read"}
    AddrMax = 2
    MemSize = 2
    MaxCaps = 2
    PermSets = {{"READ"}, {"READ", "WRITE", "SEAL"}, {"READ", "EXECUTE"}}
    TxIds = {t1}
    Values = {0}
    GenMod = 2
    ProcDomains = {p1}
    DmaDomains = {q1}
    ZeroValue = 0
PROPERTY CommitAtAuthorizedGeneration
