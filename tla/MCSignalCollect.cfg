SPECIFICATION Spec
CONSTANTS
    a = a
    b = b
    k1 = k1
    k2 = k2
    Keys <- MCKeys
    NoKey = NoKey
    NameSize <- MCNameSize
    Atoms <- MCAtoms
    Certs = {}
    NoCert = NoCert
    MaxVarCount = 3
    MaxNameSize = 4
    MaxDataSize = 2
    Writes <- MCWrites
    PullAnswers = {TRUE}
    PushAnswers = {TRUE}
    DiskSpace = {1, 4}
    SignalAt = {"idle", "collect"}
    NestedAt = {}
    MaxSignals = 2
    MaxResumeSize = 4
INVARIANTS ListComplete
