SPECIFICATION Spec
CONSTANTS
    MaxRetries = 2
    MaxCredit = 2
    Word = 16
    Faults = {"failed", "refused", "lost"}
    Clocks = {4, 9, 20}
    Epoch = 11
    MaxFaults = 3
    MaxNotify = 1
    MaxSets = 8
    MaxResets = 1
    MaxNow = 4
CHECK_DEADLOCK FALSE
INVARIANTS TypeOK OwnSession RetriesSuffice LeaksBounded RateBound
PROPERTIES CallsReturn
