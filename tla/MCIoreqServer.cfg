SPECIFICATION DSpec
CONSTANTS
    VcpuCount = 2
    Kinds = {"request", "bad_size"}
    Commands = {"GET", "SET", "NEXT", "QUERY", "NOTIFY", "unknown"}
    Messages <- MCMessages
CHECK_DEADLOCK FALSE
INVARIANTS TypeOK ServedOnce NoLostWakeup AnswerFitsRequest AssertionsHold
PROPERTIES Answered
