CONSTANTS
    r1 = r1
    r2 = r2
    r3 = r3
    NoReq = NoReq
    Req <- R3
    Cap = 2
    Period = 3
    Slack = 1
    Attempts = 2
    Backoff <- Sleeps
    Timeout = 1
    Late = 0
    LastCall = 1

SPECIFICATION FairSpec
CHECK_DEADLOCK FALSE
INVARIANTS CapHolds NothingTwice
PROPERTIES RequestsEnd
