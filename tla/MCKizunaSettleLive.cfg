SPECIFICATION FairSettleSpec
CONSTANTS
    enterpriseMain = enterpriseMain
    Agent = {a1}
    Pool = {enterpriseMain}
    Nonce = {n1}
    Settlement = {q1, q2}
    Ref = {r1}
    Amount = {1}
    SeedLane <- MCSeedLane
    NoSettlement = NoSettlement
    Disturbance = {"concurrent", "lapse", "release", "unconfirmed", "kernel"}
    FailClosed = FALSE
PROPERTIES EveryRequestAnswered RetryFreesExpired
CHECK_DEADLOCK FALSE
