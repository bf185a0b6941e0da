SPECIFICATION SettleSpec
CONSTANTS
    enterpriseMain = enterpriseMain
    Agent = {a1}
    Pool = {enterpriseMain}
    Nonce = {n1}
    Settlement = {q1, q2}
    Ref = {r1}
    Amount = {1, 2}
    SeedLane <- MCSeedLane
    NoSettlement = NoSettlement
    Disturbance = {"concurrent", "lapse", "release", "unconfirmed", "kernel", "db", "crash"}
    FailClosed = TRUE
SYMMETRY Interchangeable
INVARIANTS SettleTypeOK RepliesAreTrue ConsumedIsPaid
PROPERTIES ImplementsLedger
CHECK_DEADLOCK FALSE
