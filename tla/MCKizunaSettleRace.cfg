SPECIFICATION SettleSpec
CONSTANTS
    enterpriseMain = enterpriseMain
    Agent = {a1}
    Pool = {enterpriseMain}
    Nonce = {n1}
    Settlement = {q1, q2}
    Ref = {r1}
    Amount = {1}
    SeedLane <- MCSeedLane
    NoSettlement = NoSettlement
    Disturbance = {"concurrent"}
    FailClosed = TRUE
INVARIANTS NoUnsecuredPayout
CHECK_DEADLOCK FALSE
