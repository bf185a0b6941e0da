SPECIFICATION SettleSpec
CONSTANTS
    enterpriseMain = enterpriseMain
    Agent = {a1}
    Pool = {enterpriseMain}
    Nonce = {n1}
    Settlement = {q1, q2, q3}
    Ref = {r1}
    Amount = {1, 2}
    SeedLane <- MCSeedLane
    NoSettlement = NoSettlement
    Disturbance = {"kernel"}
    FailClosed = TRUE
SYMMETRY Interchangeable
INVARIANTS NoUnsecuredPayout FailureIsClean
CHECK_DEADLOCK FALSE
