SPECIFICATION RepaySpec
CONSTANTS
    fastpathMain = fastpathMain
    enterpriseMain = enterpriseMain
    Agent = {a1}
    Pool = {fastpathMain}
    Nonce = {n1}
    Settlement = {s1}
    Ref = {r1, r2}
    Amount = {1, 2}
    SeedLane <- MCSeedLane
    NoSettlement = NoSettlement
    RepayRequest = {c1, c2, c3}
    Wallet = {w1}
    RepayWallet <- MCRepayWallet
    Scope <- MCScope
    Deposit = {d1}
    DepositAmount <- MCDepositAmount
    Fault = {"db"}
INVARIANTS RetryReconciles
CHECK_DEADLOCK FALSE
