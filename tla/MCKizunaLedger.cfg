SPECIFICATION Spec
CONSTANTS
    enterpriseMain = enterpriseMain
    adHoc = adHoc
    Agent = {a1}
    Pool = {enterpriseMain, adHoc}
    Nonce = {n1, n2}
    Settlement = {s1, s2}
    Ref = {r1}
    Amount = {1, 2}
    SeedLane <- MCSeedLane
    NoSettlement = NoSettlement
SYMMETRY Interchangeable
INVARIANTS TypeOK ChargedExactlyOnce PrefundBacksReservations PoolMirrorsRows RepaymentsPayDebts OutboxMatchesLedger
PROPERTIES TerminalRowsAreFinal PrefundConserved
CHECK_DEADLOCK FALSE
