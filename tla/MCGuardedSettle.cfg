SPECIFICATION GuardedSpec
CONSTANTS
    Challenge = {c1}
    Token = {t1, t2}
    MaxTotal <- MCMaxTotal
    MaxSingle <- MCMaxTotal
    Disturbance = {"unconfirmed", "db", "crash"}
    Request = {q1, q2}
    Nonce = {n1, n2}
    HexNonce = {}
    Amount = {1}
    NoTx = NoTx
    NoToken = NoToken
    NoBudget = NoBudget
SYMMETRY Interchangeable
INVARIANTS GuardedTypeOK SpentMatchesHolders WithinSignedCap OneSessionPerChallenge RepliesAgree SecondPaymentHasCause RefusalIsClean
PROPERTIES ImplementsBudget
CHECK_DEADLOCK FALSE
