SPECIFICATION GuardedSpec
CONSTANTS
    Challenge = {c1}
    Token = {t1}
    MaxTotal <- MCMaxTotal
    MaxSingle <- MCMaxTotal
    Disturbance = {"unconfirmed"}
    Request = {q1, q2}
    Nonce = {n1}
    HexNonce = {n1}
    Amount = {1}
    NoTx = NoTx
    NoToken = NoToken
    NoBudget = NoBudget
INVARIANTS SessionNoncePaysOnce
CHECK_DEADLOCK FALSE
