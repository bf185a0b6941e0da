SPECIFICATION KamiyoSpec
CONSTANTS
    Oracle = {o1, o2, o3}
    Founder = {o1, o2}
    FounderStake = 45
    FounderViolations = 1
    Mobile = {o3}
    MAX_ORACLES = 4
    MIN_ORACLE_STAKE = 50
    LAMPORTS_PER_SOL = 100
    ORACLE_WITHDRAWAL_COOLDOWN = 2
    Stake = {50}
    Addition = {150}
    AdminWeight = {1}
    Withdrawal = {20}
    MaxStake = 200
    MaxTime = 4
    Transaction = {t1}
    Amount = {900}
    TimeLock = {2}
    Score = {60}
    RefundPercentage = {33}
    AgentSlash = {}
    NoScore = NoScore
    MAX_SCORE_DEVIATION = 20
    MIN_CONSENSUS_ORACLES = 3
    TIER2_ESCROW_THRESHOLD = 1000
    TIER3_ESCROW_THRESHOLD = 10000
    MAX_COMMITMENTS = 5
    MAX_ORACLE_SLASH_VIOLATIONS = 2
    MIN_CREATION_FEE = 1
    COMMIT_PHASE_DURATION = 1
    REVEAL_PHASE_DURATION = 1
    ORACLE_REVEAL_DELAY = 1
    GRACE_PERIOD_SECONDS = 1
INVARIANTS PoolCoversStakes
CHECK_DEADLOCK FALSE
