SPECIFICATION FairSyncSpec
CONSTANTS
    enterpriseMain = enterpriseMain
    fastpathMain = fastpathMain
    Agent = {a1}
    Pool = {fastpathMain}
    Nonce = {n1}
    Settlement = {s1}
    Ref = {r1}
    Amount = {1}
    SeedLane <- MCSeedLane
    NoSettlement = NoSettlement
    f1 = f1
    f2 = f2
    Flusher = {f1, f2}
    BatchSize <- MCBatchSize
    Fault = {"slow", "requeue", "db", "crash"}
INVARIANTS SyncTypeOK DeliveredIsReported ReportedIsCommitted OneFlushPerEvent
PROPERTIES EveryEventDelivered
CHECK_DEADLOCK FALSE
