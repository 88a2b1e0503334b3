SPECIFICATION FairSpec
CONSTANTS
    w1 = w1
    w2 = w2
    p1 = p1
    p2 = p2
    l1 = l1
    r1 = r1
    NoLink = NoLink
    NoWorker = NoWorker
    NoJob = NoJob
    Workers <- TwoWorkers
    Replicas <- TwoReplicas
    Links <- OneLink
    Responses = {r1}
    Lists <- ShortAndLong
    Users = {1, 2, 3}
    PutMax = 1
    ChunkSize = 2
    MaxAttempts = 2
    OldWorkers = {}
    Troubles = {"api", "late", "expire", "backfill", "write", "webhook", "reject", "crash"}
    MaxTroubles = 1
INVARIANTS TypeOK BackfillOnce
PROPERTIES ImplementsReplace LinksEvaluated WebhooksArrive
CHECK_DEADLOCK FALSE
