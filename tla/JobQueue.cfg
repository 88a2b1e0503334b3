\* Two workers, two jobs, batches of two whose dispatches outlast the lock.
SPECIFICATION FairSpec
CONSTANTS
    w1 = w1
    w2 = w2
    Workers <- MCWorkers
    Jobs = {1, 2}
    NoJob = 0
    NoWorker = NoWorker
    BatchSize = 2
    MaxAttempts = 2
    StuckLock = 1
    MaxJob = 1
    TickSecs = 900
    EnqueueDelays = {0, 1}
    Disruptions = {"crash", "signal", "write", "slow"}
    MaxDisruptions = 2
INVARIANTS TypeOK BatchOwned AttemptsAccounted StoppedHoldsNothing
PROPERTIES TerminalIsFinal ImplementsContract JobsSettle
