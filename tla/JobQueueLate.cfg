SPECIFICATION Spec
CONSTANTS
    w1 = w1
    w2 = w2
    Workers <- MCWorkers
    Jobs = {1, 2}
    NoJob = 0
    NoWorker = NoWorker
    BatchSize = 2
    MaxAttempts = 2
    StuckLock = 1
    MaxJob = 1
    TickSecs = 900
    EnqueueDelays = {0, 1}
    Disruptions = {"slow"}
    MaxDisruptions = 1
INVARIANT NoDoubleProcessing
