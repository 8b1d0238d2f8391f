SPECIFICATION Spec
CONSTANTS
    Jobs = {j1, j2}
    Workers = {w1, w2}
    NoWorker = NoWorker
    NoJob = NoJob
    MaxAttempts <- MCMaxAttempts
    MaxCrashes = 1
    MaxLapses = 0
    MaxRequeues = 1
INVARIANT ExactlyOnce
