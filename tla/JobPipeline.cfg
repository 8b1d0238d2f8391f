SPECIFICATION FairSpec
CONSTANTS
    Jobs = {j1, j2}
    Workers = {w1, w2}
    NoWorker = NoWorker
    NoJob = NoJob
    MaxAttempts <- MCMaxAttempts
    MaxCrashes = 1
    MaxLapses = 1
    MaxRequeues = 1
INVARIANTS
    TypeOK
    AtMostOneEffect
    DoneUnlessBroken
    RetryBudget
PROPERTIES
    NewestAttemptDecides
    
    ImplementsDelivery
    Settles
