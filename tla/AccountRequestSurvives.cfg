SPECIFICATION Spec
CONSTANTS
    balance = balance
    dispute = dispute
    otherDispute = otherDispute
    human = human
    NoRequest = NoRequest
    Requests <- MCRequests
    Writes <- MCWrites
    Protected <- MCProtected
    Key <- MCKey
    NoKey <- MCNoKey
    Job <- MCJob
    MaxTurns = 4
    MaxAttempts = 2
    MaxExpiries = 0
    MaxFailures = 0
    MaxCrashes = 0
INVARIANT RequestSurvives
CHECK_DEADLOCK FALSE
