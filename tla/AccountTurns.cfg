SPECIFICATION Spec
CONSTANTS
    balance = balance
    dispute = dispute
    otherDispute = otherDispute
    human = human
    NoRequest = NoRequest
    Requests <- MCRequests
    Writes <- MCWrites
    Protected <- MCProtected
    Key <- MCKey
    NoKey <- MCNoKey
    Job <- MCJob
    MaxTurns = 4
    MaxAttempts = 2
    MaxExpiries = 1
    MaxFailures = 1
    MaxCrashes = 1
INVARIANTS
    TypeOK
    OnlyNewestProceeds
    DigitsStayLocal
    ToldIsDurable
    UndeliveredIsUnderWay
    RepeatsAreExcused
    LockedByAttempts
PROPERTIES
    WritesAreVerified
CHECK_DEADLOCK FALSE
