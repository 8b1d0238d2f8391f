SPECIFICATION FairSpec
CONSTANTS
    Normal = Normal
    Verification = Verification
    Configs <- MCConfigs
    Texts <- MCTexts
    NoText = NoText
    NoTimer = NoTimer
    MaxUtterances = 2
    MaxTyped = 1
    MaxExits = 1
    MaxSegments = 1
INVARIANTS
    TypeOK
    NoTurnAbandoned
    OneResponse
    InterruptedIsSilent
    DigitsGetTime
    OnlyTheLastIsLate
PROPERTIES
    InferenceRunsToEnd
    ImplementsConversation
    ListensAgain
CHECK_DEADLOCK FALSE
