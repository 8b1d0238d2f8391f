SPECIFICATION Spec
CONSTANTS
    Normal = Normal
    Verification = Verification
    Configs <- MCConfigs
    Texts <- MCTexts
    NoText = NoText
    NoTimer = NoTimer
    MaxUtterances = 2
    MaxTyped = 0
    MaxExits = 0
    MaxSegments = 0
INVARIANTS
    OneTurnPerUtterance
CHECK_DEADLOCK FALSE
