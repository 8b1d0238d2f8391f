SPECIFICATION FairSpec
CONSTANTS
    Texts <- MCTexts
    Configs <- MCConfigs
    NoText = NoText
    NoTimer = NoTimer
    MaxTurns = 3
    MaxVersion = 3
INVARIANTS
    TypeOK
    TimersAreCurrent
    NeverStranded
PROPERTIES
    ComesToRest
CHECK_DEADLOCK FALSE
