SPECIFICATION Spec
CONSTANTS
    Texts <- MCTexts
    Numbers <- MCNumbers
    Code <- MCCode
    Calendar <- MCCalendar
    Accounts = {"loan", "card", "stranger"}
    Own = {"loan", "card"}
    NoAccount = NoAccount
    NoDate = NoDate
    NoRequest = NoRequest
    Day1 <- MCDay1
    MaxTurns = 3
    MaxDays = 1
    MaxExpiries = 1
    MaxAttempts = 2
INVARIANTS
    ExplicitDateIsTaken
CHECK_DEADLOCK FALSE
