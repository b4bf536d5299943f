CONSTANTS
    Levels = {0, 1, 2, 3, 4, 5, 6}
    Platforms = {"spike", "nemu", "linknan"}
    NumCases = 2
    MaxChecks = 2
    Stops = TRUE
SPECIFICATION Spec
INVARIANTS TypeOK PassIsEarned FailureIsTold UnknownIsSilent
CHECK_DEADLOCK FALSE
