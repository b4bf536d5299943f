CONSTANTS
    Levels = {2}
    Platforms = {"spike", "nemu", "linknan"}
    NumCases = 1
    MaxChecks = 2
    Stops = FALSE
SPECIFICATION Spec
INVARIANT ResultInLog
CHECK_DEADLOCK FALSE
