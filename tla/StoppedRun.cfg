CONSTANTS
    Levels = {3}
    Platforms = {"spike", "nemu", "linknan"}
    NumCases = 1
    MaxChecks = 2
    Stops = TRUE
SPECIFICATION Spec
INVARIANT StoppedIsNoPass
CHECK_DEADLOCK FALSE
