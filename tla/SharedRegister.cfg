CONSTANTS
    Procs = {"p1", "p2"}
    Platforms = {"l1", "l2"}
    Cases = {"a", "b", "lost", "bad"}
    Jobs <- SameCase
    Located = {"a", "b", "bad"}
    Dynamic = {"b"}
    Broken = {"bad"}
    Faults = {}
    MaxFaults = 0
    Nothing = Nothing
    Torn = Torn
    Stale = Stale
SPECIFICATION Spec
INVARIANT OwnElf
CHECK_DEADLOCK FALSE
