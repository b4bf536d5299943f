SPECIFICATION FairSpec
CONSTANTS
    Procs = {"p1", "p2"}
    Platforms = {"l1", "l2"}
    Cases = {"a", "b", "lost", "bad"}
    Jobs <- Crossed
    Located = {"a", "b", "bad"}
    Dynamic = {"b"}
    Broken = {"bad"}
    Faults = {"crash", "clean", "export"}
    MaxFaults = 2
    Nothing = Nothing
    Torn = Torn
    Stale = Stale
INVARIANTS TypeOK OwnElf OkIsOwn MapComplete CleanMeansOwn
PROPERTY Finishes
CHECK_DEADLOCK FALSE
