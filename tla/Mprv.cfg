SPECIFICATION Spec
CONSTANTS
    Image = 524544
    Home = 524288
    Pages <- UsedPages
    Machines = {"holds"}
INVARIANT MprvIsS
CHECK_DEADLOCK FALSE
