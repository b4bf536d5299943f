SPECIFICATION RawSpec
CONSTANTS
    Targets <- MainPriv
    Irqs = {"ssi", "mti"}
    SIrqs = {"ssi"}
    MClear = {"ssi"}
    SClear = {"ssi"}
    Excs = {"ill"}
    InstFaults = {"iaf"}
    DelegChoices <- AllDelegs
    AnySwitch = FALSE
    NumTests = 2
    MaxOps = 3
INVARIANT TrapRecorded
