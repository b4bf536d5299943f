SPECIFICATION FairSpec
CONSTANTS
    Targets <- AllPriv
    Irqs = {"ssi", "mti"}
    SIrqs = {"ssi"}
    MClear = {"ssi"}
    SClear = {"ssi"}
    Excs = {"ill"}
    InstFaults = {"iaf"}
    DelegChoices <- AllDelegs
    AnySwitch = FALSE
    NumTests = 2
    MaxOps = 3
INVARIANTS TypeOK PrivAgrees SwitchesSound TrapRecorded IInv
PROPERTIES SwitchesOnly RunEnds
