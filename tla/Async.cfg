SPECIFICATION AsyncSpec
CONSTANTS
    Targets <- FourPriv
    Irqs = {"ssi", "mti"}
    SIrqs = {"ssi"}
    MClear = {"ssi"}
    SClear = {"ssi"}
    Excs = {"ill"}
    InstFaults = {"iaf"}
    DelegChoices <- Delegs
    AnySwitch = TRUE
    NumTests = 2
    MaxOps = 3
PROPERTY FreshStart
