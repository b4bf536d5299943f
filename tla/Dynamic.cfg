SPECIFICATION Spec
CONSTANTS
    Image = 524544
    Pages <- SomePages
    Bases <- SomeBases
    MaxCalls = 3
INVARIANTS
    TypeOK
    ProgramMapped
    SameAsStatic
PROPERTY MapOnly
