SPECIFICATION Spec
CONSTANTS
    Image = 524544
    Home = 524288
    Pages <- UsedPages
    Machines = {"holds", "speculates"}
INVARIANT TypeOK
INVARIANT ExplainedFailures
INVARIANT Portable
INVARIANT CsrsInReach
INVARIANT ImageMapped
INVARIANT NextTestReaches
INVARIANT ComesBack
PROPERTY LostOnlyByMap
CHECK_DEADLOCK FALSE
