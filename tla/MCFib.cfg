SPECIFICATION Spec
CONSTANTS
    Dests = {"d", "e"}
    Hops = {"h", "i"}
    Sources = {1, 2}
    Nested <- InnerOuter
    SourceTableBase = 10
    Window = 1
    MaxPublishes = 1
    Scenes <- MCScenes
INVARIANTS NeverRenewed CleanAfterShutdown 
PROPERTIES NoGap TablesPerSource AcknowledgedApplied Converges
CHECK_DEADLOCK FALSE
