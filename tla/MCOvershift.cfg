SPECIFICATION Spec
CONSTANTS
    Profiles <- OnlyWired
    HelloInterval = 100
    Packets <- Repeated
    Instants <- Short
INVARIANTS HistoryTruthful
CHECK_DEADLOCK FALSE
