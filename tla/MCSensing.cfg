SPECIFICATION Spec
CONSTANTS
    Profiles <- Both
    HelloInterval = 100
    Packets <- Traffic
    Instants <- Long
INVARIANTS HistoryTruthfulWithin CostTold
PROPERTIES SilenceNoticed
CHECK_DEADLOCK FALSE
