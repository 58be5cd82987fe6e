SPECIFICATION Spec
CONSTANTS
    Requests <- Batches
    MaxSubmits = 2
    MaxInvalidations = 1
    LastSubmit = 1100
    Capacity = 1
    BudgetBytes = 3
    PayloadBudgets = {0, 1, 2}
    Instants <- Times
INVARIANTS
    BudgetRespected
    NeverSentStale
PROPERTIES
    FreshNeverDiscarded
    ReservationsReturn
CHECK_DEADLOCK FALSE
