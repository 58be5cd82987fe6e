SPECIFICATION DaemonSpec
CONSTANTS
    Procs = {p, q}
    Ids = {a, b}
    Randoms <- OneRandom
    MaxBumps = 1
    MaxLives = 4
    Clients = {c1, c2}
    MaxClients = 2
    ChannelLength = 1
    Configs <- FiveConfigs
    Budgets <- Scenarios
INVARIANTS CheckpointKept AppliedTogether ReloadFresh
PROPERTIES  StopsInTime RequestsAnswered
CHECK_DEADLOCK FALSE
