SPECIFICATION WarmSpec
CONSTANTS
    Keys = {"k", "l"}
    Neighbors <- ThreeNeighbors
    Ifaces = {"eth1", "eth2"}
    IfaceOf <- TwoIfaces
    FamilyOf <- Families
    MaxNeighbors = 2
    MaxCandidates = 3
    MaxPerNeighbor = 2
    BetterFor = 10000
    MarginMetric = 10
    MarginPercent = 10
    DefaultInterval = 1600
    HelloInterval = 400
    Generations = 2
    Self = 7
    FirstSeqno = 65535
    MaxBumps = 1
    Hosts <- AllHosts
INVARIANTS
    PublishedCurrent
    SelectionCurrent
    SentCovered
    NeighborsExact
    PolicyEnforced
    OriginsCarrySeqno
    HeldWhileAdvertised
PROPERTIES
    HistoryImproves
    FeasibleAdoption
    DwellHonoured
    PendingResolved
