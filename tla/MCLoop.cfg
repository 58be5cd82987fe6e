SPECIFICATION Spec
CONSTANTS
    Keys = {"k"}
    Neighbors <- Three
    Ifaces <- Three
    IfaceOf <- Itself
    FamilyOf <- Ipv6
    MaxNeighbors = 2
    MaxCandidates = 2
    MaxPerNeighbor = 1
    BetterFor = 10000
    MarginMetric = 10
    MarginPercent = 10
    DefaultInterval = 1600
    HelloInterval = 400
    Generations = 2
    Origin = 3
    FirstSeqno = 0
    Cost <- Triangle
    Fragile <- CheapLink
    Scenarios <- OnlyReordering
INVARIANT NoForwardingLoop
