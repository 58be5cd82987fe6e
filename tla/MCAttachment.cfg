SPECIFICATION Spec
CONSTANTS
    Ifaces = {e0}
    Policies <- FourPolicies
    Addresses = {none, x}
    NoAddress = none
    Permits = 1
    QueueLength = 2
    MaxChanges = 3
    MaxFailures = 1
INVARIANTS BeliefTrue
PROPERTIES QueueServesOwn Settles
