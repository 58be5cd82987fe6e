CONSTANTS
    a = a
    b = b
    c = c
    Nodes = {a, b, c}
    MaxCounter = 3
    MaxPeers = 1
    Budgets <- MCBudgets
SPECIFICATION Spec
INVARIANT NextAccepted
PROPERTY Implements
