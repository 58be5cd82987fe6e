SPECIFICATION Spec
CONSTANT Links <- MCLinks
INVARIANTS Independent Framed LooksBack
CHECK_DEADLOCK FALSE
