\* The FIFO strategy, called with a key it already holds.
CONSTANTS
    f1 = f1
    f2 = f2
    f3 = f3
    None = None
    Keys <- MCKeys
    Sizes <- MCSizes
    Name = "fifo"
    CallerChecksContains = FALSE
    MaxLen = 3
SPECIFICATION Spec
INVARIANT QueriesAgree
