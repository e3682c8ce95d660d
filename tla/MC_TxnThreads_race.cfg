CONSTANTS
    Threads = {t1, t2}
    MaxTxns = 4
    MayWrite = FALSE
SYMMETRY MCSymmetry
SPECIFICATION Spec
INVARIANT
    NestingIntact
