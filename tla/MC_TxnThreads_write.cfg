CONSTANTS
    Threads = {t1, t2}
    MaxTxns = 4
    MayWrite = TRUE
SYMMETRY MCSymmetry
SPECIFICATION Spec
INVARIANT
    NoMisuse
