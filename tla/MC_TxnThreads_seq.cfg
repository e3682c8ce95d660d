CONSTANTS
    Threads = {t1}
    MaxTxns = 4
    MayWrite = TRUE
SPECIFICATION Spec
INVARIANT
    NestingIntact
    NoMisuse
