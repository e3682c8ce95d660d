CONSTANTS
    Months = {1, 2}
    SeasonKeys = {1, 2}
    DayKeys = {1}
    RsIds = {r1, r2, r3}
    Absent = Absent
    ReuseJoined = FALSE
    MaxJoinList = 2
    MayWrite = FALSE
SYMMETRY MCSymmetry
SPECIFICATION Spec
INVARIANT
    ScanExact
