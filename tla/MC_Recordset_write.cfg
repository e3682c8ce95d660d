CONSTANTS
    Months = {1, 2}
    SeasonKeys = {1, 2}
    DayKeys = {1}
    RsIds = {r1, r2}
    Absent = Absent
    ReuseJoined = FALSE
    MaxJoinList = 1
    MayWrite = TRUE
SYMMETRY MCSymmetry
SPECIFICATION Spec
INVARIANT
    ScanAcrossWrites
