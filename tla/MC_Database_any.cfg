CONSTANTS
    Months = {m1}
    Seasons = {s1}
    NoSeason = NoSeason
    SeasonInfo = {info}
    Absent = Absent
    MaxDepth = 1
    MaxId = 1
    MayCrash = TRUE
SYMMETRY MCSymmetry
VIEW StoreView
SPECIFICATION Spec
INVARIANT
    TypeOK
