CONSTANTS
    Months = {m1, m2}
    Seasons = {s1, s2}
    NoSeason = NoSeason
    SeasonInfo = {info}
    Absent = Absent
    MaxDepth = 0
    MaxId = 1
    MayCrash = TRUE
SYMMETRY MCSymmetry
VIEW StoreView
SPECIFICATION Spec
PROPERTY
    ForeignKeyKept
