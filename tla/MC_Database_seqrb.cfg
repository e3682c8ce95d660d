CONSTANTS
    Months = {m1, m2}
    Seasons = {s1, s2}
    NoSeason = NoSeason
    SeasonInfo = {info}
    Absent = Absent
    MaxDepth = 1
    MaxId = 2
    MayCrash = FALSE
SYMMETRY MCSymmetry
SPECIFICATION Spec
INVARIANT
    NoIdIssuedTwice
