\* Up to two sources of any kind in any order, one of which may be called
\* like every placeholder's id.
SPECIFICATION Spec
CONSTANTS
    d1 = d1
    forbidden = forbidden
    absent = absent
    none = none
    Files = {}
    Dirs <- MCDirs
    ErrorPages <- MCErrorPages
    Absent <- absent
    None <- none
    Length <- MCLength
    Names = {"docs", "placeholder"}
    MaxSources = 2
PROPERTIES
    IdsLeadBack
