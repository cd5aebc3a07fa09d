\* Up to three sources of any kind in any order, one of which may be called
\* like every placeholder's id.
SPECIFICATION FairSpec
CONSTANTS
    d1 = d1
    forbidden = forbidden
    absent = absent
    none = none
    Files = {}
    Dirs <- MCDirs
    ErrorPages <- MCErrorPages
    Absent <- absent
    None <- none
    Length <- MCLength
    Names = {"docs", "media", "placeholder"}
    MaxSources = 3
INVARIANTS
    TypeOK
    ListingComplete
    ErrorsSayWhose
PROPERTIES
    FilesLeadBack
    CallsAdvance
    CallsReturn
