\* Whether a listing is always of a directory.
SPECIFICATION Spec
CONSTANTS
    f1 = f1
    f2 = f2
    d1 = d1
    forbidden = forbidden
    unavailable = unavailable
    absent = absent
    none = none
    Files <- MCFiles
    Dirs <- MCDirs
    ErrorPages <- MCErrorPages
    Absent <- absent
    None <- none
    Length <- MCLength
    Requests = {r1}
    Aliases = {"files", "s3", "unknown"}
    Paths = {"p"}
    Sources = {"mirror", "bucket"}
    HttpSources = {"mirror"}
    AliasedSources <- MCAliasedSources
INVARIANTS
    ListingsAreOfDirectories
