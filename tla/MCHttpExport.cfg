\* One request of every kind against an upstream that changes at will.
SPECIFICATION FairSpec
CONSTANTS
    f1 = f1
    f2 = f2
    d1 = d1
    forbidden = forbidden
    unavailable = unavailable
    absent = absent
    none = none
    Files <- MCFiles
    Dirs <- MCDirs
    ErrorPages <- MCErrorPages
    Absent <- absent
    None <- none
    Length <- MCLength
    Requests = {r1}
    Aliases = {"files", "s3", "unknown"}
    Paths = {"p"}
    Sources = {"mirror", "bucket"}
    HttpSources = {"mirror"}
    AliasedSources <- MCAliasedSources
INVARIANTS
    TypeOK
    NotFoundConfirmedTwice
    ListingIsSnapshot
    ServerErrorExplained
    NoSilentTruncation
    WholeUnlessChangedBetween
    FileOnlyAfterMissing
    HandlerInv
PROPERTIES
    EveryRequestAnswered
    HandlersAdvance
    ImplementsFileService
