\* Browsing everything that can be reached, below a prefix.
SPECIFICATION Spec
CONSTANTS
    Prefix <- APrefix
    Aliases = {"main", "copy", "flat"}
    Names <- MCNames
    Rank <- MCRank
    Lossy = {"a#1", "%62"}
    Cuts = {"a#1"}
    Sent <- MCSent
    Files <- MCFiles
    Index <- MCIndex
INVARIANTS
    LinksStayBelowPrefix
CHECK_DEADLOCK FALSE
