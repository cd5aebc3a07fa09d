\* Browsing everything that can be reached, without a prefix.
SPECIFICATION FairSpec
CONSTANTS
    Prefix <- NoPrefix
    Aliases = {"main", "copy", "flat"}
    Names <- MCNames
    Rank <- MCRank
    Lossy = {"a#1", "%62"}
    Cuts = {"a#1"}
    Sent <- MCSent
    Files <- MCFiles
    Index <- MCIndex
INVARIANTS
    TypeOK
    LinksLead
    UrlsStayShort
    ListingInOrder
    BrowsingInv
PROPERTIES
    RedirectsEnd
    RedirectsStay
\* A page that is not found has no links.
CHECK_DEADLOCK FALSE
