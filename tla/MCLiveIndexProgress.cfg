SPECIFICATION FairSpec
CONSTANTS
    a = a
    b = b
    Requests = {r1, r2}
    Paths = {a, b}
    Files = {a}
    FileOf <- Alias
    UrlDecoded <- PlainName
    Outside = {b}
    Sizes = {2}
    TextLimit = 1
    Faults = {"embed", "disk", "kill"}
    Nobody = Nobody
    NoFile = NoFile
    NoDoc = NoDoc
    NoRequest = NoRequest
\* Every request is served once and then no worker has anything to do.
CHECK_DEADLOCK FALSE
INVARIANT
    OrderlyUpdatesAgree
PROPERTIES
    EveryRequestAnswered
    UsesVectorStore
