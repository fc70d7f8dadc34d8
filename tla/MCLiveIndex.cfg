SPECIFICATION Spec
CONSTANTS
    a = a
    b = b
    Requests = {r1, r2, r3}
    Paths = {a}
    Files = {a}
    FileOf <- PlainName
    UrlDecoded <- PlainName
    Outside = {}
    Sizes = {1}
    TextLimit = 1
    Faults = {"embed", "disk", "kill"}
    Nobody = Nobody
    NoFile = NoFile
    NoDoc = NoDoc
    NoRequest = NoRequest
\* Every request is served once and then no worker has anything to do.
CHECK_DEADLOCK FALSE
SYMMETRY Symmetry
INVARIANTS
    TypeOK
    NoStaleWords
    OrderlyUpdatesAgree
PROPERTIES
    OrderlyPostNeverReplaces
    SearchSeesOneIndex
