SPECIFICATION Spec
CONSTANTS
    a = a
    b = b
    Requests = {r1, r2}
    Paths = {a}
    Files = {a}
    FileOf <- PlainName
    UrlDecoded <- PlainName
    Outside = {}
    Sizes = {2}
    TextLimit = 1
    Faults = {}
    Nobody = Nobody
    NoFile = NoFile
    NoDoc = NoDoc
    NoRequest = NoRequest
\* Every request is served once and then no worker has anything to do.
CHECK_DEADLOCK FALSE
INVARIANT
    IndexesUpdatedAtomically
