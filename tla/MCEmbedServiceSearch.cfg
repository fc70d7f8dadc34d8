SPECIFICATION Spec
CONSTANTS
    Docs = {a, b, c}
    Home = {a, b}
    Roots = {{a, b}, {c}}
    Requests = {r1, r2, r3}
    Rebuilds = {b1, b2}
    MaxStarts = 1
    NoText = NoText
    Torn = Torn
\* Requests are served once and the service is started MaxStarts times.
CHECK_DEADLOCK FALSE
SYMMETRY Symmetry
PROPERTY
    SearchNamesItsHit
