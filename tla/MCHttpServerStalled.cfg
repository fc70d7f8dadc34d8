SPECIFICATION FairSpec
CONSTANTS
    c1 = c1
    c2 = c2
    Clients = {c1, c2}
    Capacity = 1
    MaxSent <- OneTalks
    MaxBody = 0
    Signals = {s1}
    Faults = {"stall"}
    NoClient = NoClient
\* The program ends.
CHECK_DEADLOCK FALSE
PROPERTIES
    CtrlCEndsProgram
