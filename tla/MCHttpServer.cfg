SPECIFICATION FairSpec
CONSTANTS
    c1 = c1
    c2 = c2
    Clients = {c1, c2}
    Capacity = 1
    MaxSent <- OneTalks
    MaxBody = 1
    Signals = {s1}
    Faults = {"startup", "accept", "stall"}
    NoClient = NoClient
\* The program ends.
CHECK_DEADLOCK FALSE
INVARIANTS
    TypeOK
    AnswersFollowRequests
    ShortOnlyIfCutOff
    MembersOutliveWorkers
    ListenerClosedByOne
PROPERTIES
    ServerStops
