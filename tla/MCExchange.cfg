SPECIFICATION FairSpec
CONSTANTS
    d1 = d1
    d2 = d2
    d3 = d3
    Docs = {d1, d2, d3}
    Lower <- MCLower
    MaxLong = 20
    Text <- MCText
    Scale = 15249024
    Queries <- MCQueries
    MaxHits = 3
    Uploads <- MCUploads
    Others <- MCOthers
    MaxCommands = 3
    MaxStarts = 2
    Chunk = 1
    Faults = {"kill", "stop", "hangup", "disk"}
    NoFile = NoFile
    NoRequest = NoRequest
    Unknown = Unknown
\* The clients stop after MaxCommands requests.
CHECK_DEADLOCK FALSE
INVARIANTS
    TypeOK
    HybridWithoutServiceIsBm25
    FusionRespectsAgreement
    FoundTwiceComesFirst
    PlainWordsFindTheirDocuments
    BrokenRepliesOnlyLose
    BodyIsWhatWasSent
    StoredAsTold
    GetGivesWhatWasPut
PROPERTIES
    ServerOutlivesItsRequests
    EveryCommandReports
