SPECIFICATION FairSpec
CONSTANTS
    c1 = c1
    c2 = c2
    c3 = c3
    Clients = {c1, c2, c3}
    MaxCalls = 1
    Backlog = 1
    Asks <- LiveAsks
    Impatient = {c2}
    SigPipe = TRUE
    ByteValues = 2
    Characters <- MCCharacters
    Replacement <- MCReplacement
INVARIANTS RequestsSurvive ResponsesSurvive DecodingIsExact ClientsAgree
PROPERTIES EveryCallReturns ShutdownStops
