SPECIFICATION Spec
CONSTANTS
    c1 = c1
    c2 = c2
    c3 = c3
    Clients = {c1, c2}
    MaxCalls = 1
    Backlog = 1
    Asks <- PredictAsks
    Impatient = {c2}
    SigPipe = TRUE
    ByteValues = 2
    Characters <- MCCharacters
    Replacement <- MCReplacement
INVARIANT StopsOnlyOnShutdown
