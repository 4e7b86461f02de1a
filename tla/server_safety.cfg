SPECIFICATION Spec
CONSTANTS
    c1 = c1
    c2 = c2
    c3 = c3
    Clients = {c1, c2}
    MaxCalls = 2
    Backlog = 1
    Asks <- SafetyAsks
    Impatient = {c2}
    SigPipe = TRUE
    ByteValues = 2
    Characters <- MCCharacters
    Replacement <- MCReplacement
INVARIANTS TypeOK ExecutedIsAnswered NoSpuriousLoss
PROPERTIES NothingRunsAfterShutdownAck ImplementsService
