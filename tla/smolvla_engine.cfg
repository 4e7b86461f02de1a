SPECIFICATION Spec
CONSTANTS
    Sizes = {"small", "large"}
    MaxImages = 3
    MaxRequests = 3
    VisionTokens = 1
    LangTokens = 1
    ContextLength = 4
INVARIANTS TypeOK NoDanglingTensors FaultsStayLocal MaskIsOfThisRequest
