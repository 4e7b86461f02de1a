SPECIFICATION Spec
CONSTANTS
    Sizes = {"small", "large"}
    MaxImages = 1
    MaxRequests = 3
    VisionTokens = 1
    LangTokens = 1
    ContextLength = 4
INVARIANT NoForeignState
