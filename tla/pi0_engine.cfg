SPECIFICATION Spec
CONSTANTS
    Layers = 2
    VisionTokens = 2
    PromptLengths = {0, 1, 2, 4}
    max_token_len = 3
    flow_steps = 2
    MaxRequests = 3
INVARIANTS TypeOK CacheIsWhole
PROPERTIES ImplementsPredictor NoAllocationWhenWarm
