SPECIFICATION Spec
CONSTANTS
    Layers = 3
    DeepStack = 1
    Devices <- HostAndGPU
    n_batch = 12
    n_ctx = 12
    max_length = 7
    ImagePad = 1
    ActionToken = 3
    Eos = 2
    Penalty = 5
    LogitRows <- MCLogitRows
    blocks = 2
    future_tokens = 1
    horizon = 2
    Word = 0
    Observations <- MCObservations
    MaxRequests = 3
    cot_template <- MCTemplate
    cot_enabled = TRUE
    pre_resize <- MCPreResize
    factor = 2
    min_pixels = 4
    max_pixels = 8
    image_min_tokens = 1
    image_max_tokens = 2
    action_dim = 1
    vlm_id <- MCFastTokens
    fast_offsets <- MCFastOffsets
    fast_bytes <- MCFastBytes
    Float <- MCFloat
    Unit = 4
    Infinity = 30
    Precision = 8
    NotFinite = NotFinite
INVARIANTS
    TypeOK
    GraphFitsRequest
    QueriesAreSuffix
    ConditioningIsWhole
    NoTrace
    RefusedForAReason
    ReleasedInOrder
    NothingLeaks
    DecodersAgree
    ResizeWithinBudget
    WindowsInside
    ActionsInQuantiles
    BinsMatchNumpy
    PenaltyNeverRewards
PROPERTIES
    ImplementsPredictor
    LoadingEnds
CHECK_DEADLOCK FALSE
