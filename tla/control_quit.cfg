SPECIFICATION Spec
CONSTANTS
    ChunkSize = 3
    LoopLimits = {0, 4}
    HomeMoves = 2
    MaxKeys = 2
    MaxSends = 9
INVARIANT QuitIsPrompt
