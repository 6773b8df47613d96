CONSTANTS
    c1 = c1
    c2 = c2
    Chains <- MCChains
    NoChain = NoChain
    MaxSlots = 2
    TranscriptCap = 12
    MaxFaults = 1
    MaxPskFinishCalls = 2
SYMMETRY ChainSymmetry
INIT HsInit
NEXT HsNext
INVARIANTS
    HsTypeOK
    KeyExchangeTranscriptAgrees
    FinishTranscriptAgrees
