CONSTANTS
    c1 = c1
    c2 = c2
    Chains <- MCChains
    NoChain = NoChain
    MaxSlots = 1
    TranscriptCap = 12
    MaxFaults = 0
    MaxPskFinishCalls = 1
SPECIFICATION HsLiveSpec
PROPERTY HandshakeCompletes
