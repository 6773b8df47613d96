CONSTANTS
    MaxSessions = 3
    PeerHalves <- MCPeerHalves
    CapFlagChoices <- MCCapFlagChoices
INIT RegInit
NEXT RegNext
INVARIANTS
    RegTypeOK
    OwnHalvesDistinct
    EstablishSucceedsWhenAllocated
PROPERTIES
    RegistryRefinesSessionSet
