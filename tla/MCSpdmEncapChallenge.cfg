\* A requester with one or two provisioned slots answering up to three
\* encapsulated CHALLENGEs over two SpdmChallenge calls.
CONSTANTS
  c1 = c1
  c2 = c2
  NoChain = NoChain
  tokA = tokA
  tokB = tokB
  tokC1 = tokC1
  tokC2 = tokC2
  tokMutB = tokMutB
  v1 = v1
  v2 = v2
  junk1 = junk1
  ZeroHash = ZeroHash
  Chains <- MCChains
  MessageA <- MCMessageA
  MessageB <- MCMessageB
  MessageC <- MCMessageC
  MessageMutB <- MCMessageMutB
  Values <- MCValues
  Junk <- MCJunk
  DeviceMeasurement <- MCDeviceMeasurement
  AsymSizes <- MCAsymSizes
  ValueTypes = {0, 1}
  MAX_SPDM_MEASUREMENT_BLOCK_COUNT = 2
  MaxSlotCount = 2
  SlotCounts = {1, 2}
  SmallCap = 4
  LargeCap = 7
  MaxChallenges = 2
  MaxEncapRequests = 3
SYMMETRY ChainSymmetry
INIT EncInit
NEXT EncNext
INVARIANTS
  EncTypeOK
  EncapAuthNamesProvisionedChain
  EncapSignatureExcludesOwnRound
