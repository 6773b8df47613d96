\* The responder answers CHALLENGE for SlotNum = SlotCount, a slot that holds
\* no chain (SpdmGetResponseChallenge tests SlotNum > SlotCount).
CONSTANTS
  c1 = c1
  c2 = c2
  NoChain = NoChain
  Chains <- MCChains
  HashTypes <- MCHashTypes
  SlotNums <- MCSlotNumsAll
  CapChoices <- MCCapChoices
  MaxSlotCount = 2
  RetryTimes = 1
  SmallCap = 4
  LargeCap = 9
  MaxCalls = 2
  MaxFaults = 0
  MaxSetData = 0
SPECIFICATION Spec
SYMMETRY ChainSymmetry
INVARIANT ResponderAnswersProvisionedSlotsOnly
