\* Authentication of the responder by CHALLENGE under a faulty link and the
\* hosts' SpdmSetData: each CHALLENGE_AUTH accepted answers this call's own
\* CHALLENGE, unaltered.  Three requester calls allow GET_DIGESTS and two
\* CHALLENGEs, so that the answer to a CHALLENGE whose receive timed out,
\* or a duplicate, reaches the next call; one fault duplicates, loses or
\* alters a message.  Symmetry of the two chains is sound for invariants.
CONSTANTS
  c1 = c1
  c2 = c2
  NoChain = NoChain
  Chains <- MCChains
  HashTypes <- MCHashTypes
  SlotNums <- MCSlotNums
  CapChoices <- MCCapChoices
  MaxSlotCount = 2
  RetryTimes = 1
  SmallCap = 4
  LargeCap = 9
  MaxCalls = 3
  MaxFaults = 1
  MaxSetData = 1
SPECIFICATION Spec
SYMMETRY ChainSymmetry
INVARIANT TypeOK
INVARIANT ChallengeAuthAnswersThisCall
