\* Every SpdmChallenge call returns, whatever ResponseState the responder's
\* host chose and whatever the link loses, and SpdmChallenge refines the
\* abstract authentication SpdmAuthAbstract, fairness included.  Three calls
\* as in MCSpdmChallenge.cfg, so late and duplicated answers reach a later
\* call; the hosts make no SpdmSetData call here (the invariants run covers
\* them).  No symmetry: it is unsound for liveness.
CONSTANTS
  c1 = c1
  c2 = c2
  NoChain = NoChain
  Chains <- MCChains
  HashTypes <- MCHashTypes
  SlotNums <- MCSlotNums
  CapChoices <- MCCapChoices
  MaxSlotCount = 2
  RetryTimes = 1
  SmallCap = 4
  LargeCap = 9
  MaxCalls = 3
  MaxFaults = 1
  MaxSetData = 0
SPECIFICATION Spec
PROPERTY SpdmChallengeReturns
 
