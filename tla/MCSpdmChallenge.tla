------------------------- MODULE MCSpdmChallenge -------------------------
(* Model-checking instance of SpdmChallenge: two certificate chains, two *)
(* slots (so that SlotNum = SlotCount and SlotNum = MAX_SPDM_SLOT_COUNT   *)
(* both occur), one retry, and transcripts small enough to fill.          *)
EXTENDS SpdmChallenge, TLC

CONSTANTS c1, c2

MCChains == {c1, c2}
MCHashTypes == {0, 2}        \* NO_MEASUREMENT_SUMMARY_HASH and an undefined type
MCCapChoices == {{"CHAL_CAP"}, {}}
(* SlotNum arguments: the slots below MAX_SPDM_SLOT_COUNT, and 0xFF; the  *)
(* reproductions add SlotNum = MAX_SPDM_SLOT_COUNT, refused before send.  *)
MCSlotNums == {0, 1, 255}
MCSlotNumsAll == {0, 1, 2, 255}

ChainSymmetry == Permutations(MCChains)
==========================================================================
