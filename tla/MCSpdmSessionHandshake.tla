---------------------- MODULE MCSpdmSessionHandshake ----------------------
(* Model values for checking SpdmSessionHandshake with TLC.                *)
EXTENDS SpdmSessionHandshake, TLC

CONSTANTS c1, c2

MCChains == {c1, c2}

ChainSymmetry == Permutations(MCChains)
=============================================================================
