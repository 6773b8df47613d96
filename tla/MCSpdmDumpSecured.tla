------------------------- MODULE MCSpdmDumpSecured -------------------------
(* Two sessions whose records interleave on the mailbox, so that the      *)
(* direction of consecutive records does not alternate.                   *)
EXTENDS SpdmDumpSecured, TLC

CONSTANTS s1, s2

MCSessions == {s1, s2}
Symmetry == Permutations(MCSessions)
============================================================================
