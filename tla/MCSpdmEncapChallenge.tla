------------------------- MODULE MCSpdmEncapChallenge -------------------------
(***************************************************************************)
(* Model values for SpdmEncapChallenge.  Transcript tokens are model       *)
(* values, one per message of the own CHALLENGE round (A, B, C) and one    *)
(* for the encapsulated GET_DIGESTS / GET_CERTIFICATE data (MutB).         *)
(***************************************************************************)
EXTENDS SpdmEncapChallenge, TLC

CONSTANTS c1, c2, tokA, tokB, tokC1, tokC2, tokMutB, v1, v2, junk1

MCChains == {c1, c2}
MCMessageA == <<tokA>>
MCMessageB == <<tokB>>
MCMessageC == <<tokC1, tokC2>>
MCMessageMutB == <<tokMutB>>
MCValues == {v1, v2}
MCJunk == {junk1}

(* One Immutable-ROM and one mutable-firmware block. *)
MCDeviceMeasurement == <<[type |-> 0, value |-> v1], [type |-> 1, value |-> v2]>>

(* Signature sizes of ECDSA P-256 and RSASSA-2048. *)
MCAsymSizes == {64, 256}

ChainSymmetry == Permutations(MCChains)
================================================================================
