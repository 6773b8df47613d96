------------------------ MODULE MCSpdmMeasurementSummary ------------------------
(***************************************************************************)
(* Checks both measurement-summary functions against SpecSummary over      *)
(* every device measurement record of at most                              *)
(* MAX_SPDM_MEASUREMENT_BLOCK_COUNT blocks and every hash type a request   *)
(* may carry.  The record is chosen in the initial state; each function    *)
(* then computes its summary once, as one call of it does.                 *)
(***************************************************************************)
EXTENDS SpdmMeasurementSummary, SequencesExt

CONSTANTS v1, v2, junk1

MCValues == {v1, v2}
MCJunk == {junk1}

(* MeasurementSummaryHashType values: the three defined and one undefined. *)
HashTypes == {NoHash, TcbHash, AllHash, 2}

VARIABLES
  blocks,      \* the device's measurement record, in order
  hashType,    \* Param1 of the CHALLENGE being answered
  rqSummary,   \* result of SpdmGenerateMeasurementSummaryHash
  rqDone,
  rsSummary,   \* result of CalculateMeasurementSummaryHash
  rsDone

sumVars == <<blocks, hashType, rqSummary, rqDone, rsSummary, rsDone>>

SumInit ==
  /\ blocks \in BoundedSeq(MeasurementBlock, MAX_SPDM_MEASUREMENT_BLOCK_COUNT)
  /\ hashType \in HashTypes
  /\ rqSummary = SummaryFailed /\ rqDone = FALSE
  /\ rsSummary = SummaryFailed /\ rsDone = FALSE

RequesterComputesSummary ==
  /\ ~rqDone
  /\ rqSummary' \in SpdmGenerateMeasurementSummaryHash(hashType, blocks)
  /\ rqDone' = TRUE
  /\ UNCHANGED <<blocks, hashType, rsSummary, rsDone>>

ResponderComputesSummary ==
  /\ ~rsDone
  /\ rsSummary' = CalculateMeasurementSummaryHash(hashType, blocks)
  /\ rsDone' = TRUE
  /\ UNCHANGED <<blocks, hashType, rqSummary, rqDone>>

SumNext == RequesterComputesSummary \/ ResponderComputesSummary

SumSpec == SumInit /\ [][SumNext]_sumVars

Chunks == MeasurementBlock \cup Values \cup Junk

SumTypeOK ==
  /\ blocks \in BoundedSeq(MeasurementBlock, MAX_SPDM_MEASUREMENT_BLOCK_COUNT)
  /\ hashType \in HashTypes
  /\ \A s \in {rqSummary, rsSummary} :
       /\ s.ok \in BOOLEAN
       /\ s.hash = ZeroHash \/ s.hash \in BoundedSeq(Chunks, MAX_SPDM_MEASUREMENT_BLOCK_COUNT)
  /\ {rqDone, rsDone} \subseteq BOOLEAN

(* The responder's CHALLENGE_AUTH carries the summary spec.md 4.6 defines: *)
(* zeros for None, the values of exactly the blocks whose type masks to    *)
(* Immutable-ROM, in order, for TcbComponent, and of every block for All;  *)
(* an undefined type fails (CalculateMeasurementSummaryHash).              *)
ResponderSummaryMatchesSpec ==
  rsDone => rsSummary = SpecSummary(hashType, blocks, ResponderChunk)

(* When SpdmGenerateMeasurementSummaryHash succeeds, the requester's       *)
(* encapsulated CHALLENGE_AUTH carries the summary spec.md 4.6 defines,    *)
(* over the blocks as the requester encodes them; it fails on an           *)
(* undefined type.                                                         *)
RequesterSummaryMatchesSpec ==
  rqDone =>
    \/ rqSummary = SpecSummary(hashType, blocks, RequesterChunk)
    \/ ~rqSummary.ok /\ hashType \in {TcbHash, AllHash}
==================================================================================
