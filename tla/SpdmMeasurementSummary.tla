------------------------- MODULE SpdmMeasurementSummary -------------------------
(***************************************************************************)
(* The measurement summary hash of CHALLENGE_AUTH, as the two functions of *)
(* the library compute it:                                                 *)
(*                                                                         *)
(*  - SpdmGenerateMeasurementSummaryHash (SpdmCommonLibCryptoService.c),   *)
(*    the requester's, used when it answers an encapsulated CHALLENGE;     *)
(*  - CalculateMeasurementSummaryHash (SpdmResponderLibChallengeAuth.c),   *)
(*    the responder's, used when it answers CHALLENGE.                     *)
(*                                                                         *)
(* A hash is the sequence of chunks it covers.  A measurement block is a   *)
(* record of its DMTF value type (the byte the code masks and compares)    *)
(* and its value; every block has the same size, so a chunk of            *)
(* MeasurementData is one block.  Bytes of the stack array MeasurementData *)
(* that the code never writes are uninitialized: reading them yields an    *)
(* element of Junk, chosen nondeterministically.                           *)
(*                                                                         *)
(* SpecSummary is the reference: spec.md 4.6 ("None -> all-zeros,         *)
(* TcbComponent -> only blocks whose DMTF value type masks to              *)
(* Immutable-ROM, All -> all blocks").                                     *)
(***************************************************************************)
EXTENDS Integers, Sequences, Bitwise

CONSTANTS
  ValueTypes,       \* DMTFSpecMeasurementValueType bytes of the blocks
  Values,           \* measurement values (digests), as model values
  Junk,             \* what an uninitialized byte of the stack may hold
  ZeroHash,         \* the all-zero hash ZeroMem writes
  MAX_SPDM_MEASUREMENT_BLOCK_COUNT

(* Values of the DMTF SPDM 1.0 headers the code includes. *)
SPDM_CHALLENGE_REQUEST_NO_MEASUREMENT_SUMMARY_HASH == 0
SPDM_CHALLENGE_REQUEST_TCB_COMPONENT_MEASUREMENT_HASH == 1
SPDM_CHALLENGE_REQUEST_ALL_MEASUREMENTS_HASH == 255
SPDM_MEASUREMENT_BLOCK_MEASUREMENT_TYPE_IMMUTABLE_ROM == 0
SPDM_MEASUREMENT_BLOCK_MEASUREMENT_TYPE_MASK == 127

NoHash == SPDM_CHALLENGE_REQUEST_NO_MEASUREMENT_SUMMARY_HASH
TcbHash == SPDM_CHALLENGE_REQUEST_TCB_COMPONENT_MEASUREMENT_HASH
AllHash == SPDM_CHALLENGE_REQUEST_ALL_MEASUREMENTS_HASH

(* A measurement block: SPDM_MEASUREMENT_BLOCK_DMTF and its value. *)
MeasurementBlock == [type : ValueTypes, value : Values]

(* The function returned FALSE; the caller's hash buffer is not written. *)
SummaryFailed == [ok |-> FALSE, hash |-> <<>>]

Summary(h) == [ok |-> TRUE, hash |-> h]

(* The value type of b masks to Immutable-ROM. *)
IsImmutableRom(b) ==
  (b.type & SPDM_MEASUREMENT_BLOCK_MEASUREMENT_TYPE_MASK)
     = SPDM_MEASUREMENT_BLOCK_MEASUREMENT_TYPE_IMMUTABLE_ROM

(* CopyMem of MeasurementBlockDmtfHeader for MeasurementSize bytes: the   *)
(* DMTF header with the value behind it.                                  *)
RequesterChunk(b) == b

(* CopyMem of (CachedMeasurmentBlock + 1) for HashSize bytes: the value. *)
ResponderChunk(b) == b.value

(* Mutant: the copy loop runs to Index <= DeviceMeasurementCount, copying *)
(* one block past the record from uninitialized DeviceMeasurement bytes.  *)
SpdmGenerateMeasurementSummaryHashPastEnd(hashType, blocks) ==
  CASE hashType = NoHash -> {Summary(ZeroHash)}
    [] hashType \in {TcbHash, AllHash} ->
         {SummaryFailed}
         \cup {Summary([i \in 1..Len(blocks) + 1 |->
                 IF i <= Len(blocks) /\ (hashType = AllHash \/ IsImmutableRom(blocks[i]))
                   THEN RequesterChunk(blocks[i])
                   ELSE uninit[i]])
               : uninit \in [1..Len(blocks) + 1 -> Junk]}
    [] OTHER -> {SummaryFailed}

(***************************************************************************)
(* SpdmGenerateMeasurementSummaryHash: the set of results the build can    *)
(* produce.  SpdmMeasurementCollectionFunc, a host function, may fail.     *)
(* The second loop writes block i at offset MeasurmentDataSize only when   *)
(* the type is ALL or the block is Immutable-ROM, but advances the offset  *)
(* for every block, and the hash covers the whole MeasurmentDataSize: a    *)
(* skipped block leaves a chunk of uninitialized stack in the hashed data. *)
(***************************************************************************)
SpdmGenerateMeasurementSummaryHash(hashType, blocks) ==
  CASE hashType = NoHash -> {Summary(ZeroHash)}
    [] hashType \in {TcbHash, AllHash} ->
         {SummaryFailed}
         \cup {Summary([i \in 1..Len(blocks) |->
                 IF hashType = AllHash \/ IsImmutableRom(blocks[i])
                   THEN RequesterChunk(blocks[i])
                   ELSE uninit[i]])
               : uninit \in [1..Len(blocks) -> Junk]}
    [] OTHER -> {SummaryFailed}

(* The values of the blocks of s, packed. *)
ResponderChunks(s) == [i \in 1..Len(s) |-> ResponderChunk(s[i])]

(* Mutant: the TCB case copies every block, as if the switch on the value *)
(* type fell through to the copy.                                         *)
CalculateMeasurementSummaryHashTcbAll(hashType, blocks) ==
  CASE hashType = NoHash -> Summary(ZeroHash)
    [] hashType \in {TcbHash, AllHash} -> Summary(ResponderChunks(blocks))
    [] OTHER -> SummaryFailed

(***************************************************************************)
(* CalculateMeasurementSummaryHash: reads LocalContext.DeviceMeasurement.  *)
(* Its TCB case switches on the unmasked DMTFSpecMeasurementValueType and  *)
(* packs the values it copies at HashSize * LocalIndex.                   *)
(***************************************************************************)
CalculateMeasurementSummaryHash(hashType, blocks) ==
  CASE hashType = NoHash -> Summary(ZeroHash)
    [] hashType = TcbHash ->
         Summary(ResponderChunks(SelectSeq(blocks, LAMBDA b :
                   b.type = SPDM_MEASUREMENT_BLOCK_MEASUREMENT_TYPE_IMMUTABLE_ROM)))
    [] hashType = AllHash -> Summary(ResponderChunks(blocks))
    [] OTHER -> SummaryFailed

(***************************************************************************)
(* The reference: the summary of spec.md 4.6 over the blocks the type      *)
(* selects, each encoded as the implementation encodes a block (Chunk).    *)
(***************************************************************************)
SpecSummary(hashType, blocks, Chunk(_)) ==
  LET covered == IF hashType = TcbHash
                   THEN SelectSeq(blocks, IsImmutableRom)
                   ELSE blocks
  IN  CASE hashType = NoHash -> Summary(ZeroHash)
        [] hashType \in {TcbHash, AllHash} ->
             Summary([i \in 1..Len(covered) |-> Chunk(covered[i])])
        [] OTHER -> SummaryFailed
==================================================================================
