--------------------------- MODULE SpdmDumpOpaque ---------------------------
(***************************************************************************)
(* DumpSpdmOpaqueData of SpdmDump (SpdmDumpSecuredSpdm.c 75-147) and the  *)
(* two element dumpers it dispatches to, as operators over an opaque-data *)
(* blob taken from a capture, i.e. from anyone.  The result is the set of *)
(* byte ranges the code reads; the question is whether every one of them  *)
(* lies inside OpaqueLength.                                               *)
(*                                                                         *)
(* A blob is abstracted to what the parser looks at: its length, whether  *)
(* SpecId is "DMTF", and, for each element table the loop reaches, the    *)
(* fields at the loop's cursor.  The cursor only moves forward, past the  *)
(* bytes the previous element covered, so these views never overlap and  *)
(* every blob has one.  The structure sizes are those of the Secured      *)
(* Messages specification; their definitions are not in the repository.  *)
(***************************************************************************)
EXTENDS Integers, Sequences

CONSTANTS
  GeneralHeaderSize,      \* SECURED_MESSAGE_GENERAL_OPAQUE_DATA_TABLE_HEADER
  ElementTableHeaderSize, \* SECURED_MESSAGE_OPAQUE_ELEMENT_TABLE_HEADER
  ElementHeaderSize,      \* SECURED_MESSAGE_OPAQUE_ELEMENT_HEADER
  VersionSelectionSize,   \* SECURED_MESSAGE_OPAQUE_ELEMENT_VERSION_SELECTION
  SupportedVersionSize,   \* SECURED_MESSAGE_OPAQUE_ELEMENT_SUPPORTED_VERSION
  VersionNumberSize,      \* SPDM_VERSION_NUMBER
  MaxOpaqueLength,        \* bound: OpaqueLength
  MaxTotalElements,       \* bound: TotalElements
  ElementDataLens,        \* OpaqueElementDataLen values tried
  VersionCounts           \* VersionCount values tried

VERSION_SELECTION == "version_selection"   \* SMDATA_ID_VERSION_SELECTION
SUPPORTED_VERSION == "supported_version"   \* SMDATA_ID_SUPPORTED_VERSION
SMDataIds == {VERSION_SELECTION, SUPPORTED_VERSION, "other"}

(* The fields at an element table: Id = DMTF with VendorLen = 0 (dmtf),   *)
(* OpaqueElementDataLen, and the element's SMDataID and VersionCount.     *)
ElementViews ==
  [dmtf : BOOLEAN, dataLen : ElementDataLens, smDataId : SMDataIds, versionCount : VersionCounts]

Blobs ==
  [length : 0 .. MaxOpaqueLength, specIdDmtf : BOOLEAN,
   tables : UNION {[1 .. n -> ElementViews] : n \in 0 .. MaxTotalElements}]

(* A read of size bytes at offset off of the blob. *)
Read(off, size) == [off |-> off, size |-> size]

DumpSpdmOpaqueVersionSelection(e, bufferSize) ==
  IF bufferSize < VersionSelectionSize THEN {} ELSE {Read(e, VersionSelectionSize)}

DumpSpdmOpaqueSupportedVersion(e, bufferSize, versionCount) ==
  IF bufferSize < SupportedVersionSize THEN {}
  ELSE IF bufferSize < SupportedVersionSize + versionCount * VersionNumberSize
       THEN {Read(e, SupportedVersionSize)}
       ELSE {Read(e, SupportedVersionSize),
             Read(e + SupportedVersionSize, versionCount * VersionNumberSize)}

(* DumpDispatchMessage over mSpdmOpaqueDispatch, by SMDataID. *)
DumpOpaqueElement(v, e) ==
  CASE v.smDataId = VERSION_SELECTION -> DumpSpdmOpaqueVersionSelection(e, v.dataLen)
    [] v.smDataId = SUPPORTED_VERSION ->
         DumpSpdmOpaqueSupportedVersion(e, v.dataLen, v.versionCount)
    [] OTHER -> {}

(* Mutant: the end of the element's data is not tested. *)
EndOfElementTableUnchecked(endOfElementTable, endOfOpaqueData) == TRUE

(* The test that the element's data ends inside the opaque data. *)
EndOfElementTableFits(endOfElementTable, endOfOpaqueData) ==
  endOfElementTable <= endOfOpaqueData

(***************************************************************************)
(* The element loop from Index, with the cursor at an element table: the  *)
(* reads of this and the following iterations, up to the first break.    *)
(***************************************************************************)
RECURSIVE DumpElementTables(_, _, _)
DumpElementTables(b, index, cursor) ==
  IF index >= Len(b.tables) \/ cursor + ElementTableHeaderSize > b.length
  THEN {}
  ELSE LET v == b.tables[index + 1]
           endOfElementTable == cursor + ElementTableHeaderSize + v.dataLen
           e == cursor + ElementTableHeaderSize
       IN  {Read(cursor, ElementTableHeaderSize)}
           \cup IF ~v.dmtf \/ ~EndOfElementTableFits(endOfElementTable, b.length)
                   \/ v.dataLen < ElementHeaderSize
                THEN {}
                ELSE {Read(e, ElementHeaderSize)} \cup DumpOpaqueElement(v, e)
                     \cup DumpElementTables(b, index + 1, endOfElementTable)

DumpSpdmOpaqueData(b) ==
  IF b.length < GeneralHeaderSize THEN {}
  ELSE {Read(0, GeneralHeaderSize)}
       \cup IF b.specIdDmtf THEN DumpElementTables(b, 0, GeneralHeaderSize) ELSE {}

-----------------------------------------------------------------------------
(* SpdmDump handing DumpSpdmOpaqueData the opaque data of one captured    *)
(* message: the blob, and the reads once it has been dumped.             *)
VARIABLES blob, reads

Init == blob \in Blobs /\ reads = {}

Dump == reads = {} /\ reads' = DumpSpdmOpaqueData(blob) /\ UNCHANGED blob

Spec == Init /\ [][Dump]_<<blob, reads>>

(* Whatever a capture holds, DumpSpdmOpaqueData and its element dumpers   *)
(* read no byte outside the OpaqueLength bytes they were given: every     *)
(* length taken from the blob (OpaqueElementDataLen, VersionCount) is     *)
(* tested against what remains before it is used.                         *)
OpaqueDumpReadsInBounds ==
  \A r \in reads : 0 <= r.off /\ r.off + r.size <= blob.length
====
