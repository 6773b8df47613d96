\* Measurement records of up to three digest blocks of the three non-ROM
\* and ROM value types.
CONSTANTS
  v1 = v1
  v2 = v2
  junk1 = junk1
  ZeroHash = ZeroHash
  Values <- MCValues
  Junk <- MCJunk
  ValueTypes = {0, 1, 2}
  MAX_SPDM_MEASUREMENT_BLOCK_COUNT = 3
INIT SumInit
NEXT SumNext
CHECK_DEADLOCK FALSE
INVARIANTS
  SumTypeOK
  ResponderSummaryMatchesSpec
