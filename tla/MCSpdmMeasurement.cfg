\* Signed measurements over a link that loses or delays one message.
\* Sizes are those of the SPDM 1.1 messages with a 256-bit nonce and a
\* 512-bit signature; L1L2Cap is scaled down from MAX_SPDM_MESSAGE_BUFFER_SIZE
\* so that an unsigned round followed by a signed one fits without opaque
\* data (123 bytes) and not with 8 bytes of it (131 bytes).  The host makes
\* at most five calls; a run may end with no call left (no deadlock check).
CONSTANTS
  c1 = c1
  c2 = c2
  Chains <- MCChains
  NoChain = NoChain
  ResponderChain = c1
  ReqHeaderSize = 4
  RspHeaderSize = 8
  NonceSize = 32
  SignatureSize = 64
  RecordSizes = {16}
  OpaqueSizes = {0, 8}
  L1L2Cap = 128
  MaxRequests = 5
  MaxFaults = 1
SPECIFICATION Spec
CHECK_DEADLOCK FALSE
INVARIANT MeasTypeOK
INVARIANT HonestMeasurementVerifies
PROPERTY SignedMeasurementAnswersThisRequest
