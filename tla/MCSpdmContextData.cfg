\* The host API: every SpdmSetData and SpdmGetData case, interleaved with
\* SpdmInitContext, the registration functions and the engine's updates.
CONSTANTS
  NULL = NULL
  buf1 = buf1
  io1 = io1
  Buffers <- MCBuffers
  IoFuncs <- MCIoFuncs
  Values = {0, 7}
  MAX_SPDM_SLOT_COUNT = 2
  MAX_SPDM_PSK_HINT_LENGTH = 3
  DataSizes = {1, 2, 4}
  MaxCalls = 3
SPECIFICATION Spec
INVARIANT CtxTypeOK
PROPERTY SetDataErrorChangesNothing
