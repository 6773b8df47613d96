------------------------- MODULE MCSpdmContextData -------------------------
(* Model-checking instance of SpdmContextData: one host buffer, one host   *)
(* function, two slots, and DataSize arguments that hit every width test. *)
EXTENDS SpdmContextData

CONSTANTS buf1, io1

MCBuffers == {buf1}
MCIoFuncs == {io1}
============================================================================
