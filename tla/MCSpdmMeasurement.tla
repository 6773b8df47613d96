------------------------- MODULE MCSpdmMeasurement -------------------------
(* SpdmMeasurement with two chains, the responder's and another device's. *)
EXTENDS SpdmMeasurement

CONSTANTS c1, c2

MCChains == {c1, c2}
====
