--------------------------- MODULE MCSpdmDumpOpaque --------------------------
(* SpdmDumpOpaque over every blob of up to 30 bytes with up to two element *)
(* tables.                                                                  *)
EXTENDS SpdmDumpOpaque
====
