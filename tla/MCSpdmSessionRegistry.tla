----------------------- MODULE MCSpdmSessionRegistry -----------------------
(* Model values for checking SpdmSessionRegistry with TLC.                 *)
EXTENDS SpdmSessionRegistry

\* 0 (unchecked), the half an empty peer table picks first, and one other.
MCPeerHalves == {0, 65535, 7}

MCCapFlagChoices == {{"ENCRYPT_CAP", "MAC_CAP"}, {"ENCRYPT_CAP"}}
=============================================================================
