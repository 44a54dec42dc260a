--------------------------- MODULE MCPiperClient ----------------------------
(* The instance of PiperClient for TLC: its constants are plain values.     *)
EXTENDS PiperClient
=============================================================================
