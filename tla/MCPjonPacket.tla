---------------------------- MODULE MCPjonPacket ----------------------------
(* The instance of PjonPacket for TLC: the payloads.                        *)
EXTENDS PjonPacket

(* Lengths around the limits of both ends, short payloads of various bytes. *)
Payloads ==
  {[i \in 1..n |-> (37 * i) % 256] : n \in {0, 1, 2, 44, 45, 46, 49, 50}}
    \cup {<<b>> : b \in {0, 255}} \cup {<<128, 140>>}
=============================================================================
