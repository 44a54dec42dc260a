--------------------------- MODULE MCPjonOutgoing ---------------------------
(* Instances of PjonOutgoing for TLC: the packets that each run dispatches. *)
EXTENDS PjonOutgoing

CONSTANTS p1, p2, p3, p4, p5

Acknowledged == [device_id |-> 2, length |-> 4, timing |-> 0, ack_request |-> TRUE,
                 acquire_id |-> FALSE, sendable |-> TRUE]
Repeating    == [Acknowledged EXCEPT !.timing = 1]
Broadcast    == [Acknowledged EXCEPT !.device_id = 0]
TooLong      == [Acknowledged EXCEPT !.length = 50]
Empty        == [Acknowledged EXCEPT !.length = 0]
Unsendable   == [Acknowledged EXCEPT !.sendable = FALSE]
IdAcquisition == [Acknowledged EXCEPT !.acquire_id = TRUE, !.device_id = 3]

(* An ordinary packet, a repeated one and one that raises when it fails.    *)
MixedFields == p1 :> Acknowledged @@ p2 :> Repeating @@ p3 :> Empty

(* Alike, for runs about threads.                                           *)
PlainFields == [p \in Packet |-> Acknowledged]

(* The kinds that dispatch() refuses or that make update() take its rare    *)
(* branches, beside two ordinary ones.                                      *)
OddFields == p1 :> Unsendable @@ p2 :> Broadcast @@ p3 :> IdAcquisition @@ p4 :> TooLong
             @@ p5 :> Acknowledged

LiveFields == p1 :> Acknowledged @@ p2 :> Repeating

CallerSymmetry == Permutations(Caller)
=============================================================================
