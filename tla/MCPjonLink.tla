----------------------------- MODULE MCPjonLink -----------------------------
(* Instances of PjonLink for TLC: the messages that each run sends.         *)
EXTENDS PjonLink

(* To device 2 with an acknowledgement, with the id of its sender.  The     *)
(* payload is a byte that is also a device id.                              *)
Request == [from |-> 1, to |-> 2, header |-> 6, sender_id |-> 1, payload |-> <<2>>]

(* To every device.                                                         *)
Announcement == [from |-> 1, to |-> 0, header |-> 2, sender_id |-> 1, payload |-> <<65>>]

(* To device 2 with a payload that is itself a packet, for device 3.        *)
Carrier == [from |-> 1, to |-> 2, header |-> 6, sender_id |-> 1,
            payload |-> AppendChecksum(<<3, 5, 0, 65>>)]

(* To a device that is switched off.                                        *)
Unheard == [from |-> 1, to |-> 9, header |-> 4, sender_id |-> 0, payload |-> <<65>>]

FaultMessages  == {Request, Announcement}
CarrierMessages == {Carrier}
StrayMessages  == {Request, Unheard}
=============================================================================
