------------------------------ MODULE PjonLink ------------------------------
(***************************************************************************)
(* Packets on the bus, byte by byte: receive() and send_string() of        *)
(* protocol/pjon_protocol.py over the serial strategy, one IO thread per   *)
(* device.  What one device writes every other device reads, in one order  *)
(* (utils/fakeserial.py); bytes may be lost or changed on the way.         *)
(*                                                                         *)
(* PjonOutgoing models which packet update() sends next and how often.     *)
(* Here update() may send any message that was not acknowledged, up to     *)
(* MaxSends times.                                                         *)
(***************************************************************************)
EXTENDS Integers, Sequences, FiniteSets, SequencesExt, Crc8

CONSTANTS
  Device,                     (* the ids on the bus                          *)
  Message,                    (* what the applications send                  *)
  NoMessage,                  (* a device that transmits nothing             *)
  PACKET_MAX_LENGTH,
  ReceivedBufferLength,       (* _received_packets_buffer_length             *)
  Timely,                     (* TRUE: no timeout while an answer may come   *)
  MaxSends,                   (* bound: transmissions of each message        *)
  MaxFaults                   (* bound: bytes lost or changed by the bus     *)

BROADCAST       == 0
ACK             == 6
MODE_BIT        == 1
SENDER_INFO_BIT == 2
ACK_REQUEST_BIT == 4

HasBit(header, bit) == (header \div bit) % 2 = 1

ASSUME LinkAssumption ==
  /\ Device \subseteq 1..254
  /\ Message \subseteq [from : Device, to : 0..254, header : 0..7,
                        sender_id : Byte, payload : Seq(Byte)]
  /\ NoMessage \notin Message
  /\ PACKET_MAX_LENGTH \in 0..251     (* a length fits in a byte            *)
  /\ \A m \in Message : Len(m.payload) < PACKET_MAX_LENGTH    (* dispatch() *)
  /\ ReceivedBufferLength \in Nat \ {0}
  /\ Timely \in BOOLEAN /\ MaxSends \in Nat /\ MaxFaults \in Nat

VARIABLES
  inq,          (* bytes that a device has not read yet                      *)
  pc,           (* where its IO thread is                                    *)
  msg,          (* the message it is transmitting, or NoMessage              *)
  sent,         (* how many bytes of it were written                         *)
  data,         (* the bytes that receive() read so far                      *)
  stored,       (* _stored_received_packets                                  *)
  sends,        (* history: transmissions of each message                    *)
  acked,        (* messages for which send_string() returned ACK             *)
  taken,        (* history: packets accepted by each device, oldest first    *)
  faults        (* bytes lost or changed so far                              *)

vars == <<inq, pc, msg, sent, data, stored, sends, acked, taken, faults>>

Init ==
  /\ inq = [d \in Device |-> <<>>]
  /\ pc = [d \in Device |-> "update"]
  /\ msg = [d \in Device |-> NoMessage]
  /\ sent = [d \in Device |-> 0]
  /\ data = [d \in Device |-> <<>>]
  /\ stored = [d \in Device |-> <<>>]
  /\ sends = [m \in Message |-> 0]
  /\ acked = {}
  /\ taken = [d \in Device |-> <<>>]
  /\ faults = 0

-----------------------------------------------------------------------------
(* send_string() *)

(* The bytes of a packet: recipient, length, header, the sender if the      *)
(* header says so, the payload, the checksum of all these.                  *)
Packet[m \in Message] ==
  LET sender == IF HasBit(m.header, SENDER_INFO_BIT) THEN <<m.sender_id>> ELSE <<>>
      length == Len(m.payload) + 4 + Len(sender)
  IN  AppendChecksum(<<m.to, length, m.header>> \o sender \o m.payload)

WantsAck(m) == HasBit(m.header, ACK_REQUEST_BIT) /\ m.to # BROADCAST

(* A byte written by d reaches every other device.                          *)
Heard(d, b) == [e \in Device |-> IF e = d THEN inq[e] ELSE Append(inq[e], b)]

(* can_start(): a device with unread input does not transmit.               *)
CanStart(d) == inq[d] = <<>>

StartSend(d, m) ==
  /\ pc[d] = "update"
  /\ m.from = d /\ m \notin acked /\ sends[m] < MaxSends
  /\ CanStart(d)
  /\ pc' = [pc EXCEPT ![d] = "send"]
  /\ msg' = [msg EXCEPT ![d] = m]
  /\ sends' = [sends EXCEPT ![m] = @ + 1]
  /\ UNCHANGED <<inq, sent, data, stored, acked, taken, faults>>

SendByte(d) ==
  /\ pc[d] = "send"
  /\ sent[d] < Len(Packet[msg[d]])
  /\ inq' = Heard(d, Packet[msg[d]][sent[d] + 1])
  /\ sent' = [sent EXCEPT ![d] = @ + 1]
  /\ UNCHANGED <<pc, msg, data, stored, sends, acked, taken, faults>>

(* send_string() returns to update(), with ACK or not.                      *)
SendReturns(d, ok) ==
  /\ acked' = IF ok THEN acked \cup {msg[d]} ELSE acked
  /\ pc' = [pc EXCEPT ![d] = "update"]
  /\ msg' = [msg EXCEPT ![d] = NoMessage]
  /\ sent' = [sent EXCEPT ![d] = 0]
  /\ UNCHANGED <<data, stored, sends, taken, faults>>

SendDone(d) ==
  /\ pc[d] = "send"
  /\ sent[d] = Len(Packet[msg[d]])
  /\ IF WantsAck(msg[d])
     THEN /\ pc' = [pc EXCEPT ![d] = "response"]
          /\ UNCHANGED <<msg, sent, data, stored, sends, acked, taken, faults>>
     ELSE SendReturns(d, TRUE)
  /\ UNCHANGED inq

(* receive_response(): the first byte that comes is the answer.             *)
ReceiveResponse(d) ==
  /\ pc[d] = "response"
  /\ inq[d] # <<>>
  /\ inq' = [inq EXCEPT ![d] = Tail(@)]
  /\ SendReturns(d, Head(inq[d]) = ACK)

(* No other device is about to write anything.                              *)
Quiet(d) ==
  /\ inq[d] = <<>>
  /\ \A e \in Device \ {d} :
       pc[e] \in {"update", "response"} /\ (pc[e] = "update" => inq[e] = <<>>)

ResponseTimeout(d) ==
  /\ pc[d] = "response"
  /\ Timely => Quiet(d)
  /\ SendReturns(d, FALSE)
  /\ UNCHANGED inq

-----------------------------------------------------------------------------
(* receive() *)

(* (GivenUpUnbounded, GivenUpForNobody, ReceiveTimeoutKeeps,               *)
(* CheckPacketAcksFirst, CheckPacketAcksNone and Oldest are mistakes that   *)
(* PROJECT.json puts in place of the definition after them: the properties *)
(* must notice.)                                                            *)

(* Why the packet is given up after its byte number Len(bytes): it is for   *)
(* someone else, its length is impossible, it is of a shared bus.           *)
GivenUpUnbounded(d, bytes) ==
  LET i == Len(bytes)
  IN  \/ i = 1 /\ bytes[1] \notin {d, BROADCAST}
      \/ i = 2 /\ ~(bytes[2] > 4)
      \/ i = 3 /\ HasBit(bytes[3], MODE_BIT)

GivenUpForNobody(d, bytes) ==
  LET i == Len(bytes)
  IN  \/ i = 2 /\ ~(bytes[2] > 4 /\ bytes[2] < PACKET_MAX_LENGTH)
      \/ i = 3 /\ HasBit(bytes[3], MODE_BIT)

GivenUp(d, bytes) ==
  LET i == Len(bytes)
  IN  \/ i = 1 /\ bytes[1] \notin {d, BROADCAST}
      \/ i = 2 /\ ~(bytes[2] > 4 /\ bytes[2] < PACKET_MAX_LENGTH)
      \/ i = 3 /\ HasBit(bytes[3], MODE_BIT)

Complete(bytes) == Len(bytes) > 2 /\ Len(bytes) = bytes[2]

ReceiveByte(d) ==
  /\ pc[d] \in {"update", "receive"}
  /\ inq[d] # <<>>
  /\ LET bytes == Append(data[d], Head(inq[d]))
     IN  IF GivenUp(d, bytes)
         THEN /\ pc' = [pc EXCEPT ![d] = "update"]
              /\ data' = [data EXCEPT ![d] = <<>>]
         ELSE /\ pc' = [pc EXCEPT ![d] = IF Complete(bytes) THEN "check" ELSE "receive"]
              /\ data' = [data EXCEPT ![d] = bytes]
  /\ inq' = [inq EXCEPT ![d] = Tail(@)]
  /\ UNCHANGED <<msg, sent, stored, sends, acked, taken, faults>>

ReceiveTimeoutKeeps(d) ==
  /\ pc[d] = "receive"
  /\ Timely => inq[d] = <<>> /\ \A e \in Device : pc[e] # "send"
  /\ pc' = [pc EXCEPT ![d] = "update"]
  /\ UNCHANGED <<data, inq, msg, sent, stored, sends, acked, taken, faults>>

ReceiveTimeout(d) ==
  /\ pc[d] = "receive"
  /\ Timely => inq[d] = <<>> /\ \A e \in Device : pc[e] # "send"
  /\ pc' = [pc EXCEPT ![d] = "update"]
  /\ data' = [data EXCEPT ![d] = <<>>]
  /\ UNCHANGED <<inq, msg, sent, stored, sends, acked, taken, faults>>

Accepted(bytes) == Last(bytes) = Checksum(Front(bytes))

(* The acknowledgement, to every other device.                              *)
Answered(d) ==
  IF HasBit(data[d][3], ACK_REQUEST_BIT) /\ data[d][1] # BROADCAST
  THEN Heard(d, ACK) ELSE inq

Drop(d) ==
  /\ pc' = [pc EXCEPT ![d] = "update"]
  /\ data' = [data EXCEPT ![d] = <<>>]

CheckPacketAcksFirst(d) ==
  /\ pc[d] = "check"
  /\ inq' = Answered(d)
  /\ IF Accepted(data[d]) THEN pc' = [pc EXCEPT ![d] = "deliver"] /\ UNCHANGED data
                          ELSE Drop(d)
  /\ UNCHANGED <<msg, sent, stored, sends, acked, taken, faults>>

CheckPacketAcksNone(d) ==
  /\ pc[d] = "check"
  /\ IF Accepted(data[d]) THEN pc' = [pc EXCEPT ![d] = "deliver"] /\ UNCHANGED data
                          ELSE Drop(d)
  /\ UNCHANGED <<inq, msg, sent, stored, sends, acked, taken, faults>>

(* The checksum is compared and the acknowledgement written.  The branch    *)
(* that would write NAK has a condition that is never true.                 *)
CheckPacket(d) ==
  /\ pc[d] = "check"
  /\ IF Accepted(data[d])
     THEN /\ pc' = [pc EXCEPT ![d] = "deliver"]
          /\ inq' = Answered(d)
          /\ UNCHANGED data
     ELSE Drop(d) /\ UNCHANGED inq
  /\ UNCHANGED <<msg, sent, stored, sends, acked, taken, faults>>

(* get_packet_info() and the slice of the payload: what the receiver        *)
(* function is called with, the class default 0 standing for "no sender".   *)
Received(bytes) ==
  LET info == HasBit(bytes[3], SENDER_INFO_BIT)
  IN  [receiver_id |-> bytes[1],
       sender_id   |-> IF info THEN bytes[4] ELSE 0,
       header      |-> bytes[3],
       payload     |-> SubSeq(bytes, IF info THEN 5 ELSE 4, Len(bytes) - 1)]

(* The newest packets are kept.                                             *)
Oldest(s, n) == IF Len(s) > n THEN SubSeq(s, 1, n) ELSE s

Newest(s, n) == IF Len(s) > n THEN SubSeq(s, Len(s) - n + 1, Len(s)) ELSE s

Deliver(d) ==
  /\ pc[d] = "deliver"
  /\ taken' = [taken EXCEPT ![d] = Append(@, Received(data[d]))]
  /\ stored' = [stored EXCEPT
                  ![d] = Newest(Append(@, Received(data[d])), ReceivedBufferLength)]
  /\ pc' = [pc EXCEPT ![d] = "update"]
  /\ data' = [data EXCEPT ![d] = <<>>]
  /\ UNCHANGED <<inq, msg, sent, sends, acked, faults>>

-----------------------------------------------------------------------------
(* The bus loses or changes the next byte of a device.                      *)
LoseByte(d) ==
  /\ faults < MaxFaults /\ inq[d] # <<>>
  /\ inq' = [inq EXCEPT ![d] = Tail(@)]
  /\ faults' = faults + 1
  /\ UNCHANGED <<pc, msg, sent, data, stored, sends, acked, taken>>

ChangeByte(d) ==
  /\ faults < MaxFaults /\ inq[d] # <<>>
  /\ \E b \in {0, ACK, 255} \cup Device :
       b # Head(inq[d]) /\ inq' = [inq EXCEPT ![d] = <<b>> \o Tail(@)]
  /\ faults' = faults + 1
  /\ UNCHANGED <<pc, msg, sent, data, stored, sends, acked, taken>>

IoStep(d) ==
  \/ \E m \in Message : StartSend(d, m)
  \/ SendByte(d) \/ SendDone(d) \/ ReceiveResponse(d) \/ ResponseTimeout(d)
  \/ ReceiveByte(d) \/ ReceiveTimeout(d) \/ CheckPacket(d) \/ Deliver(d)

Next == \E d \in Device : IoStep(d) \/ LoseByte(d) \/ ChangeByte(d)

Spec == Init /\ [][Next]_vars

(* Each device runs its IO thread.                                          *)
FairSpec == Spec /\ \A d \in Device : WF_vars(IoStep(d))

-----------------------------------------------------------------------------
(* Properties                                                               *)

(* Every variable has its type; in particular receive() never reads more    *)
(* bytes than its array of PACKET_MAX_LENGTH holds.                         *)
TypeOK ==
  /\ inq \in [Device -> Seq(Byte)]
  /\ pc \in [Device -> {"update", "send", "response", "receive", "check", "deliver"}]
  /\ msg \in [Device -> Message \cup {NoMessage}]
  /\ sent \in [Device -> Nat]
  /\ data \in [Device -> Seq(Byte)]
  /\ \A d \in Device :
       /\ Len(data[d]) > 1 => data[d][2] \in 5 .. PACKET_MAX_LENGTH - 1
       /\ Len(data[d]) > 2 => Len(data[d]) \leq data[d][2]
  /\ sends \in [Message -> 0 .. MaxSends]
  /\ acked \subseteq Message
  /\ faults \in 0 .. MaxFaults

(* What the application of a receiver should see of a message.              *)
Meaning(m) ==
  [receiver_id |-> m.to,
   sender_id   |-> IF HasBit(m.header, SENDER_INFO_BIT) THEN m.sender_id ELSE 0,
   header      |-> m.header,
   payload     |-> m.payload]

Copies(d, m) == {i \in DOMAIN taken[d] : taken[d][i] = Meaning(m)}

(* What one expects of receive(): a packet for someone else is left alone,  *)
(* and a receiver function is only called with a message that another       *)
(* device sent to it or to all, with the sender, header and payload as      *)
(* sent.  It does not hold: the call that meets another recipient gives up  *)
(* one byte, and the next calls try every other byte of the same packet as  *)
(* the first of a packet (see MCPjonLink_hidden.cfg).                       *)
Integrity ==
  \A d \in Device : \A i \in DOMAIN taken[d] :
    \E m \in Message : m.from # d /\ m.to \in {d, BROADCAST} /\ taken[d][i] = Meaning(m)

(* The packet of m is for r, which reads it to the end.                     *)
Follows(r, m) ==
  /\ m.to \in {r, BROADCAST} /\ ~HasBit(m.header, MODE_BIT)
  /\ Len(Packet[m]) \in 5 .. PACKET_MAX_LENGTH - 1

(* No byte of the packet of m can be the first of a packet for r, though r  *)
(* tries every one of them.                                                 *)
Skips(r, m) == \A i \in DOMAIN Packet[m] : Packet[m][i] \notin {r, BROADCAST}

(* Only s transmits, every other device follows or skips each packet, no    *)
(* device has the id that is also the ACK, no timeout comes early and no    *)
(* two messages look alike.                                                 *)
OneSender(s) ==
  /\ s \in Device /\ Timely /\ ACK \notin Device
  /\ \A m \in Message : m.from = s /\ \A r \in Device \ {s} : Follows(r, m) \/ Skips(r, m)
  /\ \A m, n \in Message : Meaning(m) = Meaning(n) => m = n

(* What holds instead: with one sender, as long as the bus spoils no byte,  *)
(* the recipients get what was sent and nothing else, and the bystanders,   *)
(* which start receive() anew at every byte of a packet for someone else    *)
(* and at every ACK, end up at the start of the next packet for them.       *)
IntegrityOfOneSender ==
  (\E s \in Device : OneSender(s)) /\ faults = 0 => Integrity

(* send_string() returns ACK for a packet that asks for one only if its     *)
(* recipient accepted it (the answer goes out just before the receiver      *)
(* function is called).                                                     *)
AckMeansDelivered ==
  \A m \in acked : WantsAck(m) =>
    /\ m.to \in Device
    /\ \/ Copies(m.to, m) # {}
       \/ pc[m.to] = "deliver" /\ data[m.to] = Packet[m]

(* A repeated packet is repeated for a reason: a receiver sees a message    *)
(* twice only if the bus spoilt a byte, once more for each one.             *)
DuplicatesNeedFaults ==
  \A d \in Device : \A m \in Message :
    WantsAck(m) => Cardinality(Copies(d, m)) \leq 1 + faults

(* The stored packets are the most recent ones, in order of arrival.        *)
StoredAreNewest ==
  \A d \in Device :
    /\ Len(stored[d]) = Min({Len(taken[d]), ReceivedBufferLength})
    /\ \A i \in DOMAIN stored[d] :
         stored[d][i] = taken[d][i + Len(taken[d]) - Len(stored[d])]

(* A message that asks for an acknowledgement gets it, although the bus     *)
(* spoils bytes, if it may be sent once more than bytes are spoilt: what a  *)
(* spoilt packet leaves behind in receive() does not spoil the next one.    *)
EventuallyAcked == \A m \in Message : WantsAck(m) => <>(m \in acked)
=============================================================================
