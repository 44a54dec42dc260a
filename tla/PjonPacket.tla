----------------------------- MODULE PjonPacket -----------------------------
(***************************************************************************)
(* The bytes of one packet, from the call that asks for it to the device   *)
(* that receives it: the header that the settings and the call make, the   *)
(* layout that send_string() transmits, and what receive() makes of it.    *)
(* The settings of both devices may change at any time.  When which byte   *)
(* gets through is PjonLink's matter, when a packet is sent PjonOutgoing's *)
(***************************************************************************)
EXTENDS Integers, Sequences, SequencesExt, CrcDivision

CONSTANTS
  SenderId, ReceiverId,    (* _device_id of the two devices                *)
  ForcedId,                (* the id given to send_with_forced_sender_id() *)
  Recipient,               (* ids that packets are addressed to            *)
  Payload,                 (* payloads, sequences of bytes                 *)
  Damage,                  (* changes of a byte on the way: x of b ^ x     *)
  MaxCheckedLength         (* bound: payloads that are damaged, or whose   *)
                           (* checksum is compared with the division       *)

ASSUME PacketAssumption ==
  /\ {SenderId, ReceiverId, ForcedId} \cup Recipient \subseteq Byte
  /\ Payload \subseteq Seq(Byte)
  /\ Damage \subseteq Byte \ {0}
  /\ MaxCheckedLength \in Nat

BROADCAST         == 0
PACKET_MAX_LENGTH == 50
MODE_BIT          == 1
SENDER_INFO_BIT   == 2
ACK_REQUEST_BIT   == 4

NoId == 0     (* sender_id of the class PacketInfo *)

VARIABLES
  acknowledge, sender_info, shared,    (* settings of the sender           *)
  receiver_shared,                     (* _shared of the receiver          *)
  pc,                                  (* how far the packet is            *)
  header,                              (* the header made for the call     *)
  asked,                               (* history: the bits that the call, *)
                                       (* or else the settings, ask for    *)
  packet,                              (* the OutgoingPacket               *)
  bus,                                 (* the bytes on the bus             *)
  damaged,                             (* history: the byte changed, or 0  *)
  outcome                              (* what receive() did               *)

settings == <<acknowledge, sender_info, shared, receiver_shared>>
vars == <<settings, pc, header, asked, packet, bus, damaged, outcome>>

HasBit(h, bit) == (h \div bit) % 2 = 1

NoPacket == [device_id |-> 0, header |-> 0, sender_id |-> 0, content |-> <<>>]

Nothing(result) ==
  [result |-> result, answered |-> FALSE, sender_id |-> NoId, payload |-> <<>>]

Init ==
  /\ acknowledge = TRUE /\ sender_info = TRUE /\ shared = FALSE
  /\ receiver_shared = FALSE
  /\ pc = "idle" /\ header = 0 /\ asked = {} /\ packet = NoPacket
  /\ bus = <<>> /\ damaged = 0 /\ outcome = Nothing("none")

-----------------------------------------------------------------------------
(* set_acknowledge(), set_sender_info() and set_shared_network(), until the *)
(* packet is transmitted.                                                   *)
Set ==
  /\ pc \in {"idle", "crafted", "dispatched"}
  /\ acknowledge' \in BOOLEAN /\ sender_info' \in BOOLEAN
  /\ shared' \in BOOLEAN /\ receiver_shared' \in BOOLEAN
  /\ UNCHANGED <<pc, header, asked, packet, bus, damaged, outcome>>

(* get_header_from_internal_config()                                        *)
Configured ==
  (IF shared THEN {MODE_BIT} ELSE {})
    \cup (IF sender_info THEN {SENDER_INFO_BIT} ELSE {})
    \cup (IF acknowledge THEN {ACK_REQUEST_BIT} ELSE {})

HeaderFromConfig ==
  (IF shared THEN MODE_BIT ELSE 0) + (IF sender_info THEN SENDER_INFO_BIT ELSE 0)
    + (IF acknowledge THEN ACK_REQUEST_BIT ELSE 0)

(* Mutant: a bit is set but not cleared.                                    *)
PutOnlySets(h, bit, value) == IF value /\ ~HasBit(h, bit) THEN h + bit ELSE h

(* header |= bit or header &= ~bit                                          *)
Put(h, bit, value) ==
  IF value = HasBit(h, bit) THEN h ELSE IF value THEN h + bit ELSE h - bit

(* get_overridden_header()                                                  *)
OverriddenHeader(bits) ==
  LET a == Put(HeaderFromConfig, ACK_REQUEST_BIT, ACK_REQUEST_BIT \in bits)
      i == Put(a, SENDER_INFO_BIT, SENDER_INFO_BIT \in bits)
  IN  Put(i, MODE_BIT, MODE_BIT \in bits)

(* send() makes the header from the settings, send_without_ack() and        *)
(* send_with_forced_sender_id() override all of it, and a caller of         *)
(* dispatch() may override it in any way.                                   *)
Craft ==
  /\ pc = "idle"
  /\ \/ asked' = Configured /\ header' = HeaderFromConfig
     \/ \E bits \in SUBSET {ACK_REQUEST_BIT, SENDER_INFO_BIT, MODE_BIT} :
          asked' = bits /\ header' = OverriddenHeader(bits)
  /\ pc' = "crafted"
  /\ UNCHANGED <<settings, packet, bus, damaged, outcome>>

(* The rest of dispatch(): a payload that is too long is refused, a shared  *)
(* bus raises NotImplementedError.                                          *)
Dispatch(recipient, payload, sender) ==
  /\ pc = "crafted"
  /\ IF Len(payload) >= PACKET_MAX_LENGTH \/ shared
     THEN pc' = "over" /\ UNCHANGED packet
     ELSE /\ pc' = "dispatched"
          /\ packet' = [device_id |-> recipient, header |-> header,
                        sender_id |-> sender, content |-> payload]
  /\ UNCHANGED <<settings, header, asked, bus, damaged, outcome>>

-----------------------------------------------------------------------------
(* send_string()                                                            *)

Meta(h) == IF HasBit(h, SENDER_INFO_BIT) THEN 5 ELSE 4

BytesOnBus(p) ==
  LET sender == IF HasBit(p.header, SENDER_INFO_BIT) THEN <<p.sender_id>> ELSE <<>>
  IN  AppendChecksum(<<p.device_id, Len(p.content) + Meta(p.header), p.header>>
                       \o (sender \o p.content))

(* Mutant: a broadcast is waited for.                                       *)
WaitsForAll(p) == HasBit(p.header, ACK_REQUEST_BIT)

(* Does the sender wait for an answer?                                      *)
Waits(p) == HasBit(p.header, ACK_REQUEST_BIT) /\ p.device_id # BROADCAST

SendString ==
  /\ pc = "dispatched"
  /\ bus' = BytesOnBus(packet)
  /\ pc' = "sent"
  /\ UNCHANGED <<settings, header, asked, packet, damaged, outcome>>

(* One byte is changed on the way.                                          *)
ChangeByte(i, x) ==
  /\ pc = "sent" /\ damaged = 0 /\ Len(packet.content) <= MaxCheckedLength
  /\ damaged' = i
  /\ bus' = [bus EXCEPT ![i] = Xor(@, x)]
  /\ UNCHANGED <<settings, pc, header, asked, packet, outcome>>

-----------------------------------------------------------------------------
(* receive(), of bytes that all arrive                                      *)

(* Mutant: the sender id is taken for payload.                              *)
PayloadOffsetFixed(h) == IF HasBit(h, MODE_BIT) THEN 7 ELSE 3

(* Where the payload begins, counted from 0.                                *)
PayloadOffset(h) ==
  IF HasBit(h, MODE_BIT)
  THEN IF HasBit(h, SENDER_INFO_BIT) THEN 12 ELSE 7
  ELSE IF HasBit(h, SENDER_INFO_BIT) THEN 4 ELSE 3

SenderInfo(data) ==
  IF ~HasBit(data[3], SENDER_INFO_BIT) THEN NoId
  ELSE IF HasBit(data[3], MODE_BIT) THEN data[12] ELSE data[4]

(* Shared mode is unfinished: adding 3 to a list raises, and so does a      *)
(* packet that is too short for the ids it should have.                     *)
ReceiveRaises(data) ==
  \/ /\ HasBit(data[3], ACK_REQUEST_BIT) /\ data[1] # BROADCAST
     /\ receiver_shared
  \/ /\ HasBit(data[3], MODE_BIT) /\ HasBit(data[3], SENDER_INFO_BIT)
     /\ Len(data) < 12

(* Mutant: it is not compared.                                              *)
MatchesAlways(data) == TRUE

(* The checksum of what precedes the last byte is the last byte.            *)
Matches(data) == Checksum(Front(data)) = Last(data)

Refused(bytes) ==
  IF bytes[1] \notin {ReceiverId, BROADCAST}           THEN "BUSY"
  ELSE IF bytes[2] \notin 5..PACKET_MAX_LENGTH - 1     THEN "FAIL"
  ELSE IF HasBit(bytes[3], MODE_BIT) # receiver_shared THEN "BUSY"
  ELSE IF bytes[2] > Len(bytes)                        THEN "FAIL"
  ELSE IF ~Matches(SubSeq(bytes, 1, bytes[2]))         THEN "NAK"
  ELSE "no"

Received(bytes) ==
  LET data == SubSeq(bytes, 1, bytes[2])
  IN  IF Refused(bytes) # "no" THEN Nothing(Refused(bytes))
      ELSE IF ReceiveRaises(data) THEN Nothing("raises")
      ELSE [result    |-> "ACK",
            answered  |-> HasBit(data[3], ACK_REQUEST_BIT) /\ data[1] # BROADCAST,
            sender_id |-> SenderInfo(data),
            payload   |-> SubSeq(data, PayloadOffset(data[3]) + 1, Len(data) - 1)]

Receive ==
  /\ pc = "sent"
  /\ outcome' = Received(bus)
  /\ pc' = "over"
  /\ UNCHANGED <<settings, header, asked, packet, bus, damaged>>

Next ==
  \/ Set \/ Craft \/ SendString \/ Receive
  \/ \E recipient \in Recipient, payload \in Payload, sender \in {SenderId, ForcedId} :
       Dispatch(recipient, payload, sender)
  \/ \E i \in DOMAIN bus, x \in Damage : ChangeByte(i, x)

Spec == Init /\ [][Next]_vars

-----------------------------------------------------------------------------
(* Whatever the settings are when the packet is dispatched or transmitted,  *)
(* it carries the bits of the call, or of the settings when the call began; *)
(* no bit of the settings comes through an overridden header.               *)
HeaderAsAsked ==
  pc # "idle" =>
    \A h \in {header} \cup (IF packet = NoPacket THEN {} ELSE {packet.header}) :
      \A bit \in {MODE_BIT, SENDER_INFO_BIT, ACK_REQUEST_BIT} :
        HasBit(h, bit) <=> bit \in asked

Arrived == pc = "over" /\ outcome.result # "none" /\ damaged = 0

(* An undamaged packet for this device, or for all, reaches the receiver    *)
(* function exactly if its payload has 0 to 44 bytes with the sender's id,  *)
(* 1 to 45 without, and then the payload and the id are those dispatched.   *)
(* dispatch() accepts 0 to 49.  (In shared mode, which is unfinished, the   *)
(* payload loses the bytes that ids should have taken.)                     *)
RoundTrip ==
  Arrived /\ ~receiver_shared /\ MODE_BIT \notin asked =>
    LET named == SENDER_INFO_BIT \in asked
    IN  /\ outcome.result = "ACK" <=>
             /\ packet.device_id \in {ReceiverId, BROADCAST}
             /\ Len(packet.content) \in IF named THEN 0..44 ELSE 1..45
        /\ outcome.result = "ACK" =>
             /\ outcome.payload = packet.content
             /\ outcome.sender_id = IF named THEN packet.sender_id ELSE NoId

(* The sender of a packet that is received waits for an answer exactly if   *)
(* the receiver gives one: neither stays without the other, except that a   *)
(* receiver in shared mode raises instead.                                  *)
WaitsIffAnswered ==
  Arrived =>
    /\ outcome.result = "ACK" => (Waits(packet) <=> outcome.answered)
    /\ outcome.result = "raises" => HasBit(packet.header, MODE_BIT)
    /\ outcome.answered => ACK_REQUEST_BIT \in asked

(* A packet one byte of which was changed on the way is neither given to    *)
(* the application nor answered, and check() refuses it.  The exception is  *)
(* the byte that says how long it is: a part of the packet may happen to    *)
(* end with its own checksum.                                               *)
DamageRefused ==
  damaged # 0 =>
    /\ ~Check(bus)
    /\ damaged # 2 => outcome.result # "ACK" /\ ~outcome.answered

(* The checksum of calc_crc_for_byte_array(), and that of the table, is the *)
(* remainder of the bytes before it.                                        *)
ChecksumIsRemainder ==
  pc = "sent" /\ damaged = 0 /\ Len(packet.content) <= MaxCheckedLength =>
    /\ Last(bus) = Remainder(Front(bus))
    /\ CrcOfBytes(Front(bus)) = Remainder(Front(bus))
=============================================================================
