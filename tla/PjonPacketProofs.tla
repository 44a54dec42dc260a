--------------------------- MODULE PjonPacketProofs ---------------------------
(* Theorems about PjonPacket, for any payloads, ids and settings.           *)
EXTENDS PjonPacket, Crc8Proofs

-----------------------------------------------------------------------------
(* Bits of a header                                                         *)

Header    == 0..7
HeaderBit == {MODE_BIT, SENDER_INFO_BIT, ACK_REQUEST_BIT}

LEMMA BitsOfHeader ==
  \A h \in Header :
    /\ HasBit(h, MODE_BIT) <=> h \in {1, 3, 5, 7}
    /\ HasBit(h, SENDER_INFO_BIT) <=> h \in {2, 3, 6, 7}
    /\ HasBit(h, ACK_REQUEST_BIT) <=> h \in {4, 5, 6, 7}
<1> USE DEF HasBit, MODE_BIT, SENDER_INFO_BIT, ACK_REQUEST_BIT
<1> SUFFICES ASSUME NEW h \in Header
             PROVE  /\ HasBit(h, MODE_BIT) <=> h \in {1, 3, 5, 7}
                    /\ HasBit(h, SENDER_INFO_BIT) <=> h \in {2, 3, 6, 7}
                    /\ HasBit(h, ACK_REQUEST_BIT) <=> h \in {4, 5, 6, 7}
  OBVIOUS
<1>1. h \in {0, 1, 2, 3, 4, 5, 6, 7}
  BY DEF Header
<1>2. HasBit(h, MODE_BIT) <=> h \in {1, 3, 5, 7}
  BY <1>1
<1>3. HasBit(h, SENDER_INFO_BIT) <=> h \in {2, 3, 6, 7}
  BY <1>1
<1>4. HasBit(h, ACK_REQUEST_BIT) <=> h \in {4, 5, 6, 7}
  BY <1>1
<1>5. QED
  BY <1>2, <1>3, <1>4

(* Put() changes its bit and no other.                                      *)
LEMMA PutChangesOneBit ==
  ASSUME NEW h \in Header, NEW bit \in HeaderBit, NEW value \in BOOLEAN
  PROVE  /\ Put(h, bit, value) \in Header
         /\ HasBit(Put(h, bit, value), bit) <=> value
         /\ \A other \in HeaderBit \ {bit} :
              HasBit(Put(h, bit, value), other) <=> HasBit(h, other)
<1> DEFINE p == Put(h, bit, value)
<1> HIDE DEF p
<1>1. h \in {0, 1, 2, 3, 4, 5, 6, 7}
  BY DEF Header
<1>2. CASE bit = MODE_BIT
  <2>1. HasBit(h, bit) \in BOOLEAN /\ (HasBit(h, bit) <=> h \in {1, 3, 5, 7})
    <3>1. HasBit(h, bit) \in BOOLEAN
      BY DEF HasBit
    <3>2. QED
      BY <1>2, <3>1, BitsOfHeader
  <2>2. p = IF value THEN IF h \in {1, 3, 5, 7} THEN h ELSE h + bit
            ELSE IF h \in {1, 3, 5, 7} THEN h - bit ELSE h
    BY <2>1 DEF Put, p
  <2>3. p \in {0, 1, 2, 3, 4, 5, 6, 7}
    BY <1>1, <1>2, <2>1, <2>2 DEF MODE_BIT
  <2>4. p \in {1, 3, 5, 7} <=> value
    BY <1>1, <1>2, <2>1, <2>2 DEF MODE_BIT
  <2>5. p \in {2, 3, 6, 7} <=> h \in {2, 3, 6, 7}
    BY <1>1, <1>2, <2>1, <2>2 DEF MODE_BIT
  <2>6. p \in {4, 5, 6, 7} <=> h \in {4, 5, 6, 7}
    BY <1>1, <1>2, <2>1, <2>2 DEF MODE_BIT
  <2>7. h \in Header /\ p \in Header
    BY <1>1, <2>3 DEF Header
  <2>8. /\ HasBit(p, MODE_BIT) <=> value
        /\ \A other \in HeaderBit \ {MODE_BIT} : HasBit(p, other) <=> HasBit(h, other)
    BY <2>4, <2>5, <2>6, <2>7, BitsOfHeader DEF HeaderBit
  <2>9. QED
    BY <1>2, <2>7, <2>8 DEF p
<1>3. CASE bit = SENDER_INFO_BIT
  <2>1. HasBit(h, bit) \in BOOLEAN /\ (HasBit(h, bit) <=> h \in {2, 3, 6, 7})
    <3>1. HasBit(h, bit) \in BOOLEAN
      BY DEF HasBit
    <3>2. QED
      BY <1>3, <3>1, BitsOfHeader
  <2>2. p = IF value THEN IF h \in {2, 3, 6, 7} THEN h ELSE h + bit
            ELSE IF h \in {2, 3, 6, 7} THEN h - bit ELSE h
    BY <2>1 DEF Put, p
  <2>3. p \in {0, 1, 2, 3, 4, 5, 6, 7}
    BY <1>1, <1>3, <2>1, <2>2 DEF SENDER_INFO_BIT
  <2>4. p \in {2, 3, 6, 7} <=> value
    BY <1>1, <1>3, <2>1, <2>2 DEF SENDER_INFO_BIT
  <2>5. p \in {1, 3, 5, 7} <=> h \in {1, 3, 5, 7}
    BY <1>1, <1>3, <2>1, <2>2 DEF SENDER_INFO_BIT
  <2>6. p \in {4, 5, 6, 7} <=> h \in {4, 5, 6, 7}
    BY <1>1, <1>3, <2>1, <2>2 DEF SENDER_INFO_BIT
  <2>7. h \in Header /\ p \in Header
    BY <1>1, <2>3 DEF Header
  <2>8. /\ HasBit(p, SENDER_INFO_BIT) <=> value
        /\ \A other \in HeaderBit \ {SENDER_INFO_BIT} : HasBit(p, other) <=> HasBit(h, other)
    BY <2>4, <2>5, <2>6, <2>7, BitsOfHeader DEF HeaderBit
  <2>9. QED
    BY <1>3, <2>7, <2>8 DEF p
<1>4. CASE bit = ACK_REQUEST_BIT
  <2>1. HasBit(h, bit) \in BOOLEAN /\ (HasBit(h, bit) <=> h \in {4, 5, 6, 7})
    <3>1. HasBit(h, bit) \in BOOLEAN
      BY DEF HasBit
    <3>2. QED
      BY <1>4, <3>1, BitsOfHeader
  <2>2. p = IF value THEN IF h \in {4, 5, 6, 7} THEN h ELSE h + bit
            ELSE IF h \in {4, 5, 6, 7} THEN h - bit ELSE h
    BY <2>1 DEF Put, p
  <2>3. p \in {0, 1, 2, 3, 4, 5, 6, 7}
    BY <1>1, <1>4, <2>1, <2>2 DEF ACK_REQUEST_BIT
  <2>4. p \in {4, 5, 6, 7} <=> value
    BY <1>1, <1>4, <2>1, <2>2 DEF ACK_REQUEST_BIT
  <2>5. p \in {1, 3, 5, 7} <=> h \in {1, 3, 5, 7}
    BY <1>1, <1>4, <2>1, <2>2 DEF ACK_REQUEST_BIT
  <2>6. p \in {2, 3, 6, 7} <=> h \in {2, 3, 6, 7}
    BY <1>1, <1>4, <2>1, <2>2 DEF ACK_REQUEST_BIT
  <2>7. h \in Header /\ p \in Header
    BY <1>1, <2>3 DEF Header
  <2>8. /\ HasBit(p, ACK_REQUEST_BIT) <=> value
        /\ \A other \in HeaderBit \ {ACK_REQUEST_BIT} : HasBit(p, other) <=> HasBit(h, other)
    BY <2>4, <2>5, <2>6, <2>7, BitsOfHeader DEF HeaderBit
  <2>9. QED
    BY <1>4, <2>7, <2>8 DEF p
<1>5. QED
  BY <1>2, <1>3, <1>4 DEF HeaderBit, p

Carries(h, bits) == \A bit \in HeaderBit : HasBit(h, bit) <=> bit \in bits

SettingsType ==
  /\ acknowledge \in BOOLEAN /\ sender_info \in BOOLEAN
  /\ shared \in BOOLEAN /\ receiver_shared \in BOOLEAN

(* What send() puts into the header.                                        *)
LEMMA ConfiguredHeader ==
  ASSUME SettingsType
  PROVE  HeaderFromConfig \in Header /\ Carries(HeaderFromConfig, Configured)
<1> USE DEF SettingsType, HeaderFromConfig, MODE_BIT, SENDER_INFO_BIT, ACK_REQUEST_BIT
<1>1. HeaderFromConfig \in Header
  BY DEF Header
<1>2. /\ HeaderFromConfig \in {1, 3, 5, 7} <=> shared
      /\ HeaderFromConfig \in {2, 3, 6, 7} <=> sender_info
      /\ HeaderFromConfig \in {4, 5, 6, 7} <=> acknowledge
  OBVIOUS
<1>3. /\ 1 \in Configured <=> shared
      /\ 2 \in Configured <=> sender_info
      /\ 4 \in Configured <=> acknowledge
  BY DEF Configured
<1> HIDE DEF HeaderFromConfig
<1>4. QED
  BY <1>1, <1>2, <1>3, BitsOfHeader DEF Carries, HeaderBit

(* What an override puts into it, whatever the settings are.                *)
LEMMA OverriddenHeaderCarries ==
  ASSUME SettingsType, NEW bits
  PROVE  OverriddenHeader(bits) \in Header /\ Carries(OverriddenHeader(bits), bits)
<1> DEFINE a == Put(HeaderFromConfig, ACK_REQUEST_BIT, ACK_REQUEST_BIT \in bits)
           i == Put(a, SENDER_INFO_BIT, SENDER_INFO_BIT \in bits)
           m == Put(i, MODE_BIT, MODE_BIT \in bits)
<1> HIDE DEF a, i, m
<1>0. /\ ACK_REQUEST_BIT \in HeaderBit /\ SENDER_INFO_BIT \in HeaderBit
      /\ MODE_BIT \in HeaderBit
      /\ (ACK_REQUEST_BIT \in bits) \in BOOLEAN /\ (SENDER_INFO_BIT \in bits) \in BOOLEAN
      /\ (MODE_BIT \in bits) \in BOOLEAN
      /\ ACK_REQUEST_BIT # SENDER_INFO_BIT /\ ACK_REQUEST_BIT # MODE_BIT
      /\ SENDER_INFO_BIT # MODE_BIT
  BY DEF HeaderBit, MODE_BIT, SENDER_INFO_BIT, ACK_REQUEST_BIT
<1>1. a \in Header /\ (HasBit(a, ACK_REQUEST_BIT) <=> ACK_REQUEST_BIT \in bits)
  BY <1>0, ConfiguredHeader, PutChangesOneBit DEF a
<1>2. /\ i \in Header /\ (HasBit(i, SENDER_INFO_BIT) <=> SENDER_INFO_BIT \in bits)
      /\ HasBit(i, ACK_REQUEST_BIT) <=> HasBit(a, ACK_REQUEST_BIT)
  BY <1>0, <1>1, PutChangesOneBit DEF i
<1>3. /\ m \in Header /\ (HasBit(m, MODE_BIT) <=> MODE_BIT \in bits)
      /\ HasBit(m, ACK_REQUEST_BIT) <=> HasBit(i, ACK_REQUEST_BIT)
      /\ HasBit(m, SENDER_INFO_BIT) <=> HasBit(i, SENDER_INFO_BIT)
  BY <1>0, <1>2, PutChangesOneBit DEF m
<1>4. OverriddenHeader(bits) = m
  BY DEF OverriddenHeader, a, i, m
<1>5. QED
  BY <1>1, <1>2, <1>3, <1>4 DEF Carries, HeaderBit

-----------------------------------------------------------------------------
(* What is on the bus                                                       *)

Packet == [device_id : Byte, header : Header, sender_id : Byte, content : Seq(Byte)]

(* Where the parts of an undamaged packet are, and that receive() finds its *)
(* checksum right.  Nothing is assumed about the values of Checksum.        *)
LEMMA Layout ==
  ASSUME NEW p \in Packet
  PROVE  LET b == BytesOnBus(p)
             n == Len(p.content) + Meta(p.header)
         IN  /\ Len(b) = n /\ DOMAIN b = 1..n
             /\ b[1] = p.device_id /\ b[2] = n /\ b[3] = p.header
             /\ HasBit(p.header, SENDER_INFO_BIT) => b[4] = p.sender_id
             /\ SubSeq(b, 1, n) = b
             /\ SubSeq(b, Meta(p.header), n - 1) = p.content
             /\ Matches(b)
<1> DEFINE c == p.content
           m == Meta(p.header)
           sender == IF HasBit(p.header, SENDER_INFO_BIT) THEN <<p.sender_id>> ELSE <<>>
           start == <<p.device_id, Len(c) + m, p.header>>
           tail == sender \o c
           x == start \o tail
           S == Nat \cup {Checksum(x)}
           b == Append(x, Checksum(x))
<1>1. /\ c \in Seq(Nat) /\ Len(c) \in Nat /\ DOMAIN c = 1..Len(c)
      /\ p.device_id \in Nat /\ p.header \in Nat /\ p.sender_id \in Nat
  <2>1. c \in Seq(Byte) /\ Byte \subseteq Nat /\ Header \subseteq Nat
    BY DEF Packet, Byte, Header
  <2>2. c \in Seq(Nat)
    BY <2>1, SeqMonotonic
  <2>3. QED
    BY <2>1, <2>2, LenProperties DEF Packet
<1>2. m \in {4, 5} /\ (HasBit(p.header, SENDER_INFO_BIT) <=> m = 5)
  BY DEF Meta
<1>3. /\ sender \in Seq(Nat) /\ Len(sender) = m - 4
      /\ m = 5 => sender[1] = p.sender_id
  BY <1>1, <1>2
<1>4. /\ start \in Seq(Nat) /\ Len(start) = 3
      /\ start[1] = p.device_id /\ start[2] = Len(c) + m /\ start[3] = p.header
  BY <1>1, <1>2
<1> HIDE DEF sender, start, m, c
<1>5. /\ tail \in Seq(Nat) /\ Len(tail) = m - 4 + Len(c)
      /\ m = 5 => tail[1] = p.sender_id
      /\ \A i \in 1..Len(c) : tail[m - 4 + i] = c[i]
  <2>1. /\ tail \in Seq(Nat) /\ Len(tail) = Len(sender) + Len(c)
        /\ \A i \in 1..Len(sender) : tail[i] = sender[i]
        /\ \A i \in 1..Len(c) : tail[Len(sender) + i] = c[i]
    BY <1>1, <1>3, NumbersConcatenated
  <2>2. m = 5 => 1 \in 1..Len(sender)
    BY <1>3
  <2>3. m = 5 => tail[1] = p.sender_id
    BY <1>3, <2>1, <2>2
  <2>4. \A i \in 1..Len(c) : tail[m - 4 + i] = c[i]
    BY <1>3, <2>1
  <2>5. QED
    BY <1>3, <2>1, <2>3, <2>4
<1> HIDE DEF tail
<1>6. /\ x \in Seq(Nat) /\ Len(x) = m - 1 + Len(c)
      /\ x[1] = p.device_id /\ x[2] = Len(c) + m /\ x[3] = p.header
      /\ m = 5 => x[4] = p.sender_id
      /\ \A i \in 1..Len(c) : x[m - 1 + i] = c[i]
  <2>0. /\ x \in Seq(Nat) /\ Len(x) = Len(start) + Len(tail)
        /\ \A i \in 1..Len(start) : x[i] = start[i]
        /\ \A i \in 1..Len(tail) : x[Len(start) + i] = tail[i]
    BY <1>4, <1>5, NumbersConcatenated
  <2>1. /\ x \in Seq(Nat) /\ Len(x) = m - 1 + Len(c)
        /\ x[1] = start[1] /\ x[2] = start[2] /\ x[3] = start[3]
        /\ \A i \in 1..Len(tail) : x[3 + i] = tail[i]
    <3>1. Len(x) = m - 1 + Len(c)
      BY <1>1, <1>2, <1>4, <1>5, <2>0
    <3>2. 1 \in 1..Len(start) /\ 2 \in 1..Len(start) /\ 3 \in 1..Len(start)
      BY <1>4
    <3>3. x[1] = start[1] /\ x[2] = start[2] /\ x[3] = start[3]
      BY <2>0, <3>2
    <3>4. \A i \in 1..Len(tail) : x[3 + i] = tail[i]
      BY <1>4, <2>0
    <3>5. QED
      BY <2>0, <3>1, <3>3, <3>4
  <2>2. m = 5 => x[4] = p.sender_id
    <3> SUFFICES ASSUME m = 5 PROVE x[4] = p.sender_id
      OBVIOUS
    <3>1. 1 \in 1..Len(tail) /\ 3 + 1 = 4
      BY <1>1, <1>5
    <3>2. QED
      BY <1>5, <2>1, <3>1
  <2>3. ASSUME NEW i \in 1..Len(c) PROVE x[m - 1 + i] = c[i]
    <3>1. m - 4 + i \in 1..Len(tail) /\ 3 + (m - 4 + i) = m - 1 + i
      BY <1>1, <1>2, <1>5
    <3>2. x[3 + (m - 4 + i)] = tail[m - 4 + i]
      BY <2>1, <3>1
    <3>3. QED
      BY <1>5, <3>1, <3>2
  <2>4. QED
    BY <1>4, <2>1, <2>2, <2>3
<1> HIDE DEF x
<1>7. /\ b \in Seq(S) /\ x \in Seq(S) /\ c \in Seq(S) /\ Len(b) = Len(x) + 1
      /\ DOMAIN b = 1..Len(b)
      /\ \A i \in 1..Len(x) : b[i] = x[i]
      /\ b[Len(x) + 1] = Checksum(x)
  <2>1. Nat \subseteq S /\ Checksum(x) \in S
    OBVIOUS
  <2>2. x \in Seq(S) /\ c \in Seq(S)
    BY <1>1, <1>6, <2>1, SeqMonotonic
  <2>3. QED
    BY <2>1, <2>2, AppendProperties, LenProperties
<1> HIDE DEF S, b
<1>8. BytesOnBus(p) = b
  BY DEF BytesOnBus, AppendChecksum, b, x, start, tail, sender, m, c
<1>9. Len(b) = Len(c) + m /\ \A i \in 1..3 : b[i] = x[i]
  BY <1>1, <1>2, <1>6, <1>7
<1>10. m = 5 => b[4] = x[4]
  BY <1>1, <1>6, <1>7
<1>11. SubSeq(b, 1, Len(b)) = b
  BY <1>7, SubSeqFull
<1>12. SubSeq(b, m, Len(b) - 1) = c
  <2>1. ASSUME NEW i \in 1..Len(c) PROVE b[m - 1 + i] = c[i]
    <3>1. m - 1 + i \in 1..Len(x)
      BY <1>1, <1>2, <1>6
    <3>2. QED
      BY <1>6, <1>7, <3>1
  <2>2. /\ m \in Nat \ {0} /\ Len(b) - 1 \in Nat /\ Len(b) - 1 <= Len(b)
        /\ Len(c) = Len(b) - 1 - m + 1
    BY <1>1, <1>2, <1>9
  <2>3. QED
    BY <1>7, <2>1, <2>2, SubSeqIs
<1>13. Matches(b)
  <2>1. \A i \in 1..Len(x) : b[1 - 1 + i] = x[i]
    BY <1>7
  <2>2. /\ 1 \in Nat \ {0} /\ Len(b) - 1 \in Nat /\ Len(b) - 1 <= Len(b)
        /\ Len(x) = Len(b) - 1 - 1 + 1
    BY <1>1, <1>2, <1>6, <1>7
  <2>3. SubSeq(b, 1, Len(b) - 1) = x
    BY <1>7, <2>1, <2>2, SubSeqIs
  <2>4. QED
    BY <1>7, <2>3 DEF Matches, Front, Last
<1>14. QED
  BY <1>2, <1>6, <1>7, <1>8, <1>9, <1>10, <1>11, <1>12, <1>13 DEF m, c

-----------------------------------------------------------------------------
(* The state                                                                *)

Dispatched ==
  packet \in Packet /\ packet.header = header /\ Len(packet.content) < PACKET_MAX_LENGTH

HeaderInv ==
  /\ SettingsType
  /\ pc \in {"idle", "crafted", "dispatched", "sent", "over"}
  /\ pc # "idle" => header \in Header /\ Carries(header, asked)
  /\ pc \in {"idle", "crafted"} => packet = NoPacket
  /\ pc \in {"dispatched", "sent"} => Dispatched
  /\ pc = "over" => packet = NoPacket \/ Dispatched

LEMMA HeaderInvInit == Init => HeaderInv
BY DEF Init, HeaderInv, SettingsType

LEMMA HeaderInvStep == HeaderInv /\ [Next]_vars => HeaderInv'
<1> SUFFICES ASSUME HeaderInv, [Next]_vars PROVE HeaderInv'
  OBVIOUS
<1> USE DEF HeaderInv, settings, SettingsType, Dispatched, Carries
<1>1. CASE Set
  BY <1>1 DEF Set
<1>2. CASE Craft
  <2>1. header' \in Header /\ Carries(header', asked')
    BY <1>2, ConfiguredHeader, OverriddenHeaderCarries DEF Craft
  <2>2. QED
    BY <1>2, <2>1 DEF Craft
<1>3. ASSUME NEW recipient \in Recipient, NEW payload \in Payload,
             NEW sender \in {SenderId, ForcedId}, Dispatch(recipient, payload, sender)
      PROVE  HeaderInv'
  <2>1. recipient \in Byte /\ payload \in Seq(Byte) /\ sender \in Byte /\ header \in Header
    BY <1>3, PacketAssumption DEF Dispatch
  <2>2. CASE pc' = "over"
    BY <1>3, <2>2 DEF Dispatch
  <2>3. CASE pc' # "over"
    <3>1. packet' = [device_id |-> recipient, header |-> header,
                     sender_id |-> sender, content |-> payload] /\ pc' = "dispatched"
      BY <1>3, <2>3 DEF Dispatch
    <3>2. packet' \in Packet /\ packet'.header = header /\ packet'.content = payload
      BY <2>1, <3>1 DEF Packet
    <3>3. Len(payload) < PACKET_MAX_LENGTH
      <4>1. ~(Len(payload) >= PACKET_MAX_LENGTH)
        BY <1>3, <2>3 DEF Dispatch
      <4>2. Len(payload) \in Nat
        BY <2>1, LenProperties
      <4>3. QED
        BY <4>1, <4>2 DEF PACKET_MAX_LENGTH
    <3>4. QED
      BY <1>3, <3>1, <3>2, <3>3 DEF Dispatch
  <2>4. QED
    BY <2>2, <2>3
<1>4. CASE SendString
  BY <1>4 DEF SendString
<1>5. CASE \E i \in DOMAIN bus, x \in Damage : ChangeByte(i, x)
  BY <1>5 DEF ChangeByte
<1>6. CASE Receive
  BY <1>6 DEF Receive
<1>7. CASE UNCHANGED vars
  BY <1>7 DEF vars
<1>8. QED
  BY <1>1, <1>2, <1>3, <1>4, <1>5, <1>6, <1>7 DEF Next

(* For every payload, id and order of settings: the header that leaves      *)
(* carries what the call asked for.                                         *)
THEOREM HeaderCorrect == Spec => []HeaderAsAsked
<1>1. HeaderInv => HeaderAsAsked
  BY DEF HeaderInv, HeaderAsAsked, Dispatched, Carries, HeaderBit
<1>2. QED
  BY <1>1, HeaderInvInit, HeaderInvStep, PTL DEF Spec

-----------------------------------------------------------------------------
(* From the bus to the receiver                                             *)

(* An undamaged bus carries what send_string() makes of the packet, and     *)
(* receive() decides on that.  (The positions are there to tell that        *)
(* "damaged" is not 0 after a change.)                                      *)
BusInv ==
  /\ 0 \notin DOMAIN bus
  /\ pc \notin {"sent", "over"} => damaged = 0
  /\ pc = "sent" /\ damaged = 0 => bus = BytesOnBus(packet)
  /\ pc # "over" => outcome = Nothing("none")
  /\ Arrived => Dispatched /\ outcome = Received(BytesOnBus(packet))

LEMMA BusInvInit == Init => BusInv
BY DEF Init, BusInv, Arrived, Nothing

LEMMA BusInvStep == HeaderInv /\ BusInv /\ [Next]_vars => BusInv'
<1> SUFFICES ASSUME HeaderInv, BusInv, [Next]_vars PROVE BusInv'
  OBVIOUS
<1> USE DEF BusInv, settings
<1>1. CASE Set \/ Craft
  BY <1>1 DEF Set, Craft, Arrived
<1>2. ASSUME NEW recipient \in Recipient, NEW payload \in Payload,
             NEW sender \in {SenderId, ForcedId}, Dispatch(recipient, payload, sender)
      PROVE  BusInv'
  BY <1>2 DEF Dispatch, Arrived, Nothing
<1>3. CASE SendString
  <2>1. packet \in Packet
    BY <1>3 DEF SendString, HeaderInv, Dispatched
  <2>2. 0 \notin DOMAIN BytesOnBus(packet)
    <3>1. PICK n : DOMAIN BytesOnBus(packet) = 1..n
      BY <2>1, Layout
    <3>2. QED
      BY <3>1
  <2>3. QED
    BY <1>3, <2>2 DEF SendString, Arrived
<1>4. ASSUME NEW i \in DOMAIN bus, NEW x \in Damage, ChangeByte(i, x)
      PROVE  BusInv'
  <2>1. damaged' # 0 /\ DOMAIN bus' = DOMAIN bus
    BY <1>4 DEF ChangeByte
  <2>2. QED
    BY <1>4, <2>1 DEF ChangeByte, Arrived
<1>5. CASE Receive
  <2>1. damaged = 0 => bus = BytesOnBus(packet)
    BY <1>5 DEF Receive
  <2>2. Dispatched'
    BY <1>5 DEF Receive, HeaderInv, Dispatched
  <2>3. Received(bus)' = Received(bus)
    BY <1>5 DEF Receive, Received, Refused, ReceiveRaises, Nothing, SenderInfo
  <2>4. QED
    BY <1>5, <2>1, <2>2, <2>3 DEF Receive, Arrived
<1>6. CASE UNCHANGED vars
  <2>1. UNCHANGED <<bus, damaged, pc, outcome, packet, header, receiver_shared>>
    BY <1>6 DEF vars
  <2>2. Received(BytesOnBus(packet))' = Received(BytesOnBus(packet))
    BY <2>1 DEF Received, Refused, ReceiveRaises
  <2>3. QED
    BY <2>1, <2>2 DEF Arrived, Dispatched
<1>7. QED
  BY <1>1, <1>2, <1>3, <1>4, <1>5, <1>6 DEF Next

LEMMA BusCorrect == Spec => [](HeaderInv /\ BusInv)
BY HeaderInvInit, HeaderInvStep, BusInvInit, BusInvStep, PTL DEF Spec

(* What receive() makes of an undamaged packet.                             *)
LEMMA ReceivedPacket ==
  ASSUME NEW p \in Packet, SettingsType
  PROVE  LET b == BytesOnBus(p)
             n == Len(p.content) + Meta(p.header)
             mine == p.device_id \in {ReceiverId, BROADCAST}
             fits == n \in 5..PACKET_MAX_LENGTH - 1
         IN  /\ ~mine => Refused(b) = "BUSY"
             /\ mine /\ ~fits => Refused(b) = "FAIL"
             /\ mine /\ fits /\ HasBit(p.header, MODE_BIT) # receiver_shared => Refused(b) = "BUSY"
             /\ mine /\ fits /\ HasBit(p.header, MODE_BIT) = receiver_shared => Refused(b) = "no"
             /\ SubSeq(b, 1, b[2]) = b
<1> DEFINE b == BytesOnBus(p)
           n == Len(p.content) + Meta(p.header)
<1>1. /\ Len(b) = n /\ b[1] = p.device_id /\ b[2] = n /\ b[3] = p.header
      /\ SubSeq(b, 1, n) = b /\ Matches(b)
  BY Layout
<1>2. n \in Nat
  BY LenProperties DEF Packet, Meta
<1> HIDE DEF b, n
<1>3. ~(n > n)
  BY <1>2
<1>4. QED
  BY <1>1, <1>3 DEF Refused, b, n

LEMMA ShortEnough ==
  \A k \in Nat : /\ k + 5 \in 5..49 <=> k \in 0..44
                 /\ k + 4 \in 5..49 <=> k \in 1..45
OBVIOUS

(* Every payload that dispatch() accepts and receive() has room for arrives *)
(* as it was sent, with the sender's id if it is carried; the other ones    *)
(* never arrive.                                                            *)
THEOREM RoundTripCorrect == Spec => []RoundTrip
<1>1. HeaderInv /\ BusInv => RoundTrip
  <2> SUFFICES ASSUME HeaderInv, BusInv, Arrived, ~receiver_shared, MODE_BIT \notin asked
               PROVE  LET named == SENDER_INFO_BIT \in asked
                      IN  /\ outcome.result = "ACK" <=>
                               /\ packet.device_id \in {ReceiverId, BROADCAST}
                               /\ Len(packet.content) \in IF named THEN 0..44 ELSE 1..45
                          /\ outcome.result = "ACK" =>
                               /\ outcome.payload = packet.content
                               /\ outcome.sender_id = IF named THEN packet.sender_id ELSE NoId
    BY DEF RoundTrip
  <2> DEFINE b == BytesOnBus(packet)
             h == packet.header
             m == Meta(h)
             c == packet.content
             n == Len(c) + m
             named == SENDER_INFO_BIT \in asked
             mine == packet.device_id \in {ReceiverId, BROADCAST}
             fits == n \in 5..PACKET_MAX_LENGTH - 1
  <2>1. packet \in Packet /\ Carries(h, asked) /\ SettingsType /\ outcome = Received(b)
    BY DEF HeaderInv, BusInv, Arrived, Dispatched
  <2>2. ~HasBit(h, MODE_BIT) /\ (HasBit(h, SENDER_INFO_BIT) <=> named)
    BY <2>1 DEF Carries, HeaderBit
  <2>3. m = IF named THEN 5 ELSE 4
    BY <2>2 DEF Meta
  <2>4. Len(c) \in Nat
    BY <2>1, LenProperties DEF Packet
  <2>5. fits <=> Len(c) \in IF named THEN 0..44 ELSE 1..45
    <3>1. fits <=> n \in 5..49
      BY DEF PACKET_MAX_LENGTH
    <3> HIDE DEF named, fits, m, c
    <3>2. CASE named
      <4>1. fits <=> Len(c) + 5 \in 5..49
        BY <2>3, <3>1, <3>2
      <4>2. Len(c) + 5 \in 5..49 <=> Len(c) \in 0..44
        BY <2>4, ShortEnough
      <4>3. QED
        BY <3>2, <4>1, <4>2
    <3>3. CASE ~named
      <4>1. fits <=> Len(c) + 4 \in 5..49
        BY <2>3, <3>1, <3>3
      <4>2. Len(c) + 4 \in 5..49 <=> Len(c) \in 1..45
        BY <2>4, ShortEnough
      <4>3. QED
        BY <3>3, <4>1, <4>2
    <3>4. QED
      BY <3>2, <3>3
  <2>6. /\ ~mine => Refused(b) = "BUSY"
        /\ mine /\ ~fits => Refused(b) = "FAIL"
        /\ mine /\ fits => Refused(b) = "no"
        /\ SubSeq(b, 1, b[2]) = b
    <3>1. HasBit(h, MODE_BIT) = receiver_shared
      BY <2>1, <2>2 DEF SettingsType, HasBit
    <3>2. QED
      BY <2>1, <3>1, ReceivedPacket
  <2>7. /\ Len(b) = n /\ b[3] = h /\ (named => b[4] = packet.sender_id)
        /\ SubSeq(b, m, n - 1) = c
    BY <2>1, <2>2, Layout
  <2> HIDE DEF b, h, m, c, n, named, mine, fits
  <2>8. ~ReceiveRaises(b)
    BY <2>2, <2>7 DEF ReceiveRaises
  <2>9. CASE mine /\ fits
    <3>1. PayloadOffset(h) + 1 = m /\ SenderInfo(b) = IF named THEN packet.sender_id ELSE NoId
      BY <2>2, <2>3, <2>7 DEF PayloadOffset, SenderInfo
    <3>2. /\ outcome.result = "ACK" /\ outcome.sender_id = SenderInfo(b)
          /\ outcome.payload = SubSeq(b, PayloadOffset(h) + 1, n - 1)
      BY <2>1, <2>6, <2>7, <2>8, <2>9 DEF Received
    <3>3. QED
      BY <2>5, <2>7, <2>9, <3>1, <3>2 DEF mine, c, named
  <2>10. CASE ~(mine /\ fits)
    <3>1. outcome = Nothing(Refused(b)) /\ Refused(b) \in {"BUSY", "FAIL"}
      BY <2>1, <2>6, <2>10 DEF Received
    <3>2. outcome.result # "ACK"
      BY <3>1 DEF Nothing
    <3>3. QED
      BY <2>5, <2>10, <3>2 DEF mine, c, named
  <2>11. QED
    BY <2>9, <2>10
<1>2. QED
  BY <1>1, BusCorrect, PTL

(* An undamaged packet is waited for exactly if it is answered.             *)
THEOREM AnswersAreAwaited == Spec => []WaitsIffAnswered
<1>1. HeaderInv /\ BusInv => WaitsIffAnswered
  <2> SUFFICES ASSUME HeaderInv, BusInv, Arrived
               PROVE  /\ outcome.result = "ACK" => (Waits(packet) <=> outcome.answered)
                      /\ outcome.result = "raises" => HasBit(packet.header, MODE_BIT)
                      /\ outcome.answered => ACK_REQUEST_BIT \in asked
    BY DEF WaitsIffAnswered
  <2> DEFINE b == BytesOnBus(packet)
             h == packet.header
  <2>1. packet \in Packet /\ Carries(h, asked) /\ SettingsType /\ outcome = Received(b)
    BY DEF HeaderInv, BusInv, Arrived, Dispatched
  <2>2. /\ Refused(b) \in {"BUSY", "FAIL", "no"}
        /\ Refused(b) = "no" => (HasBit(h, MODE_BIT) <=> receiver_shared)
        /\ SubSeq(b, 1, b[2]) = b /\ b[1] = packet.device_id /\ b[3] = h
    <3>1. HasBit(h, MODE_BIT) \in BOOLEAN /\ receiver_shared \in BOOLEAN
      BY <2>1 DEF SettingsType, HasBit
    <3>2. b[1] = packet.device_id /\ b[3] = h
      BY <2>1, Layout
    <3>3. QED
      BY <2>1, <3>1, <3>2, ReceivedPacket
  <2>3. HasBit(h, ACK_REQUEST_BIT) <=> ACK_REQUEST_BIT \in asked
    BY <2>1 DEF Carries, HeaderBit
  <2> HIDE DEF b, h
  <2>4. CASE Refused(b) # "no"
    <3>1. outcome = Nothing(Refused(b))
      BY <2>1, <2>4 DEF Received
    <3>2. outcome.result \in {"BUSY", "FAIL"} /\ ~outcome.answered
      BY <2>2, <2>4, <3>1 DEF Nothing
    <3>3. QED
      BY <3>2
  <2>5. CASE Refused(b) = "no" /\ ReceiveRaises(b)
    <3>1. outcome = Nothing("raises")
      BY <2>1, <2>2, <2>5 DEF Received
    <3>2. outcome.result = "raises" /\ ~outcome.answered
      BY <3>1 DEF Nothing
    <3>3. HasBit(h, MODE_BIT)
      BY <2>2, <2>5 DEF ReceiveRaises
    <3>4. QED
      BY <3>2, <3>3 DEF h
  <2>6. CASE Refused(b) = "no" /\ ~ReceiveRaises(b)
    <3>1. outcome.result = "ACK"
          /\ (outcome.answered <=> HasBit(h, ACK_REQUEST_BIT) /\ packet.device_id # BROADCAST)
      BY <2>1, <2>2, <2>6 DEF Received
    <3>2. QED
      BY <2>3, <3>1 DEF Waits, h
  <2>7. QED
    BY <2>4, <2>5, <2>6
<1>2. QED
  BY <1>1, BusCorrect, PTL

-----------------------------------------------------------------------------
(* The checksum on the bus                                                  *)

(* receive() compares what check() would.                                   *)
LEMMA MatchesIsCheck ==
  ASSUME NEW d \in Seq(Byte), Len(d) # 0
  PROVE  Matches(d) <=> Check(d)
<1> DEFINE n == Len(d)
           s == [i \in 1..n - 1 |-> d[i]]
<1>1. n \in Nat /\ n - 1 \in Nat /\ \A i \in 1..n : d[i] \in Byte
  BY BytesOf
<1> HIDE DEF n
<1>2. \A i \in 1..n - 1 : i \in 1..n
  BY <1>1
<1>3. s \in Seq(Byte) /\ Len(s) = n - 1 /\ n \in 1..n
  <2>1. \A i \in 1..n - 1 : d[i] \in Byte
    BY <1>1, <1>2
  <2>2. s \in Seq(Byte)
    BY <1>1, <2>1, IsASeq
  <2>3. DOMAIN s = 1..n - 1
    OBVIOUS
  <2>4. Len(s) = n - 1
    <3> HIDE DEF s
    <3>1. QED
      BY <1>1, <2>2, <2>3, LenProperties
  <2>5. n \in 1..n
    BY <1>1 DEF n
  <2>6. QED
    BY <2>2, <2>4, <2>5
<1>4. PICK a : a = Append(s, d[n])
  OBVIOUS
<1>5. /\ a \in Seq(Byte) /\ Len(a) = n /\ a[n] = d[n]
      /\ \A i \in 1..n - 1 : a[i] = d[i]
  <2>1. \A i \in 1..n - 1 : s[i] = d[i]
    OBVIOUS
  <2>2. d[n] \in Byte
    BY <1>1, <1>3
  <2> HIDE DEF s
  <2>3. /\ a \in Seq(Byte) /\ Len(a) = Len(s) + 1 /\ a[Len(s) + 1] = d[n]
        /\ \A i \in 1..Len(s) : a[i] = s[i]
    BY <1>3, <1>4, <2>2, AppendProperties
  <2>4. Len(s) + 1 = n
    BY <1>1, <1>3
  <2>5. QED
    BY <1>3, <2>1, <2>3, <2>4
<1>6. a = d
  <2>1. \A i \in 1..n : i = n \/ i \in 1..n - 1
    BY <1>1
  <2>2. \A i \in 1..n : a[i] = d[i]
    BY <1>5, <2>1
  <2>3. QED
    BY <1>5, <2>2, SeqEqual DEF n
<1> HIDE DEF s
<1>7. Front(d) = s /\ Last(d) = d[n] /\ d[n] \in Byte
  BY <1>1, <1>3, <1>4, <1>6, FrontAndLast
<1>8. QED
  BY <1>3, <1>4, <1>6, <1>7, ChecksMeans DEF Matches

(* dispatch() takes the payload.                                            *)
Short(p) == Len(p.content) < PACKET_MAX_LENGTH

(* The bytes that send_string() transmits, the checksum apart.              *)
LEMMA BytesType ==
  ASSUME NEW p \in Packet, Short(p)
  PROVE  /\ \E x \in Seq(Byte) : BytesOnBus(p) = AppendChecksum(x)
         /\ BytesOnBus(p) \in Seq(Byte) /\ Check(BytesOnBus(p))
<1> DEFINE sender == IF HasBit(p.header, SENDER_INFO_BIT) THEN <<p.sender_id>> ELSE <<>>
           start == <<p.device_id, Len(p.content) + Meta(p.header), p.header>>
           x == start \o (sender \o p.content)
<1>1. p.content \in Seq(Byte) /\ sender \in Seq(Byte)
  BY DEF Packet
<1>2. start \in Seq(Byte)
  <2>1. Len(p.content) \in Nat
    BY <1>1, LenProperties
  <2>2. Len(p.content) + Meta(p.header) \in Byte
    <3>1. PICK k \in {4, 5} : k = Meta(p.header)
      BY DEF Meta
    <3>2. PICK c \in Nat : c = Len(p.content)
      BY <2>1
    <3>3. c < 50
      BY <3>2 DEF Short, PACKET_MAX_LENGTH
    <3>4. c + k \in 0..255
      BY <3>1, <3>3
    <3>5. QED
      BY <3>1, <3>2, <3>4 DEF Byte
  <2>3. p.device_id \in Byte /\ p.header \in Byte
    BY DEF Packet, Header, Byte
  <2>4. QED
    BY <2>2, <2>3
<1>3. x \in Seq(Byte)
  <2> HIDE DEF sender, start
  <2>1. QED
    BY <1>1, <1>2, ConcatProperties
<1>4. BytesOnBus(p) = AppendChecksum(x)
  BY DEF BytesOnBus
<1> HIDE DEF x
<1>5. QED
  BY <1>3, <1>4, AppendedChecksumChecks

(* A packet one byte of which is changed.                                   *)
Changed(p, i, x) == [BytesOnBus(p) EXCEPT ![i] = Xor(@, x)]

LEMMA ChangedPacket ==
  ASSUME NEW p \in Packet, Short(p),
         NEW i \in DOMAIN BytesOnBus(p), NEW x \in Byte \ {0},
         NEW d, d = Changed(p, i, x)
  PROVE  /\ d \in Seq(Byte) /\ ~Check(d)
         /\ i # 2 => SubSeq(d, 1, d[2]) = d /\ ~Matches(d)
<1>1. PICK b \in Seq(Byte) : b = BytesOnBus(p)
  BY BytesType
<1>2. PICK n \in Nat : /\ Len(b) = n /\ DOMAIN b = 1..n /\ b[2] = n /\ n >= 4 /\ Check(b)
  <2>1. /\ Len(b) = Len(p.content) + Meta(p.header) /\ b[2] = Len(p.content) + Meta(p.header)
    BY <1>1, Layout
  <2>2. Len(p.content) \in Nat /\ Meta(p.header) \in {4, 5}
    BY LenProperties DEF Packet, Meta
  <2>3. Len(b) \in Nat /\ DOMAIN b = 1..Len(b) /\ Check(b)
    BY <1>1, BytesType, LenProperties
  <2>4. QED
    BY <2>1, <2>2, <2>3
<1>3. /\ i \in 1..n /\ b[i] \in Byte /\ Xor(b[i], x) \in Byte /\ Xor(b[i], x) # b[i]
  <2>1. i \in 1..n /\ b[i] \in Byte /\ x \in Byte /\ x # 0
    BY <1>1, <1>2, BytesOf
  <2>2. Xor(b[i], x) # b[i]
    <3>1. Xor(b[i], Xor(b[i], x)) = x /\ Xor(b[i], b[i]) = 0
      BY <2>1, XorCancels, XorZero
    <3>2. QED
      BY <2>1, <3>1
  <2>3. QED
    BY <2>1, <2>2, XorBits
<1>4. /\ d \in Seq(Byte) /\ Len(d) = n
      /\ \A j \in 1..n : d[j] = IF j = i THEN Xor(b[i], x) ELSE b[j]
  <2>1. PICK e \in Byte : e = Xor(b[i], x)
    BY <1>3
  <2>2. d = [b EXCEPT ![i] = e]
    BY <1>1, <2>1 DEF Changed
  <2>3. /\ d \in Seq(Byte) /\ Len(d) = Len(b)
        /\ \A j \in 1..Len(b) : d[j] = IF j = i THEN e ELSE b[j]
    <3>1. i \in 1..Len(b)
      BY <1>2, <1>3
    <3>2. d \in Seq(Byte) /\ Len(d) = Len(b)
      BY <2>2, <3>1, ChangedAt
    <3>3. \A j \in 1..Len(b) : d[j] = IF j = i THEN e ELSE b[j]
      BY <2>2, <3>1, ChangedAt
    <3>4. QED
      BY <3>2, <3>3
  <2>4. QED
    BY <1>2, <2>1, <2>3
<1>5. ~Check(d)
  <2>1. Len(b) = Len(d) /\ i \in 1..Len(b) /\ b[i] # d[i]
    BY <1>2, <1>3, <1>4
  <2>2. \A j \in 1..Len(b) : j # i => b[j] = d[j]
    BY <1>2, <1>4
  <2>3. Checksum(b) # Checksum(d)
    BY <1>4, <2>1, <2>2, OneByteIsNoticed
  <2>4. QED
    BY <1>2, <2>3 DEF Check
<1>6. ASSUME i # 2 PROVE SubSeq(d, 1, d[2]) = d /\ ~Matches(d)
  <2>1. d[2] = Len(d) /\ Len(d) # 0
    BY <1>2, <1>4, <1>6
  <2>2. SubSeq(d, 1, Len(d)) = d
    BY <1>4, SubSeqFull
  <2>3. QED
    BY <1>4, <1>5, <2>1, <2>2, MatchesIsCheck
<1>7. QED
  BY <1>4, <1>5, <1>6

(* A changed bus is that of the packet but for one byte, and what receive() *)
(* did it did with that.                                                    *)
DamageInv ==
  /\ damaged # 0 =>
       /\ pc \in {"sent", "over"} /\ Dispatched
       /\ damaged \in DOMAIN BytesOnBus(packet)
       /\ \E x \in Damage : bus = [BytesOnBus(packet) EXCEPT ![damaged] = Xor(@, x)]
  /\ damaged # 0 /\ outcome # Nothing("none") => outcome = Received(bus)

LEMMA DamageInvInit == Init => DamageInv
BY DEF Init, DamageInv

LEMMA DamageInvStep == HeaderInv /\ BusInv /\ DamageInv /\ [Next]_vars => DamageInv'
<1> SUFFICES ASSUME HeaderInv, BusInv, DamageInv, [Next]_vars PROVE DamageInv'
  OBVIOUS
<1> USE DEF DamageInv, settings
<1>1. CASE Set \/ Craft \/ SendString
      \/ \E recipient \in Recipient, payload \in Payload, sender \in {SenderId, ForcedId} :
           Dispatch(recipient, payload, sender)
  <2>1. pc \notin {"sent", "over"} /\ UNCHANGED damaged
    BY <1>1 DEF Set, Craft, SendString, Dispatch
  <2>2. damaged = 0
    BY <2>1 DEF BusInv
  <2>3. QED
    BY <2>1, <2>2
<1>2. ASSUME NEW i \in DOMAIN bus, NEW x \in Damage, ChangeByte(i, x)
      PROVE  DamageInv'
  <2>1. /\ pc = "sent" /\ damaged = 0 /\ damaged' = i /\ bus' = [bus EXCEPT ![i] = Xor(@, x)]
        /\ UNCHANGED <<pc, header, packet, outcome>>
    BY <1>2 DEF ChangeByte
  <2>2. bus = BytesOnBus(packet) /\ outcome = Nothing("none") /\ Dispatched
    BY <2>1 DEF BusInv, HeaderInv
  <2>3. Dispatched' /\ BytesOnBus(packet)' = BytesOnBus(packet)
    BY <2>1, <2>2 DEF Dispatched
  <2>4. Nothing("none")' = Nothing("none")
    OBVIOUS
  <2>5. QED
    BY <2>1, <2>2, <2>3, <2>4
<1>3. CASE Receive
  <2>1. /\ UNCHANGED <<header, packet, bus, damaged, receiver_shared>>
        /\ pc = "sent" /\ pc' = "over" /\ outcome' = Received(bus)
    BY <1>3 DEF Receive
  <2>2. Received(bus)' = Received(bus)
    BY <2>1 DEF Received, Refused, ReceiveRaises
  <2>3. Dispatched => Dispatched'
    BY <2>1 DEF Dispatched
  <2>4. BytesOnBus(packet)' = BytesOnBus(packet)
    BY <2>1
  <2>5. QED
    BY <2>1, <2>2, <2>3, <2>4
<1>4. CASE UNCHANGED vars
  <2>1. UNCHANGED <<bus, damaged, pc, outcome, packet, header, receiver_shared>>
    BY <1>4 DEF vars
  <2>2. Received(bus)' = Received(bus)
    BY <2>1 DEF Received, Refused, ReceiveRaises
  <2>3. QED
    BY <2>1, <2>2 DEF Dispatched
<1>5. QED
  BY <1>1, <1>2, <1>3, <1>4 DEF Next

(* Whatever byte is changed in whatever way, check() refuses the packet,    *)
(* and unless it is the length receive() neither delivers nor answers it.   *)
THEOREM DamageIsRefused == Spec => []DamageRefused
<1>1. DamageInv => DamageRefused
  <2> SUFFICES ASSUME DamageInv, damaged # 0
               PROVE  ~Check(bus) /\ (damaged # 2 => outcome.result # "ACK" /\ ~outcome.answered)
    BY DEF DamageRefused
  <2>1. PICK x \in Damage : bus = [BytesOnBus(packet) EXCEPT ![damaged] = Xor(@, x)]
    BY DEF DamageInv
  <2>2. /\ packet \in Packet /\ Short(packet)
        /\ damaged \in DOMAIN BytesOnBus(packet) /\ x \in Byte \ {0}
    BY PacketAssumption DEF DamageInv, Dispatched, Short
  <2>3. ~Check(bus) /\ (damaged # 2 => SubSeq(bus, 1, bus[2]) = bus /\ ~Matches(bus))
    BY <2>1, <2>2, ChangedPacket DEF Changed
  <2>4. ASSUME damaged # 2 PROVE outcome.result # "ACK" /\ ~outcome.answered
    <3>1. CASE outcome = Nothing("none")
      BY <3>1 DEF Nothing
    <3>2. CASE outcome # Nothing("none")
      <4>1. outcome = Received(bus)
        BY <3>2 DEF DamageInv
      <4>2. Refused(bus) \in {"BUSY", "FAIL", "NAK"}
        BY <2>3, <2>4 DEF Refused
      <4>3. outcome = Nothing(Refused(bus))
        BY <4>1, <4>2 DEF Received
      <4>4. QED
        BY <4>2, <4>3 DEF Nothing
    <3>3. QED
      BY <3>1, <3>2
  <2>5. QED
    BY <2>3, <2>4
<1>2. QED
  BY <1>1, HeaderInvInit, HeaderInvStep, BusInvInit, BusInvStep, DamageInvInit,
     DamageInvStep, PTL DEF Spec

(* The last byte of every packet on the bus is the remainder of the bytes   *)
(* before it, and so is what calc_crc_for_byte_array() makes of them.       *)
THEOREM ChecksumIsRemainderOnBus == Spec => []ChecksumIsRemainder
<1>1. HeaderInv /\ BusInv => ChecksumIsRemainder
  <2> SUFFICES ASSUME HeaderInv, BusInv, pc = "sent", damaged = 0
               PROVE  /\ Last(bus) = Remainder(Front(bus))
                      /\ CrcOfBytes(Front(bus)) = Remainder(Front(bus))
    BY DEF ChecksumIsRemainder
  <2>1. bus = BytesOnBus(packet) /\ Dispatched
    BY DEF HeaderInv, BusInv
  <2>2. PICK x \in Seq(Byte) : bus = Append(x, Checksum(x))
    BY <2>1, BytesType DEF Dispatched, Short, AppendChecksum
  <2>3. Front(bus) = x /\ Last(bus) = Checksum(x)
    BY <2>2, ChecksumType, FrontAndLast
  <2>4. QED
    BY <2>3, ChecksumIsTheRemainder
<1>2. QED
  BY <1>1, BusCorrect, PTL
=============================================================================
