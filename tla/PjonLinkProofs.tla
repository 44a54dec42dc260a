--------------------------- MODULE PjonLinkProofs ---------------------------
(***************************************************************************)
(* Theorems about PjonLink.                                                *)
(*                                                                         *)
(* For any devices, messages and faults: the types (receive() stays inside *)
(* its array), and that the packets which are kept are the most recent.    *)
(*                                                                         *)
(* For one sender, until the bus spoils a byte (OneSender says what else): *)
(* only messages are received, an acknowledgement means delivery, and      *)
(* nothing is received twice.  Each of the other devices may be the        *)
(* recipient of a message or a bystander of it, which takes every byte of  *)
(* it for the first of a packet and gives it up.  What a device has not    *)
(* read yet is a run of packets that it follows and of bytes that it       *)
(* skips, and that is the invariant.                                       *)
(*                                                                         *)
(* Not so where a packet is hidden in another one (MCPjonLink_hidden.cfg), *)
(* where two senders mix their bytes or the bus spoils one: whether        *)
(* receive() then takes what is left for a packet depends on the checksum  *)
(* of the very bytes.                                                      *)
(***************************************************************************)
EXTENDS PjonLink, Crc8Proofs, FiniteSetTheorems

Packets == {Received(bytes) : bytes \in Seq(Byte)}

(* What the proof needs to know of the types.                               *)
SeqType ==
  /\ inq \in [Device -> Seq(Byte)]
  /\ data \in [Device -> Seq(Byte)]
  /\ stored \in [Device -> Seq(Packets)]
  /\ taken \in [Device -> Seq(Packets)]
  /\ pc \in [Device -> {"update", "send", "response", "receive", "check", "deliver"}]
  /\ msg \in [Device -> Message \cup {NoMessage}]
  /\ sent \in [Device -> Nat]
  /\ \A d \in Device : pc[d] = "send" => msg[d] \in Message

StoreInv == SeqType /\ StoredAreNewest

-----------------------------------------------------------------------------
(* The bytes of a packet                                                    *)

PacketLength(m) == Len(m.payload) + IF HasBit(m.header, SENDER_INFO_BIT) THEN 5 ELSE 4

LEMMA MessageType ==
  ASSUME NEW m \in Message
  PROVE  /\ m.from \in Device /\ m.to \in Byte /\ m.header \in Byte /\ m.sender_id \in Byte
         /\ m.payload \in Seq(Byte) /\ Len(m.payload) \in Nat
         /\ PacketLength(m) \in Byte /\ PacketLength(m) >= 4
<1>1. m \in [from : Device, to : 0..254, header : 0..7, sender_id : Byte, payload : Seq(Byte)]
  BY LinkAssumption
<1>2. /\ m.from \in Device /\ m.to \in Byte /\ m.header \in Byte /\ m.sender_id \in Byte
      /\ m.payload \in Seq(Byte)
  BY <1>1 DEF Byte
<1>3. PICK n \in Nat : n = Len(m.payload)
  BY <1>2, LenProperties
<1>4. n < 251
  BY <1>3, LinkAssumption
<1>5. PICK k \in {4, 5} : PacketLength(m) = n + k
  BY <1>3 DEF PacketLength
<1>6. n + k \in 0..255 /\ n + k >= 4
  BY <1>4
<1>7. QED
  BY <1>2, <1>3, <1>5, <1>6 DEF Byte

(* Where the parts of a packet are, what is accepted of it and what the     *)
(* receiver function gets.                                                  *)
LEMMA PacketLayout ==
  ASSUME NEW m \in Message, NEW b, b = Packet[m]
  PROVE  /\ b \in Seq(Byte) /\ Len(b) = PacketLength(m)
         /\ b[1] = m.to /\ b[2] = PacketLength(m) /\ b[3] = m.header
         /\ Accepted(b) /\ Received(b) = Meaning(m)
<1> DEFINE c == m.payload
           n == PacketLength(m)
           k == n - Len(c)
           sender == IF HasBit(m.header, SENDER_INFO_BIT) THEN <<m.sender_id>> ELSE <<>>
           start == <<m.to, Len(c) + 4 + Len(sender), m.header>>
           head == start \o sender
           x == head \o c
<1>1. /\ c \in Seq(Byte) /\ Len(c) \in Nat /\ m.to \in Byte /\ m.header \in Byte
      /\ m.sender_id \in Byte /\ n \in Byte
  BY MessageType
<1>2. /\ sender \in Seq(Byte) /\ Len(sender) = k - 4 /\ k \in {4, 5}
      /\ (HasBit(m.header, SENDER_INFO_BIT) <=> k = 5) /\ (k = 5 => sender[1] = m.sender_id)
      /\ Len(c) + 4 + Len(sender) = n /\ n = Len(c) + k
  <2>1. CASE HasBit(m.header, SENDER_INFO_BIT)
    <3>1. sender = <<m.sender_id>> /\ n = Len(c) + 5
      BY <2>1 DEF PacketLength
    <3>2. k = 5
      BY <1>1, <3>1
    <3>3. QED
      BY <1>1, <2>1, <3>1, <3>2
  <2>2. CASE ~HasBit(m.header, SENDER_INFO_BIT)
    <3>1. sender = <<>> /\ n = Len(c) + 4
      BY <2>2 DEF PacketLength
    <3>2. k = 4
      BY <1>1, <3>1
    <3>3. QED
      BY <1>1, <2>2, <3>1, <3>2
  <2>3. QED
    BY <2>1, <2>2
<1> HIDE DEF sender, n, k, c
<1>3. /\ start \in Seq(Byte) /\ Len(start) = 3
      /\ start[1] = m.to /\ start[2] = n /\ start[3] = m.header
  <2>1. PICK l \in Byte : l = Len(c) + 4 + Len(sender) /\ l = n
    BY <1>1, <1>2
  <2>2. start = <<m.to, l, m.header>>
    BY <2>1
  <2>3. QED
    BY <1>1, <2>1, <2>2
<1> HIDE DEF start
<1>4. /\ head \in Seq(Byte) /\ Len(head) = k - 1
      /\ head[1] = m.to /\ head[2] = n /\ head[3] = m.header
      /\ k = 5 => head[4] = m.sender_id
  <2>1. /\ head \in Seq(Byte) /\ Len(head) = Len(start) + Len(sender)
        /\ \A i \in 1..Len(start) : head[i] = start[i]
        /\ \A i \in 1..Len(sender) : head[Len(start) + i] = sender[i]
    BY <1>2, <1>3, Concatenated
  <2>2. 1 \in 1..Len(start) /\ 2 \in 1..Len(start) /\ 3 \in 1..Len(start)
    BY <1>3
  <2>3. k = 5 => 1 \in 1..Len(sender) /\ Len(start) + 1 = 4
    BY <1>2, <1>3
  <2>4. Len(head) = k - 1
    BY <1>2, <1>3, <2>1
  <2>5. QED
    BY <1>2, <1>3, <2>1, <2>2, <2>3, <2>4
<1> HIDE DEF head
<1>5. /\ x \in Seq(Byte) /\ Len(x) = n - 1
      /\ x[1] = m.to /\ x[2] = n /\ x[3] = m.header
      /\ k = 5 => x[4] = m.sender_id
      /\ \A i \in 1..Len(c) : x[k - 1 + i] = c[i]
  <2>1. /\ x \in Seq(Byte) /\ Len(x) = Len(head) + Len(c)
        /\ \A i \in 1..Len(head) : x[i] = head[i]
        /\ \A i \in 1..Len(c) : x[Len(head) + i] = c[i]
    BY <1>1, <1>4, Concatenated
  <2>2. 1 \in 1..Len(head) /\ 2 \in 1..Len(head) /\ 3 \in 1..Len(head)
    BY <1>2, <1>4
  <2>3. k = 5 => 4 \in 1..Len(head)
    BY <1>2, <1>4
  <2>4. Len(x) = n - 1
    BY <1>1, <1>2, <1>4, <2>1
  <2>5. QED
    BY <1>4, <2>1, <2>2, <2>3, <2>4
<1>6. b = Append(x, Checksum(x))
  BY DEF Packet, AppendChecksum, x, head, start, sender, c
<1> HIDE DEF x
<1>7. /\ b \in Seq(Byte) /\ Len(b) = n /\ Checksum(x) \in Byte
      /\ \A i \in 1..n - 1 : b[i] = x[i]
  <2>1. Checksum(x) \in Byte
    BY <1>5, ChecksumType
  <2>2. /\ b \in Seq(Byte) /\ Len(b) = Len(x) + 1 /\ \A i \in 1..Len(x) : b[i] = x[i]
    BY <1>5, <1>6, <2>1, AppendProperties
  <2>3. Len(x) + 1 = n
    BY <1>1, <1>5 DEF Byte
  <2>4. QED
    BY <1>5, <2>1, <2>2, <2>3
<1>8. b[1] = m.to /\ b[2] = n /\ b[3] = m.header /\ (k = 5 => b[4] = m.sender_id)
  <2>1. 1 \in 1..n - 1 /\ 2 \in 1..n - 1 /\ 3 \in 1..n - 1 /\ (k = 5 => 4 \in 1..n - 1)
    BY <1>1, <1>2
  <2>2. QED
    BY <1>5, <1>7, <2>1
<1>9. Accepted(b)
  <2>1. Front(b) = x /\ Last(b) = Checksum(x)
    BY <1>5, <1>6, <1>7, FrontAndLast
  <2>2. QED
    BY <2>1 DEF Accepted
<1>10. SubSeq(b, k, n - 1) = c
  <2>1. ASSUME NEW i \in 1..Len(c) PROVE b[k - 1 + i] = c[i]
    <3>1. k - 1 + i \in 1..n - 1
      BY <1>1, <1>2
    <3>2. QED
      BY <1>5, <1>7, <3>1
  <2>2. k \in Nat \ {0} /\ n - 1 \in Nat /\ n - 1 <= Len(b) /\ Len(c) = (n - 1) - k + 1
    BY <1>1, <1>2, <1>7
  <2>3. QED
    BY <1>1, <1>7, <2>1, <2>2, SubSeqIs
<1>11. Received(b) = Meaning(m)
  <2>1. k = IF HasBit(b[3], SENDER_INFO_BIT) THEN 5 ELSE 4
    BY <1>2, <1>8
  <2>2. SubSeq(b, IF HasBit(b[3], SENDER_INFO_BIT) THEN 5 ELSE 4, Len(b) - 1) = c
    BY <1>7, <1>10, <2>1
  <2>3. QED
    BY <1>2, <1>8, <2>2 DEF Received, Meaning, c
<1>12. QED
  BY <1>7, <1>8, <1>9, <1>11 DEF n

-----------------------------------------------------------------------------
(* s is what is kept of h: the last n, or all.                              *)
IsNewest(s, h, n) ==
  /\ Len(s) = Min({Len(h), n})
  /\ \A i \in DOMAIN s : s[i] = h[i + Len(h) - Len(s)]

LEMMA MinOfTwo ==
  ASSUME NEW a \in Nat, NEW b \in Nat
  PROVE  Min({a, b}) = IF a <= b THEN a ELSE b
<1> DEFINE lowest(x) == x \in {a, b} /\ \A y \in {a, b} : x <= y
<1>1. lowest(IF a <= b THEN a ELSE b)
  OBVIOUS
<1>2. \A x, y : lowest(x) /\ lowest(y) => x = y
  OBVIOUS
<1>3. lowest(Min({a, b}))
  BY <1>1 DEF Min
<1>4. QED
  BY <1>1, <1>2, <1>3

(* The bytes that a device hears are of the bus.                            *)
LEMMA HeardType ==
  ASSUME SeqType, NEW d \in Device, NEW b \in Byte
  PROVE  Heard(d, b) \in [Device -> Seq(Byte)]
BY DEF Heard, SeqType

LEMMA TailType ==
  ASSUME SeqType, NEW d \in Device, inq[d] # <<>>
  PROVE  /\ [inq EXCEPT ![d] = Tail(@)] \in [Device -> Seq(Byte)]
         /\ Head(inq[d]) \in Byte
         /\ \A b \in Byte : [inq EXCEPT ![d] = <<b>> \o Tail(@)] \in [Device -> Seq(Byte)]
<1>1. Head(inq[d]) \in Byte /\ Tail(inq[d]) \in Seq(Byte)
  BY HeadTailProperties DEF SeqType
<1>2. \A b \in Byte : <<b>> \o Tail(inq[d]) \in Seq(Byte)
  BY <1>1, ConcatProperties
<1>3. QED
  BY <1>1, <1>2 DEF SeqType

LEMMA AppendAt ==
  ASSUME NEW S, NEW s \in Seq(S), NEW x \in S
  PROVE  /\ Append(s, x) \in Seq(S) /\ Len(Append(s, x)) = Len(s) + 1
         /\ Len(s) \in Nat /\ DOMAIN s = 1..Len(s)
         /\ DOMAIN Append(s, x) = 1..Len(s) + 1
         /\ Append(s, x)[Len(s) + 1] = x
         /\ \A i \in 1..Len(s) : Append(s, x)[i] = s[i]
BY AppendProperties, LenProperties

(* The last n of a sequence.                                                *)
LEMMA NewestAt ==
  ASSUME NEW S, NEW s \in Seq(S), NEW n \in Nat \ {0}, Len(s) > n
  PROVE  /\ Newest(s, n) \in Seq(S) /\ Len(Newest(s, n)) = n
         /\ DOMAIN Newest(s, n) = 1..n
         /\ \A i \in 1..n : Newest(s, n)[i] = s[i + Len(s) - n]
<1>1. PICK p \in Nat : p = Len(s) /\ DOMAIN s = 1..p /\ \A i \in 1..p : s[i] \in S
  BY LenProperties, ElementOfSeq
<1>2. /\ p - n + 1 \in Int /\ p \in Int /\ p - n + 1 <= p /\ p - (p - n + 1) + 1 = n
      /\ p - n + 1 >= 1
  BY <1>1
<1>3. \A i \in p - n + 1 .. p : s[i] \in S
  BY <1>1, <1>2
<1>4. /\ SubSeq(s, p - n + 1, p) \in Seq(S) /\ Len(SubSeq(s, p - n + 1, p)) = n
      /\ \A i \in 1..n : SubSeq(s, p - n + 1, p)[i] = s[(p - n + 1) + i - 1]
  BY <1>2, <1>3, SubSeqProperties
<1>5. Newest(s, n) = SubSeq(s, p - n + 1, p)
  BY <1>1 DEF Newest
<1>6. \A i \in 1..n : (p - n + 1) + i - 1 = i + p - n
  BY <1>1
<1>7. QED
  BY <1>1, <1>4, <1>5, <1>6, LenProperties

(* One packet more, and the newest n of what is kept.                       *)
LEMMA NewestKept ==
  ASSUME NEW S, NEW s \in Seq(S), NEW h \in Seq(S), NEW n \in Nat \ {0}, NEW x \in S,
         IsNewest(s, h, n)
  PROVE  /\ Newest(Append(s, x), n) \in Seq(S) /\ Append(h, x) \in Seq(S)
         /\ IsNewest(Newest(Append(s, x), n), Append(h, x), n)
<1> SUFFICES ASSUME NEW a, a = Append(s, x), NEW k, k = Newest(a, n), NEW w, w = Append(h, x)
             PROVE  /\ k \in Seq(S) /\ w \in Seq(S)
                    /\ Len(k) = Min({Len(w), n})
                    /\ \A i \in DOMAIN k : k[i] = w[i + Len(w) - Len(k)]
  BY DEF IsNewest
<1>0. /\ Len(s) = Min({Len(h), n})
      /\ \A i \in DOMAIN s : s[i] = h[i + Len(h) - Len(s)]
  BY DEF IsNewest
<1>1. PICK p \in Nat, q \in Nat : /\ p = Len(s) /\ DOMAIN s = 1..p
                                  /\ q = Len(h) /\ DOMAIN h = 1..q
  BY LenProperties
<1>3. /\ a \in Seq(S) /\ Len(a) = p + 1 /\ DOMAIN a = 1..p + 1 /\ a[p + 1] = x
      /\ \A i \in 1..p : a[i] = s[i]
  <2>1. /\ Append(s, x) \in Seq(S) /\ Len(Append(s, x)) = p + 1
        /\ DOMAIN Append(s, x) = 1..p + 1 /\ Append(s, x)[p + 1] = x
        /\ \A i \in 1..p : Append(s, x)[i] = s[i]
    <3>1. Append(s, x) \in Seq(S) /\ Len(Append(s, x)) = Len(s) + 1
      BY ONLY s \in Seq(S), x \in S, AppendAt
    <3>2. DOMAIN Append(s, x) = 1..Len(s) + 1 /\ Append(s, x)[Len(s) + 1] = x
      BY ONLY s \in Seq(S), x \in S, AppendAt
    <3>3. \A i \in 1..Len(s) : Append(s, x)[i] = s[i]
      BY ONLY s \in Seq(S), x \in S, AppendAt
    <3>4. QED
      BY ONLY <1>1, <3>1, <3>2, <3>3
  <2>2. QED
    BY <2>1, Zenon
<1>4. /\ w \in Seq(S) /\ Len(w) = q + 1 /\ DOMAIN w = 1..q + 1 /\ w[q + 1] = x
      /\ \A i \in 1..q : w[i] = h[i]
  BY <1>1, AppendAt
<1>5. /\ p = IF q <= n THEN q ELSE n
      /\ Min({q + 1, n}) = IF q + 1 <= n THEN q + 1 ELSE n
  <2>1. Min({q, n}) = IF q <= n THEN q ELSE n
    BY MinOfTwo
  <2>2. Min({q + 1, n}) = IF q + 1 <= n THEN q + 1 ELSE n
    BY MinOfTwo
  <2>3. p = Min({q, n})
    BY <1>0, <1>1, Zenon
  <2>4. QED
    BY <2>1, <2>2, <2>3
<1>6. ASSUME NEW i \in 1..p + 1
      PROVE  a[i] = w[i + q - p]
  <2>1. CASE i \in 1..p
    <3>1. i + q - p \in 1..q
      BY <1>5, <2>1
    <3>2. s[i] = h[i + q - p]
      BY <1>0, <1>1, <2>1
    <3>3. QED
      BY <1>3, <1>4, <2>1, <3>1, <3>2
  <2>2. CASE i = p + 1
    <3>1. i + q - p = q + 1
      BY <2>2
    <3>2. QED
      BY <1>3, <1>4, <2>2, <3>1
  <2>3. i \in 1..p \/ i = p + 1
    OBVIOUS
  <2>4. QED
    BY <2>1, <2>2, <2>3
<1>7. CASE p + 1 <= n
  <2>1. k = a /\ p = q
    BY <1>3, <1>5, <1>7 DEF Newest
  <2>2. Len(k) = p + 1 /\ Len(w) = p + 1 /\ DOMAIN k = 1..p + 1
    BY <1>3, <1>4, <2>1
  <2>3. Min({Len(w), n}) = p + 1
    BY <1>4, <1>5, <1>7, <2>1
  <2>4. ASSUME NEW i \in DOMAIN k
        PROVE  k[i] = w[i + Len(w) - Len(k)]
    <3>1. i \in 1..p + 1 /\ i + q - p = i + Len(w) - Len(k)
      BY <2>1, <2>2
    <3>2. QED
      BY <1>6, <2>1, <3>1
  <2>5. QED
    BY <1>3, <1>4, <2>1, <2>2, <2>3, <2>4
<1>8. CASE p + 1 > n
  <2>1. /\ k \in Seq(S) /\ Len(k) = n /\ DOMAIN k = 1..n
        /\ \A i \in 1..n : k[i] = a[i + (p + 1) - n]
    <3>1. a \in Seq(S) /\ Len(a) > n
      BY <1>3, <1>8
    <3>2. /\ Newest(a, n) \in Seq(S) /\ Len(Newest(a, n)) = n
          /\ DOMAIN Newest(a, n) = 1..n
          /\ \A i \in 1..n : Newest(a, n)[i] = a[i + Len(a) - n]
      BY <3>1, NewestAt
    <3>3. QED
      BY <1>3, <3>2
  <2>2. p = n /\ q >= n
    BY <1>5, <1>8
  <2>3. ASSUME NEW i \in 1..n
        PROVE  k[i] = w[i + (q + 1) - n]
    <3>1. i + 1 \in 1..p + 1 /\ i + (p + 1) - n = i + 1 /\ (i + 1) + q - p = i + (q + 1) - n
      BY <2>2
    <3>2. QED
      BY <1>6, <2>1, <3>1
  <2>4. Min({Len(w), n}) = n
    BY <1>4, <1>5, <2>2
  <2>5. QED
    BY <1>4, <2>1, <2>3, <2>4
<1>9. p + 1 <= n \/ p + 1 > n
  OBVIOUS
<1>10. QED
  BY <1>7, <1>8, <1>9

-----------------------------------------------------------------------------
LEMMA StoreInit == Init => StoreInv
<1> SUFFICES ASSUME Init PROVE StoreInv
  OBVIOUS
<1>1. SeqType
  BY DEF Init, SeqType
<1>2. ASSUME NEW d \in Device
      PROVE  /\ Len(stored[d]) = Min({Len(taken[d]), ReceivedBufferLength})
             /\ \A i \in DOMAIN stored[d] :
                  stored[d][i] = taken[d][i + Len(taken[d]) - Len(stored[d])]
  <2>1. stored[d] = <<>> /\ taken[d] = <<>>
    BY DEF Init
  <2>2. Min({0, ReceivedBufferLength}) = 0
    BY LinkAssumption, MinOfTwo
  <2>3. QED
    BY <2>1, <2>2
<1>3. QED
  BY <1>1, <1>2 DEF StoreInv, StoredAreNewest

(* Only Deliver changes what is stored.                                     *)
LEMMA StoreUnchanged ==
  ASSUME StoredAreNewest, UNCHANGED <<stored, taken>>
  PROVE  StoredAreNewest'
BY DEF StoredAreNewest

(* What send_string() leaves when it returns.                               *)
LEMMA SendReturnsType ==
  ASSUME SeqType, NEW d \in Device, NEW ok, SendReturns(d, ok),
         inq' \in [Device -> Seq(Byte)]
  PROVE  SeqType' /\ UNCHANGED <<stored, taken>>
BY DEF SeqType, SendReturns

LEMMA DropType ==
  ASSUME SeqType, NEW d \in Device, Drop(d)
  PROVE  /\ data' \in [Device -> Seq(Byte)]
         /\ pc' \in [Device -> {"update", "send", "response", "receive", "check", "deliver"}]
         /\ \A e \in Device : pc'[e] = "send" => pc[e] = "send"
BY DEF SeqType, Drop

-----------------------------------------------------------------------------
LEMMA SendSteps ==
  ASSUME SeqType, NEW d \in Device,
         \/ \E m \in Message : StartSend(d, m)
         \/ SendByte(d) \/ SendDone(d) \/ ReceiveResponse(d) \/ ResponseTimeout(d)
  PROVE  SeqType' /\ UNCHANGED <<stored, taken>>
<1>1. CASE \E m \in Message : StartSend(d, m)
  BY <1>1 DEF StartSend, SeqType
<1>2. CASE SendByte(d)
  <2>1. PICK p \in Seq(Byte) : p = Packet[msg[d]]
    BY <1>2, PacketLayout DEF SendByte, SeqType
  <2>2. Packet[msg[d]][sent[d] + 1] \in Byte
    <3>1. Len(p) \in Nat /\ sent[d] \in Nat /\ sent[d] < Len(p)
      BY <1>2, <2>1, LenProperties DEF SendByte, SeqType
    <3>2. sent[d] + 1 \in 1..Len(p)
      BY <3>1
    <3>3. QED
      BY <2>1, <3>2, ElementOfSeq
  <2>3. inq' \in [Device -> Seq(Byte)]
    BY <1>2, <2>2, HeardType DEF SendByte
  <2>4. QED
    BY <1>2, <2>3 DEF SendByte, SeqType
<1>3. CASE SendDone(d)
  <2>1. CASE WantsAck(msg[d])
    BY <1>3, <2>1 DEF SendDone, SeqType
  <2>2. CASE ~WantsAck(msg[d])
    BY <1>3, <2>2, SendReturnsType DEF SendDone, SeqType
  <2>3. QED
    BY <2>1, <2>2
<1>4. CASE ReceiveResponse(d)
  <2>1. inq' \in [Device -> Seq(Byte)]
    BY <1>4, TailType DEF ReceiveResponse
  <2>2. SendReturns(d, Head(inq[d]) = ACK)
    BY <1>4 DEF ReceiveResponse
  <2>3. QED
    BY <2>1, <2>2, SendReturnsType
<1>5. CASE ResponseTimeout(d)
  <2>1. inq' \in [Device -> Seq(Byte)] /\ SendReturns(d, FALSE)
    BY <1>5 DEF ResponseTimeout, SeqType
  <2>2. QED
    BY <2>1, SendReturnsType
<1>6. QED
  BY <1>1, <1>2, <1>3, <1>4, <1>5

LEMMA ReceiveSteps ==
  ASSUME SeqType, NEW d \in Device,
         ReceiveByte(d) \/ ReceiveTimeout(d) \/ CheckPacket(d)
  PROVE  SeqType' /\ UNCHANGED <<stored, taken>>
<1>1. CASE ReceiveByte(d)
  <2>1. inq' \in [Device -> Seq(Byte)] /\ Head(inq[d]) \in Byte
    BY <1>1, TailType DEF ReceiveByte
  <2>2. Append(data[d], Head(inq[d])) \in Seq(Byte)
    BY <2>1, AppendProperties DEF SeqType
  <2>3. data' \in [Device -> Seq(Byte)]
    <3>1. \/ data' = [data EXCEPT ![d] = <<>>]
          \/ data' = [data EXCEPT ![d] = Append(data[d], Head(inq[d]))]
      BY <1>1 DEF ReceiveByte
    <3>2. <<>> \in Seq(Byte)
      OBVIOUS
    <3>3. PICK v \in Seq(Byte) : data' = [data EXCEPT ![d] = v]
      BY <2>2, <3>1, <3>2, Zenon
    <3>4. QED
      BY <3>3 DEF SeqType
  <2>4. /\ pc' \in [Device -> {"update", "send", "response", "receive", "check", "deliver"}]
        /\ \A e \in Device : pc'[e] = "send" => pc[e] = "send"
    BY <1>1 DEF ReceiveByte, SeqType
  <2>5. UNCHANGED <<msg, sent, stored, taken>>
    BY <1>1 DEF ReceiveByte
  <2>6. QED
    BY <2>1, <2>3, <2>4, <2>5 DEF SeqType
<1>2. CASE ReceiveTimeout(d)
  BY <1>2 DEF ReceiveTimeout, SeqType
<1>3. CASE CheckPacket(d)
  <2>1. Heard(d, ACK) \in [Device -> Seq(Byte)]
    <3>1. ACK \in Byte
      BY DEF ACK, Byte
    <3>2. QED
      BY <3>1, HeardType
  <2>2. inq' \in [Device -> Seq(Byte)]
    BY <1>3, <2>1 DEF CheckPacket, Answered, SeqType
  <2>3. /\ data' \in [Device -> Seq(Byte)]
        /\ pc' \in [Device -> {"update", "send", "response", "receive", "check", "deliver"}]
        /\ \A e \in Device : pc'[e] = "send" => pc[e] = "send"
    <3>1. CASE Accepted(data[d])
      BY <1>3, <3>1 DEF CheckPacket, SeqType
    <3>2. CASE ~Accepted(data[d])
      BY <1>3, <3>2, DropType DEF CheckPacket
    <3>3. QED
      BY <3>1, <3>2
  <2>4. UNCHANGED <<msg, sent, stored, taken>>
    BY <1>3 DEF CheckPacket
  <2>5. QED
    BY <2>2, <2>3, <2>4 DEF SeqType
<1>4. QED
  BY <1>1, <1>2, <1>3

LEMMA FaultSteps ==
  ASSUME SeqType, NEW d \in Device, LoseByte(d) \/ ChangeByte(d)
  PROVE  SeqType' /\ UNCHANGED <<stored, taken>>
<1>1. CASE LoseByte(d)
  <2>1. inq' \in [Device -> Seq(Byte)]
    BY <1>1, TailType DEF LoseByte
  <2>2. QED
    BY <1>1, <2>1 DEF LoseByte, SeqType
<1>2. CASE ChangeByte(d)
  <2>1. PICK b \in {0, ACK, 255} \cup Device : inq' = [inq EXCEPT ![d] = <<b>> \o Tail(@)]
    BY <1>2 DEF ChangeByte
  <2>2. b \in Byte /\ inq[d] # <<>>
    BY <1>2, <2>1, LinkAssumption DEF ChangeByte, ACK, Byte
  <2>3. inq' \in [Device -> Seq(Byte)]
    BY <2>1, <2>2, TailType
  <2>4. QED
    BY <1>2, <2>3 DEF ChangeByte, SeqType
<1>3. QED
  BY <1>1, <1>2

LEMMA DeliverStep ==
  ASSUME StoreInv, NEW d \in Device, Deliver(d)
  PROVE  StoreInv'
<1> DEFINE x == Received(data[d])
           k == Newest(Append(stored[d], x), ReceivedBufferLength)
           w == Append(taken[d], x)
<1>1. x \in Packets
  BY DEF StoreInv, SeqType, Packets
<1>2. /\ stored[d] \in Seq(Packets) /\ taken[d] \in Seq(Packets)
      /\ IsNewest(stored[d], taken[d], ReceivedBufferLength)
  BY DEF StoreInv, SeqType, StoredAreNewest, IsNewest
<1>3. ReceivedBufferLength \in Nat \ {0}
  BY LinkAssumption
<1>4. k \in Seq(Packets) /\ w \in Seq(Packets) /\ IsNewest(k, w, ReceivedBufferLength)
  <2> HIDE DEF x
  <2>1. QED
    BY <1>1, <1>2, <1>3, NewestKept
<1>5. stored' = [stored EXCEPT ![d] = k] /\ taken' = [taken EXCEPT ![d] = w]
  BY DEF Deliver
<1> HIDE DEF x, k, w
<1>6. SeqType'
  BY <1>4, <1>5 DEF StoreInv, SeqType, Deliver
<1>7. ASSUME NEW e \in Device, NEW s, s = stored'[e], NEW t, t = taken'[e]
      PROVE  IsNewest(s, t, ReceivedBufferLength)
  <2>1. CASE e = d
    <3>1. s = k /\ t = w
      BY <1>5, <1>7, <2>1 DEF StoreInv, SeqType
    <3>2. QED
      BY <1>4, <3>1
  <2>2. CASE e # d
    <3>1. s = stored[e] /\ t = taken[e]
      BY <1>5, <1>7, <2>2 DEF StoreInv, SeqType
    <3>2. QED
      BY <3>1 DEF StoreInv, StoredAreNewest, IsNewest
  <2>3. QED
    BY <2>1, <2>2
<1>8. StoredAreNewest'
  BY <1>7 DEF StoredAreNewest, IsNewest
<1>9. QED
  BY <1>6, <1>8 DEF StoreInv

LEMMA StoreStep == StoreInv /\ [Next]_vars => StoreInv'
<1> SUFFICES ASSUME StoreInv, [Next]_vars PROVE StoreInv'
  OBVIOUS
<1>1. SeqType /\ StoredAreNewest
  BY DEF StoreInv
<1>2. ASSUME NEW d \in Device, IoStep(d) PROVE StoreInv'
  <2>1. CASE Deliver(d)
    BY <2>1, DeliverStep
  <2>2. CASE ~Deliver(d)
    <3>1. SeqType' /\ UNCHANGED <<stored, taken>>
      BY <1>1, <1>2, <2>2, SendSteps, ReceiveSteps DEF IoStep
    <3>2. QED
      BY <1>1, <3>1, StoreUnchanged DEF StoreInv
  <2>3. QED
    BY <2>1, <2>2
<1>3. ASSUME NEW d \in Device, LoseByte(d) \/ ChangeByte(d) PROVE StoreInv'
  BY <1>1, <1>3, FaultSteps, StoreUnchanged DEF StoreInv
<1>4. CASE UNCHANGED vars
  BY <1>1, <1>4, StoreUnchanged DEF StoreInv, SeqType, vars
<1>5. QED
  BY <1>2, <1>3, <1>4 DEF Next

(* StoredAreNewest always: what a receiver keeps of the packets it accepted *)
(* is the latest ReceivedBufferLength of them, or all, in order of arrival, *)
(* whatever comes over the bus (get_packet_info()'s callers in receive()).  *)
THEOREM NewestAreStored == Spec => []StoredAreNewest
<1>1. StoreInv => StoredAreNewest
  BY DEF StoreInv
<1>2. QED
  BY StoreInit, StoreStep, <1>1, PTL DEF Spec

-----------------------------------------------------------------------------
(* The types, and what is read                                              *)

(* bytes is what receive() has read of a packet for d: it stops at the      *)
(* length, and the rest of the IO thread finds the array empty.             *)
Reading(d, where, bytes) ==
  /\ Len(bytes) > 0 => bytes[1] \in {d, BROADCAST}
  /\ Len(bytes) > 1 => bytes[2] \in 5 .. PACKET_MAX_LENGTH - 1
  /\ Len(bytes) > 2 => Len(bytes) <= bytes[2]
  /\ where \in {"update", "send", "response"} => bytes = <<>>
  /\ where = "receive" => ~Complete(bytes)
  /\ where \in {"check", "deliver"} => Complete(bytes)

ReadingInv == \A d \in Device : Reading(d, pc[d], data[d])

CountsInv ==
  /\ \A d \in Device : pc[d] = "response" => msg[d] \in Message
  /\ sends \in [Message -> 0 .. MaxSends]
  /\ acked \subseteq Message
  /\ faults \in 0 .. MaxFaults

TypeInv == SeqType /\ ReadingInv /\ CountsInv

LEMMA ReadingEmpty ==
  ASSUME NEW d, NEW where \in {"update", "send", "response", "receive"}
  PROVE  Reading(d, where, <<>>)
BY DEF Reading, Complete

(* One byte more.                                                           *)
LEMMA ReadingOneMore ==
  ASSUME NEW d \in Device, NEW where, Reading(d, where, data[d]),
         NEW s \in Seq(Byte), s = data[d], where \in {"update", "receive"},
         NEW b \in Byte, NEW a, a = Append(s, b), ~GivenUp(d, a)
  PROVE  Reading(d, IF Complete(a) THEN "check" ELSE "receive", a)
<1>1. PICK n \in Nat : n = Len(s)
  BY LenProperties
<1>2. /\ Len(a) = n + 1 /\ a[n + 1] = b /\ \A i \in 1..n : a[i] = s[i]
  BY <1>1, AppendProperties
<1>0. PACKET_MAX_LENGTH \in Nat
  BY LinkAssumption
<1>3. /\ n > 0 => s[1] \in {d, BROADCAST}
      /\ n > 1 => s[2] \in 5 .. PACKET_MAX_LENGTH - 1
      /\ n > 2 => n <= s[2]
      /\ ~(n > 2 /\ n = s[2])
  BY <1>1 DEF Reading, Complete
<1>4. /\ n > 0 => a[1] = s[1]
      /\ n > 1 => a[2] = s[2]
  BY <1>2
<1>5. /\ n = 0 => a[1] \in {d, BROADCAST}
      /\ n = 1 => a[2] > 4 /\ a[2] < PACKET_MAX_LENGTH
  BY <1>2 DEF GivenUp
<1>6. n + 1 > 0 => a[1] \in {d, BROADCAST}
  BY <1>3, <1>4, <1>5
<1>7. n + 1 > 1 => a[2] \in 5 .. PACKET_MAX_LENGTH - 1
  <2>1. CASE n = 1
    <3>1. a[2] = b
      BY <1>2, <2>1
    <3>2. b \in Int /\ b > 4 /\ b < PACKET_MAX_LENGTH
      BY <1>5, <2>1, <3>1 DEF Byte
    <3>3. b \in 5 .. PACKET_MAX_LENGTH - 1
      BY <1>0, <3>2
    <3>4. QED
      BY <3>1, <3>3
  <2>2. CASE n > 1
    BY ONLY <1>3, <1>4, <2>2
  <2>3. QED
    BY ONLY n \in Nat, <2>1, <2>2
<1>8. n + 1 > 2 => n + 1 <= a[2]
  <2>1. CASE n > 2
    <3>1. PICK k \in Int : k = s[2]
      BY <1>0, <1>3, <2>1
    <3>2. n <= k /\ n # k
      BY <1>3, <2>1, <3>1
    <3>3. n + 1 <= k
      BY ONLY <3>1, <3>2
    <3>4. QED
      BY ONLY <1>4, <2>1, <3>1, <3>3
  <2>2. CASE n = 2
    <3>1. PICK k \in 5 .. PACKET_MAX_LENGTH - 1 : k = a[2]
      BY ONLY <1>7, <2>2
    <3>2. n + 1 <= k
      BY ONLY <1>0, <2>2, <3>1
    <3>3. QED
      BY ONLY <3>1, <3>2
  <2>3. QED
    BY ONLY n \in Nat, <2>1, <2>2
<1>9. QED
  BY <1>2, <1>6, <1>7, <1>8 DEF Reading

LEMMA TypeInit == Init => TypeInv
<1> SUFFICES ASSUME Init PROVE TypeInv
  OBVIOUS
<1>1. SeqType
  BY DEF Init, SeqType
<1>2. ReadingInv
  BY ReadingEmpty DEF Init, ReadingInv
<1>3. CountsInv
  BY LinkAssumption DEF Init, CountsInv
<1>4. QED
  BY <1>1, <1>2, <1>3 DEF TypeInv

(* What a step may do to the IO thread and to what receive() has read.      *)
LEMMA ReadingKept ==
  ASSUME TypeInv, SeqType', NEW d \in Device,
         NEW w, NEW v, pc' = [pc EXCEPT ![d] = w], data' = [data EXCEPT ![d] = v],
         Reading(d, w, v)
  PROVE  ReadingInv'
BY DEF TypeInv, SeqType, ReadingInv

LEMMA TypeSend ==
  ASSUME TypeInv, SeqType', NEW d \in Device,
         \/ \E m \in Message : StartSend(d, m)
         \/ SendByte(d) \/ SendDone(d) \/ ReceiveResponse(d) \/ ResponseTimeout(d)
  PROVE  ReadingInv' /\ CountsInv'
<1>0. /\ pc[d] \in {"update", "send", "response"} => data[d] = <<>>
      /\ data = [data EXCEPT ![d] = data[d]]
  BY DEF TypeInv, ReadingInv, Reading, SeqType
<1>1. ASSUME NEW ok, SendReturns(d, ok), pc[d] \in {"send", "response"}
      PROVE  ReadingInv' /\ CountsInv'
  <2>1. ReadingInv'
    BY <1>0, <1>1, ReadingEmpty, ReadingKept DEF SendReturns
  <2>2. msg[d] \in Message
    BY <1>1 DEF TypeInv, SeqType, CountsInv
  <2>3. CountsInv'
    BY <1>1, <2>2 DEF TypeInv, SeqType, CountsInv, SendReturns
  <2>4. QED
    BY <2>1, <2>3
<1>2. ASSUME NEW m \in Message, StartSend(d, m) PROVE ReadingInv' /\ CountsInv'
  <2>1. ReadingInv'
    BY <1>0, <1>2, ReadingEmpty, ReadingKept DEF StartSend
  <2>2. sends' \in [Message -> 0 .. MaxSends]
    BY <1>2, LinkAssumption DEF TypeInv, CountsInv, StartSend
  <2>3. \A e \in Device : pc'[e] = "response" => msg'[e] \in Message
    BY <1>2 DEF TypeInv, SeqType, CountsInv, StartSend
  <2>4. QED
    BY <1>2, <2>1, <2>2, <2>3 DEF TypeInv, CountsInv, StartSend
<1>3. CASE SendByte(d)
  BY <1>3 DEF TypeInv, ReadingInv, CountsInv, SendByte
<1>4. CASE SendDone(d)
  <2>1. CASE WantsAck(msg[d])
    <3>1. ReadingInv'
      BY <1>0, <1>4, <2>1, ReadingEmpty, ReadingKept DEF SendDone
    <3>2. \A e \in Device : pc'[e] = "response" => msg'[e] \in Message
      BY <1>4, <2>1 DEF TypeInv, SeqType, CountsInv, SendDone
    <3>3. QED
      BY <1>4, <2>1, <3>1, <3>2 DEF TypeInv, CountsInv, SendDone
  <2>2. CASE ~WantsAck(msg[d])
    BY <1>1, <1>4, <2>2 DEF SendDone
  <2>3. QED
    BY <2>1, <2>2
<1>5. CASE ReceiveResponse(d)
  BY <1>1, <1>5 DEF ReceiveResponse
<1>6. CASE ResponseTimeout(d)
  BY <1>1, <1>6 DEF ResponseTimeout
<1>7. QED
  BY <1>2, <1>3, <1>4, <1>5, <1>6

LEMMA TypeReceive ==
  ASSUME TypeInv, SeqType', NEW d \in Device,
         ReceiveByte(d) \/ ReceiveTimeout(d) \/ CheckPacket(d) \/ Deliver(d)
  PROVE  ReadingInv' /\ CountsInv'
<1>0. /\ Reading(d, pc[d], data[d]) /\ data[d] \in Seq(Byte)
      /\ data = [data EXCEPT ![d] = data[d]]
  BY DEF TypeInv, ReadingInv, SeqType
<1>1. ReadingInv'
  <2>1. CASE ReceiveByte(d)
    <3> DEFINE a == Append(data[d], Head(inq[d]))
    <3>1. Head(inq[d]) \in Byte
      BY <2>1, TailType DEF TypeInv, ReceiveByte
    <3>2. CASE GivenUp(d, a)
      BY <2>1, <3>2, ReadingEmpty, ReadingKept DEF ReceiveByte
    <3>3. CASE ~GivenUp(d, a)
      <4>1. Reading(d, IF Complete(a) THEN "check" ELSE "receive", a)
        BY <1>0, <2>1, <3>1, <3>3, ReadingOneMore DEF ReceiveByte
      <4>2. /\ pc' = [pc EXCEPT ![d] = IF Complete(a) THEN "check" ELSE "receive"]
            /\ data' = [data EXCEPT ![d] = a]
        BY <2>1, <3>3 DEF ReceiveByte
      <4> HIDE DEF a
      <4>3. QED
        BY <4>1, <4>2, ReadingKept
    <3>4. QED
      BY <3>2, <3>3
  <2>2. CASE ReceiveTimeout(d)
    BY <2>2, ReadingEmpty, ReadingKept DEF ReceiveTimeout
  <2>3. CASE CheckPacket(d)
    <3>1. CASE Accepted(data[d])
      <4>1. Reading(d, "deliver", data[d])
        BY <1>0, <2>3 DEF CheckPacket, Reading
      <4>2. pc' = [pc EXCEPT ![d] = "deliver"] /\ data' = [data EXCEPT ![d] = data[d]]
        BY <1>0, <2>3, <3>1 DEF CheckPacket
      <4>3. QED
        BY <4>1, <4>2, ReadingKept
    <3>2. CASE ~Accepted(data[d])
      BY <2>3, <3>2, ReadingEmpty, ReadingKept DEF CheckPacket, Drop
    <3>3. QED
      BY <3>1, <3>2
  <2>4. CASE Deliver(d)
    BY <2>4, ReadingEmpty, ReadingKept DEF Deliver
  <2>5. QED
    BY <2>1, <2>2, <2>3, <2>4
<1>2. /\ UNCHANGED <<msg, sends, acked, faults>>
      /\ \A e \in Device : pc'[e] = "response" => pc[e] = "response"
  <2>1. CASE ReceiveByte(d)
    BY <2>1 DEF TypeInv, SeqType, ReceiveByte
  <2>2. CASE ReceiveTimeout(d)
    BY <2>2 DEF TypeInv, SeqType, ReceiveTimeout
  <2>3. CASE CheckPacket(d)
    BY <2>3 DEF TypeInv, SeqType, CheckPacket, Drop
  <2>4. CASE Deliver(d)
    BY <2>4 DEF TypeInv, SeqType, Deliver
  <2>5. QED
    BY <2>1, <2>2, <2>3, <2>4
<1>3. CountsInv'
  BY <1>2 DEF TypeInv, CountsInv
<1>4. QED
  BY <1>1, <1>3

LEMMA TypeFault ==
  ASSUME TypeInv, NEW d \in Device, LoseByte(d) \/ ChangeByte(d)
  PROVE  ReadingInv' /\ CountsInv'
<1>1. /\ UNCHANGED <<pc, msg, data, sends, acked>>
      /\ faults < MaxFaults /\ faults' = faults + 1
  BY DEF LoseByte, ChangeByte
<1>2. faults' \in 0 .. MaxFaults
  BY <1>1, LinkAssumption DEF TypeInv, CountsInv
<1>3. QED
  BY <1>1, <1>2 DEF TypeInv, ReadingInv, CountsInv

LEMMA TypeStep ==
  ASSUME TypeInv, StoreInv, [Next]_vars
  PROVE  TypeInv'
<1>1. SeqType'
  BY StoreStep DEF StoreInv
<1>2. ASSUME NEW d \in Device, IoStep(d) PROVE ReadingInv' /\ CountsInv'
  BY <1>1, <1>2, TypeSend, TypeReceive DEF IoStep
<1>3. ASSUME NEW d \in Device, LoseByte(d) \/ ChangeByte(d) PROVE ReadingInv' /\ CountsInv'
  BY <1>3, TypeFault
<1>4. ASSUME UNCHANGED vars PROVE ReadingInv' /\ CountsInv'
  <2>1. UNCHANGED <<pc, msg, data, sends, acked, faults>>
    BY <1>4 DEF vars
  <2>2. QED
    BY <2>1 DEF TypeInv, ReadingInv, CountsInv
<1>5. QED
  BY <1>1, <1>2, <1>3, <1>4 DEF TypeInv, Next

(* TypeOK always, whatever comes over the bus: receive() never keeps more   *)
(* bytes than the length it read, which is less than PACKET_MAX_LENGTH, the *)
(* size of its array.                                                       *)
THEOREM TypeCorrect == Spec => []TypeOK
<1>1. Init => TypeInv /\ StoreInv
  BY TypeInit, StoreInit
<1>2. TypeInv /\ StoreInv /\ [Next]_vars => (TypeInv /\ StoreInv)'
  BY TypeStep, StoreStep
<1>3. TypeInv => TypeOK
  BY DEF TypeInv, SeqType, ReadingInv, Reading, CountsInv, TypeOK
<1>4. QED
  BY <1>1, <1>2, <1>3, PTL DEF Spec

-----------------------------------------------------------------------------
(* One sender on a clean bus: a run of packets and of bytes to skip         *)

(* A unit of what r hears: a packet that it follows, or a byte that it      *)
(* skips (NoMessage).                                                       *)
Unit == Message \cup {NoMessage}

Size(u) == IF u = NoMessage THEN 1 ELSE PacketLength(u)

PacketAt(t, o, m) == \A i \in 1 .. PacketLength(m) : t[o + i] = Packet[m][i]

UnitAt(r, t, o, u) ==
  IF u = NoMessage THEN t[o + 1] \notin {r, BROADCAST}
                   ELSE Follows(r, u) /\ PacketAt(t, o, u)

(* The first e bytes of t are the units at: at[o] begins after byte o.      *)
Starts(at, e) ==
  /\ DOMAIN at \subseteq Nat /\ e \in Nat
  /\ e > 0 => 0 \in DOMAIN at
  /\ \A o \in DOMAIN at :
       /\ at[o] \in Unit /\ o < e
       /\ o + Size(at[o]) \in DOMAIN at \cup {e}
       /\ \A p \in DOMAIN at : o < p => o + Size(at[o]) <= p

Whole(r, at, e, t) == Starts(at, e) /\ \A o \in DOMAIN at : UnitAt(r, t, o, at[o])

LEMMA LengthIs ==
  ASSUME NEW m \in Message
  PROVE  PacketLength(m) \in Nat /\ PacketLength(m) > 0
<1>1. PICK n \in Byte : n = PacketLength(m) /\ n >= 4
  BY MessageType
<1>2. n \in Nat /\ n > 0
  BY ONLY <1>1 DEF Byte
<1>3. QED
  BY <1>1, <1>2

LEMMA SizeIs ==
  ASSUME NEW u \in Unit
  PROVE  Size(u) \in Nat /\ Size(u) > 0
<1>1. CASE u = NoMessage
  BY <1>1 DEF Size
<1>2. CASE u # NoMessage
  BY <1>2, LengthIs DEF Size, Unit
<1>3. QED
  BY <1>1, <1>2

LEMMA MessageUnit ==
  ASSUME NEW m \in Message
  PROVE  m \in Unit /\ m # NoMessage /\ Size(m) = PacketLength(m)
BY LinkAssumption DEF Unit, Size

(* The same bytes elsewhere.                                                *)
LEMMA UnitMoved ==
  ASSUME NEW r, NEW t, NEW o \in Nat, NEW u \in Unit, UnitAt(r, t, o, u),
         NEW v, NEW p \in Nat, \A i \in 1..Size(u) : v[p + i] = t[o + i]
  PROVE  UnitAt(r, v, p, u)
<1>1. CASE u = NoMessage
  <2>1. 1 \in 1..Size(u)
    BY <1>1 DEF Size
  <2>2. v[p + 1] = t[o + 1]
    BY <2>1
  <2>3. QED
    BY <1>1, <2>2 DEF UnitAt
<1>2. CASE u # NoMessage
  <2>1. Size(u) = PacketLength(u) /\ Follows(r, u) /\ PacketAt(t, o, u)
    BY <1>2 DEF Size, UnitAt
  <2>2. PacketAt(v, p, u)
    BY <2>1 DEF PacketAt
  <2>3. QED
    BY <1>2, <2>1, <2>2 DEF UnitAt
<1>3. QED
  BY <1>1, <1>2

LEMMA WholeEnds ==
  ASSUME NEW at, NEW e, Starts(at, e), NEW o \in DOMAIN at
  PROVE  /\ o \in Nat /\ e \in Nat /\ at[o] \in Unit
         /\ Size(at[o]) \in Nat /\ Size(at[o]) > 0
         /\ o + Size(at[o]) <= e
<1>1. /\ o \in Nat /\ e \in Nat /\ at[o] \in Unit
      /\ o + Size(at[o]) \in DOMAIN at \cup {e}
      /\ \A p \in DOMAIN at : p \in Nat /\ p < e
  BY DEF Starts
<1>2. Size(at[o]) \in Nat /\ Size(at[o]) > 0
  BY <1>1, SizeIs
<1>3. PICK k \in Nat : k = o + Size(at[o])
  BY <1>1, <1>2
<1>4. k <= e
  BY ONLY <1>1, <1>3
<1>5. QED
  BY <1>1, <1>2, <1>3, <1>4

(* One byte more after them.                                                *)
LEMMA WholeExtended ==
  ASSUME NEW r, NEW at, NEW e, NEW t \in Seq(Byte), NEW b \in Byte, NEW v, v = Append(t, b),
         Whole(r, at, e, t), e <= Len(t)
  PROVE  Whole(r, at, e, v)
<1>1. Starts(at, e)
  BY DEF Whole
<1>2. PICK n \in Nat : n = Len(t) /\ \A i \in 1..n : v[i] = t[i]
  BY AppendProperties, LenProperties
<1>3. ASSUME NEW o \in DOMAIN at PROVE UnitAt(r, v, o, at[o])
  <2>1. PICK k \in Nat : k = Size(at[o]) /\ o + k <= e
    BY <1>1, WholeEnds
  <2>2. o \in Nat /\ e \in Nat /\ e <= n /\ at[o] \in Unit
    BY <1>1, <1>2, WholeEnds
  <2>3. ASSUME NEW i \in 1..k PROVE o + i \in 1..n
    BY ONLY <2>1, <2>2, i \in 1..k, n \in Nat, k \in Nat
  <2>4. \A i \in 1..k : v[o + i] = t[o + i]
    BY ONLY <1>2, <2>3
  <2>5. UnitAt(r, t, o, at[o])
    BY DEF Whole
  <2>6. QED
    BY <2>1, <2>2, <2>4, <2>5, UnitMoved
<1>4. QED
  BY <1>1, <1>3 DEF Whole

(* One unit more at the end.                                                *)
LEMMA WholeAdded ==
  ASSUME NEW r, NEW at, NEW e, NEW t, Whole(r, at, e, t), NEW m \in Unit, UnitAt(r, t, e, m),
         NEW new, new = [o \in DOMAIN at \cup {e} |-> IF o = e THEN m ELSE at[o]]
  PROVE  Whole(r, new, e + Size(m), t)
<1>1. Starts(at, e)
  BY DEF Whole
<1>2. PICK k \in Nat : k = Size(m) /\ k > 0
  BY SizeIs
<1>3. /\ e \in Nat /\ DOMAIN new = DOMAIN at \cup {e} /\ DOMAIN new \subseteq Nat
      /\ e \notin DOMAIN at /\ new[e] = m /\ \A o \in DOMAIN at : new[o] = at[o]
  BY <1>1 DEF Starts
<1>4. e + k > 0 => 0 \in DOMAIN new
  BY <1>1, <1>2, <1>3 DEF Starts
<1>5. ASSUME NEW o \in DOMAIN new
      PROVE  /\ new[o] \in Unit /\ o < e + k
             /\ o + Size(new[o]) \in DOMAIN new \cup {e + k}
             /\ \A p \in DOMAIN new : o < p => o + Size(new[o]) <= p
             /\ UnitAt(r, t, o, new[o])
  <2>1. CASE o = e
    <3>1. new[o] = m /\ o + Size(new[o]) = e + k /\ e < e + k
      BY <1>2, <1>3, <2>1
    <3>2. \A p \in DOMAIN new : ~(o < p)
      <4>1. \A p \in DOMAIN at : p \in Nat /\ p < e
        BY <1>1 DEF Starts
      <4>2. QED
        BY ONLY <1>3, <2>1, <4>1
    <3>3. QED
      BY <2>1, <3>1, <3>2
  <2>2. CASE o \in DOMAIN at
    <3>1. PICK l \in Nat : l = Size(at[o]) /\ o + l <= e /\ at[o] \in Unit /\ o \in Nat
      BY <1>1, <2>2, WholeEnds
    <3>2. new[o] = at[o] /\ o < e /\ o < e + k
      BY <1>1, <1>2, <1>3, <2>2 DEF Starts
    <3>3. o + l \in DOMAIN at \cup {e}
      BY <1>1, <2>2, <3>1 DEF Starts
    <3>4. \A p \in DOMAIN at : o < p => o + l <= p
      BY <1>1, <2>2, <3>1 DEF Starts
    <3>5. \A p \in DOMAIN new : o < p => o + l <= p
      BY ONLY <1>3, <3>1, <3>4
    <3>6. UnitAt(r, t, o, at[o])
      BY <2>2 DEF Whole
    <3>7. QED
      BY <1>3, <3>1, <3>2, <3>3, <3>5, <3>6
  <2>3. QED
    BY <1>3, <2>1, <2>2
<1>6. Starts(new, e + k)
  BY ONLY <1>2, <1>3, <1>4, <1>5 DEF Starts
<1>7. QED
  BY <1>2, <1>5, <1>6 DEF Whole

(* The units that remain after the first one, of l bytes.                   *)
Rest(at, l) == [o \in {q \in Nat : q + l \in DOMAIN at} |-> at[o + l]]

LEMMA WholeDropped ==
  ASSUME NEW r, NEW at, NEW e, NEW t, Whole(r, at, e, t), 0 \in DOMAIN at,
         NEW l, l = Size(at[0]), NEW u, \A i \in 1..(e - l) : u[i] = t[l + i]
  PROVE  Whole(r, Rest(at, l), e - l, u)
<1> DEFINE new == Rest(at, l)
<1>1. Starts(at, e)
  BY DEF Whole
<1>2. l \in Nat /\ l > 0 /\ l <= e /\ e \in Nat /\ e - l \in Nat
  <2>1. l \in Nat /\ l > 0 /\ 0 + l <= e /\ e \in Nat
    BY <1>1, WholeEnds
  <2>2. QED
    BY ONLY <2>1
<1>3. /\ \A o \in DOMAIN new : o \in Nat /\ o + l \in DOMAIN at /\ new[o] = at[o + l]
      /\ \A o \in Nat : o + l \in DOMAIN at => o \in DOMAIN new
      /\ DOMAIN new \subseteq Nat
  BY DEF Rest
<1> HIDE DEF new
<1>4. e - l > 0 => 0 \in DOMAIN new
  <2>1. l \in DOMAIN at \cup {e}
    <3>1. 0 + l \in DOMAIN at \cup {e}
      BY <1>1 DEF Starts
    <3>2. QED
      BY <1>2, <3>1
  <2>2. CASE l \in DOMAIN at
    <3>1. 0 + l \in DOMAIN at
      BY <1>2, <2>2
    <3>2. QED
      BY <1>3, <3>1
  <2>3. CASE l = e
    BY ONLY <1>2, <2>3
  <2>4. QED
    BY <2>1, <2>2, <2>3
<1>5. ASSUME NEW o \in DOMAIN new
      PROVE  /\ new[o] \in Unit /\ o < e - l
             /\ o + Size(new[o]) \in DOMAIN new \cup {e - l}
             /\ \A p \in DOMAIN new : o < p => o + Size(new[o]) <= p
             /\ UnitAt(r, u, o, new[o])
  <2>1. PICK x \in Nat : x = o + l /\ x \in DOMAIN at /\ o \in Nat /\ new[o] = at[x]
    BY <1>2, <1>3
  <2>2. PICK k \in Nat : k = Size(at[x]) /\ x + k <= e /\ k > 0 /\ at[x] \in Unit
    BY <1>1, <2>1, WholeEnds
  <2>3. x + k \in DOMAIN at \cup {e}
    BY <1>1, <2>1, <2>2 DEF Starts
  <2>4. o + k \in DOMAIN new \cup {e - l}
    <3>1. CASE x + k = e
      BY ONLY <1>2, <2>1, <3>1, k \in Nat, x \in Nat
    <3>2. CASE x + k \in DOMAIN at
      <4>1. (o + k) + l = x + k /\ o + k \in Nat
        BY ONLY <1>2, <2>1, k \in Nat
      <4>2. QED
        BY <1>3, <3>2, <4>1
    <3>3. QED
      BY <2>3, <3>1, <3>2
  <2>5. \A p \in DOMAIN at : x < p => x + k <= p
    BY <1>1, <2>1, <2>2 DEF Starts
  <2>6. ASSUME NEW p \in DOMAIN new, o < p PROVE o + k <= p
    <3>1. p \in Nat /\ p + l \in DOMAIN at
      BY <1>3
    <3>2. x < p + l
      BY ONLY <1>2, <2>1, <2>6, <3>1
    <3>3. x + k <= p + l
      BY <2>5, <3>1, <3>2
    <3>4. QED
      BY ONLY <1>2, <2>1, k \in Nat, <3>1, <3>3
  <2>7. o < e - l
    BY ONLY <1>2, <2>1, <2>2
  <2>8. UnitAt(r, u, o, at[x])
    <3>1. UnitAt(r, t, x, at[x])
      BY <2>1 DEF Whole
    <3>2. ASSUME NEW i \in 1..k PROVE u[o + i] = t[x + i]
      <4>1. o + i \in 1..(e - l) /\ l + (o + i) = x + i
        BY ONLY <1>2, <2>1, <2>2, i \in 1..k
      <4>2. u[o + i] = t[l + (o + i)]
        BY <4>1
      <4>3. QED
        BY <4>1, <4>2
    <3>3. QED
      BY <2>1, <2>2, <3>1, <3>2, UnitMoved
  <2>9. QED
    BY <2>1, <2>2, <2>4, <2>6, <2>7, <2>8
<1>6. Starts(new, e - l)
  BY ONLY <1>2, <1>3, <1>4, <1>5 DEF Starts
<1>7. QED
  BY <1>5, <1>6 DEF Whole, new

(* The k bytes after byte e of t begin the packet of m.                     *)
Begun(t, e, k, m) == Len(t) = e + k /\ \A i \in 1..k : t[e + i] = Packet[m][i]

(* It is a packet that r follows, and not all of it.                        *)
Begins(r, k, m) == k > 0 => m \in Message /\ Follows(r, m) /\ k < PacketLength(m)

(* The stream begins with a byte to skip, or with a packet or a part of one. *)
LEMMA FirstUnit ==
  ASSUME NEW r, NEW at, NEW e, NEW t \in Seq(Byte), NEW k \in Nat, NEW m,
         Whole(r, at, e, t), Begun(t, e, k, m), Begins(r, k, m), Len(t) > 0
  PROVE  \/ 0 \in DOMAIN at /\ at[0] = NoMessage /\ t[1] \notin {r, BROADCAST}
         \/ \E n \in Message :
              /\ Follows(r, n)
              /\ \A i \in 1..Len(t) : i <= PacketLength(n) => t[i] = Packet[n][i]
              /\ PacketLength(n) <= Len(t) => 0 \in DOMAIN at /\ at[0] = n
<1>1. Starts(at, e) /\ e \in Nat
  BY DEF Whole, Starts
<1>2. PICK l \in Nat : l = Len(t) /\ l = e + k /\ l > 0
  BY LenProperties DEF Begun
<1>3. CASE e > 0
  <2>1. 0 \in DOMAIN at
    BY <1>1, <1>3 DEF Starts
  <2>2. PICK n \in Unit : n = at[0] /\ UnitAt(r, t, 0, n)
    BY <1>1, <2>1 DEF Starts, Whole
  <2>3. CASE n = NoMessage
    BY <2>1, <2>2, <2>3 DEF UnitAt
  <2>4. CASE n # NoMessage
    <3>1. n \in Message /\ Follows(r, n) /\ PacketAt(t, 0, n)
      BY <2>2, <2>4 DEF Unit, UnitAt
    <3>2. PICK q \in Nat : q = PacketLength(n)
      BY <3>1, LengthIs
    <3>3. \A i \in 1..q : t[0 + i] = Packet[n][i]
      BY <3>1, <3>2 DEF PacketAt
    <3>4. ASSUME NEW i \in 1..l, i <= q PROVE t[i] = Packet[n][i]
      <4>1. i \in 1..q /\ 0 + i = i
        BY ONLY <3>2, <3>4
      <4>2. QED
        BY <3>3, <4>1
    <3>5. QED
      BY <1>2, <2>1, <2>2, <3>1, <3>2, <3>4
  <2>5. QED
    BY <2>3, <2>4
<1>4. CASE e = 0
  <2>1. k = l /\ k > 0
    BY ONLY <1>2, <1>4, k \in Nat
  <2>2. m \in Message /\ Follows(r, m) /\ k < PacketLength(m)
    BY <2>1 DEF Begins
  <2>3. \A i \in 1..k : t[e + i] = Packet[m][i]
    BY DEF Begun
  <2>4. ASSUME NEW i \in 1..l PROVE t[i] = Packet[m][i]
    <3>1. i \in 1..k /\ e + i = i
      BY ONLY <1>4, <2>1, i \in 1..l
    <3>2. QED
      BY <2>3, <3>1
  <2>5. PICK q \in Nat : q = PacketLength(m)
    BY <2>2, LengthIs
  <2>6. ~(q <= l)
    BY ONLY <2>1, <2>2, <2>5, <1>2
  <2>7. QED
    BY <1>2, <2>2, <2>4, <2>5, <2>6
<1>5. QED
  BY ONLY <1>1, <1>3, <1>4

(* A packet that r answers when it has accepted it.                         *)
Asks(r, u) == u \in Message /\ WantsAck(u) /\ u.to = r

(* Such packets: either the receiver has just answered it, or it is the     *)
(* last one, of unanswered.  Each was confirmed, or will be, it is there    *)
(* once and its meaning was not seen before.                                *)
Pending(r, at, e, where, unanswered, confirmed, seen) ==
  /\ \A o \in DOMAIN at : Asks(r, at[o]) =>
       /\ \/ o = 0 /\ where = "deliver"
          \/ at[o] \in unanswered /\ o + Size(at[o]) = e
       /\ at[o] \in confirmed
       /\ Meaning(at[o]) \notin seen
       /\ \A p \in DOMAIN at : at[p] = at[o] => p = o
  /\ \A n \in unanswered : \E o \in DOMAIN at : at[o] = n /\ ~(o = 0 /\ where = "deliver")

(* Places of the stream do not change when the IO thread moves on.          *)
LEMMA PendingMoves ==
  ASSUME NEW r, NEW at, NEW e, NEW v, NEW w, NEW un, NEW con, NEW seen,
         v # "deliver", w # "deliver", Pending(r, at, e, v, un, con, seen)
  PROVE  Pending(r, at, e, w, un, con, seen)
BY DEF Pending

(* The packet of m is complete on the bus, or a byte to skip.               *)
LEMMA PendingAdded ==
  ASSUME NEW r, NEW at, NEW e, NEW w, NEW con, NEW seen, NEW m \in Unit,
         Starts(at, e), Pending(r, at, e, w, {}, con, seen),
         w = "deliver" => 0 \in DOMAIN at,
         NEW new, new = [o \in DOMAIN at \cup {e} |-> IF o = e THEN m ELSE at[o]],
         m \notin con, Asks(r, m) => Meaning(m) \notin seen,
         NEW un, un = IF Asks(r, m) THEN {m} ELSE {},
         NEW more, con \subseteq more, Asks(r, m) => m \in more
  PROVE  Pending(r, new, e + Size(m), w, un, more, seen)
<1>1. /\ DOMAIN new = DOMAIN at \cup {e} /\ new[e] = m
      /\ \A o \in DOMAIN at : new[o] = at[o] /\ o # e
  <2>1. e \in Nat /\ \A o \in DOMAIN at : o \in Nat /\ o < e
    BY DEF Starts
  <2>2. \A o \in DOMAIN at : o # e
    BY ONLY <2>1
  <2>3. QED
    BY <2>2
<1>2. PICK l : l = e + Size(m)
  OBVIOUS
<1>4. ASSUME NEW o \in DOMAIN new, Asks(r, new[o])
      PROVE  /\ \/ o = 0 /\ w = "deliver"
                \/ new[o] \in un /\ o + Size(new[o]) = l
             /\ new[o] \in more
             /\ Meaning(new[o]) \notin seen
             /\ \A p \in DOMAIN new : new[p] = new[o] => p = o
  <2>1. CASE o = e
    <3>1. \A p \in DOMAIN at : at[p] # m
      BY <1>1, <1>4, <2>1 DEF Pending
    <3>2. QED
      BY <1>1, <1>2, <1>4, <2>1, <3>1
  <2>2. CASE o \in DOMAIN at
    <3>1. /\ o = 0 /\ w = "deliver" /\ at[o] \in con /\ Meaning(at[o]) \notin seen
          /\ \A p \in DOMAIN at : at[p] = at[o] => p = o
      BY <1>1, <1>4, <2>2 DEF Pending
    <3>2. QED
      BY <1>1, <2>2, <3>1
  <2>3. QED
    BY ONLY <1>1, <2>1, <2>2, o \in DOMAIN new
<1>5. ASSUME NEW n \in un
      PROVE  \E o \in DOMAIN new : new[o] = n /\ ~(o = 0 /\ w = "deliver")
  <2>1. n = m
    OBVIOUS
  <2>2. ~(e = 0 /\ w = "deliver")
    BY <1>1
  <2>3. QED
    BY ONLY <1>1, <2>1, <2>2
<1>6. Pending(r, new, l, w, un, more, seen)
  BY ONLY <1>4, <1>5 DEF Pending
<1>7. QED
  BY ONLY <1>2, <1>6

(* The receiver accepts the first packet, and answers it if it wants that.  *)
LEMMA PendingAccepted ==
  ASSUME NEW r, NEW at, NEW e, NEW un, NEW con, NEW seen, NEW x,
         un \subseteq {x}, \A n \in un : Asks(r, n),
         Pending(r, at, e, "check", un, con, seen), 0 \in DOMAIN at
  PROVE  /\ Asks(r, at[0]) => at[0] \in un
         /\ Pending(r, at, e, "deliver", IF Asks(r, at[0]) THEN {} ELSE un, con, seen)
<1>1. \A o \in DOMAIN at : Asks(r, at[o]) =>
        /\ at[o] \in un /\ o + Size(at[o]) = e
        /\ at[o] \in con /\ Meaning(at[o]) \notin seen
        /\ \A p \in DOMAIN at : at[p] = at[o] => p = o
  BY DEF Pending
<1>2. \A n \in un : \E o \in DOMAIN at : at[o] = n
  BY DEF Pending
<1>3. CASE Asks(r, at[0])
  <2>1. \A o \in DOMAIN at : Asks(r, at[o]) => o = 0
    BY <1>1, <1>3
  <2>2. Pending(r, at, e, "deliver", {}, con, seen)
    BY <1>1, <2>1 DEF Pending
  <2>3. QED
    BY <1>1, <1>3, <2>2
<1>4. CASE ~Asks(r, at[0])
  <2>1. \A n \in un : \E o \in DOMAIN at : at[o] = n /\ o # 0
    BY <1>2, <1>4
  <2>2. Pending(r, at, e, "deliver", un, con, seen)
    BY <1>1, <2>1 DEF Pending
  <2>3. QED
    BY <1>4, <2>2
<1>5. QED
  BY <1>3, <1>4

(* The receiver function was called with the first packet, or the first     *)
(* byte was skipped.                                                        *)
LEMMA PendingDropped ==
  ASSUME NEW r, NEW at, NEW e, NEW w, NEW un, NEW con, NEW seen, Starts(at, e),
         Pending(r, at, e, w, un, con, seen), 0 \in DOMAIN at,
         w = "deliver" \/ at[0] \notin un,
         NEW l, l = Size(at[0]), NEW more,
         \A n \in Message : n # at[0] /\ Meaning(n) \notin seen => Meaning(n) \notin more
  PROVE  Pending(r, Rest(at, l), e - l, "update", un, con, more)
<1>1. PICK new : new = Rest(at, l)
  OBVIOUS
<1>2. /\ \A o \in DOMAIN new : o \in Nat /\ o + l \in DOMAIN at /\ new[o] = at[o + l]
      /\ \A o \in Nat : o + l \in DOMAIN at => o \in DOMAIN new
  BY <1>1 DEF Rest
<1>3. l \in Nat /\ l > 0 /\ e \in Nat
  BY WholeEnds
<1>4. ASSUME NEW o \in DOMAIN new, Asks(r, new[o])
      PROVE  /\ new[o] \in un /\ o + Size(new[o]) = e - l
             /\ new[o] \in con
             /\ Meaning(new[o]) \notin more
             /\ \A p \in DOMAIN new : new[p] = new[o] => p = o
  <2>1. PICK x \in Nat : x = o + l /\ x \in DOMAIN at /\ new[o] = at[x] /\ x # 0 /\ o \in Nat
    BY <1>2, <1>3
  <2>2. /\ at[x] \in un /\ x + Size(at[x]) = e
        /\ at[x] \in con /\ Meaning(at[x]) \notin seen
        /\ \A p \in DOMAIN at : at[p] = at[x] => p = x
    BY <1>4, <2>1 DEF Pending
  <2>3. at[x] # at[0] /\ at[x] \in Message /\ at[x] \in Unit
    BY <1>4, <2>1, <2>2 DEF Asks, Unit
  <2>4. Meaning(at[x]) \notin more
    BY <2>2, <2>3
  <2>5. PICK k \in Nat : k = Size(at[x])
    BY <2>3, SizeIs
  <2>6. o + k = e - l
    BY ONLY <1>3, <2>1, <2>2, <2>5
  <2>7. ASSUME NEW p \in DOMAIN new, new[p] = new[o] PROVE p = o
    <3>1. p \in Nat /\ p + l \in DOMAIN at /\ new[p] = at[p + l]
      BY <1>2
    <3>2. p + l = x
      BY <2>1, <2>2, <2>7, <3>1
    <3>3. QED
      BY ONLY <1>3, <2>1, <3>1, <3>2
  <2>8. QED
    BY <2>1, <2>2, <2>4, <2>5, <2>6, <2>7
<1>5. ASSUME NEW n \in un PROVE \E o \in DOMAIN new : new[o] = n
  <2>1. PICK x \in DOMAIN at : at[x] = n /\ x # 0
    BY DEF Pending
  <2>2. l <= x /\ x \in Nat
    <3>1. x \in Nat
      BY DEF Starts
    <3>2. 0 < x
      BY ONLY <2>1, <3>1
    <3>3. 0 + l <= x
      BY <3>2 DEF Starts
    <3>4. QED
      BY ONLY <1>3, <3>1, <3>3
  <2>3. PICK o \in Nat : o = x - l /\ o + l = x
    BY ONLY <1>3, <2>2
  <2>4. QED
    BY <1>2, <2>1, <2>3
<1>6. Pending(r, new, e - l, "update", un, con, more)
  BY <1>4, <1>5 DEF Pending
<1>7. QED
  BY <1>1, <1>6

-----------------------------------------------------------------------------
(* One sender on a clean bus: what receive() has read                       *)

LEMMA ByteWritten ==
  ASSUME NEW p \in Seq(Byte), NEW q \in Seq(Byte), NEW b \in Byte
  PROVE  p \o Append(q, b) = Append(p \o q, b)
<1>1. Append(q, b) = q \o <<b>> /\ <<b>> \in Seq(Byte)
  BY AppendIsConcat
<1>2. PICK x \in Seq(Byte) : x = p \o q
  BY ConcatProperties
<1>3. Append(x, b) = x \o <<b>>
  BY AppendIsConcat
<1>4. (p \o q) \o <<b>> = p \o (q \o <<b>>)
  BY <1>1, ConcatAssociative
<1>5. QED
  BY ONLY <1>1, <1>2, <1>3, <1>4

LEMMA ByteRead ==
  ASSUME NEW p \in Seq(Byte), NEW q \in Seq(Byte), q # <<>>
  PROVE  Append(p, Head(q)) \o Tail(q) = p \o q
<1>1. PICK h \in Byte, u \in Seq(Byte) : h = Head(q) /\ u = Tail(q)
  BY HeadTailProperties
<1>2. <<h>> \in Seq(Byte) /\ Append(p, h) = p \o <<h>>
  BY AppendIsConcat
<1>3. q = <<h>> \o u
  <2>1. PICK x \in Seq(Byte) : x = <<h>> \o u
    BY <1>1, <1>2, ConcatProperties
  <2>2. q[1] = h
    BY <1>1
  <2>3. PICK n \in Nat : /\ n = Len(u) /\ Len(q) = n + 1 /\ \A i \in 1..n : u[i] = q[i + 1]
    <3>1. /\ Len(u) = Len(q) - 1 /\ \A i \in 1..Len(u) : u[i] = q[i + 1]
      BY <1>1, HeadTailProperties
    <3>2. Len(u) \in Nat /\ Len(q) \in Nat
      BY LenProperties
    <3>3. QED
      BY ONLY <3>1, <3>2
  <2>4. /\ Len(x) = n + 1 /\ x[1] = h /\ \A i \in 1..n : x[1 + i] = u[i]
    <3>1. /\ Len(x) = Len(<<h>>) + Len(u)
          /\ \A i \in 1..Len(<<h>>) : x[i] = <<h>>[i]
          /\ \A i \in 1..Len(u) : x[Len(<<h>>) + i] = u[i]
      BY <1>1, <1>2, <2>1, Concatenated
    <3>2. Len(<<h>>) = 1 /\ <<h>>[1] = h
      OBVIOUS
    <3>3. QED
      BY ONLY <2>3, <3>1, <3>2
  <2>5. ASSUME NEW i \in 1..n + 1 PROVE q[i] = x[i]
    <3>1. CASE i = 1
      BY <2>2, <2>4, <3>1
    <3>2. CASE i # 1
      <4>1. PICK j \in 1..n : i = j + 1 /\ i = 1 + j
        <5>1. i - 1 \in 1..n /\ i = (i - 1) + 1 /\ i = 1 + (i - 1)
          BY ONLY i \in 1..n + 1, n \in Nat, <3>2
        <5>2. QED
          BY <5>1
      <4>2. u[j] = q[j + 1] /\ x[1 + j] = u[j]
        BY <2>3, <2>4
      <4>3. QED
        BY ONLY <4>1, <4>2
    <3>3. QED
      BY <3>1, <3>2
  <2>6. q = x
    BY ONLY q \in Seq(Byte), x \in Seq(Byte), <2>3, <2>4, <2>5, SeqEqual
  <2>7. QED
    BY <2>1, <2>6
<1>4. (p \o <<h>>) \o u = p \o (<<h>> \o u)
  BY <1>2, ConcatAssociative
<1>5. QED
  BY ONLY <1>1, <1>2, <1>3, <1>4

(* a is what was read of the bytes t.                                       *)
Prefix(a, t) == Len(a) <= Len(t) /\ \A i \in 1..Len(a) : a[i] = t[i]

LEMMA PrefixOfStream ==
  ASSUME NEW p \in Seq(Byte), NEW q \in Seq(Byte), NEW t, t = p \o q
  PROVE  Prefix(p, t) /\ t \in Seq(Byte)
<1>1. /\ t \in Seq(Byte) /\ Len(t) = Len(p) + Len(q)
      /\ Len(p) \in Nat /\ Len(q) \in Nat
      /\ \A i \in 1..Len(p) : t[i] = p[i]
  BY Concatenated
<1>2. Len(p) <= Len(t)
  BY ONLY <1>1
<1>3. QED
  BY <1>1, <1>2 DEF Prefix

(* receive() never gives up a packet that it follows, and has all of it     *)
(* when it has as many bytes as the second one says.                        *)
LEMMA PacketIsRead ==
  ASSUME NEW r, NEW at, NEW e, NEW t \in Seq(Byte), NEW k \in Nat, NEW m,
         Whole(r, at, e, t), Begun(t, e, k, m), Begins(r, k, m),
         NEW a \in Seq(Byte), Prefix(a, t), a # <<>>, a[1] \in {r, BROADCAST}
  PROVE  /\ ~GivenUp(r, a)
         /\ Complete(a) => 0 \in DOMAIN at /\ at[0] \in Message /\ a = Packet[at[0]]
<1>1. PICK l \in Nat, n \in Nat : /\ l = Len(t) /\ n = Len(a) /\ n <= l /\ n > 0
                                  /\ \A i \in 1..n : a[i] = t[i]
  <2>1. Len(t) \in Nat /\ Len(a) \in Nat \ {0}
    BY LenProperties, EmptySeq
  <2>2. Len(a) > 0
    BY ONLY <2>1
  <2>3. QED
    BY <2>1, <2>2 DEF Prefix
<1>2. l > 0 /\ 1 \in 1..n
  BY ONLY <1>1
<1>3. PICK p \in Message : /\ Follows(r, p)
                           /\ \A i \in 1..l : i <= PacketLength(p) => t[i] = Packet[p][i]
                           /\ PacketLength(p) <= l => 0 \in DOMAIN at /\ at[0] = p
  <2>1. a[1] = t[1]
    BY <1>1, <1>2
  <2>2. QED
    BY <1>1, <1>2, <2>1, FirstUnit
<1>4. PICK b \in Seq(Byte) : /\ b = Packet[p] /\ Len(b) = PacketLength(p)
                             /\ b[1] = p.to /\ b[2] = PacketLength(p) /\ b[3] = p.header
  BY PacketLayout
<1>5. PICK q \in Nat : /\ q = PacketLength(p) /\ q >= 5 /\ q < PACKET_MAX_LENGTH
                       /\ ~HasBit(p.header, MODE_BIT) /\ p.to \in {r, BROADCAST}
  <2>1. PacketLength(p) \in 5 .. PACKET_MAX_LENGTH - 1 /\ PACKET_MAX_LENGTH \in Nat
    BY <1>3, <1>4, LinkAssumption DEF Follows
  <2>2. PICK q \in Nat : q = PacketLength(p) /\ q >= 5 /\ q < PACKET_MAX_LENGTH
    BY ONLY <2>1
  <2>3. QED
    BY <1>3, <2>2 DEF Follows
<1>6. ASSUME NEW i \in 1..n, i <= q PROVE a[i] = b[i]
  <2>1. i \in 1..l
    BY ONLY <1>1, i \in 1..n
  <2>2. QED
    BY <1>1, <1>3, <1>4, <1>5, <1>6, <2>1
<1>7. ~GivenUp(r, a)
  <2>1. n = 1 => a[1] = p.to
    BY ONLY <1>1, <1>4, <1>5, <1>6
  <2>2. n = 2 => a[2] = q
    BY ONLY <1>1, <1>4, <1>5, <1>6
  <2>3. n = 3 => a[3] = p.header
    BY ONLY <1>1, <1>4, <1>5, <1>6
  <2>4. q > 4
    BY ONLY <1>5
  <2>5. QED
    BY ONLY <1>1, <1>5, <2>1, <2>2, <2>3, <2>4 DEF GivenUp
<1>8. ASSUME Complete(a) PROVE 0 \in DOMAIN at /\ at[0] \in Message /\ a = Packet[at[0]]
  <2>1. n > 2 /\ n = a[2]
    BY <1>1, <1>8 DEF Complete
  <2>2. a[2] = q
    BY ONLY <1>1, <1>4, <1>5, <1>6, <2>1
  <2>3. n = q
    BY ONLY <2>1, <2>2
  <2>4. PacketLength(p) <= l
    BY ONLY <1>1, <1>5, <2>3
  <2>5. \A i \in 1..n : a[i] = b[i]
    BY ONLY <1>1, <1>6, <2>3, n \in Nat
  <2>6. a = b
    <3>1. Len(a) = Len(b) /\ \A i \in 1..Len(a) : a[i] = b[i]
      BY ONLY <1>1, <1>4, <1>5, <2>3, <2>5
    <3>2. QED
      BY ONLY a \in Seq(Byte), b \in Seq(Byte), <3>1, SeqEqual
  <2>7. QED
    BY <1>3, <1>4, <2>4, <2>6
<1>9. QED
  BY <1>7, <1>8

(* A byte that is not the recipient of a packet for r is one to skip.       *)
LEMMA ByteIsSkipped ==
  ASSUME NEW r, NEW at, NEW e, NEW t \in Seq(Byte), NEW k \in Nat, NEW m,
         Whole(r, at, e, t), Begun(t, e, k, m), Begins(r, k, m),
         NEW a \in Seq(Byte), Prefix(a, t), a # <<>>, a[1] \notin {r, BROADCAST}
  PROVE  0 \in DOMAIN at /\ at[0] = NoMessage
<1>1. PICK l \in Nat, n \in Nat : /\ l = Len(t) /\ n = Len(a) /\ n <= l /\ n # 0
                                  /\ \A i \in 1..n : a[i] = t[i]
  BY LenProperties, EmptySeq DEF Prefix
<1>2. l > 0 /\ 1 \in 1..n /\ 1 \in 1..l
  BY ONLY <1>1
<1>3. t[1] \notin {r, BROADCAST}
  BY <1>1, <1>2
<1>4. ASSUME NEW p \in Message, Follows(r, p), 1 <= PacketLength(p) => t[1] = Packet[p][1]
      PROVE  FALSE
  <2>1. PICK q \in Nat : q = PacketLength(p) /\ q > 0
    BY LengthIs
  <2>2. Packet[p][1] = p.to /\ 1 <= q
    BY <2>1, PacketLayout
  <2>3. QED
    BY <1>3, <1>4, <2>1, <2>2 DEF Follows
<1>5. QED
  BY <1>1, <1>2, <1>4, FirstUnit

-----------------------------------------------------------------------------
(* One sender on a clean bus: the invariant                                 *)

Receivers(s) == Device \ {s}

(* What came to r since its last packet, read or not.                       *)
Stream(r) == data[r] \o inq[r]

Seen(r) == {taken[r][i] : i \in DOMAIN taken[r]}

AllSent(s) == pc[s] \in {"send", "response"} /\ sent[s] = PacketLength(msg[s])

(* How much of a packet that it follows has come to r.                      *)
Partial(s, r) == IF AllSent(s) \/ ~Follows(r, msg[s]) THEN 0 ELSE sent[s]

(* The packet that r has to answer.                                         *)
Unanswered(s, r) ==
  IF AllSent(s) /\ Asks(r, msg[s]) /\ inq[s] = <<>> THEN {msg[s]} ELSE {}

Confirmed(s, r) ==
  {m \in Message : m.to = r /\ (m \in acked \/ (AllSent(s) /\ m = msg[s]))}

Delivered(m) ==
  /\ m.to \in Device
  /\ \/ Meaning(m) \in Seen(m.to)
     \/ pc[m.to] = "deliver" /\ data[m.to] = Packet[m]

(* The sender receives nothing but the acknowledgement it waits for.        *)
SenderInv(s) ==
  /\ pc[s] \in {"update", "send", "response"}
  /\ pc[s] = "update" => sent[s] = 0
  /\ pc[s] = "send" => sent[s] <= PacketLength(msg[s])
  /\ pc[s] = "response" => AllSent(s) /\ WantsAck(msg[s])
  /\ pc[s] # "update" => msg[s] \in Message /\ msg[s] \notin acked
  /\ \/ inq[s] = <<>>
     \/ inq[s] = <<ACK>> /\ AllSent(s) /\ WantsAck(msg[s])
  /\ taken[s] = <<>>
  /\ \A m \in Message :
       WantsAck(m) /\ (m \in acked \/ (inq[s] # <<>> /\ m = msg[s])) => Delivered(m)

(* A receiver has seen messages for it only, and one that wants an          *)
(* acknowledgement once.                                                    *)
ReceiverInv(s, r) ==
  /\ pc[r] \in {"update", "receive", "check", "deliver"}
  /\ pc[r] = "receive" => data[r] # <<>>
  /\ Seen(r) \subseteq {Meaning(m) : m \in {n \in Message : n.to \in {r, BROADCAST}}}
  /\ \A m \in Message : Asks(r, m) =>
       /\ Meaning(m) \in Seen(r) => m \in Confirmed(s, r)
       /\ \A i, j \in DOMAIN taken[r] :
            taken[r][i] = Meaning(m) /\ taken[r][j] = Meaning(m) => i = j

Flow(r, at, e, t, w, k, m, un, con, seen) ==
  Whole(r, at, e, t) /\ Begun(t, e, k, m) /\ Pending(r, at, e, w, un, con, seen)

(* What is on its way to r is packets and bytes to skip, whole but for the  *)
(* last packet.                                                             *)
IsFlow(r, t, w, k, m, un, con, seen) ==
  \E at, e : Flow(r, at, e, t, w, k, m, un, con, seen)

FlowInv(s, r) ==
  IsFlow(r, Stream(r), pc[r], Partial(s, r), msg[s], Unanswered(s, r), Confirmed(s, r), Seen(r))

CleanInv(s) ==
  SenderInv(s) /\ \A r \in Receivers(s) : ReceiverInv(s, r) /\ FlowInv(s, r)

LEMMA FlowMoves ==
  ASSUME NEW r, NEW t, NEW v, NEW w, NEW k, NEW m, NEW un, NEW con, NEW seen,
         IsFlow(r, t, v, k, m, un, con, seen), v # "deliver", w # "deliver"
  PROVE  IsFlow(r, t, w, k, m, un, con, seen)
BY PendingMoves DEF IsFlow, Flow

(* Which message begins does not matter when nothing of it is there.        *)
LEMMA FlowFree ==
  ASSUME NEW r, NEW t, NEW w, NEW m, NEW n, NEW un, NEW con, NEW seen,
         IsFlow(r, t, w, 0, m, un, con, seen)
  PROVE  IsFlow(r, t, w, 0, n, un, con, seen)
<1>1. PICK at, e : Flow(r, at, e, t, w, 0, m, un, con, seen)
  BY DEF IsFlow
<1>2. Begun(t, e, 0, n)
  BY <1>1 DEF Flow, Begun
<1>3. QED
  BY <1>1, <1>2 DEF Flow, IsFlow

LEMMA SenderFacts ==
  ASSUME NEW s \in Device, SeqType, SenderInv(s), NEW r
  PROVE  /\ Partial(s, r) \in Nat
         /\ Partial(s, r) > 0 => pc[s] = "send"
         /\ Begins(r, Partial(s, r), msg[s])
         /\ Unanswered(s, r) \subseteq {msg[s]}
         /\ \A n \in Unanswered(s, r) : Asks(r, n)
<1>1. /\ sent[s] \in Nat /\ pc[s] \in {"update", "send", "response"}
      /\ pc[s] = "update" => sent[s] = 0
      /\ pc[s] = "response" => AllSent(s)
      /\ pc[s] = "send" => msg[s] \in Message /\ sent[s] <= PacketLength(msg[s])
  BY DEF SeqType, SenderInv
<1>2. ASSUME Partial(s, r) > 0
      PROVE  /\ pc[s] = "send" /\ msg[s] \in Message /\ Follows(r, msg[s])
             /\ Partial(s, r) < PacketLength(msg[s])
  <2>1. ~AllSent(s) /\ Partial(s, r) = sent[s] /\ Follows(r, msg[s])
    BY <1>2 DEF Partial
  <2>2. pc[s] = "send" /\ msg[s] \in Message
    BY <1>1, <1>2, <2>1
  <2>3. PICK l \in Nat : l = PacketLength(msg[s])
    BY <2>2, LengthIs
  <2>4. sent[s] <= l /\ sent[s] # l
    BY <1>1, <2>1, <2>2, <2>3 DEF AllSent
  <2>5. sent[s] < l
    BY ONLY <1>1, <2>3, <2>4
  <2>6. QED
    BY <2>1, <2>2, <2>3, <2>5
<1>3. Partial(s, r) \in Nat
  BY <1>1 DEF Partial
<1>4. Unanswered(s, r) \subseteq {msg[s]} /\ \A n \in Unanswered(s, r) : Asks(r, n)
  BY DEF Unanswered
<1>5. QED
  BY <1>2, <1>3, <1>4 DEF Begins

LEMMA StreamType ==
  ASSUME SeqType, NEW r \in Device
  PROVE  Stream(r) \in Seq(Byte) /\ Prefix(data[r], Stream(r))
BY PrefixOfStream DEF SeqType, Stream

(* A packet that is checked or delivered is the first of the stream.        *)
LEMMA CompleteIsFirst ==
  ASSUME NEW s, OneSender(s), TypeInv, SenderInv(s), NEW r \in Receivers(s),
         pc[r] \in {"check", "deliver"}, NEW at, NEW e,
         Whole(r, at, e, Stream(r)), Begun(Stream(r), e, Partial(s, r), msg[s])
  PROVE  0 \in DOMAIN at /\ at[0] \in Message /\ data[r] = Packet[at[0]]
<1>1. /\ s \in Device /\ r \in Device \ {s} /\ SeqType
      /\ data[r] \in Seq(Byte) /\ Complete(data[r])
  BY DEF OneSender, Receivers, TypeInv, SeqType, ReadingInv, Reading
<1>2. data[r] # <<>> /\ data[r][1] \in {r, BROADCAST}
  <2>1. PICK n \in Nat : n = Len(data[r])
    BY <1>1, LenProperties
  <2>2. n > 2
    BY <1>1, <2>1 DEF Complete
  <2>3. n > 0 /\ n # 0
    BY ONLY <2>1, <2>2
  <2>4. QED
    BY <1>1, <2>1, <2>3 DEF TypeInv, ReadingInv, Reading
<1>3. Partial(s, r) \in Nat /\ Begins(r, Partial(s, r), msg[s])
  BY <1>1, SenderFacts
<1>4. Stream(r) \in Seq(Byte) /\ Prefix(data[r], Stream(r))
  BY <1>1, StreamType
<1>5. QED
  BY <1>1, <1>2, <1>3, <1>4, PacketIsRead

LEMMA ReceiverKept ==
  ASSUME NEW s, NEW r, ReceiverInv(s, r),
         pc'[r] = pc[r], data'[r] = data[r], taken'[r] = taken[r],
         Confirmed(s, r) \subseteq Confirmed(s, r)'
  PROVE  ReceiverInv(s, r)' /\ Seen(r)' = Seen(r)
BY DEF ReceiverInv, Seen

LEMMA DeliveredKept ==
  ASSUME NEW m, Delivered(m), NEW d, pc[d] # "deliver", UNCHANGED taken,
         \A e \in Device \ {d} : pc'[e] = pc[e] /\ data'[e] = data[e]
  PROVE  Delivered(m)'
BY DEF Delivered, Seen

(* What a receiver's step leaves as it is: what the sender counts as sent   *)
(* and acknowledged, and what r has to answer.                              *)
Alike(s, r) ==
  /\ Partial(s, r)' = Partial(s, r)
  /\ Unanswered(s, r)' = Unanswered(s, r) /\ Confirmed(s, r)' = Confirmed(s, r)

(* A step of a receiver.                                                    *)
LEMMA SenderKept ==
  ASSUME NEW s, SenderInv(s), acked \subseteq Message, UNCHANGED acked,
         pc'[s] = pc[s], msg'[s] = msg[s], sent'[s] = sent[s],
         inq'[s] = inq[s], taken'[s] = taken[s],
         \A m \in Message : Delivered(m) => Delivered(m)'
  PROVE  SenderInv(s)' /\ \A r : Alike(s, r)
<1>1. AllSent(s)' = AllSent(s)
  BY DEF AllSent
<1>2. SenderInv(s)'
  BY <1>1 DEF SenderInv
<1>3. QED
  BY <1>1, <1>2 DEF Partial, Unanswered, Confirmed, Alike

LEMMA OtherKept ==
  ASSUME NEW s, NEW r, ReceiverInv(s, r), FlowInv(s, r),
         pc'[r] = pc[r], data'[r] = data[r], taken'[r] = taken[r], inq'[r] = inq[r],
         msg'[s] = msg[s], Alike(s, r)
  PROVE  ReceiverInv(s, r)' /\ FlowInv(s, r)'
<1>1. ReceiverInv(s, r)' /\ Seen(r)' = Seen(r)
  BY ReceiverKept DEF Alike
<1>2. Stream(r)' = Stream(r)
  BY DEF Stream
<1>3. QED
  BY <1>1, <1>2 DEF FlowInv, Alike

-----------------------------------------------------------------------------
(* One sender on a clean bus: the sender's steps                            *)

(* Steps that put no byte on the bus.                                       *)
LEMMA SenderSilent ==
  ASSUME NEW s, CleanInv(s), SenderInv(s)', UNCHANGED <<data, taken>>,
         \A r \in Receivers(s) :
           /\ pc'[r] = pc[r] /\ inq'[r] = inq[r] /\ Alike(s, r)
           /\ Partial(s, r) = 0 \/ msg'[s] = msg[s]
  PROVE  CleanInv(s)'
<1>1. ASSUME NEW r \in Receivers(s) PROVE ReceiverInv(s, r)' /\ FlowInv(s, r)'
  <2>1. /\ ReceiverInv(s, r) /\ FlowInv(s, r) /\ Alike(s, r)
        /\ pc'[r] = pc[r] /\ inq'[r] = inq[r] /\ data'[r] = data[r] /\ taken'[r] = taken[r]
    BY DEF CleanInv
  <2>2. ReceiverInv(s, r)' /\ Seen(r)' = Seen(r)
    BY <2>1, ReceiverKept DEF Alike
  <2>3. Stream(r)' = Stream(r)
    BY <2>1 DEF Stream
  <2>4. IsFlow(r, Stream(r), pc[r], Partial(s, r), msg'[s],
               Unanswered(s, r), Confirmed(s, r), Seen(r))
    <3>1. CASE msg'[s] = msg[s]
      BY <2>1, <3>1 DEF FlowInv
    <3>2. CASE Partial(s, r) = 0
      BY <2>1, <3>2, FlowFree DEF FlowInv
    <3>3. QED
      BY <3>1, <3>2
  <2>5. QED
    BY <2>1, <2>2, <2>3, <2>4 DEF FlowInv, Alike
<1>2. QED
  BY <1>1 DEF CleanInv, Receivers

LEMMA CleanStartSend ==
  ASSUME NEW s, OneSender(s), TypeInv, CleanInv(s), NEW m \in Message, StartSend(s, m)
  PROVE  CleanInv(s)'
<1>1. /\ s \in Device /\ pc[s] = "update" /\ m \notin acked /\ inq[s] = <<>>
      /\ pc' = [pc EXCEPT ![s] = "send"] /\ msg' = [msg EXCEPT ![s] = m]
      /\ UNCHANGED <<inq, sent, data, acked, taken>>
  BY DEF OneSender, StartSend, CanStart
<1>2. pc'[s] = "send" /\ msg'[s] = m /\ \A r \in Receivers(s) : pc'[r] = pc[r]
  BY <1>1 DEF TypeInv, SeqType, Receivers
<1>3. SenderInv(s) /\ sent[s] = 0 /\ taken[s] = <<>>
  BY <1>1 DEF CleanInv, SenderInv
<1>4. 0 < PacketLength(m) /\ 0 <= PacketLength(m) /\ 0 # PacketLength(m)
  <2>1. PICK l \in Nat : l = PacketLength(m) /\ l > 0
    BY LengthIs
  <2>2. QED
    BY <2>1
<1>5. ~AllSent(s) /\ ~AllSent(s)'
  BY <1>1, <1>2, <1>3, <1>4 DEF AllSent
<1>6. \A n \in Message : Delivered(n) => Delivered(n)'
  BY <1>1, <1>2, DeliveredKept DEF Receivers
<1>7. SenderInv(s)'
  BY <1>1, <1>2, <1>3, <1>4, <1>6 DEF SenderInv
<1>8. ASSUME NEW r PROVE Alike(s, r) /\ Partial(s, r) = 0
  BY <1>1, <1>3, <1>5 DEF Partial, Unanswered, Confirmed, Alike
<1>9. QED
  BY <1>1, <1>2, <1>7, <1>8, SenderSilent

(* send_string() returns.                                                   *)
LEMMA CleanReturns ==
  ASSUME NEW s, OneSender(s), TypeInv, CleanInv(s), AllSent(s), NEW ok \in BOOLEAN,
         SendReturns(s, ok), inq'[s] = <<>>,
         \A r \in Receivers(s) : inq'[r] = inq[r],
         \A r \in Receivers(s) : Unanswered(s, r) = {} /\ (ok \/ msg[s].to # r),
         ok /\ WantsAck(msg[s]) => inq[s] # <<>>
  PROVE  CleanInv(s)'
<1>1. /\ s \in Device /\ pc[s] # "update" /\ pc[s] # "deliver" /\ msg[s] \in Message
      /\ SenderInv(s) /\ taken[s] = <<>>
  BY DEF OneSender, AllSent, CleanInv, SenderInv
<1>2. /\ UNCHANGED <<data, taken>>
      /\ acked' = IF ok THEN acked \cup {msg[s]} ELSE acked
      /\ pc'[s] = "update" /\ msg'[s] = NoMessage /\ sent'[s] = 0
      /\ \A r \in Receivers(s) : pc'[r] = pc[r]
  BY <1>1 DEF TypeInv, SeqType, Receivers, SendReturns
<1>3. \A n \in Message : Delivered(n) => Delivered(n)'
  BY <1>1, <1>2, DeliveredKept DEF Receivers
<1>4. \A n \in Message : WantsAck(n) /\ n \in acked' => Delivered(n)'
  BY <1>1, <1>2, <1>3 DEF SenderInv
<1>5. SenderInv(s)'
  BY <1>1, <1>2, <1>4 DEF SenderInv
<1>6. ~AllSent(s)'
  BY <1>2 DEF AllSent
<1>7. ASSUME NEW r \in Receivers(s) PROVE Alike(s, r) /\ Partial(s, r) = 0
  <2>1. Partial(s, r)' = 0 /\ Partial(s, r) = 0
    BY <1>2, <1>6 DEF Partial
  <2>2. Unanswered(s, r)' = Unanswered(s, r)
    BY <1>6 DEF Unanswered
  <2>3. Confirmed(s, r)' = Confirmed(s, r)
    <3>1. \A m \in Message : m.to = r =>
            (m \in acked' <=> m \in acked \/ m = msg[s])
      BY <1>2
    <3>2. QED
      BY <1>6, <3>1 DEF Confirmed
  <2>4. QED
    BY <2>1, <2>2, <2>3 DEF Alike
<1>8. QED
  BY <1>2, <1>5, <1>7, SenderSilent

LEMMA CleanSendDone ==
  ASSUME NEW s, OneSender(s), TypeInv, CleanInv(s), SendDone(s)
  PROVE  CleanInv(s)'
<1>1. /\ s \in Device /\ pc[s] = "send" /\ msg[s] \in Message /\ SenderInv(s)
      /\ sent[s] = Len(Packet[msg[s]]) /\ UNCHANGED inq
  BY DEF OneSender, SendDone, CleanInv, SenderInv
<1>2. AllSent(s)
  BY <1>1, PacketLayout DEF AllSent
<1>3. CASE WantsAck(msg[s])
  <2>1. /\ pc' = [pc EXCEPT ![s] = "response"]
        /\ UNCHANGED <<inq, msg, sent, data, acked, taken>>
    BY <1>1, <1>3 DEF SendDone
  <2>2. pc'[s] = "response" /\ \A r \in Receivers(s) : pc'[r] = pc[r]
    BY <1>1, <2>1 DEF TypeInv, SeqType, Receivers
  <2>3. AllSent(s)'
    BY <1>2, <2>1, <2>2 DEF AllSent
  <2>4. \A n \in Message : Delivered(n) => Delivered(n)'
    BY <1>1, <2>1, <2>2, DeliveredKept DEF Receivers
  <2>5. SenderInv(s)'
    BY <1>1, <1>2, <1>3, <2>1, <2>2, <2>3, <2>4 DEF SenderInv
  <2>6. \A r : Alike(s, r)
    BY <1>2, <2>1, <2>3 DEF Partial, Unanswered, Confirmed, Alike
  <2>7. QED
    BY <2>1, <2>2, <2>5, <2>6, SenderSilent
<1>4. CASE ~WantsAck(msg[s])
  <2>1. SendReturns(s, TRUE) /\ inq[s] = <<>> /\ \A r : Unanswered(s, r) = {}
    BY <1>1, <1>4 DEF SendDone, SenderInv, Unanswered, Asks
  <2>2. QED
    BY <1>1, <1>2, <1>4, <2>1, CleanReturns
<1>5. QED
  BY <1>3, <1>4

LEMMA CleanReceiveResponse ==
  ASSUME NEW s, OneSender(s), TypeInv, CleanInv(s), ReceiveResponse(s)
  PROVE  CleanInv(s)'
<1>1. /\ s \in Device /\ inq[s] = <<ACK>> /\ AllSent(s)
      /\ inq' = [inq EXCEPT ![s] = Tail(@)]
  BY DEF OneSender, ReceiveResponse, CleanInv, SenderInv
<1>2. Head(inq[s]) = ACK /\ Tail(inq[s]) = <<>>
  BY <1>1
<1>3. inq'[s] = <<>> /\ \A r \in Receivers(s) : inq'[r] = inq[r]
  BY <1>1, <1>2 DEF TypeInv, SeqType, Receivers
<1>4. SendReturns(s, TRUE)
  BY <1>2 DEF ReceiveResponse
<1>5. inq[s] # <<>>
  BY <1>1
<1>6. \A r : Unanswered(s, r) = {}
  BY <1>5 DEF Unanswered
<1>7. QED
  BY <1>1, <1>3, <1>4, <1>5, <1>6, CleanReturns

(* The timeout of receive_response() comes only when the recipient does not *)
(* listen.                                                                  *)
LEMMA CleanResponseTimeout ==
  ASSUME NEW s, OneSender(s), TypeInv, CleanInv(s), ResponseTimeout(s)
  PROVE  CleanInv(s)'
<1>1. /\ s \in Device /\ pc[s] = "response" /\ Quiet(s) /\ SendReturns(s, FALSE)
      /\ UNCHANGED inq
  BY DEF OneSender, ResponseTimeout
<1>2. /\ SenderInv(s) /\ inq[s] = <<>> /\ AllSent(s) /\ WantsAck(msg[s])
      /\ msg[s] \in Message
  BY <1>1 DEF CleanInv, SenderInv, Quiet
<1>3. ASSUME NEW r \in Receivers(s), msg[s].to = r PROVE FALSE
  <2>1. /\ r \in Device \ {s} /\ r \in Device /\ ReceiverInv(s, r) /\ FlowInv(s, r)
    BY DEF Receivers, CleanInv
  <2>2. pc[r] = "update" /\ inq[r] = <<>>
    BY <1>1, <2>1 DEF Quiet, ReceiverInv
  <2>3. data[r] = <<>>
    BY <2>1, <2>2 DEF TypeInv, ReadingInv, Reading
  <2>4. Stream(r) = <<>>
    BY <2>2, <2>3 DEF Stream
  <2>5. PICK at, e : Flow(r, at, e, Stream(r), pc[r], Partial(s, r), msg[s],
                          Unanswered(s, r), Confirmed(s, r), Seen(r))
    BY <2>1 DEF FlowInv, IsFlow
  <2>6. Partial(s, r) = 0 /\ msg[s] \in Unanswered(s, r)
    BY <1>2, <1>3 DEF Partial, Unanswered, Asks
  <2>7. PICK o \in DOMAIN at : at[o] = msg[s]
    BY <2>5, <2>6 DEF Flow, Pending
  <2>8. o \in Nat /\ e \in Nat /\ o < e
    BY <2>5 DEF Flow, Whole, Starts
  <2>9. Len(Stream(r)) = e + 0
    BY <2>5, <2>6 DEF Flow, Begun
  <2>10. Len(Stream(r)) = 0
    BY <2>4
  <2>11. QED
    BY ONLY <2>8, <2>9, <2>10
<1>4. ASSUME NEW r \in Receivers(s) PROVE Unanswered(s, r) = {} /\ msg[s].to # r
  BY <1>3 DEF Unanswered, Asks
<1>5. QED
  BY <1>1, <1>2, <1>4, CleanReturns

LEMMA BegunMore ==
  ASSUME NEW t \in Seq(Byte), NEW b \in Byte, NEW u, u = Append(t, b), NEW e \in Nat,
         NEW k \in Nat, NEW m, Begun(t, e, k, m), b = Packet[m][k + 1]
  PROVE  Begun(u, e, k + 1, m)
<1>1. PICK n \in Nat : /\ n = Len(t) /\ Len(u) = n + 1 /\ u[n + 1] = b
                       /\ \A i \in 1..n : u[i] = t[i]
  BY AppendProperties, LenProperties
<1>2. n = e + k /\ \A i \in 1..k : t[e + i] = Packet[m][i]
  BY <1>1 DEF Begun
<1>3. ASSUME NEW i \in 1..k + 1 PROVE u[e + i] = Packet[m][i]
  <2>1. CASE i \in 1..k
    <3>1. e + i \in 1..n
      BY ONLY <1>2, <2>1, e \in Nat, k \in Nat
    <3>2. QED
      BY <1>1, <1>2, <2>1, <3>1
  <2>2. CASE i = k + 1
    <3>1. e + i = n + 1
      BY ONLY <1>2, <2>2, e \in Nat, k \in Nat
    <3>2. QED
      BY <1>1, <2>2, <3>1
  <2>3. QED
    BY ONLY i \in 1..k + 1, k \in Nat, <2>1, <2>2
<1>4. Len(u) = e + (k + 1)
  BY ONLY <1>1, <1>2, e \in Nat, k \in Nat
<1>5. QED
  BY <1>3, <1>4 DEF Begun

(* One byte more of a packet, not the last.                                 *)
LEMMA FlowByte ==
  ASSUME NEW r, NEW t \in Seq(Byte), NEW b \in Byte, NEW k \in Nat, NEW m,
         b = Packet[m][k + 1],
         NEW w, NEW un, NEW con, NEW seen, IsFlow(r, t, w, k, m, un, con, seen)
  PROVE  IsFlow(r, Append(t, b), w, k + 1, m, un, con, seen)
<1>1. PICK at, e : Flow(r, at, e, t, w, k, m, un, con, seen)
  BY DEF IsFlow
<1>2. Whole(r, at, e, t) /\ Begun(t, e, k, m) /\ e \in Nat
  BY <1>1 DEF Flow, Whole, Starts
<1>3. e <= Len(t)
  <2>1. Len(t) = e + k
    BY <1>2 DEF Begun
  <2>2. QED
    BY ONLY <1>2, <2>1, k \in Nat
<1>4. PICK u : u = Append(t, b)
  OBVIOUS
<1>5. Whole(r, at, e, u) /\ Begun(u, e, k + 1, m)
  BY <1>2, <1>3, <1>4, WholeExtended, BegunMore
<1>6. QED
  BY <1>1, <1>4, <1>5 DEF Flow, IsFlow

(* The last byte of a packet that r follows.                                *)
LEMMA FlowLastByte ==
  ASSUME NEW r, NEW t \in Seq(Byte), NEW b \in Byte, NEW k \in Nat, NEW m \in Message,
         b = Packet[m][k + 1], k + 1 = PacketLength(m), Follows(r, m),
         NEW w, NEW con, NEW seen, NEW at, NEW e, Flow(r, at, e, t, w, k, m, {}, con, seen),
         w = "deliver" => 0 \in DOMAIN at,
         m \notin con, Asks(r, m) => Meaning(m) \notin seen,
         NEW un, un = IF Asks(r, m) THEN {m} ELSE {},
         NEW more, con \subseteq more, Asks(r, m) => m \in more
  PROVE  IsFlow(r, Append(t, b), w, 0, m, un, more, seen)
<1>1. /\ Whole(r, at, e, t) /\ Begun(t, e, k, m) /\ e \in Nat /\ Starts(at, e)
      /\ Pending(r, at, e, w, {}, con, seen)
  BY DEF Flow, Whole, Starts
<1>2. e <= Len(t)
  <2>1. Len(t) = e + k
    BY <1>1 DEF Begun
  <2>2. QED
    BY ONLY <1>1, <2>1, k \in Nat
<1>3. PICK u : u = Append(t, b)
  OBVIOUS
<1>4. Whole(r, at, e, u) /\ Begun(u, e, k + 1, m)
  BY <1>1, <1>2, <1>3, WholeExtended, BegunMore
<1>5. m \in Unit /\ Size(m) = PacketLength(m) /\ UnitAt(r, u, e, m)
  <2>1. \A i \in 1..k + 1 : u[e + i] = Packet[m][i]
    BY <1>4 DEF Begun
  <2>2. PacketAt(u, e, m)
    BY <2>1 DEF PacketAt
  <2>3. QED
    BY <2>2, MessageUnit DEF UnitAt
<1>6. PICK new : new = [o \in DOMAIN at \cup {e} |-> IF o = e THEN m ELSE at[o]]
  OBVIOUS
<1>7. Whole(r, new, e + Size(m), u)
  BY <1>4, <1>5, <1>6, WholeAdded
<1>8. Pending(r, new, e + Size(m), w, un, more, seen)
  BY <1>1, <1>5, <1>6, PendingAdded
<1>9. Begun(u, e + Size(m), 0, m)
  <2>1. Len(u) = e + (k + 1)
    BY <1>4 DEF Begun
  <2>2. PICK l : l = e + Size(m)
    OBVIOUS
  <2>3. Len(u) = l + 0
    BY ONLY <1>1, <1>5, <2>1, <2>2, k \in Nat, k + 1 = PacketLength(m)
  <2>4. QED
    BY ONLY <2>2, <2>3 DEF Begun
<1>10. QED
  BY <1>3, <1>7, <1>8, <1>9 DEF Flow, IsFlow

(* A byte to skip: of a packet for someone else, or someone else's ACK.     *)
LEMMA FlowSkipped ==
  ASSUME NEW r, NEW t \in Seq(Byte), NEW b \in Byte, b \notin {r, BROADCAST},
         NEW w, NEW m, NEW con, con \subseteq Message, NEW seen, NEW at, NEW e,
         Flow(r, at, e, t, w, 0, m, {}, con, seen),
         w = "deliver" => 0 \in DOMAIN at
  PROVE  IsFlow(r, Append(t, b), w, 0, m, {}, con, seen)
<1>1. /\ Whole(r, at, e, t) /\ Begun(t, e, 0, m) /\ e \in Nat /\ Starts(at, e)
      /\ Pending(r, at, e, w, {}, con, seen)
  BY DEF Flow, Whole, Starts
<1>2. PICK u : u = Append(t, b)
  OBVIOUS
<1>3. PICK n \in Nat : /\ n = Len(t) /\ n = e /\ Len(u) = n + 1 /\ u[n + 1] = b
  <2>1. Len(t) \in Nat /\ Len(u) = Len(t) + 1 /\ u[Len(t) + 1] = b
    BY <1>2, AppendAt
  <2>2. Len(t) = e + 0
    BY <1>1 DEF Begun
  <2>3. QED
    BY ONLY <1>1, <2>1, <2>2
<1>4. Whole(r, at, e, u)
  <2>1. e <= Len(t)
    BY ONLY <1>3
  <2>2. QED
    BY <1>1, <1>2, <2>1, WholeExtended
<1>5. /\ NoMessage \in Unit /\ Size(NoMessage) = 1 /\ UnitAt(r, u, e, NoMessage)
      /\ NoMessage \notin con /\ ~Asks(r, NoMessage)
  BY <1>3, LinkAssumption DEF Unit, Size, UnitAt, Asks
<1>6. PICK new : new = [o \in DOMAIN at \cup {e} |-> IF o = e THEN NoMessage ELSE at[o]]
  OBVIOUS
<1>7. Whole(r, new, e + 1, u)
  BY <1>4, <1>5, <1>6, WholeAdded
<1>8. Pending(r, new, e + Size(NoMessage), w, {}, con, seen)
  BY <1>1, <1>5, <1>6, PendingAdded
<1>9. Begun(u, e + 1, 0, m)
  <2>1. Len(u) = (e + 1) + 0
    BY ONLY <1>1, <1>3
  <2>2. QED
    BY <2>1 DEF Begun
<1>10. QED
  BY <1>2, <1>5, <1>7, <1>8, <1>9 DEF Flow, IsFlow

LEMMA CleanSendByte ==
  ASSUME NEW s, OneSender(s), TypeInv, CleanInv(s), SendByte(s)
  PROVE  CleanInv(s)'
<1>1. /\ s \in Device /\ pc[s] = "send" /\ SenderInv(s)
      /\ UNCHANGED <<pc, msg, data, acked, taken>>
  BY DEF OneSender, SendByte, CleanInv
<1>2. PICK m \in Message : m = msg[s] /\ m \notin acked
  BY <1>1 DEF SenderInv
<1>3. PICK k \in Nat, l \in Nat : k = sent[s] /\ l = PacketLength(m)
  BY <1>1, LengthIs DEF TypeInv, SeqType
<1>4. PICK p \in Seq(Byte) : p = Packet[m] /\ Len(p) = l /\ p[1] = m.to
  BY <1>3, PacketLayout
<1>5. k < l /\ sent' = [sent EXCEPT ![s] = k + 1] /\ inq' = Heard(s, p[k + 1])
  BY <1>2, <1>3, <1>4 DEF SendByte
<1>6. PICK b \in Byte : b = p[k + 1] /\ k + 1 \in DOMAIN p /\ 1 \in DOMAIN p
  <2>1. k + 1 \in 1..Len(p) /\ 1 \in 1..Len(p)
    BY ONLY <1>3, <1>4, <1>5
  <2>2. QED
    BY <1>4, <2>1, ElementOfSeq
<1>7. /\ sent'[s] = k + 1 /\ inq'[s] = inq[s]
      /\ \A r \in Receivers(s) : inq'[r] = Append(inq[r], b)
  BY <1>1, <1>5, <1>6 DEF TypeInv, SeqType, Heard, Receivers
<1>8. ~AllSent(s) /\ inq[s] = <<>>
  <2>1. k # l
    BY ONLY <1>3, <1>5
  <2>2. QED
    BY <1>1, <1>2, <1>3, <2>1 DEF AllSent, SenderInv
<1>9. \A n \in Message : Delivered(n) => Delivered(n)'
  BY <1>1, DeliveredKept
<1>10. SenderInv(s)'
  <2>1. k + 1 <= l
    BY ONLY <1>3, <1>5
  <2>2. QED
    BY <1>1, <1>2, <1>3, <1>7, <1>8, <1>9, <2>1 DEF SenderInv
<1>11. ASSUME NEW r \in Receivers(s)
       PROVE  /\ ReceiverInv(s, r) /\ FlowInv(s, r) /\ r \in Device
              /\ Stream(r) \in Seq(Byte) /\ Stream(r)' = Append(Stream(r), b)
              /\ pc'[r] = pc[r] /\ data'[r] = data[r] /\ taken'[r] = taken[r]
              /\ Unanswered(s, r) = {} /\ Confirmed(s, r) \subseteq Confirmed(s, r)'
              /\ Confirmed(s, r) \subseteq Message /\ m \notin Confirmed(s, r)
              /\ ReceiverInv(s, r)' /\ Seen(r)' = Seen(r)
  <2>1. ReceiverInv(s, r) /\ FlowInv(s, r) /\ r \in Device
    BY DEF CleanInv, Receivers
  <2>2. Stream(r) \in Seq(Byte)
    BY <2>1, StreamType DEF TypeInv
  <2>3. data[r] \o Append(inq[r], b) = Append(data[r] \o inq[r], b)
    BY <2>1, ByteWritten DEF TypeInv, SeqType
  <2>4. Stream(r)' = Append(Stream(r), b)
    BY <1>1, <1>7, <2>3 DEF Stream
  <2>5. /\ Unanswered(s, r) = {} /\ Confirmed(s, r) \subseteq Confirmed(s, r)'
        /\ Confirmed(s, r) \subseteq Message /\ m \notin Confirmed(s, r)
    BY <1>1, <1>2, <1>8 DEF Unanswered, Confirmed
  <2>6. ReceiverInv(s, r)' /\ Seen(r)' = Seen(r)
    BY <1>1, <2>1, <2>5, ReceiverKept
  <2>7. QED
    BY <1>1, <2>1, <2>2, <2>4, <2>5, <2>6
<1>12. ASSUME NEW r \in Receivers(s), Follows(r, m), k + 1 # l PROVE FlowInv(s, r)'
  <2>1. ~AllSent(s)' /\ Partial(s, r) = k
    BY <1>1, <1>2, <1>3, <1>7, <1>8, <1>12 DEF AllSent, Partial
  <2>2. Partial(s, r)' = k + 1 /\ Unanswered(s, r)' = {} /\ Confirmed(s, r)' = Confirmed(s, r)
    BY <1>1, <1>2, <1>7, <1>8, <1>12, <2>1 DEF Partial, Unanswered, Confirmed
  <2>3. IsFlow(r, Stream(r), pc[r], k, m, {}, Confirmed(s, r), Seen(r))
    BY <1>2, <1>11, <2>1 DEF FlowInv
  <2>4. IsFlow(r, Append(Stream(r), b), pc[r], k + 1, m, {}, Confirmed(s, r), Seen(r))
    BY <1>4, <1>6, <1>11, <2>3, FlowByte
  <2>5. QED
    BY <1>1, <1>2, <1>11, <2>2, <2>4 DEF FlowInv
<1>13. ASSUME NEW r \in Receivers(s), Follows(r, m), k + 1 = l PROVE FlowInv(s, r)'
  <2>1. AllSent(s)' /\ Partial(s, r) = k
    BY <1>1, <1>2, <1>3, <1>7, <1>8, <1>13 DEF AllSent, Partial
  <2>2. /\ Partial(s, r)' = 0
        /\ Unanswered(s, r)' = IF Asks(r, m) THEN {m} ELSE {}
        /\ Asks(r, m) => m \in Confirmed(s, r)'
    BY <1>1, <1>2, <1>7, <1>8, <2>1 DEF Partial, Unanswered, Confirmed, Asks
  <2>3. PICK at, e : Flow(r, at, e, Stream(r), pc[r], k, m, {}, Confirmed(s, r), Seen(r))
    BY <1>2, <1>11, <2>1 DEF FlowInv, IsFlow
  <2>4. pc[r] = "deliver" => 0 \in DOMAIN at
    BY <1>1, <1>2, <2>1, <2>3, CompleteIsFirst DEF Flow
  <2>5. Asks(r, m) => Meaning(m) \notin Seen(r)
    BY <1>11 DEF ReceiverInv
  <2>6. IsFlow(r, Append(Stream(r), b), pc[r], 0, m, IF Asks(r, m) THEN {m} ELSE {},
               Confirmed(s, r)', Seen(r))
    BY <1>3, <1>4, <1>6, <1>11, <1>13, <2>2, <2>3, <2>4, <2>5, FlowLastByte
  <2>7. QED
    BY <1>1, <1>2, <1>11, <2>2, <2>6 DEF FlowInv
<1>14. ASSUME NEW r \in Receivers(s), ~Follows(r, m) PROVE FlowInv(s, r)'
  <2>1. b \notin {r, BROADCAST} /\ m.to # r
    BY <1>4, <1>6, <1>14 DEF OneSender, Skips, Receivers
  <2>2. Partial(s, r) = 0 /\ Partial(s, r)' = 0
    BY <1>1, <1>2, <1>14 DEF Partial
  <2>3. Unanswered(s, r)' = {} /\ Confirmed(s, r)' = Confirmed(s, r)
    BY <1>1, <1>2, <1>8, <2>1 DEF Unanswered, Confirmed, Asks
  <2>4. PICK at, e : Flow(r, at, e, Stream(r), pc[r], 0, m, {}, Confirmed(s, r), Seen(r))
    BY <1>2, <1>11, <2>2 DEF FlowInv, IsFlow
  <2>5. pc[r] = "deliver" => 0 \in DOMAIN at
    BY <1>1, <1>2, <2>2, <2>4, CompleteIsFirst DEF Flow
  <2>6. IsFlow(r, Append(Stream(r), b), pc[r], 0, m, {}, Confirmed(s, r), Seen(r))
    BY <1>6, <1>11, <2>1, <2>4, <2>5, FlowSkipped
  <2>7. QED
    BY <1>1, <1>2, <1>11, <2>2, <2>3, <2>6 DEF FlowInv
<1>15. QED
  BY <1>10, <1>11, <1>12, <1>13, <1>14 DEF CleanInv, Receivers

-----------------------------------------------------------------------------
(* One sender on a clean bus: a receiver's steps                            *)

(* A step of d that leaves the sender and the other receivers alone.        *)
LEMMA ReceiverMoved ==
  ASSUME NEW s, CleanInv(s), acked \subseteq Message, UNCHANGED <<msg, sent, acked>>,
         NEW d \in Receivers(s), pc'[s] = pc[s],
         inq'[s] = inq[s], taken'[s] = taken[s],
         \A r \in Receivers(s) \ {d} : /\ pc'[r] = pc[r] /\ data'[r] = data[r]
                                       /\ taken'[r] = taken[r] /\ inq'[r] = inq[r],
         \A m \in Message : Delivered(m) => Delivered(m)',
         ReceiverInv(s, d)',
         IsFlow(d, Stream(d)', pc'[d], Partial(s, d), msg[s], Unanswered(s, d),
                Confirmed(s, d), Seen(d)')
  PROVE  CleanInv(s)'
<1>1. SenderInv(s)' /\ \A r : Alike(s, r)
  BY SenderKept DEF CleanInv
<1>2. FlowInv(s, d)'
  BY <1>1 DEF FlowInv, Alike
<1>3. ASSUME NEW r \in Receivers(s) \ {d} PROVE ReceiverInv(s, r)' /\ FlowInv(s, r)'
  BY <1>1, OtherKept DEF CleanInv
<1>4. ASSUME NEW r \in Receivers(s) PROVE ReceiverInv(s, r)' /\ FlowInv(s, r)'
  BY <1>2, <1>3
<1>5. QED
  BY <1>1, <1>4 DEF CleanInv, Receivers

(* One unit fewer on its way.                                               *)
LEMMA FlowDropped ==
  ASSUME NEW r, NEW p \in Seq(Byte), NEW q \in Seq(Byte), NEW k \in Nat, NEW m, NEW un,
         NEW con, NEW seen, NEW at, NEW e, NEW w,
         Flow(r, at, e, p \o q, w, k, m, un, con, seen),
         0 \in DOMAIN at, Len(p) = Size(at[0]), w = "deliver" \/ at[0] \notin un,
         NEW more,
         \A n \in Message : n # at[0] /\ Meaning(n) \notin seen => Meaning(n) \notin more
  PROVE  IsFlow(r, q, "update", k, m, un, con, more)
<1>1. PICK t \in Seq(Byte), n \in Nat, l \in Nat :
        /\ t = p \o q /\ l = Len(p) /\ n = Len(q) /\ Len(t) = l + n
        /\ \A i \in 1..n : t[l + i] = q[i]
  <2>1. /\ p \o q \in Seq(Byte) /\ Len(p \o q) = Len(p) + Len(q)
        /\ Len(p) \in Nat /\ Len(q) \in Nat
        /\ \A i \in 1..Len(q) : (p \o q)[Len(p) + i] = q[i]
    BY Concatenated
  <2>2. QED
    BY ONLY <2>1, Zenon
<1>2. /\ Whole(r, at, e, t) /\ Starts(at, e) /\ Begun(t, e, k, m)
      /\ Pending(r, at, e, w, un, con, seen)
  BY <1>1 DEF Flow, Whole
<1>3. l = Size(at[0])
  BY <1>1
<1>4. 0 + l <= e /\ e \in Nat
  BY <1>2, <1>3, WholeEnds
<1>5. Len(t) = e + k /\ \A i \in 1..k : t[e + i] = Packet[m][i]
  BY <1>2 DEF Begun
<1>6. n = (e - l) + k /\ e - l \in Nat /\ (e - l) <= n
  BY ONLY <1>1, <1>4, <1>5, k \in Nat
<1>7. \A i \in 1..(e - l) : q[i] = t[l + i]
  <2>1. \A i \in 1..(e - l) : i \in 1..n
    BY ONLY <1>6, n \in Nat
  <2>2. QED
    BY <1>1, <2>1
<1>8. PICK f \in Nat : f = e - l
  BY <1>6
<1>9. Whole(r, Rest(at, l), f, q)
  BY <1>2, <1>3, <1>7, <1>8, WholeDropped
<1>10. Begun(q, f, k, m)
  <2>1. ASSUME NEW i \in 1..k PROVE q[f + i] = Packet[m][i]
    <3>1. f + i \in 1..n /\ l + (f + i) = e + i
      BY ONLY <1>4, <1>6, <1>8, k \in Nat, l \in Nat, i \in 1..k
    <3>2. t[l + (f + i)] = q[f + i]
      BY <1>1, <3>1
    <3>3. t[e + i] = Packet[m][i]
      BY <1>5
    <3>4. QED
      BY ONLY <3>1, <3>2, <3>3
  <2>2. Len(q) = f + k
    BY ONLY <1>1, <1>6, <1>8
  <2>3. QED
    BY <2>1, <2>2 DEF Begun
<1>11. Pending(r, Rest(at, l), f, "update", un, con, more)
  BY <1>2, <1>3, <1>8, PendingDropped
<1>12. QED
  BY <1>9, <1>10, <1>11 DEF Flow, IsFlow

(* What ReceiveByte finds and takes.                                        *)
LEMMA ByteTaken ==
  ASSUME TypeInv, NEW d \in Device, ReceiveByte(d),
         NEW a, a = Append(data[d], Head(inq[d]))
  PROVE  /\ a \in Seq(Byte) /\ a # <<>> /\ Tail(inq[d]) \in Seq(Byte)
         /\ a \o Tail(inq[d]) = Stream(d)
         /\ Prefix(a, Stream(d)) /\ Stream(d) \in Seq(Byte)
         /\ a[1] \notin {d, BROADCAST} => data[d] = <<>> /\ Len(a) = 1
<1>1. SeqType /\ inq[d] # <<>>
  BY DEF TypeInv, ReceiveByte
<1>2. PICK p \in Seq(Byte), q \in Seq(Byte), h \in Byte, z \in Seq(Byte) :
        p = data[d] /\ q = inq[d] /\ h = Head(q) /\ z = Tail(q)
  BY <1>1, HeadTailProperties DEF SeqType
<1>3. a \in Seq(Byte) /\ a # <<>>
  BY <1>2, AppendProperties
<1>4. a \o z = p \o q /\ Stream(d) = p \o q
  BY <1>1, <1>2, ByteRead DEF Stream
<1>5. Prefix(a, Stream(d)) /\ Stream(d) \in Seq(Byte)
  BY <1>2, <1>3, <1>4, PrefixOfStream
<1>6. ASSUME a[1] \notin {d, BROADCAST} PROVE p = <<>> /\ Len(a) = 1
  <2>1. PICK n \in Nat : n = Len(p) /\ Len(a) = n + 1 /\ \A i \in 1..n : a[i] = p[i]
    BY <1>2, AppendAt
  <2>2. n > 0 => p[1] \in {d, BROADCAST}
    BY <1>2, <2>1 DEF TypeInv, ReadingInv, Reading
  <2>3. n > 0 => a[1] = p[1]
    BY <2>1
  <2>4. n = 0
    BY ONLY <1>6, <2>2, <2>3, n \in Nat
  <2>5. Len(a) = 1 /\ Len(p) = 0
    BY ONLY <2>1, <2>4
  <2>6. QED
    BY <1>2, <2>5, EmptySeq
<1>7. QED
  BY <1>2, <1>3, <1>4, <1>5, <1>6

(* A byte to skip ends this call of receive().                              *)
LEMMA CleanByteSkipped ==
  ASSUME NEW s, OneSender(s), TypeInv, CleanInv(s), NEW d \in Receivers(s), ReceiveByte(d),
         Append(data[d], Head(inq[d]))[1] \notin {d, BROADCAST}
  PROVE  CleanInv(s)'
<1>1. /\ s \in Device /\ d \in Device /\ d # s /\ SeqType
      /\ acked \subseteq Message /\ SenderInv(s) /\ ReceiverInv(s, d) /\ FlowInv(s, d)
  BY DEF OneSender, Receivers, CleanInv, TypeInv, CountsInv
<1>2. /\ pc[d] # "deliver" /\ inq' = [inq EXCEPT ![d] = Tail(@)]
      /\ UNCHANGED <<msg, sent, acked, taken>>
  BY DEF ReceiveByte
<1>3. PICK a \in Seq(Byte), z \in Seq(Byte) :
        /\ a = Append(data[d], Head(inq[d])) /\ z = Tail(inq[d]) /\ a # <<>>
        /\ a \o z = Stream(d) /\ Prefix(a, Stream(d)) /\ Stream(d) \in Seq(Byte)
        /\ a[1] \notin {d, BROADCAST} /\ data[d] = <<>> /\ Len(a) = 1
  BY <1>1, ByteTaken
<1>4. PICK at, e : Flow(d, at, e, Stream(d), pc[d], Partial(s, d), msg[s],
                        Unanswered(s, d), Confirmed(s, d), Seen(d))
  BY <1>1 DEF FlowInv, IsFlow
<1>5. /\ Partial(s, d) \in Nat /\ Begins(d, Partial(s, d), msg[s])
      /\ \A n \in Unanswered(s, d) : Asks(d, n)
  BY <1>1, SenderFacts
<1>6. 0 \in DOMAIN at /\ at[0] = NoMessage
  BY <1>3, <1>4, <1>5, ByteIsSkipped DEF Flow
<1>7. GivenUp(d, a)
  BY <1>3 DEF GivenUp
<1>8. pc' = [pc EXCEPT ![d] = "update"] /\ data' = [data EXCEPT ![d] = <<>>]
  BY <1>3, <1>7 DEF ReceiveByte
<1>9. /\ pc'[d] = "update" /\ data'[d] = <<>> /\ inq'[d] = z
      /\ taken'[d] = taken[d] /\ pc'[s] = pc[s] /\ inq'[s] = inq[s]
      /\ \A r \in Device \ {d} : pc'[r] = pc[r] /\ data'[r] = data[r] /\ inq'[r] = inq[r]
  BY <1>1, <1>2, <1>3, <1>8 DEF SeqType
<1>10. Stream(d)' = z /\ Seen(d)' = Seen(d)
  BY <1>3, <1>9, ConcatEmptySeq DEF Stream, Seen
<1>11. \A m \in Message : Delivered(m) => Delivered(m)'
  BY <1>2, <1>9, DeliveredKept
<1>12. \A r : Alike(s, r)
  BY <1>1, <1>2, <1>9, <1>11, SenderKept
<1>13. ReceiverInv(s, d)'
  BY <1>1, <1>9, <1>10, <1>12 DEF ReceiverInv, Alike
<1>14. IsFlow(d, z, "update", Partial(s, d), msg[s], Unanswered(s, d), Confirmed(s, d), Seen(d))
  <2>1. at[0] \notin Unanswered(s, d)
    BY <1>5, <1>6, LinkAssumption DEF Asks
  <2>2. Len(a) = Size(at[0])
    BY <1>3, <1>6 DEF Size
  <2>3. PICK k \in Nat : k = Partial(s, d)
    BY <1>5
  <2>4. PICK un, con, seen : un = Unanswered(s, d) /\ con = Confirmed(s, d) /\ seen = Seen(d)
    OBVIOUS
  <2>5. Flow(d, at, e, a \o z, pc[d], k, msg[s], un, con, seen)
    BY <1>3, <1>4, <2>3, <2>4
  <2>6. IsFlow(d, z, "update", k, msg[s], un, con, seen)
    BY <1>6, <2>1, <2>2, <2>4, <2>5, FlowDropped
  <2>7. QED
    BY <2>3, <2>4, <2>6
<1>15. QED
  BY <1>1, <1>2, <1>9, <1>10, <1>11, <1>13, <1>14, ReceiverMoved DEF Receivers

LEMMA CleanReceiveByte ==
  ASSUME NEW s, OneSender(s), TypeInv, CleanInv(s), NEW d \in Receivers(s), ReceiveByte(d)
  PROVE  CleanInv(s)'
<1>1. /\ s \in Device /\ d \in Device /\ d # s /\ SeqType
      /\ acked \subseteq Message /\ SenderInv(s) /\ ReceiverInv(s, d) /\ FlowInv(s, d)
  BY DEF OneSender, Receivers, CleanInv, TypeInv, CountsInv
<1>2. /\ pc[d] # "deliver" /\ inq' = [inq EXCEPT ![d] = Tail(@)]
      /\ UNCHANGED <<msg, sent, acked, taken>>
  BY DEF ReceiveByte
<1>3. PICK a \in Seq(Byte), z \in Seq(Byte) :
        /\ a = Append(data[d], Head(inq[d])) /\ z = Tail(inq[d]) /\ a # <<>>
        /\ a \o z = Stream(d) /\ Prefix(a, Stream(d)) /\ Stream(d) \in Seq(Byte)
  BY <1>1, ByteTaken
<1>4. CASE a[1] \notin {d, BROADCAST}
  BY <1>3, <1>4, CleanByteSkipped
<1>5. CASE a[1] \in {d, BROADCAST}
  <2>1. PICK at, e : Flow(d, at, e, Stream(d), pc[d], Partial(s, d), msg[s],
                          Unanswered(s, d), Confirmed(s, d), Seen(d))
    BY <1>1 DEF FlowInv, IsFlow
  <2>2. ~GivenUp(d, a)
    <3>1. Partial(s, d) \in Nat /\ Begins(d, Partial(s, d), msg[s])
      BY <1>1, SenderFacts
    <3>2. Whole(d, at, e, Stream(d)) /\ Begun(Stream(d), e, Partial(s, d), msg[s])
      BY <2>1 DEF Flow
    <3>3. QED
      BY <1>3, <1>5, <3>1, <3>2, PacketIsRead
  <2>3. /\ pc' = [pc EXCEPT ![d] = IF Complete(a) THEN "check" ELSE "receive"]
        /\ data' = [data EXCEPT ![d] = a]
    BY <1>3, <2>2 DEF ReceiveByte
  <2>4. /\ pc'[d] \in {"check", "receive"} /\ data'[d] = a /\ inq'[d] = z
        /\ taken'[d] = taken[d] /\ pc'[s] = pc[s] /\ inq'[s] = inq[s]
        /\ \A r \in Device \ {d} : pc'[r] = pc[r] /\ data'[r] = data[r] /\ inq'[r] = inq[r]
    BY <1>1, <1>2, <1>3, <2>3 DEF SeqType
  <2>5. Stream(d)' = Stream(d) /\ Seen(d)' = Seen(d)
    BY <1>3, <2>4 DEF Stream, Seen
  <2>6. \A m \in Message : Delivered(m) => Delivered(m)'
    BY <1>2, <2>4, DeliveredKept
  <2>7. \A r : Alike(s, r)
    BY <1>1, <1>2, <2>4, <2>6, SenderKept
  <2>8. ReceiverInv(s, d)'
    BY <1>1, <1>3, <2>4, <2>5, <2>7 DEF ReceiverInv, Alike
  <2>9. IsFlow(d, Stream(d), pc'[d], Partial(s, d), msg[s], Unanswered(s, d),
               Confirmed(s, d), Seen(d))
    BY <1>1, <1>2, <2>4, FlowMoves DEF FlowInv
  <2>10. QED
    BY <1>1, <1>2, <2>4, <2>5, <2>6, <2>8, <2>9, ReceiverMoved DEF Receivers
<1>6. QED
  BY <1>4, <1>5

(* The timeout of receive() never comes.                                    *)
LEMMA CleanReceiveTimeout ==
  ASSUME NEW s, OneSender(s), TypeInv, CleanInv(s), NEW d \in Receivers(s), ReceiveTimeout(d)
  PROVE  FALSE
<1>1. /\ s \in Device /\ d \in Device \ {s} /\ d \in Device /\ SeqType
      /\ SenderInv(s) /\ ReceiverInv(s, d) /\ FlowInv(s, d)
  BY DEF OneSender, Receivers, CleanInv, TypeInv
<1>2. pc[d] = "receive" /\ inq[d] = <<>> /\ pc[s] # "send" /\ data[d] # <<>>
  BY <1>1 DEF OneSender, ReceiveTimeout, ReceiverInv
<1>3. PICK p \in Seq(Byte) : p = data[d] /\ p # <<>>
  BY <1>1, <1>2 DEF SeqType
<1>4. Stream(d) = p
  BY <1>2, <1>3, ConcatEmptySeq DEF Stream
<1>5. Partial(s, d) = 0
  <2>1. Partial(s, d) \in Nat /\ (Partial(s, d) > 0 => pc[s] = "send")
    BY <1>1, SenderFacts
  <2>2. QED
    BY ONLY <1>2, <2>1
<1>6. PICK at, e : Whole(d, at, e, p) /\ Begun(p, e, 0, msg[s]) /\ Starts(at, e)
  BY <1>1, <1>4, <1>5 DEF FlowInv, IsFlow, Flow, Whole
<1>7. PICK n \in Nat : n = Len(p) /\ n > 0 /\ n = e
  <2>1. Len(p) \in Nat \ {0}
    BY <1>3, EmptySeq
  <2>2. Len(p) = e + 0 /\ e \in Nat
    BY <1>6 DEF Begun, Starts
  <2>3. QED
    BY ONLY <2>1, <2>2
<1>8. Reading(d, "receive", p)
  BY <1>1, <1>2, <1>3 DEF TypeInv, ReadingInv
<1>9. 0 \in DOMAIN at /\ p[0 + 1] \in {d, BROADCAST}
  BY <1>6, <1>7, <1>8 DEF Starts, Reading
<1>10. at[0] \in Unit /\ 0 + Size(at[0]) <= e /\ UnitAt(d, p, 0, at[0])
  BY <1>6, <1>9, WholeEnds DEF Whole
<1>11. PICK m \in Message : /\ Size(m) = PacketLength(m) /\ 0 + Size(m) <= e
                            /\ Follows(d, m) /\ PacketAt(p, 0, m)
  BY <1>9, <1>10, MessageUnit DEF Unit, UnitAt
<1>12. PICK l \in Nat : l = PacketLength(m) /\ l <= n /\ l >= 5 /\ p[2] = l
  <2>1. PICK l \in Nat : l = PacketLength(m)
    BY LengthIs
  <2>2. l \in 5 .. PACKET_MAX_LENGTH - 1 /\ Packet[m][2] = l
    BY <1>11, <2>1, PacketLayout DEF Follows
  <2>3. l >= 5 /\ l <= n /\ 2 \in 1..l /\ 0 + 2 = 2
    BY ONLY <1>7, <1>11, <2>1, <2>2, l \in Nat
  <2>4. p[0 + 2] = Packet[m][2]
    BY <1>11, <2>1, <2>3 DEF PacketAt
  <2>5. QED
    BY <2>1, <2>2, <2>3, <2>4
<1>13. n > 2 => n <= l /\ n # l
  BY <1>7, <1>8, <1>12 DEF Reading, Complete
<1>14. QED
  BY ONLY <1>12, <1>13, l \in Nat, n \in Nat

(* Another receiver hears the ACK of the recipient, and skips it.           *)
LEMMA AckSkipped ==
  ASSUME NEW s, OneSender(s), TypeInv, CleanInv(s), AllSent(s), AllSent(s)',
         NEW r \in Receivers(s), msg[s].to # r,
         UNCHANGED <<data, msg, sent, acked, taken>>, pc'[r] = pc[r],
         inq'[r] = Append(inq[r], ACK)
  PROVE  ReceiverInv(s, r)' /\ FlowInv(s, r)'
<1>1. /\ r \in Device /\ SeqType /\ SenderInv(s) /\ ReceiverInv(s, r) /\ FlowInv(s, r)
  BY DEF Receivers, CleanInv, TypeInv
<1>2. ACK \in Byte /\ ACK \notin {r, BROADCAST}
  BY <1>1 DEF ACK, BROADCAST, Byte, OneSender
<1>3. /\ Partial(s, r) = 0 /\ Partial(s, r)' = 0
      /\ Unanswered(s, r) = {} /\ Unanswered(s, r)' = {}
      /\ Confirmed(s, r)' = Confirmed(s, r) /\ Confirmed(s, r) \subseteq Message
  BY DEF Partial, Unanswered, Confirmed, Asks
<1>4. PICK at, e : Flow(r, at, e, Stream(r), pc[r], 0, msg[s], {}, Confirmed(s, r), Seen(r))
  BY <1>1, <1>3 DEF FlowInv, IsFlow
<1>5. pc[r] = "deliver" => 0 \in DOMAIN at
  BY <1>1, <1>3, <1>4, CompleteIsFirst DEF Flow
<1>6. Stream(r) \in Seq(Byte) /\ Stream(r)' = Append(Stream(r), ACK)
  <2>1. data[r] \in Seq(Byte) /\ inq[r] \in Seq(Byte)
    BY <1>1 DEF SeqType
  <2>2. data[r] \o Append(inq[r], ACK) = Append(data[r] \o inq[r], ACK)
    BY ONLY <1>2, <2>1, ByteWritten
  <2>3. Stream(r) \in Seq(Byte)
    BY <1>1, StreamType
  <2>4. data'[r] = data[r]
    OBVIOUS
  <2>5. QED
    BY <2>2, <2>3, <2>4 DEF Stream
<1>7. IsFlow(r, Append(Stream(r), ACK), pc[r], 0, msg[s], {}, Confirmed(s, r), Seen(r))
  BY <1>2, <1>3, <1>4, <1>5, <1>6, FlowSkipped
<1>8. ReceiverInv(s, r)' /\ Seen(r)' = Seen(r)
  BY <1>1, <1>3, ReceiverKept
<1>9. QED
  BY <1>3, <1>6, <1>7, <1>8 DEF FlowInv

(* The packet is accepted, and answered if it wants that.                   *)
LEMMA CleanCheckPacket ==
  ASSUME NEW s, OneSender(s), TypeInv, CleanInv(s), NEW d \in Receivers(s), CheckPacket(d)
  PROVE  CleanInv(s)'
<1>1. /\ s \in Device /\ d \in Device /\ d # s /\ SeqType /\ pc[d] = "check"
      /\ acked \subseteq Message /\ SenderInv(s) /\ ReceiverInv(s, d) /\ FlowInv(s, d)
  BY DEF OneSender, Receivers, CleanInv, TypeInv, CountsInv, CheckPacket
<1>2. PICK at, e : Flow(d, at, e, Stream(d), "check", Partial(s, d), msg[s],
                        Unanswered(s, d), Confirmed(s, d), Seen(d))
  BY <1>1 DEF FlowInv, IsFlow
<1>3. 0 \in DOMAIN at /\ at[0] \in Message /\ data[d] = Packet[at[0]]
  BY <1>1, <1>2, CompleteIsFirst DEF Flow
<1>4. PICK n \in Message : n = at[0] /\ data[d] = Packet[n] /\ n.to \in {d, BROADCAST}
  BY <1>2, <1>3, LinkAssumption DEF Flow, Whole, UnitAt, Follows
<1>5. Accepted(data[d]) /\ data[d][1] = n.to /\ data[d][3] = n.header
  BY <1>4, PacketLayout
<1>6. /\ pc' = [pc EXCEPT ![d] = "deliver"] /\ inq' = Answered(d)
      /\ UNCHANGED <<data, msg, sent, acked, taken>>
  BY <1>5 DEF CheckPacket
<1>7. /\ pc'[d] = "deliver" /\ pc'[s] = pc[s]
      /\ \A r \in Device \ {d} : pc'[r] = pc[r]
  BY <1>1, <1>6 DEF SeqType
<1>8. \A m \in Message : Delivered(m) => Delivered(m)'
  BY <1>1, <1>6, <1>7, DeliveredKept
<1>9. /\ Answered(d) = IF Asks(d, n) THEN Heard(d, ACK) ELSE inq
      /\ Asks(d, n) => WantsAck(n) /\ n.to = d
  BY <1>4, <1>5 DEF Answered, WantsAck, Asks
<1>10. /\ Unanswered(s, d) \subseteq {msg[s]} /\ \A m \in Unanswered(s, d) : Asks(d, m)
  BY <1>1, SenderFacts
<1>11. /\ Asks(d, n) => n \in Unanswered(s, d)
       /\ Pending(d, at, e, "deliver", IF Asks(d, n) THEN {} ELSE Unanswered(s, d),
                  Confirmed(s, d), Seen(d))
  BY <1>2, <1>3, <1>4, <1>10, PendingAccepted DEF Flow
<1>12. IsFlow(d, Stream(d), "deliver", Partial(s, d), msg[s],
              IF Asks(d, n) THEN {} ELSE Unanswered(s, d), Confirmed(s, d), Seen(d))
  BY <1>2, <1>11 DEF Flow, IsFlow
<1>13. CASE Asks(d, n)
  <2>1. n = msg[s] /\ AllSent(s) /\ inq[s] = <<>> /\ WantsAck(n) /\ n.to = d
    BY <1>9, <1>11, <1>13 DEF Unanswered
  <2>2. /\ inq'[d] = inq[d] /\ inq'[s] = <<ACK>>
        /\ \A r \in Device \ {d} : inq'[r] = Append(inq[r], ACK)
    <3>1. inq' = [r \in Device |-> IF r = d THEN inq[r] ELSE Append(inq[r], ACK)]
      BY <1>6, <1>9, <1>13 DEF Heard
    <3>2. /\ inq'[d] = inq[d] /\ inq'[s] = Append(inq[s], ACK)
          /\ \A r \in Device \ {d} : inq'[r] = Append(inq[r], ACK)
      BY <1>1, <3>1
    <3>3. Append(<<>>, ACK) = <<ACK>>
      OBVIOUS
    <3>4. QED
      BY <2>1, <3>2, <3>3
  <2>3. AllSent(s)'
    BY <1>6, <1>7, <2>1 DEF AllSent
  <2>4. Delivered(n)'
    BY <1>1, <1>4, <1>6, <1>7, <2>1 DEF Delivered
  <2>5. SenderInv(s)'
    BY <1>1, <1>6, <1>7, <1>8, <2>1, <2>2, <2>3, <2>4 DEF SenderInv
  <2>6. /\ Partial(s, d)' = Partial(s, d) /\ Confirmed(s, d)' = Confirmed(s, d)
        /\ Unanswered(s, d)' = {}
    BY <1>6, <2>1, <2>2, <2>3 DEF Partial, Confirmed, Unanswered
  <2>7. Stream(d)' = Stream(d) /\ Seen(d)' = Seen(d)
    BY <1>6, <2>2 DEF Stream, Seen
  <2>8. ReceiverInv(s, d)'
    BY <1>1, <1>6, <1>7, <2>6, <2>7 DEF ReceiverInv
  <2>9. FlowInv(s, d)'
    BY <1>6, <1>7, <1>12, <1>13, <2>6, <2>7 DEF FlowInv
  <2>10. ASSUME NEW r \in Receivers(s), r # d PROVE ReceiverInv(s, r)' /\ FlowInv(s, r)'
    <3>1. /\ msg[s].to # r /\ pc'[r] = pc[r] /\ inq'[r] = Append(inq[r], ACK)
      BY <1>7, <2>1, <2>2, <2>10 DEF Receivers
    <3>2. QED
      BY <1>6, <2>1, <2>3, <3>1, AckSkipped
  <2>11. QED
    BY <2>5, <2>8, <2>9, <2>10 DEF CleanInv, Receivers
<1>14. CASE ~Asks(d, n)
  <2>1. UNCHANGED inq
    BY <1>6, <1>9, <1>14
  <2>2. Stream(d)' = Stream(d) /\ Seen(d)' = Seen(d)
    BY <1>6, <2>1 DEF Stream, Seen
  <2>3. \A r : Alike(s, r)
    BY <1>1, <1>6, <1>7, <1>8, <2>1, SenderKept
  <2>4. ReceiverInv(s, d)'
    BY <1>1, <1>6, <1>7, <2>2, <2>3 DEF ReceiverInv, Alike
  <2>5. QED
    BY <1>1, <1>6, <1>7, <1>8, <1>12, <1>14, <2>1, <2>2, <2>4, ReceiverMoved DEF Receivers
<1>15. QED
  BY <1>13, <1>14

LEMMA CleanDeliver ==
  ASSUME NEW s, OneSender(s), TypeInv, CleanInv(s), NEW d \in Receivers(s), Deliver(d)
  PROVE  CleanInv(s)'
<1>1. /\ s \in Device /\ d \in Device /\ d # s /\ SeqType /\ pc[d] = "deliver"
      /\ acked \subseteq Message /\ SenderInv(s) /\ ReceiverInv(s, d) /\ FlowInv(s, d)
  BY DEF OneSender, Receivers, CleanInv, TypeInv, CountsInv, Deliver
<1>2. PICK at, e : Flow(d, at, e, Stream(d), "deliver", Partial(s, d), msg[s],
                        Unanswered(s, d), Confirmed(s, d), Seen(d))
  BY <1>1 DEF FlowInv, IsFlow
<1>3. 0 \in DOMAIN at /\ at[0] \in Message /\ data[d] = Packet[at[0]]
  BY <1>1, <1>2, CompleteIsFirst DEF Flow
<1>4. PICK n \in Message : n = at[0] /\ data[d] = Packet[n] /\ n.to \in {d, BROADCAST}
  BY <1>2, <1>3, LinkAssumption DEF Flow, Whole, UnitAt, Follows
<1>5. PICK x : x = Received(data[d]) /\ x = Meaning(n)
  BY <1>4, PacketLayout
<1>6. /\ taken' = [taken EXCEPT ![d] = Append(taken[d], x)]
      /\ pc' = [pc EXCEPT ![d] = "update"] /\ data' = [data EXCEPT ![d] = <<>>]
      /\ UNCHANGED <<inq, msg, sent, acked>>
  BY <1>5 DEF Deliver
<1>7. /\ taken'[d] = Append(taken[d], x) /\ taken'[s] = taken[s]
      /\ pc'[d] = "update" /\ data'[d] = <<>> /\ pc'[s] = pc[s]
      /\ \A r \in Device \ {d} : pc'[r] = pc[r] /\ data'[r] = data[r] /\ taken'[r] = taken[r]
  BY <1>1, <1>6 DEF SeqType
<1>8. PICK g \in Nat : /\ DOMAIN taken[d] = 1..g /\ DOMAIN taken'[d] = 1..g + 1
                       /\ taken'[d][g + 1] = x
                       /\ \A i \in 1..g : taken'[d][i] = taken[d][i]
  <2>1. taken[d] \in Seq(Packets) /\ x \in Packets
    BY <1>1, <1>5 DEF SeqType, Packets
  <2>2. QED
    BY <1>7, <2>1, AppendAt
<1>9. Seen(d)' = Seen(d) \cup {x}
  <2>1. \A i \in 1..g + 1 : i \in 1..g \/ i = g + 1
    OBVIOUS
  <2>2. g + 1 \in 1..g + 1 /\ \A i \in 1..g : i \in 1..g + 1
    OBVIOUS
  <2>3. {taken'[d][i] : i \in 1..g + 1} = {taken[d][i] : i \in 1..g} \cup {x}
    BY ONLY <1>8, <2>1, <2>2
  <2>4. QED
    BY <1>8, <2>3 DEF Seen
<1>10. ASSUME NEW m \in Message, Delivered(m) PROVE Delivered(m)'
  <2>1. CASE m.to = d
    <3>1. Meaning(m) \in Seen(d)'
      BY <1>5, <1>9, <1>10, <2>1, PacketLayout DEF Delivered
    <3>2. QED
      BY <1>10, <2>1, <3>1 DEF Delivered
  <2>2. CASE m.to # d
    BY <1>7, <1>10, <2>2 DEF Delivered, Seen
  <2>3. QED
    BY <2>1, <2>2
<1>11. \A r : Alike(s, r)
  BY <1>1, <1>6, <1>7, <1>10, SenderKept
<1>12. Asks(d, n) => n \in Confirmed(s, d) /\ x \notin Seen(d)
  BY <1>2, <1>3, <1>4, <1>5 DEF Flow, Pending
<1>13. ASSUME NEW m \in Message, Asks(d, m)
       PROVE  /\ Meaning(m) \in Seen(d)' => m \in Confirmed(s, d)
              /\ \A i, j \in 1..g + 1 :
                   taken'[d][i] = Meaning(m) /\ taken'[d][j] = Meaning(m) => i = j
  <2>1. /\ Meaning(m) \in Seen(d) => m \in Confirmed(s, d)
        /\ \A i, j \in 1..g : taken[d][i] = Meaning(m) /\ taken[d][j] = Meaning(m) => i = j
    BY <1>1, <1>8, <1>13 DEF ReceiverInv
  <2>2. CASE Meaning(m) = x
    <3>1. m = n
      BY <1>5, <2>2 DEF OneSender
    <3>2. \A i \in 1..g : taken[d][i] # x
      BY <1>8, <1>12, <1>13, <3>1 DEF Seen
    <3>3. \A i \in 1..g + 1 : taken'[d][i] = x => i = g + 1
      BY ONLY <1>8, <3>2
    <3>4. QED
      BY <1>12, <1>13, <2>2, <3>1, <3>3
  <2>3. CASE Meaning(m) # x
    <3>1. Meaning(m) \in Seen(d)' => m \in Confirmed(s, d)
      BY <1>9, <2>1, <2>3
    <3>2. \A i \in 1..g + 1 : taken'[d][i] = Meaning(m) => i \in 1..g /\ taken[d][i] = Meaning(m)
      BY ONLY <1>8, <2>3
    <3>3. QED
      BY <2>1, <3>1, <3>2
  <2>4. QED
    BY <2>2, <2>3
<1>14. Seen(d)' \subseteq {Meaning(m) : m \in {k \in Message : k.to \in {d, BROADCAST}}}
  BY <1>1, <1>4, <1>5, <1>9 DEF ReceiverInv
<1>15. ReceiverInv(s, d)'
  BY <1>7, <1>8, <1>11, <1>13, <1>14 DEF ReceiverInv, Alike
<1>16. IsFlow(d, Stream(d)', "update", Partial(s, d), msg[s], Unanswered(s, d),
              Confirmed(s, d), Seen(d)')
  <2>1. PICK p \in Seq(Byte), q \in Seq(Byte) : p = data[d] /\ q = inq[d]
    BY <1>1 DEF SeqType
  <2>2. Stream(d) = p \o q /\ Stream(d)' = q
    BY <1>6, <1>7, <2>1, ConcatEmptySeq DEF Stream
  <2>3. PICK k \in Nat : k = Partial(s, d)
    BY <1>1, SenderFacts
  <2>4. PICK un, con, seen : un = Unanswered(s, d) /\ con = Confirmed(s, d) /\ seen = Seen(d)
    OBVIOUS
  <2>5. Flow(d, at, e, p \o q, "deliver", k, msg[s], un, con, seen)
    BY <1>2, <2>2, <2>3, <2>4
  <2>6. Len(p) = Size(at[0])
    BY <1>3, <2>1, PacketLayout, MessageUnit
  <2>7. \A m \in Message : m # at[0] /\ Meaning(m) \notin seen => Meaning(m) \notin seen \cup {x}
    BY <1>4, <1>5 DEF OneSender
  <2>8. IsFlow(d, q, "update", k, msg[s], un, con, seen \cup {x})
    BY <1>3, <2>5, <2>6, <2>7, FlowDropped
  <2>9. QED
    BY <1>9, <2>2, <2>3, <2>4, <2>8
<1>17. QED
  BY <1>1, <1>6, <1>7, <1>10, <1>15, <1>16, ReceiverMoved DEF Receivers

-----------------------------------------------------------------------------
(* One sender on a clean bus: the theorems                                  *)

LEMMA CleanInit ==
  ASSUME NEW s, OneSender(s), Init
  PROVE  CleanInv(s)
<1>1. /\ s \in Device /\ acked = {}
      /\ \A d \in Device : /\ inq[d] = <<>> /\ data[d] = <<>> /\ taken[d] = <<>>
                           /\ pc[d] = "update" /\ sent[d] = 0
  BY DEF OneSender, Init
<1>2. SenderInv(s)
  BY <1>1 DEF SenderInv
<1>3. \A r : Partial(s, r) = 0 /\ Unanswered(s, r) = {}
  BY <1>1 DEF Partial, Unanswered, AllSent
<1>4. ASSUME NEW r \in Receivers(s) PROVE ReceiverInv(s, r) /\ FlowInv(s, r)
  <2>1. r \in Device
    BY DEF Receivers
  <2>2. Stream(r) = <<>> /\ Seen(r) = {} /\ pc[r] = "update" /\ taken[r] = <<>>
    BY <1>1, <2>1 DEF Stream, Seen
  <2>3. ReceiverInv(s, r)
    BY <1>1, <2>1, <2>2 DEF ReceiverInv
  <2>4. PICK at : at = [o \in {} |-> 0]
    OBVIOUS
  <2>5. Whole(r, at, 0, <<>>)
    BY <2>4 DEF Whole, Starts
  <2>6. Begun(<<>>, 0, 0, msg[s])
    BY DEF Begun
  <2>7. Pending(r, at, 0, "update", {}, Confirmed(s, r), {})
    BY <2>4 DEF Pending
  <2>8. QED
    BY <1>3, <2>2, <2>3, <2>5, <2>6, <2>7 DEF FlowInv, IsFlow, Flow
<1>5. QED
  BY <1>2, <1>4 DEF CleanInv

(* CleanInv holds until the bus spoils a byte.                              *)
CleanUntilFault(s) == faults = 0 => CleanInv(s)

LEMMA CleanIoStep ==
  ASSUME NEW s, OneSender(s), TypeInv, CleanInv(s), NEW d \in Device, IoStep(d)
  PROVE  CleanInv(s)'
<1>1. CASE d = s
  <2>1. SenderInv(s) /\ pc[s] \in {"update", "send", "response"} /\ s \in Device
    BY DEF OneSender, CleanInv, SenderInv
  <2>2. pc[s] = "update" => inq[s] = <<>>
    BY <2>1 DEF SenderInv, AllSent
  <2>3. ~ReceiveByte(s) /\ ~ReceiveTimeout(s) /\ ~CheckPacket(s) /\ ~Deliver(s)
    BY <2>1, <2>2 DEF ReceiveByte, ReceiveTimeout, CheckPacket, Deliver
  <2>4. QED
    BY <1>1, <2>3, CleanStartSend, CleanSendByte, CleanSendDone, CleanReceiveResponse,
       CleanResponseTimeout DEF IoStep
<1>2. CASE d # s
  <2>1. d \in Receivers(s) /\ ReceiverInv(s, d)
    BY <1>2 DEF Receivers, CleanInv
  <2>2. /\ \A m \in Message : ~StartSend(d, m)
        /\ ~SendByte(d) /\ ~SendDone(d) /\ ~ReceiveResponse(d) /\ ~ResponseTimeout(d)
    <3>1. \A m \in Message : m.from # d
      BY <1>2 DEF OneSender
    <3>2. \A m \in Message : ~StartSend(d, m)
      BY <3>1 DEF StartSend
    <3>3. pc[d] \notin {"send", "response"}
      BY <2>1 DEF ReceiverInv
    <3>4. QED
      BY <3>2, <3>3 DEF SendByte, SendDone, ReceiveResponse, ResponseTimeout
  <2>3. QED
    BY <2>1, <2>2, CleanReceiveByte, CleanReceiveTimeout, CleanCheckPacket, CleanDeliver
       DEF IoStep
<1>3. QED
  BY <1>1, <1>2

LEMMA CleanStep ==
  ASSUME NEW s, OneSender(s), TypeInv, CleanUntilFault(s), [Next]_vars
  PROVE  CleanUntilFault(s)'
<1>1. SUFFICES ASSUME faults' = 0 PROVE CleanInv(s)'
  BY DEF CleanUntilFault
<1>2. faults \in Nat
  BY LinkAssumption DEF TypeInv, CountsInv
<1>3. ASSUME NEW d \in Device, IoStep(d) PROVE CleanInv(s)'
  <2>1. UNCHANGED faults
    BY <1>3 DEF IoStep, StartSend, SendByte, SendDone, SendReturns, ReceiveResponse,
       ResponseTimeout, ReceiveByte, ReceiveTimeout, CheckPacket, Deliver
  <2>2. CleanInv(s)
    BY <1>1, <2>1 DEF CleanUntilFault
  <2>3. QED
    BY <1>3, <2>2, CleanIoStep
<1>4. ASSUME NEW d \in Device, LoseByte(d) \/ ChangeByte(d) PROVE CleanInv(s)'
  <2>1. faults' = faults + 1
    BY <1>4 DEF LoseByte, ChangeByte
  <2>2. QED
    BY ONLY <1>1, <1>2, <2>1
<1>5. ASSUME UNCHANGED vars PROVE CleanInv(s)'
  <2>1. UNCHANGED <<inq, pc, msg, sent, data, acked, taken, faults>>
    BY <1>5 DEF vars
  <2>2. CleanInv(s) /\ s \in Device
    BY <1>1, <2>1 DEF CleanUntilFault, OneSender
  <2>3. \A m \in Message : Delivered(m) => Delivered(m)'
    BY <2>1 DEF Delivered, Seen
  <2>4. acked \subseteq Message
    BY DEF TypeInv, CountsInv
  <2>5. SenderInv(s)' /\ \A r : Alike(s, r)
    BY <2>1, <2>2, <2>3, <2>4, SenderKept DEF CleanInv
  <2>6. QED
    BY <2>1, <2>2, <2>5, SenderSilent
<1>6. QED
  BY <1>3, <1>4, <1>5 DEF Next

LEMMA CleanAlways ==
  ASSUME NEW s, OneSender(s)
  PROVE  Spec => [](TypeInv /\ CleanUntilFault(s))
<1>1. Init => TypeInv /\ StoreInv /\ CleanUntilFault(s)
  BY TypeInit, StoreInit, CleanInit DEF CleanUntilFault
<1>2. TypeInv /\ StoreInv /\ CleanUntilFault(s) /\ [Next]_vars
        => (TypeInv /\ StoreInv /\ CleanUntilFault(s))'
  BY TypeStep, StoreStep, CleanStep
<1>3. QED
  BY <1>1, <1>2, PTL DEF Spec

(* With one sender, until the bus spoils a byte, the receiver function is   *)
(* only called with what that sender sent to this device or to all, however *)
(* the reading of receive() falls behind the writing of send_string(), and  *)
(* although a bystander starts receive() at every byte of a packet.         *)
THEOREM IntegrityWithOneSender == Spec => []IntegrityOfOneSender
<1>1. ASSUME NEW s, OneSender(s)
      PROVE  Spec => [](faults = 0 => Integrity)
  <2>1. TypeInv /\ CleanUntilFault(s) => (faults = 0 => Integrity)
    <3>1. SUFFICES ASSUME TypeInv, CleanInv(s), NEW d \in Device, NEW i \in DOMAIN taken[d]
                   PROVE  \E m \in Message : /\ m.from # d /\ m.to \in {d, BROADCAST}
                                             /\ taken[d][i] = Meaning(m)
      BY DEF CleanUntilFault, Integrity
    <3>2. d # s
      <4>1. taken[s] = <<>> /\ DOMAIN <<>> = {}
        BY <3>1 DEF CleanInv, SenderInv
      <4>2. QED
        BY <3>1, <4>1
    <3>3. taken[d][i] \in Seen(d) /\ d \in Receivers(s)
      BY <3>1, <3>2 DEF Seen, Receivers
    <3>4. PICK m \in Message : m.to \in {d, BROADCAST} /\ taken[d][i] = Meaning(m)
      BY <3>1, <3>3 DEF CleanInv, ReceiverInv
    <3>5. QED
      BY <1>1, <3>1, <3>2, <3>4 DEF OneSender
  <2>2. QED
    BY <1>1, <2>1, CleanAlways, PTL
<1>2. CASE \E s \in Device : OneSender(s)
  <2>1. Spec => [](faults = 0 => Integrity)
    BY <1>1, <1>2
  <2>2. (faults = 0 => Integrity) => IntegrityOfOneSender
    BY DEF IntegrityOfOneSender
  <2>3. QED
    BY <2>1, <2>2, PTL
<1>3. CASE ~\E s \in Device : OneSender(s)
  <2>1. IntegrityOfOneSender
    BY <1>3 DEF IntegrityOfOneSender
  <2>2. QED
    BY <2>1, PTL
<1>4. QED
  BY <1>2, <1>3

(* AckMeansDelivered, for one sender until the bus spoils a byte: an ACK    *)
(* that receive_response() reads is the answer to the packet just sent, not *)
(* to an earlier one.                                                       *)
THEOREM AckMeansDeliveredUntilFault ==
  ASSUME NEW s, OneSender(s)
  PROVE  Spec => [](faults = 0 => AckMeansDelivered)
<1>1. TypeInv /\ CleanUntilFault(s) => (faults = 0 => AckMeansDelivered)
  <2>1. SUFFICES ASSUME TypeInv, CleanInv(s), NEW m \in acked, WantsAck(m)
                 PROVE  /\ m.to \in Device
                        /\ \/ Copies(m.to, m) # {}
                           \/ pc[m.to] = "deliver" /\ data[m.to] = Packet[m]
    BY DEF CleanUntilFault, AckMeansDelivered
  <2>2. Delivered(m)
    BY <2>1 DEF CleanInv, SenderInv, TypeInv, CountsInv
  <2>3. Meaning(m) \in Seen(m.to) => Copies(m.to, m) # {}
    BY DEF Seen, Copies
  <2>4. QED
    BY <2>2, <2>3 DEF Delivered
<1>2. QED
  BY <1>1, CleanAlways, PTL

(* DuplicatesNeedFaults, for one sender until the bus spoils a byte: a      *)
(* packet that is acknowledged is delivered once, although update() would   *)
(* send it again.                                                           *)
THEOREM NoDuplicatesUntilFault ==
  ASSUME NEW s, OneSender(s)
  PROVE  Spec => [](faults = 0 => DuplicatesNeedFaults)
<1>1. TypeInv /\ CleanUntilFault(s) => (faults = 0 => DuplicatesNeedFaults)
  <2>1. SUFFICES ASSUME TypeInv, CleanInv(s), faults = 0,
                        NEW d \in Device, NEW m \in Message, WantsAck(m)
                 PROVE  Cardinality(Copies(d, m)) <= 1 + faults
    BY DEF CleanUntilFault, DuplicatesNeedFaults
  <2>2. \A i, j \in Copies(d, m) : i = j
    <3>1. CASE d = s
      <4>1. taken[s] = <<>> /\ DOMAIN <<>> = {}
        BY <2>1 DEF CleanInv, SenderInv
      <4>2. QED
        BY <3>1, <4>1 DEF Copies
    <3>2. CASE d # s
      <4>1. ReceiverInv(s, d)
        BY <2>1, <3>2 DEF CleanInv, Receivers
      <4>2. ASSUME NEW i \in Copies(d, m) PROVE Asks(d, m)
        <5>1. i \in DOMAIN taken[d] /\ taken[d][i] = Meaning(m)
          BY DEF Copies
        <5>2. PICK n \in Message : n.to \in {d, BROADCAST} /\ Meaning(n) = Meaning(m)
          BY <4>1, <5>1 DEF ReceiverInv, Seen
        <5>3. n = m
          BY <5>2 DEF OneSender
        <5>4. QED
          BY <2>1, <5>2, <5>3 DEF Asks, WantsAck
      <4>3. QED
        BY <4>1, <4>2 DEF ReceiverInv, Copies
    <3>3. QED
      BY <3>1, <3>2
  <2>3. Copies(d, m) = {} \/ \E i : Copies(d, m) = {i}
    BY <2>2
  <2>4. Cardinality(Copies(d, m)) \in {0, 1}
    BY <2>3, FS_EmptySet, FS_Singleton
  <2>5. QED
    BY ONLY <2>1, <2>4
<1>2. QED
  BY <1>1, CleanAlways, PTL
=============================================================================
