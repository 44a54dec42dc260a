-------------------------- MODULE PjonVerdictProofs --------------------------
(***************************************************************************)
(* Theorems about what becomes of each packet in PjonOutgoing when one IO  *)
(* thread and any number of application threads share the buffer: no       *)
(* packet has two verdicts, no failed transmission goes uncounted.         *)
(*                                                                         *)
(* Neither is inductive.  Both hold because of where a packet may be while *)
(* it waits for the second loop of update(): behind the position of the    *)
(* first loop, or not yet behind that of the second.                       *)
(***************************************************************************)
EXTENDS PjonOutgoingProofs

(* The second loop of t may still come to position i of the list.           *)
ToScan(t, i) ==
  \/ pc[t] = "send" /\ i < idx[t]
  \/ pc[t] \in {"scan", "error"} /\ i >= idx[t]
  \/ pc[t] \in {"assign", "dead"}

(* A packet that was not appended yet has no history.                       *)
Untouched == \A p \in Packet : serial[p] = 0 => failures[p] = 0 /\ ~Settled(p)

(* The packet that the error function is told about is the one at the       *)
(* position of the loop.                                                    *)
ErrorPlace ==
  \A t \in IoThread : pc[t] = "error" =>
    idx[t] \in DOMAIN outgoing_packets /\ outgoing_packets[idx[t]] = cur[t]

(* A failure that is not counted yet is that of a packet to scan.           *)
UncountedPlaces ==
  \A t \in IoThread : \A i \in DOMAIN outgoing_packets :
    failures[outgoing_packets[i]] > attempts[outgoing_packets[i]] => ToScan(t, i)

Done(p) == Fields[p].timing = 0 /\ Settled(p)

(* A packet that is not repeated and has its verdict is about to be found   *)
(* acknowledged, or is the one that the error function is told about, or is *)
(* not in the list that replaces the buffer.                                *)
DonePlaces ==
  \A t \in IoThread : \A i \in DOMAIN outgoing_packets :
    Done(outgoing_packets[i]) =>
      /\ ToScan(t, i)
      /\ \/ state[outgoing_packets[i]] = "ACK"
         \/ pc[t] = "error" /\ i = idx[t]
         \/ pc[t] \in {"assign", "dead"}

CopyDone ==
  \A t \in IoThread : pc[t] = "assign" =>
    \A j \in DOMAIN copy[t] : Done(copy[t][j]) => state[copy[t][j]] = "ACK"

(* OneVerdict without its Cardinality.                                      *)
Exclusive ==
  \A p \in Packet : Fields[p].timing = 0 =>
    /\ lost[p] <= 1
    /\ lost[p] > 0 => p \notin acked /\ p \notin acquired
    /\ p \notin acked \cap acquired

PlacesInv ==
  /\ Untouched /\ ErrorPlace /\ UncountedPlaces /\ DonePlaces /\ CopyDone
  /\ Exclusive /\ FailuresCounted

-----------------------------------------------------------------------------
LEMMA ExclusiveIsOneVerdict == TypeOK /\ Exclusive => OneVerdict
<1> SUFFICES ASSUME TypeOK, Exclusive, NEW p \in Packet, Fields[p].timing = 0
             PROVE  Cardinality({v \in {"acked", "acquired"} :
                                   \/ v = "acked" /\ p \in acked
                                   \/ v = "acquired" /\ p \in acquired}) + lost[p] <= 1
  BY DEF OneVerdict
<1> DEFINE V == {v \in {"acked", "acquired"} :
                   \/ v = "acked" /\ p \in acked
                   \/ v = "acquired" /\ p \in acquired}
<1>1. lost[p] \in {0, 1}
  BY DEF TypeOK, HistoryType, Exclusive
<1>2. CASE V = {}
  <2>1. Cardinality(V) = 0
    BY <1>2, FS_EmptySet
  <2>2. QED
    BY <1>1, <2>1
<1>3. CASE V # {}
  <2>1. lost[p] = 0
    BY <1>1, <1>3 DEF Exclusive
  <2>2. V = {"acked"} \/ V = {"acquired"}
    BY <1>3 DEF Exclusive
  <2>3. Cardinality(V) = 1
    BY <2>2, FS_Singleton
  <2>4. QED
    BY <2>1, <2>3
<1>4. QED
  BY <1>2, <1>3

(* No packet is twice in a list that is in the order of appends.            *)
LEMMA Distinct ==
  ASSUME TypeOK, NEW s \in Seq(Packet), InDispatchOrder(s),
         NEW i \in DOMAIN s, NEW j \in DOMAIN s, s[i] = s[j]
  PROVE  i = j
<1>1. i \in Nat /\ j \in Nat /\ s[i] \in Packet /\ serial[s[i]] \in Nat
  BY LenProperties, ElementOfSeq DEF TypeOK, HistoryType
<1>2. QED
  BY <1>1 DEF InDispatchOrder

(* What is left of a list without p are other packets of the list.          *)
LEMMA WithoutDrops ==
  ASSUME TypeOK, NEW s \in Seq(Packet), InDispatchOrder(s), NEW p,
         NEW j \in DOMAIN Without(s, p)
  PROVE  Without(s, p)[j] # p /\ \E k \in DOMAIN s : s[k] = Without(s, p)[j]
<1>0. Len(s) \in Nat /\ DOMAIN s = 1..Len(s)
  BY LenProperties
<1>1. CASE \E i \in DOMAIN s : s[i] = p
  <2> DEFINE i == CHOOSE i \in DOMAIN s : s[i] = p
  <2>1. i \in 1..Len(s) /\ s[i] = p /\ Without(s, p) = RemoveAt(s, i)
    BY <1>0, <1>1 DEF Without
  <2> HIDE DEF i
  <2>2. /\ RemoveAt(s, i) \in Seq(Packet)
        /\ Len(RemoveAt(s, i)) = Len(s) - 1
        /\ \A k \in 1..Len(s) - 1 :
             RemoveAt(s, i)[k] = IF k < i THEN s[k] ELSE s[k + 1]
    BY <2>1, RemoveAtProperties
  <2>3. j \in 1..Len(s) - 1
    BY <2>1, <2>2, LenProperties
  <2>4. PICK k \in 1..Len(s) : k # i /\ Without(s, p)[j] = s[k]
    BY <1>0, <2>1, <2>2, <2>3
  <2>5. QED
    BY <1>0, <2>1, <2>4, Distinct
<1>2. CASE ~\E i \in DOMAIN s : s[i] = p
  BY <1>2 DEF Without
<1>3. QED
  BY <1>1, <1>2

(* The packets of the buffer are packets that were appended, each in one    *)
(* place.                                                                   *)
LEMMA Places ==
  ASSUME TypeOK, OrderInv
  PROVE  /\ Len(outgoing_packets) \in Nat
         /\ DOMAIN outgoing_packets = 1..Len(outgoing_packets)
         /\ \A i \in DOMAIN outgoing_packets :
              /\ outgoing_packets[i] \in Packet
              /\ serial[outgoing_packets[i]] > 0
         /\ \A i, j \in DOMAIN outgoing_packets :
              outgoing_packets[i] = outgoing_packets[j] => i = j
<1>1. outgoing_packets \in Seq(Packet) /\ InDispatchOrder(outgoing_packets)
  BY DEF TypeOK, BufferType, OrderInv, DispatchOrder
<1>2. QED
  BY <1>1, Distinct, LenProperties, ElementOfSeq DEF InDispatchOrder

LEMMA PlacesInit == Init => PlacesInv
<1> SUFFICES ASSUME Init PROVE PlacesInv
  OBVIOUS
<1>1. DOMAIN outgoing_packets = {}
  BY DEF Init
<1>2. QED
  BY <1>1 DEF Init, PlacesInv, Untouched, ErrorPlace, UncountedPlaces, DonePlaces,
              CopyDone, Exclusive, FailuresCounted, Settled

-----------------------------------------------------------------------------
(* A step that leaves the packets and the loops alone.                      *)
LEMMA PlacesSame ==
  ASSUME PlacesInv,
         UNCHANGED <<outgoing_packets, state, attempts, failures, pc, idx, cur, copy,
                     serial, acked, lost, acquired>>
  PROVE  PlacesInv'
BY DEF PlacesInv, Untouched, ErrorPlace, UncountedPlaces, DonePlaces, CopyDone,
       Exclusive, FailuresCounted, Settled, Done, ToScan

(* A step that moves the loop on, past nothing that waits for it.           *)
LEMMA PlacesMove ==
  ASSUME TypeOK, PlacesInv, \A t, u \in IoThread : t = u,
         NEW t \in IoThread, NEW phase \in Phase \ {"error", "assign"}, NEW i,
         Move(t, phase, i), pc[t] # "error", pc[t] # "assign",
         \A k \in DOMAIN outgoing_packets :
           (\/ failures[outgoing_packets[k]] > attempts[outgoing_packets[k]]
            \/ Done(outgoing_packets[k]))
           /\ ToScan(t, k) => ToScan(t, k)',
         pc[t] = "dead" => phase = "dead"
  PROVE  PlacesInv'
<1>1. /\ pc'[t] = phase /\ \A u \in IoThread : u = t
      /\ UNCHANGED <<outgoing_packets, state, attempts, failures, copy, serial,
                     acked, lost, acquired>>
  BY DEF Move, Goto, packetVars, history, TypeOK, LoopType
<1>2. Untouched' /\ Exclusive' /\ FailuresCounted'
  BY <1>1 DEF PlacesInv, Untouched, Exclusive, FailuresCounted, Settled
<1>3. ErrorPlace' /\ CopyDone'
  BY <1>1 DEF ErrorPlace, CopyDone
<1>4. UncountedPlaces'
  BY <1>1 DEF PlacesInv, UncountedPlaces
<1>5. DonePlaces'
  BY <1>1 DEF PlacesInv, DonePlaces, Done, Settled
<1>6. QED
  BY <1>2, <1>3, <1>4, <1>5 DEF PlacesInv

(* The loop is done with the packet at its position: it makes a list        *)
(* without it, or arms it again and goes on.                                *)
LEMMA PlacesFinish ==
  ASSUME TypeOK, OrderInv, PlacesInv, \A t, u \in IoThread : t = u,
         NEW t \in IoThread, pc[t] \in {"scan", "error"},
         idx[t] \in DOMAIN outgoing_packets, Finish(t, outgoing_packets[idx[t]]),
         UNCHANGED <<outgoing_packets, serial, acked, lost, acquired>>
  PROVE  PlacesInv'
<1> DEFINE q == outgoing_packets[idx[t]]
<1>0. \A u \in IoThread : u = t
  OBVIOUS
<1>1. q \in Packet /\ idx[t] \in Nat
  BY Places DEF TypeOK, LoopType
<1>2. Untouched' /\ FailuresCounted'
  <2>1. CASE Fields[q].timing = 0
    BY <2>1 DEF Finish, Delete, packetVars, PlacesInv, Untouched, FailuresCounted, Settled
  <2>2. CASE Fields[q].timing # 0
    BY <1>1, <2>2
       DEF Finish, Rearm, PlacesInv, Untouched, FailuresCounted, Settled, TypeOK,
           PacketType
  <2>3. QED
    BY <2>1, <2>2
<1>3. Exclusive'
  BY DEF PlacesInv, Exclusive
<1>4. CASE Fields[q].timing = 0
  <2>1. /\ pc'[t] = "assign" /\ UNCHANGED packetVars
        /\ copy'[t] = Without(outgoing_packets, q)
    BY <1>4 DEF Finish, Delete, Goto, TypeOK, LoopType, BufferType
  <2>2. ErrorPlace' /\ UncountedPlaces' /\ DonePlaces'
    BY <1>0, <2>1 DEF ErrorPlace, UncountedPlaces, DonePlaces, ToScan
  <2>3. ASSUME NEW j \in DOMAIN copy'[t], Done(copy'[t][j])
        PROVE  state[copy'[t][j]] = "ACK"
    <3>1. PICK k \in DOMAIN outgoing_packets :
            outgoing_packets[k] = copy'[t][j] /\ copy'[t][j] # q
      BY <2>1, WithoutDrops DEF OrderInv, DispatchOrder, TypeOK, BufferType
    <3>2. QED
      BY <2>3, <3>1 DEF PlacesInv, DonePlaces
  <2>4. CopyDone'
    BY <1>0, <2>1, <2>3 DEF CopyDone, Done, Settled, packetVars
  <2>5. QED
    BY <1>2, <1>3, <2>2, <2>4 DEF PlacesInv
<1>5. CASE Fields[q].timing # 0
  <2>1. /\ pc'[t] = "scan" /\ idx'[t] = idx[t] + 1
        /\ attempts'[q] = 0 /\ failures'[q] = 0
        /\ \A p \in Packet \ {q} :
             /\ attempts'[p] = attempts[p] /\ failures'[p] = failures[p]
             /\ state'[p] = state[p]
    BY <1>1, <1>5 DEF Finish, Rearm, Goto, TypeOK, LoopType, PacketType
  <2>2. ErrorPlace' /\ CopyDone'
    BY <1>0, <2>1 DEF ErrorPlace, CopyDone
  <2>3. ASSUME NEW k \in DOMAIN outgoing_packets, outgoing_packets[k] # q, ToScan(t, k)
        PROVE  ToScan(t, k)'
    <3>1. k \in Nat /\ k # idx[t] /\ k >= idx[t]
      BY <2>3, Places DEF ToScan
    <3>2. QED
      BY <1>1, <2>1, <3>1 DEF ToScan
  <2>4. UncountedPlaces'
    <3>1. ASSUME NEW k \in DOMAIN outgoing_packets,
                 failures'[outgoing_packets[k]] > attempts'[outgoing_packets[k]]
          PROVE  ToScan(t, k)'
      BY <2>1, <2>3, <3>1, Places DEF PlacesInv, UncountedPlaces
    <3>2. QED
      BY <1>0, <3>1 DEF UncountedPlaces
  <2>5. DonePlaces'
    <3>1. ASSUME NEW k \in DOMAIN outgoing_packets, Done(outgoing_packets[k])
          PROVE  ToScan(t, k)' /\ state'[outgoing_packets[k]] = "ACK"
      <4>1. outgoing_packets[k] # q /\ k # idx[t]
        BY <1>5, <3>1 DEF Done
      <4>2. ToScan(t, k) /\ state[outgoing_packets[k]] = "ACK"
        BY <3>1, <4>1 DEF PlacesInv, DonePlaces
      <4>3. QED
        BY <2>1, <2>3, <4>1, <4>2, Places
    <3>2. QED
      BY <1>0, <3>1 DEF DonePlaces, Done, Settled
  <2>6. QED
    BY <1>2, <1>3, <2>2, <2>4, <2>5 DEF PlacesInv
<1>6. QED
  BY <1>4, <1>5

(* A transmission: the packet at the position had no verdict and no failure *)
(* to count before it, and is behind the position now.                      *)
LEMMA PlacesSend ==
  ASSUME TypeOK, OrderInv, PlacesInv, \A t, u \in IoThread : t = u,
         NEW t \in IoThread, NEW line \in Line, UpdateSend(t, line)
  PROVE  PlacesInv'
<1> DEFINE q == outgoing_packets[idx[t]]
<1>0. \A u \in IoThread : u = t
  OBVIOUS
<1>1. idx[t] \in Nat /\ idx[t] \in DOMAIN outgoing_packets
  BY Places DEF UpdateSend, AtPacket, TypeOK, LoopType
<1>2. q \in Packet /\ serial[q] > 0
  BY <1>1, Places
<1>3. pc[t] = "send" /\ ~ToScan(t, idx[t])
  BY <1>1 DEF UpdateSend, AtPacket, At, ToScan
<1>4. ~(failures[q] > attempts[q]) /\ ~Done(q)
  BY <1>1, <1>3 DEF PlacesInv, UncountedPlaces, DonePlaces
<1>5. /\ pc'[t] = "send" /\ idx'[t] = idx[t] + 1
      /\ state'[q] = SendString(q, line)
      /\ acked' = IF SendString(q, line) = "ACK" THEN acked \cup {q} ELSE acked
      /\ failures'[q] = IF SendString(q, line) = "FAIL"
                        THEN Min2(failures[q] + 1, MAX_ATTEMPTS + 1) ELSE failures[q]
      /\ \A p \in Packet \ {q} : state'[p] = state[p] /\ failures'[p] = failures[p]
      /\ UNCHANGED <<outgoing_packets, attempts, serial, lost, acquired>>
  BY <1>2, <1>3 DEF UpdateSend, Goto, TypeOK, LoopType, PacketType
<1> HIDE DEF q
<1>6. Untouched'
  BY <1>2, <1>5 DEF PlacesInv, Untouched, Settled
<1>7. ErrorPlace' /\ CopyDone'
  BY <1>0, <1>5 DEF ErrorPlace, CopyDone
<1>8. FailuresCounted'
  <2>1. failures[q] \in Nat /\ attempts[q] \in Nat /\ MAX_ATTEMPTS \in Nat
    BY <1>2, BoundAssumption DEF TypeOK, PacketType
  <2>2. failures'[q] <= IF state'[q] = "FAIL" THEN attempts'[q] + 1 ELSE attempts'[q]
    BY <1>4, <1>5, <2>1 DEF Min2
  <2>3. QED
    BY <1>5, <2>2 DEF PlacesInv, FailuresCounted
<1>9. Exclusive'
  <2>1. ASSUME Fields[q].timing = 0
        PROVE  lost[q] = 0 /\ q \notin acked /\ q \notin acquired
    BY <1>2, <1>4, <2>1 DEF Done, Settled, TypeOK, HistoryType
  <2>2. QED
    BY <1>2, <1>5, <2>1 DEF PlacesInv, Exclusive
<1>10. ASSUME NEW k \in DOMAIN outgoing_packets, k # idx[t]
       PROVE  /\ outgoing_packets[k] \in Packet \ {q}
              /\ ToScan(t, k) => ToScan(t, k)'
  <2>1. k \in Nat /\ outgoing_packets[k] \in Packet \ {q}
    BY <1>1, <1>10, Places DEF q
  <2>2. QED
    BY <1>1, <1>3, <1>5, <2>1 DEF ToScan
<1>11. UncountedPlaces'
  <2>1. ASSUME NEW k \in DOMAIN outgoing_packets,
               failures'[outgoing_packets[k]] > attempts'[outgoing_packets[k]]
        PROVE  ToScan(t, k)'
    <3>1. CASE k = idx[t]
      BY <1>1, <1>5, <3>1 DEF ToScan
    <3>2. CASE k # idx[t]
      BY <1>5, <1>10, <2>1, <3>2 DEF PlacesInv, UncountedPlaces
    <3>3. QED
      BY <3>1, <3>2
  <2>2. QED
    BY <1>0, <1>5, <2>1 DEF UncountedPlaces
<1>12. DonePlaces'
  <2>1. ASSUME NEW k \in DOMAIN outgoing_packets, Done(outgoing_packets[k])'
        PROVE  ToScan(t, k)' /\ state'[outgoing_packets[k]] = "ACK"
    <3>1. CASE k = idx[t]
      <4>1. /\ Fields[q].timing = 0
            /\ q \in acked' \/ lost'[q] > 0 \/ q \in acquired'
        BY <1>5, <2>1, <3>1 DEF q, Done, Settled
      <4>2. SendString(q, line) = "ACK"
        BY <1>4, <1>5, <4>1 DEF Done, Settled
      <4>3. QED
        BY <1>1, <1>5, <3>1, <4>2 DEF q, ToScan
    <3>2. CASE k # idx[t]
      <4>1. Done(outgoing_packets[k])
        BY <1>5, <1>10, <2>1, <3>2 DEF Done, Settled
      <4>2. QED
        BY <1>3, <1>5, <1>10, <3>2, <4>1 DEF PlacesInv, DonePlaces
    <3>3. QED
      BY <3>1, <3>2
  <2>2. QED
    BY <1>0, <1>5, <2>1 DEF DonePlaces
<1>13. QED
  BY <1>6, <1>7, <1>8, <1>9, <1>11, <1>12 DEF PlacesInv

(* An attempt is counted: the packet at the position failed, so that it had *)
(* no verdict if it is not repeated.                                        *)
LEMMA PlacesCount ==
  ASSUME TypeOK, OrderInv, PlacesInv, \A t, u \in IoThread : t = u,
         NEW t \in IoThread,
         ScanRetry(t) \/ ScanRaises(t) \/ ScanAcquire(t) \/ ScanLost(t)
  PROVE  PlacesInv'
<1> DEFINE q == outgoing_packets[idx[t]]
<1>0. \A u \in IoThread : u = t
  OBVIOUS
<1>1. AtFailed(t)
  BY DEF ScanRetry, ScanRaises, ScanAcquire, ScanLost
<1>2. idx[t] \in Nat /\ idx[t] \in DOMAIN outgoing_packets
  BY <1>1, Places DEF AtFailed, AtPacket, TypeOK, LoopType
<1>3. q \in Packet /\ serial[q] > 0 /\ state[q] = "FAIL" /\ pc[t] = "scan"
  BY <1>1, <1>2, Places DEF AtFailed, AtPacket, At
<1>4. ~Done(q)
  BY <1>2, <1>3 DEF PlacesInv, DonePlaces
<1>5. /\ attempts'[q] = attempts[q] + 1
      /\ \A p \in Packet \ {q} : attempts'[p] = attempts[p]
      /\ UNCHANGED <<outgoing_packets, state, failures, serial, acked>>
  BY <1>3
     DEF ScanRetry, ScanRaises, ScanAcquire, ScanLost, CountAttempt, history, TypeOK,
         PacketType
<1> HIDE DEF q
<1>6. failures[q] <= attempts'[q] /\ attempts[q] \in Nat /\ failures[q] \in Nat
  BY <1>3, <1>5, BoundAssumption DEF PlacesInv, FailuresCounted, TypeOK, PacketType
<1>7. FailuresCounted'
  BY <1>3, <1>5, <1>6 DEF PlacesInv, FailuresCounted
<1>8. ASSUME NEW k \in DOMAIN outgoing_packets,
             failures'[outgoing_packets[k]] > attempts'[outgoing_packets[k]]
      PROVE  k # idx[t] /\ ToScan(t, k)
  <2>1. k # idx[t] /\ outgoing_packets[k] \in Packet \ {q}
    BY <1>2, <1>5, <1>6, <1>8, Places DEF q
  <2>2. QED
    BY <1>5, <1>8, <2>1 DEF PlacesInv, UncountedPlaces
<1>9. ASSUME NEW k \in DOMAIN outgoing_packets, Done(outgoing_packets[k])
      PROVE  k # idx[t] /\ ToScan(t, k) /\ state[outgoing_packets[k]] = "ACK"
  BY <1>3, <1>4, <1>9 DEF PlacesInv, DonePlaces, q
<1>10. CASE ScanRetry(t)
  <2>1. /\ pc'[t] = "scan" /\ idx'[t] = idx[t] + 1
        /\ UNCHANGED <<lost, acquired>>
    BY <1>10 DEF ScanRetry, Goto, history, TypeOK, LoopType
  <2>2. Untouched' /\ Exclusive' /\ ErrorPlace' /\ CopyDone'
    BY <1>0, <1>5, <2>1
       DEF PlacesInv, Untouched, Exclusive, ErrorPlace, CopyDone, Settled
  <2>3. ASSUME NEW k \in DOMAIN outgoing_packets, k # idx[t], ToScan(t, k)
        PROVE  ToScan(t, k)'
    <3>1. k \in Nat
      BY Places
    <3>2. QED
      BY <1>2, <1>3, <2>1, <2>3, <3>1 DEF ToScan
  <2>4. UncountedPlaces'
    BY <1>0, <1>5, <1>8, <2>3 DEF UncountedPlaces
  <2>5. DonePlaces'
    BY <1>0, <1>5, <1>9, <2>1, <2>3 DEF DonePlaces, Done, Settled
  <2>6. QED
    BY <1>7, <2>2, <2>4, <2>5 DEF PlacesInv
<1>11. CASE ScanRaises(t)
  <2>1. pc'[t] = "dead" /\ UNCHANGED <<lost, acquired>>
    BY <1>11 DEF ScanRaises, Goto, history, TypeOK, LoopType
  <2>2. Untouched' /\ Exclusive' /\ ErrorPlace' /\ CopyDone'
    BY <1>0, <1>5, <2>1
       DEF PlacesInv, Untouched, Exclusive, ErrorPlace, CopyDone, Settled
  <2>3. UncountedPlaces' /\ DonePlaces'
    BY <1>0, <2>1 DEF UncountedPlaces, DonePlaces, ToScan
  <2>4. QED
    BY <1>7, <2>2, <2>3 DEF PlacesInv
<1>12. CASE ScanAcquire(t)
  <2>1. /\ pc'[t] = "assign" /\ acquired' = acquired \cup {q} /\ lost' = lost
        /\ copy'[t] = Without(outgoing_packets, q)
    BY <1>12 DEF ScanAcquire, Goto, TypeOK, LoopType, BufferType, q
  <2>2. Untouched' /\ ErrorPlace'
    BY <1>0, <1>3, <1>5, <2>1 DEF PlacesInv, Untouched, ErrorPlace, Settled
  <2>3. Exclusive'
    <3>1. ASSUME Fields[q].timing = 0
          PROVE  lost[q] = 0 /\ q \notin acked
      BY <1>3, <1>4, <3>1 DEF Done, Settled, TypeOK, HistoryType
    <3>2. QED
      BY <1>3, <1>5, <2>1, <3>1 DEF PlacesInv, Exclusive
  <2>4. UncountedPlaces' /\ DonePlaces'
    BY <1>0, <2>1 DEF UncountedPlaces, DonePlaces, ToScan
  <2>5. ASSUME NEW j \in DOMAIN copy'[t], Done(copy[t][j])'
        PROVE  state[copy'[t][j]] = "ACK"
    <3>1. PICK k \in DOMAIN outgoing_packets :
            outgoing_packets[k] = copy'[t][j] /\ copy'[t][j] # q
      BY <2>1, WithoutDrops DEF OrderInv, DispatchOrder, TypeOK, BufferType
    <3>2. Done(outgoing_packets[k])
      BY <1>5, <2>1, <2>5, <3>1 DEF Done, Settled
    <3>3. QED
      BY <1>9, <3>1, <3>2
  <2>6. CopyDone'
    BY <1>0, <1>5, <2>1, <2>5 DEF CopyDone
  <2>7. QED
    BY <1>7, <2>2, <2>3, <2>4, <2>6 DEF PlacesInv
<1>13. CASE ScanLost(t)
  <2>1. /\ pc'[t] = "error" /\ idx'[t] = idx[t] /\ cur'[t] = q /\ acquired' = acquired
        /\ lost'[q] = Min2(lost[q] + 1, 2)
        /\ \A p \in Packet \ {q} : lost'[p] = lost[p]
    BY <1>3, <1>13 DEF ScanLost, Goto, TypeOK, LoopType, HistoryType, q
  <2>2. Untouched'
    BY <1>3, <1>5, <2>1 DEF PlacesInv, Untouched, Settled
  <2>3. ErrorPlace' /\ CopyDone'
    BY <1>0, <1>2, <1>5, <2>1 DEF ErrorPlace, CopyDone, q
  <2>4. Exclusive'
    <3>1. ASSUME Fields[q].timing = 0
          PROVE  lost[q] = 0 /\ q \notin acked /\ q \notin acquired
      BY <1>3, <1>4, <3>1 DEF Done, Settled, TypeOK, HistoryType
    <3>2. QED
      BY <1>3, <1>5, <2>1, <3>1 DEF PlacesInv, Exclusive, Min2
  <2>5. \A k \in DOMAIN outgoing_packets : ToScan(t, k) => ToScan(t, k)'
    BY <1>3, <2>1 DEF ToScan
  <2>6. UncountedPlaces'
    BY <1>0, <1>5, <1>8, <2>5 DEF UncountedPlaces
  <2>7. ASSUME NEW k \in DOMAIN outgoing_packets, Done(outgoing_packets[k])'
        PROVE  ToScan(t, k)' /\ (state[outgoing_packets[k]] = "ACK" \/ k = idx[t])
    <3>1. CASE k = idx[t]
      BY <1>2, <2>1, <3>1 DEF ToScan
    <3>2. CASE k # idx[t]
      <4>1. outgoing_packets[k] \in Packet \ {q}
        BY <1>2, <3>2, Places DEF q
      <4>2. Done(outgoing_packets[k])
        BY <1>5, <2>1, <2>7, <4>1 DEF Done, Settled
      <4>3. QED
        BY <1>9, <2>5, <4>2
    <3>3. QED
      BY <3>1, <3>2
  <2>8. DonePlaces'
    BY <1>0, <1>5, <2>1, <2>7 DEF DonePlaces
  <2>9. QED
    BY <1>7, <2>2, <2>3, <2>4, <2>6, <2>8 DEF PlacesInv
<1>14. QED
  BY <1>10, <1>11, <1>12, <1>13

(* A packet is appended: it is new, so that it has neither a verdict nor a  *)
(* failure, and the positions of the others stay.                           *)
LEMMA PlacesAppend ==
  ASSUME TypeOK, OrderInv, PlacesInv, NEW th \in Thread, DispatchAppend(th)
  PROVE  PlacesInv'
<1> DEFINE a == arg[th]
           n == Len(outgoing_packets)
<1>1. a \in Packet /\ serial[a] = 0
  BY DEF DispatchAppend, OrderInv, ArgumentsApart, TypeOK, CallType
<1>2. failures[a] = 0 /\ ~Settled(a) /\ attempts[a] \in Nat
  BY <1>1 DEF PlacesInv, Untouched, TypeOK, PacketType
<1>3. /\ n \in Nat /\ DOMAIN outgoing_packets = 1..n
      /\ DOMAIN outgoing_packets' = 1..n + 1
      /\ \A i \in 1..n : /\ outgoing_packets'[i] = outgoing_packets[i]
                         /\ outgoing_packets[i] \in Packet \ {a}
      /\ outgoing_packets'[n + 1] = a
  <2>1. outgoing_packets' = Append(outgoing_packets, a)
    BY DEF DispatchAppend, Enqueue
  <2>2. QED
    BY <1>1, <2>1, Places, AppendProperties, LenProperties DEF TypeOK, BufferType
<1>4. /\ state'[a] = "TO_BE_SENT" /\ serial'[a] > 0
      /\ \A p \in Packet \ {a} : state'[p] = state[p] /\ serial'[p] = serial[p]
      /\ UNCHANGED <<attempts, failures, pc, idx, cur, copy, acked, lost, acquired>>
  BY <1>1 DEF DispatchAppend, ioVars, TypeOK, PacketType, HistoryType
<1> HIDE DEF a, n
<1>5. Untouched' /\ Exclusive'
  BY <1>1, <1>4 DEF PlacesInv, Untouched, Exclusive, Settled
<1>6. FailuresCounted'
  BY <1>1, <1>2, <1>4 DEF PlacesInv, FailuresCounted
<1>7. ErrorPlace'
  BY <1>3, <1>4 DEF PlacesInv, ErrorPlace
<1>8. CopyDone'
  <2>1. ASSUME NEW t \in IoThread, NEW j \in DOMAIN copy[t]
        PROVE  copy[t][j] \in Packet \ {a}
    <3>1. copy[t] \in Seq(Packet) /\ serial[copy[t][j]] > 0
      BY DEF OrderInv, DispatchOrder, InDispatchOrder, TypeOK, BufferType
    <3>2. copy[t][j] \in Packet
      BY <3>1, LenProperties, ElementOfSeq
    <3>3. QED
      BY <1>1, <3>1, <3>2
  <2>2. QED
    BY <1>4, <2>1 DEF PlacesInv, CopyDone, Done, Settled
<1>9. \A t \in IoThread, i \in 1..n : ToScan(t, i) => ToScan(t, i)'
  BY <1>4 DEF ToScan
<1>10. UncountedPlaces'
  <2>1. ASSUME NEW t \in IoThread, NEW i \in 1..n + 1,
               failures[outgoing_packets'[i]] > attempts[outgoing_packets'[i]]
        PROVE  ToScan(t, i)'
    <3>1. i # n + 1
      BY <1>2, <1>3, <2>1
    <3>2. i \in 1..n
      BY <1>3, <3>1
    <3>3. QED
      BY <1>3, <1>9, <2>1, <3>2 DEF PlacesInv, UncountedPlaces
  <2>2. QED
    BY <1>3, <1>4, <2>1 DEF UncountedPlaces
<1>11. DonePlaces'
  <2>1. ASSUME NEW t \in IoThread, NEW i \in 1..n + 1, Done(outgoing_packets[i])'
        PROVE  /\ ToScan(t, i)'
               /\ \/ state'[outgoing_packets'[i]] = "ACK"
                  \/ pc[t] = "error" /\ i = idx[t]
                  \/ pc[t] \in {"assign", "dead"}
    <3>1. Done(outgoing_packets'[i])
      BY <1>4, <2>1 DEF Done, Settled
    <3>2. i # n + 1
      BY <1>2, <1>3, <3>1 DEF Done
    <3>3. i \in 1..n
      BY <1>3, <3>2
    <3>4. QED
      BY <1>3, <1>4, <1>9, <3>1, <3>3 DEF PlacesInv, DonePlaces
  <2>2. QED
    BY <1>3, <1>4, <2>1 DEF DonePlaces
<1>12. QED
  BY <1>5, <1>6, <1>7, <1>8, <1>10, <1>11 DEF PlacesInv

(* The copy replaces the buffer, and the second loop starts over.           *)
LEMMA PlacesAssign ==
  ASSUME TypeOK, PlacesInv, \A t, u \in IoThread : t = u,
         NEW t \in IoThread, AssignCopy(t)
  PROVE  PlacesInv'
<1>0. \A u \in IoThread : u = t
  OBVIOUS
<1>1. /\ pc[t] = "assign" /\ pc'[t] = "scan" /\ idx'[t] = 1
      /\ outgoing_packets' = copy[t]
      /\ UNCHANGED <<state, attempts, failures, serial, acked, lost, acquired>>
  BY DEF AssignCopy, At, Goto, packetVars, history, TypeOK, LoopType
<1>2. Untouched' /\ Exclusive' /\ FailuresCounted'
  BY <1>1 DEF PlacesInv, Untouched, Exclusive, FailuresCounted, Settled
<1>3. ErrorPlace' /\ CopyDone'
  BY <1>0, <1>1 DEF ErrorPlace, CopyDone
<1>4. \A i \in DOMAIN copy[t] : ToScan(t, i)'
  BY <1>1, LenProperties DEF ToScan, TypeOK, BufferType
<1>5. UncountedPlaces'
  BY <1>0, <1>1, <1>4 DEF UncountedPlaces
<1>6. DonePlaces'
  BY <1>0, <1>1, <1>4 DEF PlacesInv, CopyDone, DonePlaces, Done, Settled
<1>7. QED
  BY <1>2, <1>3, <1>5, <1>6 DEF PlacesInv

LEMMA PlacesStep ==
  ASSUME \A t, u \in IoThread : t = u
  PROVE  TypeOK /\ OrderInv /\ PlacesInv /\ [Next]_vars => PlacesInv'
<1> SUFFICES ASSUME TypeOK, OrderInv, PlacesInv, [Next]_vars
             PROVE  PlacesInv'
  OBVIOUS
<1>1. ASSUME NEW th \in Thread, NEW p \in Packet, DispatchCheck(th, p)
      PROVE  PlacesInv'
  BY <1>1, PlacesSame DEF DispatchCheck, packetVars, ioVars, history
<1>2. ASSUME NEW th \in Thread, DispatchAppend(th)
      PROVE  PlacesInv'
  BY <1>2, PlacesAppend
<1>3. ASSUME NEW th \in Thread, DispatchReturn(th)
      PROVE  PlacesInv'
  BY <1>3, PlacesSame DEF DispatchReturn, packetVars, ioVars, history
<1>4. ASSUME NEW t \in IoThread, StartClient(t)
      PROVE  PlacesInv'
  <2>1. \A u \in IoThread : u = t
    OBVIOUS
  <2>2. /\ pc[t] = "new" /\ pc'[t] = "send"
        /\ UNCHANGED <<outgoing_packets, state, attempts, failures, serial, acked, lost,
                       acquired>>
    BY <1>4 DEF StartClient, packetVars, history, TypeOK, LoopType
  <2>3. Untouched' /\ Exclusive' /\ FailuresCounted'
    BY <2>2 DEF PlacesInv, Untouched, Exclusive, FailuresCounted, Settled
  <2>4. ErrorPlace' /\ CopyDone'
    BY <2>1, <2>2 DEF ErrorPlace, CopyDone
  <2>5. UncountedPlaces' /\ DonePlaces'
    BY <2>1, <2>2
       DEF PlacesInv, UncountedPlaces, DonePlaces, Done, Settled, ToScan
  <2>6. QED
    BY <2>3, <2>4, <2>5 DEF PlacesInv
<1>5. ASSUME NEW t \in IoThread, UpdateSkip(t)
      PROVE  PlacesInv'
  <2>1. /\ pc[t] = "send" /\ pc'[t] = "send" /\ idx'[t] = idx[t] + 1
        /\ Move(t, "send", idx[t] + 1)
    BY <1>5 DEF UpdateSkip, AtPacket, At, Move, Goto, TypeOK, LoopType
  <2>2. \A k \in DOMAIN outgoing_packets : ToScan(t, k) => ToScan(t, k)'
    BY <2>1, Places DEF ToScan, TypeOK, LoopType
  <2>3. QED
    BY <2>1, <2>2, PlacesMove DEF Phase
<1>6. ASSUME NEW t \in IoThread, NEW line \in Line, UpdateSend(t, line)
      PROVE  PlacesInv'
  BY <1>6, PlacesSend
<1>7. ASSUME NEW t \in IoThread, NEW line \in Line, UpdateRaises(t, line)
      PROVE  PlacesInv'
  <2>1. pc[t] = "send" /\ pc'[t] = "dead" /\ Move(t, "dead", 1)
    BY <1>7 DEF UpdateRaises, AtPacket, At, Move, Goto, TypeOK, LoopType
  <2>2. \A k \in DOMAIN outgoing_packets : ToScan(t, k) => ToScan(t, k)'
    BY <2>1 DEF ToScan
  <2>3. QED
    BY <2>1, <2>2, PlacesMove DEF Phase
<1>8. ASSUME NEW t \in IoThread, UpdateSent(t)
      PROVE  PlacesInv'
  <2>1. pc[t] = "send" /\ pc'[t] = "scan" /\ idx'[t] = 1 /\ Move(t, "scan", 1)
    BY <1>8 DEF UpdateSent, At, Move, Goto, TypeOK, LoopType
  <2>2. \A k \in DOMAIN outgoing_packets : ToScan(t, k) => ToScan(t, k)'
    BY <2>1, Places DEF ToScan
  <2>3. QED
    BY <2>1, <2>2, PlacesMove DEF Phase
<1>9. ASSUME NEW t \in IoThread, ScanAcked(t)
      PROVE  PlacesInv'
  <2>1. /\ pc[t] = "scan" /\ idx[t] \in DOMAIN outgoing_packets
        /\ Finish(t, outgoing_packets[idx[t]])
        /\ UNCHANGED <<outgoing_packets, serial, acked, lost, acquired>>
    BY <1>9, Places DEF ScanAcked, AtPacket, At, history, TypeOK, LoopType
  <2>2. QED
    BY <2>1, PlacesFinish
<1>10. ASSUME NEW t \in IoThread,
              ScanRetry(t) \/ ScanRaises(t) \/ ScanAcquire(t) \/ ScanLost(t)
       PROVE  PlacesInv'
  BY <1>10, PlacesCount
<1>11. ASSUME NEW t \in IoThread, ErrorReturn(t)
       PROVE  PlacesInv'
  <2>1. /\ pc[t] = "error" /\ Finish(t, cur[t])
        /\ UNCHANGED <<outgoing_packets, serial, acked, lost, acquired>>
    BY <1>11 DEF ErrorReturn, At, history
  <2>2. idx[t] \in DOMAIN outgoing_packets /\ outgoing_packets[idx[t]] = cur[t]
    BY <2>1 DEF PlacesInv, ErrorPlace
  <2>3. QED
    BY <2>1, <2>2, PlacesFinish
<1>12. ASSUME NEW t \in IoThread, ScanNext(t)
       PROVE  PlacesInv'
  <2>1. /\ pc[t] = "scan" /\ pc'[t] = "scan" /\ idx'[t] = idx[t] + 1
        /\ Move(t, "scan", idx[t] + 1)
        /\ idx[t] \in DOMAIN outgoing_packets /\ idx[t] \in Nat
        /\ state[outgoing_packets[idx[t]]] \notin {"ACK", "FAIL"}
    BY <1>12, Places DEF ScanNext, AtPacket, At, Move, Goto, TypeOK, LoopType
  <2>2. /\ ~Done(outgoing_packets[idx[t]])
        /\ ~(failures[outgoing_packets[idx[t]]] > attempts[outgoing_packets[idx[t]]])
    <3>1. outgoing_packets[idx[t]] \in Packet
      BY <2>1, Places
    <3>2. /\ failures[outgoing_packets[idx[t]]] <= attempts[outgoing_packets[idx[t]]]
          /\ failures[outgoing_packets[idx[t]]] \in Nat
          /\ attempts[outgoing_packets[idx[t]]] \in Nat
      BY <2>1, <3>1, BoundAssumption DEF PlacesInv, FailuresCounted, TypeOK, PacketType
    <3>3. QED
      BY <2>1, <3>2 DEF PlacesInv, DonePlaces
  <2>3. ASSUME NEW k \in DOMAIN outgoing_packets,
               \/ failures[outgoing_packets[k]] > attempts[outgoing_packets[k]]
               \/ Done(outgoing_packets[k]),
               ToScan(t, k)
        PROVE  ToScan(t, k)'
    <3>1. k \in Nat /\ k # idx[t] /\ k >= idx[t]
      BY <2>1, <2>2, <2>3, Places DEF ToScan
    <3>2. QED
      BY <2>1, <3>1 DEF ToScan
  <2>4. QED
    BY <2>1, <2>3, PlacesMove DEF Phase
<1>13. ASSUME NEW t \in IoThread, AssignCopy(t)
       PROVE  PlacesInv'
  BY <1>13, PlacesAssign
<1>14. ASSUME NEW t \in IoThread, UpdateReturn(t)
       PROVE  PlacesInv'
  <2>1. /\ pc[t] = "scan" /\ Move(t, "receive", 1)
        /\ idx[t] > Len(outgoing_packets) /\ idx[t] \in Nat
    BY <1>14 DEF UpdateReturn, At, TypeOK, LoopType
  <2>2. \A k \in DOMAIN outgoing_packets : ~ToScan(t, k)
    BY <2>1, Places DEF ToScan
  <2>3. QED
    BY <2>1, <2>2, PlacesMove DEF Phase
<1>15. ASSUME NEW t \in IoThread, ReceiveReturn(t)
       PROVE  PlacesInv'
  <2>1. pc[t] = "receive" /\ Move(t, "send", 1)
    BY <1>15 DEF ReceiveReturn, At
  <2>2. \A k \in DOMAIN outgoing_packets : ~ToScan(t, k)
    BY <2>1 DEF ToScan
  <2>3. QED
    BY <2>1, <2>2, PlacesMove DEF Phase
<1>16. CASE Tick
  BY <1>16, PlacesSame DEF Tick, ioVars, history
<1>17. CASE UNCHANGED vars
  BY <1>17, PlacesSame DEF vars, packetVars, ioVars, history
<1>18. QED
  BY <1>1, <1>2, <1>3, <1>4, <1>5, <1>6, <1>7, <1>8, <1>9, <1>10, <1>11, <1>12, <1>13,
     <1>14, <1>15, <1>16, <1>17
     DEF Next, IoStep, SendStep, ScanStep, Call, CallStep, DispatchRefused

-----------------------------------------------------------------------------
LEMMA PlacesCorrect ==
  ASSUME \A t, u \in IoThread : t = u
  PROVE  Spec => [](TypeOK /\ PlacesInv)
<1>1. TypeOK /\ OrderInv /\ PlacesInv /\ [Next]_vars => PlacesInv'
  BY PlacesStep
<1>2. QED
  BY <1>1, OrderInit, OrderStep, PlacesInit, TypeCorrect, PTL DEF Spec

(* With one IO thread a packet that is not repeated gets at most one        *)
(* verdict, however application threads and callbacks append meanwhile.     *)
THEOREM OneVerdictOnly ==
  ASSUME \A t, u \in IoThread : t = u
  PROVE  Spec => []OneVerdict
<1>1. TypeOK /\ PlacesInv => OneVerdict
  BY ExclusiveIsOneVerdict DEF PlacesInv
<1>2. QED
  BY <1>1, PlacesCorrect, PTL

(* With one IO thread update() counts every failed transmission of a packet *)
(* before the next one.                                                     *)
THEOREM EveryFailureCounted ==
  ASSUME \A t, u \in IoThread : t = u
  PROVE  Spec => []FailuresCounted
<1>1. PlacesInv => FailuresCounted
  BY DEF PlacesInv
<1>2. QED
  BY <1>1, PlacesCorrect, PTL
=============================================================================
