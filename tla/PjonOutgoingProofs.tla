------------------------- MODULE PjonOutgoingProofs -------------------------
(* Theorems about PjonOutgoing, for every set of packets and threads.       *)
EXTENDS PjonOutgoing, SequenceTheorems, FiniteSetTheorems, TLAPS

(* RemoveAt closes the gap: what is left keeps its order.                   *)
LEMMA RemoveAtProperties ==
  ASSUME NEW S, NEW s \in Seq(S), NEW i \in 1..Len(s)
  PROVE  /\ RemoveAt(s, i) \in Seq(S)
         /\ Len(RemoveAt(s, i)) = Len(s) - 1
         /\ \A j \in 1..Len(s) - 1 :
              RemoveAt(s, i)[j] = IF j < i THEN s[j] ELSE s[j + 1]
<1> DEFINE front == SubSeq(s, 1, i - 1)
           back  == SubSeq(s, i + 1, Len(s))
<1>1. front \in Seq(S) /\ Len(front) = i - 1
      /\ \A j \in 1..i - 1 : front[j] = s[j]
  BY SubSeqProperties
<1>2. back \in Seq(S) /\ Len(back) = Len(s) - i
      /\ \A j \in 1..Len(s) - i : back[j] = s[i + j]
  BY SubSeqProperties
<1>3. RemoveAt(s, i) = front \o back
  BY DEF RemoveAt
<1> HIDE DEF front, back
<1>4. /\ front \o back \in Seq(S)
      /\ Len(front \o back) = Len(s) - 1
      /\ \A j \in 1..Len(s) - 1 :
           (front \o back)[j] = IF j <= i - 1 THEN front[j] ELSE back[j - (i - 1)]
  <2>1. /\ front \o back \in Seq(S)
        /\ Len(front \o back) = Len(front) + Len(back)
        /\ \A j \in 1..Len(front) + Len(back) :
             (front \o back)[j] = IF j <= Len(front) THEN front[j]
                                  ELSE back[j - Len(front)]
    BY <1>1, <1>2, ConcatProperties
  <2>2. Len(front) = i - 1 /\ Len(back) = Len(s) - i /\ Len(s) \in Nat
    BY <1>1, <1>2, LenProperties
  <2>3. Len(front) + Len(back) = Len(s) - 1
    BY <2>2
  <2>4. QED
    BY <2>1, <2>2, <2>3
<1>5. ASSUME NEW j \in 1..Len(s) - 1
      PROVE  RemoveAt(s, i)[j] = IF j < i THEN s[j] ELSE s[j + 1]
  <2>1. CASE j < i
    BY <1>1, <1>3, <1>4, <2>1
  <2>2. CASE j >= i
    <3>1. j - (i - 1) \in 1..Len(s) - i /\ i + (j - (i - 1)) = j + 1
      BY <2>2
    <3>2. QED
      BY <1>2, <1>3, <1>4, <2>2, <3>1
  <2>3. QED
    BY <2>1, <2>2
<1>6. QED
  BY <1>3, <1>4, <1>5

(* Dropping a packet keeps every other one, in order.                       *)
LEMMA WithoutProperties ==
  ASSUME NEW S, NEW s \in Seq(S), NEW p
  PROVE  /\ Without(s, p) \in Seq(S)
         /\ Len(Without(s, p)) <= Len(s)
         /\ \E i \in 1..Len(s) + 1 :
              \A j \in 1..Len(Without(s, p)) :
                /\ j >= i => j + 1 \in 1..Len(s)
                /\ Without(s, p)[j] = IF j < i THEN s[j] ELSE s[j + 1]
         /\ \A k \in 1..Len(s) :
              s[k] # p => \E j \in 1..Len(Without(s, p)) : Without(s, p)[j] = s[k]
<1>0. Len(s) \in Nat /\ DOMAIN s = 1..Len(s)
  BY LenProperties
<1>1. CASE \E i \in DOMAIN s : s[i] = p
  <2> DEFINE i == CHOOSE i \in DOMAIN s : s[i] = p
  <2>1. i \in 1..Len(s) /\ s[i] = p
    BY <1>0, <1>1
  <2>2. Without(s, p) = RemoveAt(s, i)
    BY <1>1 DEF Without
  <2> HIDE DEF i
  <2>3. /\ RemoveAt(s, i) \in Seq(S)
        /\ Len(RemoveAt(s, i)) = Len(s) - 1
        /\ \A j \in 1..Len(s) - 1 :
             RemoveAt(s, i)[j] = IF j < i THEN s[j] ELSE s[j + 1]
    BY <2>1, RemoveAtProperties
  <2>4. ASSUME NEW k \in 1..Len(s), s[k] # p
        PROVE  \E j \in 1..Len(s) - 1 : RemoveAt(s, i)[j] = s[k]
    <3>1. CASE k < i
      BY <1>0, <2>1, <2>3, <3>1
    <3>2. CASE k > i
      <4>1. k - 1 \in 1..Len(s) - 1 /\ ~(k - 1 < i) /\ (k - 1) + 1 = k
        BY <1>0, <2>1, <3>2
      <4>2. QED
        BY <2>3, <4>1
    <3>3. QED
      BY <2>1, <2>4, <3>1, <3>2
  <2>5. ASSUME NEW j \in 1..Len(s) - 1
        PROVE  /\ j >= i => j + 1 \in 1..Len(s)
               /\ RemoveAt(s, i)[j] = IF j < i THEN s[j] ELSE s[j + 1]
    BY <1>0, <2>1, <2>3
  <2>6. QED
    <3>1. Without(s, p) \in Seq(S) /\ Len(Without(s, p)) = Len(s) - 1
      BY <2>2, <2>3
    <3>2. \A j \in 1..Len(Without(s, p)) :
             /\ j >= i => j + 1 \in 1..Len(s)
             /\ Without(s, p)[j] = IF j < i THEN s[j] ELSE s[j + 1]
      BY <2>2, <2>5, <3>1
    <3>3. \A k \in 1..Len(s) :
             s[k] # p => \E j \in 1..Len(Without(s, p)) : Without(s, p)[j] = s[k]
      BY <2>2, <2>4, <3>1
    <3>4. i \in 1..Len(s) + 1 /\ Len(Without(s, p)) <= Len(s)
      BY <1>0, <2>1, <3>1
    <3>5. QED
      BY <3>1, <3>2, <3>3, <3>4
<1>2. CASE ~\E i \in DOMAIN s : s[i] = p
  <2>1. Without(s, p) = s
    BY <1>2 DEF Without
  <2>2. ASSUME NEW j \in 1..Len(s)
        PROVE  /\ j >= Len(s) + 1 => j + 1 \in 1..Len(s)
               /\ s[j] = IF j < Len(s) + 1 THEN s[j] ELSE s[j + 1]
    BY <1>0
  <2>3. QED
    BY <1>0, <2>1, <2>2
<1>3. QED
  BY <1>1, <1>2

(* send_string() returns one of the states that update() knows.             *)
LEMMA SendStringType ==
  ASSUME NEW p \in Packet, NEW line \in Line
  PROVE  SendString(p, line) \in State
BY LineAssumption DEF SendString, State, LineOutcome, Unanswered

-----------------------------------------------------------------------------
LEMMA TypeInit == Init => TypeOK
<1> SUFFICES ASSUME Init PROVE TypeOK
  OBVIOUS
<1> USE DEF Init
<1>1. BufferType
  BY DEF BufferType
<1>2. PacketType
  BY BoundAssumption DEF PacketType, State
<1>3. LoopType
  BY DEF LoopType, Phase
<1>4. CallType
  BY DEF CallType
<1>5. HistoryType
  <2>1. device_id \in DeviceId /\ started \in BOOLEAN
    BY PacketAssumption
  <2>2. dispatched \in Nat /\ serial \in [Packet -> 0..dispatched]
    OBVIOUS
  <2>3. acked \in SUBSET Packet /\ lost \in [Packet -> 0..2] /\ acquired \in SUBSET Packet
    OBVIOUS
  <2>4. QED
    BY <2>1, <2>2, <2>3 DEF HistoryType
<1>6. QED
  BY <1>1, <1>2, <1>3, <1>4, <1>5 DEF TypeOK

(* The loops of update() look at packets only.                              *)
LEMMA PacketAt ==
  ASSUME TypeOK, NEW t \in IoThread, idx[t] <= Len(outgoing_packets)
  PROVE  outgoing_packets[idx[t]] \in Packet
BY ElementOfSeq, LenProperties DEF TypeOK, BufferType, LoopType

LEMMA WithoutType ==
  ASSUME TypeOK, NEW p
  PROVE  Without(outgoing_packets, p) \in Seq(Packet)
BY WithoutProperties DEF TypeOK, BufferType

LEMMA RearmType ==
  ASSUME TypeOK, NEW t \in IoThread, NEW p \in Packet, Rearm(t, p)
  PROVE  PacketType'
BY BoundAssumption DEF TypeOK, PacketType, Rearm, State

LEMMA FinishType ==
  ASSUME TypeOK, NEW t \in IoThread, NEW p \in Packet, Finish(t, p)
  PROVE  PacketType'
<1>1. CASE Fields[p].timing = 0
  BY <1>1 DEF TypeOK, Finish, Delete, PacketType, packetVars
<1>2. CASE Fields[p].timing # 0
  BY <1>2, RearmType DEF Finish
<1>3. QED
  BY <1>1, <1>2

(* A step that only moves the loop of an IO thread on.                      *)
LEMMA MoveType ==
  ASSUME TypeOK, NEW t \in IoThread, NEW phase \in Phase, NEW i \in Nat \ {0},
         pc[t] # "error", phase # "error", Move(t, phase, i)
  PROVE  TypeOK'
<1> USE DEF TypeOK, Move, Goto
<1>1. LoopType'
  BY DEF LoopType
<1>2. (BufferType /\ PacketType /\ CallType /\ HistoryType)'
  BY DEF BufferType, PacketType, CallType, HistoryType, packetVars, callVars,
         clientVars, history
<1>3. QED
  BY <1>1, <1>2

LEMMA TypeStep == TypeOK /\ [Next]_vars => TypeOK'
<1> SUFFICES ASSUME TypeOK, [Next]_vars
             PROVE  TypeOK'
  OBVIOUS
<1> USE DEF TypeOK
<1>1. ASSUME NEW th \in Thread, NEW p \in Packet, DispatchCheck(th, p)
      PROVE  TypeOK'
  <2> USE <1>1 DEF DispatchCheck, MayCall
  <2>1. CallType'
    BY PacketAssumption DEF CallType
  <2>2. (BufferType /\ PacketType /\ LoopType /\ HistoryType)'
    BY DEF BufferType, PacketType, packetVars, LoopType, ioVars, HistoryType, clientVars, history
  <2>3. QED
    BY <2>1, <2>2
<1>2. ASSUME NEW th \in Thread, DispatchAppend(th)
      PROVE  TypeOK'
  <2> USE <1>2 DEF DispatchAppend, Enqueue
  <2>0. arg[th] \in Packet
    BY DEF CallType
  <2>1. BufferType'
    <3>1. Append(outgoing_packets, arg[th]) \in Seq(Packet)
      BY <2>0, AppendProperties DEF BufferType
    <3>2. QED
      BY <3>1 DEF BufferType, ioVars
  <2>2. PacketType'
    BY PacketAssumption DEF PacketType, CallType, State
  <2>3. CallType'
    BY DEF CallType
  <2>4. HistoryType'
    BY PacketAssumption DEF HistoryType, CallType, clientVars
  <2>5. (LoopType)'
    BY DEF LoopType, ioVars
  <2>6. QED
    BY <2>1, <2>2, <2>3, <2>4, <2>5
<1>3. ASSUME NEW th \in Thread, DispatchReturn(th)
      PROVE  TypeOK'
  <2> USE <1>3 DEF DispatchReturn
  <2>1. CallType'
    BY DEF CallType
  <2>2. (BufferType /\ PacketType /\ LoopType /\ HistoryType)'
    BY DEF BufferType, PacketType, packetVars, LoopType, ioVars, HistoryType, clientVars, history
  <2>3. QED
    BY <2>1, <2>2
<1>4. ASSUME NEW t \in IoThread, StartClient(t)
      PROVE  TypeOK'
  <2> USE <1>4 DEF StartClient
  <2>1. LoopType'
    BY DEF LoopType, Phase
  <2>2. (BufferType /\ PacketType /\ CallType /\ HistoryType)'
    BY DEF BufferType, PacketType, packetVars, CallType, callVars, HistoryType, clientVars, history
  <2>3. QED
    BY <2>1, <2>2
<1>5. ASSUME NEW t \in IoThread, UpdateSkip(t)
      PROVE  TypeOK'
  BY <1>5, MoveType DEF UpdateSkip, AtPacket, At, LoopType, Phase
<1>6. ASSUME NEW t \in IoThread, NEW line \in Line, UpdateSend(t, line)
      PROVE  TypeOK'
  <2> USE <1>6 DEF UpdateSend, AtPacket, At, Goto
  <2>1. PacketType'
    <3>1. PICK p \in Packet : p = outgoing_packets[idx[t]]
      BY PacketAt
    <3>2. PICK result \in State : result = SendString(p, line)
      BY SendStringType
    <3>3. state' = [state EXCEPT ![p] = result] /\ UNCHANGED <<attempts, age>>
      BY <3>1, <3>2
    <3>4. \/ failures' = failures
          \/ failures' = [failures EXCEPT ![p] = Min2(failures[p] + 1, MAX_ATTEMPTS + 1)]
      BY <3>1
    <3>5. Min2(failures[p] + 1, MAX_ATTEMPTS + 1) \in 0..MAX_ATTEMPTS + 1
      <4>1. \A n \in 0..MAX_ATTEMPTS + 1 : Min2(n + 1, MAX_ATTEMPTS + 1) \in 0..MAX_ATTEMPTS + 1
        BY ONLY BoundAssumption DEF Min2
      <4>2. failures[p] \in 0..MAX_ATTEMPTS + 1
        BY ONLY PacketType, p \in Packet DEF PacketType
      <4>3. QED
        BY ONLY <4>1, <4>2
    <3>6. QED
      BY ONLY <3>3, <3>4, <3>5, PacketType, p \in Packet, result \in State DEF PacketType
  <2>2. LoopType'
    BY DEF LoopType, Phase
  <2>3. HistoryType'
    BY DEF HistoryType, BufferType, LoopType, clientVars
  <2>4. (BufferType /\ CallType)'
    BY DEF BufferType, CallType, callVars
  <2>5. QED
    BY <2>1, <2>2, <2>3, <2>4
<1>7. ASSUME NEW t \in IoThread, NEW line \in Line, UpdateRaises(t, line)
      PROVE  TypeOK'
  BY <1>7, MoveType DEF UpdateRaises, AtPacket, At, LoopType, Phase
<1>8. ASSUME NEW t \in IoThread, UpdateSent(t)
      PROVE  TypeOK'
  BY <1>8, MoveType DEF UpdateSent, AtPacket, At, LoopType, Phase
<1>9. ASSUME NEW t \in IoThread, ScanAcked(t)
      PROVE  TypeOK'
  <2> USE <1>9 DEF ScanAcked, AtPacket, At
  <2>1. BufferType'
    BY WithoutType DEF BufferType, Finish, Delete, Rearm
  <2>2. PacketType'
    BY PacketAt, FinishType
  <2>3. LoopType'
    BY DEF LoopType, Phase, Finish, Delete, Rearm, Goto
  <2>4. (CallType /\ HistoryType)'
    BY DEF CallType, callVars, HistoryType, clientVars, history
  <2>5. QED
    BY <2>1, <2>2, <2>3, <2>4
<1>10. ASSUME NEW t \in IoThread, ScanRetry(t)
      PROVE  TypeOK'
  <2> USE <1>10 DEF ScanRetry, AtFailed, AtPacket, At, CountAttempt, Goto
  <2>1. PacketType'
    BY PacketAt DEF PacketType
  <2>2. LoopType'
    BY DEF LoopType, Phase
  <2>3. (BufferType /\ CallType /\ HistoryType)'
    BY DEF BufferType, CallType, callVars, HistoryType, clientVars, history
  <2>4. QED
    BY <2>1, <2>2, <2>3
<1>11. ASSUME NEW t \in IoThread, ScanRaises(t)
      PROVE  TypeOK'
  <2> USE <1>11 DEF ScanRaises, AtFailed, AtPacket, At, CountAttempt, Goto
  <2>1. PacketType'
    BY PacketAt DEF PacketType
  <2>2. LoopType'
    BY DEF LoopType, Phase
  <2>3. (BufferType /\ CallType /\ HistoryType)'
    BY DEF BufferType, CallType, callVars, HistoryType, clientVars, history
  <2>4. QED
    BY <2>1, <2>2, <2>3
<1>12. ASSUME NEW t \in IoThread, ScanAcquire(t)
      PROVE  TypeOK'
  <2> USE <1>12 DEF ScanAcquire, AtFailed, AtPacket, At, CountAttempt, Goto
  <2>1. BufferType'
    BY WithoutType DEF BufferType
  <2>2. PacketType'
    BY PacketAt DEF PacketType
  <2>3. LoopType'
    BY DEF LoopType, Phase
  <2>4. HistoryType'
    BY PacketAssumption DEF HistoryType, BufferType, LoopType
  <2>5. (CallType)'
    BY DEF CallType, callVars
  <2>6. QED
    BY <2>1, <2>2, <2>3, <2>4, <2>5
<1>13. ASSUME NEW t \in IoThread, ScanLost(t)
      PROVE  TypeOK'
  <2> USE <1>13 DEF ScanLost, AtFailed, AtPacket, At, CountAttempt, Goto
  <2>1. PacketType'
    BY PacketAt DEF PacketType
  <2>2. LoopType'
    BY PacketAssumption DEF LoopType, BufferType, Phase
  <2>3. HistoryType'
    <3>1. PICK p \in Packet : p = outgoing_packets[idx[t]]
      BY PacketAt
    <3>2. lost' = [lost EXCEPT ![p] = Min2(lost[p] + 1, 2)]
      BY <3>1
    <3>3. lost' \in [Packet -> 0..2]
      BY ONLY <3>2, HistoryType, p \in Packet DEF HistoryType, Min2
    <3>4. QED
      BY <3>3 DEF HistoryType, BufferType, clientVars
  <2>4. (BufferType /\ CallType)'
    BY DEF BufferType, CallType, callVars
  <2>5. QED
    BY <2>1, <2>2, <2>3, <2>4
<1>14. ASSUME NEW t \in IoThread, ErrorReturn(t)
      PROVE  TypeOK'
  <2> USE <1>14 DEF ErrorReturn, At
  <2>1. BufferType'
    <3>1. Without(outgoing_packets, cur[t]) \in Seq(Packet)
      BY WithoutType
    <3>2. QED
      BY <3>1 DEF BufferType, Finish, Delete, Rearm
  <2>2. PacketType'
    BY FinishType DEF LoopType
  <2>3. LoopType'
    BY DEF LoopType, Phase, Finish, Delete, Rearm, Goto
  <2>4. (CallType /\ HistoryType)'
    BY DEF CallType, callVars, HistoryType, clientVars, history
  <2>5. QED
    BY <2>1, <2>2, <2>3, <2>4
<1>15. ASSUME NEW t \in IoThread, ScanNext(t)
      PROVE  TypeOK'
  BY <1>15, MoveType DEF ScanNext, AtPacket, At, LoopType, Phase
<1>16. ASSUME NEW t \in IoThread, AssignCopy(t)
      PROVE  TypeOK'
  <2> USE <1>16 DEF AssignCopy, At, Goto
  <2>1. BufferType'
    BY DEF BufferType
  <2>2. LoopType'
    BY DEF LoopType, Phase
  <2>3. (PacketType /\ CallType /\ HistoryType)'
    BY DEF PacketType, packetVars, CallType, callVars, HistoryType, clientVars, history
  <2>4. QED
    BY <2>1, <2>2, <2>3
<1>17. ASSUME NEW t \in IoThread, UpdateReturn(t)
      PROVE  TypeOK'
  BY <1>17, MoveType DEF UpdateReturn, AtPacket, At, LoopType, Phase
<1>18. ASSUME NEW t \in IoThread, ReceiveReturn(t)
      PROVE  TypeOK'
  BY <1>18, MoveType DEF ReceiveReturn, AtPacket, At, LoopType, Phase
<1>19. ASSUME Tick
      PROVE  TypeOK'
  <2> USE <1>19 DEF Tick
  <2>1. PacketType'
    BY BoundAssumption DEF PacketType
  <2>2. (BufferType /\ LoopType /\ CallType /\ HistoryType)'
    BY DEF BufferType, LoopType, ioVars, CallType, callVars, HistoryType, clientVars, history
  <2>3. QED
    BY <2>1, <2>2
<1>20. CASE UNCHANGED vars
  BY <1>20 DEF vars, BufferType, PacketType, packetVars, LoopType, ioVars, CallType, callVars, HistoryType, clientVars, history
<1>21. QED
  BY <1>1, <1>2, <1>3, <1>4, <1>5, <1>6, <1>7, <1>8, <1>9, <1>10, <1>11, <1>12, <1>13, <1>14, <1>15, <1>16, <1>17, <1>18, <1>19, <1>20
     DEF Next, IoStep, SendStep, ScanStep, Call, CallStep, DispatchRefused

(* Every variable keeps its type.                                           *)
THEOREM TypeCorrect == Spec => []TypeOK
<1>1. QED
  BY TypeInit, TypeStep, PTL DEF Spec

-----------------------------------------------------------------------------
(* BufferBound is not inductive: the list that an IO thread is about to     *)
(* assign must not be longer than the one it replaces.  This holds because  *)
(* only that thread shortens the list, so the theorem asks for one of them. *)
CopyShorter ==
  \A t \in IoThread : pc[t] = "assign" => Len(copy[t]) <= Len(outgoing_packets)

BoundInv == BufferBound /\ CopyShorter

(* The threads with an append under way are finitely many, at most all.     *)
LEMMA AppendingFinite ==
  /\ IsFiniteSet(Thread) /\ Cardinality(Thread) \in Nat
  /\ IsFiniteSet(Appending) /\ Cardinality(Appending) \in Nat
  /\ Cardinality(Appending) <= Cardinality(Thread)
<1>1. IsFiniteSet(Thread)
  BY ThreadAssumption, FS_Union DEF Thread
<1>2. Appending \subseteq Thread
  BY DEF Appending
<1>3. QED
  BY <1>1, <1>2, FS_Subset, FS_CardinalityType

LEMMA BoundInit == Init => BoundInv
<1> SUFFICES ASSUME Init PROVE BoundInv
  OBVIOUS
<1>1. Appending = {}
  BY DEF Init, Appending
<1>2. Len(outgoing_packets) = 0 /\ Cardinality(Appending) = 0
  BY <1>1, FS_EmptySet DEF Init
<1>3. BufferBound
  BY <1>2, AppendingFinite, BoundAssumption DEF BufferBound
<1>4. CopyShorter
  BY DEF Init, CopyShorter
<1>5. QED
  BY <1>3, <1>4 DEF BoundInv

LEMMA BoundStep ==
  ASSUME \A t, u \in IoThread : t = u
  PROVE  TypeOK /\ BoundInv /\ [Next]_vars => BoundInv'
<1> SUFFICES ASSUME TypeOK, BoundInv, [Next]_vars
             PROVE  BoundInv'
  OBVIOUS
<1> USE DEF BoundInv
<1>0. Len(outgoing_packets) \in Nat
  BY LenProperties DEF TypeOK, BufferType
<1>1. ASSUME UNCHANGED <<outgoing_packets, call>>
      PROVE  BufferBound'
  BY <1>1 DEF BufferBound, Appending
<1>2. ASSUME NEW th \in Thread, NEW p \in Packet, DispatchCheck(th, p)
      PROVE  BoundInv'
  <2>1. Len(outgoing_packets') <= MAX_PACKETS /\ Len(outgoing_packets') \in Nat
    BY <1>0, <1>2 DEF DispatchCheck, HasRoom
  <2>2. /\ Cardinality(Appending') <= Cardinality(Thread)
        /\ Cardinality(Appending') \in Nat /\ Cardinality(Thread) \in Nat
    <3>1. Appending' \subseteq Thread
      BY DEF Appending
    <3>2. QED
      BY <3>1, AppendingFinite, FS_Subset, FS_CardinalityType
  <2>3. BufferBound'
    BY <2>1, <2>2, BoundAssumption DEF BufferBound
  <2>4. CopyShorter'
    BY <1>2 DEF DispatchCheck, CopyShorter, ioVars
  <2>5. QED
    BY <2>3, <2>4
<1>3. ASSUME NEW th \in Thread, DispatchAppend(th)
      PROVE  BoundInv'
  <2>1. arg[th] \in Packet
    BY <1>3 DEF DispatchAppend, TypeOK, CallType
  <2>2. Len(outgoing_packets') = Len(outgoing_packets) + 1
    BY <1>3, <2>1, AppendProperties DEF DispatchAppend, Enqueue, TypeOK, BufferType
  <2>3. th \in Appending /\ Appending' = Appending \ {th}
    BY <1>3 DEF DispatchAppend, Appending, TypeOK, CallType
  <2>4. Cardinality(Appending') = Cardinality(Appending) - 1
    BY <2>3, AppendingFinite, FS_RemoveElement
  <2>5. BufferBound'
    BY <1>0, <2>2, <2>4, AppendingFinite, BoundAssumption DEF BufferBound
  <2>6. CopyShorter'
    <3>1. ASSUME NEW t \in IoThread, pc[t] = "assign"
          PROVE  Len(copy[t]) <= Len(outgoing_packets')
      <4>1. Len(copy[t]) \in Nat /\ Len(copy[t]) <= Len(outgoing_packets)
        BY <3>1, LenProperties DEF CopyShorter, TypeOK, BufferType
      <4>2. QED
        BY <1>0, <2>2, <4>1
    <3>2. QED
      BY <1>3, <3>1 DEF DispatchAppend, CopyShorter, ioVars
  <2>7. QED
    BY <2>5, <2>6
<1>4. ASSUME NEW th \in Thread, DispatchReturn(th)
      PROVE  BoundInv'
  <2>1. outgoing_packets' = outgoing_packets /\ Appending' = Appending
    BY <1>4 DEF DispatchReturn, Appending, TypeOK, CallType
  <2>2. QED
    BY <1>4, <2>1 DEF DispatchReturn, BufferBound, CopyShorter, ioVars
<1>5. ASSUME NEW t \in IoThread, AssignCopy(t)
      PROVE  BoundInv'
  <2>1. Len(copy[t]) \in Nat /\ Len(copy[t]) <= Len(outgoing_packets)
    BY <1>5, LenProperties DEF AssignCopy, At, CopyShorter, TypeOK, BufferType
  <2>2. Len(outgoing_packets') <= Len(outgoing_packets) /\ Len(outgoing_packets') \in Nat
    BY <1>5, <2>1 DEF AssignCopy
  <2>3. Appending' = Appending
    BY <1>5 DEF AssignCopy, Appending, callVars
  <2>4. BufferBound'
    BY <1>0, <2>2, <2>3, AppendingFinite, BoundAssumption DEF BufferBound
  <2>5. CopyShorter'
    BY <1>5 DEF AssignCopy, At, Goto, CopyShorter, TypeOK, LoopType
  <2>6. QED
    BY <2>4, <2>5
<1>6. ASSUME NEW t \in IoThread, NEW p,
             outgoing_packets' = outgoing_packets,
             pc' = [pc EXCEPT ![t] = "assign"],
             copy' = [copy EXCEPT ![t] = Without(outgoing_packets, p)]
      PROVE  CopyShorter'
  BY <1>6, WithoutProperties DEF CopyShorter, TypeOK, BufferType, LoopType
<1>7. ASSUME NEW t \in IoThread, NEW phase, phase # "assign",
             outgoing_packets' = outgoing_packets, copy' = copy,
             pc' = [pc EXCEPT ![t] = phase]
      PROVE  CopyShorter'
  BY <1>7 DEF CopyShorter, TypeOK, LoopType
<1>8. ASSUME NEW t \in IoThread, ScanAcquire(t)
      PROVE  BoundInv'
  BY <1>1, <1>6, <1>8 DEF ScanAcquire, Goto, callVars
<1>9. ASSUME NEW t \in IoThread, ScanAcked(t)
      PROVE  BoundInv'
  BY <1>1, <1>6, <1>7, <1>9
     DEF ScanAcked, Finish, Delete, Rearm, Goto, callVars
<1>10. ASSUME NEW t \in IoThread, ErrorReturn(t)
       PROVE  BoundInv'
  BY <1>1, <1>6, <1>7, <1>10
     DEF ErrorReturn, Finish, Delete, Rearm, Goto, callVars
<1>11. ASSUME NEW t \in IoThread, SendStep(t)
       PROVE  BoundInv'
  BY <1>1, <1>7, <1>11
     DEF SendStep, UpdateSkip, UpdateSend, UpdateRaises, UpdateSent, Move, Goto,
         callVars
<1>12. ASSUME NEW t \in IoThread,
              \/ StartClient(t) \/ ScanRetry(t) \/ ScanRaises(t) \/ ScanLost(t)
              \/ ScanNext(t) \/ UpdateReturn(t) \/ ReceiveReturn(t)
       PROVE  BoundInv'
  BY <1>1, <1>7, <1>12
     DEF StartClient, ScanRetry, ScanRaises, ScanLost, ScanNext, UpdateReturn,
         ReceiveReturn, Move, Goto, callVars
<1>13. CASE Tick
  BY <1>1, <1>13 DEF Tick, CopyShorter, ioVars, callVars
<1>14. CASE UNCHANGED vars
  BY <1>1, <1>14 DEF vars, CopyShorter, ioVars, callVars
<1>15. QED
  BY <1>2, <1>3, <1>4, <1>5, <1>8, <1>9, <1>10, <1>11, <1>12, <1>13, <1>14
     DEF Next, IoStep, ScanStep, Call, CallStep, DispatchRefused

(* The buffer exceeds MAX_PACKETS by at most one packet per thread that can *)
(* call dispatch(), as long as there is one IO thread.                      *)
THEOREM BufferBounded ==
  ASSUME \A t, u \in IoThread : t = u
  PROVE  Spec => []BufferBound
<1>1. TypeOK /\ BoundInv /\ [Next]_vars => BoundInv'
  BY BoundStep
<1>2. BoundInv => BufferBound
  BY DEF BoundInv
<1>3. QED
  BY <1>1, <1>2, BoundInit, TypeCorrect, PTL DEF Spec

-----------------------------------------------------------------------------
(* DispatchOrder needs to know that a packet is appended once: it is new    *)
(* while a thread is about to append it, and no other thread holds it.      *)
ArgumentsApart ==
  /\ \A th \in Thread : call[th] = "append" => serial[arg[th]] = 0
  /\ \A th, u \in Thread : arg[th] = arg[u] /\ arg[th] # NoPacket => th = u

OrderInv == ArgumentsApart /\ DispatchOrder

LEMMA WithoutOrder ==
  ASSUME NEW s \in Seq(Packet), NEW p, InDispatchOrder(s)
  PROVE  InDispatchOrder(Without(s, p))
<1> DEFINE w == Without(s, p)
<1>1. /\ w \in Seq(Packet) /\ Len(w) \in Nat /\ Len(w) <= Len(s)
      /\ DOMAIN w = 1..Len(w) /\ DOMAIN s = 1..Len(s) /\ Len(s) \in Nat
  BY WithoutProperties, LenProperties
<1>2. PICK k \in 1..Len(s) + 1 :
        \A j \in 1..Len(w) :
          /\ j >= k => j + 1 \in 1..Len(s)
          /\ w[j] = IF j < k THEN s[j] ELSE s[j + 1]
  BY WithoutProperties
<1> HIDE DEF w
<1>3. ASSUME NEW j \in 1..Len(w)
      PROVE  serial[w[j]] > 0
  BY <1>1, <1>2 DEF InDispatchOrder
<1>4. ASSUME NEW i \in 1..Len(w), NEW j \in 1..Len(w), i < j
      PROVE  serial[w[i]] < serial[w[j]]
  <2>1. CASE i < k /\ j < k
    BY <1>1, <1>2, <1>4, <2>1 DEF InDispatchOrder
  <2>2. CASE i < k /\ j >= k
    <3>1. i \in 1..Len(s) /\ j + 1 \in 1..Len(s) /\ i < j + 1
      BY <1>1, <1>2, <1>4, <2>2
    <3>2. w[i] = s[i] /\ w[j] = s[j + 1]
      BY <1>1, <1>2, <2>2
    <3>3. QED
      BY <1>1, <3>1, <3>2 DEF InDispatchOrder
  <2>3. CASE i >= k /\ j >= k
    <3>1. i + 1 \in 1..Len(s) /\ j + 1 \in 1..Len(s) /\ i + 1 < j + 1
      BY <1>1, <1>2, <1>4, <2>3
    <3>2. w[i] = s[i + 1] /\ w[j] = s[j + 1]
      BY <1>1, <1>2, <2>3
    <3>3. QED
      BY <1>1, <3>1, <3>2 DEF InDispatchOrder
  <2>4. QED
    BY <1>2, <1>4, <2>1, <2>2, <2>3
<1>5. QED
  BY <1>1, <1>3, <1>4 DEF InDispatchOrder, w

LEMMA OrderInit == Init => OrderInv
BY DEF Init, OrderInv, ArgumentsApart, DispatchOrder, InDispatchOrder

LEMMA OrderStep == TypeOK /\ OrderInv /\ [Next]_vars => OrderInv'
<1> SUFFICES ASSUME TypeOK, OrderInv, [Next]_vars
             PROVE  OrderInv'
  OBVIOUS
<1> USE DEF OrderInv
<1>1. ASSUME UNCHANGED <<call, arg, serial>>
      PROVE  ArgumentsApart'
  BY <1>1 DEF ArgumentsApart
<1>2. ASSUME UNCHANGED <<outgoing_packets, serial, copy>>
      PROVE  DispatchOrder'
  BY <1>2 DEF DispatchOrder, InDispatchOrder
<1>3. ASSUME NEW t \in IoThread, NEW p, UNCHANGED <<outgoing_packets, serial>>,
             copy' = [copy EXCEPT ![t] = Without(outgoing_packets, p)]
      PROVE  DispatchOrder'
  <2>1. InDispatchOrder(Without(outgoing_packets, p))
    BY WithoutOrder DEF TypeOK, BufferType, DispatchOrder
  <2>2. \A u \in IoThread :
          copy'[u] = IF u = t THEN Without(outgoing_packets, p) ELSE copy[u]
    BY <1>3 DEF TypeOK, BufferType
  <2>3. QED
    BY <1>3, <2>1, <2>2 DEF DispatchOrder, InDispatchOrder
<1>4. ASSUME NEW th \in Thread, NEW p \in Packet, DispatchCheck(th, p)
      PROVE  OrderInv'
  <2>1. ArgumentsApart'
    BY <1>4, PacketAssumption
       DEF DispatchCheck, Fresh, ArgumentsApart, TypeOK, CallType, history
  <2>2. QED
    BY <1>2, <1>4, <2>1 DEF DispatchCheck, ioVars, history
<1>5. ASSUME NEW th \in Thread, DispatchAppend(th)
      PROVE  OrderInv'
  <2> DEFINE a == arg[th]
  <2>1. a \in Packet /\ a # NoPacket /\ serial[a] = 0
    BY <1>5, PacketAssumption DEF DispatchAppend, ArgumentsApart, TypeOK, CallType
  <2>2. /\ dispatched \in Nat
        /\ \A p \in Packet : serial[p] \in Nat /\ serial[p] <= dispatched
        /\ \A p \in Packet :
             serial'[p] = IF p = a THEN dispatched + 1 ELSE serial[p]
    BY <1>5 DEF DispatchAppend, TypeOK, HistoryType
  <2>3. /\ Len(outgoing_packets) \in Nat
        /\ DOMAIN outgoing_packets = 1..Len(outgoing_packets)
        /\ \A i \in 1..Len(outgoing_packets) : outgoing_packets[i] \in Packet
    BY LenProperties, ElementOfSeq DEF TypeOK, BufferType
  <2>4. /\ DOMAIN outgoing_packets' = 1..Len(outgoing_packets) + 1
        /\ \A i \in 1..Len(outgoing_packets) :
             outgoing_packets'[i] = outgoing_packets[i]
        /\ outgoing_packets'[Len(outgoing_packets) + 1] = a
    BY <1>5, <2>1, AppendProperties, LenProperties
       DEF DispatchAppend, Enqueue, TypeOK, BufferType
  <2>5. ArgumentsApart'
    BY <1>5, <2>1, <2>2 DEF DispatchAppend, ArgumentsApart, TypeOK, CallType
  <2> HIDE DEF a
  <2>6. InDispatchOrder(outgoing_packets)'
    <3>1. ASSUME NEW i \in 1..Len(outgoing_packets)
          PROVE  /\ serial'[outgoing_packets'[i]] = serial[outgoing_packets[i]]
                 /\ serial[outgoing_packets[i]] > 0
                 /\ serial[outgoing_packets[i]] < dispatched + 1
      <4>1. serial[outgoing_packets[i]] > 0
        BY <2>3 DEF DispatchOrder, InDispatchOrder
      <4>2. QED
        BY <2>1, <2>2, <2>3, <2>4, <4>1
    <3>2. serial'[outgoing_packets'[Len(outgoing_packets) + 1]] = dispatched + 1
      BY <2>1, <2>2, <2>4
    <3>3. ASSUME NEW i \in 1..Len(outgoing_packets) + 1
          PROVE  serial'[outgoing_packets'[i]] > 0
      <4>1. i \in 1..Len(outgoing_packets) \/ i = Len(outgoing_packets) + 1
        BY <2>3
      <4>2. QED
        BY <2>2, <3>1, <3>2, <4>1
    <3>4. ASSUME NEW i \in 1..Len(outgoing_packets) + 1,
                 NEW j \in 1..Len(outgoing_packets) + 1, i < j
          PROVE  serial'[outgoing_packets'[i]] < serial'[outgoing_packets'[j]]
      <4>1. i \in 1..Len(outgoing_packets)
        BY <2>3, <3>4
      <4>2. CASE j = Len(outgoing_packets) + 1
        BY <3>1, <3>2, <4>1, <4>2
      <4>3. CASE j \in 1..Len(outgoing_packets)
        <5>1. serial[outgoing_packets[i]] < serial[outgoing_packets[j]]
          BY <2>3, <3>4, <4>1, <4>3 DEF DispatchOrder, InDispatchOrder
        <5>2. QED
          BY <3>1, <4>1, <4>3, <5>1
      <4>4. QED
        BY <2>3, <4>2, <4>3
    <3>5. QED
      BY <2>4, <3>3, <3>4 DEF InDispatchOrder
  <2>7. ASSUME NEW t \in IoThread
        PROVE  InDispatchOrder(copy[t])'
    <3>1. /\ copy'[t] = copy[t] /\ InDispatchOrder(copy[t])
          /\ \A i \in DOMAIN copy[t] : copy[t][i] \in Packet
      BY <1>5, LenProperties, ElementOfSeq
         DEF DispatchAppend, ioVars, DispatchOrder, TypeOK, BufferType
    <3>2. \A i \in DOMAIN copy[t] : serial'[copy[t][i]] = serial[copy[t][i]]
      BY <2>1, <2>2, <3>1 DEF InDispatchOrder
    <3>3. QED
      BY <3>1, <3>2 DEF InDispatchOrder
  <2>8. QED
    BY <2>5, <2>6, <2>7 DEF DispatchOrder
<1>6. ASSUME NEW th \in Thread, DispatchReturn(th)
      PROVE  OrderInv'
  <2>1. ArgumentsApart'
    BY <1>6, PacketAssumption
       DEF DispatchReturn, ArgumentsApart, TypeOK, CallType, history
  <2>2. QED
    BY <1>2, <1>6, <2>1 DEF DispatchReturn, ioVars, history
<1>7. ASSUME NEW t \in IoThread, AssignCopy(t)
      PROVE  OrderInv'
  <2>1. InDispatchOrder(outgoing_packets)'
    BY <1>7 DEF AssignCopy, DispatchOrder, InDispatchOrder, history
  <2>2. ASSUME NEW u \in IoThread
        PROVE  InDispatchOrder(copy[u])'
    <3>1. copy'[u] = IF u = t THEN <<>> ELSE copy[u]
      BY <1>7 DEF AssignCopy, TypeOK, BufferType
    <3>2. serial' = serial
      BY <1>7 DEF AssignCopy, history
    <3>3. QED
      BY <3>1, <3>2 DEF DispatchOrder, InDispatchOrder
  <2>3. QED
    BY <1>1, <1>7, <2>1, <2>2 DEF AssignCopy, DispatchOrder, callVars, history
<1>8. ASSUME NEW t \in IoThread, ScanAcquire(t)
      PROVE  OrderInv'
  BY <1>1, <1>3, <1>8 DEF ScanAcquire, callVars
<1>9. ASSUME NEW t \in IoThread, ScanAcked(t)
      PROVE  OrderInv'
  BY <1>1, <1>2, <1>3, <1>9 DEF ScanAcked, Finish, Delete, Rearm, callVars, history
<1>10. ASSUME NEW t \in IoThread, ErrorReturn(t)
       PROVE  OrderInv'
  BY <1>1, <1>2, <1>3, <1>10 DEF ErrorReturn, Finish, Delete, Rearm, callVars, history
<1>11. ASSUME NEW t \in IoThread, SendStep(t)
       PROVE  OrderInv'
  BY <1>1, <1>2, <1>11
     DEF SendStep, UpdateSkip, UpdateSend, UpdateRaises, UpdateSent, Move,
         callVars, history
<1>12. ASSUME NEW t \in IoThread,
              \/ StartClient(t) \/ ScanRetry(t) \/ ScanRaises(t) \/ ScanLost(t)
              \/ ScanNext(t) \/ UpdateReturn(t) \/ ReceiveReturn(t)
       PROVE  OrderInv'
  BY <1>1, <1>2, <1>12
     DEF StartClient, ScanRetry, ScanRaises, ScanLost, ScanNext, UpdateReturn,
         ReceiveReturn, Move, callVars, history
<1>13. CASE Tick
  BY <1>1, <1>2, <1>13 DEF Tick, ioVars, callVars, history
<1>14. CASE UNCHANGED vars
  BY <1>1, <1>2, <1>14 DEF vars, ioVars, callVars, history
<1>15. QED
  BY <1>4, <1>5, <1>6, <1>7, <1>8, <1>9, <1>10, <1>11, <1>12, <1>13, <1>14
     DEF Next, IoStep, ScanStep, Call, CallStep, DispatchRefused

(* Packets are kept in the order of their appends and never twice, even if  *)
(* start_client() created several IO threads.                               *)
THEOREM OrderKept == Spec => []DispatchOrder
<1>1. OrderInv => DispatchOrder
  BY DEF OrderInv
<1>2. QED
  BY <1>1, OrderInit, OrderStep, TypeCorrect, PTL DEF Spec

-----------------------------------------------------------------------------
(* With a single IO thread and no other caller, nothing is lost: appends    *)
(* happen only where the IO thread calls back, never between its copying    *)
(* the list and its assigning the copy, so that the copy lacks only the     *)
(* packet it was made to drop, and that one has its verdict.                *)
CallsInCallbacks ==
  \A t \in IoThread : call[t] # "idle" => pc[t] \in {"receive", "error"}

VerdictsKnown ==
  /\ \A p \in Packet : state[p] = "ACK" => p \in acked
  /\ \A t \in IoThread : pc[t] = "error" => lost[cur[t]] > 0

CopyComplete ==
  \A t \in IoThread : pc[t] = "assign" =>
    \A p \in Packet :
      InBuffer(p) => Settled(p) \/ \E j \in DOMAIN copy[t] : copy[t][j] = p

KeepInv == CallsInCallbacks /\ VerdictsKnown /\ CopyComplete /\ NoSilentLoss

LEMMA KeepInit == Init => KeepInv
BY DEF Init, KeepInv, CallsInCallbacks, VerdictsKnown, CopyComplete, NoSilentLoss, Thread

(* Verdicts are never taken back.                                           *)
LEMMA SettledStays ==
  ASSUME TypeOK, [Next]_vars, NEW p \in Packet, Settled(p)
  PROVE  Settled(p)'
<1>1. ASSUME UNCHANGED <<acked, lost, acquired>>
      PROVE  Settled(p)'
  BY <1>1 DEF Settled
<1>2. ASSUME NEW t \in IoThread, NEW line \in Line, UpdateSend(t, line)
      PROVE  Settled(p)'
  BY <1>2 DEF UpdateSend, Settled
<1>3. ASSUME NEW t \in IoThread, ScanLost(t)
      PROVE  Settled(p)'
  BY <1>3 DEF ScanLost, Settled, Min2, TypeOK, HistoryType
<1>4. ASSUME NEW t \in IoThread, ScanAcquire(t)
      PROVE  Settled(p)'
  BY <1>4 DEF ScanAcquire, Settled
<1>5. ASSUME NEW th \in Thread, Call(th) \/ CallStep(th)
      PROVE  Settled(p)'
  BY <1>1, <1>5 DEF Call, CallStep, DispatchCheck, DispatchRefused, DispatchAppend,
                    DispatchReturn, vars, history
<1>6. ASSUME NEW t \in IoThread,
             \/ StartClient(t) \/ UpdateSkip(t) \/ UpdateSent(t)
             \/ \E line \in Line : UpdateRaises(t, line)
             \/ ScanAcked(t) \/ ScanRetry(t) \/ ScanRaises(t) \/ ErrorReturn(t)
             \/ ScanNext(t) \/ AssignCopy(t) \/ UpdateReturn(t) \/ ReceiveReturn(t)
      PROVE  Settled(p)'
  BY <1>1, <1>6
     DEF StartClient, UpdateSkip, UpdateSent, UpdateRaises, ScanAcked, ScanRetry,
         ScanRaises, ErrorReturn, ScanNext, AssignCopy, UpdateReturn,
         ReceiveReturn, Move, history
<1>7. CASE Tick \/ UNCHANGED vars
  BY <1>1, <1>7 DEF Tick, vars, history
<1>8. QED
  BY <1>2, <1>3, <1>4, <1>5, <1>6, <1>7 DEF Next, IoStep, SendStep, ScanStep

LEMMA KeepStep ==
  ASSUME Caller = {}, \A t, u \in IoThread : t = u
  PROVE  TypeOK /\ KeepInv /\ [Next]_vars => KeepInv'
<1> SUFFICES ASSUME TypeOK, KeepInv, [Next]_vars
             PROVE  KeepInv'
  OBVIOUS
<1> USE DEF KeepInv
<1>0. Thread = IoThread
  BY DEF Thread
(* What a step does not touch stays as it is.                               *)
<1>1. ASSUME UNCHANGED <<outgoing_packets, serial>>
      PROVE  NoSilentLoss'
  BY <1>1, SettledStays DEF NoSilentLoss, InBuffer
<1>2. ASSUME NEW t \in IoThread, NEW phase, phase # "assign",
             UNCHANGED <<outgoing_packets, copy>>,
             pc' = [pc EXCEPT ![t] = phase]
      PROVE  CopyComplete'
  BY <1>2, SettledStays DEF CopyComplete, InBuffer, TypeOK, LoopType
<1>3. ASSUME NEW t \in IoThread, NEW phase, call[t] = "idle",
             UNCHANGED call, pc' = [pc EXCEPT ![t] = phase]
      PROVE  CallsInCallbacks'
  BY <1>3 DEF CallsInCallbacks, TypeOK, LoopType
<1>4. ASSUME NEW t \in IoThread, NEW phase, phase # "error",
             UNCHANGED <<state, acked, lost, cur>>,
             pc' = [pc EXCEPT ![t] = phase]
      PROVE  VerdictsKnown'
  BY <1>4 DEF VerdictsKnown, TypeOK, LoopType
(* A deletion: the copy lacks only a packet that has its verdict.           *)
<1>5. ASSUME NEW t \in IoThread, NEW q \in Packet, Settled(q)',
             UNCHANGED outgoing_packets,
             copy' = [copy EXCEPT ![t] = Without(outgoing_packets, q)]
      PROVE  CopyComplete'
  <2>1. ASSUME NEW p \in Packet, InBuffer(p), p # q
        PROVE  \E j \in DOMAIN copy'[t] : copy'[t][j] = p
    <3>1. Without(outgoing_packets, q) \in Seq(Packet)
      BY WithoutType
    <3>2. PICK k \in 1..Len(outgoing_packets) : outgoing_packets[k] = p
      BY <2>1, LenProperties DEF InBuffer, TypeOK, BufferType
    <3>3. PICK j \in 1..Len(Without(outgoing_packets, q)) :
                 Without(outgoing_packets, q)[j] = p
      BY <2>1, <3>2, WithoutProperties DEF TypeOK, BufferType
    <3>4. QED
      BY <1>5, <3>1, <3>3, LenProperties DEF TypeOK, BufferType
  <2>2. QED
    BY <1>5, <2>1 DEF CopyComplete, InBuffer
<1>6. ASSUME NEW th \in Thread, NEW p \in Packet, DispatchCheck(th, p)
      PROVE  KeepInv'
  <2>1. CallsInCallbacks'
    BY <1>0, <1>6 DEF DispatchCheck, MayCall, CallsInCallbacks, ioVars, TypeOK, CallType
  <2>2. CopyComplete' /\ VerdictsKnown'
    BY <1>6, SettledStays
       DEF DispatchCheck, CopyComplete, VerdictsKnown, InBuffer, ioVars, packetVars, history
  <2>3. QED
    BY <1>1, <1>6, <2>1, <2>2 DEF DispatchCheck, history
<1>7. ASSUME NEW th \in Thread, DispatchAppend(th)
      PROVE  KeepInv'
  <2>1. th \in IoThread /\ pc[th] # "assign" /\ arg[th] \in Packet
    BY <1>0, <1>7 DEF DispatchAppend, CallsInCallbacks, TypeOK, CallType
  <2>2. CallsInCallbacks'
    BY <1>0, <1>7 DEF DispatchAppend, CallsInCallbacks, ioVars, TypeOK, CallType
  <2>3. VerdictsKnown'
    BY <1>7, <2>1 DEF DispatchAppend, VerdictsKnown, ioVars, TypeOK, PacketType
  <2>4. CopyComplete'
    BY <1>7, <2>1 DEF DispatchAppend, CopyComplete, ioVars
  <2>5. ASSUME NEW p \in Packet, InBuffer(p) \/ p = arg[th]
        PROVE  InBuffer(p)'
    <3>1. /\ DOMAIN outgoing_packets = 1..Len(outgoing_packets)
          /\ DOMAIN outgoing_packets' = 1..Len(outgoing_packets) + 1
          /\ Len(outgoing_packets) \in Nat
          /\ \A i \in 1..Len(outgoing_packets) :
               outgoing_packets'[i] = outgoing_packets[i]
          /\ outgoing_packets'[Len(outgoing_packets) + 1] = arg[th]
      BY <1>7, <2>1, AppendProperties, LenProperties
         DEF DispatchAppend, Enqueue, TypeOK, BufferType
    <3>2. QED
      BY <2>5, <3>1 DEF InBuffer
  <2>6. NoSilentLoss'
    BY <1>7, <2>5, SettledStays
       DEF DispatchAppend, NoSilentLoss, TypeOK, HistoryType
  <2>7. QED
    BY <2>2, <2>3, <2>4, <2>6
<1>8. ASSUME NEW th \in Thread, DispatchReturn(th)
      PROVE  KeepInv'
  <2>1. CallsInCallbacks'
    BY <1>0, <1>8 DEF DispatchReturn, CallsInCallbacks, ioVars, TypeOK, CallType
  <2>2. CopyComplete' /\ VerdictsKnown'
    BY <1>8, SettledStays
       DEF DispatchReturn, CopyComplete, VerdictsKnown, InBuffer, ioVars, packetVars, history
  <2>3. QED
    BY <1>1, <1>8, <2>1, <2>2 DEF DispatchReturn, history
<1>9. ASSUME NEW t \in IoThread, AssignCopy(t)
      PROVE  KeepInv'
  <2>1. NoSilentLoss'
    <3>1. ASSUME NEW p \in Packet, serial'[p] > 0
          PROVE  InBuffer(p)' \/ Settled(p)'
      <4>1. InBuffer(p) \/ Settled(p)
        BY <1>9, <3>1 DEF AssignCopy, NoSilentLoss, history
      <4>2. CASE Settled(p)
        BY <4>2, SettledStays
      <4>3. CASE InBuffer(p) /\ ~Settled(p)
        BY <1>9, <4>3 DEF AssignCopy, At, CopyComplete, InBuffer
      <4>4. QED
        BY <4>1, <4>2, <4>3
    <3>2. QED
      BY <3>1 DEF NoSilentLoss
  <2>2. CopyComplete'
    BY <1>9 DEF AssignCopy, Goto, CopyComplete, TypeOK, LoopType
  <2>3. CallsInCallbacks' /\ VerdictsKnown'
    BY <1>3, <1>4, <1>9 DEF AssignCopy, At, Goto, callVars, packetVars, history
  <2>4. QED
    BY <2>1, <2>2, <2>3
<1>10. ASSUME NEW t \in IoThread, NEW q \in Packet, Finish(t, q), At(t, "scan") \/ At(t, "error"),
              Settled(q), cur' = cur \/ cur' = [cur EXCEPT ![t] = NoPacket],
              UNCHANGED <<outgoing_packets, call, serial, acked, lost, acquired>>
       PROVE  KeepInv'
  <2>1. Settled(q)'
    BY <1>10, SettledStays
  <2>2. CASE Fields[q].timing = 0
    <3>1. VerdictsKnown'
      BY <1>10, <2>2 DEF Finish, Delete, Goto, VerdictsKnown, packetVars, TypeOK, LoopType
    <3>2. QED
      BY <1>1, <1>3, <1>5, <1>10, <2>1, <2>2, <3>1 DEF Finish, Delete, Goto, At
  <2>3. CASE Fields[q].timing # 0
    <3>1. VerdictsKnown'
      BY <1>10, <2>3
         DEF Finish, Rearm, Goto, VerdictsKnown, TypeOK, LoopType, PacketType
    <3>2. QED
      BY <1>1, <1>2, <1>3, <1>10, <2>3, <3>1 DEF Finish, Rearm, Goto, At
  <2>4. QED
    BY <2>2, <2>3
<1>11. ASSUME NEW t \in IoThread, ScanAcked(t)
       PROVE  KeepInv'
  <2>1. outgoing_packets[idx[t]] \in Packet /\ Settled(outgoing_packets[idx[t]])
    BY <1>11, PacketAt DEF ScanAcked, AtPacket, VerdictsKnown, Settled
  <2>2. QED
    BY <1>10, <1>11, <2>1 DEF ScanAcked, AtPacket, callVars, history
<1>12. ASSUME NEW t \in IoThread, ErrorReturn(t)
       PROVE  KeepInv'
  <2>1. cur[t] \in Packet /\ Settled(cur[t])
    BY <1>12 DEF ErrorReturn, At, VerdictsKnown, Settled, TypeOK, LoopType
  <2>2. QED
    BY <1>10, <1>12, <2>1 DEF ErrorReturn, callVars, history
<1>13. ASSUME NEW t \in IoThread, ScanAcquire(t)
       PROVE  KeepInv'
  <2>1. PICK q \in Packet : q = outgoing_packets[idx[t]]
    BY <1>13, PacketAt DEF ScanAcquire, AtFailed, AtPacket
  <2>2. /\ q \in acquired' /\ outgoing_packets' = outgoing_packets
        /\ copy' = [copy EXCEPT ![t] = Without(outgoing_packets, q)]
    BY <1>13, <2>1 DEF ScanAcquire
  <2>3. Settled(q)'
    BY <2>2 DEF Settled
  <2>4. CopyComplete'
    BY <1>5, <2>2, <2>3
  <2>5. QED
    BY <1>1, <1>3, <1>4, <1>13, <2>4
       DEF ScanAcquire, AtFailed, AtPacket, At, Goto, callVars
<1>14. ASSUME NEW t \in IoThread, ScanLost(t)
       PROVE  KeepInv'
  <2> DEFINE q == outgoing_packets[idx[t]]
  <2>1. q \in Packet
    BY <1>14, PacketAt DEF ScanLost, AtFailed, AtPacket
  <2>2. VerdictsKnown'
    BY <1>14, <2>1
       DEF ScanLost, Goto, VerdictsKnown, Min2, TypeOK, LoopType, HistoryType
  <2>3. QED
    BY <1>1, <1>2, <1>3, <1>14, <2>2
       DEF ScanLost, AtFailed, AtPacket, At, Goto, callVars
<1>15. ASSUME NEW t \in IoThread, NEW line \in Line, UpdateSend(t, line)
       PROVE  KeepInv'
  <2> DEFINE q == outgoing_packets[idx[t]]
  <2>1. q \in Packet
    BY <1>15, PacketAt DEF UpdateSend, AtPacket
  <2>2. VerdictsKnown'
    BY <1>15, <2>1
       DEF UpdateSend, AtPacket, At, Goto, VerdictsKnown, TypeOK, LoopType, PacketType
  <2>3. QED
    BY <1>1, <1>2, <1>3, <1>15, <2>2 DEF UpdateSend, AtPacket, At, Goto, callVars
<1>16. ASSUME NEW t \in IoThread,
              \/ UpdateSkip(t) \/ UpdateSent(t) \/ \E line \in Line : UpdateRaises(t, line)
              \/ ScanRetry(t) \/ ScanRaises(t) \/ ScanNext(t) \/ UpdateReturn(t)
              \/ ReceiveReturn(t)
       PROVE  KeepInv'
  BY <1>1, <1>2, <1>3, <1>4, <1>16
     DEF UpdateSkip, UpdateSent, UpdateRaises, ScanRetry, ScanRaises, ScanNext,
         UpdateReturn, ReceiveReturn, AtFailed, AtPacket, At, Move, Goto,
         packetVars, callVars, history
<1>17. ASSUME NEW t \in IoThread, StartClient(t)
       PROVE  KeepInv'
  <2>1. call[t] = "idle"
    BY <1>17 DEF StartClient, CallsInCallbacks
  <2>2. QED
    BY <1>1, <1>2, <1>3, <1>4, <1>17, <2>1
       DEF StartClient, packetVars, callVars, history
<1>18. CASE Tick
  BY <1>1, <1>18, SettledStays
     DEF Tick, CopyComplete, CallsInCallbacks, VerdictsKnown, InBuffer, ioVars,
         callVars, history
<1>19. CASE UNCHANGED vars
  BY <1>1, <1>19, SettledStays
     DEF vars, CopyComplete, CallsInCallbacks, VerdictsKnown, InBuffer, ioVars,
         callVars, packetVars, history
<1>20. QED
  BY <1>6, <1>7, <1>8, <1>9, <1>11, <1>12, <1>13, <1>14, <1>15, <1>16, <1>17,
     <1>18, <1>19
     DEF Next, IoStep, SendStep, ScanStep, Call, CallStep, DispatchRefused

(* In the single-threaded use of the protocol object, dispatch() keeps its  *)
(* promise: a packet leaves the buffer with a verdict or not at all.        *)
THEOREM NothingLostSilently ==
  ASSUME Caller = {}, \A t, u \in IoThread : t = u
  PROVE  Spec => []NoSilentLoss
<1>1. TypeOK /\ KeepInv /\ [Next]_vars => KeepInv'
  BY KeepStep
<1>2. KeepInv => NoSilentLoss
  BY DEF KeepInv
<1>3. QED
  BY <1>1, <1>2, KeepInit, TypeCorrect, PTL DEF Spec
=============================================================================
