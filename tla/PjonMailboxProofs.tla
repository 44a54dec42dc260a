------------------------- MODULE PjonMailboxProofs --------------------------
(***************************************************************************)
(* The outgoing buffer of PjonOutgoing is the mailbox of PjonMailbox when  *)
(* only the IO thread itself, inside the functions it calls back, calls    *)
(* dispatch(): every step of the code is a step of the mailbox or changes  *)
(* nothing that an application can tell.                                   *)
(*                                                                         *)
(* Between the test of dispatch() and its append, and between the copying  *)
(* of the list and its assignment, nothing else touches the buffer.        *)
(***************************************************************************)
EXTENDS PjonVerdictProofs

AppendHasRoom ==
  \A th \in Thread : call[th] = "append" => Len(outgoing_packets) <= MAX_PACKETS

(* A packet to delete: it has its verdict, and is not repeated or a given   *)
(* up id acquisition.                                                       *)
Dismissed(p) == Settled(p) /\ (Fields[p].timing = 0 \/ Fields[p].acquire_id)

(* The copy that replaces the buffer is the buffer without such a packet.   *)
CopyOfBuffer ==
  \A t \in IoThread : pc[t] = "assign" =>
    \E i \in DOMAIN outgoing_packets :
      /\ Dismissed(outgoing_packets[i])
      /\ copy[t] = RemoveAt(outgoing_packets, i)

AloneInv == CallsInCallbacks /\ AppendHasRoom /\ CopyOfBuffer

(* What the other invariants say of a state.                                *)
Known == TypeOK /\ OrderInv /\ PlacesInv /\ KeepInv /\ AloneInv

-----------------------------------------------------------------------------
LEMMA WithoutAt ==
  ASSUME TypeOK, OrderInv, NEW i \in DOMAIN outgoing_packets
  PROVE  Without(outgoing_packets, outgoing_packets[i]) = RemoveAt(outgoing_packets, i)
<1> DEFINE p == outgoing_packets[i]
           k == CHOOSE k \in DOMAIN outgoing_packets : outgoing_packets[k] = p
<1>1. k \in DOMAIN outgoing_packets /\ outgoing_packets[k] = p
  OBVIOUS
<1>2. k = i
  BY <1>1, Places
<1>3. Without(outgoing_packets, p) = RemoveAt(outgoing_packets, k)
  BY DEF Without
<1>4. QED
  BY <1>2, <1>3

LEMMA AloneInit == Init => AloneInv
BY DEF Init, AloneInv, CallsInCallbacks, AppendHasRoom, CopyOfBuffer, Thread

(* A step of the loop that leaves the buffer as it is.                      *)
LEMMA AloneMove ==
  ASSUME Known, NEW t \in IoThread, NEW phase, phase # "assign", call[t] = "idle",
         pc' = [pc EXCEPT ![t] = phase],
         UNCHANGED <<outgoing_packets, call, arg>>,
         \A u, w \in IoThread : u = w
  PROVE  AppendHasRoom' /\ CopyOfBuffer'
<1>1. AppendHasRoom'
  BY DEF Known, AloneInv, AppendHasRoom
<1>2. \A u \in IoThread : pc'[u] # "assign"
  BY DEF Known, TypeOK, LoopType
<1>3. QED
  BY <1>1, <1>2 DEF CopyOfBuffer

(* The loop is done with the packet at its position.                        *)
LEMMA AloneDelete ==
  ASSUME Known, \A u, w \in IoThread : u = w, NEW t \in IoThread,
         NEW i \in DOMAIN outgoing_packets, Dismissed(outgoing_packets[i])',
         copy' = [copy EXCEPT ![t] = Without(outgoing_packets, outgoing_packets[i])],
         UNCHANGED <<outgoing_packets, call, arg>>
  PROVE  AppendHasRoom' /\ CopyOfBuffer'
<1>1. AppendHasRoom'
  BY DEF Known, AloneInv, AppendHasRoom
<1>2. copy'[t] = RemoveAt(outgoing_packets, i)
  BY WithoutAt DEF Known, TypeOK, BufferType
<1>3. CopyOfBuffer'
  BY <1>2 DEF CopyOfBuffer
<1>4. QED
  BY <1>1, <1>3

LEMMA AloneFinish ==
  ASSUME Known, \A u, w \in IoThread : u = w, NEW t \in IoThread, call[t] = "idle",
         NEW i \in DOMAIN outgoing_packets, Settled(outgoing_packets[i]),
         Finish(t, outgoing_packets[i]),
         UNCHANGED <<outgoing_packets, call, arg, acked, lost, acquired>>
  PROVE  AppendHasRoom' /\ CopyOfBuffer'
<1>1. CASE Fields[outgoing_packets[i]].timing = 0
  <2>1. Dismissed(outgoing_packets[i])'
    BY <1>1 DEF Dismissed, Settled
  <2>2. QED
    BY <1>1, <2>1, AloneDelete DEF Finish, Delete
<1>2. CASE Fields[outgoing_packets[i]].timing # 0
  BY <1>2, AloneMove DEF Finish, Rearm, Goto
<1>3. QED
  BY <1>1, <1>2

LEMMA AloneAppend ==
  ASSUME Known, \A u, w \in IoThread : u = w, Caller = {},
         NEW th \in Thread, DispatchAppend(th)
  PROVE  AppendHasRoom' /\ CopyOfBuffer'
<1>0. Thread = IoThread /\ \A u \in IoThread : u = th
  BY DEF Thread
<1>1. /\ arg[th] \in Packet /\ arg' = arg
      /\ outgoing_packets' = Append(outgoing_packets, arg[th])
      /\ call' = [call EXCEPT ![th] = "return"] /\ UNCHANGED pc
  BY DEF DispatchAppend, Enqueue, ioVars, Known, TypeOK, CallType
<1>2. /\ Len(outgoing_packets') = Len(outgoing_packets) + 1
      /\ Len(outgoing_packets') \in DOMAIN outgoing_packets'
      /\ outgoing_packets'[Len(outgoing_packets')] = arg[th]
  BY <1>1, AppendProperties, LenProperties DEF Known, TypeOK, BufferType
<1>3. pc[th] # "assign"
  BY <1>0 DEF DispatchAppend, Known, AloneInv, CallsInCallbacks
<1>4. call'[th] = "return"
  BY <1>1 DEF Known, TypeOK, CallType
<1>5. AppendHasRoom'
  BY <1>0, <1>4 DEF AppendHasRoom
<1>6. CopyOfBuffer'
  BY <1>0, <1>1, <1>3 DEF CopyOfBuffer
<1>7. QED
  BY <1>5, <1>6

LEMMA AloneStep ==
  ASSUME Caller = {}, \A u, w \in IoThread : u = w
  PROVE  Known /\ [Next]_vars => AloneInv'
<1> SUFFICES ASSUME Known, [Next]_vars
             PROVE  AloneInv'
  OBVIOUS
<1>0. CallsInCallbacks' /\ Thread = IoThread
  BY KeepStep DEF Known, KeepInv, Thread
<1> SUFFICES AppendHasRoom' /\ CopyOfBuffer'
  BY <1>0 DEF AloneInv
<1>1. ASSUME NEW th \in Thread, NEW p \in Packet, DispatchCheck(th, p)
      PROVE  AppendHasRoom' /\ CopyOfBuffer'
  <2>1. AppendHasRoom'
    BY <1>0, <1>1 DEF DispatchCheck, HasRoom, AppendHasRoom
  <2>2. CopyOfBuffer'
    BY <1>1 DEF DispatchCheck, ioVars, history, CopyOfBuffer, Dismissed, Settled, Known, AloneInv
  <2>3. QED
    BY <2>1, <2>2
<1>2. ASSUME NEW th \in Thread, DispatchReturn(th)
      PROVE  AppendHasRoom' /\ CopyOfBuffer'
  <2>1. AppendHasRoom'
    BY <1>0, <1>2 DEF DispatchReturn, AppendHasRoom, Known, TypeOK, CallType
  <2>2. CopyOfBuffer'
    BY <1>2 DEF DispatchReturn, ioVars, history, CopyOfBuffer, Dismissed, Settled, Known, AloneInv
  <2>3. QED
    BY <2>1, <2>2
<1>3. CASE UNCHANGED vars \/ Tick \/ \E th \in Thread, p \in Packet : DispatchRefused(th, p)
  <2>1. UNCHANGED <<outgoing_packets, pc, copy, call, arg, acked, lost, acquired>>
    BY <1>3 DEF vars, Tick, DispatchRefused, ioVars, callVars, history
  <2>2. QED
    BY <2>1 DEF AppendHasRoom, CopyOfBuffer, Dismissed, Settled, Known, AloneInv
<1>4. ASSUME NEW t \in IoThread, StartClient(t)
      PROVE  AppendHasRoom' /\ CopyOfBuffer'
  <2>1. call[t] = "idle"
    BY <1>0, <1>4 DEF StartClient, Known, AloneInv, CallsInCallbacks, TypeOK, CallType
  <2>2. QED
    BY <1>4, <2>1, AloneMove DEF StartClient, callVars
<1>5. ASSUME NEW t \in IoThread,
             \/ UpdateSkip(t) \/ UpdateSent(t) \/ ScanNext(t)
             \/ UpdateReturn(t) \/ ReceiveReturn(t) \/ ScanRetry(t) \/ ScanRaises(t)
             \/ ScanLost(t)
             \/ \E line \in Line : UpdateRaises(t, line) \/ UpdateSend(t, line)
      PROVE  AppendHasRoom' /\ CopyOfBuffer'
  <2>1. /\ call[t] = "idle" /\ UNCHANGED <<outgoing_packets, call, arg>>
        /\ \E phase : phase # "assign" /\ pc' = [pc EXCEPT ![t] = phase]
    BY <1>5 DEF UpdateSkip, UpdateSent, ScanNext, UpdateReturn,
                ReceiveReturn, ScanRetry, ScanRaises, ScanLost, UpdateRaises, UpdateSend,
                AtFailed, AtPacket, At, Move, Goto, callVars
  <2>2. QED
    BY <2>1, AloneMove
<1>6. ASSUME NEW t \in IoThread, ScanAcked(t) \/ ErrorReturn(t)
      PROVE  AppendHasRoom' /\ CopyOfBuffer'
  <2>1. PICK i \in DOMAIN outgoing_packets :
          Settled(outgoing_packets[i]) /\ Finish(t, outgoing_packets[i])
    <3>1. CASE ScanAcked(t)
      <4>1. idx[t] \in DOMAIN outgoing_packets
        BY <3>1, Places DEF ScanAcked, AtPacket, Known, TypeOK, LoopType
      <4>2. Settled(outgoing_packets[idx[t]])
        BY <3>1, <4>1, Places DEF ScanAcked, Settled, Known, KeepInv, VerdictsKnown
      <4>3. QED
        BY <3>1, <4>1, <4>2 DEF ScanAcked
    <3>2. CASE ErrorReturn(t)
      <4>1. idx[t] \in DOMAIN outgoing_packets /\ outgoing_packets[idx[t]] = cur[t]
        BY <3>2 DEF ErrorReturn, At, Known, PlacesInv, ErrorPlace
      <4>2. Settled(cur[t])
        BY <3>2 DEF ErrorReturn, At, Settled, Known, KeepInv, VerdictsKnown
      <4>3. QED
        BY <3>2, <4>1, <4>2 DEF ErrorReturn
    <3>3. QED
      BY <1>6, <3>1, <3>2
  <2>2. call[t] = "idle" /\ UNCHANGED <<outgoing_packets, call, arg, acked, lost, acquired>>
    BY <1>6 DEF ScanAcked, ErrorReturn, AtPacket, At, callVars, history
  <2>3. QED
    BY <2>1, <2>2, AloneFinish
<1>7. ASSUME NEW t \in IoThread, ScanAcquire(t)
      PROVE  AppendHasRoom' /\ CopyOfBuffer'
  <2>1. PICK i \in DOMAIN outgoing_packets : i = idx[t]
    BY <1>7, Places DEF ScanAcquire, AtFailed, AtPacket, Known, TypeOK, LoopType
  <2>2. /\ Fields[outgoing_packets[i]].acquire_id
        /\ acquired' = acquired \cup {outgoing_packets[i]}
        /\ UNCHANGED <<outgoing_packets, call, arg>>
        /\ copy' = [copy EXCEPT ![t] = Without(outgoing_packets, outgoing_packets[i])]
    BY <1>7, <2>1 DEF ScanAcquire, callVars
  <2>3. Dismissed(outgoing_packets[i])'
    BY <2>2 DEF Dismissed, Settled
  <2>4. QED
    BY <2>2, <2>3, AloneDelete
<1>8. ASSUME NEW t \in IoThread, AssignCopy(t)
      PROVE  AppendHasRoom' /\ CopyOfBuffer'
  <2>1. call[t] = "idle" /\ UNCHANGED call /\ pc' = [pc EXCEPT ![t] = "scan"]
    BY <1>8 DEF AssignCopy, At, Goto, callVars
  <2>2. \A th \in Thread : call'[th] = "idle"
    BY <1>0, <2>1
  <2>3. \A u \in IoThread : pc'[u] # "assign"
    BY <2>1 DEF Known, TypeOK, LoopType
  <2>4. QED
    BY <2>2, <2>3 DEF AppendHasRoom, CopyOfBuffer
<1>9. QED
  BY <1>0, <1>1, <1>2, <1>3, <1>4, <1>5, <1>6, <1>7, <1>8, AloneAppend
     DEF Next, IoStep, SendStep, ScanStep, Call, CallStep

LEMMA KnownAlways ==
  ASSUME Caller = {}, \A t, u \in IoThread : t = u
  PROVE  Spec => []Known
<1>1. Known /\ [Next]_vars => Known'
  BY TypeStep, OrderStep, PlacesStep, KeepStep, AloneStep DEF Known
<1>2. Init => Known
  BY TypeInit, OrderInit, PlacesInit, KeepInit, AloneInit DEF Known
<1>3. QED
  BY <1>1, <1>2, PTL DEF Spec

-----------------------------------------------------------------------------
(* An id acquisition is deleted when it gives up, repeated or not: the      *)
(* mailbox knows no repeated ones.                                          *)
AcquireOnce == \A p \in Packet : Fields[p].acquire_id => Fields[p].timing = 0

(* The mailbox: its state is the buffer and FateOf each packet.             *)

Fates == [p \in Packet |-> FateOf(p)]

LEMMA FateCases ==
  ASSUME Known, NEW p \in Packet
  PROVE  /\ serial[p] = 0 <=> FateOf(p) = "new"
         /\ serial[p] > 0 /\ InBuffer(p) => FateOf(p) = "waiting"
         /\ serial[p] > 0 /\ ~InBuffer(p) => FateOf(p) \in Mailbox!Verdict
<1>1. serial[p] \in Nat
  BY DEF Known, TypeOK, HistoryType
<1>2. CASE serial[p] = 0
  BY <1>1, <1>2 DEF FateOf
<1>3. CASE serial[p] > 0 /\ InBuffer(p)
  BY <1>1, <1>3 DEF FateOf
<1>4. CASE serial[p] > 0 /\ ~InBuffer(p)
  <2>1. Settled(p)
    BY <1>4 DEF Known, KeepInv, NoSilentLoss
  <2>2. QED
    BY <1>1, <1>4, <2>1 DEF FateOf, Settled, Mailbox!Verdict
<1>5. QED
  BY <1>1, <1>2, <1>3, <1>4

(* A packet in the buffer was appended.                                     *)
LEMMA BufferedIsAppended ==
  ASSUME Known, NEW p \in Packet, InBuffer(p)
  PROVE  serial[p] > 0
BY Places DEF Known, InBuffer

LEMMA FateStays ==
  ASSUME Known, NEW p \in Packet, InBuffer(p)' <=> InBuffer(p), serial'[p] = serial[p],
         ~InBuffer(p) =>
           (p \in acked' <=> p \in acked) /\ lost'[p] = lost[p]
           /\ (p \in acquired' <=> p \in acquired)
  PROVE  FateOf(p)' = FateOf(p)
<1>1. serial[p] \in Nat
  BY DEF Known, TypeOK, HistoryType
<1>2. CASE serial[p] = 0
  BY <1>1, <1>2 DEF FateOf
<1>3. CASE serial[p] > 0 /\ InBuffer(p)
  BY <1>1, <1>3 DEF FateOf
<1>4. CASE serial[p] > 0 /\ ~InBuffer(p)
  BY <1>1, <1>4 DEF FateOf
<1>5. QED
  BY <1>1, <1>2, <1>3, <1>4

(* A step that leaves the buffer alone, and the verdicts of what left it.   *)
LEMMA FatesStay ==
  ASSUME Known, Known', UNCHANGED <<outgoing_packets, serial>>,
         \A p \in Packet : ~InBuffer(p) =>
           (p \in acked' <=> p \in acked) /\ lost'[p] = lost[p]
           /\ (p \in acquired' <=> p \in acquired)
  PROVE  UNCHANGED Mailbox!mailbox
<1>1. ASSUME NEW p \in Packet
      PROVE  FateOf(p)' = FateOf(p)
  BY FateStays DEF InBuffer
<1>2. QED
  BY <1>1 DEF Mailbox!mailbox

(* The append of dispatch() is the acceptance of its packet.                *)
LEMMA AppendAccepts ==
  ASSUME Known, Known', NEW th \in Thread, DispatchAppend(th)
  PROVE  Mailbox!Accept(arg[th])
<1>0. PICK a \in Packet : a = arg[th]
  BY DEF DispatchAppend, Known, TypeOK, CallType
<1>1. serial[a] = 0 /\ Len(outgoing_packets) <= MAX_PACKETS
  BY <1>0 DEF DispatchAppend, Known, OrderInv, ArgumentsApart, AloneInv, AppendHasRoom
<1>2. /\ outgoing_packets' = Append(outgoing_packets, a)
      /\ serial' = [serial EXCEPT ![a] = dispatched + 1]
      /\ UNCHANGED <<acked, lost, acquired>>
  BY <1>0 DEF DispatchAppend, Enqueue
<1>3. /\ outgoing_packets \in Seq(Packet) /\ Len(outgoing_packets) \in Nat
      /\ MAX_PACKETS \in Nat /\ dispatched \in Nat /\ serial \in [Packet -> Nat]
  BY LenProperties, BoundAssumption DEF Known, TypeOK, BufferType, HistoryType
<1>4. /\ Len(outgoing_packets') = Len(outgoing_packets) + 1
      /\ DOMAIN outgoing_packets' = 1..Len(outgoing_packets) + 1
      /\ DOMAIN outgoing_packets = 1..Len(outgoing_packets)
      /\ \A i \in 1..Len(outgoing_packets) : outgoing_packets'[i] = outgoing_packets[i]
      /\ outgoing_packets'[Len(outgoing_packets) + 1] = a
  BY <1>1, <1>2, <1>3, AppendProperties, LenProperties
<1>5. InBuffer(a)' /\ \A p \in Packet \ {a} : InBuffer(p)' <=> InBuffer(p)
  BY <1>3, <1>4 DEF InBuffer
<1>6. ASSUME NEW p \in Packet
      PROVE  FateOf(p)' = IF p = a THEN "waiting" ELSE FateOf(p)
  <2>1. CASE p = a
    <3>1. serial'[p] > 0 /\ InBuffer(p)'
      BY <1>1, <1>2, <1>3, <1>5, <2>1
    <3>2. QED
      BY <2>1, <3>1 DEF FateOf
  <2>2. CASE p # a
    <3>1. serial'[p] = serial[p] /\ (InBuffer(p)' <=> InBuffer(p))
      BY <1>2, <1>3, <1>5, <2>2
    <3>2. QED
      BY <1>2, <2>2, <3>1, FateStays
  <2>3. QED
    BY <2>1, <2>2
<1>7. Fates' = [Fates EXCEPT ![a] = "waiting"]
  BY <1>1, <1>6 DEF Fates
<1>8. Fates[a] = "new"
  BY <1>1, FateCases DEF Fates
<1>9. QED
  BY <1>0, <1>1, <1>2, <1>3, <1>7, <1>8 DEF Mailbox!Accept, Fates

(* Dropping a packet leaves the others, and nothing else.                   *)
LEMMA WithoutOthers ==
  ASSUME TypeOK, NEW s \in Seq(Packet), InDispatchOrder(s), NEW p,
         NEW w, w = Without(s, p)
  PROVE  /\ \A j \in DOMAIN w : w[j] # p /\ \E k \in DOMAIN s : s[k] = w[j]
         /\ \A k \in DOMAIN s : s[k] # p => \E j \in DOMAIN w : w[j] = s[k]
<1>1. \A j \in DOMAIN Without(s, p) :
        Without(s, p)[j] # p /\ \E k \in DOMAIN s : s[k] = Without(s, p)[j]
  BY WithoutDrops
<1>2. DOMAIN s = 1..Len(s) /\ DOMAIN Without(s, p) = 1..Len(Without(s, p))
  BY WithoutProperties, LenProperties
<1>3. \A k \in 1..Len(s) :
        s[k] # p => \E j \in 1..Len(Without(s, p)) : Without(s, p)[j] = s[k]
  BY WithoutProperties
<1>4. QED
  BY <1>1, <1>2, <1>3

(* The assignment of the copy settles the packet that it lacks.             *)
LEMMA AssignSettles ==
  ASSUME Known, Known', AcquireOnce, NEW t \in IoThread, AssignCopy(t)
  PROVE  \E p \in Packet : Mailbox!Settle(p)
<1>1. PICK i \in DOMAIN outgoing_packets :
        Dismissed(outgoing_packets[i]) /\ copy[t] = RemoveAt(outgoing_packets, i)
  BY DEF AssignCopy, At, Known, AloneInv, CopyOfBuffer
<1>2. PICK p \in Packet : p = outgoing_packets[i]
  BY Places DEF Known
<1>3. /\ serial[p] > 0 /\ Fields[p].timing = 0
      /\ outgoing_packets' = Without(outgoing_packets, p)
      /\ outgoing_packets' = RemoveAt(outgoing_packets, i)
      /\ UNCHANGED <<serial, acked, lost, acquired>>
  BY <1>1, <1>2, Places, WithoutAt DEF Known, Dismissed, AcquireOnce, AssignCopy, history
<1>4. /\ outgoing_packets \in Seq(Packet) /\ outgoing_packets' \in Seq(Packet)
      /\ InDispatchOrder(outgoing_packets) /\ TypeOK
      /\ DOMAIN outgoing_packets = 1..Len(outgoing_packets)
      /\ DOMAIN outgoing_packets' = 1..Len(outgoing_packets')
  BY LenProperties DEF Known, TypeOK, BufferType, OrderInv, DispatchOrder
<1>5. /\ \A j \in DOMAIN outgoing_packets' :
           /\ outgoing_packets'[j] # p
           /\ \E k \in DOMAIN outgoing_packets : outgoing_packets[k] = outgoing_packets'[j]
      /\ \A k \in DOMAIN outgoing_packets :
           outgoing_packets[k] # p =>
             \E j \in DOMAIN outgoing_packets' : outgoing_packets'[j] = outgoing_packets[k]
  <2>1. outgoing_packets' = Without(outgoing_packets, p)
    BY <1>3
  <2>2. outgoing_packets \in Seq(Packet) /\ InDispatchOrder(outgoing_packets) /\ TypeOK
    BY <1>4
  <2>3. QED
    BY <2>1, <2>2, WithoutOthers
<1>6. ASSUME NEW q \in Packet, q # p
      PROVE  InBuffer(q)' <=> InBuffer(q)
  BY <1>5, <1>6 DEF InBuffer
<1>7. PICK v \in Mailbox!Verdict : FateOf(p)' = v
  <2>1. Settled(p)' /\ serial'[p] = serial[p] /\ serial[p] \in Nat
    BY <1>1, <1>2, <1>3 DEF Dismissed, Settled, Known, TypeOK, HistoryType
  <2>2. ~InBuffer(p)'
    BY <1>5 DEF InBuffer
  <2>3. QED
    BY <1>3, <2>1, <2>2 DEF FateOf, Settled, Mailbox!Verdict
<1>8. ASSUME NEW q \in Packet
      PROVE  FateOf(q)' = IF q = p THEN v ELSE FateOf(q)
  BY <1>3, <1>6, <1>7, FateStays
<1>9. Fates' = [Fates EXCEPT ![p] = v]
  BY <1>8 DEF Fates
<1>10. Mailbox!Settle(p)
  <2>1. p \notin {q \in Packet : Fields[q].timing > 0}
    BY <1>3
  <2>2. Mailbox!RemoveAt(outgoing_packets, i) = RemoveAt(outgoing_packets, i)
    BY DEF RemoveAt, Mailbox!RemoveAt
  <2>3. QED
    BY <1>2, <1>3, <1>9, <2>1, <2>2 DEF Mailbox!Settle, Fates
<1>11. QED
  BY <1>10

-----------------------------------------------------------------------------
(* A step of the code is a step of the mailbox or none.                     *)
LEMMA MailboxStep ==
  ASSUME Caller = {}, AcquireOnce, Known, Known', [Next]_vars
  PROVE  [Mailbox!MailboxNext]_(Mailbox!mailbox)
<1>1. ASSUME NEW th \in Thread, DispatchAppend(th)
      PROVE  Mailbox!MailboxNext
  <2>1. arg[th] \in Packet
    BY <1>1 DEF DispatchAppend, Known, TypeOK, CallType
  <2>2. QED
    BY <1>1, <2>1, AppendAccepts DEF Mailbox!MailboxNext
<1>2. ASSUME NEW t \in IoThread, AssignCopy(t)
      PROVE  Mailbox!MailboxNext
  BY <1>2, AssignSettles DEF Mailbox!MailboxNext
<1>3. ASSUME UNCHANGED <<outgoing_packets, serial, acked, lost, acquired>>
      PROVE  UNCHANGED Mailbox!mailbox
  BY <1>3, FatesStay
<1>4. ASSUME NEW t \in IoThread, NEW line \in Line, UpdateSend(t, line)
      PROVE  UNCHANGED Mailbox!mailbox
  <2>1. InBuffer(outgoing_packets[idx[t]])
    BY <1>4, Places DEF UpdateSend, AtPacket, InBuffer, Known, TypeOK, LoopType
  <2>2. QED
    BY <1>4, <2>1, FatesStay DEF UpdateSend
<1>5. ASSUME NEW t \in IoThread, ScanLost(t) \/ ScanAcquire(t)
      PROVE  UNCHANGED Mailbox!mailbox
  <2>0. InBuffer(outgoing_packets[idx[t]])
    BY <1>5, Places
       DEF ScanLost, ScanAcquire, AtFailed, AtPacket, InBuffer, Known, TypeOK, LoopType
  <2>1. InBuffer(outgoing_packets[idx[t]]) /\ lost \in [Packet -> 0..2]
    BY <2>0 DEF Known, TypeOK, HistoryType
  <2>2. /\ UNCHANGED <<outgoing_packets, serial>>
        /\ \A p \in Packet : p # outgoing_packets[idx[t]] =>
             /\ p \in acked' <=> p \in acked
             /\ lost'[p] = lost[p]
             /\ p \in acquired' <=> p \in acquired
    BY <1>5, <2>1 DEF ScanLost, ScanAcquire
  <2>3. \A p \in Packet : ~InBuffer(p) =>
             /\ p \in acked' <=> p \in acked
             /\ lost'[p] = lost[p]
             /\ p \in acquired' <=> p \in acquired
    BY <2>1, <2>2
  <2>4. QED
    BY <2>2, <2>3, FatesStay
<1>6. ASSUME NEW th \in Thread, Call(th) \/ DispatchReturn(th)
      PROVE  UNCHANGED Mailbox!mailbox
  BY <1>3, <1>6 DEF Call, DispatchCheck, DispatchRefused, DispatchReturn, history, vars
<1>7. ASSUME NEW t \in IoThread,
             \/ StartClient(t) \/ UpdateSkip(t) \/ UpdateSent(t)
             \/ \E line \in Line : UpdateRaises(t, line)
             \/ ScanAcked(t) \/ ScanRetry(t) \/ ScanRaises(t) \/ ErrorReturn(t)
             \/ ScanNext(t) \/ UpdateReturn(t) \/ ReceiveReturn(t)
      PROVE  UNCHANGED Mailbox!mailbox
  BY <1>3, <1>7
     DEF StartClient, UpdateSkip, UpdateSent, UpdateRaises, ScanAcked, ScanRetry,
         ScanRaises, ErrorReturn, ScanNext, UpdateReturn, ReceiveReturn, Move, history
<1>8. CASE Tick \/ UNCHANGED vars
  BY <1>3, <1>8 DEF Tick, vars, history
<1>9. QED
  BY <1>1, <1>2, <1>4, <1>5, <1>6, <1>7, <1>8
     DEF Next, IoStep, SendStep, ScanStep, CallStep

(* With one IO thread, and dispatch() called only from its callbacks, the   *)
(* outgoing buffer and its loops are the mailbox: accepted packets wait in  *)
(* order, at most MAX_PACKETS + 1 of them, and leave only with a verdict.   *)
THEOREM BufferIsMailbox ==
  ASSUME Caller = {}, \A t, u \in IoThread : t = u, AcquireOnce
  PROVE  Spec => ImplementsMailbox
<1>1. Init => Mailbox!MailboxInit
  BY DEF Init, Mailbox!MailboxInit, FateOf
<1>2. Known /\ Known' /\ [Next]_vars => [Mailbox!MailboxNext]_(Mailbox!mailbox)
  BY MailboxStep
<1>3. QED
  BY <1>1, <1>2, KnownAlways, PTL DEF Spec, ImplementsMailbox, Mailbox!MailboxSpec
=============================================================================
