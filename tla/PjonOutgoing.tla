---------------------------- MODULE PjonOutgoing ----------------------------
(***************************************************************************)
(* The outgoing packets buffer of one PjonProtocol object: dispatch() and  *)
(* update() of protocol/pjon_protocol.py, run by the PjonIoUpdateThread of *)
(* base_client.py while other threads call send().                         *)
(*                                                                         *)
(* One step is one access to the shared list or to the state of a packet;  *)
(* a list append and a slice assignment are atomic under the interpreter   *)
(* lock, what lies between them is not.  The bus is reduced to the answer  *)
(* it gives to one transmission (constant Line); PjonLink models it.       *)
(***************************************************************************)
EXTENDS Integers, Sequences, FiniteSets, SequencesExt

CONSTANTS
  Packet,             (* the OutgoingPacket objects that callers may dispatch *)
  NoPacket,           (* "no packet", not a member of Packet                 *)
  Fields,             (* the fields of a packet that update() looks at       *)
  DeviceId,           (* device ids                                          *)
  OwnId,              (* the id given to the constructor                     *)
  BROADCAST,          (* the id that nobody acknowledges                     *)
  Caller,             (* application threads calling send()                  *)
  IoThread,           (* the threads that start_client() may create          *)
  Line,               (* what a transmission may meet on the bus             *)
  MAX_PACKETS,
  MAX_ATTEMPTS,
  PACKET_MAX_LENGTH,
  AgeBound            (* ages saturate here (bound on the clock)             *)

LineOutcome == {"channel busy", "ACK", "NAK", "other byte", "timeout"}

ASSUME PacketAssumption ==
  /\ NoPacket \notin Packet
  /\ Fields \in [Packet -> [device_id : DeviceId, length : Nat, timing : Nat,
                            ack_request : BOOLEAN, acquire_id : BOOLEAN,
                            sendable : BOOLEAN]]
  /\ OwnId \in DeviceId
ASSUME ThreadAssumption ==
  /\ IsFiniteSet(Caller) /\ IsFiniteSet(IoThread)
  /\ Caller \cap IoThread = {}
ASSUME BoundAssumption ==
  /\ MAX_PACKETS \in Nat /\ MAX_ATTEMPTS \in Nat /\ PACKET_MAX_LENGTH \in Nat
  /\ AgeBound \in Nat
  /\ \A p \in Packet :
       Fields[p].timing + MAX_ATTEMPTS * MAX_ATTEMPTS * MAX_ATTEMPTS <= AgeBound
ASSUME LineAssumption == Line \subseteq LineOutcome

Thread == Caller \cup IoThread

VARIABLES
  outgoing_packets,   (* the list, shared by all threads                      *)
  state,              (* state of each packet; "none" is the 0 of __init__    *)
  attempts,           (* attempts of each packet                              *)
  age,                (* time.time() - registration of each packet            *)
  device_id,          (* _device_id of the protocol object                    *)
  started,            (* _started of the client                               *)
  pc,                 (* where each IO thread is in its loop                  *)
  idx,                (* position of its running "for" over the list          *)
  cur,                (* the packet its error function is told about          *)
  copy,               (* the list it is about to assign to outgoing_packets[:] *)
  call,               (* where each thread is inside dispatch()               *)
  arg,                (* the packet that dispatch() is building               *)
  dispatched,         (* history: number of packets appended so far           *)
  serial,             (* history: rank of each packet among them, 0 if none   *)
  acked,              (* history: packets whose transmission returned ACK     *)
  lost,               (* history: CONNECTION_LOST reports per packet (0..2)   *)
  acquired,           (* history: ACQUIRE_ID packets that gave up             *)
  failures            (* history: transmissions that returned FAIL since the  *)
                      (* packet was last armed, up to MAX_ATTEMPTS + 1        *)

packetVars == <<state, attempts, age, failures>>
ioVars     == <<pc, idx, cur, copy>>
callVars   == <<call, arg>>
clientVars == <<device_id, started>>
history    == <<dispatched, serial, acked, lost, acquired>>
vars == <<outgoing_packets, packetVars, ioVars, callVars, clientVars, history>>

State == {"none", "TO_BE_SENT", "ACK", "BUSY", "FAIL"}
Phase == {"new", "send", "scan", "error", "assign", "receive", "dead"}

Min2(a, b) == IF a < b THEN a ELSE b

InBuffer(p) == \E i \in DOMAIN outgoing_packets : outgoing_packets[i] = p

Init ==
  /\ outgoing_packets = <<>>
  /\ state = [p \in Packet |-> "none"]
  /\ attempts = [p \in Packet |-> 0]
  /\ age = [p \in Packet |-> 0]
  /\ device_id = OwnId
  /\ started = FALSE
  /\ pc = [t \in IoThread |-> "new"]
  /\ idx = [t \in IoThread |-> 1]
  /\ cur = [t \in IoThread |-> NoPacket]
  /\ copy = [t \in IoThread |-> <<>>]
  /\ call = [th \in Thread |-> "idle"]
  /\ arg = [th \in Thread |-> NoPacket]
  /\ dispatched = 0
  /\ serial = [p \in Packet |-> 0]
  /\ acked = {}
  /\ lost = [p \in Packet |-> 0]
  /\ acquired = {}
  /\ failures = [p \in Packet |-> 0]

-----------------------------------------------------------------------------
(* Calls of dispatch(): by application threads at any time, and by the IO   *)
(* thread itself from the functions it calls back, the receiver function    *)
(* (inside receive()) and the error function (inside update()).             *)

Fresh(p) == serial[p] = 0 /\ \A th \in Thread : arg[th] # p

MayCall(th) ==
  /\ call[th] = "idle"
  /\ th \in IoThread => pc[th] \in {"receive", "error"}

(* Mutant: the test admits one packet too many.                             *)
HasRoomForOneMore == Len(outgoing_packets) <= MAX_PACKETS + 1

HasRoom == Len(outgoing_packets) <= MAX_PACKETS

(* The payload is too long, or the buffer is full and the error function is *)
(* told PACKETS_BUFFER_FULL: dispatch() returns FAIL and keeps nothing.     *)
DispatchRefused(th, p) ==
  /\ MayCall(th) /\ Fresh(p)
  /\ Fields[p].length >= PACKET_MAX_LENGTH \/ ~HasRoom
  /\ UNCHANGED vars

DispatchCheck(th, p) ==
  /\ MayCall(th) /\ Fresh(p)
  /\ Fields[p].length < PACKET_MAX_LENGTH
  /\ HasRoom
  /\ call' = [call EXCEPT ![th] = "append"]
  /\ arg' = [arg EXCEPT ![th] = p]
  /\ UNCHANGED <<outgoing_packets, packetVars, ioVars, clientVars, history>>

(* Mutant: new packets go to the front of the list.                         *)
InsertFirst(s, p) == <<p>> \o s

Enqueue(s, p) == Append(s, p)

DispatchAppend(th) ==
  /\ call[th] = "append"
  /\ outgoing_packets' = Enqueue(outgoing_packets, arg[th])
  /\ state' = [state EXCEPT ![arg[th]] = "TO_BE_SENT"]
  /\ dispatched' = dispatched + 1
  /\ serial' = [serial EXCEPT ![arg[th]] = dispatched + 1]
  /\ call' = [call EXCEPT ![th] = "return"]
  /\ UNCHANGED <<attempts, age, failures, ioVars, arg, clientVars, acked, lost,
                 acquired>>

(* The index that the caller is given is left out: nothing uses it.         *)
DispatchReturn(th) ==
  /\ call[th] = "return"
  /\ call' = [call EXCEPT ![th] = "idle"]
  /\ arg' = [arg EXCEPT ![th] = NoPacket]
  /\ UNCHANGED <<outgoing_packets, packetVars, ioVars, clientVars, history>>

-----------------------------------------------------------------------------
(* start_client(): _started is tested and never set.                        *)

StartClient(t) ==
  /\ pc[t] = "new"
  /\ ~started
  /\ pc' = [pc EXCEPT ![t] = "send"]
  /\ UNCHANGED <<outgoing_packets, packetVars, idx, cur, copy, callVars,
                 clientVars, history>>

-----------------------------------------------------------------------------
(* update(), first loop: transmit every packet that is due.                 *)

At(t, phase) == pc[t] = phase /\ call[t] = "idle"

Goto(t, phase, i) ==
  /\ pc' = [pc EXCEPT ![t] = phase]
  /\ idx' = [idx EXCEPT ![t] = i]

(* A step of the loop that changes nothing but its position.                *)
Move(t, phase, i) ==
  /\ Goto(t, phase, i)
  /\ UNCHANGED <<outgoing_packets, packetVars, cur, copy, callVars, clientVars,
                 history>>

AtPacket(t, phase) == At(t, phase) /\ idx[t] <= Len(outgoing_packets)

Due(p) ==
  /\ state[p] # "none"
  /\ age[p] >= Fields[p].timing + attempts[p] * attempts[p] * attempts[p]

(* send_string(): a busy channel is met before the first byte, a field that *)
(* is not a byte raises while the bytes are written, and the answer counts  *)
(* only if one was asked for.  Every answer but ACK and silence is BUSY.    *)
Raises(p, line) == line # "channel busy" /\ ~Fields[p].sendable

Unanswered(p) == ~Fields[p].ack_request \/ Fields[p].device_id = BROADCAST

(* Mutant: the NAK test comes before the one for any other answer.          *)
SendStringNakFirst(p, line) ==
  CASE line = "channel busy"                                   -> "BUSY"
    [] line # "channel busy" /\ (Unanswered(p) \/ line = "ACK") -> "ACK"
    [] line = "timeout" /\ ~Unanswered(p)                      -> "FAIL"
    [] line \in {"NAK", "other byte"} /\ ~Unanswered(p)        -> line

SendString(p, line) ==
  CASE line = "channel busy"                                   -> "BUSY"
    [] line # "channel busy" /\ (Unanswered(p) \/ line = "ACK") -> "ACK"
    [] line = "timeout" /\ ~Unanswered(p)                      -> "FAIL"
    [] line \in {"NAK", "other byte"} /\ ~Unanswered(p)        -> "BUSY"

UpdateSkip(t) ==
  /\ AtPacket(t, "send")
  /\ ~Due(outgoing_packets[idx[t]])
  /\ Move(t, "send", idx[t] + 1)

UpdateSend(t, line) ==
  /\ AtPacket(t, "send")
  /\ LET p == outgoing_packets[idx[t]] IN
     /\ Due(p)
     /\ ~Raises(p, line)
     /\ state' = [state EXCEPT ![p] = SendString(p, line)]
     /\ acked' = IF SendString(p, line) = "ACK" THEN acked \cup {p} ELSE acked
     /\ failures' = IF SendString(p, line) = "FAIL"
                    THEN [failures EXCEPT ![p] = Min2(@ + 1, MAX_ATTEMPTS + 1)]
                    ELSE failures
  /\ Goto(t, "send", idx[t] + 1)
  /\ UNCHANGED <<outgoing_packets, attempts, age, cur, copy, callVars,
                 clientVars, dispatched, serial, lost, acquired>>

(* The exception leaves update() and the run() of the thread.               *)
UpdateRaises(t, line) ==
  /\ AtPacket(t, "send")
  /\ Due(outgoing_packets[idx[t]])
  /\ Raises(outgoing_packets[idx[t]], line)
  /\ Move(t, "dead", 1)

UpdateSent(t) ==
  /\ At(t, "send")
  /\ idx[t] > Len(outgoing_packets)
  /\ Move(t, "scan", 1)

-----------------------------------------------------------------------------
(* update(), second loop: delete, re-arm or count, and start over after     *)
(* every deletion.  The comprehension that drops one packet and the slice   *)
(* assignment that stores its result are two steps.                         *)

(* Mutant: the list is cut at the packet instead.                           *)
WithoutTail(s, p) ==
  IF \E i \in DOMAIN s : s[i] = p
  THEN SubSeq(s, 1, (CHOOSE i \in DOMAIN s : s[i] = p) - 1)
  ELSE s

(* [item for item in outgoing_packets if item is not p]; p is there once.   *)
Without(s, p) ==
  IF \E i \in DOMAIN s : s[i] = p
  THEN RemoveAt(s, CHOOSE i \in DOMAIN s : s[i] = p)
  ELSE s

Delete(t, p) ==
  /\ copy' = [copy EXCEPT ![t] = Without(outgoing_packets, p)]
  /\ Goto(t, "assign", 1)
  /\ UNCHANGED packetVars

Rearm(t, p) ==
  /\ attempts' = [attempts EXCEPT ![p] = 0]
  /\ age' = [age EXCEPT ![p] = 0]
  /\ state' = [state EXCEPT ![p] = "TO_BE_SENT"]
  /\ failures' = [failures EXCEPT ![p] = 0]
  /\ Goto(t, "scan", idx[t] + 1)
  /\ UNCHANGED copy

(* Mutant: every packet is treated as a repeated one.                       *)
FinishAlwaysRearms(t, p) == Rearm(t, p)

(* What becomes of a packet the loop is done with: auto_delete is always on. *)
Finish(t, p) == IF Fields[p].timing = 0 THEN Delete(t, p) ELSE Rearm(t, p)

(* Mutant: auto_delete is off, an acknowledged packet stays.                *)
ScanAckedKeeps(t) ==
  /\ AtPacket(t, "scan")
  /\ state[outgoing_packets[idx[t]]] = "ACK"
  /\ Move(t, "scan", idx[t] + 1)

ScanAcked(t) ==
  /\ AtPacket(t, "scan")
  /\ state[outgoing_packets[idx[t]]] = "ACK"
  /\ Finish(t, outgoing_packets[idx[t]])
  /\ UNCHANGED <<outgoing_packets, cur, callVars, clientVars, history>>

Exhausted(p) == attempts[p] + 1 > MAX_ATTEMPTS

AtFailed(t) == AtPacket(t, "scan") /\ state[outgoing_packets[idx[t]]] = "FAIL"

(* Mutant: a failed attempt is not counted.                                 *)
ForgetAttempt(p) == attempts' = attempts

CountAttempt(p) == attempts' = [attempts EXCEPT ![p] = @ + 1]

ScanRetry(t) ==
  /\ AtFailed(t)
  /\ LET p == outgoing_packets[idx[t]] IN ~Exhausted(p) /\ CountAttempt(p)
  /\ Goto(t, "scan", idx[t] + 1)
  /\ UNCHANGED <<outgoing_packets, state, age, failures, cur, copy, callVars,
                 clientVars, history>>

(* content[0] of an empty payload: IndexError.                              *)
ScanRaises(t) ==
  /\ AtFailed(t)
  /\ LET p == outgoing_packets[idx[t]] IN
     Exhausted(p) /\ CountAttempt(p) /\ Fields[p].length = 0
  /\ Goto(t, "dead", 1)
  /\ UNCHANGED <<outgoing_packets, state, age, failures, cur, copy, callVars,
                 clientVars, history>>

ScanAcquire(t) ==
  /\ AtFailed(t)
  /\ LET p == outgoing_packets[idx[t]] IN
     /\ Exhausted(p) /\ CountAttempt(p)
     /\ Fields[p].length > 0 /\ Fields[p].acquire_id
     /\ device_id' = Fields[p].device_id
     /\ acquired' = acquired \cup {p}
     /\ copy' = [copy EXCEPT ![t] = Without(outgoing_packets, p)]
  /\ Goto(t, "assign", 1)
  /\ UNCHANGED <<outgoing_packets, state, age, failures, cur, callVars, started,
                 dispatched, serial, acked, lost>>

(* The error function is called with CONNECTION_LOST.                       *)
ScanLost(t) ==
  /\ AtFailed(t)
  /\ LET p == outgoing_packets[idx[t]] IN
     /\ Exhausted(p) /\ CountAttempt(p)
     /\ Fields[p].length > 0 /\ ~Fields[p].acquire_id
     /\ lost' = [lost EXCEPT ![p] = Min2(@ + 1, 2)]
     /\ cur' = [cur EXCEPT ![t] = p]
  /\ Goto(t, "error", idx[t])
  /\ UNCHANGED <<outgoing_packets, state, age, failures, copy, callVars,
                 clientVars, dispatched, serial, acked, acquired>>

ErrorReturn(t) ==
  /\ At(t, "error")
  /\ Finish(t, cur[t])
  /\ cur' = [cur EXCEPT ![t] = NoPacket]
  /\ UNCHANGED <<outgoing_packets, callVars, clientVars, history>>

ScanNext(t) ==
  /\ AtPacket(t, "scan")
  /\ state[outgoing_packets[idx[t]]] \notin {"ACK", "FAIL"}
  /\ Move(t, "scan", idx[t] + 1)

(* outgoing_packets[:] = copy, break, and the "while" starts over.          *)
AssignCopy(t) ==
  /\ At(t, "assign")
  /\ outgoing_packets' = copy[t]
  /\ copy' = [copy EXCEPT ![t] = <<>>]
  /\ Goto(t, "scan", 1)
  /\ UNCHANGED <<packetVars, cur, callVars, clientVars, history>>

UpdateReturn(t) ==
  /\ At(t, "scan")
  /\ idx[t] > Len(outgoing_packets)
  /\ Move(t, "receive", 1)

(* receive() returns to the loop of run(), which calls update() again.      *)
ReceiveReturn(t) ==
  /\ At(t, "receive")
  /\ Move(t, "send", 1)

-----------------------------------------------------------------------------
(* Time passes for the packets of the buffer, up to AgeBound.               *)
Tick ==
  /\ \E p \in Packet : InBuffer(p) /\ age[p] < AgeBound
  /\ age' = [p \in Packet |->
               IF InBuffer(p) /\ age[p] < AgeBound THEN age[p] + 1 ELSE age[p]]
  /\ UNCHANGED <<outgoing_packets, state, attempts, failures, ioVars, callVars,
                 clientVars, history>>

SendStep(t) ==
  \/ UpdateSkip(t)
  \/ \E line \in Line : UpdateSend(t, line) \/ UpdateRaises(t, line)
  \/ UpdateSent(t)

ScanStep(t) ==
  \/ ScanAcked(t)   \/ ScanRetry(t)   \/ ScanRaises(t) \/ ScanAcquire(t)
  \/ ScanLost(t)    \/ ErrorReturn(t) \/ ScanNext(t)   \/ AssignCopy(t)
  \/ UpdateReturn(t)

IoStep(t) == SendStep(t) \/ ScanStep(t) \/ ReceiveReturn(t)

CallStep(th) == DispatchAppend(th) \/ DispatchReturn(th)

Call(th) == \E p \in Packet : DispatchCheck(th, p) \/ DispatchRefused(th, p)

Next ==
  \/ \E t \in IoThread : StartClient(t) \/ IoStep(t)
  \/ \E th \in Thread : Call(th) \/ CallStep(th)
  \/ Tick

Spec == Init /\ [][Next]_vars

(* The IO thread and the callers are scheduled, the clock advances.         *)
Fairness ==
  /\ \A t \in IoThread : WF_vars(IoStep(t)) /\ WF_vars(StartClient(t))
  /\ \A th \in Thread : WF_vars(CallStep(th))
  /\ WF_vars(Tick)

FairSpec == Spec /\ Fairness

-----------------------------------------------------------------------------
BufferType ==
  /\ outgoing_packets \in Seq(Packet)
  /\ copy \in [IoThread -> Seq(Packet)]

PacketType ==
  /\ state \in [Packet -> State]
  /\ attempts \in [Packet -> Nat]
  /\ age \in [Packet -> 0..AgeBound]
  /\ failures \in [Packet -> 0..MAX_ATTEMPTS + 1]

LoopType ==
  /\ pc \in [IoThread -> Phase]
  /\ idx \in [IoThread -> Nat \ {0}]
  /\ cur \in [IoThread -> Packet \cup {NoPacket}]
  /\ \A t \in IoThread : pc[t] = "error" <=> cur[t] # NoPacket

CallType ==
  /\ call \in [Thread -> {"idle", "append", "return"}]
  /\ arg \in [Thread -> Packet \cup {NoPacket}]
  /\ \A th \in Thread : call[th] = "idle" <=> arg[th] = NoPacket

HistoryType ==
  /\ device_id \in DeviceId
  /\ started \in BOOLEAN
  /\ dispatched \in Nat
  /\ serial \in [Packet -> 0..dispatched]
  /\ acked \in SUBSET Packet
  /\ lost \in [Packet -> 0..2]
  /\ acquired \in SUBSET Packet

(* Every variable stays in its type: a packet has one of the states that    *)
(* update() knows, and a thread holds a packet exactly while it is inside   *)
(* dispatch() or its error function.                                        *)
TypeOK == BufferType /\ PacketType /\ LoopType /\ CallType /\ HistoryType

(* The buffer never holds more than MAX_PACKETS packets and one per thread  *)
(* that passed the test of dispatch(): the test and the append of several   *)
(* threads interleave, but each thread has at most one append under way.    *)
Appending == {th \in Thread : call[th] = "append"}

BufferBound ==
  Len(outgoing_packets) + Cardinality(Appending)
    <= MAX_PACKETS + Cardinality(Thread)

(* The buffer, and the list about to replace it, hold the packets in the    *)
(* order of their appends and none of them twice, whatever the deletions    *)
(* and appends that happened in between.                                    *)
InDispatchOrder(s) ==
  /\ \A i \in DOMAIN s : serial[s[i]] > 0
  /\ \A i, j \in DOMAIN s : i < j => serial[s[i]] < serial[s[j]]

DispatchOrder ==
  InDispatchOrder(outgoing_packets) /\ \A t \in IoThread : InDispatchOrder(copy[t])

(* A packet that dispatch() appended is still in the buffer unless it was   *)
(* acknowledged, reported lost or given up as an id acquisition.            *)
Settled(p) == p \in acked \/ lost[p] > 0 \/ p \in acquired

NoSilentLoss == \A p \in Packet : serial[p] > 0 => InBuffer(p) \/ Settled(p)

(* A packet that is not repeated gets one verdict: acknowledged, or         *)
(* reported lost once, or given up as an id acquisition.                    *)
OneVerdict ==
  \A p \in Packet : Fields[p].timing = 0 =>
    Cardinality({v \in {"acked", "acquired"} :
                   \/ v = "acked" /\ p \in acked
                   \/ v = "acquired" /\ p \in acquired}) + lost[p] <= 1

(* update() counts every failed transmission of a packet before it makes    *)
(* the next one: at most MAX_ATTEMPTS + 1 of them can fail.                 *)
FailuresCounted ==
  \A p \in Packet : failures[p] <= IF state[p] = "FAIL" THEN attempts[p] + 1
                                   ELSE attempts[p]

(* CONNECTION_LOST is reported after more than MAX_ATTEMPTS transmissions   *)
(* failed.                                                                  *)
LostAfterMaxAttempts ==
  \A t \in IoThread : pc[t] = "error" => failures[cur[t]] > MAX_ATTEMPTS

(* Every packet that is not repeated leaves the buffer.                     *)
EventuallySettled ==
  \A p \in Packet :
    Fields[p].timing = 0 /\ serial[p] > 0 ~> Settled(p) /\ ~InBuffer(p)

-----------------------------------------------------------------------------
(* With nobody but the IO thread calling dispatch(), the buffer is the      *)
(* mailbox of PjonMailbox: MAX_PACKETS + 1 places, and a fate that a packet *)
(* has once it is out of the buffer.                                        *)
FateOf(p) ==
  CASE serial[p] = 0                    -> "new"
    [] serial[p] > 0 /\ InBuffer(p)     -> "waiting"
    [] serial[p] > 0 /\ ~InBuffer(p)    ->
         IF p \in acked THEN "acknowledged"
         ELSE IF lost[p] > 0 THEN "lost"
         ELSE IF p \in acquired THEN "acquired" ELSE "vanished"

Mailbox == INSTANCE PjonMailbox
  WITH Repeated <- {p \in Packet : Fields[p].timing > 0},
       Capacity <- MAX_PACKETS + 1,
       waiting  <- outgoing_packets,
       fate     <- [p \in Packet |-> FateOf(p)]

(* Every step of the code is a step of the mailbox or leaves it unchanged.  *)
ImplementsMailbox == Mailbox!MailboxSpec

(* And every packet that is not repeated gets its verdict.                  *)
ImplementsFairMailbox == Mailbox!MailboxFairSpec
=============================================================================
