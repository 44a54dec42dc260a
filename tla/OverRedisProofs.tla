-------------------------- MODULE OverRedisProofs ---------------------------
(***************************************************************************)
(* Theorems about OverRedis, for any clients, processes, messages, threads *)
(* and bounds.                                                             *)
(***************************************************************************)
EXTENDS OverRedis, TLAPS, SequenceTheorems

LEMMA OwnerType == ASSUME NEW r \in Reader PROVE Owner(r) \in Client
BY DEF Reader, Owner

LEMMA ProcessType ==
  ASSUME NEW c \in Client PROVE Process[c] \in EveryProcess
BY DEF EveryProcess

LEMMA MessageType ==
  ASSUME NEW m \in Message
  PROVE  /\ m # NoMessage /\ Fields[m].originator \in Client
         /\ Fields[m].receiver_id \in 0..254 /\ Fields[m].sender_id \in 0..254
BY ClientAssumption

LEMMA TypeInit == Init => TypeOK
BY ClientAssumption DEF Init, TypeOK, Handling, Outcome, Ids254

LEMMA AppendAt ==
  ASSUME NEW S, NEW s \in Seq(S), NEW m \in S
  PROVE  /\ Append(s, m) \in Seq(S)
         /\ Len(s) \in Nat /\ DOMAIN s = 1..Len(s)
         /\ DOMAIN Append(s, m) = 1..Len(s) + 1
         /\ Append(s, m)[Len(s) + 1] = m
         /\ \A j \in 1..Len(s) : Append(s, m)[j] = s[j]
BY AppendProperties, LenProperties

(* The channel gives a message to every connected client.                   *)
LEMMA DeliverType ==
  ASSUME TypeOK, NEW m \in Message, Deliver(m), UNCHANGED connected
  PROVE  /\ pending' \in [Client -> Seq(Message)]
         /\ \A c \in Client : ~connected'[c] => pending'[c] = <<>>
         /\ channel' \in Seq(Message)
         /\ missed' \in [Client -> SUBSET Message]
BY DEF TypeOK, Deliver

(* A step of a reader between two places where it holds a message, or none. *)
LEMMA GotoType ==
  ASSUME TypeOK, NEW r \in Reader,
         NEW place \in {"new", "off", "test", "listen"} \cup Handling,
         Goto(r, place), held[r] # NoMessage <=> place \in Handling,
         UNCHANGED <<started, held, connected, pending, sendVars, errors, history>>,
         info' \in [EveryProcess -> Ids254]
  PROVE  TypeOK'
BY DEF TypeOK, Goto, sendVars, history

LEMMA PopProperties ==
  ASSUME NEW s \in Seq(Message), s # <<>>
  PROVE  /\ Pop(s)[1] = s[1] /\ s[1] \in Message /\ 1 \in DOMAIN s
         /\ Pop(s)[2] \in Seq(Message) /\ Len(Pop(s)[2]) = Len(s) - 1
         /\ Len(s) \in Nat /\ Len(s) > 0 /\ DOMAIN s = 1..Len(s)
         /\ DOMAIN Pop(s)[2] = 1..Len(s) - 1
         /\ \A i \in 1..Len(s) - 1 : Pop(s)[2][i] = s[i + 1]
BY HeadTailProperties, LenProperties, EmptySeq, ElementOfSeq DEF Pop

LEMMA ListenType == ASSUME TypeOK, NEW r \in Reader, Listen(r) PROVE TypeOK'
<1> DEFINE c == Owner(r)
           m == pending[c][1]
<1>1. c \in Client /\ connected[c] /\ pending[c] \in Seq(Message) /\ pending[c] # <<>>
  BY OwnerType DEF Listen, TypeOK
<1>2. m \in Message /\ m # NoMessage /\ Pop(pending[c])[1] = m
      /\ Pop(pending[c])[2] \in Seq(Message)
  BY <1>1, PopProperties, MessageType
<1>3. /\ pending' \in [Client -> Seq(Message)]
      /\ \A d \in Client : ~connected[d] => pending'[d] = <<>>
  BY <1>1, <1>2 DEF Listen, TypeOK
<1>4. held[r] = NoMessage
  BY DEF Listen, At, TypeOK, Handling, Outcome
<1>5. /\ held' \in [Reader -> Message \cup {NoMessage}]
      /\ pc' \in [Reader -> {"new", "off", "test", "listen"} \cup Handling]
      /\ \A s \in Reader : pc'[s] \in Handling <=> held'[s] # NoMessage
  <2>1. CASE Fields[m].originator = c
    BY <1>2, <1>4, <2>1 DEF Listen, Goto, TypeOK, Handling, Outcome
  <2>2. CASE Fields[m].originator # c
    <3>1. pc' = [pc EXCEPT ![r] = "receiver_id"] /\ held' = [held EXCEPT ![r] = m]
      BY <1>2, <2>2 DEF Listen, Goto
    <3>2. "receiver_id" \in Handling
      BY DEF Handling, Outcome
    <3>3. /\ held \in [Reader -> Message \cup {NoMessage}]
          /\ pc \in [Reader -> {"new", "off", "test", "listen"} \cup Handling]
          /\ \A s \in Reader : pc[s] \in Handling <=> held[s] # NoMessage
      BY DEF TypeOK
    <3> HIDE DEF m
    <3>4. QED
      BY <1>2, <3>1, <3>2, <3>3
  <2>3. QED
    BY <2>1, <2>2
<1>6. QED
  BY <1>3, <1>5 DEF Listen, TypeOK, sendVars, history

LEMMA HandleType == ASSUME TypeOK, NEW r \in Reader, Handle(r) PROVE TypeOK'
<1> DEFINE c == Owner(r)
           h == [message |-> held[r], how |-> pc[r], ids |-> Ids(r)]
<1>1. c \in Client /\ Process[c] \in EveryProcess
  BY OwnerType, ProcessType
<1>2. pc[r] \in Outcome /\ held[r] \in Message /\ Ids(r) \in Ids254
  BY <1>1 DEF Handle, TypeOK, Handling, Outcome, Ids
<1>3. handled' = [handled EXCEPT ![c] = Append(@, h)]
      /\ h \in [message : Message, how : Outcome, ids : Ids254]
  BY <1>2 DEF Handle
<1> HIDE DEF h
<1>4. handled' \in [Client -> Seq([message : Message, how : Outcome, ids : Ids254])]
  BY <1>3, <1>1, AppendProperties DEF TypeOK
<1>5. /\ held' \in [Reader -> Message \cup {NoMessage}]
      /\ pc' \in [Reader -> {"new", "off", "test", "listen"} \cup Handling]
      /\ \A s \in Reader : pc'[s] \in Handling <=> held'[s] # NoMessage
  BY DEF Handle, Goto, TypeOK, Handling, Outcome
<1>6. QED
  BY <1>4, <1>5 DEF Handle, TypeOK, sendVars

LEMMA TypeStep == TypeOK /\ [Next]_vars => TypeOK'
<1> SUFFICES ASSUME TypeOK, [Next]_vars
             PROVE  TypeOK'
  OBVIOUS
<1>1. ASSUME NEW r \in Reader, StartClient(r)
      PROVE  TypeOK'
  BY <1>1, OwnerType DEF StartClient, TypeOK, Handling, Outcome, sendVars
<1>2. ASSUME NEW c \in Client, StopClient(c)
      PROVE  TypeOK'
  BY <1>2 DEF StopClient, TypeOK, readerVars, sendVars, history
<1>3. ASSUME NEW m \in Message, Publish(m)
      PROVE  TypeOK'
  BY <1>3, DeliverType DEF Publish, TypeOK, readerVars
<1>4. ASSUME NEW m \in Message, PublishRaises(m)
      PROVE  TypeOK'
  <2>1. /\ pending' \in [Client -> Seq(Message)]
        /\ \A c \in Client : ~connected'[c] => pending'[c] = <<>>
        /\ channel' \in Seq(Message)
        /\ missed' \in [Client -> SUBSET Message]
    BY <1>4, DeliverType DEF PublishRaises, TypeOK
  <2>2. /\ attempts' \in [Message -> 0..MaxAttempts]
        /\ sending' \in [Message -> {"open", "sent", "dropped"}]
        /\ \A n \in Message : sending'[n] = "open" => attempts'[n] < MaxAttempts
    BY <1>4, ClientAssumption DEF PublishRaises, Retry, TypeOK
  <2>3. QED
    BY <1>4, <2>1, <2>2 DEF PublishRaises, TypeOK, readerVars
<1>5. ASSUME NEW r \in Reader,
             ReaderTest(r) \/ TestBroadcast(r) \/ TestSender(r) \/ TestReceiver(r)
      PROVE  TypeOK'
  <2>1. PICK place \in {"off", "listen"} \cup Handling :
          Goto(r, place) /\ (held[r] # NoMessage <=> place \in Handling)
    <3>1. CASE ReaderTest(r)
      <4>1. held[r] = NoMessage
        BY <3>1 DEF ReaderTest, At, TypeOK, Handling, Outcome
      <4>2. Goto(r, "listen") \/ Goto(r, "off")
        BY <3>1 DEF ReaderTest
      <4>3. QED
        BY <4>1, <4>2 DEF Handling, Outcome
    <3>2. CASE TestBroadcast(r) \/ TestSender(r) \/ TestReceiver(r)
      <4>1. held[r] # NoMessage
        BY <3>2 DEF TestBroadcast, TestSender, TestReceiver, At, TypeOK, Handling
      <4>2. \/ Goto(r, "receive") \/ Goto(r, "own sender?") \/ Goto(r, "forward")
            \/ Goto(r, "own receiver?") \/ Goto(r, "ignore")
        BY <3>2 DEF TestBroadcast, TestSender, TestReceiver
      <4>3. QED
        BY <4>1, <4>2 DEF Handling, Outcome
    <3>3. QED
      BY <1>5, <3>1, <3>2
  <2>2. UNCHANGED <<started, held, connected, pending, sendVars, errors, history>>
        /\ info' \in [EveryProcess -> Ids254]
    BY <1>5 DEF ReaderTest, TestBroadcast, TestSender, TestReceiver, Elsewhere, TypeOK
  <2>3. QED
    BY <2>1, <2>2, GotoType
<1>6. ASSUME NEW r \in Reader, WriteReceiverId(r) \/ WriteSenderId(r)
      PROVE  TypeOK'
  <2>1. held[r] \in Message /\ Process[Owner(r)] \in EveryProcess
    BY <1>6, OwnerType, ProcessType
       DEF WriteReceiverId, WriteSenderId, At, TypeOK, Handling, Outcome
  <2>2. info' \in [EveryProcess -> Ids254]
    <3>1. /\ info[Process[Owner(r)]] \in Ids254
          /\ Fields[held[r]].receiver_id \in 0..254 /\ Fields[held[r]].sender_id \in 0..254
      BY <2>1, MessageType DEF TypeOK
    <3>2. CASE WriteReceiverId(r)
      BY <2>1, <3>1, <3>2 DEF WriteReceiverId, TypeOK, Ids254
    <3>3. CASE WriteSenderId(r)
      BY <2>1, <3>1, <3>3 DEF WriteSenderId, TypeOK, Ids254
    <3>4. QED
      BY <1>6, <3>2, <3>3
  <2>3. PICK place \in Handling : Goto(r, place)
    BY <1>6 DEF WriteReceiverId, WriteSenderId, Handling, Outcome
  <2>4. QED
    BY <1>6, <2>1, <2>2, <2>3, GotoType, MessageType DEF WriteReceiverId, WriteSenderId
<1>7. ASSUME NEW r \in Reader, ListenNothing(r)
      PROVE  TypeOK'
  BY <1>7, OwnerType
     DEF ListenNothing, At, Goto, TypeOK, Handling, Outcome, sendVars, history
<1>8. ASSUME NEW c \in Client, Disconnect(c)
      PROVE  TypeOK'
  <2>1. ToSet(pending[c]) \subseteq Message
    BY LenProperties, ElementOfSeq DEF ToSet, TypeOK
  <2>2. missed' \in [Client -> SUBSET Message]
    BY <1>8, <2>1 DEF Disconnect, TypeOK
  <2>3. /\ pending' \in [Client -> Seq(Message)]
        /\ connected' \in [Client -> BOOLEAN]
        /\ \A d \in Client : ~connected'[d] => pending'[d] = <<>>
    BY <1>8 DEF Disconnect, TypeOK
  <2>4. QED
    BY <1>8, <2>2, <2>3 DEF Disconnect, TypeOK, readerVars, sendVars
<1>9. CASE UNCHANGED vars
  BY <1>9 DEF vars, TypeOK, readerVars, sendVars, history
<1>10. QED
  BY <1>1, <1>2, <1>3, <1>4, <1>5, <1>6, <1>7, <1>8, <1>9, ListenType, HandleType
     DEF Next, ReaderStep

(* Every reachable state of the clients is well typed.                      *)
THEOREM TypeCorrect == Spec => []TypeOK
BY TypeInit, TypeStep, PTL DEF Spec

-----------------------------------------------------------------------------
(* NothingLost is inductive as it stands: one step per action that takes a  *)
(* message from where it was.                                               *)

(* Where a message of the channel is for a client.                          *)
Kept(c, m) ==
  \/ \E j \in DOMAIN pending[c] : pending[c][j] = m
  \/ \E r \in Reader : Owner(r) = c /\ held[r] = m
  \/ \E j \in DOMAIN handled[c] : handled[c][j].message = m
  \/ m \in missed[c]

LEMMA KeptSame ==
  ASSUME NEW c, NEW m, Kept(c, m), UNCHANGED <<pending, held, handled, missed>>
  PROVE  Kept(c, m)'
BY DEF Kept

LEMMA KeptDeliver ==
  ASSUME TypeOK, NothingLost, NEW m \in Message, Deliver(m),
         UNCHANGED <<held, handled>>
  PROVE  NothingLost'
<1>1. ASSUME NEW c \in Client, NEW i \in DOMAIN channel', NEW n, n = channel'[i],
             Fields[n].originator # c
      PROVE  Kept(c, n)'
  <2>1. /\ channel' = Append(channel, m) /\ channel \in Seq(Message)
        /\ pending[c] \in Seq(Message)
        /\ pending'[c] = IF connected[c] THEN Append(pending[c], m) ELSE pending[c]
        /\ missed'[c] = IF connected[c] THEN missed[c] ELSE missed[c] \cup {m}
    BY <1>1 DEF Deliver, TypeOK
  <2>2. \/ n = m
        \/ i \in DOMAIN channel /\ n = channel[i]
    BY <1>1, <2>1, AppendProperties, LenProperties
  <2>3. /\ \A j \in DOMAIN pending[c] : j \in DOMAIN pending'[c] /\ pending'[c][j] = pending[c][j]
        /\ connected[c] => \E j \in DOMAIN pending'[c] : pending'[c][j] = m
        /\ missed[c] \subseteq missed'[c]
        /\ ~connected[c] => m \in missed'[c]
    <3>1. CASE connected[c]
      <4>1. /\ pending'[c] = Append(pending[c], m) /\ Len(pending[c]) + 1 \in DOMAIN pending'[c]
            /\ pending'[c][Len(pending[c]) + 1] = m
        BY <2>1, <3>1, AppendAt
      <4>2. QED
        BY <2>1, <3>1, <4>1, AppendAt
    <3>2. CASE ~connected[c]
      BY <2>1, <3>2
    <3>3. QED
      BY <3>1, <3>2
  <2>4. CASE n = m
    BY <2>3, <2>4 DEF Kept
  <2>5. CASE i \in DOMAIN channel /\ n = channel[i]
    <3>1. Kept(c, n)
      BY <1>1, <2>5 DEF NothingLost, Kept
    <3>2. QED
      BY <2>3, <3>1 DEF Kept
  <2>6. QED
    BY <2>2, <2>4, <2>5
<1>2. QED
  BY <1>1 DEF NothingLost, Kept

(* The handled messages of a client after one more.                         *)
LEMMA HandleAppends ==
  ASSUME TypeOK, NEW r \in Reader, Handle(r)
  PROVE  /\ Owner(r) \in Client /\ held[r] \in Message /\ held[r] # NoMessage
         /\ \A d \in Client \ {Owner(r)} : handled'[d] = handled[d]
         /\ \A c \in Client : c = Owner(r) =>
              /\ Len(handled[c]) \in Nat
              /\ DOMAIN handled[c] = 1..Len(handled[c])
              /\ DOMAIN handled'[c] = 1..Len(handled[c]) + 1
              /\ handled'[c][Len(handled[c]) + 1]
                   = [message |-> held[r], how |-> pc[r], ids |-> Ids(r)]
              /\ \A j \in 1..Len(handled[c]) : handled'[c][j] = handled[c][j]
<1> DEFINE c == Owner(r)
           h == [message |-> held[r], how |-> pc[r], ids |-> Ids(r)]
           H == [message : Message, how : Outcome, ids : Ids254]
<1>1. c \in Client /\ Process[c] \in EveryProcess
  BY OwnerType, ProcessType
<1>2. pc[r] \in Outcome /\ held[r] \in Message /\ held[r] # NoMessage /\ Ids(r) \in Ids254
  BY <1>1 DEF Handle, TypeOK, Handling, Outcome, Ids
<1>3. h \in H /\ handled[c] \in Seq(H)
  BY <1>1, <1>2 DEF TypeOK
<1>4. handled' = [handled EXCEPT ![c] = Append(@, h)]
  BY DEF Handle
<1> HIDE DEF h, H
<1>5. handled'[c] = Append(handled[c], h) /\ \A d \in Client \ {c} : handled'[d] = handled[d]
  BY <1>1, <1>4 DEF TypeOK
<1>6. /\ Len(handled[c]) \in Nat
      /\ DOMAIN handled[c] = 1..Len(handled[c])
      /\ DOMAIN handled'[c] = 1..Len(handled[c]) + 1
      /\ handled'[c][Len(handled[c]) + 1] = h
      /\ \A j \in 1..Len(handled[c]) : handled'[c][j] = handled[c][j]
  BY <1>3, <1>5, AppendAt
<1>7. QED
  BY <1>1, <1>2, <1>5, <1>6 DEF h

LEMMA KeptListen ==
  ASSUME TypeOK, NEW r \in Reader, Listen(r),
         NEW c \in Client, NEW n \in Message, Fields[n].originator # c, Kept(c, n)
  PROVE  Kept(c, n)'
<1> DEFINE o == Owner(r)
<1>1. o \in Client /\ pending[o] \in Seq(Message) /\ pending[o] # <<>>
      /\ UNCHANGED <<handled, missed>> /\ held[r] = NoMessage
  BY OwnerType DEF Listen, TypeOK, At, Handling, Outcome, history
<1>2. CASE n \in missed[c] \/ \E j \in DOMAIN handled[c] : handled[c][j].message = n
  BY <1>1, <1>2 DEF Kept
<1>3. CASE \E s \in Reader : Owner(s) = c /\ held[s] = n
  <2>1. PICK s \in Reader : Owner(s) = c /\ held[s] = n
    BY <1>3
  <2>2. s # r
    BY <1>1, <2>1, MessageType
  <2>3. held'[s] = held[s]
    BY <2>1, <2>2 DEF Listen, TypeOK
  <2>4. QED
    BY <2>1, <2>3 DEF Kept
<1>4. CASE \E j \in DOMAIN pending[c] : pending[c][j] = n
  <2>1. PICK j \in DOMAIN pending[c] : pending[c][j] = n
    BY <1>4
  <2>2. CASE c # o
    <3>1. pending'[c] = pending[c]
      BY <1>1, <2>2 DEF Listen, TypeOK
    <3>2. QED
      BY <2>1, <3>1 DEF Kept
  <2>3. CASE c = o /\ j = 1
    <3>1. Pop(pending[o])[1] = n
      BY <1>1, <2>1, <2>3, PopProperties
    <3>2. held'[r] = n
      BY <2>3, <3>1 DEF Listen, TypeOK
    <3>3. QED
      BY <2>3, <3>2 DEF Kept
  <2>4. CASE c = o /\ j # 1
    <3>1. /\ Len(pending[o]) \in Nat /\ j \in 1..Len(pending[o])
          /\ DOMAIN Pop(pending[o])[2] = 1..Len(pending[o]) - 1
          /\ \A i \in 1..Len(pending[o]) - 1 : Pop(pending[o])[2][i] = pending[o][i + 1]
      BY <1>1, <2>1, <2>4, PopProperties
    <3>2. j - 1 \in DOMAIN Pop(pending[o])[2] /\ Pop(pending[o])[2][j - 1] = n
      BY <2>1, <2>4, <3>1
    <3>3. pending'[o] = Pop(pending[o])[2]
      BY <1>1 DEF Listen, TypeOK
    <3>4. QED
      BY <2>4, <3>2, <3>3 DEF Kept
  <2>5. QED
    BY <2>2, <2>3, <2>4
<1>5. QED
  BY <1>2, <1>3, <1>4 DEF Kept

LEMMA KeptHandle ==
  ASSUME TypeOK, NEW r \in Reader, Handle(r),
         NEW c \in Client, NEW n \in Message, Kept(c, n)
  PROVE  Kept(c, n)'
<1> DEFINE o == Owner(r)
<1>1. UNCHANGED <<pending, missed>> /\ held' = [held EXCEPT ![r] = NoMessage]
  BY DEF Handle
<1>2. /\ \A j \in DOMAIN handled[c] : j \in DOMAIN handled'[c] /\ handled'[c][j] = handled[c][j]
      /\ c = o => \E j \in DOMAIN handled'[c] : handled'[c][j].message = held[r]
  <2>1. CASE c = o
    <3>1. /\ Len(handled[c]) \in Nat
          /\ DOMAIN handled[c] = 1..Len(handled[c])
          /\ DOMAIN handled'[c] = 1..Len(handled[c]) + 1
          /\ handled'[c][Len(handled[c]) + 1]
               = [message |-> held[r], how |-> pc[r], ids |-> Ids(r)]
          /\ \A j \in 1..Len(handled[c]) : handled'[c][j] = handled[c][j]
      BY <2>1, HandleAppends
    <3>2. handled'[c][Len(handled[c]) + 1].message = held[r]
      BY <3>1
    <3>3. QED
      BY <3>1, <3>2
  <2>2. CASE c # o
    BY <2>2, HandleAppends
  <2>3. QED
    BY <2>1, <2>2
<1>3. CASE \E s \in Reader : Owner(s) = c /\ held[s] = n
  <2>1. PICK s \in Reader : Owner(s) = c /\ held[s] = n
    BY <1>3
  <2>2. CASE s = r
    BY <1>2, <2>1, <2>2 DEF Kept
  <2>3. CASE s # r
    BY <1>1, <2>1, <2>3 DEF Kept, TypeOK
  <2>4. QED
    BY <2>2, <2>3
<1>4. QED
  BY <1>1, <1>2, <1>3 DEF Kept

LEMMA KeptDisconnect ==
  ASSUME TypeOK, NEW d \in Client, Disconnect(d),
         NEW c \in Client, NEW n \in Message, Kept(c, n)
  PROVE  Kept(c, n)'
<1>1. UNCHANGED <<held, handled>> /\ missed[c] \subseteq missed'[c]
  BY DEF Disconnect, readerVars, TypeOK
<1>2. CASE \E j \in DOMAIN pending[c] : pending[c][j] = n
  <2>1. CASE c = d
    <3>1. n \in ToSet(pending[c])
      BY <1>2 DEF ToSet
    <3>2. n \in missed'[c]
      BY <2>1, <3>1 DEF Disconnect, TypeOK
    <3>3. QED
      BY <3>2 DEF Kept
  <2>2. CASE c # d
    BY <1>2, <2>2 DEF Disconnect, TypeOK, Kept
  <2>3. QED
    BY <2>1, <2>2
<1>3. QED
  BY <1>1, <1>2 DEF Kept

LEMMA KeptStep == TypeOK /\ NothingLost /\ [Next]_vars => NothingLost'
<1> SUFFICES ASSUME TypeOK, NothingLost, [Next]_vars
             PROVE  NothingLost'
  OBVIOUS
<1>1. ASSUME UNCHANGED channel,
             \A c \in Client, n \in Message :
               Fields[n].originator # c /\ Kept(c, n) => Kept(c, n)'
      PROVE  NothingLost'
  <2>1. \A i \in DOMAIN channel : channel[i] \in Message
    BY LenProperties, ElementOfSeq DEF TypeOK
  <2>2. ASSUME NEW c \in Client, NEW i \in DOMAIN channel, NEW n \in Message,
               n = channel[i], Fields[n].originator # c
        PROVE  Kept(c, n)'
    <3>1. Kept(c, n)
      BY <2>2 DEF NothingLost, Kept
    <3>2. QED
      BY <1>1, <2>2, <3>1
  <2>3. QED
    BY <1>1, <2>1, <2>2 DEF NothingLost, Kept
<1>2. ASSUME UNCHANGED <<channel, pending, held, handled, missed>>
      PROVE  NothingLost'
  BY <1>2 DEF NothingLost
<1>3. ASSUME NEW r \in Reader, Listen(r)
      PROVE  NothingLost'
  BY <1>1, <1>3, KeptListen DEF Listen, history
<1>4. ASSUME NEW r \in Reader, Handle(r)
      PROVE  NothingLost'
  BY <1>1, <1>4, KeptHandle DEF Handle
<1>5. ASSUME NEW c \in Client, Disconnect(c)
      PROVE  NothingLost'
  BY <1>1, <1>5, KeptDisconnect DEF Disconnect
<1>6. ASSUME NEW m \in Message, Publish(m) \/ PublishRaises(m)
      PROVE  NothingLost'
  <2>1. UNCHANGED <<held, handled>>
    BY <1>6 DEF Publish, PublishRaises, readerVars
  <2>2. Deliver(m) \/ UNCHANGED <<channel, pending, missed>>
    BY <1>6 DEF Publish, PublishRaises
  <2>3. QED
    BY <1>2, <2>1, <2>2, KeptDeliver
<1>7. ASSUME NEW r \in Reader,
             \/ StartClient(r) \/ ReaderTest(r) \/ ListenNothing(r)
             \/ WriteReceiverId(r) \/ WriteSenderId(r) \/ TestBroadcast(r)
             \/ TestSender(r) \/ TestReceiver(r)
      PROVE  NothingLost'
  BY <1>2, <1>7 DEF StartClient, ReaderTest, ListenNothing, WriteReceiverId, WriteSenderId,
                    TestBroadcast, TestSender, TestReceiver, Elsewhere, history
<1>8. CASE UNCHANGED vars \/ \E c \in Client : StopClient(c)
  BY <1>2, <1>8 DEF StopClient, vars, readerVars, history
<1>9. QED
  BY <1>3, <1>4, <1>5, <1>6, <1>7, <1>8 DEF Next, ReaderStep

(* A message of another client that reached the channel is waiting, being   *)
(* handled, handled, or was missed while the client was disconnected, for   *)
(* any number of readers.                                                   *)
THEOREM NothingIsLost == Spec => []NothingLost
<1>1. Init => NothingLost
  BY DEF Init, NothingLost
<1>2. QED
  BY <1>1, KeptStep, TypeCorrect, PTL DEF Spec

-----------------------------------------------------------------------------
(* RoutedWhenAlone holds because the only reader of a process is the only   *)
(* one to write the shared ids between its own writes and its tests.        *)

Alone(c) == Process[c] \notin overlapped

OneReader ==
  \A r, s \in Reader :
    Running(r) /\ Running(s) /\ Process[Owner(r)] = Process[Owner(s)] /\ Alone(Owner(r))
      => r = s

HeldIsForeign ==
  \A r \in Reader : held[r] # NoMessage => Fields[held[r]].originator # Owner(r)

(* What a reader that is alone wrote is what it reads.                      *)
OwnIds(r) ==
  /\ pc[r] \in Handling \ {"receiver_id"} =>
       Ids(r).receiver_id = Fields[held[r]].receiver_id
  /\ pc[r] \in Handling \ {"receiver_id", "sender_id"} =>
       Ids(r).sender_id = Fields[held[r]].sender_id

(* What its tests told it so far is true of the message.                    *)
Tested(r) ==
  /\ pc[r] \in {"own sender?", "own receiver?"} => Fields[held[r]].receiver_id # 0
  /\ pc[r] = "own receiver?" => Fields[held[r]].sender_id # BusAddr[Owner(r)]
  /\ pc[r] \in Outcome => pc[r] = Right(Owner(r), held[r])

AloneIsRight == \A r \in Reader : Alone(Owner(r)) => OwnIds(r) /\ Tested(r)

RouteInv == OneReader /\ HeldIsForeign /\ AloneIsRight /\ RoutedWhenAlone

LEMMA RouteInit == Init => RouteInv
BY DEF Init, RouteInv, OneReader, HeldIsForeign, AloneIsRight, RoutedWhenAlone, Running,
       OwnIds, Tested, Handling, Outcome

LEMMA RightCases ==
  ASSUME NEW c \in Client, NEW m \in Message
  PROVE  /\ Fields[m].receiver_id = 0 => Right(c, m) = "receive"
         /\ Fields[m].receiver_id # 0 /\ Fields[m].sender_id = BusAddr[c]
              => Right(c, m) = "forward"
         /\ Fields[m].receiver_id = BusAddr[c] /\ Fields[m].sender_id # BusAddr[c]
              => Right(c, m) = "receive"
         /\ Fields[m].receiver_id \notin {0, BusAddr[c]} /\ Fields[m].sender_id # BusAddr[c]
              => Right(c, m) = "ignore"
<1>1. BusAddr[c] # 0
  BY ClientAssumption
<1>2. CASE Fields[m].receiver_id = 0
  BY <1>1, <1>2 DEF Right
<1>3. CASE Fields[m].receiver_id # 0 /\ Fields[m].sender_id = BusAddr[c]
  BY <1>1, <1>3 DEF Right
<1>4. CASE Fields[m].receiver_id = BusAddr[c] /\ Fields[m].sender_id # BusAddr[c]
  BY <1>1, <1>4 DEF Right
<1>5. CASE Fields[m].receiver_id \notin {0, BusAddr[c]} /\ Fields[m].sender_id # BusAddr[c]
  BY <1>1, <1>5 DEF Right
<1>6. QED
  BY <1>2, <1>3, <1>4, <1>5

(* A step of reader s does not disturb another reader that is alone: it     *)
(* changes neither its place, nor its message, nor the ids of its process.  *)
LEMMA OthersUndisturbed ==
  ASSUME TypeOK, OneReader, NEW s \in Reader, Running(s), UNCHANGED overlapped,
         NEW r \in Reader \ {s}, Alone(Owner(r)), OwnIds(r) /\ Tested(r),
         pc'[r] = pc[r], held'[r] = held[r],
         \A p \in EveryProcess \ {Process[Owner(s)]} : info'[p] = info[p]
  PROVE  (OwnIds(r) /\ Tested(r))'
<1>1. Tested(r)'
  BY DEF Tested
<1>2. CASE Running(r)
  <2>1. Process[Owner(r)] # Process[Owner(s)]
    BY <1>2 DEF OneReader
  <2>2. Process[Owner(r)] \in EveryProcess
    BY OwnerType, ProcessType
  <2>3. QED
    BY <1>1, <2>1, <2>2 DEF OwnIds, Ids
<1>3. CASE ~Running(r)
  BY <1>1, <1>3 DEF OwnIds, Running, Handling, Outcome
<1>4. QED
  BY <1>2, <1>3

(* The steps of a reader that is alone between its writes and its tests.    *)
LEMMA OwnStep ==
  ASSUME TypeOK, NEW r \in Reader, ReaderStep(r), OwnIds(r), Tested(r)
  PROVE  (OwnIds(r) /\ Tested(r))'
<1> USE DEF Handling, Outcome
<1>0. /\ Owner(r) \in Client /\ Process[Owner(r)] \in EveryProcess
      /\ info[Process[Owner(r)]] \in Ids254
      /\ pc[r] \in Handling => held[r] \in Message /\ held[r] # NoMessage
  BY OwnerType, ProcessType DEF TypeOK
<1>1. CASE ReaderTest(r) \/ Listen(r) \/ ListenNothing(r) \/ Handle(r)
  <2>1. pc'[r] \notin Handling \ {"receiver_id"}
    BY <1>1 DEF ReaderTest, Listen, ListenNothing, Handle, Goto, TypeOK
  <2>2. QED
    BY <2>1 DEF OwnIds, Tested
<1>2. CASE WriteReceiverId(r)
  <2>1. pc'[r] = "sender_id" /\ held'[r] = held[r]
        /\ info'[Process[Owner(r)]].receiver_id = Fields[held[r]].receiver_id
    BY <1>0, <1>2 DEF WriteReceiverId, Goto, TypeOK, Ids254
  <2>2. QED
    BY <2>1 DEF OwnIds, Tested, Ids
<1>3. CASE WriteSenderId(r)
  <2>1. /\ pc[r] = "sender_id" /\ pc'[r] = "broadcast?" /\ held'[r] = held[r]
        /\ info'[Process[Owner(r)]].sender_id = Fields[held[r]].sender_id
        /\ info'[Process[Owner(r)]].receiver_id = info[Process[Owner(r)]].receiver_id
    BY <1>0, <1>3 DEF WriteSenderId, At, Goto, TypeOK, Ids254
  <2>2. QED
    BY <2>1 DEF OwnIds, Tested, Ids
<1>4. CASE TestBroadcast(r) \/ TestSender(r) \/ TestReceiver(r)
  <2>1. /\ pc[r] \in Handling \ {"receiver_id", "sender_id"}
        /\ pc'[r] \in Handling \ {"receiver_id", "sender_id"}
        /\ held' = held /\ info' = info /\ UNCHANGED Ids(r)
    BY <1>4 DEF TestBroadcast, TestSender, TestReceiver, At, Goto, Elsewhere, TypeOK, Ids
  <2>2. OwnIds(r)'
    BY <2>1 DEF OwnIds
  <2>3. /\ Ids(r).receiver_id = Fields[held[r]].receiver_id
        /\ Ids(r).sender_id = Fields[held[r]].sender_id
    BY <2>1 DEF OwnIds
  <2>4. CASE TestBroadcast(r)
    <3>1. pc'[r] = IF Fields[held[r]].receiver_id = 0 THEN "receive" ELSE "own sender?"
      BY <2>3, <2>4 DEF TestBroadcast, Goto, TypeOK
    <3>2. Tested(r)'
      BY <1>0, <2>1, <3>1, RightCases DEF Tested, Right
    <3>3. QED
      BY <2>2, <3>2
  <2>5. CASE TestSender(r)
    <3>1. /\ pc'[r] = IF Fields[held[r]].sender_id = BusAddr[Owner(r)]
                      THEN "forward" ELSE "own receiver?"
          /\ Fields[held[r]].receiver_id # 0
      BY <2>3, <2>5 DEF TestSender, At, Goto, TypeOK, Tested
    <3>2. Tested(r)'
      BY <1>0, <2>1, <3>1, RightCases DEF Tested, Right
    <3>3. QED
      BY <2>2, <3>2
  <2>6. CASE TestReceiver(r)
    <3>1. /\ pc'[r] = IF Fields[held[r]].receiver_id = BusAddr[Owner(r)]
                      THEN "receive" ELSE "ignore"
          /\ Fields[held[r]].receiver_id # 0
          /\ Fields[held[r]].sender_id # BusAddr[Owner(r)]
      BY <2>3, <2>6 DEF TestReceiver, At, Goto, TypeOK, Tested
    <3>2. Tested(r)'
      BY <1>0, <2>1, <3>1, RightCases DEF Tested, Right
    <3>3. QED
      BY <2>2, <3>2
  <2>7. QED
    BY <1>4, <2>4, <2>5, <2>6
<1>5. QED
  BY <1>1, <1>2, <1>3, <1>4 DEF ReaderStep

LEMMA AloneIsRightStep ==
  ASSUME TypeOK, RouteInv, NEW s \in Reader, ReaderStep(s)
  PROVE  AloneIsRight'
<1>1. /\ UNCHANGED overlapped /\ Running(s)
      /\ \A r \in Reader \ {s} : pc'[r] = pc[r] /\ held'[r] = held[r]
  BY DEF ReaderStep, ReaderTest, Listen, ListenNothing, WriteReceiverId, WriteSenderId,
         TestBroadcast, TestSender, TestReceiver, Handle, At, Goto, Elsewhere, history,
         Running, TypeOK
<1>2. \A p \in EveryProcess \ {Process[Owner(s)]} : info'[p] = info[p]
  BY DEF ReaderStep, ReaderTest, Listen, ListenNothing, WriteReceiverId, WriteSenderId,
         TestBroadcast, TestSender, TestReceiver, Handle, Elsewhere, TypeOK
<1>3. ASSUME NEW r \in Reader, Alone(Owner(r))
      PROVE  (OwnIds(r) /\ Tested(r))'
  <2>1. OwnIds(r) /\ Tested(r)
    BY <1>3 DEF RouteInv, AloneIsRight
  <2>2. CASE r = s
    BY <2>1, <2>2, OwnStep
  <2>3. CASE r # s
    BY <1>1, <1>2, <1>3, <2>1, <2>3, OthersUndisturbed DEF RouteInv
  <2>4. QED
    BY <2>2, <2>3
<1>4. QED
  BY <1>1, <1>3 DEF AloneIsRight, Alone

LEMMA HandleIsRight ==
  ASSUME TypeOK, RouteInv, NEW r \in Reader, Handle(r)
  PROVE  RoutedWhenAlone'
<1>1. UNCHANGED overlapped
  BY DEF Handle
<1>2. ASSUME NEW c \in Client, Alone(c), NEW i \in DOMAIN handled'[c],
             NEW h, h = handled'[c][i]
      PROVE  RightlyHandled(c, h)
  <2>1. CASE i \in DOMAIN handled[c] /\ h = handled[c][i]
    BY <1>2, <2>1 DEF RouteInv, RoutedWhenAlone, Alone
  <2>2. CASE c = Owner(r) /\ h = [message |-> held[r], how |-> pc[r], ids |-> Ids(r)]
    <3>1. Fields[held[r]].originator # c
      BY <2>2, HandleAppends DEF RouteInv, HeldIsForeign
    <3>2. OwnIds(r) /\ Tested(r) /\ pc[r] \in Outcome
      BY <1>2, <2>2 DEF RouteInv, AloneIsRight, Handle, Outcome
    <3>3. /\ pc[r] = Right(c, held[r])
          /\ Ids(r).receiver_id = Fields[held[r]].receiver_id
          /\ Ids(r).sender_id = Fields[held[r]].sender_id
      BY <2>2, <3>2 DEF OwnIds, Tested, Handling, Outcome
    <3>4. h.message = held[r] /\ h.how = pc[r] /\ h.ids = Ids(r)
      BY <2>2
    <3>5. QED
      BY <3>1, <3>3, <3>4 DEF RightlyHandled
  <2>3. CASE c # Owner(r)
    BY <1>2, <2>1, <2>3, HandleAppends
  <2>4. CASE c = Owner(r)
    <3>1. /\ Len(handled[c]) \in Nat
          /\ DOMAIN handled[c] = 1..Len(handled[c])
          /\ DOMAIN handled'[c] = 1..Len(handled[c]) + 1
          /\ handled'[c][Len(handled[c]) + 1]
               = [message |-> held[r], how |-> pc[r], ids |-> Ids(r)]
          /\ \A j \in 1..Len(handled[c]) : handled'[c][j] = handled[c][j]
      BY <2>4, HandleAppends
    <3>2. i = Len(handled[c]) + 1 \/ i \in 1..Len(handled[c])
      BY <1>2, <3>1
    <3>3. QED
      BY <1>2, <2>1, <2>2, <2>4, <3>1, <3>2
  <2>5. QED
    BY <2>3, <2>4
<1>3. QED
  BY <1>1, <1>2 DEF RoutedWhenAlone, Alone, RightlyHandled, Right

LEMMA ReaderRoutes ==
  ASSUME TypeOK, RouteInv, NEW s \in Reader, ReaderStep(s)
  PROVE  RouteInv'
<1>1. UNCHANGED overlapped
  BY DEF ReaderStep, ReaderTest, Listen, ListenNothing, WriteReceiverId, WriteSenderId,
         TestBroadcast, TestSender, TestReceiver, Handle, Elsewhere, history
<1>2. \A r \in Reader : Running(r)' => Running(r)
  BY DEF ReaderStep, ReaderTest, Listen, ListenNothing, WriteReceiverId, WriteSenderId,
         TestBroadcast, TestSender, TestReceiver, Handle, At, Goto, Running, TypeOK
<1>3. OneReader'
  BY <1>1, <1>2 DEF RouteInv, OneReader, Alone
<1>4. HeldIsForeign'
  <2>1. CASE Listen(s)
    BY <2>1 DEF Listen, RouteInv, HeldIsForeign, TypeOK
  <2>2. CASE Handle(s)
    BY <2>2 DEF Handle, RouteInv, HeldIsForeign, TypeOK
  <2>3. CASE UNCHANGED held
    BY <2>3 DEF RouteInv, HeldIsForeign
  <2>4. QED
    BY <2>1, <2>2, <2>3 DEF ReaderStep, ReaderTest, ListenNothing, WriteReceiverId,
       WriteSenderId, TestBroadcast, TestSender, TestReceiver, Elsewhere
<1>5. RoutedWhenAlone'
  <2>1. CASE UNCHANGED handled
    BY <1>1, <2>1 DEF RouteInv, RoutedWhenAlone, RightlyHandled, Right
  <2>2. QED
    BY <2>1, HandleIsRight
       DEF ReaderStep, ReaderTest, Listen, ListenNothing, WriteReceiverId, WriteSenderId,
           TestBroadcast, TestSender, TestReceiver, Elsewhere, history
<1>6. QED
  BY <1>3, <1>4, <1>5, AloneIsRightStep DEF RouteInv

(* A second reader of a process makes the process overlapped.               *)
LEMMA StartRoutes ==
  ASSUME TypeOK, RouteInv, NEW s \in Reader, StartClient(s)
  PROVE  RouteInv'
<1> DEFINE p == Process[Owner(s)]
<1>1. /\ UNCHANGED <<held, info, handled>> /\ overlapped \subseteq overlapped'
      /\ pc' = [pc EXCEPT ![s] = "test"] /\ pc[s] = "new"
      /\ p \notin overlapped' =>
           ~ \E r \in Reader : Running(r) /\ Process[Owner(r)] = p
  BY DEF StartClient
<1>2. \A r \in Reader \ {s} : pc'[r] = pc[r]
  BY <1>1 DEF TypeOK
<1>3. OneReader'
  <2>1. ASSUME NEW r \in Reader, NEW u \in Reader, Running(r)', Running(u)',
               Process[Owner(r)] = Process[Owner(u)], Alone(Owner(r))'
        PROVE  r = u
    <3>1. CASE r # s /\ u # s
      BY <1>1, <1>2, <2>1, <3>1 DEF RouteInv, OneReader, Running, Alone
    <3>2. CASE r = s /\ u # s
      BY <1>1, <1>2, <2>1, <3>2 DEF Running, Alone
    <3>3. CASE u = s /\ r # s
      BY <1>1, <1>2, <2>1, <3>3 DEF Running, Alone
    <3>4. QED
      BY <3>1, <3>2, <3>3
  <2>2. QED
    BY <2>1 DEF OneReader
<1>4. HeldIsForeign' /\ RoutedWhenAlone'
  BY <1>1 DEF RouteInv, HeldIsForeign, RoutedWhenAlone, RightlyHandled, Right
<1>5. AloneIsRight'
  <2>1. ASSUME NEW r \in Reader, Alone(Owner(r))'
        PROVE  (OwnIds(r) /\ Tested(r))'
    <3>1. CASE r = s
      <4>1. pc'[r] = "test"
        BY <1>1, <3>1 DEF TypeOK
      <4>2. QED
        BY <4>1 DEF OwnIds, Tested, Handling, Outcome
    <3>2. CASE r # s
      <4>1. OwnIds(r) /\ Tested(r) /\ pc'[r] = pc[r] /\ UNCHANGED Ids(r)
        BY <1>1, <1>2, <2>1, <3>2 DEF RouteInv, AloneIsRight, Alone, Ids
      <4>2. QED
        BY <1>1, <4>1 DEF OwnIds, Tested
    <3>3. QED
      BY <3>1, <3>2
  <2>2. QED
    BY <2>1 DEF AloneIsRight
<1>6. QED
  BY <1>3, <1>4, <1>5 DEF RouteInv

LEMMA RouteStep == TypeOK /\ RouteInv /\ [Next]_vars => RouteInv'
<1> SUFFICES ASSUME TypeOK, RouteInv, [Next]_vars
             PROVE  RouteInv'
  OBVIOUS
<1>1. ASSUME UNCHANGED <<pc, held, info, handled, overlapped>>
      PROVE  RouteInv'
  <2>1. OneReader' /\ HeldIsForeign'
    BY <1>1 DEF RouteInv, OneReader, HeldIsForeign, Running, Alone
  <2>2. RoutedWhenAlone'
    BY <1>1 DEF RouteInv, RoutedWhenAlone
  <2>3. AloneIsRight'
    BY <1>1 DEF RouteInv, AloneIsRight, OwnIds, Tested, Ids, Alone
  <2>4. QED
    BY <2>1, <2>2, <2>3 DEF RouteInv
<1>2. CASE UNCHANGED vars
  BY <1>1, <1>2 DEF vars, readerVars, history
<1>3. ASSUME NEW c \in Client, StopClient(c) \/ Disconnect(c)
      PROVE  RouteInv'
  BY <1>1, <1>3 DEF StopClient, Disconnect, readerVars, history
<1>4. ASSUME NEW m \in Message, Publish(m) \/ PublishRaises(m)
      PROVE  RouteInv'
  BY <1>1, <1>4 DEF Publish, PublishRaises, readerVars
<1>5. QED
  BY <1>2, <1>3, <1>4, ReaderRoutes, StartRoutes DEF Next

(* In a process that never had two readers at a time every message is       *)
(* handled as its own ids say, whatever was stopped, started again, lost or *)
(* repeated.                                                                *)
THEOREM RoutedRightly == Spec => []RoutedWhenAlone
<1>1. RouteInv => RoutedWhenAlone
  BY DEF RouteInv
<1>2. QED
  BY <1>1, RouteInit, RouteStep, TypeCorrect, PTL DEF Spec

-----------------------------------------------------------------------------
(* HandledInOrder: the messages that a client handled, the one in the hands *)
(* of its reader and those that wait for it have, in this order, increasing *)
(* places on the channel.                                                   *)

Increasing(f) == \A i, j \in DOMAIN f : i < j => f[i] < f[j]

Placed(c, f, g, h) ==
  /\ f \in [DOMAIN handled[c] -> DOMAIN channel] /\ Increasing(f)
  /\ \A i \in DOMAIN handled[c] : channel[f[i]] = handled[c][i].message
  /\ g \in [DOMAIN pending[c] -> DOMAIN channel] /\ Increasing(g)
  /\ \A j \in DOMAIN pending[c] : channel[g[j]] = pending[c][j]
  /\ \A i \in DOMAIN handled[c], j \in DOMAIN pending[c] : f[i] < g[j]
  /\ h \in [Reader -> Nat]
  /\ \A r \in Reader : Owner(r) = c /\ held[r] # NoMessage =>
       /\ h[r] \in DOMAIN channel /\ channel[h[r]] = held[r]
       /\ \A i \in DOMAIN handled[c] : f[i] < h[r]
       /\ \A j \in DOMAIN pending[c] : h[r] < g[j]

PlacesInv ==
  \A c \in Client : Alone(c) => \E f, g, h : Placed(c, f, g, h)

LEMMA PlacesInit == Init => PlacesInv
<1> SUFFICES ASSUME Init, NEW c \in Client
             PROVE  \E f, g, h : Placed(c, f, g, h)
  BY DEF PlacesInv
<1>1. Placed(c, <<>>, <<>>, [r \in Reader |-> 0])
  BY DEF Init, Placed, Increasing
<1>2. QED
  BY <1>1

LEMMA ChannelPlaces ==
  ASSUME TypeOK
  PROVE  /\ Len(channel) \in Nat /\ DOMAIN channel = 1..Len(channel)
         /\ \A c \in Client :
              /\ Len(handled[c]) \in Nat /\ DOMAIN handled[c] = 1..Len(handled[c])
              /\ Len(pending[c]) \in Nat /\ DOMAIN pending[c] = 1..Len(pending[c])
BY LenProperties DEF TypeOK

LEMMA PlacedSame ==
  ASSUME NEW c \in Client, NEW f, NEW g, NEW h, Placed(c, f, g, h),
         UNCHANGED channel, handled'[c] = handled[c], pending'[c] = pending[c],
         \A r \in Reader : Owner(r) = c => held'[r] = held[r]
  PROVE  Placed(c, f, g, h)'
BY DEF Placed, Increasing

(* A message is published: the last place of the channel.                   *)
LEMMA PlacedDeliver ==
  ASSUME TypeOK, NEW m \in Message, Deliver(m), UNCHANGED <<held, handled>>,
         NEW c \in Client, NEW f, NEW g, NEW h, Placed(c, f, g, h)
  PROVE  \E g2 : Placed(c, f, g2, h)'
<1>0. PICK n \in Nat, L \in Nat :
        n = Len(pending[c]) /\ L = Len(channel)
        /\ DOMAIN pending[c] = 1..n /\ DOMAIN channel = 1..L
  BY ChannelPlaces
<1>1. /\ channel' = Append(channel, m) /\ channel \in Seq(Message)
      /\ pending[c] \in Seq(Message)
      /\ pending'[c] = IF connected[c] THEN Append(pending[c], m) ELSE pending[c]
  BY DEF Deliver, TypeOK
<1>2. /\ DOMAIN channel' = 1..L + 1 /\ channel'[L + 1] = m
      /\ \A i \in 1..L : channel'[i] = channel[i]
  BY <1>0, <1>1, AppendAt
<1>3. /\ f \in [DOMAIN handled[c] -> 1..L] /\ Increasing(f)
      /\ \A i \in DOMAIN handled[c] : channel[f[i]] = handled[c][i].message
  BY <1>0 DEF Placed
<1>4. /\ g \in [1..n -> 1..L] /\ \A i, j \in 1..n : i < j => g[i] < g[j]
      /\ \A j \in 1..n : channel[g[j]] = pending[c][j]
      /\ \A i \in DOMAIN handled[c], j \in 1..n : f[i] < g[j]
  BY <1>0 DEF Placed, Increasing
<1>5. /\ h \in [Reader -> Nat]
      /\ \A r \in Reader : Owner(r) = c /\ held[r] # NoMessage =>
           /\ h[r] \in 1..L /\ channel[h[r]] = held[r]
           /\ \A i \in DOMAIN handled[c] : f[i] < h[r]
           /\ \A j \in 1..n : h[r] < g[j]
  BY <1>0 DEF Placed
<1>6. /\ f \in [DOMAIN handled[c] -> 1..L + 1]
      /\ \A i \in DOMAIN handled[c] : channel'[f[i]] = handled[c][i].message
  BY <1>2, <1>3
<1>7. CASE ~connected[c]
  <2>1. pending'[c] = pending[c]
    BY <1>1, <1>7
  <2>2. g \in [1..n -> 1..L + 1] /\ \A j \in 1..n : channel'[g[j]] = pending[c][j]
    BY <1>2, <1>4
  <2>3. \A r \in Reader : Owner(r) = c /\ held[r] # NoMessage =>
           /\ h[r] \in 1..L + 1 /\ channel'[h[r]] = held[r]
    BY <1>2, <1>5
  <2>4. Increasing(g)
    BY DEF Placed
  <2>5. Placed(c, f, g, h)'
    <3>1. \A r \in Reader : Owner(r) = c /\ held'[r] # NoMessage =>
            /\ h[r] \in DOMAIN channel' /\ channel'[h[r]] = held'[r]
            /\ \A i \in DOMAIN handled'[c] : f[i] < h[r]
            /\ \A j \in DOMAIN pending'[c] : h[r] < g[j]
      BY <1>0, <1>2, <1>5, <2>1, <2>3
    <3>2. /\ f \in [DOMAIN handled'[c] -> DOMAIN channel']
          /\ \A i \in DOMAIN handled'[c] : channel'[f[i]] = handled'[c][i].message
          /\ g \in [DOMAIN pending'[c] -> DOMAIN channel']
          /\ \A j \in DOMAIN pending'[c] : channel'[g[j]] = pending'[c][j]
          /\ \A i \in DOMAIN handled'[c], j \in DOMAIN pending'[c] : f[i] < g[j]
      BY <1>0, <1>2, <1>4, <1>6, <2>1, <2>2
    <3>3. QED
      BY <1>3, <1>5, <2>4, <3>1, <3>2 DEF Placed, Increasing
  <2>6. QED
    BY <2>5
<1>8. CASE connected[c]
  <2> DEFINE g2 == [j \in 1..n + 1 |-> IF j = n + 1 THEN L + 1 ELSE g[j]]
  <2>1. /\ DOMAIN pending'[c] = 1..n + 1 /\ pending'[c][n + 1] = m
        /\ \A j \in 1..n : pending'[c][j] = pending[c][j]
    BY <1>0, <1>1, <1>8, AppendAt
  <2>2. /\ g2 \in [1..n + 1 -> 1..L + 1] /\ g2[n + 1] = L + 1
        /\ \A j \in 1..n : g2[j] = g[j]
    BY <1>4
  <2> HIDE DEF g2
  <2>0. \A j \in 1..n + 1 : j \in 1..n \/ j = n + 1
    OBVIOUS
  <2>3. ASSUME NEW i \in 1..n + 1, NEW j \in 1..n + 1, i < j
        PROVE  g2[i] < g2[j]
    <3>1. i \in 1..n /\ g2[i] = g[i] /\ g[i] \in 1..L
      BY <1>4, <2>2, <2>3
    <3>2. CASE j \in 1..n
      BY <1>4, <2>2, <2>3, <3>1, <3>2
    <3>3. CASE j = n + 1
      BY <2>2, <3>1, <3>3
    <3>4. QED
      BY <2>0, <3>2, <3>3
  <2>4. ASSUME NEW j \in 1..n + 1
        PROVE  /\ channel'[g2[j]] = pending'[c][j]
               /\ \A i \in DOMAIN handled[c] : f[i] < g2[j]
    <3>1. CASE j \in 1..n
      <4>1. g2[j] = g[j] /\ g[j] \in 1..L /\ pending'[c][j] = pending[c][j]
        BY <1>4, <2>1, <2>2, <3>1
      <4>2. QED
        BY <1>2, <1>4, <3>1, <4>1
    <3>2. CASE j = n + 1
      <4>1. g2[j] = L + 1 /\ channel'[L + 1] = m /\ pending'[c][j] = m
        BY <1>2, <2>1, <2>2, <3>2
      <4>2. \A i \in DOMAIN handled[c] : f[i] \in 1..L
        BY <1>3
      <4>3. QED
        BY <4>1, <4>2
    <3>3. QED
      BY <2>0, <3>1, <3>2
  <2>6. ASSUME NEW r \in Reader, Owner(r) = c, held[r] # NoMessage
        PROVE  /\ h[r] \in 1..L + 1 /\ channel'[h[r]] = held[r]
               /\ \A i \in DOMAIN handled[c] : f[i] < h[r]
               /\ \A j \in 1..n + 1 : h[r] < g2[j]
    <3>1. /\ h[r] \in 1..L /\ channel[h[r]] = held[r]
          /\ \A i \in DOMAIN handled[c] : f[i] < h[r]
          /\ \A j \in 1..n : h[r] < g[j]
      BY <1>5, <2>6
    <3>2. \A j \in 1..n : h[r] < g2[j]
      BY <2>2, <3>1
    <3>3. h[r] < g2[n + 1]
      BY <2>2, <3>1
    <3>4. QED
      BY <1>2, <2>0, <3>1, <3>2, <3>3
  <2>7. Placed(c, f, g2, h)'
    <3>1. /\ f \in [DOMAIN handled'[c] -> DOMAIN channel'] /\ Increasing(f)
          /\ \A i \in DOMAIN handled'[c] : channel'[f[i]] = handled'[c][i].message
      BY <1>2, <1>3, <1>6
    <3>2. g2 \in [DOMAIN pending'[c] -> DOMAIN channel'] /\ Increasing(g2)
      <4>1. DOMAIN g2 = 1..n + 1
        BY <2>2
      <4>2. QED
        BY <1>2, <2>1, <2>2, <2>3, <4>1 DEF Increasing
    <3>3. /\ \A j \in DOMAIN pending'[c] : channel'[g2[j]] = pending'[c][j]
          /\ \A i \in DOMAIN handled'[c], j \in DOMAIN pending'[c] : f[i] < g2[j]
      BY <2>1, <2>4
    <3>4. \A r \in Reader : Owner(r) = c /\ held'[r] # NoMessage =>
            /\ h[r] \in DOMAIN channel' /\ channel'[h[r]] = held'[r]
            /\ \A i \in DOMAIN handled'[c] : f[i] < h[r]
            /\ \A j \in DOMAIN pending'[c] : h[r] < g2[j]
      BY <1>2, <2>1, <2>6
    <3>5. QED
      BY <1>5, <3>1, <3>2, <3>3, <3>4 DEF Placed, Increasing
  <2>8. QED
    BY <2>7
<1>9. QED
  BY <1>7, <1>8

(* A reader that is alone is the only one of its client with a message.     *)
LEMMA OthersIdle ==
  ASSUME TypeOK, RouteInv, NEW r \in Reader, Running(r), Alone(Owner(r)),
         NEW s \in Reader \ {r}, Owner(s) = Owner(r)
  PROVE  held[s] = NoMessage
BY DEF RouteInv, OneReader, Running, TypeOK, Handling, Outcome

(* A reader takes the first message of its client: the others move up.      *)
LEMMA PlacedListen ==
  ASSUME TypeOK, RouteInv, NEW r \in Reader, Listen(r), NEW c \in Client, c = Owner(r),
         Alone(c), NEW f, NEW g, NEW h, Placed(c, f, g, h)
  PROVE  \E g2, h2 : Placed(c, f, g2, h2)'
<1>0. PICK n \in Nat, L \in Nat :
        n = Len(pending[c]) /\ L = Len(channel)
        /\ DOMAIN pending[c] = 1..n /\ DOMAIN channel = 1..L
  BY ChannelPlaces
<1>1. /\ pending[c] \in Seq(Message) /\ pending[c] # <<>> /\ pending'[c] = Pop(pending[c])[2]
      /\ UNCHANGED <<channel, handled>>
  BY DEF Listen, TypeOK, history
<1>2. /\ n > 0 /\ DOMAIN pending'[c] = 1..n - 1 /\ Pop(pending[c])[1] = pending[c][1]
      /\ \A j \in 1..n - 1 : pending'[c][j] = pending[c][j + 1]
  <2>1. /\ Pop(pending[c])[1] = pending[c][1] /\ Len(pending[c]) > 0
        /\ DOMAIN Pop(pending[c])[2] = 1..Len(pending[c]) - 1
        /\ \A i \in 1..Len(pending[c]) - 1 : Pop(pending[c])[2][i] = pending[c][i + 1]
    BY <1>1, PopProperties
  <2>2. QED
    BY <1>0, <1>1, <2>1
<1>3. /\ f \in [DOMAIN handled[c] -> 1..L] /\ Increasing(f)
      /\ \A i \in DOMAIN handled[c] : channel[f[i]] = handled[c][i].message
  BY <1>0 DEF Placed
<1>4. /\ g \in [1..n -> 1..L] /\ \A i, j \in 1..n : i < j => g[i] < g[j]
      /\ \A j \in 1..n : channel[g[j]] = pending[c][j]
      /\ \A i \in DOMAIN handled[c], j \in 1..n : f[i] < g[j]
  BY <1>0 DEF Placed, Increasing
<1>5. /\ h \in [Reader -> Nat]
      /\ \A s \in Reader : Owner(s) = c /\ s # r => held[s] = NoMessage
      /\ held[r] = NoMessage
  <2>1. Running(r) /\ held[r] = NoMessage
    BY DEF Listen, At, Running, TypeOK, Handling, Outcome
  <2>2. h \in [Reader -> Nat]
    BY DEF Placed
  <2>3. QED
    BY <2>1, <2>2, OthersIdle
<1> DEFINE g2 == [j \in 1..n - 1 |-> g[j + 1]]
           h2 == [h EXCEPT ![r] = g[1]]
<1>6. /\ g2 \in [1..n - 1 -> 1..L] /\ \A j \in 1..n - 1 : g2[j] = g[j + 1] /\ j + 1 \in 1..n
  BY <1>4
<1>7. h2 \in [Reader -> Nat] /\ h2[r] = g[1] /\ g[1] \in 1..L /\ 1 \in 1..n
  BY <1>2, <1>4, <1>5
<1> HIDE DEF g2, h2
<1>8. \A i, j \in 1..n - 1 : i < j => g2[i] < g2[j]
  BY <1>4, <1>6
<1>9. \A j \in 1..n - 1 : /\ channel[g2[j]] = pending'[c][j]
                          /\ \A i \in DOMAIN handled[c] : f[i] < g2[j]
                          /\ g[1] < g2[j]
  BY <1>2, <1>4, <1>6, <1>7
<1>10. ASSUME NEW s \in Reader, Owner(s) = c, held'[s] # NoMessage
       PROVE  /\ h2[s] \in 1..L /\ channel[h2[s]] = held'[s]
              /\ \A i \in DOMAIN handled[c] : f[i] < h2[s]
              /\ \A j \in 1..n - 1 : h2[s] < g2[j]
  <2>1. \A u \in Reader : held'[u] = held[u] \/ (u = r /\ held'[u] = pending[c][1])
    <3>1. held' = held \/ held' = [held EXCEPT ![r] = pending[c][1]]
      BY <1>2 DEF Listen
    <3>2. held \in [Reader -> Message \cup {NoMessage}]
      BY DEF TypeOK
    <3>3. QED
      BY <3>1, <3>2
  <2>2. s = r /\ held'[s] = pending[c][1]
    BY <1>5, <1>10, <2>1
  <2>3. QED
    BY <1>4, <1>7, <1>9, <2>2
<1>11. Placed(c, f, g2, h2)'
  <2>1. /\ f \in [DOMAIN handled'[c] -> DOMAIN channel'] /\ Increasing(f)
        /\ \A i \in DOMAIN handled'[c] : channel'[f[i]] = handled'[c][i].message
    BY <1>0, <1>1, <1>3
  <2>2. g2 \in [DOMAIN pending'[c] -> DOMAIN channel'] /\ Increasing(g2)
    <3>1. DOMAIN g2 = 1..n - 1
      BY <1>6
    <3>2. QED
      BY <1>0, <1>1, <1>2, <1>6, <1>8, <3>1 DEF Increasing
  <2>3. /\ \A j \in DOMAIN pending'[c] : channel'[g2[j]] = pending'[c][j]
        /\ \A i \in DOMAIN handled'[c], j \in DOMAIN pending'[c] : f[i] < g2[j]
    BY <1>1, <1>2, <1>9
  <2>4. \A s \in Reader : Owner(s) = c /\ held'[s] # NoMessage =>
          /\ h2[s] \in DOMAIN channel' /\ channel'[h2[s]] = held'[s]
          /\ \A i \in DOMAIN handled'[c] : f[i] < h2[s]
          /\ \A j \in DOMAIN pending'[c] : h2[s] < g2[j]
    BY <1>0, <1>1, <1>2, <1>10
  <2>5. QED
    BY <1>7, <2>1, <2>2, <2>3, <2>4 DEF Placed, Increasing
<1>12. QED
  BY <1>11

(* The message of a reader becomes the last that its client handled.        *)
LEMMA PlacedHandle ==
  ASSUME TypeOK, RouteInv, NEW r \in Reader, Handle(r), NEW c \in Client, c = Owner(r),
         Alone(c), NEW f, NEW g, NEW h, Placed(c, f, g, h)
  PROVE  \E f2 : Placed(c, f2, g, h)'
<1>0. PICK n \in Nat, L \in Nat :
        n = Len(handled[c]) /\ L = Len(channel)
        /\ DOMAIN handled[c] = 1..n /\ DOMAIN channel = 1..L
  BY ChannelPlaces
<1>1. /\ UNCHANGED <<channel, pending>> /\ held[r] # NoMessage
      /\ DOMAIN handled'[c] = 1..n + 1
      /\ handled'[c][n + 1] = [message |-> held[r], how |-> pc[r], ids |-> Ids(r)]
      /\ \A j \in 1..n : handled'[c][j] = handled[c][j]
  BY <1>0, HandleAppends DEF Handle
<1>2. handled'[c][n + 1].message = held[r]
  BY <1>1
<1>3. /\ f \in [1..n -> 1..L] /\ \A i, j \in 1..n : i < j => f[i] < f[j]
      /\ \A i \in 1..n : channel[f[i]] = handled[c][i].message
  BY <1>0 DEF Placed, Increasing
<1>4. /\ g \in [DOMAIN pending[c] -> 1..L] /\ Increasing(g)
      /\ \A j \in DOMAIN pending[c] : channel[g[j]] = pending[c][j]
      /\ \A i \in 1..n, j \in DOMAIN pending[c] : f[i] < g[j]
  BY <1>0 DEF Placed
<1>5. /\ h \in [Reader -> Nat] /\ h[r] \in 1..L /\ channel[h[r]] = held[r]
      /\ \A i \in 1..n : f[i] < h[r]
      /\ \A j \in DOMAIN pending[c] : h[r] < g[j]
  BY <1>0, <1>1 DEF Placed
<1>6. \A s \in Reader : Owner(s) = c => held'[s] = NoMessage
  BY OthersIdle DEF Handle, TypeOK, Running
<1> DEFINE f2 == [i \in 1..n + 1 |-> IF i = n + 1 THEN h[r] ELSE f[i]]
<1>7. /\ f2 \in [1..n + 1 -> 1..L] /\ f2[n + 1] = h[r] /\ \A i \in 1..n : f2[i] = f[i]
      /\ \A i \in 1..n + 1 : i \in 1..n \/ i = n + 1
  BY <1>3, <1>5
<1> HIDE DEF f2
<1>8. \A i, j \in 1..n + 1 : i < j => f2[i] < f2[j]
  <2>1. ASSUME NEW i \in 1..n + 1, NEW j \in 1..n + 1, i < j
        PROVE  f2[i] < f2[j]
    <3>1. i \in 1..n
      BY <1>7, <2>1
    <3>2. CASE j \in 1..n
      BY <1>3, <1>7, <2>1, <3>1, <3>2
    <3>3. CASE j = n + 1
      BY <1>5, <1>7, <3>1, <3>3
    <3>4. QED
      BY <1>7, <3>2, <3>3
  <2>2. QED
    BY <2>1
<1>9. ASSUME NEW i \in 1..n + 1
      PROVE  /\ channel[f2[i]] = handled'[c][i].message
             /\ \A j \in DOMAIN pending[c] : f2[i] < g[j]
  <2>1. CASE i \in 1..n
    BY <1>1, <1>3, <1>4, <1>7, <2>1
  <2>2. CASE i = n + 1
    BY <1>2, <1>5, <1>7, <2>2
  <2>3. QED
    BY <1>7, <2>1, <2>2
<1>10. Placed(c, f2, g, h)'
  <2>1. f2 \in [DOMAIN handled'[c] -> DOMAIN channel'] /\ Increasing(f2)
    <3>1. DOMAIN f2 = 1..n + 1
      BY <1>7
    <3>2. QED
      BY <1>0, <1>1, <1>7, <1>8, <3>1 DEF Increasing
  <2>2. /\ g \in [DOMAIN pending'[c] -> DOMAIN channel'] /\ Increasing(g)
        /\ \A j \in DOMAIN pending'[c] : channel'[g[j]] = pending'[c][j]
    BY <1>0, <1>1, <1>4
  <2>3. /\ \A i \in DOMAIN handled'[c] : channel'[f2[i]] = handled'[c][i].message
        /\ \A i \in DOMAIN handled'[c], j \in DOMAIN pending'[c] : f2[i] < g[j]
    BY <1>1, <1>9
  <2>4. QED
    BY <1>5, <1>6, <2>1, <2>2, <2>3 DEF Placed, Increasing
<1>11. QED
  BY <1>10

LEMMA PlacedDisconnect ==
  ASSUME TypeOK, NEW c \in Client, Disconnect(c), NEW f, NEW g, NEW h, Placed(c, f, g, h)
  PROVE  Placed(c, f, <<>>, h)'
<1>1. pending'[c] = <<>> /\ UNCHANGED <<held, channel, handled>>
  BY DEF Disconnect, TypeOK, readerVars
<1>2. QED
  BY <1>1 DEF Placed, Increasing

LEMMA PlacesStep == TypeOK /\ RouteInv /\ PlacesInv /\ [Next]_vars => PlacesInv'
<1> SUFFICES ASSUME TypeOK, RouteInv, PlacesInv, [Next]_vars
             PROVE  PlacesInv'
  OBVIOUS
<1>1. ASSUME UNCHANGED <<held, channel, handled, pending>>, overlapped \subseteq overlapped'
      PROVE  PlacesInv'
  BY <1>1, PlacedSame DEF PlacesInv, Alone
<1>2. ASSUME NEW r \in Reader, Listen(r) \/ Handle(r)
      PROVE  PlacesInv'
  <2>1. ASSUME NEW c \in Client, Alone(c)'
        PROVE  (\E f, g, h : Placed(c, f, g, h))'
    <3>1. Alone(c) /\ UNCHANGED channel
      BY <1>2, <2>1 DEF Listen, Handle, history, Alone
    <3>2. PICK f, g, h : Placed(c, f, g, h)
      BY <3>1 DEF PlacesInv
    <3>3. CASE c = Owner(r)
      BY <1>2, <3>1, <3>2, <3>3, PlacedListen, PlacedHandle
    <3>4. CASE c # Owner(r)
      <4>1. handled'[c] = handled[c] /\ pending'[c] = pending[c]
        BY <1>2, <3>4 DEF Listen, Handle, TypeOK, history
      <4>2. \A s \in Reader : Owner(s) = c => held'[s] = held[s]
        BY <1>2, <3>4 DEF Listen, Handle, TypeOK
      <4>3. QED
        BY <3>1, <3>2, <4>1, <4>2, PlacedSame
    <3>5. QED
      BY <3>3, <3>4
  <2>2. QED
    BY <2>1 DEF PlacesInv
<1>3. ASSUME NEW d \in Client, Disconnect(d)
      PROVE  PlacesInv'
  <2>1. ASSUME NEW c \in Client, Alone(c)'
        PROVE  (\E f, g, h : Placed(c, f, g, h))'
    <3>1. Alone(c) /\ UNCHANGED <<channel, handled, held>>
      BY <1>3, <2>1 DEF Disconnect, readerVars, Alone
    <3>2. PICK f, g, h : Placed(c, f, g, h)
      BY <3>1 DEF PlacesInv
    <3>3. CASE c = d
      BY <1>3, <3>2, <3>3, PlacedDisconnect
    <3>4. CASE c # d
      <4>1. pending'[c] = pending[c]
        BY <1>3, <3>4 DEF Disconnect, TypeOK
      <4>2. QED
        BY <3>1, <3>2, <4>1, PlacedSame
    <3>5. QED
      BY <3>3, <3>4
  <2>2. QED
    BY <2>1 DEF PlacesInv
<1>4. ASSUME NEW m \in Message, Publish(m) \/ PublishRaises(m)
      PROVE  PlacesInv'
  <2>1. UNCHANGED <<held, handled, overlapped>>
    BY <1>4 DEF Publish, PublishRaises, readerVars
  <2>2. CASE Deliver(m)
    BY <2>1, <2>2, PlacedDeliver DEF PlacesInv, Alone
  <2>3. CASE UNCHANGED <<channel, pending, missed>>
    BY <1>1, <2>1, <2>3
  <2>4. QED
    BY <1>4, <2>2, <2>3 DEF Publish, PublishRaises
<1>5. ASSUME NEW r \in Reader,
             \/ StartClient(r) \/ ReaderTest(r) \/ ListenNothing(r)
             \/ WriteReceiverId(r) \/ WriteSenderId(r) \/ TestBroadcast(r)
             \/ TestSender(r) \/ TestReceiver(r)
      PROVE  PlacesInv'
  BY <1>1, <1>5 DEF StartClient, ReaderTest, ListenNothing, WriteReceiverId, WriteSenderId,
                    TestBroadcast, TestSender, TestReceiver, Elsewhere, history
<1>6. CASE UNCHANGED vars \/ \E c \in Client : StopClient(c)
  BY <1>1, <1>6 DEF StopClient, vars, readerVars, history
<1>7. QED
  BY <1>2, <1>3, <1>4, <1>5, <1>6 DEF Next, ReaderStep

(* A client with a single reader handles messages in the order of the       *)
(* channel, and none of them twice.                                         *)
THEOREM HandledOnceInOrder == Spec => []HandledInOrder
<1>1. PlacesInv => HandledInOrder
  <2> SUFFICES ASSUME PlacesInv, NEW c \in Client, Alone(c)
               PROVE  \E places \in [DOMAIN handled[c] -> DOMAIN channel] :
                        /\ \A i \in DOMAIN handled[c] :
                             channel[places[i]] = handled[c][i].message
                        /\ \A i, j \in DOMAIN handled[c] : i < j => places[i] < places[j]
    BY DEF HandledInOrder, Alone
  <2>1. PICK f, g, h : Placed(c, f, g, h)
    BY DEF PlacesInv
  <2>2. QED
    BY <2>1 DEF Placed, Increasing
<1>2. QED
  BY <1>1, RouteInit, RouteStep, PlacesInit, PlacesStep, TypeCorrect, PTL DEF Spec
=============================================================================
