----------------------------- MODULE OverRedis ------------------------------
(***************************************************************************)
(* The bus of over_redis_mock_client.py: clients publish whole packets on  *)
(* one Redis channel with RedisConn.publish(); the reader thread of each   *)
(* client takes them from its subscription and calls the receiver or the   *)
(* forward function.                                                       *)
(*                                                                         *)
(* The ids of a packet are written to the class PacketInfo, one attribute  *)
(* after the other, and read back from there: all reader threads of a      *)
(* process share them.                                                     *)
(***************************************************************************)
EXTENDS Integers, Sequences, FiniteSets, SequencesExt

CONSTANTS
  Client,
  Process,          (* the process that each client runs in                 *)
  BusAddr,          (* _bus_addr of each client                             *)
  Message,          (* what the applications send                           *)
  Fields,           (* originator, receiver_id and sender_id of each        *)
  NoMessage,
  MaxStarts,        (* bound: threads that start_client() may create, for each *)
  MaxAttempts,      (* stop_max_attempt_number                              *)
  MaxErrors         (* bound: connections lost and publications that raise  *)

(* The n-th reader thread of a client.                                      *)
Reader == UNION {{c} \X (1..MaxStarts[c]) : c \in Client}

Owner(r) == r[1]

EveryProcess == {Process[c] : c \in Client}

ASSUME ClientAssumption ==
  /\ NoMessage \notin Message
  /\ MaxStarts \in [Client -> Nat]
  /\ BusAddr \in [Client -> 1..254]
  /\ Fields \in [Message -> [originator : Client, receiver_id : 0..254,
                             sender_id : 0..254]]
  /\ MaxAttempts \in Nat \ {0} /\ MaxErrors \in Nat

VARIABLES
  started,      (* _started of each client                                   *)
  pc,           (* where each reader is in update_redis_input()              *)
  held,         (* the message it is handling                                *)
  info,         (* receiver_id and sender_id of the class PacketInfo, per process *)
  connected,    (* is the subscription of the client connected               *)
  pending,      (* messages of its subscription that nobody read             *)
  attempts,     (* failed attempts of publish() for each message             *)
  sending,      (* has its send() still to return                            *)
  errors,       (* errors so far                                             *)
  channel,      (* history: the messages as they were published, in order    *)
  handled,      (* history: what each client did with the messages it read   *)
  missed,       (* history: messages published or unread while disconnected  *)
  overlapped    (* history: processes where two readers ran at the same time *)

readerVars == <<pc, held>>
sendVars   == <<attempts, sending>>
history    == <<channel, handled, missed, overlapped>>
vars == <<started, readerVars, info, connected, pending, sendVars, errors, history>>

Init ==
  /\ started = [c \in Client |-> FALSE]
  /\ pc = [r \in Reader |-> "new"]
  /\ held = [r \in Reader |-> NoMessage]
  /\ info = [p \in EveryProcess |-> [receiver_id |-> 0, sender_id |-> 0]]
  /\ connected = [c \in Client |-> TRUE]
  /\ pending = [c \in Client |-> <<>>]
  /\ attempts = [m \in Message |-> 0]
  /\ sending = [m \in Message |-> "open"]
  /\ errors = 0
  /\ channel = <<>>
  /\ handled = [c \in Client |-> <<>>]
  /\ missed = [c \in Client |-> {}]
  /\ overlapped = {}

-----------------------------------------------------------------------------
(* start_client() and stop_client().  A stopped reader ends when it next    *)
(* looks at _started; a client may be started again before that.            *)

Running(r) == pc[r] \notin {"new", "off"}

StartClient(r) ==
  LET c == Owner(r) IN
  /\ ~started[c]
  /\ pc[r] = "new"
  /\ started' = [started EXCEPT ![c] = TRUE]
  /\ pc' = [pc EXCEPT ![r] = "test"]
  /\ overlapped' =
       IF \E s \in Reader : Running(s) /\ Process[Owner(s)] = Process[c]
       THEN overlapped \cup {Process[c]} ELSE overlapped
  /\ UNCHANGED <<held, info, connected, pending, sendVars, errors, channel,
                 handled, missed>>

StopClient(c) ==
  /\ started[c]
  /\ started' = [started EXCEPT ![c] = FALSE]
  /\ UNCHANGED <<readerVars, info, connected, pending, sendVars, errors, history>>

-----------------------------------------------------------------------------
(* send() and publish(): up to MaxAttempts attempts, whatever the error.    *)

(* (DeliverToBroken, ReaderTestOnce, PopLast, ListenLoses,                  *)
(* WriteSenderIdNever and HandleEnds are mistakes that PROJECT.json puts in *)
(* place of the definition after them: the properties must notice.)         *)
DeliverToBroken(m) ==
  /\ channel' = Append(channel, m)
  /\ pending' = [c \in Client |-> Append(pending[c], m)]
  /\ UNCHANGED missed

(* The channel gives the message to every connected subscription, the one   *)
(* of its sender too.                                                       *)
Deliver(m) ==
  /\ channel' = Append(channel, m)
  /\ pending' = [c \in Client |-> IF connected[c] THEN Append(pending[c], m)
                                  ELSE pending[c]]
  /\ missed' = [c \in Client |-> IF connected[c] THEN missed[c]
                                 ELSE missed[c] \cup {m}]

Publish(m) ==
  /\ sending[m] = "open"
  /\ Deliver(m)
  /\ sending' = [sending EXCEPT ![m] = "sent"]
  /\ UNCHANGED <<started, readerVars, info, connected, attempts, errors, handled,
                 overlapped>>

(* After the last attempt send() logs the ConnectionError and returns.      *)
Retry(m) == IF attempts[m] + 1 < MaxAttempts THEN "open" ELSE "dropped"

(* The attempt raises: before the message reached the server, or after.     *)
PublishRaises(m) ==
  /\ sending[m] = "open"
  /\ errors < MaxErrors
  /\ errors' = errors + 1
  /\ attempts' = [attempts EXCEPT ![m] = @ + 1]
  /\ sending' = [sending EXCEPT ![m] = Retry(m)]
  /\ Deliver(m) \/ UNCHANGED <<channel, pending, missed>>
  /\ UNCHANGED <<started, readerVars, info, connected, handled, overlapped>>

-----------------------------------------------------------------------------
(* update_redis_input(), one step per access to shared state.               *)

Goto(r, place) == pc' = [pc EXCEPT ![r] = place]

At(r, place) == pc[r] = place

Elsewhere == <<started, held, info, connected, pending, sendVars, errors,
               history>>

(* Mutant: only a first reader looks at _started.                           *)
ReaderTestOnce(r) == At(r, "test") /\ Goto(r, "listen") /\ UNCHANGED Elsewhere

ReaderTest(r) ==
  /\ At(r, "test")
  /\ Goto(r, IF started[Owner(r)] THEN "listen" ELSE "off")
  /\ UNCHANGED Elsewhere

(* Mutant: the newest message first.                                        *)
PopLast(s) == <<Last(s), Front(s)>>

(* The message that listen() returns, and the others.                       *)
Pop(s) == <<Head(s), Tail(s)>>

(* Mutant: after its own message the reader throws away the next one.       *)
ListenLoses(r) ==
  LET c == Owner(r) IN
  /\ At(r, "listen")
  /\ connected[c] /\ pending[c] # <<>>
  /\ LET m == Pop(pending[c])[1] IN
     IF Fields[m].originator = c
     THEN Goto(r, "test") /\ UNCHANGED held
          /\ pending' = [pending EXCEPT ![c] = IF Len(@) > 1 THEN Tail(Tail(@)) ELSE <<>>]
     ELSE Goto(r, "receiver_id") /\ held' = [held EXCEPT ![r] = m]
          /\ pending' = [pending EXCEPT ![c] = Pop(@)[2]]
  /\ UNCHANGED <<started, info, connected, sendVars, errors, history>>

(* A message of this client is read and forgotten.                          *)
Listen(r) ==
  LET c == Owner(r) IN
  /\ At(r, "listen")
  /\ connected[c] /\ pending[c] # <<>>
  /\ LET m == Pop(pending[c])[1] IN
     IF Fields[m].originator = c
     THEN Goto(r, "test") /\ UNCHANGED held
     ELSE Goto(r, "receiver_id") /\ held' = [held EXCEPT ![r] = m]
  /\ pending' = [pending EXCEPT ![c] = Pop(@)[2]]
  /\ UNCHANGED <<started, info, connected, sendVars, errors, history>>

(* Nothing came, or the connection failed and is made again.                *)
ListenNothing(r) ==
  LET c == Owner(r) IN
  /\ At(r, "listen")
  /\ connected[c] => pending[c] = <<>>
  /\ connected' = [connected EXCEPT ![c] = TRUE]
  /\ Goto(r, "test")
  /\ UNCHANGED <<started, held, info, pending, sendVars, errors, history>>

(* get_packet_info_obj_for_packet_message()                                 *)
WriteReceiverId(r) ==
  /\ At(r, "receiver_id")
  /\ info' = [info EXCEPT ![Process[Owner(r)]].receiver_id = Fields[held[r]].receiver_id]
  /\ Goto(r, "sender_id")
  /\ UNCHANGED <<started, held, connected, pending, sendVars, errors, history>>

(* Mutant: the sender is left as it was.                                    *)
WriteSenderIdNever(r) ==
  At(r, "sender_id") /\ Goto(r, "broadcast?") /\ UNCHANGED Elsewhere

WriteSenderId(r) ==
  /\ At(r, "sender_id")
  /\ info' = [info EXCEPT ![Process[Owner(r)]].sender_id = Fields[held[r]].sender_id]
  /\ Goto(r, "broadcast?")
  /\ UNCHANGED <<started, held, connected, pending, sendVars, errors, history>>

(* The three tests, each of which reads the attributes again.               *)
Ids(r) == info[Process[Owner(r)]]

TestBroadcast(r) ==
  /\ At(r, "broadcast?")
  /\ Goto(r, IF Ids(r).receiver_id = 0 THEN "receive" ELSE "own sender?")
  /\ UNCHANGED Elsewhere

TestSender(r) ==
  /\ At(r, "own sender?")
  /\ Goto(r, IF Ids(r).sender_id = BusAddr[Owner(r)] THEN "forward" ELSE "own receiver?")
  /\ UNCHANGED Elsewhere

TestReceiver(r) ==
  /\ At(r, "own receiver?")
  /\ Goto(r, IF Ids(r).receiver_id = BusAddr[Owner(r)] THEN "receive" ELSE "ignore")
  /\ UNCHANGED Elsewhere

(* Mutant: the thread ends after its first packet.                          *)
HandleEnds(r) ==
  /\ pc[r] \in {"receive", "forward", "ignore"}
  /\ held' = [held EXCEPT ![r] = NoMessage]
  /\ Goto(r, "off")
  /\ handled' = [handled EXCEPT ![Owner(r)] =
       Append(@, [message |-> held[r], how |-> pc[r], ids |-> Ids(r)])]
  /\ UNCHANGED <<started, info, connected, pending, sendVars, errors, channel,
                 missed, overlapped>>

(* The receiver or the forward function is called with the packet and the   *)
(* ids as they now are, or the packet is for someone else.                  *)
Handle(r) ==
  /\ pc[r] \in {"receive", "forward", "ignore"}
  /\ handled' = [handled EXCEPT ![Owner(r)] =
       Append(@, [message |-> held[r], how |-> pc[r], ids |-> Ids(r)])]
  /\ held' = [held EXCEPT ![r] = NoMessage]
  /\ Goto(r, "test")
  /\ UNCHANGED <<started, info, connected, pending, sendVars, errors, channel,
                 missed, overlapped>>

(* The connection of a subscription breaks: what it did not read is gone.   *)
Disconnect(c) ==
  /\ connected[c] /\ errors < MaxErrors
  /\ connected' = [connected EXCEPT ![c] = FALSE]
  /\ missed' = [missed EXCEPT ![c] = @ \cup ToSet(pending[c])]
  /\ pending' = [pending EXCEPT ![c] = <<>>]
  /\ errors' = errors + 1
  /\ UNCHANGED <<started, readerVars, info, sendVars, channel, handled, overlapped>>

ReaderStep(r) ==
  \/ ReaderTest(r) \/ Listen(r) \/ ListenNothing(r)
  \/ WriteReceiverId(r) \/ WriteSenderId(r)
  \/ TestBroadcast(r) \/ TestSender(r) \/ TestReceiver(r) \/ Handle(r)

Next ==
  \/ \E c \in Client : StopClient(c) \/ Disconnect(c)
  \/ \E m \in Message : Publish(m) \/ PublishRaises(m)
  \/ \E r \in Reader : StartClient(r) \/ ReaderStep(r)

Spec == Init /\ [][Next]_vars

(* The reader threads are scheduled.                                        *)
FairSpec == Spec /\ \A r \in Reader : WF_vars(ReaderStep(r))

-----------------------------------------------------------------------------
Outcome  == {"receive", "forward", "ignore"}
Handling == {"receiver_id", "sender_id", "broadcast?", "own sender?",
             "own receiver?"} \cup Outcome
Ids254   == [receiver_id : 0..254, sender_id : 0..254]

(* Every variable has its type; a reader holds a message exactly while it   *)
(* handles it, publish() is given up after MaxAttempts failures, and a      *)
(* broken subscription holds nothing.                                       *)
TypeOK ==
  /\ started \in [Client -> BOOLEAN]
  /\ pc \in [Reader -> {"new", "off", "test", "listen"} \cup Handling]
  /\ held \in [Reader -> Message \cup {NoMessage}]
  /\ \A r \in Reader : pc[r] \in Handling <=> held[r] # NoMessage
  /\ info \in [EveryProcess -> Ids254]
  /\ connected \in [Client -> BOOLEAN]
  /\ pending \in [Client -> Seq(Message)]
  /\ \A c \in Client : ~connected[c] => pending[c] = <<>>
  /\ attempts \in [Message -> 0..MaxAttempts]
  /\ sending \in [Message -> {"open", "sent", "dropped"}]
  /\ \A m \in Message : sending[m] = "open" => attempts[m] < MaxAttempts
  /\ channel \in Seq(Message)
  /\ handled \in [Client -> Seq([message : Message, how : Outcome, ids : Ids254])]
  /\ missed \in [Client -> SUBSET Message]

(* What a client should do with a message, by the message's own ids.        *)
Right(c, m) ==
  CASE Fields[m].receiver_id = 0 -> "receive"
    [] Fields[m].receiver_id # 0 /\ Fields[m].sender_id = BusAddr[c] -> "forward"
    [] Fields[m].receiver_id = BusAddr[c] /\ Fields[m].sender_id # BusAddr[c] -> "receive"
    [] Fields[m].receiver_id \notin {0, BusAddr[c]} /\ Fields[m].sender_id # BusAddr[c] -> "ignore"

RightlyHandled(c, h) ==
  /\ Fields[h.message].originator # c
  /\ h.how = Right(c, h.message)
  /\ h.how # "ignore" =>
       /\ h.ids.receiver_id = Fields[h.message].receiver_id
       /\ h.ids.sender_id = Fields[h.message].sender_id

(* The receiver function is called for the messages to this client or to    *)
(* all, the forward function for those that others send in its name, with   *)
(* the ids of the message; nothing else is called.                          *)
RoutedByItsIds ==
  \A c \in Client : \A i \in DOMAIN handled[c] : RightlyHandled(c, handled[c][i])

(* It is so as long as the process never had two readers at the same time,  *)
(* whatever was stopped, started again, lost or repeated.                   *)
RoutedWhenAlone ==
  \A c \in Client : Process[c] \notin overlapped =>
    \A i \in DOMAIN handled[c] : RightlyHandled(c, handled[c][i])

(* A client with a single reader handles messages in the order of the       *)
(* channel, each no more often than it was published.                       *)
HandledInOrder ==
  \A c \in Client : Process[c] \notin overlapped =>
    \E places \in [DOMAIN handled[c] -> DOMAIN channel] :
      /\ \A i \in DOMAIN handled[c] : channel[places[i]] = handled[c][i].message
      /\ \A i, j \in DOMAIN handled[c] : i < j => places[i] < places[j]

(* A message of another client that reached the channel is waiting for this *)
(* one, in the hands of one of its readers, handled, or was missed while it *)
(* was disconnected.                                                        *)
NothingLost ==
  \A c \in Client : \A i \in DOMAIN channel :
    Fields[channel[i]].originator # c =>
      \/ \E j \in DOMAIN pending[c] : pending[c][j] = channel[i]
      \/ \E r \in Reader : Owner(r) = c /\ held[r] = channel[i]
      \/ \E j \in DOMAIN handled[c] : handled[c][j].message = channel[i]
      \/ channel[i] \in missed[c]

(* A client that stays started reads everything that comes.                 *)
Drained ==
  \A c \in Client : <>[]started[c] => []<>(pending[c] = <<>>)

(* A client that stays stopped has no reader left in the end.               *)
StopsInTheEnd ==
  \A c \in Client : <>[]~started[c] => <>[](\A r \in Reader : Owner(r) = c => ~Running(r))
=============================================================================
