---------------------------- MODULE MCOverRedis -----------------------------
(* Instances of OverRedis for TLC.                                          *)
EXTENDS OverRedis, TLC

CONSTANTS c1, c2, m1, m2, m3

Addresses == c1 :> 11 @@ c2 :> 22

Separate == c1 :> "first" @@ c2 :> "second"
Shared   == c1 :> "one" @@ c2 :> "one"

(* m1 to its receiver, m2 from the second client's name to a third address: *)
(* the second client hands it to its forward function; m3 of the second     *)
(* client to all.                                                           *)
Mixed ==
  m1 :> [originator |-> c1, receiver_id |-> 22, sender_id |-> 11] @@
  m2 :> [originator |-> c1, receiver_id |-> 33, sender_id |-> 22] @@
  m3 :> [originator |-> c2, receiver_id |-> 0, sender_id |-> 22]

(* The first client only sends, the second may be started twice.            *)
SecondListens == c1 :> 0 @@ c2 :> 2

BothListen == c1 :> 1 @@ c2 :> 1

(* One from each client to the other.                                       *)
Crossing ==
  m1 :> [originator |-> c1, receiver_id |-> 22, sender_id |-> 11] @@
  m2 :> [originator |-> c2, receiver_id |-> 11, sender_id |-> 22]
=============================================================================
