---------------------------- MODULE PjonMailbox -----------------------------
(***************************************************************************)
(* What an application may expect of dispatch() and of the thread behind   *)
(* it: a bounded mailbox that keeps accepted packets in order and removes  *)
(* a packet only with a verdict on it.                                     *)
(***************************************************************************)
EXTENDS Naturals, Sequences, SequencesExt

CONSTANTS
  Packet,      (* the packets that may be accepted           *)
  Repeated,    (* those that are sent again after a verdict  *)
  Capacity     (* the packets that the mailbox holds at most *)

VARIABLES
  waiting,     (* the accepted packets without a final verdict, oldest first *)
  fate         (* what became of each packet                                 *)

mailbox == <<waiting, fate>>

Verdict == {"acknowledged", "lost", "acquired"}

MailboxInit ==
  /\ waiting = <<>>
  /\ fate = [p \in Packet |-> "new"]

Accept(p) ==
  /\ fate[p] = "new"
  /\ Len(waiting) < Capacity
  /\ waiting' = Append(waiting, p)
  /\ fate' = [fate EXCEPT ![p] = "waiting"]

Settle(p) ==
  /\ p \notin Repeated
  /\ \E i \in DOMAIN waiting :
       /\ waiting[i] = p
       /\ waiting' = RemoveAt(waiting, i)
  /\ \E v \in Verdict : fate' = [fate EXCEPT ![p] = v]

MailboxNext == \E p \in Packet : Accept(p) \/ Settle(p)

MailboxSpec == MailboxInit /\ [][MailboxNext]_mailbox

(* A packet that waits is settled in the end.                               *)
MailboxFairSpec ==
  MailboxSpec /\ \A p \in Packet \ Repeated : WF_mailbox(Settle(p))
=============================================================================
