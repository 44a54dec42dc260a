--------------------------- MODULE PiperSupervisor ---------------------------
(***************************************************************************)
(* What an application may expect of the watchdog of the PJON-piper        *)
(* client: one process at a time, launched again when it exits, until the  *)
(* client is halted; then the process ends and none is launched any more.  *)
(***************************************************************************)
EXTENDS Naturals

VARIABLES
  process,     (* the piper process                *)
  halted,      (* nothing is launched any more     *)
  launches     (* how many processes were launched *)

supervisor == <<process, halted, launches>>

SupervisorInit ==
  /\ process = "none"
  /\ halted = FALSE
  /\ launches = 0

(* A halt that comes while a process is being launched does not prevent it. *)
LaunchFrom(old) ==
  /\ process = old
  /\ ~halted
  /\ process' = "running"
  /\ launches' = launches + 1
  /\ halted' \in BOOLEAN

Launch   == LaunchFrom("none")
Relaunch == LaunchFrom("exited")

Exit ==
  /\ process = "running"
  /\ process' = "exited"
  /\ UNCHANGED <<halted, launches>>

Halt ==
  /\ ~halted
  /\ halted' = TRUE
  /\ UNCHANGED <<process, launches>>

SupervisorNext == Launch \/ Relaunch \/ Exit \/ Halt

SupervisorSpec == SupervisorInit /\ [][SupervisorNext]_supervisor

(* A process that exited is launched again, and one that runs when the     *)
(* client is halted exits.  The two are never enabled together.             *)
SupervisorFairSpec ==
  /\ SupervisorSpec
  /\ WF_supervisor(Relaunch \/ (Exit /\ halted))
=============================================================================
