----------------------------- MODULE PiperClient -----------------------------
(***************************************************************************)
(* PjonPiperClient of wrapper_client.py: a WatchDog that launches the      *)
(* PJON-piper process and launches it again when it exits, two threads     *)
(* between its pipes and two queues, a thread that hands its lines to the  *)
(* application, and the application's own thread.                          *)
(*                                                                         *)
(* One step is one access to state that threads share.  What the code      *)
(* does is taken as Python 2 does it, the only version whose platform      *)
(* names and pipes this code fits.  Callbacks do not raise.  The client is *)
(* started once, and its stdout watchdog is switched on once, at any time. *)
(***************************************************************************)
EXTENDS Integers, Sequences, FiniteSets, SequencesExt

CONSTANTS
  MaxLaunches,       (* bound: processes; the last one stays well, and the  *)
                     (* one before if commands are sent and Apart           *)
  MaxCommands,       (* bound: calls of send()                              *)
  MaxLines,          (* bound: lines printed                                *)
  Apart              (* bound: are commands only sent with the stdout       *)
                     (* watchdog off, and lines only printed with it on     *)

ASSUME PiperAssumption ==
  /\ MaxLaunches \in Nat \ {0}
  /\ MaxCommands \in Nat /\ MaxLines \in Nat /\ Apart \in BOOLEAN

(* Processes are numbered as they are launched; 0 is None.                  *)
Process == 1..MaxLaunches

Thread == {"main", "poll", "stdin", "stdout", "processor"}

MainPlace  == {"new", "check", "look", "returned", "raised", "attribute error",
               "stop", "join", "ended"}
PollPlace  == {"new", "top", "look", "terminate", "forget", "fail", "launch",
               "watch", "ended"}
StdinPlace == {"new", "begin", "attach", "get", "write", "close", "closing", "ended"}
StdoutPlace    == {"new", "begin", "attach", "read", "ended"}
ProcessorPlace == {"new", "top", "stop", "ended"}
Place == MainPlace \cup PollPlace \cup StdinPlace \cup StdoutPlace \cup ProcessorPlace

VARIABLES
  pc,                (* where each thread is                                *)
  pipe,              (* _pipe                                               *)
  stopped,           (* _stopped of the WatchDog                            *)
  start_failed,      (* _start_failed                                       *)
  processor_stopped, (* _stopped of the processor                           *)
  launched,          (* processes launched so far                           *)
  alive,             (* those that run                                      *)
  condemned,         (* those of them that terminate() was called for       *)
  closed,            (* those whose stdin the stdin thread closed           *)
  young,             (* is _birthtime less than START_SECONDS_DEFAULT ago   *)
  attaching,         (* did the two pipe threads start less than that ago   *)
  watchdog,          (* is_piper_stdout_watchdog_enabled                    *)
  expired,           (* was _piper_stdout_last_received_ts more than the    *)
                     (* timeout ago                                         *)
  watched,           (* history: was it on when the process was launched    *)
                     (* again ...                                           *)
  silent,            (* ... and if so, was no packet handled for the        *)
                     (* timeout since then                                  *)
  stdin_queue, held, (* commands; the one the stdin thread took             *)
  unread,            (* those in the pipe to the stdin of each process      *)
  sent, delivered,   (* history: how many were sent; those a process read   *)
  lost,              (* history: commands whose write failed                *)
  output, reading,   (* how many lines of each process nobody read; the     *)
                     (* process that the stdout thread reads from           *)
  stdout_queue,      (* how many lines the processor has to handle          *)
  printed            (* how many were printed                               *)

flags    == <<stopped, start_failed, processor_stopped>>
procVars == <<launched, alive, condemned>>
watchVars == <<watchdog, expired, watched, silent>>
timeVars == <<young, attaching, watchVars>>
inVars   == <<stdin_queue, held, unread, sent, delivered, lost, closed>>
outVars  == <<output, reading, stdout_queue, printed>>
vars == <<pc, pipe, flags, procVars, timeVars, inVars, outVars>>

Init ==
  /\ pc = [t \in Thread |-> "new"]
  /\ pipe = 0
  /\ stopped = FALSE /\ start_failed = FALSE /\ processor_stopped = FALSE
  /\ launched = 0 /\ alive = {} /\ condemned = {} /\ closed = {}
  /\ young = FALSE /\ attaching = FALSE
  /\ watchdog = FALSE /\ expired = TRUE /\ watched = FALSE /\ silent = FALSE
  /\ stdin_queue = <<>> /\ held = 0 /\ unread = [p \in Process |-> <<>>]
  /\ sent = 0 /\ delivered = <<>> /\ lost = {}
  /\ output = [p \in Process |-> 0] /\ reading = 0
  /\ stdout_queue = 0 /\ printed = 0

At(t, place) == pc[t] = place

Goto(t, place) == pc' = [pc EXCEPT ![t] = place]

-----------------------------------------------------------------------------
(* start_client() and stop_client() in the application's thread             *)

(* A process is launched and becomes _pipe.                                 *)
Popen ==
  /\ launched < MaxLaunches
  /\ launched' = launched + 1
  /\ alive' = alive \cup {launched + 1}
  /\ pipe' = launched + 1
  /\ UNCHANGED condemned

(* WatchDog.start(): no other thread runs before the process is launched.   *)
(* The processor is started next, which is the same as that its first step  *)
(* comes late.                                                              *)
StartClient ==
  /\ At("main", "new")
  /\ Popen
  /\ young' = TRUE /\ attaching' = TRUE
  /\ pc' = [pc EXCEPT !["main"] = "check", !["poll"] = "top", !["stdin"] = "begin",
                      !["stdout"] = "begin", !["processor"] = "top"]
  /\ UNCHANGED <<flags, watchVars, inVars, outVars>>

(* The loop of start_client() does nothing once the two seconds are over.   *)
StartCheck ==
  /\ At("main", "check")
  /\ young
  /\ Goto("main", IF start_failed THEN "raised" ELSE "look")
  /\ UNCHANGED <<pipe, flags, procVars, timeVars, inVars, outVars>>

(* _pipe.poll()                                                             *)
StartLook ==
  /\ At("main", "look")
  /\ Goto("main", IF pipe = 0 THEN "attribute error"
                  ELSE IF pipe \in alive THEN "returned" ELSE "check")
  /\ UNCHANGED <<pipe, flags, procVars, timeVars, inVars, outVars>>

StopClient ==
  /\ pc["main"] \in {"returned", "raised", "attribute error"}
  /\ stopped' = TRUE
  /\ Goto("main", "stop")
  /\ UNCHANGED <<pipe, start_failed, processor_stopped, procVars, timeVars,
                 inVars, outVars>>

(* stop() waited for _pipe to become None, for two seconds at most.         *)
StopProcessor ==
  /\ At("main", "stop")
  /\ processor_stopped' = TRUE
  /\ Goto("main", "join")
  /\ UNCHANGED <<pipe, stopped, start_failed, procVars, timeVars, inVars,
                 outVars>>

(* Mutant: a thread that joins itself waits.                                *)
JoinReturnsOnceEnded(t) == pc["processor"] \in {"new", "ended"}

(* join() of the processor: the RuntimeError of a thread that joins itself, *)
(* or that was never started, is caught.  The thread object of the WatchDog *)
(* is never started, so its join() always raises.                           *)
JoinReturns(t) == t = "processor" \/ pc["processor"] \in {"new", "ended"}

StopReturn ==
  /\ At("main", "join")
  /\ JoinReturns("main")
  /\ Goto("main", "ended")
  /\ UNCHANGED <<pipe, flags, procVars, timeVars, inVars, outVars>>

MainStep == StartCheck \/ StartLook \/ StopProcessor \/ StopReturn

-----------------------------------------------------------------------------
(* poll_on_subproc()                                                        *)

PollTop ==
  /\ At("poll", "top")
  /\ Goto("poll", IF stopped THEN "terminate" ELSE "look")
  /\ UNCHANGED <<pipe, flags, procVars, timeVars, inVars, outVars>>

PollAlive ==
  /\ At("poll", "look")
  /\ pipe \in alive \/ (~young /\ stopped)
  /\ Goto("poll", "watch")
  /\ UNCHANGED <<pipe, flags, procVars, timeVars, inVars, outVars>>

(* Mutant: _stopped is left for later.                                      *)
PollStartFailedSilently ==
  /\ At("poll", "look")
  /\ pipe \notin alive /\ young
  /\ Goto("poll", "forget")
  /\ UNCHANGED <<pipe, flags, procVars, timeVars, inVars, outVars>>

(* The process exited in its first seconds: the client gives up, in three   *)
(* steps.                                                                   *)
PollStartFailed ==
  /\ At("poll", "look")
  /\ pipe \notin alive /\ young
  /\ stopped' = TRUE
  /\ Goto("poll", "forget")
  /\ UNCHANGED <<pipe, start_failed, processor_stopped, procVars, timeVars,
                 inVars, outVars>>

FailForgets ==
  /\ At("poll", "forget")
  /\ pipe' = 0
  /\ Goto("poll", "fail")
  /\ UNCHANGED <<flags, procVars, timeVars, inVars, outVars>>

FailReports ==
  /\ At("poll", "fail")
  /\ start_failed' = TRUE
  /\ Goto("poll", "ended")
  /\ UNCHANGED <<pipe, stopped, processor_stopped, procVars, timeVars, inVars,
                 outVars>>

(* It exited later, and nobody stopped the client.                          *)
PollExited ==
  /\ At("poll", "look")
  /\ pipe \notin alive /\ ~young /\ ~stopped
  /\ Goto("poll", "launch")
  /\ UNCHANGED <<pipe, flags, procVars, timeVars, inVars, outVars>>

(* Mutant: the stdout watchdog is not reset.                                *)
RelaunchNoReset ==
  /\ At("poll", "launch")
  /\ Popen
  /\ young' = TRUE
  /\ watched' = watchdog /\ silent' = FALSE
  /\ Goto("poll", "watch")
  /\ UNCHANGED <<flags, attaching, watchdog, expired, inVars, outVars>>

(* The stdout watchdog is reset if it is on.                                *)
Relaunch ==
  /\ At("poll", "launch")
  /\ Popen
  /\ young' = TRUE
  /\ expired' = (expired /\ ~watchdog)
  /\ watched' = watchdog /\ silent' = FALSE
  /\ Goto("poll", "watch")
  /\ UNCHANGED <<flags, attaching, watchdog, inVars, outVars>>

(* The exception is logged and the loop goes on.                            *)
RelaunchRaises ==
  /\ At("poll", "launch")
  /\ Goto("poll", "top")
  /\ UNCHANGED <<pipe, flags, procVars, timeVars, inVars, outVars>>

Silent == watchdog /\ ~young /\ expired

(* Mutant: another process is launched at once.                             *)
WatchSilentLaunches ==
  /\ At("poll", "watch") /\ Silent
  /\ Goto("poll", "launch")
  /\ UNCHANGED <<pipe, flags, procVars, timeVars, inVars, outVars>>

(* The stdout watchdog terminates the process, which the loop then finds    *)
(* dead.  terminate() may raise for a process that exited, depending on the *)
(* platform and on whether its exit status was collected.                   *)
WatchSilent ==
  /\ At("poll", "watch") /\ Silent
  /\ condemned' = condemned \cup ({pipe} \cap alive)
  /\ Goto("poll", "top")
  /\ UNCHANGED <<pipe, flags, launched, alive, timeVars, inVars, outVars>>

WatchHeard ==
  /\ At("poll", "watch") /\ ~Silent
  /\ Goto("poll", "top")
  /\ UNCHANGED <<pipe, flags, procVars, timeVars, inVars, outVars>>

(* Mutant: the process is only forgotten.                                   *)
PollForgets ==
  /\ At("poll", "terminate")
  /\ pipe' = 0
  /\ Goto("poll", "ended")
  /\ UNCHANGED <<flags, procVars, timeVars, inVars, outVars>>

PollTerminates ==
  /\ At("poll", "terminate")
  /\ condemned' = condemned \cup ({pipe} \cap alive)
  /\ pipe' = 0
  /\ Goto("poll", "ended")
  /\ UNCHANGED <<flags, launched, alive, timeVars, inVars, outVars>>

(* terminate() raises: the exception is logged and the loop goes on, to     *)
(* terminate the same process again.                                        *)
PollRaises ==
  /\ At("poll", "terminate")
  /\ pipe \notin alive
  /\ Goto("poll", "top")
  /\ UNCHANGED <<pipe, flags, procVars, timeVars, inVars, outVars>>

PollStep ==
  \/ PollTop \/ PollAlive \/ PollStartFailed \/ FailForgets \/ FailReports
  \/ PollExited \/ Relaunch \/ RelaunchRaises
  \/ WatchSilent \/ WatchHeard \/ PollTerminates \/ PollRaises

-----------------------------------------------------------------------------
(* send() and attach_queue_to_stdin()                                       *)

Send ==
  /\ sent < MaxCommands /\ (Apart => ~watchdog)
  /\ sent' = sent + 1
  /\ stdin_queue' = Append(stdin_queue, sent + 1)
  /\ UNCHANGED <<pc, pipe, flags, procVars, timeVars, held, unread, delivered,
                 lost, closed, outVars>>

(* The outer loop of both pipe threads: it attaches to the pipe as long as  *)
(* the thread is young; the first time it is.                               *)
AttachAgain(t) == At(t, "begin") \/ (At(t, "attach") /\ attaching)

AttachStdin ==
  /\ AttachAgain("stdin")
  /\ Goto("stdin", IF pipe # 0 THEN "get" ELSE "attach")
  /\ UNCHANGED <<pipe, flags, procVars, timeVars, inVars, outVars>>

AttachNoMore(t) ==
  /\ At(t, "attach") /\ ~attaching
  /\ Goto(t, "ended")
  /\ UNCHANGED <<pipe, flags, procVars, timeVars, inVars, outVars>>

GetCommand ==
  /\ At("stdin", "get")
  /\ ~stopped /\ ~start_failed
  /\ stdin_queue # <<>>
  /\ held' = Head(stdin_queue)
  /\ stdin_queue' = Tail(stdin_queue)
  /\ Goto("stdin", "write")
  /\ UNCHANGED <<pipe, flags, procVars, timeVars, unread, sent, delivered, lost,
                 closed, outVars>>

(* Mutant: the loop is left after each command.                             *)
WriteOnce ==
  /\ At("stdin", "write")
  /\ pipe \in alive \ closed
  /\ unread' = [unread EXCEPT ![pipe] = Append(@, held)]
  /\ held' = 0
  /\ Goto("stdin", "attach")
  /\ UNCHANGED <<pipe, flags, procVars, timeVars, stdin_queue, sent, delivered,
                 lost, closed, outVars>>

(* The command is in the pipe; the process may read it later, or never.     *)
Write ==
  /\ At("stdin", "write")
  /\ pipe \in alive \ closed
  /\ unread' = [unread EXCEPT ![pipe] = Append(@, held)]
  /\ held' = 0
  /\ Goto("stdin", "get")
  /\ UNCHANGED <<pipe, flags, procVars, timeVars, stdin_queue, sent, delivered,
                 lost, closed, outVars>>

(* Mutant: the command goes back into the queue.                            *)
WriteFailsKeeps ==
  /\ At("stdin", "write")
  /\ pipe \notin alive \ closed
  /\ stdin_queue' = Append(stdin_queue, held)
  /\ held' = 0
  /\ Goto("stdin", IF pipe \in closed THEN "ended" ELSE "close")
  /\ UNCHANGED <<pipe, flags, procVars, timeVars, unread, sent, delivered, lost,
                 closed, outVars>>

(* _pipe is None or its process exited: the inner loop is left.  A pipe     *)
(* that was closed raises ValueError, which nothing catches.                *)
WriteFails ==
  /\ At("stdin", "write")
  /\ pipe \notin alive \ closed
  /\ lost' = lost \cup {held}
  /\ held' = 0
  /\ Goto("stdin", IF pipe \in closed THEN "ended" ELSE "close")
  /\ UNCHANGED <<pipe, flags, procVars, timeVars, stdin_queue, unread, sent,
                 delivered, closed, outVars>>

(* The inner loop is left, after a failed write or because of a flag, and   *)
(* _pipe is tested.                                                         *)
LeaveLoop ==
  /\ At("stdin", "close") \/ (At("stdin", "get") /\ (stopped \/ start_failed))
  /\ Goto("stdin", IF pipe # 0 THEN "closing" ELSE "attach")
  /\ UNCHANGED <<pipe, flags, procVars, timeVars, inVars, outVars>>

(* Mutant: whatever _pipe is.                                               *)
CloseUntested ==
  /\ At("stdin", "closing")
  /\ closed' = closed \cup {pipe}
  /\ Goto("stdin", "attach")
  /\ UNCHANGED <<pipe, flags, procVars, timeVars, stdin_queue, held, unread, sent,
                 delivered, lost, outVars>>

(* The stdin of what _pipe is now is closed: it may be a new process, or    *)
(* None, which raises an AttributeError that nothing catches.               *)
Close ==
  /\ At("stdin", "closing")
  /\ closed' = closed \cup ({pipe} \ {0})
  /\ Goto("stdin", IF pipe # 0 THEN "attach" ELSE "ended")
  /\ UNCHANGED <<pipe, flags, procVars, timeVars, stdin_queue, held, unread, sent,
                 delivered, lost, outVars>>

StdinStep ==
  AttachStdin \/ AttachNoMore("stdin") \/ GetCommand \/ Write
    \/ WriteFails \/ LeaveLoop \/ Close

-----------------------------------------------------------------------------
(* attach_queue_to_stdout()                                                 *)

(* _pipe is looked at before each line; then the thread waits for a line of *)
(* that process, whatever _pipe becomes.                                    *)
WaitForLine ==
  IF stopped \/ start_failed \/ pipe = 0
  THEN Goto("stdout", "attach") /\ reading' = 0
  ELSE Goto("stdout", "read") /\ reading' = pipe

AttachStdout ==
  /\ AttachAgain("stdout")
  /\ WaitForLine
  /\ UNCHANGED <<pipe, flags, procVars, timeVars, inVars, output, stdout_queue,
                 printed>>

ReadLine ==
  /\ At("stdout", "read")
  /\ output[reading] > 0
  /\ output' = [output EXCEPT ![reading] = @ - 1]
  /\ stdout_queue' = stdout_queue + 1
  /\ WaitForLine
  /\ UNCHANGED <<pipe, flags, procVars, timeVars, inVars, printed>>

(* The end of the output of a process that exited.                          *)
ReadEnd ==
  /\ At("stdout", "read")
  /\ output[reading] = 0 /\ reading \notin alive
  /\ WaitForLine
  /\ UNCHANGED <<pipe, flags, procVars, timeVars, inVars, output, stdout_queue,
                 printed>>

StdoutStep ==
  AttachStdout \/ AttachNoMore("stdout") \/ ReadLine \/ ReadEnd

-----------------------------------------------------------------------------
(* ReceivedPacketsProcessor.run()                                           *)

(* The start failed: stop_client() is called from this thread, which then   *)
(* ends.                                                                    *)
ProcessorGivesUp ==
  /\ At("processor", "top")
  /\ start_failed
  /\ ~processor_stopped
  /\ stopped' = TRUE
  /\ Goto("processor", "stop")
  /\ UNCHANGED <<pipe, start_failed, processor_stopped, procVars, timeVars,
                 inVars, outVars>>

(* The rest of stop_client() in this thread, after the wait of stop().      *)
ProcessorStops ==
  /\ At("processor", "stop")
  /\ JoinReturns("processor")
  /\ processor_stopped' = TRUE
  /\ Goto("processor", "top")
  /\ UNCHANGED <<pipe, stopped, start_failed, procVars, timeVars, inVars, outVars>>

ProcessorEnds ==
  /\ At("processor", "top")
  /\ processor_stopped
  /\ Goto("processor", "ended")
  /\ UNCHANGED <<pipe, flags, procVars, timeVars, inVars, outVars>>

(* A received packet resets the stdout watchdog, any other line does not.   *)
(* The receiver function may itself call stop_client().                     *)
HandleLine(packet, stops) ==
  /\ At("processor", "top")
  /\ ~start_failed /\ ~processor_stopped
  /\ stdout_queue > 0
  /\ stdout_queue' = stdout_queue - 1
  /\ expired' = (expired /\ ~(packet /\ watchdog))
  /\ silent' = (silent /\ ~packet)
  /\ stopped' = (stopped \/ stops)
  /\ Goto("processor", IF stops THEN "stop" ELSE "top")
  /\ UNCHANGED <<pipe, start_failed, processor_stopped, procVars, young, attaching,
                 watchdog, watched, inVars, output, reading, printed>>

ProcessorStep ==
  \/ ProcessorGivesUp \/ ProcessorStops \/ ProcessorEnds
  \/ \E packet, stops \in BOOLEAN : (stops => packet) /\ HandleLine(packet, stops)

-----------------------------------------------------------------------------
(* The process and the clock                                                *)

PrintLine(p) ==
  /\ p \in alive /\ printed < MaxLines /\ (Apart => watchdog)
  /\ printed' = printed + 1
  /\ output' = [output EXCEPT ![p] = @ + 1]
  /\ UNCHANGED <<pc, pipe, flags, procVars, timeVars, inVars, reading,
                 stdout_queue>>

(* A process reads a command when it likes.                                 *)
ReadCommand(p) ==
  /\ p \in alive /\ unread[p] # <<>>
  /\ delivered' = Append(delivered, Head(unread[p]))
  /\ unread' = [unread EXCEPT ![p] = Tail(@)]
  /\ UNCHANGED <<pc, pipe, flags, procVars, timeVars, stdin_queue, held, sent,
                 lost, closed, outVars>>

Exit(p) ==
  /\ p \in alive
  /\ alive' = alive \ {p}
  /\ condemned' = condemned \ {p}
  /\ UNCHANGED <<pc, pipe, flags, launched, timeVars, inVars, outVars>>

Crash(p) ==
  /\ p < IF Apart /\ sent > 0 THEN MaxLaunches - 1 ELSE MaxLaunches
  /\ Exit(p)

ObeyTerminate == \E p \in condemned : Exit(p)

(* Two seconds after a launch.  The pipe threads started right after the    *)
(* first launch: their two seconds end later, but before those of a second  *)
(* process, which is launched after the first was old.                      *)
GrowOld ==
  /\ young
  /\ ~At("stdin", "begin") /\ ~At("stdout", "begin")
  /\ launched > 1 => ~attaching
  /\ young' = FALSE
  /\ UNCHANGED <<pc, pipe, flags, procVars, attaching, watchVars, inVars, outVars>>

AttachingEnds ==
  /\ attaching
  /\ launched = 1 => ~young
  /\ attaching' = FALSE
  /\ UNCHANGED <<pc, pipe, flags, procVars, young, watchVars, inVars, outVars>>

(* They are never enabled together.                                         *)
Clock == GrowOld \/ AttachingEnds

(* The timeout is over since the last reset.  (The stdout watchdog looks    *)
(* only at processes that are not young.)  If the process is watched, its   *)
(* silence began at the same moment.                                        *)
TimePasses ==
  /\ launched \in 1..MaxLaunches - 1 /\ ~young
  /\ expired' = TRUE
  /\ silent' = watched
  /\ UNCHANGED <<pc, pipe, flags, procVars, young, attaching, watchdog, watched,
                 inVars, outVars>>

(* set_piper_stdout_watchdog(): the application may call it at any time.    *)
SetWatchdog ==
  /\ launched < MaxLaunches /\ (Apart => sent = 0)
  /\ ~watchdog
  /\ watchdog' = TRUE
  /\ UNCHANGED <<pc, pipe, flags, procVars, young, attaching, expired, watched,
                 silent, inVars, outVars>>

Next ==
  \/ StartClient \/ StopClient \/ MainStep \/ PollStep
  \/ Send \/ StdinStep \/ StdoutStep \/ ProcessorStep
  \/ \E p \in Process : PrintLine(p) \/ ReadCommand(p) \/ Crash(p)
  \/ ObeyTerminate \/ Clock \/ TimePasses \/ SetWatchdog

Spec == Init /\ [][Next]_vars

(* The threads are scheduled, a terminated process exits, the clock         *)
(* advances.  Nobody has to start, stop or use the client or its stdout     *)
(* watchdog, and no process has to print, read, crash or stay well.         *)
FairSpec ==
  /\ Spec
  /\ WF_vars(MainStep) /\ WF_vars(PollStep) /\ SF_vars(Relaunch)
  /\ WF_vars(StdinStep) /\ WF_vars(ProcessorStep)
  /\ WF_vars(ObeyTerminate) /\ WF_vars(Clock)

-----------------------------------------------------------------------------
PlaceType ==
  /\ pc \in [Thread -> Place]
  /\ pc["main"] \in MainPlace /\ pc["poll"] \in PollPlace
  /\ pc["stdin"] \in StdinPlace /\ pc["stdout"] \in StdoutPlace
  /\ pc["processor"] \in ProcessorPlace

FlagType ==
  /\ stopped \in BOOLEAN /\ start_failed \in BOOLEAN /\ processor_stopped \in BOOLEAN
  /\ young \in BOOLEAN /\ attaching \in BOOLEAN
  /\ watchdog \in BOOLEAN /\ watched \in BOOLEAN
  /\ expired \in BOOLEAN /\ silent \in BOOLEAN

ProcessType ==
  /\ launched \in 0..MaxLaunches /\ pipe \in 0..launched
  /\ alive \subseteq 1..launched /\ closed \subseteq 1..launched
  /\ condemned \subseteq alive

CommandType ==
  /\ sent \in 0..MaxCommands
  /\ stdin_queue \in Seq(1..sent) /\ delivered \in Seq(1..sent)
  /\ unread \in [Process -> Seq(1..sent)]
  /\ \A p \in Process \ (1..launched) : unread[p] = <<>>
  /\ lost \subseteq 1..sent
  /\ held \in 0..sent /\ (held # 0 <=> At("stdin", "write"))

LineType ==
  /\ printed \in 0..MaxLines /\ output \in [Process -> Nat] /\ stdout_queue \in Nat
  /\ reading \in 0..launched /\ (reading # 0 <=> At("stdout", "read"))

(* Every variable has its type: the processes launched are 1 to launched,   *)
(* those that run, were terminated or had their stdin closed among them,    *)
(* and a thread holds a command or a process exactly while it works on it.  *)
TypeOK == PlaceType /\ FlagType /\ ProcessType /\ CommandType /\ LineType

(* At most one process runs, and unless it was told to terminate it is the  *)
(* one that _pipe refers to: no restart, failed start or stop leaves a      *)
(* process behind that nobody will ever terminate.                          *)
NoOrphan ==
  /\ \A p, q \in alive : p = q
  /\ alive \subseteq {pipe} \cup condemned

(* Whoever finds _pipe None (and leaves on an AttributeError: the two pipe  *)
(* threads, start_client()) finds it after _stopped was set: an orderly     *)
(* stop, or the three steps of a failed start.  A failed start leaves no    *)
(* process.                                                                 *)
NoneMeansStopped ==
  /\ launched > 0 /\ pipe = 0 => stopped
  /\ start_failed => pipe = 0 /\ alive = {}
  /\ At("main", "raised") => start_failed
  /\ At("main", "attribute error") => stopped

Increasing(s) == \A i, j \in DOMAIN s : i < j => s[i] < s[j]

OneIf(n) == IF n = 0 THEN <<>> ELSE <<n>>

(* Commands reach the processes in the order of the calls of send(), each   *)
(* once, across restarts: those that were read, then those in the pipe of   *)
(* the process that runs, the one the stdin thread took, and the queue.     *)
(* Any other command was left in the pipe of a process that exited, or else *)
(* its write failed, which takes a process that exited or a pipe that was   *)
(* closed after one did.                                                    *)
InPipe == IF alive = {} THEN <<>> ELSE unread[CHOOSE p \in alive : TRUE]

CommandPath == delivered \o InPipe \o OneIf(held) \o stdin_queue

Dropped == UNION {ToSet(unread[p]) : p \in Process \ alive}

CommandsInOrder ==
  /\ Increasing(CommandPath)
  /\ ToSet(CommandPath) \cap (lost \cup Dropped) = {}
  /\ ToSet(CommandPath) \cup (lost \cup Dropped) = 1..sent
  /\ lost \cap Dropped = {}
  /\ lost # {} => stopped \/ launched > 1 \/ alive = {}

(* A process that was launched again while the stdout watchdog was on is    *)
(* terminated by it only after a silence of the timeout since its launch:   *)
(* the reset at the launch and those by received packets are enough.  (Any  *)
(* other process may be terminated as soon as it is not young, as the time  *)
(* of the last reset may still be zero.)                                    *)
SilentBeforeTerminated ==
  [][At("poll", "watch") /\ ~(condemned' \subseteq condemned) /\ watched
       => silent]_vars

(* As long as nobody stops the client and no write meets an exited process, *)
(* every command is written to a process, a restarted one if need be.       *)
(* (After one failed write the stdin thread ends, and later commands stay   *)
(* in the queue although the process was launched again.)                   *)
CommandsWritten ==
  [](~stopped /\ lost = {}) => (launched > 0 ~> stdin_queue = <<>> /\ held = 0)

(* After a failed start, or a call of stop_client() by the application, by  *)
(* the receiver function or by the processor itself, which then joins       *)
(* itself, every such call returns and the processor thread ends.           *)
StopReturns ==
  (At("main", "stop") \/ At("processor", "stop") \/ start_failed)
    ~> (pc["main"] \notin {"stop", "join"} /\ At("processor", "ended"))

(* The watchdog is the supervisor of PiperSupervisor.  A stop takes effect  *)
(* once a launch that the poll thread has begun is over.                    *)
Supervisor == INSTANCE PiperSupervisor
  WITH process  <- IF launched = 0 THEN "none"
                   ELSE IF alive = {} THEN "exited" ELSE "running",
       halted   <- stopped /\ ~At("poll", "launch"),
       launches <- launched

ImplementsSupervisor == Supervisor!SupervisorFairSpec
=============================================================================
