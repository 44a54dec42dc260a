-------------------------- MODULE PiperClientProofs --------------------------
(* Theorems about PiperClient, for any number of processes, commands and    *)
(* lines.                                                                   *)
EXTENDS PiperClient, SequenceTheorems, TLAPS

USE PiperAssumption

-----------------------------------------------------------------------------
(* Types                                                                    *)

LEMMA TypeInit == Init => TypeOK
<1> SUFFICES ASSUME Init PROVE TypeOK
  OBVIOUS
<1>1. pc \in [Thread -> Place] /\ \A t \in Thread : pc[t] = "new"
  BY DEF Init, Place, MainPlace
<1>2. PlaceType /\ FlagType
  BY <1>1 DEF Init, PlaceType, FlagType, Thread, MainPlace, PollPlace, StdinPlace,
              StdoutPlace, ProcessorPlace
<1>3. ProcessType /\ LineType
  BY DEF Init, ProcessType, LineType, Process, Thread, At
<1>4. CommandType
  BY DEF Init, CommandType, Thread, At
<1>5. QED
  BY <1>2, <1>3, <1>4 DEF TypeOK

(* A thread moves, the others stay.                                         *)
LEMMA GotoMoves ==
  ASSUME PlaceType, NEW t \in Thread, NEW place \in Place, Goto(t, place)
  PROVE  /\ pc' \in [Thread -> Place]
         /\ pc'[t] = place
         /\ \A u \in Thread : u # t => pc'[u] = pc[u]
BY DEF PlaceType, Goto

(* Each step moves the thread that makes it.                                *)
LEMMA MainMoves ==
  ASSUME MainStep \/ StopClient
  PROVE  \E place \in MainPlace : Goto("main", place)
BY DEF MainStep, StopClient, StartCheck, StartLook, StopProcessor, StopReturn, MainPlace

LEMMA PollMoves ==
  ASSUME PollStep
  PROVE  \E place \in PollPlace : Goto("poll", place)
BY DEF PollStep, PollTop, PollAlive, PollStartFailed, FailForgets, FailReports,
       PollExited, Relaunch, RelaunchRaises, WatchSilent, WatchHeard, PollTerminates,
       PollRaises, PollPlace

LEMMA StdinMoves ==
  ASSUME StdinStep
  PROVE  \E place \in StdinPlace : Goto("stdin", place)
BY DEF StdinStep, AttachStdin, AttachNoMore, GetCommand, Write, WriteFails, LeaveLoop, Close,
       StdinPlace

LEMMA StdoutMoves ==
  ASSUME StdoutStep
  PROVE  \E place \in StdoutPlace : Goto("stdout", place)
BY DEF StdoutStep, AttachStdout, AttachNoMore, ReadLine, ReadEnd, WaitForLine,
       StdoutPlace

LEMMA ProcessorMoves ==
  ASSUME ProcessorStep
  PROVE  \E place \in ProcessorPlace : Goto("processor", place)
BY DEF ProcessorStep, ProcessorGivesUp, ProcessorStops, ProcessorEnds, HandleLine,
       ProcessorPlace

(* The process, the clock and send() move no thread.                        *)
World ==
  \/ Send \/ \E p \in Process : PrintLine(p) \/ ReadCommand(p) \/ Crash(p)
  \/ ObeyTerminate \/ Clock \/ TimePasses \/ SetWatchdog

LEMMA WorldMoves ==
  ASSUME World
  PROVE  UNCHANGED pc
BY DEF World, Send, PrintLine, ReadCommand, Crash, ObeyTerminate, Exit, Clock, GrowOld,
       AttachingEnds, TimePasses, SetWatchdog

LEMMA Steps ==
  ASSUME [Next]_vars
  PROVE  \/ StartClient \/ MainStep \/ StopClient \/ PollStep \/ StdinStep
         \/ StdoutStep \/ ProcessorStep \/ World \/ UNCHANGED vars
BY DEF Next, World

LEMMA PlaceStep == PlaceType /\ [Next]_vars => PlaceType'
<1> SUFFICES ASSUME PlaceType, [Next]_vars PROVE PlaceType'
  OBVIOUS
<1> USE DEF Thread
<1>1. CASE StartClient
  BY <1>1 DEF StartClient, PlaceType, Place, MainPlace, PollPlace, StdinPlace,
              StdoutPlace, ProcessorPlace
<1>2. ASSUME NEW t \in Thread, NEW place \in Place, Goto(t, place),
             \/ t = "main" /\ place \in MainPlace
             \/ t = "poll" /\ place \in PollPlace
             \/ t = "stdin" /\ place \in StdinPlace
             \/ t = "stdout" /\ place \in StdoutPlace
             \/ t = "processor" /\ place \in ProcessorPlace
      PROVE  PlaceType'
  BY <1>2, GotoMoves DEF PlaceType
<1>3. CASE MainStep \/ StopClient
  BY <1>2, <1>3, MainMoves DEF Place
<1>4. CASE PollStep
  BY <1>2, <1>4, PollMoves DEF Place
<1>5. CASE StdinStep
  BY <1>2, <1>5, StdinMoves DEF Place
<1>6. CASE StdoutStep
  BY <1>2, <1>6, StdoutMoves DEF Place
<1>7. CASE ProcessorStep
  BY <1>2, <1>7, ProcessorMoves DEF Place
<1>8. CASE World
  BY <1>8, WorldMoves DEF PlaceType
<1>9. CASE UNCHANGED vars
  BY <1>9 DEF PlaceType, vars
<1>10. QED
  BY <1>1, <1>3, <1>4, <1>5, <1>6, <1>7, <1>8, <1>9, Steps

LEMMA FlagStep == FlagType /\ [Next]_vars => FlagType'
<1> SUFFICES ASSUME FlagType, [Next]_vars PROVE FlagType'
  OBVIOUS
<1> USE DEF FlagType, flags, timeVars, watchVars
<1>1. CASE StartClient
  BY <1>1 DEF StartClient
<1>2. CASE MainStep \/ StopClient
  BY <1>2 DEF MainStep, StopClient, StartCheck, StartLook, StopProcessor, StopReturn
<1>3. CASE PollStep
  BY <1>3 DEF PollStep, PollTop, PollAlive, PollStartFailed, FailForgets, FailReports,
       PollExited, Relaunch, RelaunchRaises, WatchSilent, WatchHeard, PollTerminates,
       PollRaises
<1>4. CASE StdinStep
  BY <1>4 DEF StdinStep, AttachStdin, AttachNoMore, GetCommand, Write, WriteFails, LeaveLoop, Close
<1>5. CASE StdoutStep
  BY <1>5 DEF StdoutStep, AttachStdout, AttachNoMore, ReadLine, ReadEnd
<1>6. CASE ProcessorStep
  BY <1>6 DEF ProcessorStep, ProcessorGivesUp, ProcessorStops, ProcessorEnds, HandleLine
<1>7. CASE World
  <2>1. CASE TimePasses
    BY <2>1 DEF TimePasses
  <2>2. CASE SetWatchdog
    BY <2>2 DEF SetWatchdog
  <2>3. CASE World /\ ~TimePasses /\ ~SetWatchdog
    BY <2>3 DEF World, Send, PrintLine, ReadCommand, Crash, ObeyTerminate, Exit, Clock,
                GrowOld, AttachingEnds
  <2>4. QED
    BY <1>7, <2>1, <2>2, <2>3
<1>8. CASE UNCHANGED vars
  BY <1>8 DEF vars
<1>9. QED
  BY <1>1, <1>2, <1>3, <1>4, <1>5, <1>6, <1>7, <1>8, Steps

LEMMA ProcessStep == ProcessType /\ [Next]_vars => ProcessType'
<1> SUFFICES ASSUME ProcessType, [Next]_vars PROVE ProcessType'
  OBVIOUS
<1> USE DEF ProcessType, procVars
<1>1. ASSUME Popen, closed' = closed
      PROVE  ProcessType'
  BY <1>1, PiperAssumption DEF Popen
<1>2. CASE StartClient
  BY <1>1, <1>2 DEF StartClient, inVars
<1>3. CASE MainStep \/ StopClient
  BY <1>3 DEF MainStep, StopClient, StartCheck, StartLook, StopProcessor, StopReturn,
              inVars
<1>4. CASE Relaunch
  BY <1>1, <1>4 DEF Relaunch, inVars
<1>5. CASE FailForgets \/ WatchSilent \/ PollTerminates
  <2>1. CASE FailForgets
    BY <2>1, PiperAssumption DEF FailForgets, inVars
  <2>2. CASE WatchSilent
    BY <2>2 DEF WatchSilent, inVars
  <2>3. CASE PollTerminates
    BY <2>3, PiperAssumption DEF PollTerminates, inVars
  <2>4. QED
    BY <1>5, <2>1, <2>2, <2>3
<1>6. CASE PollStep /\ ~(Relaunch \/ FailForgets \/ WatchSilent \/ PollTerminates)
  BY <1>6 DEF PollStep, PollTop, PollAlive, PollStartFailed, FailReports, PollExited,
              RelaunchRaises, WatchHeard, PollRaises, inVars
<1>7. CASE Close
  BY <1>7 DEF LeaveLoop, Close
<1>8. CASE StdinStep /\ ~Close
  BY <1>8 DEF StdinStep, AttachStdin, AttachNoMore, GetCommand, Write, WriteFails,
              LeaveLoop, inVars
<1>9. CASE StdoutStep
  BY <1>9 DEF StdoutStep, AttachStdout, AttachNoMore, ReadLine, ReadEnd, inVars
<1>10. CASE ProcessorStep
  BY <1>10 DEF ProcessorStep, ProcessorGivesUp, ProcessorStops, ProcessorEnds,
               HandleLine, inVars
<1>11. CASE World
  BY <1>11 DEF World, Send, PrintLine, ReadCommand, Crash, ObeyTerminate, Exit, Clock, GrowOld,
               AttachingEnds, TimePasses, SetWatchdog, inVars
<1>12. CASE UNCHANGED vars
  BY <1>12 DEF vars, inVars
<1>13. QED
  BY <1>2, <1>3, <1>4, <1>5, <1>6, <1>7, <1>8, <1>9, <1>10, <1>11, <1>12, Steps

(* Before start_client() no thread runs.                                    *)
NotStarted == At("main", "new") => \A t \in Thread : pc[t] = "new"

LEMMA NotStartedStep == PlaceType /\ NotStarted /\ [Next]_vars => NotStarted'
<1> SUFFICES ASSUME PlaceType, NotStarted, [Next]_vars PROVE NotStarted'
  OBVIOUS
<1> USE DEF NotStarted, At, Thread
<1>1. CASE StartClient
  BY <1>1 DEF StartClient, PlaceType
<1>2. CASE MainStep \/ StopClient
  BY <1>2 DEF MainStep, StopClient, StartCheck, StartLook, StopProcessor, StopReturn,
              PlaceType, Goto
<1>3. ASSUME NEW t \in Thread \ {"main"}, pc[t] # "new",
             NEW place \in Place, Goto(t, place)
      PROVE  NotStarted'
  BY <1>3, GotoMoves
<1>4. CASE PollStep
  <2>1. pc["poll"] # "new"
    BY <1>4 DEF PollStep, PollTop, PollAlive, PollStartFailed, FailForgets,
                FailReports, PollExited, Relaunch, RelaunchRaises, WatchSilent,
                WatchHeard, PollTerminates, PollRaises
  <2>2. QED
    BY <1>3, <1>4, <2>1, PollMoves DEF Place
<1>5. CASE StdinStep
  <2>1. pc["stdin"] # "new"
    BY <1>5 DEF StdinStep, AttachStdin, AttachAgain, AttachNoMore, GetCommand, Write,
                WriteFails, LeaveLoop, Close
  <2>2. QED
    BY <1>3, <1>5, <2>1, StdinMoves DEF Place
<1>6. CASE StdoutStep
  <2>1. pc["stdout"] # "new"
    BY <1>6 DEF StdoutStep, AttachStdout, AttachAgain, AttachNoMore, ReadLine, ReadEnd
  <2>2. QED
    BY <1>3, <1>6, <2>1, StdoutMoves DEF Place
<1>7. CASE ProcessorStep
  <2>1. pc["processor"] # "new"
    BY <1>7 DEF ProcessorStep, ProcessorGivesUp, ProcessorStops, ProcessorEnds,
                HandleLine
  <2>2. QED
    BY <1>3, <1>7, <2>1, ProcessorMoves DEF Place
<1>8. CASE World \/ UNCHANGED vars
  BY <1>8, WorldMoves DEF vars
<1>9. QED
  BY <1>1, <1>2, <1>4, <1>5, <1>6, <1>7, <1>8, Steps

LEMMA LaunchesForward ==
  ASSUME ProcessType, [Next]_vars
  PROVE  launched' \in Nat /\ launched <= launched' /\ launched \in Nat
<1>1. launched' = launched \/ launched' = launched + 1
  BY Steps DEF StartClient, Popen, MainStep, StopClient, StartCheck, StartLook,
    StopProcessor, StopReturn, PollStep, PollTop, PollAlive, PollStartFailed,
    FailForgets, FailReports, PollExited, Relaunch, RelaunchRaises, WatchSilent,
    WatchHeard, PollTerminates, PollRaises, StdinStep, AttachStdin, AttachNoMore,
    GetCommand, Write, WriteFails, LeaveLoop, Close, StdoutStep, AttachStdout,
    ReadLine, ReadEnd, ProcessorStep, ProcessorGivesUp, ProcessorStops,
    ProcessorEnds, HandleLine, World, Send, PrintLine, ReadCommand, Crash,
    ObeyTerminate, Exit, Clock, GrowOld, AttachingEnds, TimePasses, SetWatchdog,
    procVars, vars
<1>2. QED
  BY <1>1, PiperAssumption DEF ProcessType

LEMMA LineStep ==
  PlaceType /\ ProcessType /\ NotStarted /\ LineType /\ [Next]_vars => LineType'
<1> SUFFICES ASSUME PlaceType, ProcessType, NotStarted, LineType, [Next]_vars
             PROVE  LineType'
  OBVIOUS
<1> USE DEF LineType, At, Thread
<1>1. launched' \in Nat /\ launched <= launched' /\ launched \in Nat
  BY LaunchesForward
<1>2. ASSUME UNCHANGED outVars, pc'["stdout"] = pc["stdout"]
      PROVE  LineType'
  BY <1>1, <1>2 DEF outVars
<1>3. ASSUME NEW t \in Thread \ {"stdout"}, NEW place \in Place, Goto(t, place),
             UNCHANGED outVars
      PROVE  LineType'
  BY <1>2, <1>3, GotoMoves
<1>4. CASE StartClient
  BY <1>1, <1>4 DEF StartClient, NotStarted, outVars, PlaceType
<1>5. CASE MainStep \/ StopClient
  <2>1. UNCHANGED outVars
    BY <1>5 DEF MainStep, StopClient, StartCheck, StartLook, StopProcessor, StopReturn
  <2>2. QED
    BY <1>3, <1>5, <2>1, MainMoves DEF Place
<1>6. CASE PollStep
  <2>1. UNCHANGED outVars
    BY <1>6 DEF PollStep, PollTop, PollAlive, PollStartFailed, FailForgets,
                FailReports, PollExited, Relaunch, RelaunchRaises, WatchSilent,
                WatchHeard, PollTerminates, PollRaises
  <2>2. QED
    BY <1>3, <1>6, <2>1, PollMoves DEF Place
<1>7. CASE StdinStep
  <2>1. UNCHANGED outVars
    BY <1>7 DEF StdinStep, AttachStdin, AttachNoMore, GetCommand, Write, WriteFails,
                LeaveLoop, Close
  <2>2. QED
    BY <1>3, <1>7, <2>1, StdinMoves DEF Place
<1>8. ASSUME WaitForLine, output' \in [Process -> Nat], stdout_queue' \in Nat,
             UNCHANGED <<pipe, printed>>
      PROVE  LineType'
  <2>1. pc'["stdout"] = IF stopped \/ start_failed \/ pipe = 0 THEN "attach" ELSE "read"
    BY <1>8, GotoMoves DEF WaitForLine, Place, StdoutPlace
  <2>2. QED
    BY <1>1, <1>8, <2>1 DEF WaitForLine, ProcessType
<1>9. CASE StdoutStep
  <2>1. CASE AttachStdout
    BY <1>8, <2>1 DEF AttachStdout
  <2>2. CASE AttachNoMore("stdout")
    BY <1>1, <2>2, GotoMoves DEF AttachNoMore, outVars, Place, StdoutPlace
  <2>3. CASE ReadLine
    <3>1. reading \in Process
      BY <2>3, PiperAssumption DEF ReadLine, ProcessType, Process
    <3>2. output' \in [Process -> Nat] /\ stdout_queue' \in Nat
      BY <2>3, <3>1 DEF ReadLine
    <3>3. QED
      BY <1>8, <2>3, <3>2 DEF ReadLine
  <2>4. CASE ReadEnd
    BY <1>8, <2>4 DEF ReadEnd
  <2>5. QED
    BY <1>9, <2>1, <2>2, <2>3, <2>4 DEF StdoutStep
<1>10. CASE ProcessorStep
  <2>1. pc'["stdout"] = pc["stdout"]
    BY <1>10, ProcessorMoves, GotoMoves DEF Place
  <2>2. \/ UNCHANGED outVars
        \/ UNCHANGED <<output, reading, printed>> /\ stdout_queue > 0
           /\ stdout_queue' = stdout_queue - 1
    BY <1>10 DEF ProcessorStep, ProcessorGivesUp, ProcessorStops, ProcessorEnds,
                 HandleLine
  <2>3. QED
    BY <1>1, <1>2, <2>1, <2>2
<1>11. CASE \E p \in Process : PrintLine(p)
  <2> PICK p \in Process : PrintLine(p)
    BY <1>11
  <2>1. printed' = printed + 1 /\ printed < MaxLines
    BY DEF PrintLine
  <2>2. output' \in [Process -> Nat]
    BY DEF PrintLine
  <2>3. QED
    BY <1>1, <2>1, <2>2, PiperAssumption DEF PrintLine
<1>12. CASE World /\ ~\E p \in Process : PrintLine(p)
  <2>1. UNCHANGED outVars
    BY <1>12 DEF World, Send, ReadCommand, Crash, ObeyTerminate, Exit, Clock, GrowOld,
                 AttachingEnds, TimePasses, SetWatchdog
  <2>2. QED
    BY <1>2, <1>12, <2>1, WorldMoves
<1>13. CASE UNCHANGED vars
  BY <1>2, <1>13 DEF vars, outVars
<1>14. QED
  BY <1>4, <1>5, <1>6, <1>7, <1>9, <1>10, <1>11, <1>12, <1>13, Steps

LEMMA CommandStep ==
  PlaceType /\ ProcessType /\ NotStarted /\ CommandType /\ [Next]_vars => CommandType'
<1> SUFFICES ASSUME PlaceType, ProcessType, NotStarted, CommandType, [Next]_vars
             PROVE  CommandType'
  OBVIOUS
<1> DEFINE commandVars == <<stdin_queue, held, unread, sent, delivered, lost>>
<1> USE DEF CommandType, At, Thread
<1>0. launched' \in Nat /\ launched <= launched' /\ launched \in Nat
  BY LaunchesForward
<1>1. ASSUME UNCHANGED commandVars, pc'["stdin"] = pc["stdin"]
      PROVE  CommandType'
  BY <1>0, <1>1
<1>2. ASSUME NEW t \in Thread \ {"stdin"}, NEW place \in Place, Goto(t, place),
             UNCHANGED commandVars
      PROVE  CommandType'
  BY <1>1, <1>2, GotoMoves
<1> USE DEF inVars
<1>3. CASE StartClient
  BY <1>0, <1>3 DEF StartClient, NotStarted, PlaceType
<1>4. CASE MainStep \/ StopClient
  <2>1. UNCHANGED commandVars
    BY <1>4 DEF MainStep, StopClient, StartCheck, StartLook, StopProcessor, StopReturn
  <2>2. QED
    BY <1>2, <1>4, <2>1, MainMoves DEF Place
<1>5. CASE PollStep
  <2>1. UNCHANGED commandVars
    BY <1>5 DEF PollStep, PollTop, PollAlive, PollStartFailed, FailForgets,
                FailReports, PollExited, Relaunch, RelaunchRaises, WatchSilent,
                WatchHeard, PollTerminates, PollRaises
  <2>2. QED
    BY <1>2, <1>5, <2>1, PollMoves DEF Place
<1>6. CASE StdinStep
  <2>1. CASE AttachStdin \/ AttachNoMore("stdin")
    <3>1. UNCHANGED commandVars /\ pc["stdin"] # "write"
      BY <2>1 DEF AttachStdin, AttachAgain, AttachNoMore
    <3>2. \E place \in {"get", "attach", "ended"} : Goto("stdin", place)
      BY <2>1 DEF AttachStdin, AttachNoMore
    <3>3. pc'["stdin"] # "write"
      BY <3>2, GotoMoves DEF Place, StdinPlace
    <3>4. QED
      BY <1>0, <3>1, <3>3
  <2>2. CASE GetCommand
    <3>1. pc'["stdin"] = "write"
      BY <2>2, GotoMoves DEF GetCommand, Place, StdinPlace
    <3>2. Head(stdin_queue) \in 1..sent /\ Tail(stdin_queue) \in Seq(1..sent)
      BY <2>2 DEF GetCommand
    <3>3. QED
      BY <1>0, <2>2, <3>1, <3>2 DEF GetCommand, procVars
  <2>3. CASE Write
    <3>1. pc'["stdin"] = "get" /\ held \in 1..sent
      BY <2>3, GotoMoves DEF Write, Place, StdinPlace
    <3>2. pipe \in 1..launched /\ pipe \in Process /\ launched' = launched
      BY <1>0, <2>3, PiperAssumption DEF Write, ProcessType, Process, procVars
    <3>3. Append(unread[pipe], held) \in Seq(1..sent)
      BY <3>1, <3>2
    <3>4. /\ unread' \in [Process -> Seq(1..sent)]
          /\ \A p \in Process \ (1..launched) : unread'[p] = <<>>
      BY <2>3, <3>2, <3>3 DEF Write
    <3>5. QED
      BY <2>3, <3>1, <3>2, <3>4 DEF Write
  <2>4. CASE WriteFails
    <3>1. pc'["stdin"] \in {"ended", "close"} /\ held \in 1..sent
      BY <2>4, GotoMoves DEF WriteFails, Place, StdinPlace
    <3>2. QED
      BY <1>0, <2>4, <3>1 DEF WriteFails, procVars
  <2>5. CASE LeaveLoop \/ Close
    <3>1. UNCHANGED commandVars /\ pc["stdin"] # "write"
      BY <2>5 DEF LeaveLoop, Close
    <3>2. \E place \in {"closing", "attach", "ended"} : Goto("stdin", place)
      BY <2>5 DEF LeaveLoop, Close
    <3>3. pc'["stdin"] # "write"
      BY <3>2, GotoMoves DEF Place, StdinPlace
    <3>4. QED
      BY <1>0, <3>1, <3>3
  <2>6. QED
    BY <1>6, <2>1, <2>2, <2>3, <2>4, <2>5 DEF StdinStep
<1>7. CASE StdoutStep
  <2>1. UNCHANGED commandVars
    BY <1>7 DEF StdoutStep, AttachStdout, AttachNoMore, ReadLine, ReadEnd
  <2>2. QED
    BY <1>2, <1>7, <2>1, StdoutMoves DEF Place
<1>8. CASE ProcessorStep
  <2>1. UNCHANGED commandVars
    BY <1>8 DEF ProcessorStep, ProcessorGivesUp, ProcessorStops, ProcessorEnds,
                HandleLine
  <2>2. QED
    BY <1>2, <1>8, <2>1, ProcessorMoves DEF Place
<1>9. CASE Send
  <2>1. sent' = sent + 1 /\ sent < MaxCommands /\ sent \in Nat /\ sent + 1 \in 1..(sent + 1)
    BY <1>9, PiperAssumption DEF Send
  <2>2. /\ stdin_queue \in Seq(1..(sent + 1)) /\ delivered \in Seq(1..(sent + 1))
        /\ \A p \in Process : unread[p] \in Seq(1..(sent + 1))
    BY <2>1, SeqMonotonic
  <2>3. Append(stdin_queue, sent + 1) \in Seq(1..(sent + 1))
    BY <2>1, <2>2
  <2>4. QED
    BY <1>0, <1>9, <2>1, <2>2, <2>3, PiperAssumption DEF Send
<1>10. CASE \E p \in Process : ReadCommand(p)
  <2> PICK p \in Process : ReadCommand(p)
    BY <1>10
  <2>1. unread[p] \in Seq(1..sent) /\ unread[p] # <<>> /\ UNCHANGED <<pc, launched, sent>>
    BY DEF ReadCommand, procVars
  <2>2. Head(unread[p]) \in 1..sent /\ Tail(unread[p]) \in Seq(1..sent)
    BY <2>1
  <2>3. Append(delivered, Head(unread[p])) \in Seq(1..sent)
    BY <2>2
  <2>4. /\ unread' \in [Process -> Seq(1..sent)]
        /\ \A q \in Process \ (1..launched) : unread'[q] = <<>>
    BY <2>1, <2>2 DEF ReadCommand
  <2>5. QED
    BY <2>1, <2>3, <2>4 DEF ReadCommand
<1>11. CASE World /\ ~Send /\ ~\E p \in Process : ReadCommand(p)
  <2>1. UNCHANGED commandVars
    BY <1>11 DEF World, PrintLine, Crash, ObeyTerminate, Exit, Clock, GrowOld,
                 AttachingEnds, TimePasses, SetWatchdog
  <2>2. QED
    BY <1>1, <1>11, <2>1, WorldMoves
<1>12. CASE UNCHANGED vars
  BY <1>1, <1>12 DEF vars
<1>13. QED
  BY <1>3, <1>4, <1>5, <1>6, <1>7, <1>8, <1>9, <1>10, <1>11, <1>12, Steps

(* Every state of every behaviour has the types that PiperClient states; no *)
(* thread runs before start_client().                                       *)
THEOREM TypeCorrect == Spec => [](TypeOK /\ NotStarted)
<1>1. Init => TypeOK /\ NotStarted
  BY TypeInit DEF Init, NotStarted
<1>2. TypeOK /\ NotStarted /\ [Next]_vars => TypeOK' /\ NotStarted'
  BY PlaceStep, FlagStep, ProcessStep, CommandStep, LineStep, NotStartedStep DEF TypeOK
<1>3. QED
  BY <1>1, <1>2, PTL DEF Spec

-----------------------------------------------------------------------------
(* Which process runs, and which one _pipe is, at each place of the poll    *)
(* thread                                                                   *)

Watching == {"top", "look", "watch", "terminate"}

PlaceOfProcess ==
  /\ At("poll", "new") <=> At("main", "new")
  /\ At("poll", "new") => launched = 0 /\ pipe = 0 /\ alive = {}
  /\ pc["poll"] \in Watching => pipe # 0 /\ alive \subseteq {pipe}
  /\ pc["poll"] \in {"launch", "forget"} => pipe # 0 /\ alive = {}
  /\ At("poll", "fail") => pipe = 0 /\ alive = {}
  /\ At("poll", "ended") => pipe = 0 /\ alive \subseteq condemned

OneProcess == \A p, q \in alive : p = q

StopIsKnown ==
  /\ At("poll", "new") => ~stopped /\ ~start_failed
  /\ pc["poll"] \in {"forget", "fail", "terminate", "ended"} => stopped
  /\ start_failed => At("poll", "ended") /\ alive = {}
  /\ At("main", "raised") => start_failed
  /\ At("main", "attribute error") => stopped

(* The strengthening: NoOrphan and NoneMeansStopped alone are kept by no    *)
(* step of the poll thread that relies on what it found out before.         *)
WatchdogInv == PlaceOfProcess /\ OneProcess /\ StopIsKnown

LEMMA WatchdogInvInit == Init => WatchdogInv
BY DEF Init, WatchdogInv, PlaceOfProcess, OneProcess, StopIsKnown, At, Watching, Thread

LEMMA LaunchedIsNumber ==
  ASSUME TypeOK
  PROVE  launched \in Nat
BY PiperAssumption DEF TypeOK, ProcessType

(* What the invariant is for.                                               *)
LEMMA WatchdogInvSuffices ==
  ASSUME TypeOK, WatchdogInv
  PROVE  NoOrphan /\ NoneMeansStopped
<1>1. pc["poll"] \in PollPlace
  BY DEF TypeOK, PlaceType
<1>2. NoOrphan
  BY <1>1 DEF WatchdogInv, PlaceOfProcess, OneProcess, NoOrphan, At, PollPlace, Watching
<1>3. launched > 0 /\ pipe = 0 => stopped
  <2> SUFFICES ASSUME launched > 0, pipe = 0 PROVE stopped
    OBVIOUS
  <2>1. launched # 0
    BY LaunchedIsNumber
  <2>2. QED
    BY <1>1, <2>1 DEF WatchdogInv, PlaceOfProcess, StopIsKnown, At, PollPlace, Watching
<1>4. NoneMeansStopped
  BY <1>3 DEF WatchdogInv, PlaceOfProcess, StopIsKnown, NoneMeansStopped, At
<1>5. QED
  BY <1>2, <1>4

(* A step of a thread that touches neither processes nor flags, nor moves   *)
(* the threads the invariant is about.                                      *)
LEMMA Unaffected ==
  ASSUME WatchdogInv, UNCHANGED <<pipe, launched, alive, condemned, start_failed>>,
         pc'["main"] = pc["main"], pc'["poll"] = pc["poll"],
         stopped => stopped', At("poll", "new") /\ stopped' => stopped
  PROVE  WatchdogInv'
BY DEF WatchdogInv, PlaceOfProcess, OneProcess, StopIsKnown, At

LEMMA MainKeepsInv ==
  ASSUME TypeOK, WatchdogInv, MainStep \/ StopClient
  PROVE  WatchdogInv'
<1> USE DEF WatchdogInv, PlaceOfProcess, OneProcess, StopIsKnown, At, procVars, flags
<1>1. pc["poll"] \in PollPlace /\ stopped \in BOOLEAN /\ PlaceType
  BY DEF TypeOK, PlaceType, FlagType
<1>2. UNCHANGED <<pipe, launched, alive, condemned, start_failed>>
      /\ (stopped => stopped') /\ pc["main"] # "new"
  BY DEF MainStep, StopClient, StartCheck, StartLook, StopProcessor, StopReturn
<1>3. \E place \in MainPlace : Goto("main", place)
  BY MainMoves
<1>4. pc'["poll"] = pc["poll"]
  BY <1>1, <1>3, GotoMoves DEF Place, Thread
<1>5. pc'["main"] # "new"
      /\ (pc'["main"] = "raised" => start_failed)
      /\ (pc'["main"] = "attribute error" => pipe = 0)
  <2>0. ASSUME NEW place \in MainPlace, Goto("main", place)
        PROVE  pc'["main"] = place
    BY <1>1, <2>0, GotoMoves DEF Place, Thread
  <2>1. CASE StartCheck
    BY <2>0, <2>1 DEF StartCheck, MainPlace
  <2>2. CASE StartLook
    BY <2>0, <2>2 DEF StartLook, MainPlace
  <2>3. CASE StopProcessor \/ StopReturn \/ StopClient
    BY <2>0, <2>3 DEF StopProcessor, StopReturn, StopClient, MainPlace
  <2>4. QED
    BY <2>1, <2>2, <2>3 DEF MainStep
<1>6. pipe = 0 => stopped
  BY <1>1, <1>2 DEF PollPlace, Watching
<1>7. QED
  BY <1>1, <1>2, <1>4, <1>5, <1>6

LEMMA PollKeepsInv ==
  ASSUME TypeOK, WatchdogInv, PollStep
  PROVE  WatchdogInv'
<1> USE DEF WatchdogInv, PlaceOfProcess, OneProcess, StopIsKnown, At, procVars, flags,
            Watching
<1>1. /\ PlaceType /\ pc["poll"] \in PollPlace
      /\ stopped \in BOOLEAN /\ start_failed \in BOOLEAN
      /\ launched \in Nat
  BY LaunchedIsNumber DEF TypeOK, PlaceType, FlagType
<1>2. pc["main"] # "new" /\ pc["poll"] # "new"
  BY DEF PollStep, PollTop, PollAlive, PollStartFailed, FailForgets, FailReports,
         PollExited, Relaunch, RelaunchRaises, WatchSilent, WatchHeard, PollTerminates,
         PollRaises
<1>3. ASSUME NEW place \in PollPlace, Goto("poll", place)
      PROVE  pc'["poll"] = place /\ pc'["main"] = pc["main"]
  BY <1>1, <1>3, GotoMoves DEF Place, Thread
<1>4. CASE PollTop
  BY <1>1, <1>2, <1>3, <1>4 DEF PollTop, PollPlace
<1>5. CASE PollAlive
  BY <1>1, <1>2, <1>3, <1>5 DEF PollAlive, PollPlace
<1>6. CASE PollStartFailed
  BY <1>1, <1>2, <1>3, <1>6 DEF PollStartFailed, PollPlace
<1>7. CASE FailForgets
  BY <1>1, <1>2, <1>3, <1>7 DEF FailForgets, PollPlace
<1>8. CASE FailReports
  BY <1>1, <1>2, <1>3, <1>8 DEF FailReports, PollPlace
<1>9. CASE PollExited
  BY <1>1, <1>2, <1>3, <1>9 DEF PollExited, PollPlace
<1>10. CASE Relaunch
  <2>0. pipe' = launched + 1 /\ alive' = alive \cup {launched + 1} /\ alive = {}
    BY <1>10 DEF Relaunch, Popen
  <2>1. alive' = {launched + 1} /\ pipe' = launched + 1 /\ pipe' # 0
    <3> HIDE DEF WatchdogInv
    <3>1. QED
      BY <1>1, <2>0
  <2>2. pc'["poll"] = "watch" /\ pc'["main"] = pc["main"] /\ ~start_failed
    BY <1>3, <1>10 DEF Relaunch, PollPlace
  <2>3. UNCHANGED flags
    BY <1>10 DEF Relaunch
  <2>4. QED
    BY <1>2, <2>1, <2>2, <2>3
<1>11. CASE RelaunchRaises
  BY <1>1, <1>2, <1>3, <1>11 DEF RelaunchRaises, PollPlace
<1>12. CASE WatchSilent
  BY <1>1, <1>2, <1>3, <1>12 DEF WatchSilent, PollPlace
<1>13. CASE WatchHeard
  BY <1>1, <1>2, <1>3, <1>13 DEF WatchHeard, PollPlace
<1>14. CASE PollTerminates
  BY <1>1, <1>2, <1>3, <1>14 DEF PollTerminates, PollPlace
<1>15. CASE PollRaises
  BY <1>1, <1>2, <1>3, <1>15 DEF PollRaises, PollPlace
<1>16. QED
  BY <1>4, <1>5, <1>6, <1>7, <1>8, <1>9, <1>10, <1>11, <1>12, <1>13, <1>14, <1>15
     DEF PollStep

LEMMA ExitKeepsInv ==
  ASSUME WatchdogInv, NEW p \in Process, Exit(p)
  PROVE  WatchdogInv'
BY DEF Exit, WatchdogInv, PlaceOfProcess, OneProcess, StopIsKnown, At, Watching, flags

LEMMA WatchdogInvStep ==
  ASSUME TypeOK, NotStarted, WatchdogInv, [Next]_vars
  PROVE  WatchdogInv'
<1>1. PlaceType
  BY DEF TypeOK
<1>2. CASE StartClient
  <2>1. pc["main"] = "new" /\ pc["poll"] = "new" /\ pc'["main"] = "check"
        /\ pc'["poll"] = "top"
    BY <1>1, <1>2 DEF StartClient, PlaceType, Thread, At, WatchdogInv, PlaceOfProcess
  <2>2. alive' = {1} /\ pipe' = 1 /\ UNCHANGED flags
    BY <1>2, <2>1 DEF StartClient, Popen, WatchdogInv, PlaceOfProcess, At
  <2>3. ~start_failed
    BY <2>1 DEF WatchdogInv, StopIsKnown, At
  <2>4. QED
    BY <2>1, <2>2, <2>3 DEF WatchdogInv, PlaceOfProcess, OneProcess, StopIsKnown, At,
                            Watching, flags
<1>3. CASE MainStep \/ StopClient
  BY <1>3, MainKeepsInv
<1>4. CASE PollStep
  BY <1>4, PollKeepsInv
<1>5. ASSUME NEW t \in Thread \ {"main", "poll"}, NEW place \in Place, Goto(t, place)
      PROVE  pc'["main"] = pc["main"] /\ pc'["poll"] = pc["poll"]
  BY <1>1, <1>5, GotoMoves DEF Thread
<1>6. CASE StdinStep
  <2>1. UNCHANGED <<pipe, flags, procVars>>
    BY <1>6 DEF StdinStep, AttachStdin, AttachNoMore, GetCommand, Write, WriteFails,
                LeaveLoop, Close
  <2>2. QED
    BY <1>5, <1>6, <2>1, StdinMoves, Unaffected DEF Place, Thread, flags, procVars
<1>7. CASE StdoutStep
  <2>1. UNCHANGED <<pipe, flags, procVars>>
    BY <1>7 DEF StdoutStep, AttachStdout, AttachNoMore, ReadLine, ReadEnd
  <2>2. QED
    BY <1>5, <1>7, <2>1, StdoutMoves, Unaffected DEF Place, Thread, flags, procVars
<1>8. CASE ProcessorStep
  <2>1. stopped \in BOOLEAN /\ (At("poll", "new") => At("processor", "new"))
    BY DEF TypeOK, FlagType, WatchdogInv, PlaceOfProcess, NotStarted, At, Thread
  <2>2. (stopped => stopped') /\ (At("poll", "new") /\ stopped' => stopped)
    BY <1>8, <2>1 DEF ProcessorStep, ProcessorGivesUp, ProcessorStops, ProcessorEnds,
                      HandleLine, At, flags
  <2>3. UNCHANGED <<pipe, start_failed, procVars>>
    BY <1>8 DEF ProcessorStep, ProcessorGivesUp, ProcessorStops, ProcessorEnds,
                HandleLine, flags
  <2>4. QED
    BY <1>5, <1>8, <2>2, <2>3, ProcessorMoves, Unaffected DEF Place, Thread, procVars
<1>9. CASE \E p \in Process : Exit(p)
  BY <1>9, ExitKeepsInv
<1>10. CASE World /\ ~\E p \in Process : Exit(p)
  <2>1. ObeyTerminate => \E p \in Process : Exit(p)
    BY PiperAssumption DEF ObeyTerminate, TypeOK, ProcessType, Process
  <2>2. UNCHANGED <<pc, pipe, flags, procVars>>
    BY <1>10, <2>1 DEF World, Send, PrintLine, ReadCommand, Crash, Clock, GrowOld, AttachingEnds,
                       TimePasses, SetWatchdog
  <2>3. QED
    BY <2>2, Unaffected DEF flags, procVars
<1>11. CASE UNCHANGED vars
  BY <1>11, Unaffected DEF vars, flags, procVars
<1>12. QED
  BY <1>2, <1>3, <1>4, <1>6, <1>7, <1>8, <1>9, <1>10, <1>11, Steps

LEMMA Invariant == Spec => [](TypeOK /\ NotStarted /\ WatchdogInv)
<1>1. Init => WatchdogInv
  BY WatchdogInvInit
<1>2. TypeOK /\ NotStarted /\ WatchdogInv /\ [Next]_vars => WatchdogInv'
  BY WatchdogInvStep
<1>3. QED
  BY <1>1, <1>2, TypeCorrect, PTL DEF Spec

(* However often the process exits, is terminated for silence or is         *)
(* launched again, whatever the order of a stop and a relaunch: at most one *)
(* process runs, and it is known to the watchdog or was terminated.         *)
THEOREM NoProcessIsLeft == Spec => []NoOrphan
BY Invariant, WatchdogInvSuffices, PTL

(* Whoever finds _pipe None finds it after _stopped was set, and a failed   *)
(* start leaves no process.                                                 *)
THEOREM NoneOnlyWhenStopped == Spec => []NoneMeansStopped
BY Invariant, WatchdogInvSuffices, PTL

-----------------------------------------------------------------------------
(* The watchdog implements PiperSupervisor                                  *)

Seen   == IF launched = 0 THEN "none" ELSE IF alive = {} THEN "exited" ELSE "running"
Halted == stopped /\ ~At("poll", "launch")

LEMMA SupervisorInits == Init => Supervisor!SupervisorInit
BY DEF Init, Supervisor!SupervisorInit

(* What the supervisor sees of a step in which no process starts or ends.   *)
LEMMA HaltsOrStutters ==
  ASSUME UNCHANGED <<Seen, launched>>, Halted \in BOOLEAN, Halted' \in BOOLEAN,
         Halted => Halted'
  PROVE  [Supervisor!SupervisorNext]_(Supervisor!supervisor)
<1>1. CASE Halted' = Halted
  BY <1>1 DEF Supervisor!supervisor, Seen, Halted
<1>2. CASE Halted' # Halted
  <2>1. Supervisor!Halt
    BY <1>2 DEF Supervisor!Halt, Seen, Halted
  <2>2. QED
    BY <2>1 DEF Supervisor!SupervisorNext
<1>3. QED
  BY <1>1, <1>2

LEMMA PollImplements ==
  ASSUME TypeOK, WatchdogInv, PollStep
  PROVE  [Supervisor!SupervisorNext]_(Supervisor!supervisor)
<1>1. /\ PlaceType /\ pc["poll"] \in PollPlace /\ stopped \in BOOLEAN
      /\ stopped' \in BOOLEAN
  BY FlagStep DEF TypeOK, PlaceType, FlagType, Next
<1>2. Halted \in BOOLEAN /\ Halted' \in BOOLEAN
  BY DEF Halted, At
<1>3. ASSUME NEW place \in PollPlace, Goto("poll", place)
      PROVE  pc'["poll"] = place
  BY <1>1, <1>3, GotoMoves DEF Place, Thread
<1>4. CASE Relaunch
  <2>1. launched # 0 /\ alive = {}
    <3>1. pipe # 0 /\ pipe \in 0..launched /\ alive = {}
      BY <1>4 DEF Relaunch, At, WatchdogInv, PlaceOfProcess, TypeOK, ProcessType
    <3>2. QED
      BY <3>1
  <2>2. launched' = launched + 1 /\ alive' # {}
    BY <1>4 DEF Relaunch, Popen
  <2>3. Seen = "exited" /\ Seen' = "running" /\ ~Halted
    BY <1>4, <2>1, <2>2, LaunchedIsNumber DEF Relaunch, Seen, Halted, At
  <2>4. Supervisor!Relaunch
    BY <1>2, <2>2, <2>3 DEF Supervisor!Relaunch, Supervisor!LaunchFrom, Seen, Halted
  <2>5. QED
    BY <2>4 DEF Supervisor!SupervisorNext
<1>5. CASE ~Relaunch
  <2>1. UNCHANGED <<Seen, launched>>
    BY <1>5 DEF PollStep, PollTop, PollAlive, PollStartFailed, FailForgets, FailReports,
      PollExited, RelaunchRaises, WatchSilent, WatchHeard, PollTerminates, PollRaises,
      procVars, Seen
  <2>2. stopped => stopped'
    BY <1>1, <1>5 DEF PollStep, PollTop, PollAlive, PollStartFailed, FailForgets,
      FailReports, PollExited, RelaunchRaises, WatchSilent, WatchHeard, PollTerminates,
      PollRaises, flags
  <2>3. CASE PollExited
    BY <1>2, <2>1, <2>3, HaltsOrStutters DEF PollExited, Halted
  <2>4. CASE ~PollExited
    <3>1. \E place \in PollPlace \ {"launch"} : Goto("poll", place)
      BY <1>5, <2>4 DEF PollStep, PollTop, PollAlive, PollStartFailed, FailForgets,
        FailReports, RelaunchRaises, WatchSilent, WatchHeard, PollTerminates,
        PollRaises, PollPlace
    <3>2. pc'["poll"] # "launch"
      BY <1>3, <3>1
    <3>3. QED
      BY <1>2, <2>1, <2>2, <3>2, HaltsOrStutters DEF Halted, At
  <2>5. QED
    BY <2>3, <2>4
<1>6. QED
  BY <1>4, <1>5

(* A process exits.                                                         *)
LEMMA ExitImplements ==
  ASSUME TypeOK, WatchdogInv, NEW p \in Process, Exit(p)
  PROVE  [Supervisor!SupervisorNext]_(Supervisor!supervisor)
<1>1. p \in alive /\ alive' = alive \ {p} /\ UNCHANGED <<pc, flags, launched>>
  BY DEF Exit
<1>2. alive' = {}
  BY <1>1 DEF WatchdogInv, OneProcess
<1>3. launched # 0
  BY <1>1 DEF TypeOK, ProcessType
<1>4. Supervisor!Exit
  BY <1>1, <1>2, <1>3 DEF Supervisor!Exit, At, flags
<1>5. QED
  BY <1>4 DEF Supervisor!SupervisorNext

LEMMA StepImplements ==
  ASSUME TypeOK, NotStarted, WatchdogInv, [Next]_vars
  PROVE  [Supervisor!SupervisorNext]_(Supervisor!supervisor)
<1>1. PlaceType /\ stopped \in BOOLEAN /\ stopped' \in BOOLEAN
  BY FlagStep DEF TypeOK, FlagType
<1>2. Halted \in BOOLEAN /\ Halted' \in BOOLEAN
  BY DEF Halted, At
<1>3. ASSUME UNCHANGED procVars, pc'["poll"] = pc["poll"], stopped => stopped'
      PROVE  [Supervisor!SupervisorNext]_(Supervisor!supervisor)
  BY <1>1, <1>2, <1>3, HaltsOrStutters DEF Seen, Halted, At, procVars
<1>4. ASSUME NEW t \in Thread \ {"poll"}, NEW place \in Place, Goto(t, place)
      PROVE  pc'["poll"] = pc["poll"]
  BY <1>1, <1>4, GotoMoves DEF Thread
<1>5. CASE StartClient
  <2>1. launched = 0 /\ ~stopped
    BY <1>5 DEF StartClient, At, NotStarted, Thread, WatchdogInv, PlaceOfProcess, StopIsKnown
  <2>2. launched' = launched + 1 /\ launched' = 1 /\ alive' # {}
    BY <1>5, <2>1 DEF StartClient, Popen
  <2>3. Supervisor!Launch
    BY <1>2, <2>1, <2>2 DEF Supervisor!Launch, Supervisor!LaunchFrom, Halted
  <2>4. QED
    BY <2>3 DEF Supervisor!SupervisorNext
<1>6. CASE MainStep \/ StopClient
  <2>1. UNCHANGED procVars
    BY <1>6 DEF MainStep, StopClient, StartCheck, StartLook, StopProcessor, StopReturn
  <2>2. stopped => stopped'
    BY <1>1, <1>6 DEF MainStep, StopClient, StartCheck, StartLook, StopProcessor,
                      StopReturn, flags
  <2>3. QED
    BY <1>3, <1>4, <1>6, <2>1, <2>2, MainMoves DEF Place, Thread
<1>7. CASE PollStep
  BY <1>7, PollImplements
<1>8. CASE StdinStep
  <2>1. UNCHANGED <<flags, procVars>>
    BY <1>8 DEF StdinStep, AttachStdin, AttachNoMore, GetCommand, Write, WriteFails,
                LeaveLoop, Close
  <2>2. QED
    BY <1>3, <1>4, <1>8, <2>1, StdinMoves DEF Place, Thread, flags
<1>9. CASE StdoutStep
  <2>1. UNCHANGED <<flags, procVars>>
    BY <1>9 DEF StdoutStep, AttachStdout, AttachNoMore, ReadLine, ReadEnd
  <2>2. QED
    BY <1>3, <1>4, <1>9, <2>1, StdoutMoves DEF Place, Thread, flags
<1>10. CASE ProcessorStep
  <2>1. UNCHANGED procVars
    BY <1>10 DEF ProcessorStep, ProcessorGivesUp, ProcessorStops, ProcessorEnds,
                 HandleLine
  <2>2. stopped => stopped'
    BY <1>1, <1>10 DEF ProcessorStep, ProcessorGivesUp, ProcessorStops, ProcessorEnds,
                       HandleLine, flags
  <2>3. QED
    BY <1>3, <1>4, <1>10, <2>1, <2>2, ProcessorMoves DEF Place, Thread
<1>11. CASE \E p \in Process : Exit(p)
  BY <1>11, ExitImplements
<1>12. CASE World /\ ~\E p \in Process : Exit(p)
  <2>1. ObeyTerminate => \E p \in Process : Exit(p)
    BY PiperAssumption DEF ObeyTerminate, TypeOK, ProcessType, Process
  <2>2. UNCHANGED <<pc, flags, procVars>>
    BY <1>12, <2>1 DEF World, Send, PrintLine, ReadCommand, Crash, Clock, GrowOld, AttachingEnds,
                       TimePasses, SetWatchdog
  <2>3. QED
    BY <1>3, <2>2 DEF flags
<1>13. CASE UNCHANGED vars
  BY <1>3, <1>13 DEF vars, flags
<1>14. QED
  BY <1>5, <1>6, <1>7, <1>8, <1>9, <1>10, <1>11, <1>12, <1>13, Steps

(* The safety part of ImplementsSupervisor: the poll thread, start_client() *)
(* and stop_client() launch one process at a time, only after the one       *)
(* before exited, and none after a stop that took effect.                   *)
THEOREM WatchdogIsSupervisor == Spec => Supervisor!SupervisorSpec
<1>1. Init => Supervisor!SupervisorInit
  BY SupervisorInits
<1>2. TypeOK /\ NotStarted /\ WatchdogInv /\ [Next]_vars
        => [Supervisor!SupervisorNext]_(Supervisor!supervisor)
  BY StepImplements
<1>3. QED
  BY <1>1, <1>2, Invariant, PTL DEF Spec, Supervisor!SupervisorSpec

-----------------------------------------------------------------------------
(* Commands                                                                 *)

Below(A, B) == \A u \in A, v \in B : u < v

(* A sequence made of two is increasing if both are and the first is below  *)
(* the second.                                                              *)
LEMMA Concat ==
  ASSUME NEW x \in Seq(Nat), NEW y \in Seq(Nat)
  PROVE  /\ x \o y \in Seq(Nat)
         /\ ToSet(x \o y) = ToSet(x) \cup ToSet(y)
         /\ Increasing(x \o y)
              <=> Increasing(x) /\ Increasing(y) /\ Below(ToSet(x), ToSet(y))
<1> DEFINE m == Len(x)
           n == Len(y)
<1>1. PICK z \in Seq(Nat) : z = x \o y
  BY ConcatProperties
<1>2. /\ m \in Nat /\ n \in Nat /\ DOMAIN x = 1..m /\ DOMAIN y = 1..n
      /\ DOMAIN z = 1..m + n
      /\ \A i \in 1..m + n : z[i] = IF i <= m THEN x[i] ELSE y[i - m]
  BY <1>1, ConcatProperties, LenProperties
<1> HIDE DEF m, n
<1>3. ASSUME NEW i \in 1..m PROVE i \in 1..m + n /\ z[i] = x[i]
  BY <1>2
<1>4. ASSUME NEW i \in 1..n PROVE m + i \in 1..m + n /\ z[m + i] = y[i]
  <2>1. m + i \in 1..m + n /\ ~(m + i <= m) /\ m + i - m = i
    BY <1>2
  <2>2. z[m + i] = y[m + i - m]
    BY <1>2, <2>1
  <2>3. QED
    BY <2>1, <2>2
<1>5. ASSUME NEW i \in 1..m + n
      PROVE  i \in 1..m \/ \E j \in 1..n : i = m + j
  <2>1. CASE i <= m
    BY <1>2, <2>1
  <2>2. CASE ~(i <= m)
    <3>1. i - m \in 1..n /\ i = m + (i - m)
      BY <1>2, <2>2
    <3>2. QED
      BY <3>1
  <2>3. QED
    BY <2>1, <2>2
<1>6. ToSet(z) = ToSet(x) \cup ToSet(y)
  <2>1. \A i \in 1..m : x[i] \in ToSet(z)
    BY <1>2, <1>3 DEF ToSet
  <2>2. \A i \in 1..n : y[i] \in ToSet(z)
    <3> SUFFICES ASSUME NEW i \in 1..n PROVE y[i] \in ToSet(z)
      OBVIOUS
    <3>1. m + i \in DOMAIN z /\ z[m + i] = y[i]
      BY <1>2, <1>4
    <3>2. QED
      BY <3>1 DEF ToSet
  <2>3. \A i \in 1..m + n : z[i] \in ToSet(x) \cup ToSet(y)
    <3> SUFFICES ASSUME NEW i \in 1..m + n PROVE z[i] \in ToSet(x) \cup ToSet(y)
      OBVIOUS
    <3>1. CASE i \in 1..m
      BY <1>2, <1>3, <3>1 DEF ToSet
    <3>2. CASE i \notin 1..m
      <4>1. PICK j \in 1..n : i = m + j
        BY <1>5, <3>2
      <4>2. z[i] = y[j]
        BY <1>4, <4>1
      <4>3. QED
        BY <1>2, <4>2 DEF ToSet
    <3>3. QED
      BY <3>1, <3>2
  <2>4. QED
    BY <1>2, <2>1, <2>2, <2>3 DEF ToSet
<1>7. ASSUME Increasing(z)
      PROVE  Increasing(x) /\ Increasing(y) /\ Below(ToSet(x), ToSet(y))
  <2>1. Increasing(x)
    BY <1>2, <1>3, <1>7 DEF Increasing
  <2>2. Increasing(y)
    <3> SUFFICES ASSUME NEW i \in 1..n, NEW j \in 1..n, i < j PROVE y[i] < y[j]
      BY <1>2 DEF Increasing
    <3>1. m + i < m + j
      BY <1>2
    <3>2. z[m + i] < z[m + j]
      BY <1>2, <1>4, <1>7, <3>1 DEF Increasing
    <3>3. QED
      BY <1>4, <3>2
  <2>3. Below(ToSet(x), ToSet(y))
    <3> SUFFICES ASSUME NEW i \in 1..m, NEW j \in 1..n PROVE x[i] < y[j]
      BY <1>2 DEF Below, ToSet
    <3>1. i < m + j
      BY <1>2
    <3>2. z[i] < z[m + j]
      BY <1>2, <1>3, <1>4, <1>7, <3>1 DEF Increasing
    <3>3. QED
      BY <1>3, <1>4, <3>2
  <2>4. QED
    BY <2>1, <2>2, <2>3
<1>8. ASSUME Increasing(x), Increasing(y), Below(ToSet(x), ToSet(y))
      PROVE  Increasing(z)
  <2> SUFFICES ASSUME NEW i \in 1..m + n, NEW j \in 1..m + n, i < j PROVE z[i] < z[j]
    BY <1>2 DEF Increasing
  <2>1. CASE i \in 1..m /\ j \in 1..m
    BY <1>2, <1>3, <1>8, <2>1 DEF Increasing
  <2>2. CASE i \in 1..m /\ j \notin 1..m
    <3>1. PICK k \in 1..n : j = m + k
      BY <1>5, <2>2
    <3>2. x[i] \in ToSet(x) /\ y[k] \in ToSet(y)
      BY <1>2, <2>2 DEF ToSet
    <3>3. x[i] < y[k]
      BY <1>8, <3>2 DEF Below
    <3>4. QED
      BY <1>3, <1>4, <2>2, <3>1, <3>3
  <2>3. CASE i \notin 1..m
    <3>1. PICK k \in 1..n : i = m + k
      BY <1>5, <2>3
    <3>2. j \notin 1..m
      BY <1>2, <3>1
    <3>3. PICK l \in 1..n : j = m + l
      BY <1>5, <3>2
    <3>4. k < l
      BY <1>2, <3>1, <3>3
    <3>5. y[k] < y[l]
      BY <1>2, <1>8, <3>4 DEF Increasing
    <3>6. QED
      BY <1>4, <3>1, <3>3, <3>5
  <2>4. QED
    BY <2>1, <2>2, <2>3
<1>9. QED
  BY <1>1, <1>6, <1>7, <1>8

Joined(a, b, c, d) == a \o b \o c \o d

(* What is in a sequence of four parts, and when it is increasing.          *)
ByParts(a, b, c, d) ==
  /\ ToSet(Joined(a, b, c, d)) = ToSet(a) \cup ToSet(b) \cup ToSet(c) \cup ToSet(d)
  /\ Increasing(Joined(a, b, c, d))
       <=> /\ Increasing(a) /\ Increasing(b) /\ Increasing(c) /\ Increasing(d)
           /\ Below(ToSet(a), ToSet(b)) /\ Below(ToSet(a), ToSet(c))
           /\ Below(ToSet(a), ToSet(d)) /\ Below(ToSet(b), ToSet(c))
           /\ Below(ToSet(b), ToSet(d)) /\ Below(ToSet(c), ToSet(d))

LEMMA FourParts ==
  ASSUME NEW a \in Seq(Nat), NEW b \in Seq(Nat), NEW c \in Seq(Nat), NEW d \in Seq(Nat)
  PROVE  ByParts(a, b, c, d)
<1>1. PICK ab \in Seq(Nat) : ab = a \o b
  BY Concat
<1>2. PICK abc \in Seq(Nat) : abc = ab \o c
  BY Concat
<1>3. PICK path \in Seq(Nat) : path = abc \o d
  BY Concat
<1>4. ToSet(ab) = ToSet(a) \cup ToSet(b)
      /\ (Increasing(ab) <=> Increasing(a) /\ Increasing(b) /\ Below(ToSet(a), ToSet(b)))
  BY <1>1, Concat
<1>5. ToSet(abc) = ToSet(ab) \cup ToSet(c)
      /\ (Increasing(abc) <=> Increasing(ab) /\ Increasing(c) /\ Below(ToSet(ab), ToSet(c)))
  BY <1>2, Concat
<1>6. ToSet(path) = ToSet(abc) \cup ToSet(d)
      /\ (Increasing(path) <=> Increasing(abc) /\ Increasing(d) /\ Below(ToSet(abc), ToSet(d)))
  BY <1>3, Concat
<1>7. \A A, B, C : Below(A \cup B, C) <=> Below(A, C) /\ Below(B, C)
  BY DEF Below
<1>8. path = Joined(a, b, c, d)
  BY <1>1, <1>2, <1>3 DEF Joined
<1> HIDE <1>1, <1>2, <1>3
<1>9. QED
  BY <1>4, <1>5, <1>6, <1>7, <1>8 DEF ByParts

IsEmpty(s) == s \in Seq(Nat) /\ ToSet(s) = {} /\ Increasing(s)

IsOne(s, h) == s \in Seq(Nat) /\ ToSet(s) = {h} /\ Increasing(s)

LEMMA ShortSequences ==
  /\ IsEmpty(<<>>)
  /\ \A h \in Nat : IsOne(<<h>>, h)
  /\ \A A : Below(A, {}) /\ Below({}, A)
<1>1. IsEmpty(<<>>)
  BY DEF IsEmpty, ToSet, Increasing
<1>2. ASSUME NEW h \in Nat PROVE IsOne(<<h>>, h)
  BY DEF IsOne, ToSet, Increasing
<1>3. QED
  BY <1>1, <1>2 DEF Below

(* The four parts of the path, and which process the second one is about.   *)
LEMMA PartsOfPath ==
  ASSUME TypeOK
  PROVE  /\ delivered \in Seq(Nat) /\ InPipe \in Seq(Nat)
         /\ OneIf(held) \in Seq(Nat) /\ stdin_queue \in Seq(Nat)
         /\ sent \in Nat /\ held \in Nat
         /\ \A p \in Process : unread[p] \in Seq(Nat)
<1> USE DEF TypeOK, CommandType
<1>1. sent \in Nat /\ held \in Nat
  BY PiperAssumption
<1>2. delivered \in Seq(Nat) /\ stdin_queue \in Seq(Nat)
      /\ \A p \in Process : unread[p] \in Seq(Nat)
  BY <1>1, SeqMonotonic
<1>3. OneIf(held) \in Seq(Nat)
  BY <1>1 DEF OneIf
<1>4. InPipe \in Seq(Nat)
  <2>1. CASE alive = {}
    BY <2>1 DEF InPipe
  <2>2. CASE alive # {}
    <3>1. (CHOOSE p \in alive : TRUE) \in Process
      <4>1. \A p \in alive : p \in Process
        BY PiperAssumption DEF ProcessType, Process
      <4>2. QED
        BY <2>2, <4>1
    <3>2. QED
      BY <1>2, <2>2, <3>1 DEF InPipe
  <2>3. QED
    BY <2>1, <2>2
<1>5. QED
  BY <1>1, <1>2, <1>3, <1>4

LEMMA InPipeOf ==
  ASSUME WatchdogInv, NEW p \in alive
  PROVE  alive = {p} /\ InPipe = unread[p]
BY DEF WatchdogInv, OneProcess, InPipe

(* Each command that was sent is in the path or missing, the path in order. *)
Orderly(path, failed, dropped, n) ==
  /\ Increasing(path)
  /\ ToSet(path) \cap (failed \cup dropped) = {}
  /\ ToSet(path) \cup (failed \cup dropped) = 1..n
  /\ failed \cap dropped = {}

OrderlyCommands == Orderly(CommandPath, lost, Dropped, sent)

LEMMA SendKeepsOrder ==
  ASSUME TypeOK, OrderlyCommands, Send
  PROVE  OrderlyCommands'
<1> DEFINE n == sent + 1
<1>1. PICK a \in Seq(Nat), b \in Seq(Nat), c \in Seq(Nat), d \in Seq(Nat) :
        a = delivered /\ b = InPipe /\ c = OneIf(held) /\ d = stdin_queue
  BY PartsOfPath
<1>2. sent \in Nat /\ n \in Nat
  BY PartsOfPath
<1>3. sent' = n /\ stdin_queue' = d \o <<n>>
      /\ UNCHANGED <<held, delivered, lost, alive, unread>>
  BY <1>1, <1>2, AppendIsConcat DEF Send, procVars
<1>4. PICK e \in Seq(Nat) : e = d \o <<n>>
  BY <1>2, Concat, ShortSequences DEF IsOne
<1>5. CommandPath = Joined(a, b, c, d) /\ CommandPath' = Joined(a, b, c, e)
      /\ Dropped' = Dropped
  BY <1>1, <1>3, <1>4 DEF CommandPath, Joined, InPipe, OneIf, Dropped
<1>6. ByParts(a, b, c, d) /\ ByParts(a, b, c, e)
  BY FourParts, Zenon
<1>7. ToSet(e) = ToSet(d) \cup {n}
      /\ (Below(ToSet(d), {n}) /\ Increasing(d) => Increasing(e))
  <2>1. PICK x \in Seq(Nat) : x = <<n>> /\ IsOne(x, n)
    BY <1>2, ShortSequences DEF IsOne
  <2>2. ToSet(d \o x) = ToSet(d) \cup ToSet(x)
    BY Concat
  <2>3. Increasing(d \o x) <=> Increasing(d) /\ Increasing(x) /\ Below(ToSet(d), ToSet(x))
    BY Concat
  <2>4. ToSet(x) = {n} /\ Increasing(x) /\ e = d \o x
    BY <1>4, <2>1 DEF IsOne
  <2>5. QED
    BY <2>2, <2>3, <2>4, Zenon
<1>8. \A A : A \subseteq 1..sent => Below(A, {n})
  BY <1>2 DEF Below
<1>9. \A A, B, C : Below(A, B) /\ Below(A, C) => Below(A, B \cup C)
  BY DEF Below
<1>10. ToSet(Joined(a, b, c, d)) \subseteq 1..sent /\ Increasing(Joined(a, b, c, d))
  BY <1>5 DEF OrderlyCommands, Orderly
<1>11. ToSet(a) \subseteq 1..sent /\ ToSet(b) \subseteq 1..sent
       /\ ToSet(c) \subseteq 1..sent /\ ToSet(d) \subseteq 1..sent
  BY <1>6, <1>10, Zenon DEF ByParts
<1>12. Increasing(Joined(a, b, c, e))
  <2>1. /\ Increasing(a) /\ Increasing(b) /\ Increasing(c) /\ Increasing(d)
        /\ Below(ToSet(a), ToSet(b)) /\ Below(ToSet(a), ToSet(c))
        /\ Below(ToSet(a), ToSet(d)) /\ Below(ToSet(b), ToSet(c))
        /\ Below(ToSet(b), ToSet(d)) /\ Below(ToSet(c), ToSet(d))
    BY <1>6, <1>10, Zenon DEF ByParts
  <2>2. Below(ToSet(a), {n}) /\ Below(ToSet(b), {n})
        /\ Below(ToSet(c), {n}) /\ Below(ToSet(d), {n})
    BY <1>8, <1>11, Zenon
  <2>3. Increasing(e) /\ Below(ToSet(a), ToSet(e)) /\ Below(ToSet(b), ToSet(e))
        /\ Below(ToSet(c), ToSet(e))
    <3>1. \A A : Below(A, ToSet(d)) /\ Below(A, {n}) => Below(A, ToSet(e))
      <4>1. ToSet(e) = ToSet(d) \cup {n}
        BY <1>7
      <4>2. \A A : Below(A, ToSet(d)) /\ Below(A, {n}) => Below(A, ToSet(d) \cup {n})
        BY <1>9, Zenon
      <4>3. QED
        BY <4>1, <4>2, Zenon
    <3>2. Increasing(e)
      BY <1>7, <2>1, <2>2, Zenon
    <3>3. QED
      BY <2>1, <2>2, <3>1, <3>2, Zenon
  <2>4. QED
    BY <1>6, <2>1, <2>3, Zenon DEF ByParts
<1>13. ToSet(Joined(a, b, c, e)) = ToSet(Joined(a, b, c, d)) \cup {n}
  BY <1>6, <1>7, Zenon DEF ByParts
<1>14. 1..n = 1..sent \cup {n} /\ n \notin 1..sent
  <2>1. \A i \in Nat : 1..i + 1 = 1..i \cup {i + 1} /\ i + 1 \notin 1..i
    OBVIOUS
  <2>2. QED
    BY ONLY <1>2, <2>1
<1>15. QED
  BY <1>3, <1>5, <1>12, <1>13, <1>14 DEF OrderlyCommands, Orderly

(* A command moves from the head of one part to the end of the one before.  *)
LEMMA Regroup ==
  ASSUME NEW x \in Seq(Nat), NEW h \in Nat, NEW y \in Seq(Nat)
  PROVE  /\ Append(x, h) \o y = x \o (<<h>> \o y)
         /\ Append(x, h) = x \o <<h>> /\ Append(x, h) \in Seq(Nat)
<1>1. Append(x, h) = x \o <<h>> /\ <<h>> \in Seq(Nat) /\ Append(x, h) \in Seq(Nat)
  BY AppendIsConcat, AppendProperties
<1>2. (x \o <<h>>) \o y = x \o (<<h>> \o y)
  BY <1>1, ConcatAssociative
<1>3. QED
  BY <1>1, <1>2

Moved(x, h, y) == Append(x, h) \o y = x \o (<<h>> \o y)

LEMMA RegroupMoved ==
  ASSUME NEW x \in Seq(Nat), NEW h \in Nat, NEW y \in Seq(Nat)
  PROVE  Moved(x, h, y)
BY Regroup DEF Moved

LEMMA EmptyPart ==
  ASSUME NEW x \in Seq(Nat)
  PROVE  x \o <<>> = x
BY ConcatEmptySeq

LEMMA HeadFirst ==
  ASSUME NEW s \in Seq(Nat), s # <<>>
  PROVE  Head(s) \in Nat /\ Tail(s) \in Seq(Nat) /\ s = <<Head(s)>> \o Tail(s)
BY HeadTailProperties

LEMMA GetKeepsOrder ==
  ASSUME TypeOK, OrderlyCommands, GetCommand
  PROVE  OrderlyCommands'
<1>1. PICK a \in Seq(Nat), b \in Seq(Nat), d \in Seq(Nat) :
        a = delivered /\ b = InPipe /\ d = stdin_queue
  BY PartsOfPath
<1>2. held = 0 /\ d # <<>> /\ held' = Head(d) /\ stdin_queue' = Tail(d)
      /\ UNCHANGED <<sent, delivered, unread, alive, lost>>
  BY <1>1 DEF GetCommand, TypeOK, CommandType, At, procVars
<1>3. PICK h \in Nat, q \in Seq(Nat) : h = Head(d) /\ q = Tail(d) /\ d = <<h>> \o q
  BY <1>2, HeadFirst
<1>4. h # 0
  BY <1>1, <1>2, <1>3 DEF TypeOK, CommandType
<1>5. OneIf(held') = <<h>> /\ OneIf(held) = <<>> /\ InPipe' = InPipe
  BY <1>2, <1>3, <1>4 DEF OneIf, InPipe
<1>6. PICK ab \in Seq(Nat) : ab = a \o b
  BY Concat
<1>7. CommandPath' = CommandPath
  <2>1. (ab \o <<h>>) \o q = ab \o (<<h>> \o q)
    <3>1. Append(ab, h) \o q = ab \o (<<h>> \o q) /\ Append(ab, h) = ab \o <<h>>
      BY <1>3, <1>6, Regroup
    <3>2. QED
      BY <3>1
  <2>2. ab \o <<>> = ab
    BY <1>6, EmptyPart
  <2>3. CommandPath' = (ab \o <<h>>) \o q
    BY <1>1, <1>2, <1>3, <1>5, <1>6 DEF CommandPath
  <2>4. CommandPath = (ab \o <<>>) \o d
    BY <1>1, <1>5, <1>6 DEF CommandPath
  <2>5. QED
    BY <1>3, <2>1, <2>2, <2>3, <2>4
<1>8. Dropped' = Dropped
  BY <1>2 DEF Dropped
<1>9. QED
  BY <1>2, <1>7, <1>8 DEF OrderlyCommands

LEMMA WriteKeepsOrder ==
  ASSUME TypeOK, WatchdogInv, OrderlyCommands, Write
  PROVE  OrderlyCommands'
<1>1. PICK a \in Seq(Nat), b \in Seq(Nat), h \in Nat, d \in Seq(Nat) :
        a = delivered /\ b = InPipe /\ h = held /\ d = stdin_queue
  BY PartsOfPath
<1>2. pipe \in alive /\ alive = {pipe} /\ b = unread[pipe] /\ pipe \in Process /\ h # 0
  BY <1>1, InPipeOf, PiperAssumption
     DEF Write, TypeOK, ProcessType, CommandType, Process
<1>3. unread' = [unread EXCEPT ![pipe] = Append(b, h)] /\ held' = 0
      /\ UNCHANGED <<pipe, sent, delivered, stdin_queue, alive, lost>>
  BY <1>1, <1>2 DEF Write, procVars
<1>4. unread'[pipe] = Append(b, h) /\ \A p \in Process : p # pipe => unread'[p] = unread[p]
  BY <1>2, <1>3 DEF TypeOK, CommandType
<1>5. InPipe' = Append(b, h)
  BY <1>2, <1>3, <1>4 DEF InPipe
<1>6. CommandPath = a \o b \o <<h>> \o d
  BY <1>1, <1>2 DEF CommandPath, OneIf
<1>7. CommandPath' = a \o Append(b, h) \o <<>> \o d
  BY <1>1, <1>3, <1>5 DEF CommandPath, OneIf
<1>8. CommandPath' = CommandPath
  <2>1. PICK e \in Seq(Nat) : e = Append(b, h) /\ e = b \o <<h>>
    BY <1>1, Regroup
  <2>2. PICK x \in Seq(Nat) : x = <<h>>
    BY <1>1, ShortSequences DEF IsOne
  <2>3. PICK ae \in Seq(Nat) : ae = a \o e
    BY <1>1, <2>1, Concat
  <2>4. ae \o <<>> = ae
    BY <2>3, EmptyPart
  <2>5. a \o (b \o x) = (a \o b) \o x
    BY <1>1, <2>2, ConcatAssociative
  <2>6. QED
    BY <1>6, <1>7, <2>1, <2>2, <2>3, <2>4, <2>5
<1>9. Dropped' = Dropped
  BY <1>2, <1>3, <1>4 DEF Dropped
<1>10. QED
  BY <1>3, <1>8, <1>9 DEF OrderlyCommands

LEMMA ReadKeepsOrder ==
  ASSUME TypeOK, WatchdogInv, OrderlyCommands, NEW p \in Process, ReadCommand(p)
  PROVE  OrderlyCommands'
<1>1. PICK a \in Seq(Nat), b \in Seq(Nat), c \in Seq(Nat), d \in Seq(Nat) :
        a = delivered /\ b = InPipe /\ c = OneIf(held) /\ d = stdin_queue
  BY PartsOfPath
<1>2. p \in alive /\ alive = {p} /\ b = unread[p] /\ b # <<>>
  BY <1>1, InPipeOf DEF ReadCommand
<1>3. PICK h \in Nat, q \in Seq(Nat) : h = Head(b) /\ q = Tail(b) /\ b = <<h>> \o q
  BY <1>2, HeadFirst
<1>4. unread' = [unread EXCEPT ![p] = q] /\ delivered' = Append(a, h)
      /\ UNCHANGED <<sent, held, stdin_queue, alive, lost>>
  BY <1>1, <1>2, <1>3 DEF ReadCommand, procVars
<1>5. unread'[p] = q /\ \A r \in Process : r # p => unread'[r] = unread[r]
  BY <1>4 DEF TypeOK, CommandType
<1>6. InPipe' = q
  BY <1>2, <1>4, <1>5 DEF InPipe
<1>7. Append(a, h) \o q = a \o b
  <2>1. Moved(a, h, q)
    BY RegroupMoved, Zenon
  <2>2. QED
    BY <1>3, <2>1 DEF Moved
<1>8. CommandPath' = CommandPath
  BY <1>1, <1>4, <1>6, <1>7 DEF CommandPath, OneIf
<1>9. Dropped' = Dropped
  BY <1>2, <1>4, <1>5 DEF Dropped
<1>10. QED
  BY <1>4, <1>8, <1>9 DEF OrderlyCommands

(* What leaves the middle of the path becomes missing.                      *)
LEMMA FailureKeepsOrder ==
  ASSUME TypeOK, OrderlyCommands, WriteFails
  PROVE  OrderlyCommands'
<1>1. PICK a \in Seq(Nat), b \in Seq(Nat), h \in Nat, d \in Seq(Nat) :
        a = delivered /\ b = InPipe /\ h = held /\ d = stdin_queue
  BY PartsOfPath
<1>2. h # 0 /\ lost' = lost \cup {h} /\ held' = 0
      /\ UNCHANGED <<sent, stdin_queue, delivered, unread, alive>>
  BY <1>1 DEF WriteFails, TypeOK, CommandType, procVars
<1>3. PICK x \in Seq(Nat), e \in Seq(Nat) : x = <<h>> /\ e = <<>> /\ IsOne(x, h) /\ IsEmpty(e)
  BY ShortSequences DEF IsOne, IsEmpty
<1>4. CommandPath = Joined(a, b, x, d) /\ CommandPath' = Joined(a, b, e, d)
      /\ Dropped' = Dropped
  BY <1>1, <1>2, <1>3 DEF CommandPath, Joined, InPipe, OneIf, Dropped
<1>5. Increasing(Joined(a, b, x, d))
  BY <1>4 DEF OrderlyCommands, Orderly
<1>6. ByParts(a, b, x, d) /\ ByParts(a, b, e, d)
  BY FourParts, Zenon
<1>7. Increasing(Joined(a, b, e, d))
  BY <1>3, <1>5, <1>6, ShortSequences, Zenon DEF IsEmpty, ByParts
<1>8. /\ ToSet(CommandPath) = ToSet(a) \cup ToSet(b) \cup {h} \cup ToSet(d)
      /\ ToSet(CommandPath') = ToSet(a) \cup ToSet(b) \cup ToSet(d)
  BY <1>3, <1>4, <1>6 DEF IsEmpty, IsOne, ByParts
<1>9. h \notin ToSet(a) \cup ToSet(b) \cup ToSet(d)
  <2>1. Below(ToSet(a), {h}) /\ Below(ToSet(b), {h}) /\ Below({h}, ToSet(d))
    BY <1>3, <1>5, <1>6, Zenon DEF IsOne, ByParts
  <2>2. ~(h < h)
    OBVIOUS
  <2>3. QED
    BY <2>1, <2>2 DEF Below
<1>10. QED
  BY <1>2, <1>4, <1>7, <1>8, <1>9 DEF OrderlyCommands, Orderly

LEMMA ExitKeepsOrder ==
  ASSUME TypeOK, WatchdogInv, OrderlyCommands, NEW p \in Process, Exit(p)
  PROVE  OrderlyCommands'
<1>1. PICK a \in Seq(Nat), b \in Seq(Nat), c \in Seq(Nat), d \in Seq(Nat) :
        a = delivered /\ b = InPipe /\ c = OneIf(held) /\ d = stdin_queue
  BY PartsOfPath
<1>2. alive = {p} /\ b = unread[p] /\ alive' = {}
      /\ UNCHANGED <<sent, held, stdin_queue, delivered, unread, lost>>
  BY <1>1, InPipeOf DEF Exit, inVars
<1>3. PICK e \in Seq(Nat) : e = <<>> /\ IsEmpty(e)
  BY ShortSequences DEF IsEmpty
<1>4. CommandPath = Joined(a, b, c, d) /\ CommandPath' = Joined(a, e, c, d)
      /\ Dropped' = Dropped \cup ToSet(b)
  <2>1. Dropped' = Dropped \cup ToSet(b)
    BY <1>2 DEF Dropped
  <2>2. QED
    BY <1>1, <1>2, <1>3, <2>1 DEF CommandPath, Joined, InPipe, OneIf
<1>5. Increasing(Joined(a, b, c, d))
  BY <1>4 DEF OrderlyCommands, Orderly
<1>6. ByParts(a, b, c, d) /\ ByParts(a, e, c, d)
  BY FourParts, Zenon
<1>7. Increasing(Joined(a, e, c, d))
  BY <1>3, <1>5, <1>6, ShortSequences, Zenon DEF IsEmpty, ByParts
<1>8. /\ ToSet(CommandPath) = ToSet(a) \cup ToSet(b) \cup ToSet(c) \cup ToSet(d)
      /\ ToSet(CommandPath') = ToSet(a) \cup ToSet(c) \cup ToSet(d)
  BY <1>3, <1>4, <1>6 DEF IsEmpty, ByParts
<1>9. ToSet(b) \cap (ToSet(a) \cup ToSet(c) \cup ToSet(d)) = {}
  <2>1. Below(ToSet(a), ToSet(b)) /\ Below(ToSet(b), ToSet(c)) /\ Below(ToSet(b), ToSet(d))
    BY <1>5, <1>6, Zenon DEF ByParts
  <2>2. ToSet(b) \subseteq Nat
    BY RangeOfSeq DEF ToSet, Range
  <2>3. \A u \in Nat : ~(u < u)
    OBVIOUS
  <2>4. QED
    BY <2>1, <2>2, <2>3 DEF Below
<1>10. QED
  BY <1>2, <1>4, <1>7, <1>8, <1>9 DEF OrderlyCommands, Orderly

(* A new process has nothing in its pipe.                                   *)
LEMMA LaunchKeepsOrder ==
  ASSUME TypeOK, OrderlyCommands, Popen, alive = {},
         UNCHANGED <<stdin_queue, held, unread, sent, delivered, lost>>
  PROVE  OrderlyCommands'
<1>1. launched + 1 \in Process \ (1..launched) /\ alive' = {launched + 1}
  BY LaunchedIsNumber, PiperAssumption DEF Popen, Process
<1>2. unread[launched + 1] = <<>>
  BY <1>1 DEF TypeOK, CommandType
<1>3. InPipe' = <<>> /\ InPipe = <<>>
  BY <1>1, <1>2 DEF InPipe
<1>4. CommandPath' = CommandPath
  BY <1>3 DEF CommandPath, OneIf
<1>5. Dropped' = Dropped
  BY <1>1, <1>2, ShortSequences DEF Dropped, IsEmpty
<1>6. QED
  BY <1>4, <1>5 DEF OrderlyCommands

(* A stop is not taken back, and a process is only launched before the      *)
(* threads run or by the poll thread.                                       *)
LEMMA OnlyForward ==
  ASSUME FlagType, [Next]_vars
  PROVE  /\ stopped => stopped'
         /\ \/ launched' = launched /\ alive' \subseteq alive
            \/ Popen /\ (StartClient \/ Relaunch)
<1> USE DEF flags, procVars
<1>1. stopped \in BOOLEAN
  BY DEF FlagType
<1>2. CASE StartClient
  BY <1>2 DEF StartClient
<1>3. CASE MainStep \/ StopClient
  BY <1>1, <1>3 DEF MainStep, StopClient, StartCheck, StartLook, StopProcessor, StopReturn
<1>4. CASE PollStep
  BY <1>1, <1>4 DEF PollStep, PollTop, PollAlive, PollStartFailed, FailForgets,
    FailReports, PollExited, Relaunch, RelaunchRaises, WatchSilent, WatchHeard,
    PollTerminates, PollRaises
<1>5. CASE StdinStep
  BY <1>5 DEF StdinStep, AttachStdin, AttachNoMore, GetCommand, Write, WriteFails, LeaveLoop, Close
<1>6. CASE StdoutStep
  BY <1>6 DEF StdoutStep, AttachStdout, AttachNoMore, ReadLine, ReadEnd
<1>7. CASE ProcessorStep
  BY <1>1, <1>7 DEF ProcessorStep, ProcessorGivesUp, ProcessorStops, ProcessorEnds,
                    HandleLine
<1>8. CASE World
  BY <1>8 DEF World, Send, PrintLine, ReadCommand, Crash, ObeyTerminate, Exit, Clock, GrowOld,
              AttachingEnds, TimePasses, SetWatchdog
<1>9. CASE UNCHANGED vars
  BY <1>9 DEF vars
<1>10. QED
  BY <1>2, <1>3, <1>4, <1>5, <1>6, <1>7, <1>8, <1>9, Steps

(* Why a write can fail.                                                    *)
Excused == stopped \/ launched > 1 \/ alive = {}

LEMMA ExcusedStays ==
  ASSUME TypeOK, NotStarted, WatchdogInv, [Next]_vars, ~At("main", "new"), Excused
  PROVE  Excused'
<1>1. launched \in Nat
  BY LaunchedIsNumber
<1>2. CASE stopped
  BY <1>2, OnlyForward DEF TypeOK, Excused
<1>3. CASE launched' = launched /\ alive' \subseteq alive /\ ~stopped
  BY <1>3 DEF Excused
<1>4. CASE Relaunch
  <2>1. pipe # 0 /\ pipe \in 0..launched /\ launched' = launched + 1
    BY <1>4 DEF Relaunch, Popen, At, WatchdogInv, PlaceOfProcess, TypeOK, ProcessType
  <2>2. launched' > 1
    BY <1>1, <2>1
  <2>3. QED
    BY <2>2 DEF Excused
<1>5. CASE StartClient
  BY <1>5 DEF StartClient
<1>6. QED
  BY <1>2, <1>3, <1>4, <1>5, OnlyForward DEF TypeOK

Leaving == {"close", "closing"}

(* The strengthening: a pipe is only closed, and a write only fails, with   *)
(* an excuse.                                                               *)
CommandsInv ==
  /\ OrderlyCommands
  /\ At("main", "new") => closed = {} /\ lost = {}
  /\ lost # {} \/ closed # {} \/ pc["stdin"] \in Leaving => Excused

(* A write fails with an excuse: if the poll thread still watches, the      *)
(* process exited; if it does not, the client was stopped or the process is *)
(* being replaced.                                                          *)
LEMMA FailureIsExcused ==
  ASSUME TypeOK, NotStarted, WatchdogInv, CommandsInv, WriteFails
  PROVE  Excused
<1>1. pc["poll"] \in PollPlace /\ ~At("poll", "new")
  BY DEF TypeOK, PlaceType, WriteFails, NotStarted, WatchdogInv, PlaceOfProcess, At, Thread
<1>2. CASE pipe \in closed
  BY <1>2 DEF CommandsInv
<1>3. CASE pipe \notin alive /\ pc["poll"] \in Watching
  BY <1>3 DEF WatchdogInv, PlaceOfProcess, Excused
<1>4. CASE pc["poll"] \notin Watching
  BY <1>1, <1>4 DEF WatchdogInv, PlaceOfProcess, StopIsKnown, Excused, Watching, PollPlace, At
<1>5. QED
  BY <1>2, <1>3, <1>4 DEF WriteFails

LEMMA OrderStep ==
  ASSUME TypeOK, WatchdogInv, OrderlyCommands, [Next]_vars
  PROVE  OrderlyCommands'
<1>1. CASE Send \/ GetCommand \/ Write \/ WriteFails \/ \E p \in Process : ReadCommand(p)
  BY <1>1, SendKeepsOrder, GetKeepsOrder, WriteKeepsOrder, FailureKeepsOrder,
     ReadKeepsOrder
<1>2. CASE \E p \in Process : Exit(p)
  BY <1>2, ExitKeepsOrder
<1>3. CASE StartClient \/ Relaunch
  <2>1. alive = {}
    BY <1>3 DEF StartClient, Relaunch, WatchdogInv, PlaceOfProcess, At
  <2>2. Popen /\ UNCHANGED <<stdin_queue, held, unread, sent, delivered, lost>>
    BY <1>3 DEF StartClient, Relaunch, inVars
  <2>3. QED
    BY <2>1, <2>2, LaunchKeepsOrder
<1>4. CASE /\ ~Send /\ ~GetCommand /\ ~Write /\ ~WriteFails
           /\ ~StartClient /\ ~Relaunch
           /\ \A p \in Process : ~ReadCommand(p) /\ ~Exit(p)
  <2>1. ~ObeyTerminate /\ ~\E p \in Process : Crash(p)
    <3>1. \A p \in condemned : p \in Process
      BY PiperAssumption DEF TypeOK, ProcessType, Process
    <3>2. \A p \in Process : ~Exit(p)
      BY <1>4
    <3>3. QED
      BY <3>1, <3>2 DEF ObeyTerminate, Crash
  <2> DEFINE commands == <<stdin_queue, held, unread, sent, delivered, lost, alive>>
  <2>2. UNCHANGED commands
    BY <1>4, <2>1, Steps
    DEF MainStep, StopClient, StartCheck, StartLook,
      StopProcessor, StopReturn, PollStep, PollTop, PollAlive, PollStartFailed,
      FailForgets, FailReports, PollExited, RelaunchRaises, WatchSilent, WatchHeard,
      PollTerminates, PollRaises, StdinStep, AttachStdin, AttachNoMore, LeaveLoop,
      Close, StdoutStep, AttachStdout, ReadLine, ReadEnd, ProcessorStep,
      ProcessorGivesUp, ProcessorStops, ProcessorEnds, HandleLine, World, PrintLine,
      Clock, GrowOld, AttachingEnds, TimePasses, SetWatchdog, inVars, procVars, vars
  <2>3. QED
    BY <2>2 DEF OrderlyCommands, CommandPath, InPipe, OneIf, Dropped
<1>5. QED
  BY <1>1, <1>2, <1>3, <1>4

LEMMA StartIsOver ==
  ASSUME PlaceType, [Next]_vars, ~At("main", "new")
  PROVE  ~At("main", "new")'
<1> USE DEF At
<1>1. CASE MainStep \/ StopClient
  <2>1. ASSUME NEW place \in MainPlace \ {"new"}, Goto("main", place)
        PROVE  pc'["main"] # "new"
    BY <2>1, GotoMoves DEF Place, Thread
  <2>2. \E place \in MainPlace \ {"new"} : Goto("main", place)
    BY <1>1 DEF MainStep, StopClient, StartCheck, StartLook, StopProcessor, StopReturn,
                MainPlace
  <2>3. QED
    BY <2>1, <2>2
<1>2. ASSUME NEW t \in Thread \ {"main"}, NEW place \in Place, Goto(t, place)
      PROVE  pc'["main"] # "new"
  BY <1>2, GotoMoves DEF Thread
<1>3. CASE PollStep
  BY <1>2, <1>3, PollMoves DEF Place, Thread
<1>4. CASE StdinStep
  BY <1>2, <1>4, StdinMoves DEF Place, Thread
<1>5. CASE StdoutStep
  BY <1>2, <1>5, StdoutMoves DEF Place, Thread
<1>6. CASE ProcessorStep
  BY <1>2, <1>6, ProcessorMoves DEF Place, Thread
<1>7. CASE World \/ UNCHANGED vars
  BY <1>7, WorldMoves DEF vars
<1>8. CASE StartClient
  BY <1>8 DEF StartClient
<1>9. QED
  BY <1>1, <1>3, <1>4, <1>5, <1>6, <1>7, <1>8, Steps

(* Only these three steps need an excuse.                                   *)
LEMMA NothingToExcuse ==
  ASSUME PlaceType, [Next]_vars, ~WriteFails, ~LeaveLoop, ~Close
  PROVE  /\ UNCHANGED <<closed, lost>>
         /\ pc'["stdin"] \in Leaving => pc["stdin"] \in Leaving
<1> USE DEF Leaving
<1>1. UNCHANGED <<closed, lost>>
  BY Steps DEF StartClient, MainStep, StopClient, StartCheck, StartLook,
    StopProcessor, StopReturn, PollStep, PollTop, PollAlive, PollStartFailed,
    FailForgets, FailReports, PollExited, Relaunch, RelaunchRaises, WatchSilent,
    WatchHeard, PollTerminates, PollRaises, StdinStep, AttachStdin, AttachNoMore,
    GetCommand, Write, StdoutStep, AttachStdout, ReadLine, ReadEnd, ProcessorStep,
    ProcessorGivesUp, ProcessorStops, ProcessorEnds, HandleLine, World, Send,
    PrintLine, ReadCommand, Crash, ObeyTerminate, Exit, Clock, GrowOld, AttachingEnds,
    TimePasses, SetWatchdog, inVars, vars
<1>2. CASE StdinStep
  <2>1. \E place \in StdinPlace \ Leaving : Goto("stdin", place)
    BY <1>2 DEF StdinStep, AttachStdin, AttachNoMore, GetCommand, Write, StdinPlace
  <2>2. pc'["stdin"] \notin Leaving
    BY <2>1, GotoMoves DEF Place, Thread
  <2>3. QED
    BY <1>1, <2>2
<1>3. ASSUME NEW t \in Thread \ {"stdin"}, NEW place \in Place, Goto(t, place)
      PROVE  pc'["stdin"] = pc["stdin"]
  BY <1>3, GotoMoves DEF Thread
<1>4. CASE MainStep \/ StopClient
  BY <1>1, <1>3, <1>4, MainMoves DEF Place, Thread
<1>5. CASE PollStep
  BY <1>1, <1>3, <1>5, PollMoves DEF Place, Thread
<1>6. CASE StdoutStep
  BY <1>1, <1>3, <1>6, StdoutMoves DEF Place, Thread
<1>7. CASE ProcessorStep
  BY <1>1, <1>3, <1>7, ProcessorMoves DEF Place, Thread
<1>8. CASE World \/ UNCHANGED vars
  BY <1>1, <1>8, WorldMoves DEF vars
<1>9. CASE StartClient
  <2>1. pc'["stdin"] = "begin"
    BY <1>9 DEF StartClient, PlaceType, Thread
  <2>2. QED
    BY <1>1, <2>1
<1>10. QED
  BY <1>2, <1>4, <1>5, <1>6, <1>7, <1>8, <1>9, Steps

LEMMA ExcuseStep ==
  ASSUME TypeOK, NotStarted, WatchdogInv, CommandsInv, [Next]_vars
  PROVE  /\ At("main", "new")' => closed' = {} /\ lost' = {}
         /\ lost' # {} \/ closed' # {} \/ pc'["stdin"] \in Leaving => Excused'
<1>1. PlaceType
  BY DEF TypeOK
<1>2. CASE At("main", "new")
  <2>1. pc["stdin"] = "new"
    BY <1>2 DEF NotStarted, Thread
  <2>2. ~WriteFails /\ ~LeaveLoop /\ ~Close
    BY <2>1 DEF WriteFails, LeaveLoop, Close, At
  <2>3. QED
    BY <1>1, <1>2, <2>1, <2>2, NothingToExcuse DEF CommandsInv, At, Leaving
<1>3. CASE ~At("main", "new")
  <2>1. Excused => Excused'
    BY <1>3, ExcusedStays
  <2>2. ~At("main", "new")'
    BY <1>1, <1>3, StartIsOver
  <2>3. CASE WriteFails
    BY <2>1, <2>2, <2>3, FailureIsExcused
  <2>4. CASE LeaveLoop \/ Close
    <3>1. At("stdin", "close") \/ At("stdin", "closing") \/ stopped \/ start_failed
      BY <2>4 DEF LeaveLoop, Close
    <3>2. start_failed => stopped
      BY DEF WatchdogInv, StopIsKnown, At
    <3>3. Excused
      BY <3>1, <3>2 DEF CommandsInv, Excused, Leaving, At
    <3>4. QED
      BY <2>1, <2>2, <3>3
  <2>5. CASE ~WriteFails /\ ~LeaveLoop /\ ~Close
    BY <1>1, <2>1, <2>2, <2>5, NothingToExcuse DEF CommandsInv
  <2>6. QED
    BY <2>3, <2>4, <2>5
<1>4. QED
  BY <1>2, <1>3

LEMMA CommandsInvInit == Init => CommandsInv
<1> SUFFICES ASSUME Init PROVE CommandsInv
  OBVIOUS
<1>1. CommandPath = <<>> /\ lost = {} /\ closed = {} /\ sent = 0 /\ alive = {}
      /\ pc["stdin"] \notin Leaving
  BY DEF Init, CommandPath, InPipe, OneIf, Thread, Leaving
<1>2. Dropped = {}
  BY ShortSequences DEF Init, Dropped, IsEmpty
<1>3. 1..sent = {}
  BY <1>1
<1>4. QED
  BY <1>1, <1>2, <1>3, ShortSequences DEF CommandsInv, OrderlyCommands, Orderly, Excused, IsEmpty

(* Every command was read by a process, is on its way, was left in the pipe *)
(* of a process that exited or is lost, those that were read and those on   *)
(* their way in the order of the calls of send(), and lost only by a write  *)
(* with an excuse - over any number of restarts.                            *)
THEOREM CommandsKeepOrder == Spec => []CommandsInOrder
<1>1. TypeOK /\ NotStarted /\ WatchdogInv /\ CommandsInv /\ [Next]_vars => CommandsInv'
  <2> SUFFICES ASSUME TypeOK, NotStarted, WatchdogInv, CommandsInv, [Next]_vars
               PROVE  CommandsInv'
    OBVIOUS
  <2>1. OrderlyCommands'
    BY OrderStep DEF CommandsInv
  <2>2. QED
    BY <2>1, ExcuseStep DEF CommandsInv
<1>2. CommandsInv => CommandsInOrder
  BY DEF CommandsInv, OrderlyCommands, Orderly, CommandsInOrder, Excused
<1>3. QED
  BY <1>1, <1>2, CommandsInvInit, Invariant, PTL DEF Spec

-----------------------------------------------------------------------------
(* The stdout watchdog                                                      *)

(* A process that is watched since its launch is silent for as long as the  *)
(* time of the last reset is old: every reset but none of the other steps   *)
(* begins both anew.                                                        *)
ResetWithSilence == watched => watchdog /\ (expired => silent)

LEMMA ResetWithSilenceStep ==
  ASSUME FlagType, ResetWithSilence, [Next]_vars
  PROVE  ResetWithSilence'
<1> USE DEF ResetWithSilence, FlagType
<1>1. CASE Relaunch
  BY <1>1 DEF Relaunch
<1>2. CASE ProcessorStep
  <2>1. CASE UNCHANGED watchVars
    BY <2>1 DEF watchVars
  <2>2. ASSUME NEW packet \in BOOLEAN, NEW stops \in BOOLEAN, HandleLine(packet, stops)
        PROVE  ResetWithSilence'
    BY <2>2 DEF HandleLine
  <2>3. QED
    BY <1>2, <2>1, <2>2 DEF ProcessorStep, ProcessorGivesUp, ProcessorStops,
                            ProcessorEnds, timeVars
<1>3. CASE TimePasses
  BY <1>3 DEF TimePasses
<1>4. CASE SetWatchdog
  BY <1>4 DEF SetWatchdog
<1>5. CASE ~(Relaunch \/ ProcessorStep \/ TimePasses \/ SetWatchdog)
  <2>1. UNCHANGED watchVars
    BY <1>5, Steps DEF StartClient, MainStep, StopClient, StartCheck, StartLook,
      StopProcessor, StopReturn, PollStep, PollTop, PollAlive, PollStartFailed,
      FailForgets, FailReports, PollExited, RelaunchRaises, WatchSilent, WatchHeard,
      PollTerminates, PollRaises, StdinStep, AttachStdin, AttachNoMore, GetCommand,
      Write, WriteFails, LeaveLoop, Close, StdoutStep, AttachStdout, ReadLine, ReadEnd,
      World, Send, PrintLine, ReadCommand, Crash, ObeyTerminate, Exit, Clock, GrowOld,
      AttachingEnds, timeVars, vars
  <2>2. QED
    BY <2>1 DEF watchVars
<1>6. QED
  BY <1>1, <1>2, <1>3, <1>4, <1>5

(* Only a step of the poll thread terminates a process.                     *)
LEMMA OnlyPollTerminates ==
  ASSUME [Next]_vars, At("poll", "watch"), ~(condemned' \subseteq condemned)
  PROVE  Silent
BY Steps DEF StartClient, Popen, MainStep, StopClient, StartCheck, StartLook,
  StopProcessor, StopReturn, PollStep, PollTop, PollAlive, PollStartFailed, FailForgets,
  FailReports, PollExited, Relaunch, RelaunchRaises, WatchSilent, WatchHeard,
  PollTerminates, PollRaises, StdinStep, AttachStdin, AttachNoMore, GetCommand, Write,
  WriteFails, LeaveLoop, Close, StdoutStep, AttachStdout, ReadLine, ReadEnd, ProcessorStep,
  ProcessorGivesUp, ProcessorStops, ProcessorEnds, HandleLine, World, Send, PrintLine,
  ReadCommand, Crash, ObeyTerminate, Exit, Clock, GrowOld, AttachingEnds, TimePasses, SetWatchdog, At, procVars,
  vars

(* A process that was launched again while the stdout watchdog was on is    *)
(* never terminated by it unless it was silent for the timeout since its    *)
(* launch, whenever the stdout watchdog was switched on.                    *)
THEOREM TerminatedForSilence == Spec => SilentBeforeTerminated
<1>1. Init => ResetWithSilence
  BY DEF Init, ResetWithSilence
<1>2. TypeOK /\ ResetWithSilence /\ [Next]_vars => ResetWithSilence'
  BY ResetWithSilenceStep DEF TypeOK
<1>3. ResetWithSilence /\ [Next]_vars
        => [At("poll", "watch") /\ ~(condemned' \subseteq condemned) /\ watched
              => silent]_vars
  BY OnlyPollTerminates DEF ResetWithSilence, Silent
<1>4. QED
  BY <1>1, <1>2, <1>3, TypeCorrect, PTL DEF Spec, SilentBeforeTerminated
=============================================================================
