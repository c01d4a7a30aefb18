----------------------------- MODULE ServiceProofs -----------------------------
(***************************************************************************)
(* Theorems about the Windows service under the window that controls it     *)
(* (ServiceControls with WinService), for every size of the pipe and every  *)
(* number of restarts of the machine.                                       *)
(*                                                                          *)
(* serviceMain and serviceControlHandler write serviceStatus without a      *)
(* lock.  What bounds the damage is where each of the two can be when the   *)
(* other writes: Service states it, and it is inductive.                    *)
(***************************************************************************)
EXTENDS ServiceControls, TLAPS

\* serviceMain before it has a server, in its loop, and on the way out.
Starting == {"down", "pending", "report_pending", "event", "spawn"}
Loop == {"wait_stop", "terminate", "wait_server", "drain"}
Leaving == {"report_stopped", "returned"}

Status == [state : States, failed : BOOLEAN]

Typed ==
    /\ status \in Status /\ reported \in Status
    /\ accepts \in BOOLEAN /\ stopEvent \in BOOLEAN
    /\ pc \in MainPcs /\ ctl \in {"idle", "report", "event", "done"}
    /\ server \in Alive \cup {"none", "terminated", "died"}

\* TerminateProcess has been called for the server.
ToldToEnd == {"terminating", "terminated", "spared"}

\* A server runs only under the loop, or after a crash; it is told to end only for a stop.
ServerHeld ==
    /\ pc \in Starting => server = "none"
    /\ pc \in {"running", "report_running"} \cup Loop => server # "none"
    /\ server = "running" => pc \in {"running", "report_running", "crashed"} \cup Loop
    /\ server \in ToldToEnd => ctl = "done" /\ pc \in Leaving \cup {"crashed"}

\* The handler is called only after the service has told that it runs, and the event is
\* the last thing it does.
HandlerCalled ==
    /\ ctl # "idle" => server # "none" /\ pc \in Loop \cup Leaving \cup {"crashed"}
    /\ reported.state = "RUNNING" =>
          server # "none" /\ pc \in Loop \cup Leaving \cup {"crashed"}
    /\ stopEvent <=> ctl = "done"
    /\ pc = "terminate" => stopEvent

\* The states serviceMain has written and told at each of its steps.
StatusWritten ==
    /\ pc = "report_pending" => status.state = "START_PENDING"
    /\ pc \in {"report_running"} \cup Loop => status.state \in {"RUNNING", "STOP_PENDING"}
    /\ pc \in {"event", "spawn", "running", "report_running"} \cup Loop =>
          reported.state # "STOPPED"
    /\ pc = "crashed" /\ server = "running" => status.state \in {"RUNNING", "STOP_PENDING"}

\* Unless a stop raced with the server's end, the last state is STOPPED, with the error
\* that belongs to it, and it is told before serviceMain returns.
LastState ==
    pc \in Leaving /\ (ctl = "idle" \/ server \in ToldToEnd) =>
        /\ status.state = "STOPPED" /\ (status.failed <=> server \notin ToldToEnd)
        /\ pc = "returned" => reported = status

\* What is counted stays apart from the rest, which has no arithmetic.
Counts == pipe \in 0 .. PipeSize /\ reboots \in 0 .. MaxReboots

Service == Typed /\ ServerHeld /\ HandlerCalled /\ StatusWritten /\ LastState

\* The window and what Windows keeps about the service.
Controls ==
    /\ window \in Users \cup {"none"} /\ asked \subseteq Commands \cup {"boot"}
    /\ startType \in {"auto", "disabled"} /\ wish \in {"none", "start", "stop"}
    /\ hasty \in BOOLEAN
--------------------------------------------------------------------------------
USE PipeAssumption, RebootAssumption

\* What serviceMain writes into the status is a status.
LEMMA StateTyped ==
  ASSUME NEW s \in States, NEW failed \in BOOLEAN
  PROVE  State(s, failed) \in Status
  BY DEF State, Status

\* Service holds of a service that is installed and has not been started.
LEMMA ServiceInit == SystemInit => Service
  <1> SUFFICES ASSUME SystemInit PROVE Service
    OBVIOUS
  <1> USE DEF SystemInit, State
  <1>1. Typed
    BY DEF Typed, Status, States, MainPcs, Over, Alive
  <1>2. ServerHeld
    BY DEF ServerHeld, Starting, Loop, ToldToEnd
  <1>3. HandlerCalled
    BY DEF HandlerCalled
  <1>4. StatusWritten /\ LastState
    BY DEF StatusWritten, Loop, LastState, Leaving, ToldToEnd
  <1> QED
    BY <1>1, <1>2, <1>3, <1>4 DEF Service

\* Every step of serviceMain, of the handler and of the server keeps Service.
LEMMA ServiceNext ==
  ASSUME Service, Next
  PROVE  Service'
  <1> USE DEF Service, Typed, Status, ServerHeld, HandlerCalled, StatusWritten, LastState, State,
         States, MainPcs, Over, Starting, Loop, Leaving, Alive, ToldToEnd, Sets, Reports, mainVars
  <1>1. CASE StartPending
    BY <1>1 DEF StartPending
  <1>2. CASE ReportPending
    BY <1>2 DEF ReportPending
  <1>3. CASE CreateStopEvent
    <2>1. status' = status \/ status' = State("STOPPED", TRUE)
      BY <1>3 DEF CreateStopEvent
    <2>2. status' \in Status
      BY <2>1, StateTyped DEF States
    <2>3. Typed'
      BY <1>3, <2>2 DEF CreateStopEvent
    <2>4. ServerHeld'
      BY <1>3 DEF CreateStopEvent
    <2>5. HandlerCalled'
      BY <1>3 DEF CreateStopEvent
    <2>6. StatusWritten'
      BY <1>3 DEF CreateStopEvent
    <2>7. LastState'
      BY <1>3 DEF CreateStopEvent
    <2> QED
      BY <2>3, <2>4, <2>5, <2>6, <2>7
  <1>4. CASE CreateServer
    BY <1>4 DEF CreateServer
  <1>5. CASE SetRunning
    BY <1>5 DEF SetRunning
  <1>6. CASE ReportRunning
    BY <1>6 DEF ReportRunning
  <1>7. CASE WaitStop
    BY <1>7 DEF WaitStop
  <1>8. CASE Terminate
    BY <1>8 DEF Terminate
  <1>9. CASE WaitServer
    <2>1. status' = status \/ status' = State("STOPPED", TRUE)
      BY <1>9 DEF WaitServer
    <2>2. status' \in Status
      BY <2>1, StateTyped DEF States
    <2>3. Typed'
      BY <1>9, <2>2 DEF WaitServer
    <2>4. ServerHeld'
      BY <1>9 DEF WaitServer
    <2>5. HandlerCalled'
      BY <1>9 DEF WaitServer
    <2>6. StatusWritten'
      BY <1>9 DEF WaitServer
    <2>7. LastState'
      BY <1>9 DEF WaitServer
    <2> QED
      BY <2>3, <2>4, <2>5, <2>6, <2>7
  <1>10. CASE Drain
    BY <1>10 DEF Drain
  <1>11. CASE ReportStopped
    BY <1>11 DEF ReportStopped
  <1>12. CASE ControlStop
    BY <1>12 DEF ControlStop
  <1>13. CASE ControlReport
    BY <1>13 DEF ControlReport
  <1>14. CASE ControlEvent
    BY <1>14 DEF ControlEvent
  <1>15. CASE ServerWrites
    BY <1>15 DEF ServerWrites
  <1>16. CASE ServerDies
    BY <1>16 DEF ServerDies
  <1>17. CASE ServerTerminated
    BY <1>17 DEF ServerTerminated
  <1> QED
    BY <1>1, <1>2, <1>3, <1>4, <1>5, <1>6, <1>7, <1>8, <1>9, <1>10, <1>11, <1>12, <1>13,
       <1>14, <1>15, <1>16, <1>17 DEF Next, MainStep, ControlStep, ServerStep

\* A start and a restart of the machine begin the program anew.
LEMMA ServiceAnew ==
  ASSUME Launched \/ Reboot
  PROVE  Service'
  <1>1. /\ status' = State("none", FALSE) /\ reported'.state # "RUNNING"
        /\ reported' \in Status /\ pc' \in {"pending", "down"} /\ ctl' = "idle"
        /\ server' = "none" /\ accepts' = FALSE /\ stopEvent' = FALSE
    <2>1. reported' = State("none", FALSE) \/ reported' = State("STOPPED", FALSE)
      BY DEF Launched, Reboot
    <2>2. reported' \in Status
      BY <2>1, StateTyped DEF States
    <2>3. reported'.state # "RUNNING"
      BY <2>1 DEF State
    <2> QED
      BY <2>2, <2>3 DEF Launched, Reboot
  <1>2. Typed'
    BY <1>1, StateTyped DEF Typed, States, MainPcs, Over, Alive
  <1>3. ServerHeld' /\ StatusWritten' /\ LastState'
    BY <1>1 DEF ServerHeld, StatusWritten, LastState, Starting, Loop, Leaving, ToldToEnd
  <1>4. HandlerCalled'
    BY <1>1 DEF HandlerCalled
  <1> QED
    BY <1>2, <1>3, <1>4 DEF Service

\* What a step of the whole system does to the service: a step of its own, a new start, a
\* restart of the machine, or nothing.
LEMMA StepOfService ==
  ASSUME [SystemNext]_allVars
  PROVE  Next \/ Launched \/ Reboot \/ UNCHANGED vars
  BY DEF SystemNext, allVars, ServiceStep, Next, ScStep, ScStart, ScStop, ScConfig, OpenWindow,
         CloseWindow, Click, Argument, Asks

\* Every step keeps the types of what the window and Windows hold.
LEMMA ControlsNext ==
  ASSUME Controls, [SystemNext]_allVars
  PROVE  Controls'
  <1> USE DEF Controls, Users, Commands
  <1>1. CASE ServiceStep \/ UNCHANGED allVars
    BY <1>1 DEF ServiceStep, controlVars, allVars
  <1>2. CASE ScStep
    BY <1>2 DEF ScStep, ScStart, ScStop, ScConfig, Done
  <1>3. CASE OpenWindow \/ CloseWindow
    BY <1>3 DEF OpenWindow, CloseWindow
  <1>4. CASE Reboot
    BY <1>4 DEF Reboot
  <1>5. ASSUME NEW command \in Commands, NEW want \in {"none", "start", "stop"},
               Asks(command, want)
        PROVE  Controls'
    BY <1>5 DEF Asks
  <1>6. ASSUME NEW button \in Buttons, Click(button) PROVE Controls'
    BY <1>5, <1>6 DEF Buttons, Click, CommandOf
  <1>7. ASSUME NEW argument \in {"start", "stop"}, Argument(argument) PROVE Controls'
    BY <1>5, <1>7 DEF Argument, ArgumentCommand
  <1> QED
    BY <1>1, <1>2, <1>3, <1>4, <1>6, <1>7 DEF SystemNext

\* Every step keeps the pipe within its size and the restarts within their bound.
LEMMA CountsNext ==
  ASSUME Counts, [SystemNext]_allVars
  PROVE  Counts'
  <1> USE DEF Counts
  <1>1. CASE ServiceStep
    <2>1. reboots' = reboots
      BY <1>1 DEF ServiceStep, controlVars
    <2>2. CASE Drain
      BY <2>1, <2>2 DEF Drain
    <2>3. CASE ServerWrites
      BY <2>1, <2>3 DEF ServerWrites
    <2>4. CASE MainStep /\ ~Drain
      BY <2>1, <2>4 DEF MainStep, StartPending, Reports, ReportPending, CreateStopEvent,
             CreateServer, SetRunning, ReportRunning, WaitStop, Terminate, WaitServer,
             ReportStopped
    <2>5. CASE ControlStep \/ ServerDies \/ ServerTerminated
      BY <2>1, <2>5 DEF ControlStep, ControlReport, ControlEvent, ServerDies, ServerTerminated
    <2> QED
      BY <1>1, <2>2, <2>3, <2>4, <2>5 DEF ServiceStep, ServerStep
  <1>2. CASE Reboot
    BY <1>2 DEF Reboot
  <1>3. CASE ScStep
    <2>1. reboots' = reboots
      BY <1>3 DEF ScStep, ScStart, ScStop, ScConfig, Done
    <2>2. Launched \/ ControlStop \/ UNCHANGED vars
      BY <1>3 DEF ScStep, ScStart, ScStop, ScConfig
    <2>3. pipe' = 0 \/ pipe' = pipe
      BY <2>2, Zenon DEF Launched, ControlStop, vars
    <2> QED
      BY <2>1, <2>3
  <1>4. CASE OpenWindow \/ CloseWindow
    BY <1>4 DEF OpenWindow, CloseWindow, vars
  <1>5. ASSUME NEW button \in Buttons, Click(button) PROVE Counts'
    BY <1>5 DEF Click, Asks, vars
  <1>6. ASSUME NEW argument \in {"start", "stop"}, Argument(argument) PROVE Counts'
    BY <1>6 DEF Argument, Asks, vars
  <1>7. CASE UNCHANGED allVars
    BY <1>7 DEF allVars, vars, controlVars
  <1> QED
    BY <1>1, <1>2, <1>3, <1>4, <1>5, <1>6, <1>7 DEF SystemNext

IndInv == Service /\ Controls /\ Counts

\* IndInv is an invariant of the specification.
THEOREM ServiceInvariant == SystemSpec => []IndInv
  <1>1. SystemInit => IndInv
    <2> SUFFICES ASSUME SystemInit PROVE IndInv
      OBVIOUS
    <2>1. Controls
      BY DEF SystemInit, Controls, Commands, Users
    <2>2. Counts
      BY DEF SystemInit, Counts
    <2> QED
      BY <2>1, <2>2, ServiceInit DEF IndInv
  <1>2. IndInv /\ [SystemNext]_allVars => IndInv'
    <2> SUFFICES ASSUME IndInv, [SystemNext]_allVars PROVE IndInv'
      OBVIOUS
    <2>1. ASSUME UNCHANGED vars PROVE Service'
      <3>1. Typed' /\ ServerHeld'
        BY <2>1 DEF vars, mainVars, IndInv, Service, Typed, ServerHeld
      <3>2. HandlerCalled'
        BY <2>1 DEF vars, mainVars, IndInv, Service, HandlerCalled
      <3>3. StatusWritten' /\ LastState'
        BY <2>1 DEF vars, mainVars, IndInv, Service, StatusWritten, LastState
      <3> QED
        BY <3>1, <3>2, <3>3 DEF Service
    <2>2. Service'
      BY <2>1, StepOfService, ServiceNext, ServiceAnew DEF IndInv
    <2>3. Controls' /\ Counts'
      BY ControlsNext, CountsNext DEF IndInv
    <2> QED
      BY <2>2, <2>3 DEF IndInv
  <1> QED
    BY <1>1, <1>2, PTL DEF SystemSpec

\* Every reachable state of the service, the window and Windows is well typed, and the
\* pipe never holds less than nothing or more than its size.
THEOREM ServiceTypes == SystemSpec => []ControlTypeOK
  <1>1. IndInv => ControlTypeOK
    BY DEF IndInv, Counts, Service, Typed, Status, TypeOK, Controls, ControlTypeOK
  <1> QED
    BY <1>1, ServiceInvariant, PTL

\* A service that is told to be stopped, or is over, leaves a server behind only when a
\* failed report or read took its process down, or when a stop was asked for and the
\* server, which TerminateProcess was called for, has not ended yet or was spared.
THEOREM ServersAreEnded == SystemSpec => []NoOrphan
  <1>1. IndInv => NoOrphan
    BY DEF IndInv, Service, Typed, ServerHeld, HandlerCalled, StatusWritten, NoOrphan, Over, MainPcs, Starting, Loop, Leaving,
           Alive, ToldToEnd
  <1> QED
    BY <1>1, ServiceInvariant, PTL

\* A service that is over is told to be stopped, with an error exactly when its server was
\* not told to end, unless a stop raced with the server's end.
THEOREM StopsAreTold == SystemSpec => []StoppedUnlessRaced
  <1>1. IndInv => StoppedUnlessRaced
    BY DEF IndInv, Service, Typed, ServerHeld, HandlerCalled, LastState, StoppedUnlessRaced, Loop, Leaving, Starting,
           Alive, ToldToEnd
  <1> QED
    BY <1>1, ServiceInvariant, PTL
================================================================================
