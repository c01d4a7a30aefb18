----------------------------- MODULE ServiceControls -----------------------------
(***************************************************************************)
(* The window that controls the Windows service (servicecontrols.c), with   *)
(* the service itself.  A button starts sc.exe, a process of its own, and   *)
(* does not wait for it: the commands under way reach Windows in any order, *)
(* and one that Windows refuses is lost without a word, sc.exe being        *)
(* hidden.  Windows starts and stops the service, keeps its start type and  *)
(* starts it at boot.                                                       *)
(***************************************************************************)
EXTENDS WinService

CONSTANT MaxReboots     \* bound: the machine restarts at most this often

ASSUME RebootAssumption == MaxReboots \in Nat

VARIABLES
    window,     \* the control program: none, or run as "plain" user or as administrator
    asked,      \* the commands of sc.exe under way, and "boot"
    startType,  \* how Windows starts the service: "auto" or "disabled"
    wish,       \* the last thing asked of the service: "none", "start" or "stop"
    hasty,      \* something was asked while the service had not settled
    reboots     \* how often the machine has restarted

controlVars == <<window, asked, startType, wish, hasty, reboots>>
allVars == <<vars, controlVars>>

Commands == {"start", "stop", "auto", "disabled"}

\* Windows takes a process that has ended for a stopped service.
Startable == pc = "crashed" \/ reported.state = "STOPPED"
Accepting == pc # "crashed" /\ ctl = "idle" /\ reported.state = "RUNNING" /\ accepts
Settled == asked = {} /\ (Accepting \/ (Startable /\ pc \in Over))

\* Installed, set to start at boot, and not yet started.
SystemInit ==
    /\ status = State("none", FALSE) /\ accepts = FALSE /\ reported = State("STOPPED", FALSE)
    /\ pc = "down" /\ ctl = "idle" /\ stopEvent = FALSE /\ server = "none" /\ pipe = 0
    /\ window = "none" /\ asked = {} /\ startType = "auto" /\ wish = "none" /\ hasty = FALSE
    /\ reboots = 0
--------------------------------------------------------------------------------
(* The control program. *)

\* A plain user is asked to become administrator and may refuse; when the program cannot
\* find out who he is, it does not ask.
Users == {"plain", "admin"}

\* main() without an argument: the window, for either.
OpenWindow ==
    /\ window = "none" /\ window' \in Users
    /\ UNCHANGED <<vars, asked, startType, wish, hasty, reboots>>

CloseWindow ==
    /\ window # "none" /\ window' = "none"
    /\ UNCHANGED <<vars, asked, startType, wish, hasty, reboots>>

\* A command is under way, for somebody who wants the service started or stopped, or the
\* same as before.  Who asks for another one before the last has had its effect is hasty,
\* until he asks once more when all is quiet.
Asks(command, want) ==
    /\ asked' = asked \cup {command} /\ wish' = want
    /\ hasty' = (~Settled \/ (hasty /\ command \in {"auto", "disabled"}))
    /\ UNCHANGED <<vars, window, startType, reboots>>

\* Seeded bug: Stop disables the service and leaves it running.
CommandOfSwapped(button) ==
    CASE button = "Start" -> "start"
      [] button = "Stop" -> "disabled"
      [] button = "Enable" -> "auto"
      [] button = "Disable" -> "stop"

\* WinProc: Start, Stop, Enable and Disable.  Windows refuses what a plain user asks.
CommandOf(button) ==
    CASE button = "Start" -> "start"
      [] button = "Stop" -> "stop"
      [] button = "Enable" -> "auto"
      [] button = "Disable" -> "disabled"
Buttons == {"Start", "Stop", "Enable", "Disable"}

Click(button) ==
    /\ window = "admin"
    /\ Asks(CommandOf(button),
            IF button = "Start" THEN "start" ELSE IF button = "Stop" THEN "stop" ELSE wish)

\* main() with an argument: strcmp() is 0 for equal texts, so "start" stops and every
\* other argument starts; what is wanted is taken to be what is done.  A plain user who
\* becomes administrator loses the argument (OpenWindow); one who does not is refused.
ArgumentCommand(argument) == IF argument # "start" THEN "start" ELSE "stop"
Argument(argument) == window = "none" /\ Asks(ArgumentCommand(argument), ArgumentCommand(argument))
--------------------------------------------------------------------------------
(* Windows, as sc.exe and a boot reach it. *)

Done(command) == asked' = asked \ {command} /\ UNCHANGED <<window, wish, hasty, reboots>>

\* A process for the service, all variables of the program at their first values.  A server
\* that an earlier process has left is not followed any further; that it still has the
\* port is one of the reasons why the next server may die.
Launched ==
    /\ status' = State("none", FALSE) /\ accepts' = FALSE /\ reported' = State("none", FALSE)
    /\ pc' = "pending" /\ ctl' = "idle" /\ stopEvent' = FALSE /\ server' = "none" /\ pipe' = 0

ScStart(command) ==
    /\ command \in asked /\ Done(command) /\ UNCHANGED startType
    /\ IF Startable /\ startType = "auto" THEN Launched ELSE UNCHANGED vars

ScStop ==
    /\ "stop" \in asked /\ Done("stop") /\ UNCHANGED startType
    /\ IF Accepting THEN ControlStop ELSE UNCHANGED vars

ScConfig(type) ==
    /\ type \in asked /\ Done(type) /\ startType' = type
    /\ UNCHANGED vars

\* The machine restarts: every process is gone, and an enabled service is to be started.
Reboot ==
    /\ reboots < MaxReboots /\ reboots' = reboots + 1
    /\ status' = State("none", FALSE) /\ accepts' = FALSE /\ reported' = State("STOPPED", FALSE)
    /\ pc' = "down" /\ ctl' = "idle" /\ stopEvent' = FALSE /\ server' = "none" /\ pipe' = 0
    /\ window' = "none" /\ hasty' = FALSE /\ UNCHANGED startType
    /\ IF startType = "auto" THEN asked' = {"boot"} /\ wish' = "start"
                             ELSE asked' = {} /\ wish' = "stop"

ServiceStep ==
    /\ MainStep \/ ControlStep \/ ServerStep
    /\ UNCHANGED controlVars

ScStep == ScStart("start") \/ ScStart("boot") \/ ScStop \/ \E type \in {"auto", "disabled"} : ScConfig(type)

SystemNext ==
    \/ ServiceStep \/ ScStep \/ OpenWindow \/ CloseWindow \/ Reboot
    \/ \E button \in Buttons : Click(button)
    \/ \E argument \in {"start", "stop"} : Argument(argument)

\* The service's threads run, Windows ends a process it has agreed to end, and every sc.exe
\* that was started comes to its end.
SystemSpec ==
    /\ SystemInit /\ [][SystemNext]_allVars
    /\ WF_allVars(MainStep /\ UNCHANGED controlVars)
    /\ WF_allVars(ControlStep /\ UNCHANGED controlVars)
    /\ WF_allVars(ServerTerminated /\ UNCHANGED controlVars)
    /\ WF_allVars(ScStart("start")) /\ WF_allVars(ScStart("boot")) /\ WF_allVars(ScStop)
    /\ \A type \in {"auto", "disabled"} : WF_allVars(ScConfig(type))
--------------------------------------------------------------------------------
(* Properties. *)

\* Type invariant of the control program and of what Windows keeps.
ControlTypeOK ==
    /\ TypeOK /\ window \in Users \cup {"none"} /\ asked \subseteq Commands \cup {"boot"}
    /\ startType \in {"auto", "disabled"} /\ wish \in {"none", "start", "stop"} /\ hasty \in BOOLEAN
    /\ reboots \in 0 .. MaxReboots

StartAsked == asked \cap {"start", "boot"} # {} /\ wish = "start" /\ ~hasty
Failed == asked = {} /\ pc \in Over /\ (pc = "crashed" \/ reported.failed)

\* A stop asked for when all is quiet stops the service and, in the end, the server, unless
\* the service crashes on a report or a read, or Windows refuses to end the server;
\* nothing has to be asked twice.
StopAsAsked ==
    wish = "stop" /\ ~hasty ~>
        wish # "stop" \/ hasty \/ pc = "crashed" \/ (pc \in Over /\ server \notin {"running", "terminating"})

\* A start asked for when all is quiet, and the boot of an enabled service, get a server
\* to run, unless the service reports or suffers a failure: the start type is the only
\* thing that makes Windows refuse.
StartUnlessDisabled ==
    StartAsked /\ startType = "auto" ~>
        wish # "start" \/ hasty \/ startType = "disabled" \/ server = "running" \/ Failed

\* What is asked for when all is quiet is done.
DoneAsAsked == StopAsAsked /\ StartUnlessDisabled
================================================================================
