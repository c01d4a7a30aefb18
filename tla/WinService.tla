------------------------------- MODULE WinService -------------------------------
(***************************************************************************)
(* The Windows service around the server (service.cpp): serviceMain starts  *)
(* the server as a process of its own, watches it and empties the pipe its  *)
(* output goes to; serviceControlHandler, on the dispatcher's thread, asks  *)
(* for the stop.  The two share serviceStatus, without a lock, and the      *)
(* event: a field is written in one step and reported to Windows by         *)
(* SetServiceStatus in the next.  A report or a read that fails throws, and *)
(* nothing catches it on these threads: the service's process ends, and the *)
(* server, a process of its own, runs on.  TerminateProcess only asks for   *)
(* the end of the server: nobody looks at its result or waits for the end.  *)
(***************************************************************************)
EXTENDS Integers

CONSTANT PipeSize       \* bytes the pipe holds

ASSUME PipeAssumption == PipeSize \in Nat \ {0}

VARIABLES
    status,     \* serviceStatus: dwCurrentState, and whether the exit code is an error
    accepts,    \* serviceStatus.dwControlsAccepted has SERVICE_ACCEPT_STOP
    reported,   \* the status Windows was last told
    pc,         \* serviceMain: the next step
    ctl,        \* serviceControlHandler: the next step
    stopEvent,  \* stopEvent is set
    server,     \* the server process
    pipe        \* bytes in the pipe

mainVars == <<status, accepts, reported, pc>>
vars == <<mainVars, ctl, stopEvent, server, pipe>>

State(s, failed) == [state |-> s, failed |-> failed]

Init ==
    /\ status = State("none", FALSE) /\ accepts = FALSE /\ reported = State("none", FALSE)
    /\ pc = "pending" /\ ctl = "idle" /\ stopEvent = FALSE
    /\ server = "none" /\ pipe = 0
--------------------------------------------------------------------------------
(* serviceMain *)

\* A new state is written, and then reported on the way to the next step, or in vain.
Sets(state, failed) == status' = State(state, failed)
Reports(here, next) ==
    /\ pc = here
    /\ \/ pc' = next /\ reported' = status
       \/ pc' = "crashed" /\ UNCHANGED reported
    /\ UNCHANGED <<status, accepts, ctl, stopEvent, server, pipe>>

StartPending ==
    /\ pc = "pending" /\ pc' = "report_pending" /\ Sets("START_PENDING", status.failed)
    /\ UNCHANGED <<accepts, reported, ctl, stopEvent, server, pipe>>
ReportPending == Reports("report_pending", "event")

\* CreateEvent; when it fails the service is stopped at once.
CreateStopEvent ==
    /\ pc = "event"
    /\ \/ pc' = "spawn" /\ UNCHANGED status
       \/ pc' = "report_stopped" /\ Sets("STOPPED", TRUE)
    /\ UNCHANGED <<accepts, reported, ctl, stopEvent, server, pipe>>

\* CreatePipe and CreateProcess; one that fails throws out of serviceMain, which ends
\* the service's process.
CreateServer ==
    /\ pc = "spawn"
    /\ \/ pc' = "running" /\ server' = "running"
       \/ pc' = "crashed" /\ UNCHANGED server
    /\ UNCHANGED <<status, accepts, reported, ctl, stopEvent, pipe>>

SetRunning ==
    /\ pc = "running" /\ pc' = "report_running"
    /\ accepts' = TRUE /\ Sets("RUNNING", status.failed)
    /\ UNCHANGED <<reported, ctl, stopEvent, server, pipe>>
ReportRunning == Reports("report_running", "wait_stop")

\* The loop: the event first, then the process, then one read from the pipe.
WaitStop ==
    /\ pc = "wait_stop"
    /\ pc' = IF stopEvent THEN "terminate" ELSE "wait_server"
    /\ UNCHANGED <<status, accepts, reported, ctl, stopEvent, server, pipe>>

\* Seeded bug: the server process is left running.
TerminateNothing ==
    /\ pc = "terminate" /\ pc' = "report_stopped"
    /\ Sets("STOPPED", FALSE)
    /\ UNCHANGED <<accepts, reported, ctl, stopEvent, server, pipe>>

\* TerminateProcess, which Windows may refuse ("spared"), and the state that follows
\* whether it did or not: the server is not waited for.
Terminate ==
    /\ pc = "terminate" /\ pc' = "report_stopped"
    /\ server' \in IF server = "running" THEN {"terminating", "spared"} ELSE {server}
    /\ Sets("STOPPED", FALSE)
    /\ UNCHANGED <<accepts, reported, ctl, stopEvent, pipe>>

\* Seeded bug: the exit code is not set.
WaitServerNoCode ==
    /\ pc = "wait_server"
    /\ IF server = "died" THEN pc' = "report_stopped" /\ Sets("STOPPED", status.failed)
                          ELSE pc' = "drain" /\ UNCHANGED status
    /\ UNCHANGED <<accepts, reported, ctl, stopEvent, server, pipe>>

\* The process has ended by itself: the service stops with an error.
WaitServer ==
    /\ pc = "wait_server"
    /\ IF server = "died" THEN pc' = "report_stopped" /\ Sets("STOPPED", TRUE)
                          ELSE pc' = "drain" /\ UNCHANGED status
    /\ UNCHANGED <<accepts, reported, ctl, stopEvent, server, pipe>>

\* Seeded bugs: the pipe is not read; or read without a look at what is in it.
DrainNothing ==
    /\ pc = "drain" /\ pc' = "wait_stop"
    /\ UNCHANGED <<status, accepts, reported, ctl, stopEvent, server, pipe>>
DrainUnchecked ==
    /\ pc = "drain" /\ pc' = "wait_stop" /\ pipe' = pipe - 1
    /\ UNCHANGED <<status, accepts, reported, ctl, stopEvent, server>>

\* PeekNamedPipe, and ReadFile of BUFSIZE bytes, which is 1, if there are any; a read that
\* fails throws.
Drain ==
    /\ pc = "drain"
    /\ \/ pipe = 0 /\ pc' = "wait_stop" /\ UNCHANGED pipe
       \/ pipe > 0 /\ pc' = "wait_stop" /\ pipe' = pipe - 1
       \/ pipe > 0 /\ pc' = "crashed" /\ UNCHANGED pipe
    /\ UNCHANGED <<status, accepts, reported, ctl, stopEvent, server>>

ReportStopped == Reports("report_stopped", "returned")
--------------------------------------------------------------------------------
(* serviceControlHandler; Windows calls it for a stop when the running service *)
(* has said it accepts one. *)

ControlStop ==
    /\ pc # "crashed" /\ ctl = "idle" /\ reported.state = "RUNNING" /\ accepts
    /\ ctl' = "report" /\ Sets("STOP_PENDING", status.failed)
    /\ UNCHANGED <<accepts, reported, pc, stopEvent, server, pipe>>

ControlReport ==
    /\ pc # "crashed" /\ ctl = "report" /\ ctl' = "event"
    /\ \/ reported' = status /\ UNCHANGED pc
       \/ pc' = "crashed" /\ UNCHANGED reported
    /\ UNCHANGED <<status, accepts, stopEvent, server, pipe>>

ControlEvent ==
    /\ pc # "crashed" /\ ctl = "event" /\ ctl' = "done" /\ stopEvent' = TRUE
    /\ UNCHANGED <<mainVars, server, pipe>>
--------------------------------------------------------------------------------
(* The server process: it writes to the pipe unless that is full, and may end by *)
(* itself; Windows ends it some time after it was told to. *)

Alive == {"running", "terminating", "spared"}

ServerWrites ==
    /\ server \in Alive /\ pipe < PipeSize /\ pipe' = pipe + 1
    /\ UNCHANGED <<mainVars, ctl, stopEvent, server>>

ServerDies ==
    /\ server \in {"running", "spared"} /\ server' = "died"
    /\ UNCHANGED <<mainVars, ctl, stopEvent, pipe>>

ServerTerminated ==
    /\ server = "terminating" /\ server' = "terminated"
    /\ UNCHANGED <<mainVars, ctl, stopEvent, pipe>>

MainStep ==
    \/ StartPending \/ ReportPending \/ CreateStopEvent \/ CreateServer
    \/ SetRunning \/ ReportRunning
    \/ WaitStop \/ Terminate \/ WaitServer \/ Drain \/ ReportStopped

ControlStep == ControlReport \/ ControlEvent

ServerStep == ServerWrites \/ ServerDies \/ ServerTerminated

Next == MainStep \/ ControlStop \/ ControlStep \/ ServerStep

Spec == Init /\ [][Next]_vars

\* The two threads of the service run, and Windows ends a process it has agreed to end.
\* Nobody has to ask for a stop, and the server may write as little as it likes and need
\* not end by itself.
FairSpec == Spec /\ WF_vars(MainStep) /\ WF_vars(ControlStep) /\ WF_vars(ServerTerminated)
--------------------------------------------------------------------------------
(* Properties. *)

States == {"none", "START_PENDING", "RUNNING", "STOP_PENDING", "STOPPED"}

\* The service's process is over, or has not been started ("down").
Over == {"returned", "crashed", "down"}
MainPcs == Over \cup {"pending", "report_pending", "event", "spawn", "running", "report_running",
                      "wait_stop", "terminate", "wait_server", "drain", "report_stopped"}

\* Type invariant; the pipe is read only when it has something.
TypeOK ==
    /\ {status, reported} \subseteq [state : States, failed : BOOLEAN]
    /\ accepts \in BOOLEAN /\ stopEvent \in BOOLEAN
    /\ pc \in MainPcs /\ ctl \in {"idle", "report", "event", "done"}
    /\ server \in Alive \cup {"none", "terminated", "died"} /\ pipe \in 0 .. PipeSize

\* When the service is told to be stopped, or is over, a server is still there, and the
\* next start finds its port taken, only in two cases.  A call of the service failed and
\* took its process down: the report that it runs or of a stop that was asked for, or a
\* read of the pipe.  Or a stop was asked for and the server was told to end: it is not
\* waited for, and is there until Windows has ended it, or for good if Windows refused.
NoOrphan ==
    (reported.state = "STOPPED" \/ pc \in Over) /\ server \in Alive =>
        \/ pc = "crashed" /\ status.state \in {"RUNNING", "STOP_PENDING"}
        \/ stopEvent /\ server \in {"terminating", "spared"}

\* A service that is over is told to be stopped, without an error exactly when its server
\* was told to end, whether it does or not, and with one when the server ended by itself
\* or there is none; unless a stop was asked for while the server was ending: the
\* handler's STOP_PENDING may then overwrite the last state, or be told after it.
StoppedUnlessRaced ==
    pc = "returned" /\ ctl \in {"idle", "done"} =>
        \/ /\ reported.state = "STOPPED"
           /\ reported.failed <=> server \notin {"terminating", "terminated", "spared"}
        \/ server = "died" /\ ctl = "done"

\* A stop is served: once the handler has been called, the service ends and so does the
\* server, later, unless Windows refuses to end it or the service crashes.  (A new process
\* of the service, with an idle handler and no server, may have been started before the
\* old one's last step.)
Served == pc = "crashed" \/ (pc = "returned" /\ server \notin {"running", "terminating"})
StopServed == ctl # "idle" ~> ctl = "idle" \/ Served

\* The end of the server is noticed, whatever it has left in the pipe.
DeathNoticed == server = "died" ~> server # "died" \/ pc \in Over

\* A server that waits for room in the pipe gets it, or is stopped, or is nobody's.
OutputDrained == pipe = PipeSize ~> pipe < PipeSize \/ pc \in Over

\* The loop of serviceMain serves all three of those it watches: whoever asked for the
\* stop, the server's end and the server's output, none of them at another's cost.
NobodyWaits == StopServed /\ DeathNoticed /\ OutputDrained
================================================================================
