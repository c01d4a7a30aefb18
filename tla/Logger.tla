--------------------------------- MODULE Logger ---------------------------------
(***************************************************************************)
(* The log of the server (Logger.cpp): every thread posts its messages to a *)
(* pool of one worker, which writes them to the file, the console or both.  *)
(* The one Logger is built by the first call of getInstance(), without a    *)
(* lock; its constructor posts messages of its own while it still sets the  *)
(* level and the type that the worker reads.  main() posts what went wrong  *)
(* and joins the worker before it leaves (main.cpp).                        *)
(*                                                                          *)
(* A message is its number in the order of posting, with who posted it and  *)
(* at which level.  The lines of the database's start are one here, and so  *)
(* are those of the server's.                                               *)
(***************************************************************************)
EXTENDS Integers, Sequences, SequencesExt

CONSTANTS
    Pool,           \* pool threads: they run the sessions
    Levels,         \* levels sessions use, of 1 (FATAL) .. 5 (TRACE)
    LogLevels,      \* settings log_level may have: 0 (OFF) .. 6 (ALL), or Invalid
    Invalid,        \* a setting that is missing or not a name in the list
    MaxPosts        \* bound: no session posts when so many messages have been posted

ASSUME LevelsAssumption == Levels \subseteq 1 .. 5 /\ LogLevels \subseteq 0 .. 6 \cup {Invalid}

FATAL == 1
ERROR == 2
INFO == 3
DEBUG == 4
ALL == 6
LogTypes == {"disable", "console", "file", "enable"}

ASSUME NamesAssumption ==
    Invalid \notin 0 .. 6 /\ Invalid \notin LogTypes /\ "main" \notin Pool /\ MaxPosts \in Nat

VARIABLES
    conf,       \* the settings of the file
    opened,     \* was the log file opened?  Nobody looks.
    level,      \* m_LogLevel
    type,       \* m_LogType
    logger,     \* the Logger: "none", being built (the step of configure()), or "ready"
    main,       \* main()'s step
    posted,     \* the messages posted to m_worker while it works
    taken,      \* how many of them a worker has taken
    task,       \* per worker: the message it is at and its step in logTask, or Free
    file,       \* the messages in the log file
    console,    \* the messages on the console
    lost        \* history: a message no worker will take: too late, or by a thread that found no Logger

confVars == <<conf, opened>>
workVars == <<taken, task, file, console>>
vars == <<confVars, level, type, logger, main, posted, workVars, lost>>

Free == [n |-> 0, at |-> "free"]

\* Seeded bugs: a second worker; or none.
WorkersTwo == {"w1", "w2"}
WorkersNone == {}

\* m_worker(1)
Workers == {"w1"}

\* The type the constructor starts from.
FirstType == "enable"

Init ==
    /\ conf \in [level : LogLevels, type : LogTypes \cup {Invalid}] /\ opened \in BOOLEAN
    /\ level = ALL /\ type = FirstType
    /\ logger = "none" /\ main = "database"
    /\ posted = <<>> /\ taken = 0 /\ task = [w \in Workers |-> Free]
    /\ file = <<>> /\ console = <<>> /\ lost = FALSE
--------------------------------------------------------------------------------
(* Posting. *)

Ended == main \in {"teardown", "exit", "killed"}

\* post(): when the worker was joined the message stays where it is.
Post(by, at) ==
    IF Ended THEN lost' = TRUE /\ UNCHANGED posted
             ELSE posted' = Append(posted, [by |-> by, level |-> at]) /\ UNCHANGED lost

\* The destructor of main()'s BUFF: the first one of all builds the Logger before it posts.
MainLogs(here, at, next) ==
    /\ main = here
    /\ \/ logger = "none" /\ logger' = "level" /\ UNCHANGED <<main, posted, lost>>
       \/ logger = "ready" /\ Post("main", at) /\ main' = next /\ UNCHANGED logger
    /\ UNCHANGED <<confVars, level, type, workVars>>

\* Seeded bug: the end of the list is taken for a level.
ConfigureLevelUnchecked ==
    /\ logger = "level" /\ logger' = "type"
    /\ level' = IF conf.level = Invalid THEN ALL + 1 ELSE conf.level
    /\ UNCHANGED <<confVars, type, main, posted, lost, workVars>>

\* configure(): the level, then the type; a setting that is not understood is told.
ConfigureLevel ==
    /\ logger = "level" /\ logger' = "type"
    /\ IF conf.level = Invalid THEN Post("configure", ERROR) /\ UNCHANGED level
                               ELSE level' = conf.level /\ UNCHANGED <<posted, lost>>
    /\ UNCHANGED <<confVars, type, main, workVars>>
ConfigureType ==
    /\ logger = "type" /\ logger' = "ready"
    /\ IF conf.type = Invalid THEN Post("configure", ERROR) /\ UNCHANGED type
                              ELSE type' = conf.type /\ UNCHANGED <<posted, lost>>
    /\ UNCHANGED <<confVars, level, main, workVars>>

\* A session logs, on a pool thread, or on the main thread by a handler.
SessionLogs(t, at) ==
    /\ (IF t = "main" THEN main = "run" ELSE main \in {"run", "failed", "stopped", "join", "teardown"})
    /\ Len(posted) < MaxPosts
    /\ IF logger = "ready" THEN Post(t, at)
                           ELSE lost' = TRUE /\ UNCHANGED posted
    /\ UNCHANGED <<confVars, level, type, logger, main, workVars>>
--------------------------------------------------------------------------------
(* main(). *)

Goes(here, next) ==
    /\ main = here /\ main' = next
    /\ UNCHANGED <<confVars, level, type, logger, posted, workVars, lost>>

\* createDB() fails before anything is logged; createTable() after the first line has been.
DatabaseFails == Goes("database", "no_database")
OpenDatabase == MainLogs("database", DEBUG, "server") \/ MainLogs("database", DEBUG, "no_database")

\* The server is constructed, or not.
StartServer == Goes("server", "starting") \/ Goes("server", "no_server")
LogFailure ==
    \/ MainLogs("no_database", FATAL, "join_failed")
    \/ MainLogs("no_server", FATAL, "join_failed")

\* TcpServer's constructor tells its parameters before the first accept.
LogStart == MainLogs("starting", INFO, "run")

\* io_context.run() ends by an exception only.
RunThrows == Goes("run", "failed")
LogThrown == MainLogs("failed", FATAL, "stopped")
LogStopped == MainLogs("stopped", INFO, "join")

\* Seeded bug: main() does not wait.
JoinNot == Goes("join", "teardown") \/ Goes("join_failed", "exit")

\* join() returns when all that was posted has been done; the worker ends with it.
Join ==
    /\ taken = Len(posted) /\ \A w \in Workers : task[w] = Free
    /\ Goes("join", "teardown") \/ Goes("join_failed", "exit")

\* The server and its pool are destroyed while sessions may still log; the process ends.
Exit == Goes("teardown", "exit")

\* The usual end: the process is killed.
Kill == main # "exit" /\ Goes(main, "killed")
--------------------------------------------------------------------------------
(* The worker: logTask. *)

Working == main \notin {"exit", "killed"}

\* The next message, to be written or not.
Takes(w, passes) ==
    /\ Working /\ task[w] = Free /\ taken' = taken + 1
    /\ task' = IF passes THEN [task EXCEPT ![w] = [n |-> taken + 1, at |-> "console?"]] ELSE task
    /\ UNCHANGED <<confVars, level, type, logger, main, posted, file, console, lost>>

\* Seeded bug: the level that is set does not pass itself.
TakeStrict(w) == taken < Len(posted) /\ Takes(w, level > posted[taken + 1].level)

\* The test of the level.
Take(w) == taken < Len(posted) /\ Takes(w, level >= posted[taken + 1].level)

\* A write to the file, if it could be opened, or to the console, and the worker's next step.
Writes(w, sink, next) ==
    /\ file' = IF sink = "file" /\ opened THEN Append(file, task[w].n) ELSE file
    /\ console' = IF sink = "console" THEN Append(console, task[w].n) ELSE console
    /\ task' = [task EXCEPT ![w] = IF next = "free" THEN Free ELSE [@ EXCEPT !.at = next]]

\* The type is read again for each comparison, without a lock.
TestType(w) ==
    /\ Working
    /\ CASE task[w].at = "console?" ->
              IF type = "console" THEN Writes(w, "console", "free") ELSE Writes(w, "none", "file?")
         [] task[w].at = "file?" ->
              IF type = "file" THEN Writes(w, "file", "free") ELSE Writes(w, "none", "enable?")
         [] task[w].at = "enable?" ->
              IF type = "enable" THEN Writes(w, "file", "cout") ELSE Writes(w, "none", "free")
         [] task[w].at = "cout" -> Writes(w, "console", "free")
         [] OTHER -> FALSE
    /\ UNCHANGED <<confVars, level, type, logger, main, posted, taken, lost>>

WorkerStep == \E w \in Workers : Take(w) \/ TestType(w)

Next ==
    \/ DatabaseFails \/ OpenDatabase \/ StartServer \/ LogFailure \/ LogStart \/ RunThrows \/ LogThrown \/ LogStopped
    \/ ConfigureLevel \/ ConfigureType \/ Join \/ Exit \/ Kill
    \/ \E t \in Pool \cup {"main"}, at \in Levels : SessionLogs(t, at)
    \/ WorkerStep

Spec == Init /\ [][Next]_vars

\* The worker runs, its writes end, and main() goes on once it has failed.
FairSpec == Spec /\ WF_vars(WorkerStep) /\ WF_vars(ConfigureLevel \/ ConfigureType)
                 /\ WF_vars(LogFailure \/ LogThrown \/ LogStopped) /\ WF_vars(Join)
--------------------------------------------------------------------------------
(* Properties. *)

Mains == {"database", "server", "no_database", "no_server", "starting", "run", "failed",
          "stopped", "join", "join_failed", "teardown", "exit", "killed"}

\* Type invariant; no more is taken than was posted.
TypeOK ==
    /\ level \in 0 .. 6 /\ type \in LogTypes /\ logger \in {"none", "level", "type", "ready"}
    /\ main \in Mains /\ taken \in 0 .. Len(posted)
    /\ \A w \in Workers : task[w].n \in 0 .. taken
    /\ \A i \in DOMAIN posted : posted[i].level \in 1 .. 5

Handled(i) == i <= taken /\ \A w \in Workers : task[w].n # i
Passes(i) == conf.level = Invalid \/ conf.level >= posted[i].level
Sinks == CASE conf.type = "disable" -> {} [] conf.type = "console" -> {"console"}
           [] conf.type = "file" -> {"file"} [] OTHER -> {"file", "console"}
InSinks(i) ==
    /\ Contains(file, i) <=> (Passes(i) /\ "file" \in Sinks /\ opened)
    /\ Contains(console, i) <=> (Passes(i) /\ "console" \in Sinks)

\* The file and the console have their messages in the order of posting, each once.
OrderKept ==
    \A s \in {file, console} : \A i, j \in DOMAIN s : i < j => s[i] < s[j]

\* A message is lost only when main() has joined the worker, and none because a thread met
\* the Logger half built: getInstance() has come back once before there are sessions.
NoneLost == lost => Ended

\* A message the worker is done with is where the settings want it, and nowhere else.
\* configure() posts its complaints while it still sets the type the worker reads three
\* times: the one about the type is heard, and so is the one about the level before it,
\* but when the type is set after all, the one about the level may go nowhere.
SinksAsConfigured ==
    \A i \in DOMAIN posted :
        Handled(i) /\ (posted[i].by = "configure" => conf.type = Invalid) => InSinks(i)

\* A server that could not start, and one that was stopped by an exception, has said why
\* before it is gone.
FailureTold ==
    main = "teardown" \/ main = "exit" =>
        \E i \in DOMAIN posted : posted[i].by = "main" /\ posted[i].level = FATAL /\ InSinks(i)

\* join() returns to main() when the worker is done with every message there is, those that
\* sessions have posted meanwhile included; what comes later is lost.
JoinWaits == main \in {"teardown", "exit"} => \A i \in DOMAIN posted : Handled(i)

\* What happens is told: by sessions as long as the log is there, by main() at the end, and
\* main() goes no further before the worker has dealt with all of it.
AllTold == NoneLost /\ JoinWaits /\ FailureTold

\* All that is posted before is dealt with, unless the process is killed.
PostedHandled ==
    \A i \in 1 .. MaxPosts : Len(posted) >= i ~> Handled(i) \/ main = "killed"

\* main() comes back from join(), though sessions go on posting meanwhile: here MaxPosts
\* ends that.  In the code it is assumed that sessions do not keep the one worker busy for
\* ever.
FailureEnds == main \in {"no_database", "no_server", "failed"} ~> main \in {"teardown", "exit", "killed"}

\* The log works off what was posted and lets go.
LogDrains == PostedHandled /\ FailureEnds
================================================================================
