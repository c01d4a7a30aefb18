------------------------------ MODULE LoggerProofs ------------------------------
(***************************************************************************)
(* Proofs about the log: that the invariants of Logger hold for every pool, *)
(* all settings and any number of messages.                                 *)
(***************************************************************************)
EXTENDS Logger, SequenceTheorems, TLAPS

Messages == [by : Pool \cup {"main", "configure"}, level : 1 .. 5]
Steps == {"free", "console?", "file?", "enable?", "cout"}

\* The step the worker is at.
At == task["w1"].at

\* Types: the worker is free, or at the last message taken.
Typed ==
    /\ conf \in [level : LogLevels, type : LogTypes \cup {Invalid}]
    /\ level \in 0 .. 6 /\ type \in LogTypes /\ logger \in {"none", "level", "type", "ready"}
    /\ main \in Mains /\ posted \in Seq(Messages) /\ taken \in 0 .. Len(posted)
    /\ task \in [Workers -> [n : Nat, at : Steps]]
    /\ (At = "free" /\ task["w1"].n = 0) \/ (At # "free" /\ task["w1"].n = taken /\ taken > 0)
    /\ file \in Seq(Nat) /\ console \in Seq(Nat)

\* The numbers in s are ascending and below m.
Ascending(s, m) ==
    /\ \A i \in 1 .. Len(s) : s[i] < m
    /\ \A i, j \in 1 .. Len(s) : i < j => s[i] < s[j]

\* The file and the console end below the message the worker is at until it is written.
Ordered ==
    /\ Ascending(file, IF At \in {"free", "cout"} THEN taken + 1 ELSE taken)
    /\ Ascending(console, IF At = "free" THEN taken + 1 ELSE taken)

\* What the settings come to.
SetLevel == IF conf.level = Invalid THEN ALL ELSE conf.level
SetType == IF conf.type = Invalid THEN FirstType ELSE conf.type

\* configure() has set the level before anything is posted, and the type before anybody
\* else posts; main() has built the Logger before there are sessions.
Configured ==
    /\ logger \in {"none", "level"} => level = ALL /\ Len(posted) = 0
    /\ logger \in {"type", "ready"} => level = SetLevel
    /\ type = IF logger = "ready" THEN SetType ELSE FirstType
    /\ \A i \in 1 .. Len(posted) : posted[i].by # "configure" => logger = "ready"
    /\ main \in {"run", "failed", "stopped", "join", "join_failed", "teardown", "exit"} =>
          logger = "ready"

\* A message that is posted when the type is what it will be.
Settled(i) == posted[i].by = "configure" => conf.type = Invalid

\* What the worker has found out about the message it is at.
Progress ==
    At # "free" /\ Settled(taken) =>
        /\ Passes(taken)
        /\ At = "file?" => SetType # "console"
        /\ At = "enable?" => SetType \notin {"console", "file"}
        /\ At = "cout" => SetType = "enable" /\ (Contains(file, taken) <=> opened)

\* A message it is done with is in the sinks of the settings.
Written == \A i \in 1 .. Len(posted) : Handled(i) /\ Settled(i) => InSinks(i)

\* main() has posted why it ends before it waits for the worker, and then waits for it all.
Told ==
    /\ main \in {"stopped", "join", "join_failed", "teardown", "exit"} =>
          \E i \in 1 .. Len(posted) : posted[i].by = "main" /\ posted[i].level = FATAL
    /\ main \in {"teardown", "exit"} => taken = Len(posted) /\ At = "free"

IndInv == Typed /\ Ordered /\ Configured /\ Progress /\ Written /\ Told /\ NoneLost
--------------------------------------------------------------------------------
(* Sequences of messages. *)

\* What Append does to the length and the elements.
LEMMA Appended ==
    ASSUME NEW S, NEW s \in Seq(S), NEW e \in S
    PROVE  /\ Append(s, e) \in Seq(S) /\ Len(Append(s, e)) = Len(s) + 1
           /\ \A i \in 1 .. Len(s) : Append(s, e)[i] = s[i]
           /\ Append(s, e)[Len(s) + 1] = e
  BY AppendProperties

\* A sink has what it had and the number appended.
LEMMA ContainsAppend ==
    ASSUME NEW s \in Seq(Nat), NEW e \in Nat, NEW x
    PROVE  Contains(Append(s, e), x) <=> Contains(s, x) \/ x = e
  BY Appended DEF Contains

\* An ascending sink does not have its bound, nor what is above.
LEMMA NotContained ==
    ASSUME NEW s \in Seq(Nat), NEW m \in Nat, Ascending(s, m), NEW x \in Nat, x >= m
    PROVE  ~ Contains(s, x)
  BY DEF Ascending, Contains

\* It is still ascending below a higher bound, and with the bound appended.
LEMMA AscendingOn ==
    ASSUME NEW s \in Seq(Nat), NEW m \in Nat, Ascending(s, m)
    PROVE  Ascending(s, m + 1) /\ Ascending(Append(s, m), m + 1)
<1>1. Ascending(s, m + 1)
  BY DEF Ascending
<1>2. Ascending(Append(s, m), m + 1)
  BY Appended DEF Ascending
<1> QED
  BY <1>1, <1>2
--------------------------------------------------------------------------------
(* The two kinds of steps. *)

\* A step that does not touch the worker posts one message or none.
Posts ==
    /\ UNCHANGED <<conf, opened, taken, task, file, console>>
    /\ posted' = posted \/ \E m \in Messages : posted' = Append(posted, m)

\* The messages posted before are the same.
LEMMA PostedKept ==
    ASSUME Typed, Posts
    PROVE  /\ posted' \in Seq(Messages) /\ Len(posted) \in Nat /\ Len(posted') \in Nat
           /\ Len(posted) <= Len(posted') /\ Len(posted') <= Len(posted) + 1
           /\ \A i \in 1 .. Len(posted) : posted'[i] = posted[i]
<1>1. posted \in Seq(Messages) /\ Len(posted) \in Nat
  BY LenProperties DEF Typed
<1>2. CASE posted' = posted
  BY <1>1, <1>2
<1>3. ASSUME NEW m \in Messages, posted' = Append(posted, m) 
      PROVE  /\ posted' \in Seq(Messages) /\ Len(posted') = Len(posted) + 1
             /\ \A i \in 1 .. Len(posted) : posted'[i] = posted[i]
  BY <1>1, <1>3, Appended
<1> QED
  BY <1>1, <1>2, <1>3 DEF Posts

\* Posting does not disturb what the worker has done or is at.
LEMMA PostingKeeps ==
    ASSUME Typed, Posts, Ordered, Progress, Written
    PROVE  Ordered' /\ Progress' /\ Written'
<1>1. /\ Len(posted) \in Nat /\ Len(posted) <= Len(posted')
      /\ \A i \in 1 .. Len(posted) : posted'[i] = posted[i]
  BY PostedKept
<1>2. UNCHANGED <<conf, opened, taken, task, file, console>>
  BY DEF Posts
<1>3. Ordered'
  BY <1>2 DEF Ordered, At
<1>4. \A i \in 1 .. Len(posted) : /\ Settled(i)' <=> Settled(i)
                                  /\ Passes(i)' <=> Passes(i)
                                  /\ InSinks(i)' <=> InSinks(i)
  BY <1>1, <1>2 DEF Settled, Passes, InSinks, Sinks
<1>5. \A i \in 1 .. Len(posted') : Handled(i)' => Handled(i) /\ i \in 1 .. Len(posted)
  BY <1>1, <1>2 DEF Handled, Typed
<1>6. Written'
  BY <1>4, <1>5 DEF Written
<1>7. Progress'
  <2>1. At # "free" => taken \in 1 .. Len(posted)
    BY <1>1 DEF Typed
  <2> QED
    BY <1>2, <1>4, <2>1 DEF Progress, At, SetType
<1> QED
  BY <1>3, <1>6, <1>7

\* A step of the worker.
Works == UNCHANGED <<conf, opened, level, type, logger, main, posted, lost>>

\* The worker takes the next message, to write it or not.
LEMMA TakeOutcomes ==
    ASSUME Typed, Take("w1")
    PROVE  /\ Works /\ At = "free" /\ taken \in Nat /\ taken < Len(posted) /\ taken' = taken + 1
           /\ file' = file /\ console' = console
           /\ task' \in [Workers -> [n : Nat, at : Steps]]
           /\ \/ level >= posted[taken + 1].level /\ At' = "console?" /\ task'["w1"].n = taken + 1
              \/ ~ (level >= posted[taken + 1].level) /\ At' = "free" /\ task'["w1"].n = 0
<1>1. "w1" \in Workers
  BY DEF Workers
<1>2. task \in [Workers -> [n : Nat, at : Steps]] /\ taken \in Nat /\ Len(posted) \in Nat
  BY LenProperties DEF Typed
<1>3. task["w1"] = [n |-> 0, at |-> "free"]
  BY DEF Take, Takes, Free
<1>4. /\ Works /\ At = "free" /\ taken < Len(posted) /\ taken' = taken + 1
      /\ file' = file /\ console' = console
  BY <1>3 DEF Take, Takes, Works, confVars, At
<1>5. CASE level >= posted[taken + 1].level
  <2>1. task' = [task EXCEPT !["w1"] = [n |-> taken + 1, at |-> "console?"]]
    BY <1>5 DEF Take, Takes
  <2> QED
    BY <1>1, <1>2, <1>4, <1>5, <2>1 DEF At, Steps
<1>6. CASE ~ (level >= posted[taken + 1].level)
  <2>1. task' = task
    BY <1>6 DEF Take, Takes
  <2> QED
    BY <1>2, <1>3, <1>4, <1>6, <2>1 DEF At
<1> QED
  BY <1>5, <1>6

\* The worker is done with its message, or goes to its next step.
GoesTo(next) ==
    /\ At' = next /\ task' \in [Workers -> [n : Nat, at : Steps]]
    /\ task'["w1"].n = IF next = "free" THEN 0 ELSE task["w1"].n

\* Writing to the file and to the console.
ToFile == file' = IF opened THEN Append(file, taken) ELSE file
ToConsole == console' = Append(console, taken)
NotToFile == file' = file
NotToConsole == console' = console

\* The seven steps of logTask after the test of the level.
LEMMA TestOutcomes ==
    ASSUME Typed, TestType("w1")
    PROVE  /\ Works /\ taken' = taken
           /\ \/ At = "console?" /\ type = "console" /\ ToConsole /\ NotToFile /\ GoesTo("free")
              \/ At = "console?" /\ type # "console" /\ NotToConsole /\ NotToFile /\ GoesTo("file?")
              \/ At = "file?" /\ type = "file" /\ NotToConsole /\ ToFile /\ GoesTo("free")
              \/ At = "file?" /\ type # "file" /\ NotToConsole /\ NotToFile /\ GoesTo("enable?")
              \/ At = "enable?" /\ type = "enable" /\ NotToConsole /\ ToFile /\ GoesTo("cout")
              \/ At = "enable?" /\ type # "enable" /\ NotToConsole /\ NotToFile /\ GoesTo("free")
              \/ At = "cout" /\ ToConsole /\ NotToFile /\ GoesTo("free")
<1>1. "w1" \in Workers /\ task \in [Workers -> [n : Nat, at : Steps]]
  BY DEF Workers, Typed
<1>2. ASSUME NEW sink, NEW next \in Steps, Writes("w1", sink, next)
      PROVE  GoesTo(next)
  <2>1. CASE next = "free"
    <3>1. task' = [task EXCEPT !["w1"] = [n |-> 0, at |-> "free"]]
      BY <1>2, <2>1 DEF Writes, Free
    <3> QED
      BY <1>1, <2>1, <3>1 DEF GoesTo, At, Steps
  <2>2. CASE next # "free"
    <3>1. task' = [task EXCEPT !["w1"] = [task["w1"] EXCEPT !.at = next]]
      BY <1>2, <2>2 DEF Writes
    <3> QED
      BY <1>1, <2>2, <3>1 DEF GoesTo, At
  <2> QED
    BY <2>1, <2>2
<1>3. Works /\ taken' = taken
  BY DEF TestType, Works, confVars
<1>4. At # "free" => task["w1"].n = taken
  BY DEF Typed
<1>5. CASE At = "console?"
  <2>1. CASE type = "console"
    <3>1. Writes("w1", "console", "free")
      BY <1>5, <2>1 DEF TestType, At
    <3> QED
      BY <1>2, <1>3, <1>4, <1>5, <2>1, <3>1 DEF Writes, ToConsole, NotToFile, Steps
  <2>2. CASE type # "console"
    <3>1. Writes("w1", "none", "file?")
      BY <1>5, <2>2 DEF TestType, At
    <3> QED
      BY <1>2, <1>3, <1>5, <2>2, <3>1 DEF Writes, NotToConsole, NotToFile, Steps
  <2> QED
    BY <2>1, <2>2
<1>6. CASE At = "file?"
  <2>1. CASE type = "file"
    <3>1. Writes("w1", "file", "free")
      BY <1>6, <2>1 DEF TestType, At
    <3> QED
      BY <1>2, <1>3, <1>4, <1>6, <2>1, <3>1 DEF Writes, NotToConsole, ToFile, Steps
  <2>2. CASE type # "file"
    <3>1. Writes("w1", "none", "enable?")
      BY <1>6, <2>2 DEF TestType, At
    <3> QED
      BY <1>2, <1>3, <1>6, <2>2, <3>1 DEF Writes, NotToConsole, NotToFile, Steps
  <2> QED
    BY <2>1, <2>2
<1>7. CASE At = "enable?"
  <2>1. CASE type = "enable"
    <3>1. Writes("w1", "file", "cout")
      BY <1>7, <2>1 DEF TestType, At
    <3> QED
      BY <1>2, <1>3, <1>4, <1>7, <2>1, <3>1 DEF Writes, NotToConsole, ToFile, Steps
  <2>2. CASE type # "enable"
    <3>1. Writes("w1", "none", "free")
      BY <1>7, <2>2 DEF TestType, At
    <3> QED
      BY <1>2, <1>3, <1>7, <2>2, <3>1 DEF Writes, NotToConsole, NotToFile, Steps
  <2> QED
    BY <2>1, <2>2
<1>8. CASE At = "cout"
  <2>1. Writes("w1", "console", "free")
    BY <1>8 DEF TestType, At
  <2> QED
    BY <1>2, <1>3, <1>4, <1>8, <2>1 DEF Writes, ToConsole, NotToFile, Steps
<1> QED
  BY <1>5, <1>6, <1>7, <1>8 DEF TestType, At
--------------------------------------------------------------------------------
(* The inductive invariant. *)

\* The invariant holds before the first message.
LEMMA LoggerInit == Init => IndInv
<1> SUFFICES ASSUME Init PROVE IndInv
  OBVIOUS
<1>1. /\ At = "free" /\ task = [w \in {"w1"} |-> [n |-> 0, at |-> "free"]]
      /\ posted = <<>> /\ Len(posted) = 0 /\ taken = 0 /\ file = <<>> /\ console = <<>>
      /\ Len(file) = 0 /\ Len(console) = 0
  BY DEF Init, At, Workers, Free
<1>2. Typed
  BY <1>1 DEF Init, Typed, Mains, LogTypes, FirstType, ALL, Steps, Workers
<1>3. Ordered
  BY <1>1 DEF Ordered, Ascending
<1>4. Configured
  BY <1>1 DEF Init, Configured
<1>5. Progress /\ Written /\ Told /\ NoneLost
  BY <1>1 DEF Init, Progress, Written, Told, NoneLost
<1> QED
  BY <1>2, <1>3, <1>4, <1>5 DEF IndInv

\* Every step is one of main(), the sessions or configure(), or one of the worker.
LEMMA StepKinds ==
    ASSUME Typed, LevelsAssumption, [Next]_vars
    PROVE  Posts \/ Take("w1") \/ TestType("w1")
<1> USE DEF Posts, confVars, workVars
<1>1. ASSUME NEW by \in Pool \cup {"main", "configure"}, NEW at \in 1 .. 5, Post(by, at)
      PROVE  posted' = posted \/ \E m \in Messages : posted' = Append(posted, m)
  <2>1. [by |-> by, level |-> at] \in Messages
    BY DEF Messages
  <2> QED
    BY <1>1, <2>1 DEF Post
<1>2. ASSUME NEW here, NEW at \in 1 .. 5, NEW next, MainLogs(here, at, next) PROVE Posts
  BY <1>1, <1>2 DEF MainLogs
<1>3. ASSUME NEW here, NEW next, Goes(here, next) PROVE Posts
  BY <1>3 DEF Goes
<1>4. ASSUME ConfigureLevel \/ ConfigureType PROVE Posts
  BY <1>1, <1>4 DEF ConfigureLevel, ConfigureType, ERROR
<1>5. ASSUME NEW t \in Pool \cup {"main"}, NEW at \in Levels, SessionLogs(t, at) PROVE Posts
  <2>1. t \in Pool \cup {"main", "configure"} /\ at \in 1 .. 5
    BY LevelsAssumption
  <2> QED
    BY <1>1, <1>5, <2>1 DEF SessionLogs
<1>6. CASE OpenDatabase \/ LogFailure \/ LogStart \/ LogThrown \/ LogStopped
  <2>1. FATAL \in 1 .. 5 /\ INFO \in 1 .. 5 /\ DEBUG \in 1 .. 5
    BY DEF FATAL, INFO, DEBUG
  <2> QED
    BY <1>2, <1>6, <2>1, Zenon DEF OpenDatabase, LogFailure, LogStart, LogThrown, LogStopped
<1>7. CASE DatabaseFails \/ StartServer \/ RunThrows \/ Join \/ Exit \/ Kill
  BY <1>3, <1>7 DEF DatabaseFails, StartServer, RunThrows, Join, Exit, Kill
<1>8. CASE WorkerStep
  BY <1>8 DEF WorkerStep, Workers
<1>9. CASE UNCHANGED vars
  BY <1>9 DEF vars
<1> QED
  BY <1>4, <1>5, <1>6, <1>7, <1>8, <1>9 DEF Next

\* The levels and the steps of main() stay what they are.
LEMMA TypedNext == IndInv /\ [Next]_vars => Typed'
<1> SUFFICES ASSUME IndInv, [Next]_vars PROVE Typed'
  OBVIOUS
<1>0. Typed
  BY DEF IndInv
<1>1. CASE Posts
  <2>1. /\ posted' \in Seq(Messages) /\ Len(posted) \in Nat /\ Len(posted') \in Nat
        /\ Len(posted) <= Len(posted')
    BY <1>0, <1>1, PostedKept
  <2>2. UNCHANGED <<conf, opened, taken, task, file, console>>
    BY <1>1 DEF Posts
  <2>3. level' \in 0 .. 6 /\ type' \in LogTypes /\ logger' \in {"none", "level", "type", "ready"}
        /\ main' \in Mains
    <3>1. CASE ConfigureLevel
      BY <1>0, <3>1, LevelsAssumption DEF ConfigureLevel, Typed
    <3>2. CASE ConfigureType
      BY <1>0, <3>2 DEF ConfigureType, Typed
    <3>3. CASE \E t \in Pool \cup {"main"}, at \in Levels : SessionLogs(t, at)
      BY <1>0, <3>3 DEF SessionLogs, Typed
    <3>4. CASE OpenDatabase \/ LogFailure \/ LogStart \/ LogThrown \/ LogStopped
      BY <1>0, <3>4 DEF OpenDatabase, LogFailure, LogStart, LogThrown, LogStopped, MainLogs, Typed, Mains
    <3>5. CASE DatabaseFails \/ StartServer \/ RunThrows \/ Join \/ Exit \/ Kill
      BY <1>0, <3>5 DEF DatabaseFails, StartServer, RunThrows, Join, Exit, Kill, Goes, Typed, Mains
    <3>6. CASE WorkerStep
      BY <1>0, <3>6 DEF WorkerStep, Workers, Take, Takes, TestType, Typed
    <3>7. CASE UNCHANGED vars
      BY <1>0, <3>7 DEF vars, Typed
    <3> QED
      BY <3>1, <3>2, <3>3, <3>4, <3>5, <3>6, <3>7 DEF Next
  <2> QED
    BY <1>0, <2>1, <2>2, <2>3 DEF Typed, At
<1>2. CASE Take("w1")
  <2>1. Len(posted) \in Nat
    BY <1>0, LenProperties DEF Typed
  <2> QED
    BY <1>0, <1>2, <2>1, TakeOutcomes DEF Works, Typed, At
<1>3. CASE TestType("w1")
  <2>1. file' \in Seq(Nat) /\ console' \in Seq(Nat)
    <3>1. taken \in Nat /\ file \in Seq(Nat) /\ console \in Seq(Nat)
      BY <1>0 DEF Typed
    <3>2. Append(file, taken) \in Seq(Nat) /\ Append(console, taken) \in Seq(Nat)
      BY <3>1, Appended
    <3> QED
      BY <1>0, <1>3, <3>1, <3>2, TestOutcomes DEF ToFile, ToConsole, NotToFile, NotToConsole
  <2>2. /\ Works /\ taken' = taken /\ task' \in [Workers -> [n : Nat, at : Steps]] /\ At # "free"
        /\ At' = "free" => task'["w1"].n = 0
        /\ At' # "free" => task'["w1"].n = task["w1"].n
    BY <1>0, <1>3, TestOutcomes DEF GoesTo
  <2> QED
    BY <1>0, <2>1, <2>2 DEF Works, Typed
<1> QED
  BY <1>0, <1>1, <1>2, <1>3, StepKinds, LevelsAssumption

\* configure() is over before anybody else posts, and main() has built the Logger by the
\* time it runs the sessions.
LEMMA ConfiguredNext == IndInv /\ [Next]_vars => Configured' /\ NoneLost'
<1> SUFFICES ASSUME IndInv, [Next]_vars PROVE Configured' /\ NoneLost'
  OBVIOUS
<1>0. Typed /\ Configured /\ NoneLost
  BY DEF IndInv
<1>1. CASE Take("w1")
  BY <1>0, <1>1, TakeOutcomes DEF Works, Configured, NoneLost, Ended, SetLevel, SetType
<1>2. CASE TestType("w1")
  BY <1>0, <1>2, TestOutcomes DEF Works, Configured, NoneLost, Ended, SetLevel, SetType
<1>3. ASSUME NEW by \in Pool \cup {"main", "configure"}, NEW at \in 1 .. 5, Post(by, at),
             by # "configure" => logger' = "ready", logger = "ready" => logger' = "ready"
      PROVE  \A i \in 1 .. Len(posted') : posted'[i].by # "configure" => logger' = "ready"
  <2>1. posted \in Seq(Messages) /\ [by |-> by, level |-> at] \in Messages
    BY <1>0 DEF Typed, Messages
  <2>2. CASE posted' = posted
    BY <1>0, <1>3, <2>2 DEF Configured
  <2>3. CASE posted' = Append(posted, [by |-> by, level |-> at])
    <3>1. /\ Len(posted') = Len(posted) + 1 /\ Len(posted) \in Nat
          /\ \A i \in 1 .. Len(posted) : posted'[i] = posted[i]
          /\ posted'[Len(posted) + 1] = [by |-> by, level |-> at]
      BY <2>1, <2>3, Appended, LenProperties
    <3>2. ASSUME NEW i \in 1 .. Len(posted'), posted'[i].by # "configure"
          PROVE  logger' = "ready"
      <4>1. CASE i \in 1 .. Len(posted)
        BY <1>0, <1>3, <3>1, <3>2, <4>1 DEF Configured
      <4>2. CASE i = Len(posted) + 1
        BY <1>3, <3>1, <3>2, <4>2
      <4> QED
        BY <3>1, <4>1, <4>2
    <3> QED
      BY <3>2
  <2> QED
    BY <1>3, <2>2, <2>3 DEF Post
<1>4. CASE ConfigureLevel
  <2>1. \A i \in 1 .. Len(posted') : posted'[i].by # "configure" => logger' = "ready"
    <3>1. CASE posted' = posted
      BY <1>0, <1>4, <3>1 DEF ConfigureLevel, Configured
    <3>2. CASE Post("configure", ERROR)
      BY <1>3, <1>4, <3>2 DEF ConfigureLevel, ERROR
    <3> QED
      BY <1>4, <3>1, <3>2 DEF ConfigureLevel
  <2>2. logger' = "type" /\ level' = SetLevel /\ main' = main /\ type' = type /\ conf' = conf
        /\ (lost' => Ended)
    BY <1>0, <1>4 DEF ConfigureLevel, Configured, SetLevel, confVars, NoneLost, Post
  <2>3. NoneLost'
    BY <2>2 DEF NoneLost, Ended
  <2>4. SetLevel' = SetLevel /\ SetType' = SetType
    BY <2>2 DEF SetLevel, SetType
  <2>5. Configured'
    BY <1>0, <1>4, <2>1, <2>2, <2>4 DEF ConfigureLevel, Configured
  <2> QED
    BY <2>3, <2>5
<1>5. CASE ConfigureType
  <2>1. \A i \in 1 .. Len(posted') : posted'[i].by # "configure" => logger' = "ready"
    BY <1>5 DEF ConfigureType
  <2>2. logger' = "ready" /\ type' = SetType /\ main' = main /\ level' = level /\ conf' = conf
        /\ (lost' => Ended)
    BY <1>0, <1>5 DEF ConfigureType, Configured, SetType, confVars, NoneLost, Post
  <2>3. NoneLost'
    BY <2>2 DEF NoneLost, Ended
  <2>4. SetLevel' = SetLevel /\ SetType' = SetType
    BY <2>2 DEF SetLevel, SetType
  <2>5. Configured'
    BY <1>0, <1>5, <2>1, <2>2, <2>4 DEF ConfigureType, Configured
  <2> QED
    BY <2>3, <2>5
<1>6. ASSUME NEW here \in Mains, NEW at \in 1 .. 5, NEW next, MainLogs(here, at, next), ~ Ended
      PROVE  Configured' /\ NoneLost'
  <2>1. UNCHANGED <<conf, level, type>>
    BY <1>6 DEF MainLogs, confVars
  <2>2. CASE logger = "none" /\ logger' = "level" /\ UNCHANGED <<main, posted, lost>>
    BY <1>0, <2>1, <2>2 DEF Configured, NoneLost, Ended, SetLevel, SetType
  <2>3. CASE logger = "ready" /\ Post("main", at) /\ main' = next /\ UNCHANGED logger
    <3>1. lost' = lost
      BY <1>6, <2>3 DEF Post
    <3>2. \A i \in 1 .. Len(posted') : posted'[i].by # "configure" => logger' = "ready"
      BY <2>3
    <3> QED
      BY <1>0, <1>6, <2>1, <2>3, <3>1, <3>2 DEF Configured, NoneLost, SetLevel, SetType
  <2> QED
    BY <1>6, <2>2, <2>3 DEF MainLogs
<1>7. CASE OpenDatabase \/ LogFailure \/ LogStart \/ LogThrown \/ LogStopped
  <2>1. FATAL \in 1 .. 5 /\ INFO \in 1 .. 5 /\ DEBUG \in 1 .. 5
    BY DEF FATAL, INFO, DEBUG
  <2>2. CASE LogFailure
    BY <1>6, <2>1, <2>2 DEF LogFailure, MainLogs, Ended, Mains
  <2>3. CASE LogStart
    BY <1>6, <2>1, <2>3 DEF LogStart, MainLogs, Ended, Mains
  <2>4. CASE LogThrown
    BY <1>6, <2>1, <2>4 DEF LogThrown, MainLogs, Ended, Mains
  <2>5. CASE LogStopped
    BY <1>6, <2>1, <2>5 DEF LogStopped, MainLogs, Ended, Mains
  <2>6. CASE OpenDatabase
    BY <1>6, <2>1, <2>6 DEF OpenDatabase, MainLogs, Ended, Mains
  <2> QED
    BY <1>7, <2>2, <2>3, <2>4, <2>5, <2>6
<1>8. ASSUME NEW t \in Pool \cup {"main"}, NEW at \in Levels, SessionLogs(t, at)
      PROVE  Configured' /\ NoneLost'
  <2>1. UNCHANGED <<conf, level, type, logger, main>>
    BY <1>8 DEF SessionLogs, confVars
  <2>2. logger = "ready"
    BY <1>0, <1>8 DEF SessionLogs, Configured
  <2>3. lost' => Ended'
    BY <1>0, <1>8, <2>1, <2>2 DEF SessionLogs, Post, NoneLost, Ended
  <2> QED
    BY <1>0, <2>1, <2>2, <2>3 DEF Configured, NoneLost, SetLevel, SetType
<1>9. CASE DatabaseFails \/ StartServer \/ RunThrows \/ Join \/ Exit \/ Kill
  <2>1. UNCHANGED <<conf, level, type, logger, posted, lost>>
    BY <1>9 DEF DatabaseFails, StartServer, RunThrows, Join, Exit, Kill, Goes, confVars
  <2>2. /\ main' \in {"run", "failed", "stopped", "join", "join_failed", "teardown", "exit"} =>
             main \in {"run", "failed", "stopped", "join", "join_failed", "teardown", "exit"}
        /\ Ended => Ended'
    BY <1>9 DEF DatabaseFails, StartServer, RunThrows, Join, Exit, Kill, Goes, Ended
  <2> QED
    BY <1>0, <2>1, <2>2 DEF Configured, NoneLost, SetLevel, SetType
<1>10. CASE UNCHANGED vars
  BY <1>0, <1>10 DEF vars, confVars, Configured, NoneLost, Ended, SetLevel, SetType
<1> QED
  BY <1>1, <1>2, <1>4, <1>5, <1>7, <1>8, <1>9, <1>10 DEF Next, WorkerStep, Workers

\* main() has told why it ends when it ends, and by then the worker is done.
LEMMA ToldNext == IndInv /\ [Next]_vars => Told'
<1> SUFFICES ASSUME IndInv, [Next]_vars PROVE Told'
  OBVIOUS
<1>0. Typed /\ Told /\ Len(posted) \in Nat
  BY LenProperties DEF IndInv, Typed
<1> DEFINE Reason == \E i \in 1 .. Len(posted) : posted[i].by = "main" /\ posted[i].level = FATAL
<1>1. CASE Take("w1")
  BY <1>0, <1>1, TakeOutcomes DEF Works, Told
<1>2. CASE TestType("w1")
  BY <1>0, <1>2, TestOutcomes DEF Works, Told
<1>3. CASE Posts
  <2>1. Reason => Reason'
    BY <1>0, <1>3, PostedKept
  <2>2. taken' = taken /\ At' = At
    BY <1>3 DEF Posts, At
  <2>3. CASE LogFailure \/ LogThrown
    <3>1. CASE UNCHANGED <<main, posted>>
      BY <1>0, <2>1, <2>2, <3>1 DEF Told
    <3>2. CASE Post("main", FATAL) /\ ~ Ended /\ main' \notin {"teardown", "exit"}
      <4>1. [by |-> "main", level |-> FATAL] \in Messages
        BY DEF Messages, FATAL
      <4>2. posted' = Append(posted, [by |-> "main", level |-> FATAL]) /\ posted \in Seq(Messages)
        BY <1>0, <3>2 DEF Post, Typed
      <4>3. /\ Len(posted') = Len(posted) + 1
            /\ posted'[Len(posted) + 1] = [by |-> "main", level |-> FATAL]
        BY <4>1, <4>2, Appended
      <4>4. Reason'
        BY <1>0, <4>3
      <4> QED
        BY <3>2, <4>4 DEF Told
    <3> QED
      BY <2>3, <3>1, <3>2 DEF LogFailure, LogThrown, MainLogs, Ended
  <2>4. CASE OpenDatabase \/ LogStart \/ LogStopped
    BY <1>0, <2>1, <2>2, <2>4 DEF OpenDatabase, LogStart, LogStopped, MainLogs, Told
  <2>5. CASE ConfigureLevel \/ ConfigureType \/ \E t \in Pool \cup {"main"}, at \in Levels : SessionLogs(t, at)
    <3>1. main' = main
      BY <2>5 DEF ConfigureLevel, ConfigureType, SessionLogs
    <3>2. Ended => posted' = posted
      BY <2>5 DEF ConfigureLevel, ConfigureType, SessionLogs, Post
    <3> QED
      BY <1>0, <2>1, <2>2, <3>1, <3>2 DEF Told, Ended
  <2>6. CASE Join
    <3>1. taken = Len(posted) /\ task["w1"] = Free /\ posted' = posted
      BY <2>6 DEF Join, Goes, Workers
    <3>2. At = "free"
      BY <3>1 DEF At, Free
    <3>3. main \in {"join", "join_failed"}
      BY <2>6 DEF Join, Goes
    <3> QED
      BY <1>0, <2>1, <2>2, <3>1, <3>2, <3>3 DEF Told
  <2>7. CASE DatabaseFails \/ StartServer \/ RunThrows \/ Exit \/ Kill
    BY <1>0, <2>1, <2>2, <2>7 DEF DatabaseFails, StartServer, RunThrows, Exit, Kill, Goes, Told
  <2>8. CASE WorkerStep
    BY <1>1, <1>2, <2>8 DEF WorkerStep, Workers
  <2>9. CASE UNCHANGED vars
    BY <1>0, <2>1, <2>2, <2>9 DEF vars, Told
  <2> QED
    BY <2>3, <2>4, <2>5, <2>6, <2>7, <2>8, <2>9 DEF Next
<1> QED
  BY <1>0, <1>1, <1>2, <1>3, StepKinds, LevelsAssumption

\* A settled message meets the type of the settings, and any message their level.
LEMMA SettingsMet ==
    ASSUME Typed, Configured, NEW i \in 1 .. Len(posted)
    PROVE  /\ posted[i] \in Messages /\ level = SetLevel
           /\ Settled(i) => type = SetType
           /\ Passes(i) <=> level >= posted[i].level
<1>1. posted[i] \in Messages /\ posted[i].level \in 1 .. 5 /\ Len(posted) \in Nat \ {0}
  <2>1. posted \in Seq(Messages) /\ Len(posted) \in Nat
    BY LenProperties DEF Typed
  <2>2. posted[i] \in Messages
    BY <2>1, ElementOfSeq
  <2> QED
    BY <2>1, <2>2 DEF Messages
<1>2. logger \in {"type", "ready"}
  BY <1>1 DEF Typed, Configured
<1>3. level = SetLevel
  BY <1>2 DEF Configured
<1>4. Settled(i) => type = SetType
  BY <1>2 DEF Configured, Settled, SetType
<1>5. Passes(i) <=> level >= posted[i].level
  <2>1. CASE conf.level = Invalid
    BY <1>1, <1>3, <2>1 DEF Passes, SetLevel, ALL
  <2>2. CASE conf.level # Invalid
    BY <1>3, <2>2 DEF Passes, SetLevel
  <2> QED
    BY <2>1, <2>2
<1> QED
  BY <1>1, <1>3, <1>4, <1>5

\* A message is in the sinks of the settings when they are where it is.
LEMMA SinksOfType ==
    ASSUME Typed
    PROVE  /\ "file" \in Sinks <=> SetType \in {"file", "enable"}
           /\ "console" \in Sinks <=> SetType \in {"console", "enable"}
  BY NamesAssumption DEF Typed, Sinks, SetType, FirstType, LogTypes

\* Taking a message keeps the order, and a message that is not to be written is done with.
LEMMA TakeKeeps ==
    ASSUME IndInv, Take("w1")
    PROVE  Ordered' /\ Progress' /\ Written'
<1>1. /\ Works /\ At = "free" /\ taken \in Nat /\ taken < Len(posted) /\ taken' = taken + 1
      /\ file' = file /\ console' = console
      /\ \/ level >= posted[taken + 1].level /\ At' = "console?" /\ task'["w1"].n = taken + 1
         \/ ~ (level >= posted[taken + 1].level) /\ At' = "free" /\ task'["w1"].n = 0
  BY TakeOutcomes DEF IndInv
<1>2. /\ Typed /\ Configured /\ Len(posted) \in Nat /\ file \in Seq(Nat) /\ console \in Seq(Nat)
      /\ task["w1"].n = 0
  BY <1>1, LenProperties DEF IndInv, Typed
<1>3. taken + 1 \in Nat /\ Ascending(file, taken + 1) /\ Ascending(console, taken + 1)
  BY <1>1 DEF IndInv, Ordered
<1>4. /\ Ascending(file, (taken + 1) + 1) /\ Ascending(console, (taken + 1) + 1)
      /\ ~ Contains(file, taken + 1) /\ ~ Contains(console, taken + 1)
  <2>1. \A s \in Seq(Nat) : Ascending(s, taken + 1) =>
            Ascending(s, (taken + 1) + 1) /\ ~ Contains(s, taken + 1)
    BY <1>3, AscendingOn, NotContained
  <2> QED
    BY <1>2, <1>3, <2>1
<1>5. Ordered'
  BY <1>1, <1>3, <1>4 DEF Ordered
<1>6. taken + 1 \in 1 .. Len(posted)
  BY <1>1, <1>2
<1>7. Passes(taken + 1) <=> level >= posted[taken + 1].level
  BY <1>2, <1>6, SettingsMet
<1>8. \A i \in 1 .. Len(posted) : /\ Settled(i)' <=> Settled(i)
                                  /\ Passes(i)' <=> Passes(i)
                                  /\ InSinks(i)' <=> InSinks(i)
  BY <1>1 DEF Works, Settled, Passes, InSinks, Sinks
<1>9. Progress'
  BY <1>1, <1>6, <1>7, <1>8 DEF Progress
<1>10. ASSUME NEW i \in 1 .. Len(posted), Handled(i)', Settled(i) PROVE InSinks(i)
  <2>1. i <= taken + 1 /\ task'["w1"].n # i
    BY <1>1, <1>10 DEF Handled, Workers
  <2>2. CASE i = taken + 1
    <3>1. ~ Passes(i)
      BY <1>1, <1>7, <2>1, <2>2
    <3> QED
      BY <1>4, <2>2, <3>1 DEF InSinks
  <2>3. CASE i # taken + 1
    <3>1. Handled(i)
      BY <1>1, <1>2, <2>1, <2>3 DEF Handled, Workers
    <3> QED
      BY <1>10, <3>1 DEF IndInv, Written
  <2> QED
    BY <2>2, <2>3
<1>11. Written'
  BY <1>1, <1>8, <1>10 DEF Works, Written
<1> QED
  BY <1>5, <1>9, <1>11

\* What the steps of the worker do to the sinks: a number is appended above the others.
LEMMA SinksGrow ==
    ASSUME IndInv, TestType("w1")
    PROVE  /\ taken \in Nat \ {0} /\ taken \in 1 .. Len(posted)
           /\ ToFile => (Contains(file', taken) <=> opened \/ Contains(file, taken))
           /\ ToConsole => Contains(console', taken)
           /\ \A x \in Nat : x # taken => /\ Contains(file', x) <=> Contains(file, x)
                                          /\ Contains(console', x) <=> Contains(console, x)
           /\ At # "cout" => ~ Contains(file, taken)
           /\ ~ Contains(console, taken)
           /\ Ordered'
<1>1. /\ Works /\ taken' = taken /\ At # "free" 
      /\ file' = file \/ (ToFile /\ At # "cout") 
      /\ console' = console \/ (ToConsole /\ At' = "free")
      /\ At' \in {"free", "cout"} \/ file' = file
      /\ At = "cout" => At' = "free"
  BY TestOutcomes DEF IndInv, NotToFile, NotToConsole, GoesTo
<1>2. /\ file \in Seq(Nat) /\ console \in Seq(Nat) /\ taken \in Nat /\ taken > 0
      /\ taken \in 0 .. Len(posted) /\ Len(posted) \in Nat
  BY <1>1, LenProperties DEF IndInv, Typed
<1>3. /\ Ascending(file, taken + 1) /\ Ascending(console, taken)
      /\ At # "cout" => Ascending(file, taken)
  <2>1. Ascending(file, IF At = "cout" THEN taken + 1 ELSE taken) /\ Ascending(console, taken)
    BY <1>1 DEF IndInv, Ordered
  <2> QED
    BY <1>2, <2>1, AscendingOn
<1>4. /\ \A x \in Nat : Contains(Append(file, taken), x) <=> Contains(file, x) \/ x = taken
      /\ \A x \in Nat : Contains(Append(console, taken), x) <=> Contains(console, x) \/ x = taken
  BY <1>2, ContainsAppend
<1>5. /\ At # "cout" => ~ Contains(file, taken)
      /\ ~ Contains(console, taken)
  BY <1>2, <1>3, NotContained
<1>6. /\ Ascending(console, taken + 1) /\ Ascending(Append(console, taken), taken + 1)
      /\ At # "cout" => Ascending(Append(file, taken), taken + 1)
  BY <1>2, <1>3, AscendingOn
<1>7. Ordered'
  <2>1. At' \in {"free", "cout"} => Ascending(file', taken + 1)
    BY <1>1, <1>3, <1>6 DEF ToFile
  <2>2. At' \notin {"free", "cout"} => Ascending(file', taken)
    BY <1>1, <1>3
  <2>3. At' = "free" => Ascending(console', taken + 1)
    BY <1>1, <1>6 DEF ToConsole
  <2>4. At' # "free" => Ascending(console', taken)
    BY <1>1, <1>3
  <2> QED
    BY <1>1, <2>1, <2>2, <2>3, <2>4 DEF Ordered
<1>8. \A x \in Nat : x # taken => /\ Contains(file', x) <=> Contains(file, x)
                                  /\ Contains(console', x) <=> Contains(console, x)
  BY <1>1, <1>4 DEF ToFile, ToConsole
<1>9. ToFile => (Contains(file', taken) <=> opened \/ Contains(file, taken))
  BY <1>2, <1>4 DEF ToFile
<1>10. ToConsole => Contains(console', taken)
  BY <1>2, <1>4 DEF ToConsole
<1> QED
  BY <1>2, <1>5, <1>7, <1>8, <1>9, <1>10

\* The worker writes a settled message where the settings want it.
LEMMA TestKeeps ==
    ASSUME IndInv, TestType("w1")
    PROVE  Ordered' /\ Progress' /\ Written'
<1>1. /\ Works /\ taken' = taken /\ At # "free"
      /\ At' = "free" => task'["w1"].n = 0
      /\ At' # "free" => task'["w1"].n = task["w1"].n
  BY TestOutcomes DEF IndInv, GoesTo
<1>2. Typed /\ Configured /\ Progress /\ Written /\ task["w1"].n = taken
  BY <1>1 DEF IndInv, Typed
<1>3. \A i \in 1 .. Len(posted) : /\ Settled(i)' <=> Settled(i)
                                  /\ Passes(i)' <=> Passes(i)
  BY <1>1 DEF Works, Settled, Passes
<1>4. SetType' = SetType /\ Sinks' = Sinks
  BY <1>1 DEF Works, SetType, Sinks
<1>5. taken \in 1 .. Len(posted)
  BY SinksGrow
<1>6. ASSUME Settled(taken)
      PROVE  /\ At' # "free" => /\ Passes(taken)
                                /\ At' = "file?" => SetType # "console"
                                /\ At' = "enable?" => SetType \notin {"console", "file"}
                                /\ At' = "cout" => SetType = "enable" /\ (Contains(file', taken) <=> opened)
             /\ At' = "free" => InSinks(taken)'
  <2>1. /\ type = SetType /\ Passes(taken)
        /\ At = "file?" => SetType # "console"
        /\ At = "enable?" => SetType \notin {"console", "file"}
        /\ At = "cout" => SetType = "enable" /\ (Contains(file, taken) <=> opened)
    BY <1>1, <1>2, <1>5, <1>6, SettingsMet DEF Progress
  <2>2. InSinks(taken)' <=> /\ Contains(file', taken) <=> (SetType \in {"file", "enable"} /\ opened)
                            /\ Contains(console', taken) <=> SetType \in {"console", "enable"}
    BY <1>1, <1>2, <1>3, <1>4, <1>5, <2>1, SinksOfType DEF InSinks, Works
  <2>3. /\ ToFile => (Contains(file', taken) <=> opened \/ Contains(file, taken))
        /\ ToConsole => Contains(console', taken)
        /\ At # "cout" => ~ Contains(file, taken)
        /\ ~ Contains(console, taken)
    BY SinksGrow
  <2> QED
    BY <1>2, <2>1, <2>2, <2>3, TestOutcomes DEF NotToFile, NotToConsole, GoesTo
<1>7. Progress'
  BY <1>1, <1>3, <1>4, <1>5, <1>6 DEF Progress, Works
<1>8. ASSUME NEW i \in 1 .. Len(posted), Handled(i)', Settled(i) PROVE InSinks(i)'
  <2>1. i <= taken /\ task'["w1"].n # i
    BY <1>1, <1>8 DEF Handled, Workers
  <2>2. CASE i = taken
    BY <1>1, <1>2, <1>6, <1>8, <2>1, <2>2
  <2>3. CASE i # taken
    <3>1. Handled(i)
      BY <1>2, <2>1, <2>3 DEF Handled, Workers
    <3>2. InSinks(i)
      BY <1>2, <1>8, <3>1 DEF Written
    <3>3. /\ Contains(file', i) <=> Contains(file, i)
          /\ Contains(console', i) <=> Contains(console, i)
      BY <2>3, SinksGrow
    <3> QED
      BY <1>1, <1>3, <1>4, <3>2, <3>3 DEF InSinks, Works
  <2> QED
    BY <2>2, <2>3
<1>9. Written'
  BY <1>1, <1>3, <1>8 DEF Works, Written
<1> QED
  BY <1>7, <1>9, SinksGrow
--------------------------------------------------------------------------------
(* The theorems. *)

\* The inductive invariant holds in every behaviour.
THEOREM LoggerInvariant == Spec => []IndInv
<1>1. IndInv /\ [Next]_vars => IndInv'
  <2> SUFFICES ASSUME IndInv, [Next]_vars PROVE IndInv'
    OBVIOUS
  <2>1. Typed' /\ Configured' /\ Told' /\ NoneLost'
    BY TypedNext, ConfiguredNext, ToldNext
  <2>2. Ordered' /\ Progress' /\ Written'
    <3>1. CASE Posts
      BY <3>1, PostingKeeps DEF IndInv
    <3>2. CASE Take("w1")
      BY <3>2, TakeKeeps
    <3>3. CASE TestType("w1")
      BY <3>3, TestKeeps
    <3> QED
      BY <3>1, <3>2, <3>3, StepKinds, LevelsAssumption DEF IndInv
  <2> QED
    BY <2>1, <2>2 DEF IndInv
<1> QED
  BY LoggerInit, <1>1, PTL DEF Spec

\* Type correctness (TypeOK): the worker never takes what was not posted.
THEOREM LoggerTypes == Spec => []TypeOK
<1>1. IndInv => TypeOK
  <2> SUFFICES ASSUME IndInv PROVE TypeOK
    OBVIOUS
  <2>1. posted \in Seq(Messages) /\ Len(posted) \in Nat /\ DOMAIN posted = 1 .. Len(posted)
    BY LenProperties DEF IndInv, Typed
  <2>2. \A i \in DOMAIN posted : posted[i].level \in 1 .. 5
    <3> TAKE i \in DOMAIN posted
    <3>1. posted[i] \in Messages
      BY <2>1, ElementOfSeq
    <3> QED
      BY <3>1 DEF Messages
  <2>3. \A w \in Workers : task[w].n \in 0 .. taken
    BY <2>1 DEF IndInv, Typed, Workers
  <2> QED
    BY <2>2, <2>3 DEF IndInv, Typed, TypeOK
<1> QED
  BY LoggerInvariant, <1>1, PTL

\* The file and the console have the messages in the order of posting, each once
\* (OrderKept): one worker takes them in turn and is done with one before the next.
THEOREM LogInOrder == Spec => []OrderKept
<1>1. IndInv => OrderKept
  <2> SUFFICES ASSUME IndInv, NEW s \in {file, console}
               PROVE  \A i, j \in DOMAIN s : i < j => s[i] < s[j]
    BY DEF OrderKept
  <2>1. s \in Seq(Nat) /\ DOMAIN s = 1 .. Len(s)
    BY LenProperties DEF IndInv, Typed
  <2>2. \A i, j \in 1 .. Len(s) : i < j => s[i] < s[j]
    BY DEF IndInv, Ordered, Ascending
  <2> QED
    BY <2>1, <2>2
<1> QED
  BY LoggerInvariant, <1>1, PTL

\* A message is where the settings want it (SinksAsConfigured), though the type is read for
\* every comparison while configure() may still set it.
THEOREM LogAsConfigured == Spec => []SinksAsConfigured
<1>1. IndInv => SinksAsConfigured
  BY LenProperties DEF IndInv, Written, Settled, Typed, SinksAsConfigured
<1> QED
  BY LoggerInvariant, <1>1, PTL

\* What happens is told (AllTold): no session meets a Logger half built, and main() comes
\* back from join() only when the worker is done with all that was posted, why main() ends
\* among it.
THEOREM LogTellsAll == Spec => []AllTold
<1>1. IndInv => JoinWaits
  <2> SUFFICES ASSUME IndInv, main \in {"teardown", "exit"}, NEW i \in DOMAIN posted
               PROVE  Handled(i)
    BY DEF JoinWaits
  <2>1. i \in 1 .. Len(posted) /\ taken = Len(posted) /\ At = "free"
    BY LenProperties DEF IndInv, Typed, Told
  <2> QED
    BY <2>1 DEF IndInv, Typed, Handled, Workers
<1>2. IndInv => FailureTold
  <2> SUFFICES ASSUME IndInv, main \in {"teardown", "exit"}
               PROVE  \E i \in DOMAIN posted : /\ posted[i].by = "main" /\ posted[i].level = FATAL
                                               /\ InSinks(i)
    BY DEF FailureTold
  <2>1. PICK i \in 1 .. Len(posted) : posted[i].by = "main" /\ posted[i].level = FATAL
    BY DEF IndInv, Told
  <2>2. i \in DOMAIN posted
    BY <2>1, LenProperties DEF IndInv, Typed
  <2>3. Handled(i)
    BY <1>1, <2>2 DEF JoinWaits
  <2>4. InSinks(i)
    BY <2>1, <2>3 DEF IndInv, Written, Settled
  <2> QED
    BY <2>1, <2>2, <2>4
<1>3. IndInv => AllTold
  BY <1>1, <1>2 DEF AllTold, IndInv
<1> QED
  BY LoggerInvariant, <1>3, PTL
================================================================================
