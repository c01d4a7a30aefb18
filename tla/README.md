# Models of the SOCKS5 proxy

TLA+ specifications of the proxy server in this repository, checked with TLC, and theorems about
all of them checked with TLAPS. A definition's name is the source's where TLA+ allows it;
`PROJECT.json` ("map") gives the lines each definition stands for.

## 1. The system

| Part | State | Operations | Talks to |
|---|---|---|---|
| **TcpServer** (`src/src/server.cpp`) | the atomic `_sessions`, `_maxSessions`, the worker pool | `start_accept`, `handle_accept` | creates sessions, posts `start()` to the pool; `TcpSession::close` takes its counter down |
| **TcpSession** (`session.cpp`) | two sockets, two buffers, `_isClosed`, its `Socks` | `start`, `createProxy`, `connect`, the reads and their handlers, `writeToSocket`, `close`, destructor | runs on a pool thread until the relay is armed, then on the main thread |
| **Socks / Socks4 / Socks5** (`socks*.cpp`) | request fields, `_id` of the row | `init`, `createRecord`, `write_stat`, `close` | reads and writes through the session, calls DatabaseService and ConfigReader |
| **DatabaseService** (`stat_db_service.cpp`, `stat_handlers.cpp`) | the SQLite file, one mutex | `createTable`, `create`, `update`, `close`, `selectSession` | called by every thread; the file is shared with the interface |
| **ConfigReader** | two maps | `parseFile`, `fillUsers`, `getValue`, `hasUser` | read once at start |
| **Logger** (`Logger.cpp`) | level, type, a queue, one worker thread | `getInstance`, `configure`, `log`, `logTask`, `join` | called by every thread; reads ConfigReader when it is built |
| **main** (`main.cpp`) | paths, the `io_context` | open the database, build the server, run, log a failure, join the log | all of the above |
| **Windows service** (`service/windows/service.cpp`) | `serviceStatus`, the stop event, a child process, a pipe | `serviceMain`, `serviceControlHandler` | Windows, the server process |
| **Service controls** (`servicecontrols.c`) | none: a window and four commands | Start, Stop, Enable, Disable, arguments, elevation | starts `sc.exe` and does not wait for it |
| **Interface** (`ui/`) | a copy of the table, ten filters and their fields, cached column widths, an arrow per heading | `SessionDao::update`, the setters, `filterAcceptsRow`, sorting, the timer | reads the SQLite file from a process of its own |

**How they interact.** The main thread runs `io_context.run()`: it accepts, and it runs the relay
handlers of all sessions, one at a time, with blocking writes. Each accepted session's `start()`
runs on a pool thread: the whole handshake is blocking reads and writes there. `start()` ends by
arming one read per direction; from then on handlers run on the main thread, while the pool thread
may still be inside `start()`. A session lives as long as a `shared_ptr` to it: in the pending
accept, the pool task, an armed read or a running handler. Its destructor calls `close()`, which an
atomic exchange lets do its work once.

**What is hard here**: who closes a session and who destroys it, and when; the wait for a free slot
on the thread that frees slots; a counter that two code paths do not agree on; statements refused
while another process reads; requests cut short between any two bytes; a stop that meets the end of
the server. `PROJECT.json` ("hazards") lists them by line with the properties that cover them.

**What makes each part correct**: the limit holds and accepting goes on (TcpServer); no half-dead
relay, nothing outlives a session, a lost peer ends it, and its bytes arrive in order, once, and are
counted (TcpSession); replies in protocol order, no connection for an incomplete request, grants kept
and refusals told (Socks); rows belong to sessions, sums are exact, calls return (DatabaseService); a
file means what its format says (ConfigReader); messages keep their order, reach the sinks that are
set, and a failure is told before the process ends (Logger, main); no server without its service but
where Windows fails or refuses, a stop is served (Windows service); what is asked for is done (Service
controls); the rows shown are those the fields ask for, under headings that fit (Interface).

## 2. Modules

The proofs about a component are in `<component>Proofs` (`ServiceProofs` for `WinService` with
`ServiceControls`); section 4 has them.

### Admission and ProxyServer (core)

`Admission` is what `max_sessions` comes to: a set of connections that stays within the limit and the
slots that were given back without having been taken (`extra`).

`ProxyServer` is the life of sessions over the threads. `mainpc`, `cur`, `frame` are the main
thread's program counter, the session whose handler it runs and which handler; `phase[s]` is where
session object `s` is (in the accept, queued, at a step of `start()`, left to its reads, in its
destructor on a pool thread, free); `closing[s]` is the progress of `close()`, so `_isClosed` is
`closing[s] # "open"`; `read[s][d]` is the asynchronous read of a direction; `isOpen[s]` the
sockets; `row[s]` the session's row. The reference count is not a variable: a reference is held by
what `phase`, `read` and `cur` show. A destroyed object may be allocated again, so the runs cover
any number of connections over few objects.

Grain: one action per handler up to its blocking write, the write, and each of the four effects of
`close()` (exchange, sockets, row, counter), as the other threads can see them in between. The
handshake is one step with its two outcomes (`Handshake` opens it up, and its `OutcomeSummary` is
what `ProxyServer` takes from it). `server_read` is two steps, the test and the read, since the
socket may be closed in between. Bytes are left to `Relay`: here a read completes with data or fails (end of
file is a failure, as in the code).

`MCProxyServer` names the symmetry and a watched session.

### Pipe and Relay

`Pipe` is what a direction promises: what was received is a prefix of what was sent. `Relay` has the
bytes of `ProxyServer`'s reads and writes. A flow is one direction of a session; `buf` is the one
buffer a flow reuses, `len` its `bytes_transferred`, `rest` what `ba::write` has still to write. Reads
complete with any number of bytes, sockets take a few bytes ahead of their peers, peers end their
stream, vanish or are slow. A socket closed with bytes unread may cost the peer what was on its way
(`TransitLost`). `refused` remembers that the database has refused to count a write.

### Handshake and Wire

One pool thread, one session: `createProxy`, `Socks4::init` or `Socks5::init`, `connect`,
`createRecord`. `pc` is the field to read or call to make next; the client may stop sending (`eof`)
or vanish (`reset`) between any two steps, and the destination may vanish once connected. A failed
stream stays failed. Fields whose content does not matter are only "read"; `AUTH_FLAG` is fixed at
start. `Socks4` never looks at `AUTH_FLAG`, and the model does not either: `CredentialsChecked`, what
`config.txt` says of the setting, is refuted (`HandshakeSocks4`).

`Wire` has the two conversions of 16-bit numbers the handshake makes: BND.PORT (the request's answer
carries `bound`, `told` is what is written of it), and the hexadecimal text of an IPv6 group (`group`).
`MCHandshake` names the pairs of bytes on both sides of every boundary of the two.

### StatLedger and StatDb

`StatLedger` is a book of connections: opened once, added to while active, retired. `StatDb` is
DatabaseService as its callers use it: per thread the call it is in (`op`), the mutex, `selectSession`
and the write as two statements, the integer width of a column read (`ToInt`), the interface's
shared lock on the file (a write while it is held is refused, with no busy timeout), stops at any
step and starts that retire every row. `acked` and `stale` are history variables.

### ConfigParse

`parseFile` and `fillUsers`, a line at a time, next to what a file means by the format `config.txt`
describes (`InBlock`, `ListedAt`, `SetAt`). A line is a record of what the parser can tell of it.
`MCConfigParse` lists thirteen lines: settings, logins, passwords, braces, a comment, a comment with a
brace, and lines without a delimiter. `WideSize` says that `size_t` is wider than `unsigned int`
(64-bit builds).

### WinService and ServiceControls

`WinService` is `serviceMain` and `serviceControlHandler`, which share `serviceStatus` without a
lock. Writing a field and reporting it with `SetServiceStatus` are two steps. A report that fails
throws on a thread that catches nothing, as does a read of the pipe that fails, and the service's
process is gone (`"crashed"`). The server is a process that may write to its pipe and may end at any
time. `TerminateProcess` only asks for its end, and its result is not looked at: the server is then
`"terminating"` until Windows has ended it (`ServerTerminated`), or `"spared"` if Windows refused, while
the service already tells that it is stopped.

`ServiceControls` extends it with the window, `sc.exe` and Windows. A button puts a command among
those under way (`asked`); Windows takes them in any order and refuses some without a word. `wish` is
the last thing somebody wanted, `hasty` that it was wanted before the service had settled. A reboot
ends every process and starts an enabled service. A new start gets a new server; one an earlier
service has left behind is not followed any further. The arguments of the program are modelled as the
code has them: `strcmp()` is tested the wrong way round (`servicecontrols.c:55`), so `start` stops the
service and every other argument starts it.

### Logger

`getInstance`, the constructor with `configure()`, `log()`, the worker's `logTask()` and `join()`, under
every path of `main()` from the database to the end of the process. A message is its number, who
posted it and at which level; the lines of the database's start are one here, after which its table
may still not be made, and so are those of the server's constructor. `logTask` reads the type once per comparison, without a lock, while
`configure()` sets it. `lost` is a history variable.

### SessionView

The interface on its event loop: the timer's `update()`, the cached widths, the fields and the
setters behind them, the filter's test, the reset, the headings. `db` is the table the server's
process writes meanwhile; a read may be refused, which leaves the table empty. A text is a set of
marks, so that "contains" is the subset relation. A number of the database or of a field is wider than
an int and wraps where it becomes one (`ToInt`): in `QVariant::toInt()`, which converts a text to 64 bits
and cuts them, in the property a field's text is assigned to, and in the server, which reads the sum
before it adds to it. `CONSTANTS` choose which filters of each kind an
instance has: the setters and tests of a kind are the same but for the name.

## 3. Runs

| Run | Question | Instance |
|---|---|---|
| `ProxySafety` | counter, accept chain, relay, clean-up in every interleaving, with a failed accept; does the server implement `Admission`? | 4 objects, limit 2, 2 pool threads, 1 failed accept, a database that may refuse |
| `ProxyLiveness` | reads are handled, a lost peer ends a session, queued sessions start | 3 objects, no limit, 1 pool thread |
| `ProxyHang` (violation) | the same at a limit | 3 objects, limit 2 |
| `ProxyOverLimit` (violation) | the limit with one failed accept | 4 objects, limit 2, 1 failed accept |
| `Relay` | do the bytes arrive, in order, once, and are they counted? Does it implement `Pipe`? | 1 session, 2 bytes a flow, buffers of 0 and 2 bytes, a socket that takes 1 byte ahead |
| `Handshake` | replies, order, refusals and their causes, grants, the two conversions | names of up to 3 endpoints, five pairs of bytes on both sides of what the conversions tell apart |
| `HandshakeSocks4` (violation) | is nobody connected without credentials when auth is on? | the same |
| `StatDb` | rows, sums, refinement of `StatLedger`, no stuck call | 2 sessions, 2 pool threads, 2 rows, sums up to 2 with ints below 2 |
| `ConfigParse` | users, settings, blocks | every file of up to 5 of 13 lines |
| `Logger` | order, sinks, the end of the log | 1 pool thread and main, levels 2 and 5, five settings of the level, every type, 5 messages |
| `ServiceControls` | stops, ends, orphans, the pipe; is what is asked for done? | a pipe of 2 bytes, 1 reboot |
| `SessionView` | the rows shown, the headings | 2 rows of up to 2 bytes with ints below 2, a text, a date and a number filter, numbers typed from -2 to 4 |

Some properties of a run are conjunctions of named parts (`SessionServed`, `OutcomeTold`, `WordsPassedOn`,
`RowsMatchSessions`, `ReadAsWritten`, `NobodyWaits`, `DoneAsAsked`, `BytesArrive`, `AllTold`, `LogDrains`,
`HeadingsFit`); the text below cites the part that says it.

**Why the bounds are enough.** Two sessions in use and one more waiting, with a fourth object for the
pending accept, make every pair of actors meet: two sessions at the limit, a third asking for the
slot, an old object destroyed while a new one takes its place. One failed accept shows what every
further one repeats (the theorems cover any number). Liveness needs one session served among two
others. Three endpoints give a first, a middle and a last.
One session is enough for `Relay`, as sessions meet in `ProxyServer` only; two bytes over a socket that
takes one give short reads, a buffer filled twice and a write in pieces. Five messages give one of
`configure()`, one of the database, one of the start, and two that may overtake each other. One reboot shows what
further ones repeat. Five lines give a block with a user
listed twice. Two rows give two sessions at once, and a row of an earlier run.
Ints below 2 make a row of 2 bytes one of 2^31, and 3 and 4 the typed 2^32-1 and 2^32; rows that wrap to a negative
sum and grow on (`MaxBytes` above `Half`) are covered by the theorems. `MaxBytes`,
`MaxRows`, `MaxLines`, `MaxEndpoints`, `MaxPosts`, `MaxReboots`, `MaxAcceptErrors` and `ObjectLeft` are
bounds of the models, not of the code.

`ProxySafety` lets the database refuse any row (`DbMayFail`), and what `SlotAfterCleanup` and
`NothingSurvives` say of a row that was not refused is vacuous there: for a database that refuses nothing
it is proved (`SlotsAreClean`, `SessionsEndClean`).

**Symmetry** is used only in the safety run of `ProxyServer`, which does not tell session objects
apart; the refinement it checks there is a safety property, of variables that do not either.

**Deadlock** is checked where the system never stops (`ProxyServer`, `StatDb`, `SessionView`).
A handshake, a file, a relay that has been closed and drained, a process that has ended and a machine with no reboot left come to their end, and their
runs say `CHECK_DEADLOCK FALSE`.

**Fairness.** A thread that can run does run (weak fairness per thread's steps): the operating
system's scheduler. `io_context` and the pool take work in order, so a completed read or a queued
task is not passed over for ever by others: strong fairness of `Handle` and `PoolBegin`. That peers
let a handshake and a write end is an assumption about the peers, not the code: `session.cpp:72`
says "todo add timeout". Without it one silent client per pool thread stops every new session, and
one that does not read stops the relay. `WatchedSpec` asks for fairness for one session only; as the
specification does not tell sessions apart, what holds for the watched one holds for each. In
`StatDb` a waiting thread gets the mutex in the end (strong fairness of a thread's step).
`WinService` needs only that its two threads run and that Windows ends a process it has agreed to
end; nobody has to ask for a stop, and the server need not end or write. In `ServiceControls` every `sc.exe` that was started comes to its end. In `Relay` the
main thread runs, the network completes reads, and peers read what arrives, which is again an
assumption on them. In `Logger` the worker's writes end and `main()` goes on; that `join()` comes
back although sessions may go on posting rests on `MaxPosts`, and in the code on sessions that do not keep
the worker busy for ever. `SessionView` has no liveness property.

### Where the code differs from what is said of it

* **The server hangs at its limit** (`ProxyHang`, `server.cpp:26`): the wait for a slot occupies the
  thread that would free one. All liveness of `ProxyServer` is therefore checked without a limit.
* **The limit may be exceeded** (`ProxyOverLimit`, `session.cpp:228`): an object whose accept failed
  takes from the counter what it never added. By how much: `ImplementsAdmission`,
  and with it `LimitWithDeficit` (proved, section 4).
* **SOCKS4 is served without credentials** (`HandshakeSocks4`, `socks4.cpp:44`): `config.txt:24` says of
  `auth` that the server is checking client credentials, but only `Socks5::init` looks at the flag. What
  holds with SOCKS4 included is `ConnectsOnFullRequest`.
* **The Start button** (`servicecontrols.c:95`): Disable sets a start type with which Windows refuses
  every start, not only the one at boot, as `README.md:108` and `:111` have it, and as `sc.exe` is hidden
  nobody is told. With any other start type Start does start (`StartUnlessDisabled`). The arguments of the
  same program do the opposite of their names (`servicecontrols.c:55`); nothing outside the code says
  what they do. Which of two commands under way Windows takes first is not modelled as a wish
  (`DoneAsAsked` asks for those made once the service had settled).
* **IPv6 addresses** (`string_utils.h:45`): a group is right only when its low byte has
  two digits or its high byte is zero (`GroupExactUnlessPadded`).
* **Byte sums past 2^31** wrap (`stat_db_service.cpp:202`); exact below (`TotalsExactBelowHalf`). The
  interface wraps them too, when it shows, sorts and filters, and what is typed alike: 2^31 bytes are found by
  that number and shown as -2^31, and a typed 2^32-1 asks for nothing, as -1 does (`sessionmodel.cpp:44`,
  `ShownAsAsked`).
* **BND.PORT** (`socks5.cpp:237`): the client is told the port modulo 256 (`BindPortToldBelow256`).
* **A line without a delimiter** (`ConfigReader.cpp:105`) is a setting whose name and value are the
  line, on builds where `size_t` is wider than `unsigned int` (`Parts`; `SettingsAsWritten` excludes
  such a line with a setting's name). A comment between a login and its password loses the user
  (`Regular` excludes it).
* **A stop request while the server ends by itself** may leave the service reported as stopping for
  ever (`StoppedUnlessRaced` says that nothing else does). **A report or a read of the pipe that fails**,
  and **a server that is told to end and not waited for** (`service.cpp:91`), leave a server without its
  service, so that the next start finds the port taken (`NoOrphan` says that nothing else does).
* **`buffer_size_kb = 0`** closes every session at its first read (`Delivered` asks for a buffer).
* **`configure()`** may complain of the level into a log that is then switched off, or half of it
  (`SinksAsConfigured`).
* **Fields of the interface**: a text that is no number leaves the last filter in force, a day before
  1970 is shown and filters nothing (`ShownAsAsked`); a refused read shows an empty table until the
  next.

## 4. Proofs

Every safety property a run checks, and each of the three refinements, is proved for every value of
the constants, from the named assumptions of the modules. A component's proofs are in a module of
their own; in each, one invariant (`IndInv`) is inductive and the theorems follow from it.

| Module | Theorems | Which properties |
|---|---|---|
| `ProxyServerProofs` | `TypeCorrect`, `CounterIsExact`, `LimitUpToDeficit`, `LimitIsHonoured`, `SlotsAreClean`, `SessionsEndClean`, `AcceptsGoOn`, `RelaysAreWhole`, `Refinement` | `TypeOK`, `CounterExact`, `LimitWithDeficit`, `LimitHonoured` (when `MaxAcceptErrors = 0`), `SlotAfterCleanup`, `NothingSurvives`, `AcceptChain`, `NoHalfRelay`, `ImplementsAdmission` |
| `RelayProofs` | `RelayTypes`, `BytesAreCounted`, `RelayIsPipe` | `TypeOK`, `CountedIsPut`, `ImplementsPipe` |
| `HandshakeProofs` | `HandshakeTypes`, `RepliesFollowProtocol`, `ConnectsForFullRequests`, `OutcomesAreTold`, `OutcomeIsSummary`, `WordsArePassedOn` | `TypeOK`, `RepliesInProtocol`, `ConnectsOnFullRequest`, `OutcomeTold`, `OutcomeSummary`, `WordsPassedOn` |
| `StatDbProofs` | `StatTypes`, `RowsAreSessions`, `TotalsAreExact`, `StatIsLedger` | `TypeOK`, `RowsMatchSessions`, `TotalsExactBelowHalf`, `ImplementsLedger` (when `MaxBytes <= Half`) |
| `ServiceProofs` | `ServiceTypes`, `ServersAreEnded`, `StopsAreTold` | `ControlTypeOK`, `NoOrphan`, `StoppedUnlessRaced` |
| `LoggerProofs` | `LoggerTypes`, `LogInOrder`, `LogAsConfigured`, `LogTellsAll` | `TypeOK`, `OrderKept`, `SinksAsConfigured`, `AllTold` |
| `ConfigParseProofs` | `ParseTypes`, `FileIsRead` | `TypeOK`, `ReadAsWritten` |
| `SessionViewProofs` | `ViewTypes`, `RowsAreAsked`, `HeadingsAreRight` | `TypeOK`, `ShownAsAsked`, `HeadingsFit` |

**Assumptions.** Sets of session objects, pool threads (of `StatDb`) and marks of a text are finite;
"nobody" (`None`) and a missing setting (`Invalid`) are none of the values they are told from; limits,
bounds and numbers of failed accepts and reboots are natural numbers; a pool, a pipe, a list of
endpoints and a socket's room are not empty; buffers may have any size, 0 included; a line of a
file is not the empty text. `Half`, 2^31 in the code, is any number that is not 0 (`StatDb`), or
neither 0 nor 1 (`SessionView`). Two theorems have a hypothesis. `LimitIsHonoured` has no
failed accepts: with one the limit is exceeded (`ProxyOverLimit`). `StatIsLedger` has sums that
do not pass 2^31: past it, what was read back is another number, and the sum in the row falls.

### The arguments

**ProxyServer.** `CounterExact` is not inductive: that a step takes a session out of `Counted` at the
moment it subtracts one depends on which thread may be inside `close()`. `IndInv` therefore is
`Control /\ CounterExact /\ Limit`. `Control` says what the program counters say of each other: the
types; which session the main thread holds and in which phase it can then be (`MainHolds`); that an
armed read belongs to an object in the right phase (`ReadsHeld`); that a session in the middle of
`close()` has exactly one owner, a handler, or a destructor on the main or a pool thread
(`ClosingOwned`); and that a pending accept's object has not been counted or closed
(`AcceptHeld`). `Control` is inductive by itself (`ControlNext`), step by step. `UncountCounts` and
`EveryStepCounts` then follow `Counted` through each action; `Limit` is stronger than the limit
while the main thread is between the wait and the accept. `Refinement` maps every step to `Admit`,
`Release`, `Overdraw` or a stutter (`StepRefines`), with the connections handled as `inUse` and the
released failed accepts as `extra`; it rests on `Limit` alone, so it needs no bound on failed accepts.

A session's life is `Life`, inductive given `Control`. What `close()` has undone at each of its four
steps (`CloseInOrder`) gives `SlotAfterCleanup` and `NothingSurvives`. That no relay is half dead needs
two things: on the way from `client_read()` to the end of `start()` an open session has the client's
direction first, and in the end both or none (`RelayPaired`); and a handler that does not
arm its direction again has seen that the session is being closed (`HandlerFrame`). The accept that
is pending is unique (`OneAccept`); an invariant about its number alone is not inductive.

**Relay.** Every byte is in one place: taken from the sender, it is in the buffer, in what the thread
has still to write, in the receiving socket or received, and each of these runs follows on the one
before it (`Moved`, `Received`). From that what was received is a beginning of what was sent, and
every step is one of `Pipe` or a stutter (`PipeStep`). The row lags behind the bytes put by those of the
write in progress (`Counting`), unless the database has refused an update. `Finished`: a side whose
end of stream closed the session had nothing left to send.

**Handshake.** For each place of the handshake the invariant says what has been read (`FieldsRead`),
sent (`Said`) and tried (`Attempts`) when it gets there; `Told` and `Ports` carry the last answer, and
`Cause` why it is a refusal. The
port that `Socks4::init` reads without looking at the result makes the one exception: the stream is
no longer open then, and nothing after it succeeds. `BindPortLowByte` and `GroupKeepsValue` are the two
conversions of `Wire` for every pair of bytes.

**StatDb.** `RowsMatchSessions` says what holds between calls; in the middle of one the thread's `op`
has to account for the difference. `Calls`: a call is that of a session in the right state, a session
is in one call at a time, and a statement runs under the mutex. `Room`: the inserts still to come fit
the bound on rows. `Ids`: an id is of one session. `States`: what a call has written and not returned
yet (`Fresh`, `Retired`). `Sums`: what `Select` has read is still in the row at the write. All
updates come from the main thread, so that no other can come in between; what the mutex keeps apart is the
pool threads' `create` and `close`. `TotalsAreExact` and `StatIsLedger` rest on it.

**Windows service.** `serviceMain` and the handler write `serviceStatus` without a lock. `Service` says
where each can be when the other writes: a server runs only under the loop, after a crash or once it was
told to end, which it is only for a stop (`ServerHeld`); the handler is called only once the service has told that
it runs (`HandlerCalled`); and without a race the last state is written and told (`LastState`). A
button, a reboot and `sc.exe` either leave the service alone or start it anew (`ServiceAnew`).

**Logger.** `Ordered`: the file and the console end below the message that the worker is at.
`Configured`: the level is set before anything is posted and the type before anybody but `configure()`
posts, so that the worker, which reads the type once for each comparison, reads the same value each
time (`Progress`). `Told`: `main()` has posted why it ends before it waits for the worker, and when it is
past that every message is handled.

**ConfigParse.** `Tracked`: in a file that keeps to the format the parser is among the users exactly
between the braces, and waits for a password exactly after a login line, whose value it holds. A line
more changes the meaning of no line before it (`LinesGrow`), takes the last listing from at most one
user (`NextUsers`), and was preceded by a file that kept to the format as well (`RegularGrows`).

**SessionView.** A filter is what its setter makes of the text of its field (`FiltersSet`), and the
widths in the cache are those of the rows that are there (`WidthsComputed`). That the rows shown are those that the
fields ask for follows for each kind of filter (`TextAgrees`, `DateAgrees`, `BytesAgrees`); the last needs
that two numbers become the same int exactly when they differ by a multiple of 2^32 (`IntsAgree`), from the
uniqueness of a remainder. That a
column's width is reached by a cell and exceeded by none needs that a finite set of numbers has a
greatest element (`MaxIsGreatest`), which is shown from the well-foundedness of the natural numbers.

Each `IndInv` was checked by TLC as an invariant of a run's instance (`StatDb`'s with sums past `Half`)
before it was proved.

**What proving has corrected in the models.** `Required` (`Handshake`) was a `CASE` whose guards
overlapped, which leaves open which one counts. `TypeOK` of `ConfigParse` took `login` for a text of the
file, which the empty one it starts with need not be. In `SessionView` a `Half` of 1 would make 2^31 the number
that stands for "no filter". In `StatDb`, `None` could have been
the main thread, and in `Logger`, `Invalid` a type. These are named assumptions now, or repaired.

**Checked by TLC only.** The liveness properties: `SessionServed`, `QueuedStarted`, `CallsReturn`,
`BytesArrive`, `LogDrains`, `NobodyWaits` and `DoneAsAsked`. They rest on
fairness, and so on ENABLED, which is out of the prover's reach. The three runs that expect a violation
are counterexamples and need no proof.

## 5. What is left out

The values of relayed bytes; the text of log lines; file paths, installers, build files and the Linux
unit; geometry, colours and the calendar of the interface, and Qt's order of rows within a sorted
table. `SessionView` takes from Qt that a binding is evaluated again when what it reads changes, that
a text assigned to an `int` property is converted or refused, and that a view asks only for columns
there are. The order in which `main()`'s objects are destroyed after an exception (a session that
still holds the counter of a server that is gone) is listed as a hazard and not modelled: `Relay`,
`ProxyServer` and `Logger` end where `io_context.run()` does. `hardware_concurrency()` is taken to be
positive. The queue of the log and of the pool have no bound in the code, and no property. `selectAll`,
`formIpAddressReverseString` and `log()` for an lvalue have no callers. Two braces in one line, and
white space, are not told apart in `ConfigParse`.

## 6. Plan

1. *Done*: `Admission`, `ProxyServer`; `Pipe`, `Relay`; `Handshake`, `Wire`; `StatLedger`, `StatDb`;
   `ConfigParse`; `WinService`, `ServiceControls`; `Logger`; `SessionView`.
2. *Done*: every invariant that a run checks, and the refinements of `Admission`, `Pipe` and `StatLedger`,
   as theorems.
3. Next, the safety that the liveness runs rest on and no property states by itself: the mutex of `StatDb`
   is held only by a thread that is in a call; a thread of the service that waits, waits for what
   somebody may still do; and the promises of `Admission`, `Pipe` and `StatLedger` themselves (the
   limit, the order, a total that only grows), so that the refinements carry them over.
4. What a property of a step may add: the counter changes by at most one at a time, a row that was
   retired stays so, and what a client was told is not taken back.
