------------------------------ MODULE ProxyServer ------------------------------
(***************************************************************************)
(* The life of the proxy's sessions: TcpServer (server.cpp) accepts them on *)
(* the main thread and counts them, the worker pool runs the blocking       *)
(* handshake of TcpSession::start, the main thread relays (session.cpp),    *)
(* and the last shared_ptr to let go destroys the object.                   *)
(*                                                                          *)
(* Two kinds of thread interleave.  The main thread runs io_context.run()   *)
(* and one handler at a time: mainpc is its program counter, cur the        *)
(* session object the running handler holds, frame which handler it is.     *)
(* A pool thread runs one session's start(): phase is its program counter.  *)
(* A shared_ptr is held by the pending accept, by the pool task, by every   *)
(* armed read and by the running handler, so the reference count is a       *)
(* function of those (Owned) and not a variable of its own.                 *)
(***************************************************************************)
EXTENDS Integers, FiniteSets

CONSTANTS
    Sessions,         \* TcpSession objects; a destroyed one may be allocated again
    None,             \* no session
    MaxSessions,      \* max_sessions, 0 for no limit
    PoolThreads,      \* threads of _pool
    MaxAcceptErrors,  \* bound on accepts that report an error
    DbMayFail         \* may the statistics database refuse a statement?

ASSUME SessionsAssumption == IsFiniteSet(Sessions) /\ None \notin Sessions
ASSUME LimitAssumption == MaxSessions \in Nat
ASSUME BoundAssumption == PoolThreads \in Nat \ {0} /\ MaxAcceptErrors \in Nat
ASSUME DbAssumption == DbMayFail \in BOOLEAN

VARIABLES
    sessions,   \* _sessions, the atomic counter the limit is checked against
    mainpc,     \* main thread: which step it is at
    cur,        \* main thread: the session whose handler is running
    frame,      \* main thread: the handler, "accept" or the side that was read
    phase,      \* per session: where its object is in its life
    closing,    \* per session: progress of close(); _isClosed is closing # "open"
    isOpen,     \* per session: the sockets that are open
    read,       \* per session and side: the asynchronous read
    row,        \* per session: its row in the statistics database
    deficit     \* history: objects released whose accept had failed

mainVars == <<mainpc, cur, frame>>
vars == <<sessions, mainpc, cur, frame, phase, closing, isOpen, read, row, deficit>>

Sides == {"client", "server"}
Other(d) == IF d = "client" THEN "server" ELSE "client"

MainPcs == {"poll", "accept", "write", "close", "return", "destroy"}
Phases == {"free", "accepting", "failed", "queued", "handshake", "ready", "armed",
           "checked", "leaving", "left", "destroying"}
ClosingSteps == {"open", "sockets", "record", "count", "closed"}
ReadStates == {"none", "pending", "data", "failed"}

\* Seeded bug: a pool thread is kept for the whole life of its session.
PoolBusyWholeSession == {s \in Sessions : phase[s] \notin {"free", "accepting", "failed", "queued"}}

\* A pool thread is inside start(), or runs the destructor after it.
PoolBusy == {s \in Sessions : phase[s] \in
                {"handshake", "ready", "armed", "checked", "leaving", "destroying"}}

\* Seeded bugs: one connection too many; 0 is no longer "no limit".
AtLimitOffByOne == MaxSessions > 0 /\ sessions > MaxSessions
AtLimitUnguarded == sessions > MaxSessions

\* The condition start_accept waits on.
AtLimit == MaxSessions > 0 /\ sessions = MaxSessions

\* An armed or completed read of s holds a reference to it.
ReadArmed(s) == \E d \in Sides : read[s][d] # "none"

\* The thread that runs close() on s: a handler, or the destructor on either thread.
MainCloses(s) == mainpc \in {"close", "destroy"} /\ cur = s
Closes(s) == MainCloses(s) \/ phase[s] = "destroying"

\* The connections the counter stands for: accepted, and not yet through close().
Counted == {s \in Sessions : /\ phase[s] \notin {"free", "accepting", "failed"}
                             /\ closing[s] # "closed"}

Init ==
    /\ sessions = 0
    /\ mainpc = "accept" /\ cur = None /\ frame = "accept"
    /\ phase = [s \in Sessions |-> "free"]
    /\ closing = [s \in Sessions |-> "closed"]
    /\ isOpen = [s \in Sessions |-> {}]
    /\ read = [s \in Sessions |-> [d \in Sides |-> "none"]]
    /\ row = [s \in Sessions |-> "none"]
    /\ deficit = 0
--------------------------------------------------------------------------------
(* The main thread: accepting. *)

\* The busy wait of start_accept: the main thread yields and tests again.
Spin == mainpc = "accept" /\ AtLimit /\ UNCHANGED vars

\* start_accept past the wait: a new object, and one pending async_accept.
StartAccept(n) ==
    /\ mainpc = "accept" /\ ~AtLimit
    /\ phase[n] = "free"
    /\ phase' = [phase EXCEPT ![n] = "accepting"]
    /\ closing' = [closing EXCEPT ![n] = "open"]
    /\ row' = [row EXCEPT ![n] = "none"]
    /\ mainpc' = IF cur = None THEN "poll" ELSE "return"
    /\ UNCHANGED <<sessions, cur, frame, isOpen, read, deficit>>

\* Bound of the model: an accept completes only while an object is left for the next.
ObjectLeft == \E n \in Sessions : phase[n] = "free"

\* handle_accept without error: counted and handed to the pool; the handler goes
\* on into start_accept and holds its shared_ptr until that returns.
HandleAcceptOk(s) ==
    /\ mainpc = "poll" /\ phase[s] = "accepting" /\ ObjectLeft
    /\ sessions' = sessions + 1
    /\ phase' = [phase EXCEPT ![s] = "queued"]
    /\ isOpen' = [isOpen EXCEPT ![s] = {"client"}]
    /\ mainpc' = "accept" /\ cur' = s /\ frame' = "accept"
    /\ UNCHANGED <<closing, read, row, deficit>>

\* Seeded bug: after a failed accept the server does not start the next one.
HandleAcceptErrorStops(s) ==
    /\ mainpc = "poll" /\ phase[s] = "accepting" /\ ObjectLeft
    /\ deficit < MaxAcceptErrors
    /\ phase' = [phase EXCEPT ![s] = "failed"]
    /\ mainpc' = "return" /\ cur' = s /\ frame' = "accept"
    /\ UNCHANGED <<sessions, closing, isOpen, read, row, deficit>>

\* handle_accept with an error: not counted, not handed on.
HandleAcceptError(s) ==
    /\ mainpc = "poll" /\ phase[s] = "accepting" /\ ObjectLeft
    /\ deficit < MaxAcceptErrors
    /\ phase' = [phase EXCEPT ![s] = "failed"]
    /\ mainpc' = "accept" /\ cur' = s /\ frame' = "accept"
    /\ UNCHANGED <<sessions, closing, isOpen, read, row, deficit>>

\* A handler returns and drops its shared_ptr; the last one runs the destructor,
\* whose close() does its work only if nobody has closed the session before.
HandlerReturns ==
    /\ mainpc = "return"
    /\ frame' = "accept"
    /\ LET last == phase[cur] \in {"left", "failed"} /\ ~ReadArmed(cur)
           opened == closing[cur] = "open"
       IN /\ phase' = IF last /\ ~opened THEN [phase EXCEPT ![cur] = "free"] ELSE phase
          /\ closing' = IF last /\ opened THEN [closing EXCEPT ![cur] = "sockets"]
                                          ELSE closing
          /\ mainpc' = IF last /\ opened THEN "destroy" ELSE "poll"
          /\ cur' = IF last /\ opened THEN cur ELSE None
    /\ UNCHANGED <<sessions, isOpen, read, row, deficit>>
--------------------------------------------------------------------------------
(* The main thread: relaying. *)

\* The network completes a read, with bytes or with an error (end of file included).
ReadCompletes(s, d, result) ==
    /\ read[s][d] = "pending"
    /\ read' = [read EXCEPT ![s][d] = result]
    /\ UNCHANGED <<sessions, mainVars, phase, closing, isOpen, row, deficit>>

\* Seeded bug: close() without the exchange on _isClosed.
HandleClosesAgain(s, d) ==
    /\ mainpc = "poll" /\ read[s][d] \in {"data", "failed"}
    /\ read' = [read EXCEPT ![s][d] = "none"]
    /\ cur' = s /\ frame' = d
    /\ mainpc' = IF read[s][d] = "data" THEN "write" ELSE "close"
    /\ closing' = IF read[s][d] = "data" THEN closing
                                         ELSE [closing EXCEPT ![s] = "sockets"]
    /\ UNCHANGED <<sessions, phase, isOpen, row, deficit>>

\* client_handle (d = "client") or server_handle: bytes go to the blocking write,
\* an error to close(), whose exchange lets only the first caller in.
Handle(s, d) ==
    /\ mainpc = "poll" /\ read[s][d] \in {"data", "failed"}
    /\ read' = [read EXCEPT ![s][d] = "none"]
    /\ cur' = s /\ frame' = d
    /\ \/ /\ read[s][d] = "data"
          /\ mainpc' = "write"
          /\ UNCHANGED closing
       \/ /\ read[s][d] = "failed"
          /\ IF closing[s] = "open"
             THEN mainpc' = "close" /\ closing' = [closing EXCEPT ![s] = "sockets"]
             ELSE mainpc' = "return" /\ UNCHANGED closing
    /\ UNCHANGED <<sessions, phase, isOpen, row, deficit>>

\* writeToSocket returns true: the side is read again, under the same reference.
WriteOk ==
    /\ mainpc = "write" /\ Other(frame) \in isOpen[cur]
    /\ IF frame \in isOpen[cur]
       THEN /\ read' = [read EXCEPT ![cur][frame] = "pending"]
            /\ mainpc' = "poll" /\ cur' = None /\ frame' = "accept"
       ELSE mainpc' = "return" /\ UNCHANGED <<read, cur, frame>>
    /\ UNCHANGED <<sessions, phase, closing, isOpen, row, deficit>>

\* Seeded bug: the else branch of the handlers does not call close().
WriteFailsSilently ==
    /\ mainpc = "write"
    /\ mainpc' = "return"
    /\ UNCHANGED <<sessions, cur, frame, phase, closing, isOpen, read, row, deficit>>

\* writeToSocket returns false (the peer is gone, or the socket is closed): close().
WriteFails ==
    /\ mainpc = "write"
    /\ IF closing[cur] = "open"
       THEN mainpc' = "close" /\ closing' = [closing EXCEPT ![cur] = "sockets"]
       ELSE mainpc' = "return" /\ UNCHANGED closing
    /\ UNCHANGED <<sessions, cur, frame, phase, isOpen, read, row, deficit>>
--------------------------------------------------------------------------------
(* close(), from a handler or from a destructor on either kind of thread. *)

\* Seeded bug: only the client socket is closed.
CloseClientOnly(s) ==
    /\ Closes(s) /\ closing[s] = "sockets"
    /\ closing' = [closing EXCEPT ![s] = "record"]
    /\ isOpen' = [isOpen EXCEPT ![s] = @ \ {"client"}]
    /\ read' = [read EXCEPT ![s]["client"] = IF @ = "pending" THEN "failed" ELSE @]
    /\ UNCHANGED <<sessions, mainVars, phase, row, deficit>>

\* Both sockets are closed; a read still armed on them completes with an error.
CloseSockets(s) ==
    /\ Closes(s) /\ closing[s] = "sockets"
    /\ closing' = [closing EXCEPT ![s] = "record"]
    /\ isOpen' = [isOpen EXCEPT ![s] = {}]
    /\ read' = [read EXCEPT ![s] =
                   [d \in Sides |-> IF @[d] = "pending" THEN "failed" ELSE @[d]]]
    /\ UNCHANGED <<sessions, mainVars, phase, row, deficit>>

\* Socks::close: the row is marked inactive; a database error is logged and dropped.
CloseRecord(s) ==
    /\ Closes(s) /\ closing[s] = "record"
    /\ closing' = [closing EXCEPT ![s] = "count"]
    /\ \/ row' = [row EXCEPT ![s] = IF @ = "active" THEN "inactive" ELSE @]
       \/ DbMayFail /\ UNCHANGED row
    /\ UNCHANGED <<sessions, mainVars, phase, isOpen, read, deficit>>

\* The slot is given back, whether or not the object ever held one.
Uncount(s) ==
    /\ closing[s] = "count"
    /\ sessions' = sessions - 1
    /\ closing' = [closing EXCEPT ![s] = "closed"]
    /\ deficit' = IF phase[s] = "failed" THEN deficit + 1 ELSE deficit
    /\ UNCHANGED <<isOpen, read, row>>

HandlerCloseEnds(s) ==
    /\ mainpc = "close" /\ cur = s /\ Uncount(s)
    /\ mainpc' = "return"
    /\ UNCHANGED <<cur, frame, phase>>

MainDestroyEnds(s) ==
    /\ mainpc = "destroy" /\ cur = s /\ Uncount(s)
    /\ mainpc' = "poll" /\ cur' = None
    /\ phase' = [phase EXCEPT ![s] = "free"]
    /\ UNCHANGED frame

PoolDestroyEnds(s) ==
    /\ phase[s] = "destroying" /\ Uncount(s)
    /\ phase' = [phase EXCEPT ![s] = "free"]
    /\ UNCHANGED mainVars
--------------------------------------------------------------------------------
(* The pool: TcpSession::start. *)

PoolBegin(s) ==
    /\ phase[s] = "queued" /\ Cardinality(PoolBusy) < PoolThreads
    /\ phase' = [phase EXCEPT ![s] = "handshake"]
    /\ UNCHANGED <<sessions, mainVars, closing, isOpen, read, row, deficit>>

\* createProxy() or init() returns false, or throws; the server socket may be open.
HandshakeFails(s) ==
    /\ phase[s] = "handshake"
    /\ phase' = [phase EXCEPT ![s] = "leaving"]
    /\ \/ UNCHANGED isOpen
       \/ isOpen' = [isOpen EXCEPT ![s] = @ \cup {"server"}]
    /\ UNCHANGED <<sessions, mainVars, closing, read, row, deficit>>

\* init() returns true: connected, and recorded unless the database refused.
HandshakeSucceeds(s) ==
    /\ phase[s] = "handshake"
    /\ phase' = [phase EXCEPT ![s] = "ready"]
    /\ isOpen' = [isOpen EXCEPT ![s] = Sides]
    /\ \/ row' = [row EXCEPT ![s] = "active"]
       \/ DbMayFail /\ UNCHANGED row
    /\ UNCHANGED <<sessions, mainVars, closing, read, deficit>>

\* remote_endpoint() throws because a peer is already gone: start() catches and ends.
StartThrows(s) ==
    /\ phase[s] = "ready"
    /\ phase' = [phase EXCEPT ![s] = "leaving"]
    /\ UNCHANGED <<sessions, mainVars, closing, isOpen, read, row, deficit>>

\* client_read(); from here on the main thread may already run this session's handlers.
ClientRead(s) ==
    /\ phase[s] = "ready"
    /\ phase' = [phase EXCEPT ![s] = "armed"]
    /\ read' = [read EXCEPT ![s]["client"] =
                   IF "client" \in isOpen[s] THEN "pending" ELSE "none"]
    /\ UNCHANGED <<sessions, mainVars, closing, isOpen, row, deficit>>

\* server_read() tests is_open() and then arms the read in a step of its own.
ServerReadCheck(s) ==
    /\ phase[s] = "armed"
    /\ phase' = [phase EXCEPT ![s] = IF "server" \in isOpen[s] THEN "checked" ELSE "leaving"]
    /\ UNCHANGED <<sessions, mainVars, closing, isOpen, read, row, deficit>>

ServerReadArm(s) ==
    /\ phase[s] = "checked"
    /\ phase' = [phase EXCEPT ![s] = "leaving"]
    /\ read' = [read EXCEPT ![s]["server"] =
                   IF "server" \in isOpen[s] THEN "pending" ELSE "failed"]
    /\ UNCHANGED <<sessions, mainVars, closing, isOpen, row, deficit>>

\* Seeded bug: the destructor does not call close().
LeaveWithoutClose(s) ==
    /\ phase[s] = "leaving"
    /\ phase' = [phase EXCEPT ![s] = IF cur # s /\ ~ReadArmed(s) THEN "free" ELSE "left"]
    /\ UNCHANGED <<sessions, mainVars, closing, isOpen, read, row, deficit>>

\* The pool task ends and drops its shared_ptr; see HandlerReturns for the rest.
Leave(s) ==
    /\ phase[s] = "leaving"
    /\ LET last == cur # s /\ ~ReadArmed(s)
           opened == closing[s] = "open"
       IN /\ phase' = [phase EXCEPT ![s] = CASE ~last -> "left"
                                             [] last /\ opened -> "destroying"
                                             [] OTHER -> "free"]
          /\ closing' = IF last /\ opened THEN [closing EXCEPT ![s] = "sockets"]
                                          ELSE closing
    /\ UNCHANGED <<sessions, mainVars, isOpen, read, row, deficit>>
--------------------------------------------------------------------------------
MainStep ==
    \/ \E n \in Sessions : StartAccept(n)
    \/ HandlerReturns
    \/ \E s \in Sessions : MainCloses(s) /\ (CloseSockets(s) \/ CloseRecord(s))
    \/ \E s \in Sessions : HandlerCloseEnds(s) \/ MainDestroyEnds(s)

HandshakeEnds(s) == HandshakeFails(s) \/ HandshakeSucceeds(s)

PoolStep(s) ==
    \/ StartThrows(s) \/ ClientRead(s) \/ ServerReadCheck(s) \/ ServerReadArm(s) \/ Leave(s)
    \/ phase[s] = "destroying" /\ (CloseSockets(s) \/ CloseRecord(s))
    \/ PoolDestroyEnds(s)

Next ==
    \/ Spin
    \/ MainStep
    \/ WriteOk \/ WriteFails
    \/ \E s \in Sessions :
          \/ HandleAcceptOk(s) \/ HandleAcceptError(s)
          \/ \E d \in Sides : \/ Handle(s, d)
                              \/ \E result \in {"data", "failed"} : ReadCompletes(s, d, result)
          \/ PoolBegin(s) \/ HandshakeEnds(s) \/ PoolStep(s)

Spec == Init /\ [][Next]_vars

\* The main thread runs: its own steps, and the blocking write it waits in.  The code
\* sets no timeout on a write, so that one ends is an assumption on the peer.
MainFairness == WF_vars(MainStep) /\ WF_vars(WriteOk \/ WriteFails)

\* Session s is served: io_context and the pool run their queues in order, so no
\* completed read and no posted task waits forever while others are taken; the pool
\* thread runs; and the peers let the handshake end (an assumption: no timeout either).
SessionFairness(s) ==
    /\ \A d \in Sides : SF_vars(Handle(s, d))
    /\ SF_vars(PoolBegin(s))
    /\ WF_vars(PoolStep(s))
    /\ WF_vars(HandshakeEnds(s))

FairSpec == Spec /\ MainFairness /\ \A s \in Sessions : SessionFairness(s)
--------------------------------------------------------------------------------
(* Properties. *)

\* Type invariant; the counter stays within the objects there are.
TypeOK ==
    /\ sessions \in -MaxAcceptErrors .. Cardinality(Sessions)
    /\ mainpc \in MainPcs
    /\ cur \in Sessions \cup {None}
    /\ frame \in Sides \cup {"accept"}
    /\ phase \in [Sessions -> Phases]
    /\ closing \in [Sessions -> ClosingSteps]
    /\ isOpen \in [Sessions -> SUBSET Sides]
    /\ read \in [Sessions -> [Sides -> ReadStates]]
    /\ row \in [Sessions -> {"none", "active", "inactive"}]
    /\ deficit \in 0 .. MaxAcceptErrors

\* The counter the limit is checked against is the number of connections being
\* handled, less one for every object that was released after a failed accept:
\* handle_accept adds only on success, close() takes away on every object once,
\* whichever of two handlers and two destructors comes first.
CounterExact == sessions = Cardinality(Counted) - deficit

\* max_sessions is an upper bound on the connections handled at a time.
LimitHonoured == MaxSessions > 0 => Cardinality(Counted) <= MaxSessions

\* The same with the slots that failed accepts have given back in excess.
LimitWithDeficit == MaxSessions > 0 => Cardinality(Counted) <= MaxSessions + deficit

\* The server goes on accepting: whenever the main thread is out of start_accept,
\* exactly one async_accept is pending, after a failed accept as well.
AcceptChain ==
    Cardinality({s \in Sessions : phase[s] = "accepting"}) =
        IF mainpc = "accept" THEN 0 ELSE 1

\* No half-dead relay: once start() is over, a session that is still open and has one
\* direction armed has the other one armed too, or its handler is writing.
Relayed(s, d) == read[s][d] # "none" \/ (mainpc = "write" /\ cur = s /\ frame = d)
NoHalfRelay ==
    \A s \in Sessions :
        phase[s] = "left" /\ closing[s] = "open" =>
            \/ \A d \in Sides : Relayed(s, d)
            \/ cur = s /\ frame = "accept" /\ \A d \in Sides : ~Relayed(s, d)

\* Nothing of a session outlives it: when its object is destroyed its sockets are
\* closed, no read is armed into its buffers and no handler runs on it, and
\* its row is no longer active unless the database refused to say so.
NothingSurvives ==
    \A s \in Sessions : phase[s] = "free" =>
        /\ isOpen[s] = {} /\ ~ReadArmed(s) /\ cur # s
        /\ row[s] = "active" => DbMayFail

\* A slot is given back only after the session's sockets are closed and its row is
\* inactive: a connection admitted into the slot never overlaps the old one.
SlotAfterCleanup ==
    \A s \in Sessions : closing[s] = "closed" =>
        isOpen[s] = {} /\ (row[s] = "active" => DbMayFail)

\* Every completed read of s gets its handler run, while other sessions come and go.
ReadsServed(s) ==
    \A d \in Sides : read[s][d] \in {"data", "failed"} ~> cur = s /\ frame = d

\* A session one of whose peers is gone is destroyed and its slot given back, whoever
\* else still holds it: the other direction's read, a handler, the pool still in start().
Reaped(s) == \A d \in Sides : read[s][d] = "failed" ~> phase[s] = "free"

\* A connection handed to the pool is started, however the pool is occupied.
Started(s) == phase[s] = "queued" ~> phase[s] = "handshake"

Adm == INSTANCE Admission WITH inUse <- Counted, extra <- deficit
\* The server implements the admission control of Admission: whatever the interleaving, a
\* connection is admitted only below the limit and the slots failed accepts gave back.
ImplementsAdmission == Adm!Spec
================================================================================
