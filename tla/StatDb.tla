--------------------------------- MODULE StatDb ---------------------------------
(***************************************************************************)
(* The statistics: DatabaseService (stat_db_service.cpp) behind its mutex,  *)
(* called by Socks::createRecord on pool threads, by Socks::write_stat on   *)
(* the main thread and by Socks::close on either, while the user interface  *)
(* reads the same SQLite file from another process.                         *)
(*                                                                          *)
(* Every statement runs on a connection of its own.  A read of the          *)
(* interface holds a shared lock on the file, and no busy timeout is set:   *)
(* a statement that writes while the lock is held is refused, the exception *)
(* is logged by the caller and what it wanted to record is lost.  The       *)
(* server may stop between any two steps, and starts by marking every row   *)
(* inactive.                                                                *)
(***************************************************************************)
EXTENDS Integers, FiniteSets

CONSTANTS
    Sessions,       \* sessions with a Socks object, reused over restarts
    Pool,           \* pool threads
    None,           \* nobody
    MaxRows,        \* bound on the rows of the table
    Amounts,        \* the byte counts a relayed read may have
    MaxBytes,       \* bound on the bytes of one row and direction
    Half            \* half the range of an int: 2^31 in the code

ASSUME NamesAssumption == Sessions # {} /\ None \notin Pool \cup {"main"} /\ "main" \notin Pool
ASSUME PoolAssumption == IsFiniteSet(Pool)
ASSUME SizesAssumption == MaxRows \in Nat /\ MaxBytes \in Nat /\ Half \in Nat \ {0}
ASSUME AmountsAssumption == Amounts \subseteq Nat \ {0}

Rows == 1 .. MaxRows
Dests == {"to_server", "to_client"}
Threads == {"main"} \cup Pool

VARIABLES
    rows,       \* the table: state and byte columns of every row
    lastId,     \* the highest id AUTOINCREMENT has given
    mutex,      \* _mutex: the thread that holds it
    op,         \* per thread: the DatabaseService call it is in
    id,         \* per session: Socks::_id, 0 for none
    life,       \* per session: "new", "up" or "closed"
    reader,     \* does the interface hold its shared lock?
    server,     \* "up" or "down"
    acked,      \* history: bytes of the updates that reported no error, per row
    stale       \* history: rows of this run whose close was refused

vars == <<rows, lastId, mutex, op, id, life, reader, server, acked, stale>>

Idle == [kind |-> "none", pc |-> "idle", s |-> None, dest |-> "to_server", n |-> 0,
         seen |-> 0, ok |-> FALSE]
Busy(t) == op[t].pc # "idle"
InCall(s) == \E t \in Threads : Busy(t) /\ op[t].s = s

\* Seeded bug: the low 32 bits are read as an unsigned number.
ToUnsigned(n) == n % (2 * Half)

\* sqlite3_column_int: the low 32 bits, as a signed number.
ToInt(n) == ((n + Half) % (2 * Half)) - Half

Deactivated(r) == [r EXCEPT !.state = IF @ = "active" THEN "inactive" ELSE @]

Init ==
    /\ rows = [i \in Rows |-> [state |-> "none", bytes |-> [d \in Dests |-> 0]]]
    /\ lastId = 0 /\ mutex = None
    /\ op = [t \in Threads |-> Idle]
    /\ id = [s \in Sessions |-> 0] /\ life = [s \in Sessions |-> "new"]
    /\ reader = FALSE /\ server = "down"
    /\ acked = [i \in Rows |-> [d \in Dests |-> 0]] /\ stale = {}
--------------------------------------------------------------------------------
(* The calls of Socks. *)

Call(t, s, kind, dest, n) ==
    /\ server = "up" /\ ~Busy(t) /\ ~InCall(s)
    /\ op' = [op EXCEPT ![t] = [Idle EXCEPT !.kind = kind, !.pc = "instance", !.s = s,
                                            !.dest = dest, !.n = n]]
    /\ UNCHANGED <<rows, lastId, mutex, reader, server, acked, stale>>

\* createRecord, by the pool thread that ran the handshake (bound: rows are left).
CreateRecord(t, s) ==
    /\ t \in Pool /\ life[s] = "new"
    /\ lastId + Cardinality({u \in Threads : op[u].kind = "create"}) < MaxRows
    /\ Call(t, s, "create", "to_server", 0)
    /\ UNCHANGED <<id, life>>

\* write_stat, by the main thread; without an id there is nothing to write to.
WriteStat(s, dest, n) ==
    /\ life[s] = "up" /\ id[s] # 0
    /\ acked[id[s]][dest] + n <= MaxBytes
    /\ Call("main", s, "update", dest, n)
    /\ UNCHANGED <<id, life>>

\* Socks::close, by the thread that runs the session's close().
CloseRecord(t, s) ==
    /\ life[s] = "up" /\ id[s] # 0
    /\ Call(t, s, "close", "to_server", 0)
    /\ UNCHANGED <<id, life>>

\* A session without a row is closed without a call.
CloseUnrecorded(s) ==
    /\ server = "up" /\ life[s] = "up" /\ id[s] = 0
    /\ life' = [life EXCEPT ![s] = "closed"]
    /\ UNCHANGED <<rows, lastId, mutex, op, id, reader, server, acked, stale>>
--------------------------------------------------------------------------------
(* DatabaseService. *)

\* getInstance: locks and unlocks the mutex on the way.
GetInstance(t) ==
    /\ op[t].pc = "instance" /\ mutex = None
    /\ op' = [op EXCEPT ![t].pc = "lock"]
    /\ UNCHANGED <<rows, lastId, mutex, id, life, reader, server, acked, stale>>

\* The lock_guard of create, update and close.
Lock(t) ==
    /\ op[t].pc = "lock" /\ mutex = None
    /\ mutex' = t
    /\ op' = [op EXCEPT ![t].pc = IF op[t].kind = "create" THEN "write" ELSE "select"]
    /\ UNCHANGED <<rows, lastId, id, life, reader, server, acked, stale>>

\* selectSession: the columns are read as int.
Select(t) ==
    /\ op[t].pc = "select"
    /\ op' = [op EXCEPT ![t].pc = "write",
                        ![t].seen = ToInt(rows[id[op[t].s]].bytes[op[t].dest])]
    /\ UNCHANGED <<rows, lastId, mutex, id, life, reader, server, acked, stale>>

\* The INSERT goes through.
Insert(t) ==
    /\ op[t].pc = "write" /\ ~reader /\ op[t].kind = "create"
    /\ lastId' = lastId + 1
    /\ rows' = [rows EXCEPT ![lastId'].state = "active"]
    /\ op' = [op EXCEPT ![t].pc = "unlock", ![t].ok = TRUE]
    /\ UNCHANGED <<mutex, id, life, reader, server, acked, stale>>

\* Seeded bug: the two byte columns are mixed up.
UpdateOtherColumn(t) ==
    /\ op[t].pc = "write" /\ ~reader
    /\ op[t].kind = "update"
    /\ LET i == id[op[t].s]
           other == CHOOSE d \in Dests : d # op[t].dest
       IN /\ rows' = [rows EXCEPT ![i].bytes[other] = op[t].seen + op[t].n]
          /\ acked' = [acked EXCEPT ![i][op[t].dest] = @ + op[t].n]
    /\ op' = [op EXCEPT ![t].pc = "unlock", ![t].ok = TRUE]
    /\ UNCHANGED <<lastId, mutex, id, life, reader, server, stale>>

\* The UPDATE of one byte column, with the sum computed from what Select read.
UpdateBytes(t) ==
    /\ op[t].pc = "write" /\ ~reader /\ op[t].kind = "update"
    /\ LET i == id[op[t].s]
       IN /\ rows' = [rows EXCEPT ![i].bytes[op[t].dest] = op[t].seen + op[t].n]
          /\ acked' = [acked EXCEPT ![i][op[t].dest] = @ + op[t].n]
    /\ op' = [op EXCEPT ![t].pc = "unlock", ![t].ok = TRUE]
    /\ UNCHANGED <<lastId, mutex, id, life, reader, server, stale>>

\* The UPDATE that marks the row inactive.
UpdateInactive(t) ==
    /\ op[t].pc = "write" /\ ~reader /\ op[t].kind = "close"
    /\ rows' = [rows EXCEPT ![id[op[t].s]].state = "inactive"]
    /\ op' = [op EXCEPT ![t].pc = "unlock", ![t].ok = TRUE]
    /\ UNCHANGED <<lastId, mutex, id, life, reader, server, acked, stale>>

\* The statement is refused: SQLITE_BUSY, thrown as DatabaseException.
Refused(t) ==
    /\ op[t].pc = "write" /\ reader
    /\ op' = [op EXCEPT ![t].pc = "unlock", ![t].ok = FALSE]
    /\ stale' = IF op[t].kind = "close" THEN stale \cup {id[op[t].s]} ELSE stale
    /\ UNCHANGED <<rows, lastId, mutex, id, life, reader, server, acked>>

\* Seeded bugs: the mutex is not released when a statement was refused; a closed
\* session keeps its id.
ReturnKeepsMutex(t) ==
    /\ op[t].pc = "unlock"
    /\ mutex' = IF op[t].ok THEN None ELSE mutex
    /\ op' = [op EXCEPT ![t] = Idle]
    /\ id' = [id EXCEPT ![op[t].s] = CASE op[t].kind = "create" /\ op[t].ok -> lastId
                                       [] op[t].kind = "close" -> 0
                                       [] OTHER -> @]
    /\ life' = [life EXCEPT ![op[t].s] = IF op[t].kind = "close" THEN "closed" ELSE "up"]
    /\ UNCHANGED <<rows, lastId, reader, server, acked, stale>>
ReturnKeepsId(t) ==
    /\ op[t].pc = "unlock" /\ mutex' = None
    /\ op' = [op EXCEPT ![t] = Idle]
    /\ id' = [id EXCEPT ![op[t].s] = IF op[t].kind = "create" /\ op[t].ok THEN lastId ELSE @]
    /\ life' = [life EXCEPT ![op[t].s] = "up"]
    /\ UNCHANGED <<rows, lastId, reader, server, acked, stale>>

\* The call returns or throws, the lock_guard releases the mutex, and Socks keeps the
\* id of a new row, or forgets the one it closed, whether the row was closed or not.
Return(t) ==
    /\ op[t].pc = "unlock" /\ mutex' = None
    /\ op' = [op EXCEPT ![t] = Idle]
    /\ id' = [id EXCEPT ![op[t].s] = CASE op[t].kind = "create" /\ op[t].ok -> lastId
                                       [] op[t].kind = "close" -> 0
                                       [] OTHER -> @]
    /\ life' = [life EXCEPT ![op[t].s] = IF op[t].kind = "close" THEN "closed" ELSE "up"]
    /\ UNCHANGED <<rows, lastId, reader, server, acked, stale>>
--------------------------------------------------------------------------------
(* The interface, and the server's stops and starts. *)

\* SessionDao::update: the query holds its shared lock until the last row is read.
ReaderBegins ==
    /\ ~reader /\ reader' = TRUE
    /\ UNCHANGED <<rows, lastId, mutex, op, id, life, server, acked, stale>>

ReaderEnds ==
    /\ reader /\ reader' = FALSE
    /\ UNCHANGED <<rows, lastId, mutex, op, id, life, server, acked, stale>>

\* The process stops: everything but the file is gone.
Stop ==
    /\ server = "up" /\ server' = "down"
    /\ mutex' = None /\ op' = [t \in Threads |-> Idle]
    /\ id' = [s \in Sessions |-> 0] /\ life' = [s \in Sessions |-> "new"]
    /\ stale' = {}
    /\ UNCHANGED <<rows, lastId, reader, acked>>

\* Seeded bug: createTable without set_all_inactive.
StartKeepsRows ==
    /\ server = "down" /\ ~reader /\ server' = "up"
    /\ UNCHANGED <<rows, lastId, mutex, op, id, life, reader, acked, stale>>

\* createTable: every row is marked inactive; refused, main() ends and the server stays down.
Start ==
    /\ server = "down" /\ ~reader /\ server' = "up"
    /\ rows' = [i \in Rows |-> Deactivated(rows[i])]
    /\ UNCHANGED <<lastId, mutex, op, id, life, reader, acked, stale>>

ServiceStep(t) ==
    \/ GetInstance(t) \/ Lock(t) \/ Select(t)
    \/ Insert(t) \/ UpdateBytes(t) \/ UpdateInactive(t) \/ Refused(t) \/ Return(t)

Next ==
    \/ \E t \in Threads :
          \/ ServiceStep(t)
          \/ \E s \in Sessions : CreateRecord(t, s) \/ CloseRecord(t, s)
    \/ \E s \in Sessions :
          \/ CloseUnrecorded(s)
          \/ \E d \in Dests, n \in Amounts : WriteStat(s, d, n)
    \/ ReaderBegins \/ ReaderEnds \/ Stop \/ Start

Spec == Init /\ [][Next]_vars

\* The threads run, and a waiting thread gets the mutex in the end.
FairSpec == Spec /\ \A t \in Threads : SF_vars(ServiceStep(t))
--------------------------------------------------------------------------------
(* Properties. *)

\* Type invariant.
TypeOK ==
    /\ rows \in [Rows -> [state : {"none", "active", "inactive"}, bytes : [Dests -> Int]]]
    /\ lastId \in 0 .. MaxRows /\ mutex \in Threads \cup {None}
    /\ id \in [Sessions -> 0 .. MaxRows] /\ life \in [Sessions -> {"new", "up", "closed"}]
    /\ reader \in BOOLEAN /\ server \in {"up", "down"}
    /\ acked \in [Rows -> [Dests -> Nat]] /\ stale \subseteq Rows
    /\ op \in [Threads ->
          [kind : {"none", "create", "update", "close"},
           pc : {"idle", "instance", "lock", "select", "write", "unlock"},
           s : Sessions \cup {None}, dest : Dests, n : Nat, seen : -Half .. Half - 1, ok : BOOLEAN]]

\* The row of a create that is about to return.
Inserted(i) == \E t \in Threads : op[t].kind = "create" /\ op[t].pc = "unlock" /\ op[t].ok
                                  /\ i = lastId

\* While the server runs, a row shown as active is a live session's, or one whose close
\* the interface's read made fail: a stop at any point leaves none behind.
ActiveRowsLive ==
    server = "up" => \A i \in Rows : rows[i].state = "active" =>
        i \in stale \/ Inserted(i) \/ \E s \in Sessions : id[s] = i

\* A session's row is its own, and active until its close is under way.
LiveRowsActive ==
    \A s \in Sessions : id[s] # 0 =>
        /\ rows[id[s]].state = "active" \/ InCall(s)
        /\ \A u \in Sessions \ {s} : id[u] # id[s]

\* The active rows are those of the live sessions, and back.
RowsMatchSessions == ActiveRowsLive /\ LiveRowsActive

\* A row's byte counts are the sums of what was reported as recorded, as long as no sum
\* has reached 2^31: no update is lost or counted twice.
TotalsExactBelowHalf ==
    \A i \in Rows, d \in Dests : acked[i][d] <= Half => rows[i].bytes[d] = acked[i][d]

\* Every call returns, or the server stops: no thread waits for the mutex forever.
CallsReturn == \A t \in Threads : op[t].pc = "instance" ~> op[t].pc = "idle"

Ledger == INSTANCE StatLedger WITH book <- rows
\* Below 2^31 the service implements the ledger, each call in one step of it.
ImplementsLedger == Ledger!Spec
================================================================================
