------------------------------ MODULE StatDbProofs ------------------------------
(***************************************************************************)
(* Proofs about StatDb, for any sessions, threads, amounts and bounds.      *)
(***************************************************************************)
EXTENDS StatDb, FiniteSetTheorems, TLAPS

\* A call fits its session and the mutex: a thread is in a statement only while it holds
\* the mutex, a row is created for a new session only, and a session whose row is updated
\* or closed has one.
CallFits(t) ==
    /\ op[t].kind = "none" <=> op[t].pc = "idle"
    /\ Busy(t) => op[t].s \in Sessions
    /\ op[t].pc \in {"select", "write", "unlock"} => mutex = t
    /\ op[t].kind = "create" => op[t].pc # "select" /\ life[op[t].s] = "new"
    /\ op[t].kind \in {"update", "close"} => life[op[t].s] = "up" /\ id[op[t].s] # 0
    /\ op[t].kind = "update" => op[t].n \in Amounts
Calls ==
    /\ \A t \in Threads : CallFits(t)
    /\ \A t, u \in Threads : Busy(t) /\ Busy(u) /\ op[t].s = op[u].s => t = u

\* No thread and no session outlives the server.
Ended == server = "down" => (\A t \in Threads : ~Busy(t)) /\ \A s \in Sessions : life[s] = "new"

\* The rows that are still to be inserted have room.
Pending == {t \in Threads : op[t].kind = "create" /\ op[t].pc # "unlock"}
Room == lastId + Cardinality(Pending) <= MaxRows

\* An id is that of a row inserted earlier, and of one session.
Ids ==
    /\ \A s \in Sessions : (life[s] # "up" => id[s] = 0) /\ id[s] <= lastId
    /\ \A s, u \in Sessions : s # u /\ id[s] # 0 => id[u] # id[s]

\* The row of a thread that has written it and not returned yet.
Fresh(t) ==
    op[t].kind = "create" /\ op[t].pc = "unlock" /\ op[t].ok =>
        lastId # 0 /\ rows[lastId].state = "active" /\ \A s \in Sessions : id[s] # lastId
Retired(t) ==
    op[t].kind = "close" /\ op[t].pc = "unlock" =>
        IF op[t].ok THEN rows[id[op[t].s]].state = "inactive" ELSE id[op[t].s] \in stale
Closing(s) == \E t \in Threads : op[t].kind = "close" /\ op[t].pc = "unlock" /\ op[t].s = s
States ==
    /\ \A i \in Rows : i > lastId => rows[i].state = "none"
    /\ \A s \in Sessions : id[s] # 0 => rows[id[s]].state = "active" \/ Closing(s)
    /\ \A t \in Threads : Fresh(t) /\ Retired(t)

\* What Select has read is still there when the sum is written, and the sum is within bounds.
Summing(t) ==
    /\ op[t].kind = "update" /\ op[t].pc = "write" =>
          op[t].seen = ToInt(rows[id[op[t].s]].bytes[op[t].dest])
    /\ op[t].kind = "update" /\ op[t].pc # "unlock" =>
          acked[id[op[t].s]][op[t].dest] + op[t].n <= MaxBytes
Sums == TotalsExactBelowHalf /\ \A t \in Threads : Summing(t)

IndInv == TypeOK /\ Calls /\ Ended /\ Room /\ Ids /\ States /\ ActiveRowsLive /\ Sums
--------------------------------------------------------------------------------
(* The conversions. *)

\* sqlite3_column_int gives an int, and the number itself below half the range.
LEMMA ToIntTyped ==
    ASSUME NEW n \in Int
    PROVE  ToInt(n) \in -Half .. Half - 1
  BY SizesAssumption DEF ToInt

\* Below half the range the conversion changes nothing.
LEMMA ToIntExact ==
    ASSUME NEW n \in Nat, n < Half
    PROVE  ToInt(n) = n
  BY SizesAssumption DEF ToInt

\* The names of nobody, of a thread and of the idle call.
LEMMA Names ==
    /\ None \notin Threads /\ "main" \in Threads /\ Pool \subseteq Threads /\ 0 \notin Rows
    /\ Dests # {}
  BY NamesAssumption, SizesAssumption DEF Threads, Rows, Dests

--------------------------------------------------------------------------------
(* The types. *)

\* What a call's record is made of.
Op == [kind : {"none", "create", "update", "close"},
       pc : {"idle", "instance", "lock", "select", "write", "unlock"},
       s : Sessions \cup {None}, dest : Dests, n : Nat, seen : -Half .. Half - 1, ok : BOOLEAN]

\* What a row is made of.
Row == [state : {"none", "active", "inactive"}, bytes : [Dests -> Int]]

\* The idle call is one.
LEMMA IdleTyped == Idle \in Op
  BY SizesAssumption DEF Idle, Op, Dests

\* A call that begins is one.
LEMMA CallTyped ==
    ASSUME TypeOK, NEW t \in Threads, NEW s \in Sessions,
           NEW kind \in {"none", "create", "update", "close"}, NEW dest \in Dests, NEW n \in Nat,
           Call(t, s, kind, dest, n)
    PROVE  op' \in [Threads -> Op]
<1>. DEFINE call == [Idle EXCEPT !.kind = kind, !.pc = "instance", !.s = s, !.dest = dest, !.n = n]
<1>1. call \in Op
  BY IdleTyped DEF Idle, Op
<1>2. op \in [Threads -> Op]
  BY DEF TypeOK, Op
<1>. QED
  BY <1>1, <1>2 DEF Call

\* A call whose statement went through, or was refused, is one.
LEMMA WrittenTyped ==
    ASSUME TypeOK, NEW t \in Threads, NEW ok \in BOOLEAN
    PROVE  [op EXCEPT ![t].pc = "unlock", ![t].ok = ok] \in [Threads -> Op]
<1>1. op \in [Threads -> Op]
  BY DEF TypeOK, Op
<1>2. [op[t] EXCEPT !.pc = "unlock", !.ok = ok] \in Op
  BY <1>1 DEF Op
<1>. QED
  BY <1>1, <1>2

\* What such a call has.
LEMMA WrittenOp ==
    ASSUME TypeOK, NEW t \in Threads, NEW ok \in BOOLEAN,
           op' = [op EXCEPT ![t].pc = "unlock", ![t].ok = ok]
    PROVE  op'[t].pc = "unlock" /\ op'[t].ok = ok /\ op'[t].kind = op[t].kind
<1>1. op \in [Threads -> Op]
  BY DEF TypeOK, Op
<1>2. op'[t] = [op[t] EXCEPT !.pc = "unlock", !.ok = ok]
  BY <1>1
<1>. QED
  BY <1>1, <1>2 DEF Op

\* A call that has read a number is one.
LEMMA SeenTyped ==
    ASSUME TypeOK, NEW t \in Threads, NEW seen \in -Half .. Half - 1
    PROVE  [op EXCEPT ![t].pc = "write", ![t].seen = seen] \in [Threads -> Op]
<1>1. op \in [Threads -> Op]
  BY DEF TypeOK, Op
<1>2. [op[t] EXCEPT !.pc = "write", !.seen = seen] \in Op
  BY <1>1 DEF Op
<1>. QED
  BY <1>1, <1>2

\* The table stays one when a state is written.
LEMMA StateTyped ==
    ASSUME TypeOK, NEW i \in Rows, NEW state \in {"none", "active", "inactive"}
    PROVE  [rows EXCEPT ![i].state = state] \in [Rows -> Row]
<1>1. rows \in [Rows -> Row]
  BY DEF TypeOK, Row
<1>2. [rows[i] EXCEPT !.state = state] \in Row
  BY <1>1 DEF Row
<1>. QED
  BY <1>1, <1>2

\* The table stays one when a byte column is written.
LEMMA BytesTyped ==
    ASSUME TypeOK, NEW i \in Rows, NEW d \in Dests, NEW n \in Int
    PROVE  [rows EXCEPT ![i].bytes[d] = n] \in [Rows -> Row]
<1>1. rows \in [Rows -> Row]
  BY DEF TypeOK, Row
<1>2. [rows[i].bytes EXCEPT ![d] = n] \in [Dests -> Int]
  BY <1>1 DEF Row
<1>3. [rows[i] EXCEPT !.bytes[d] = n] \in Row
  BY <1>1, <1>2 DEF Row
<1>. QED
  BY <1>1, <1>3

\* An update or a close has a session with a row.
LEMMA RowOfCall ==
    ASSUME TypeOK, NEW t \in Threads, CallFits(t), op[t].kind \in {"update", "close"}
    PROVE  op[t].s \in Sessions /\ id[op[t].s] \in Rows
  BY DEF CallFits, TypeOK, Busy, Rows

\* There are finitely many calls under way.
LEMMA PendingFinite ==
    /\ IsFiniteSet(Threads) /\ IsFiniteSet(Pending)
    /\ IsFiniteSet({u \in Threads : op[u].kind = "create"})
<1>1. IsFiniteSet(Threads)
  BY PoolAssumption, FS_Singleton, FS_Union DEF Threads
<1>. QED
  BY <1>1, FS_Subset DEF Pending

\* An INSERT finds room.
LEMMA InsertRoom ==
    ASSUME TypeOK, Room, NEW t \in Threads, Insert(t)
    PROVE  lastId + 1 \in Rows
<1>1. t \in Pending
  BY DEF Insert, Pending
<1>2. Cardinality(Pending) \in Nat /\ Cardinality(Pending) # 0
  BY <1>1, PendingFinite, FS_CardinalityType, FS_EmptySet
<1>3. lastId \in Nat /\ lastId + Cardinality(Pending) <= MaxRows
  BY DEF Room, TypeOK
<1>. HIDE DEF Pending
<1>. QED
  BY <1>2, <1>3, SizesAssumption DEF Rows

\* The types hold at first.
LEMMA InitTyped == Init => TypeOK
<1>. SUFFICES ASSUME Init PROVE TypeOK
  OBVIOUS
<1>1. op \in [Threads -> Op]
  BY IdleTyped DEF Init
<1>2. rows \in [Rows -> Row]
  <2>1. [d \in Dests |-> 0] \in [Dests -> Int]
    OBVIOUS
  <2>2. [state |-> "none", bytes |-> [d \in Dests |-> 0]] \in Row
    BY <2>1 DEF Row
  <2>. QED
    BY <2>2 DEF Init
<1>3. acked \in [Rows -> [Dests -> Nat]]
  BY DEF Init
<1>4. reader \in BOOLEAN
  BY DEF Init
<1>. QED
  BY <1>1, <1>2, <1>3, <1>4, Names, SizesAssumption DEF Init, TypeOK, Op, Row

\* Every step keeps the types; only Insert needs to know that there is room.
LEMMA NextTyped ==
    ASSUME TypeOK, Calls, Room, Next
    PROVE  TypeOK'
<1>. USE SizesAssumption
<1>1. ASSUME NEW t \in Threads, NEW s \in Sessions, CreateRecord(t, s) PROVE TypeOK'
  <2>1. op' \in [Threads -> Op]
    BY <1>1, CallTyped DEF CreateRecord, Dests
  <2>. QED
    BY <1>1, <2>1 DEF TypeOK, CreateRecord, Call, Op
<1>2. ASSUME NEW t \in Threads, NEW s \in Sessions, CloseRecord(t, s) PROVE TypeOK'
  <2>1. op' \in [Threads -> Op]
    BY <1>2, CallTyped DEF CloseRecord, Dests
  <2>. QED
    BY <1>2, <2>1 DEF TypeOK, CloseRecord, Call, Op
<1>3. ASSUME NEW s \in Sessions, NEW d \in Dests, NEW n \in Amounts, WriteStat(s, d, n) PROVE TypeOK'
  <2>1. n \in Nat
    BY AmountsAssumption
  <2>2. op' \in [Threads -> Op]
    BY <1>3, <2>1, CallTyped, Names DEF WriteStat
  <2>. QED
    BY <1>3, <2>2 DEF TypeOK, WriteStat, Call, Op
<1>4. ASSUME NEW s \in Sessions, CloseUnrecorded(s) PROVE TypeOK'
  BY <1>4 DEF TypeOK, CloseUnrecorded
<1>5. ASSUME NEW t \in Threads, GetInstance(t) PROVE TypeOK'
  <2>1. op \in [Threads -> Op]
    BY DEF TypeOK, Op
  <2>2. [op[t] EXCEPT !.pc = "lock"] \in Op
    BY <2>1 DEF Op
  <2>3. op' \in [Threads -> Op]
    BY <1>5, <2>1, <2>2 DEF GetInstance
  <2>. QED
    BY <1>5, <2>3 DEF TypeOK, GetInstance, Op
<1>6. ASSUME NEW t \in Threads, Lock(t) PROVE TypeOK'
  BY <1>6 DEF TypeOK, Lock
<1>7. ASSUME NEW t \in Threads, Select(t) PROVE TypeOK'
  <2>. DEFINE i == id[op[t].s]
              d == op[t].dest
  <2>1. op[t].s \in Sessions /\ id[op[t].s] \in Rows
    <3>1. CallFits(t) /\ op[t].pc = "select"
      BY <1>7 DEF Calls, Select
    <3>. QED
      BY <3>1 DEF CallFits, TypeOK, Busy, Rows
  <2>2. rows[id[op[t].s]].bytes[op[t].dest] \in Int
    BY <2>1 DEF TypeOK
  <2>3. ToInt(rows[id[op[t].s]].bytes[op[t].dest]) \in -Half .. Half - 1
    BY <2>2, ToIntTyped
  <2>4. op' \in [Threads -> Op]
    BY <1>7, <2>3, SeenTyped DEF Select
  <2>. QED
    BY <1>7, <2>4 DEF TypeOK, Select, Op
<1>8. ASSUME NEW t \in Threads, Insert(t) PROVE TypeOK'
  <2>1. lastId + 1 \in 1 .. MaxRows
    BY <1>8, InsertRoom DEF Rows
  <2>2. op' \in [Threads -> Op]
    BY <1>8, WrittenTyped DEF Insert
  <2>3. rows' \in [Rows -> Row]
    <3>1. lastId' \in Rows
      BY <1>8, <2>1 DEF Insert, Rows
    <3>. QED
      BY <1>8, <3>1, StateTyped DEF Insert
  <2>. QED
    <3>1. lastId' \in 0 .. MaxRows
      BY <1>8, <2>1 DEF Insert
    <3>. QED
      BY <1>8, <3>1, <2>2, <2>3 DEF TypeOK, Insert, Op, Row
<1>9. ASSUME NEW t \in Threads, UpdateBytes(t) PROVE TypeOK'
  <2>1. op' \in [Threads -> Op]
    BY <1>9, WrittenTyped DEF UpdateBytes
  <2>. DEFINE i == id[op[t].s]
              d == op[t].dest
  <2>2. i \in Rows /\ d \in Dests /\ op[t].n \in Nat /\ op[t].seen \in Int
    <3>1. i \in Rows
      BY <1>9, RowOfCall DEF UpdateBytes, Calls
    <3>. QED
      BY <3>1 DEF TypeOK
  <2>3. op[t].seen + op[t].n \in Int
    BY <2>2
  <2>4. rows' \in [Rows -> Row]
    <3>1. rows' = [rows EXCEPT ![i].bytes[d] = op[t].seen + op[t].n]
      BY <1>9 DEF UpdateBytes
    <3>. QED
      BY <2>2, <2>3, <3>1, BytesTyped
  <2>5. acked' \in [Rows -> [Dests -> Nat]]
    <3>1. acked' = [acked EXCEPT ![i][d] = @ + op[t].n]
      BY <1>9 DEF UpdateBytes
    <3>2. acked \in [Rows -> [Dests -> Nat]] /\ acked[i][d] + op[t].n \in Nat
      BY <2>2 DEF TypeOK
    <3>. QED
      BY <2>2, <3>1, <3>2
  <2>. QED
    BY <1>9, <2>1, <2>4, <2>5 DEF TypeOK, UpdateBytes, Op, Row
<1>10. ASSUME NEW t \in Threads, UpdateInactive(t) PROVE TypeOK'
  <2>1. op' \in [Threads -> Op]
    BY <1>10, WrittenTyped DEF UpdateInactive
  <2>2. rows' \in [Rows -> Row]
    <3>1. id[op[t].s] \in Rows
      BY <1>10, RowOfCall DEF UpdateInactive, Calls
    <3>. QED
      BY <1>10, <3>1, StateTyped DEF UpdateInactive
  <2>. QED
    BY <1>10, <2>1, <2>2 DEF TypeOK, UpdateInactive, Op, Row
<1>11. ASSUME NEW t \in Threads, Refused(t) PROVE TypeOK'
  <2>1. op[t].kind = "close" => id[op[t].s] \in Rows
    BY RowOfCall DEF Calls
  <2>2. op' \in [Threads -> Op]
    BY <1>11, WrittenTyped DEF Refused
  <2>. QED
    BY <1>11, <2>1, <2>2 DEF TypeOK, Refused, Op
<1>12. ASSUME NEW t \in Threads, Return(t) PROVE TypeOK'
  <2>1. op' \in [Threads -> Op]
    BY <1>12, IdleTyped DEF TypeOK, Return, Op
  <2>2. id' \in [Sessions -> 0 .. MaxRows]
    <3>1. \/ id' = [id EXCEPT ![op[t].s] = lastId]
          \/ id' = [id EXCEPT ![op[t].s] = 0]
          \/ id' = id
      BY <1>12 DEF TypeOK, Return
    <3>. QED
      BY <3>1 DEF TypeOK
  <2>3. life' \in [Sessions -> {"new", "up", "closed"}]
    BY <1>12 DEF TypeOK, Return
  <2>. QED
    BY <1>12, <2>1, <2>2, <2>3 DEF TypeOK, Return, Op
<1>13. ASSUME ReaderBegins \/ ReaderEnds PROVE TypeOK'
  BY <1>13 DEF TypeOK, ReaderBegins, ReaderEnds
<1>14. ASSUME Stop PROVE TypeOK'
  <2>1. op' \in [Threads -> Op]
    BY <1>14, IdleTyped DEF Stop
  <2>. QED
    BY <1>14, <2>1 DEF TypeOK, Stop, Op
<1>15. ASSUME Start PROVE TypeOK'
  <2>1. rows \in [Rows -> Row]
    BY DEF TypeOK, Row
  <2>2. ASSUME NEW i \in Rows PROVE Deactivated(rows[i]) \in Row
    BY <2>1 DEF Deactivated, Row
  <2>3. rows' \in [Rows -> Row]
    BY <1>15, <2>2 DEF Start
  <2>. QED
    BY <1>15, <2>3 DEF TypeOK, Start, Row
<1>. QED
  BY <1>1, <1>2, <1>3, <1>4, <1>5, <1>6, <1>7, <1>8, <1>9, <1>10, <1>11, <1>12, <1>13, <1>14, <1>15
     DEF Next, ServiceStep
--------------------------------------------------------------------------------
(* What the steps do to the calls. *)

\* A step inside the call of t: no call begins or ends, and only t moves.
Advances(t) ==
    /\ \A u \in Threads \ {t} : op'[u] = op[u]
    /\ op'[t].kind = op[t].kind /\ op'[t].s = op[t].s /\ op'[t].n = op[t].n
    /\ op'[t].dest = op[t].dest
    /\ op[t].pc # "idle" /\ op'[t].pc # "idle"
    /\ op'[t].pc = "select" => op[t].kind # "create"
    /\ op'[t].pc \in {"select", "write", "unlock"} => mutex' = t
    /\ mutex' = mutex \/ mutex = None
    /\ id' = id /\ life' = life

\* Every step inside a call is one of these.
LEMMA StepAdvances ==
    ASSUME TypeOK, Calls, NEW t \in Threads,
           \/ GetInstance(t) \/ Lock(t) \/ Select(t)
           \/ Insert(t) \/ UpdateBytes(t) \/ UpdateInactive(t) \/ Refused(t)
    PROVE  Advances(t)
<1>. USE DEF Advances, TypeOK
<1>1. op[t].pc \in {"select", "write", "unlock"} => mutex = t
  BY DEF Calls, CallFits
<1>2. CASE GetInstance(t)
  BY <1>2 DEF GetInstance
<1>3. CASE Lock(t)
  BY <1>3 DEF Lock
<1>4. CASE Select(t)
  BY <1>1, <1>4 DEF Select
<1>5. CASE Insert(t)
  BY <1>1, <1>5 DEF Insert
<1>6. CASE UpdateBytes(t)
  BY <1>1, <1>6 DEF UpdateBytes
<1>7. CASE UpdateInactive(t)
  BY <1>1, <1>7 DEF UpdateInactive
<1>8. CASE Refused(t)
  BY <1>1, <1>8 DEF Refused
<1>. QED
  BY <1>2, <1>3, <1>4, <1>5, <1>6, <1>7, <1>8

\* A call begins: only t moves, in the server's life, for a session nobody else is called for.
Begins(t, s, kind, dest, n) ==
    /\ server = "up" /\ ~Busy(t) /\ \A u \in Threads : Busy(u) => op[u].s # s
    /\ \A u \in Threads \ {t} : op'[u] = op[u]
    /\ op'[t].kind = kind /\ op'[t].s = s /\ op'[t].n = n /\ op'[t].dest = dest
    /\ op'[t].pc = "instance"
    /\ id' = id /\ life' = life /\ mutex' = mutex /\ rows' = rows /\ acked' = acked
    /\ lastId' = lastId /\ stale' = stale /\ server' = server

\* The calls that begin, as they are.
CallBegins(t) ==
    \E s \in Sessions, kind \in {"create", "update", "close"}, d \in Dests, n \in Nat :
        /\ Begins(t, s, kind, d, n)
        /\ kind = "create" => life[s] = "new" /\ lastId + Cardinality({u \in Threads : op[u].kind = "create"}) < MaxRows
        /\ kind # "create" => life[s] = "up" /\ id[s] # 0
        /\ kind = "update" => n \in Amounts /\ acked[id[s]][d] + n <= MaxBytes

\* A call begins with what it was called with.
LEMMA CallIsBegun ==
    ASSUME TypeOK, NEW t \in Threads, NEW s \in Sessions,
           NEW kind, NEW dest, NEW n, Call(t, s, kind, dest, n), UNCHANGED <<id, life>>
    PROVE  Begins(t, s, kind, dest, n)
<1>1. op'[t] = [Idle EXCEPT !.kind = kind, !.pc = "instance", !.s = s, !.dest = dest, !.n = n]
  BY DEF Call, TypeOK
<1>2. op'[t].kind = kind /\ op'[t].s = s /\ op'[t].n = n /\ op'[t].dest = dest /\ op'[t].pc = "instance"
  BY <1>1 DEF Idle
<1>3. \A u \in Threads \ {t} : op'[u] = op[u]
  BY DEF Call, TypeOK
<1>. QED
  BY <1>2, <1>3 DEF Call, Begins, InCall

\* The three ways to call the service begin a call.
LEMMA StepBegins ==
    ASSUME TypeOK, NEW t \in Threads,
           \/ \E s \in Sessions : CreateRecord(t, s) \/ CloseRecord(t, s)
           \/ t = "main" /\ \E s \in Sessions, d \in Dests, n \in Amounts : WriteStat(s, d, n)
    PROVE  CallBegins(t)
<1>1. ASSUME NEW s \in Sessions, CreateRecord(t, s) PROVE CallBegins(t)
  <2>1. Begins(t, s, "create", "to_server", 0)
    BY <1>1, CallIsBegun DEF CreateRecord
  <2>2. "to_server" \in Dests /\ 0 \in Nat
    BY DEF Dests
  <2>. QED
    BY <1>1, <2>1, <2>2 DEF CreateRecord, CallBegins
<1>2. ASSUME NEW s \in Sessions, CloseRecord(t, s) PROVE CallBegins(t)
  <2>1. Begins(t, s, "close", "to_server", 0)
    BY <1>2, CallIsBegun DEF CloseRecord
  <2>2. "to_server" \in Dests /\ 0 \in Nat
    BY DEF Dests
  <2>. QED
    BY <1>2, <2>1, <2>2 DEF CloseRecord, CallBegins
<1>3. ASSUME t = "main", NEW s \in Sessions, NEW d \in Dests, NEW n \in Amounts, WriteStat(s, d, n)
      PROVE  CallBegins(t)
  <2>1. Begins(t, s, "update", d, n)
    BY <1>3, CallIsBegun DEF WriteStat
  <2>2. n \in Nat
    BY AmountsAssumption
  <2>. QED
    BY <1>3, <2>1, <2>2 DEF WriteStat, CallBegins
<1>. QED
  BY <1>1, <1>2, <1>3

\* A call ends: the mutex is free again, and the id and the life of its session say so.
Ends(t) ==
    /\ op[t].pc = "unlock" /\ mutex' = None
    /\ op'[t] = Idle /\ \A u \in Threads \ {t} : op'[u] = op[u]
    /\ \A s \in Sessions \ {op[t].s} : id'[s] = id[s] /\ life'[s] = life[s]
    /\ id'[op[t].s] = IF op[t].kind = "create" /\ op[t].ok THEN lastId
                      ELSE IF op[t].kind = "close" THEN 0 ELSE id[op[t].s]
    /\ life'[op[t].s] = IF op[t].kind = "close" THEN "closed" ELSE "up"
    /\ rows' = rows /\ acked' = acked /\ lastId' = lastId /\ stale' = stale /\ server' = server

\* A call that returns ends so, and it was the call of a session.
LEMMA StepEnds ==
    ASSUME TypeOK, Calls, NEW t \in Threads, Return(t)
    PROVE  Ends(t) /\ op[t].s \in Sessions
<1>1. op[t].s \in Sessions
  BY DEF Return, Calls, CallFits, Busy
<1>2. id' = [id EXCEPT ![op[t].s] = IF op[t].kind = "create" /\ op[t].ok THEN lastId
                      ELSE IF op[t].kind = "close" THEN 0 ELSE id[op[t].s]]
  <2>1. CASE op[t].kind = "create" /\ op[t].ok
    BY <2>1 DEF Return
  <2>2. CASE ~(op[t].kind = "create" /\ op[t].ok)
    BY <2>2 DEF Return
  <2>. QED
    BY <2>1, <2>2
<1>3. op'[t] = Idle /\ \A u \in Threads \ {t} : op'[u] = op[u]
  BY DEF Return, TypeOK
<1>4. life'[op[t].s] = IF op[t].kind = "close" THEN "closed" ELSE "up"
  BY <1>1 DEF Return, TypeOK
<1>5. \A s \in Sessions \ {op[t].s} : life'[s] = life[s]
  BY <1>1 DEF Return, TypeOK
<1>6. id'[op[t].s] = IF op[t].kind = "create" /\ op[t].ok THEN lastId
                      ELSE IF op[t].kind = "close" THEN 0 ELSE id[op[t].s]
  BY <1>1, <1>2 DEF TypeOK
<1>7. \A s \in Sessions \ {op[t].s} : id'[s] = id[s]
  BY <1>1, <1>2 DEF TypeOK
<1>. QED
  BY <1>1, <1>3, <1>4, <1>5, <1>6, <1>7 DEF Return, Ends

\* Steps that touch no call and no table.
Aside ==
    \/ ReaderBegins \/ ReaderEnds
    \/ \E s \in Sessions : CloseUnrecorded(s)

\* Every step is one of these.
LEMMA StepCases ==
    ASSUME TypeOK, Next
    PROVE  \/ \E t \in Threads : CallBegins(t)
           \/ \E t \in Threads : GetInstance(t) \/ Lock(t) \/ Select(t)
           \/ \E t \in Threads : Insert(t)
           \/ \E t \in Threads : UpdateBytes(t)
           \/ \E t \in Threads : UpdateInactive(t)
           \/ \E t \in Threads : Refused(t)
           \/ \E t \in Threads : Return(t)
           \/ Aside \/ Stop \/ Start
<1>1. ASSUME NEW t \in Threads, NEW s \in Sessions, CreateRecord(t, s) \/ CloseRecord(t, s)
      PROVE  CallBegins(t)
  BY <1>1, StepBegins
<1>2. ASSUME NEW s \in Sessions, NEW d \in Dests, NEW n \in Amounts, WriteStat(s, d, n)
      PROVE  CallBegins("main")
  BY <1>2, StepBegins, Names
<1>. QED
  BY <1>1, <1>2, Names DEF Next, ServiceStep, Aside
--------------------------------------------------------------------------------
(* The calls, the sessions they are for, and the mutex. *)

\* Every step keeps the calls in order.
LEMMA NextCalls ==
    ASSUME TypeOK, Calls, Next
    PROVE  Calls'
<1>1. ASSUME NEW t \in Threads, CallBegins(t)
      PROVE  Calls'
  <2>1. PICK s \in Sessions, kind \in {"create", "update", "close"}, d \in Dests, n \in Nat :
            /\ Begins(t, s, kind, d, n)
            /\ kind = "create" => life[s] = "new"
            /\ kind # "create" => life[s] = "up" /\ id[s] # 0
            /\ kind = "update" => n \in Amounts
    BY <1>1 DEF CallBegins
  <2>2. CallFits(t)'
    BY <2>1 DEF Begins, CallFits, Busy
  <2>3. ASSUME NEW u \in Threads \ {t} PROVE CallFits(u)'
    BY <2>1, <2>3 DEF Begins, Calls, CallFits, Busy
  <2>4. ASSUME NEW u \in Threads, NEW v \in Threads, Busy(u)', Busy(v)', op'[u].s = op'[v].s
        PROVE  u = v
    BY <2>1, <2>4 DEF Begins, Calls, Busy
  <2>. QED
    BY <2>2, <2>3, <2>4 DEF Calls
<1>2. ASSUME NEW t \in Threads, Advances(t)
      PROVE  Calls'
  <2>1. CallFits(t)'
    BY <1>2 DEF Advances, Calls, CallFits, Busy
  <2>2. ASSUME NEW u \in Threads \ {t} PROVE CallFits(u)'
    <3>1. op'[u] = op[u] /\ CallFits(u) /\ u # None
      BY <1>2, <2>2, Names DEF Advances, Calls
    <3>2. op'[u].pc \in {"select", "write", "unlock"} => mutex' = u
      BY <1>2, <3>1 DEF Advances, CallFits
    <3>. QED
      BY <1>2, <3>1, <3>2 DEF Advances, CallFits, Busy
  <2>3. ASSUME NEW u \in Threads, NEW v \in Threads, Busy(u)', Busy(v)', op'[u].s = op'[v].s
        PROVE  u = v
    BY <1>2, <2>3 DEF Advances, Calls, Busy
  <2>. QED
    BY <2>1, <2>2, <2>3 DEF Calls
<1>3. ASSUME NEW t \in Threads, Return(t)
      PROVE  Calls'
  <2>1. Ends(t) /\ op[t].s \in Sessions
    BY <1>3, StepEnds
  <2>2. CallFits(t)'
    BY <2>1, Names DEF Ends, CallFits, Busy, Idle
  <2>3. ASSUME NEW u \in Threads \ {t} PROVE CallFits(u)'
    <3>1. op'[u] = op[u] /\ CallFits(u) /\ CallFits(t)
      BY <2>1, <2>3 DEF Ends, Calls
    <3>2. op[u].pc \notin {"select", "write", "unlock"}
      BY <2>1, <3>1 DEF Ends, CallFits
    <3>3. Busy(u) => op[u].s # op[t].s
      BY <2>1, <2>3 DEF Calls, Busy, Ends
    <3>4. Busy(u) => id'[op[u].s] = id[op[u].s] /\ life'[op[u].s] = life[op[u].s]
      BY <2>1, <3>1, <3>3 DEF Ends, CallFits
    <3>. QED
      BY <3>1, <3>2, <3>4 DEF CallFits, Busy
  <2>4. ASSUME NEW u \in Threads, NEW v \in Threads, Busy(u)', Busy(v)', op'[u].s = op'[v].s
        PROVE  u = v
    BY <2>1, <2>4 DEF Ends, Calls, Busy, Idle
  <2>. QED
    BY <2>2, <2>3, <2>4 DEF Calls
<1>4. ASSUME ReaderBegins \/ ReaderEnds \/ Start
      PROVE  Calls'
  BY <1>4 DEF Calls, CallFits, Busy, ReaderBegins, ReaderEnds, Start
<1>5. ASSUME NEW s \in Sessions, CloseUnrecorded(s)
      PROVE  Calls'
  <2>1. op' = op /\ mutex' = mutex /\ id' = id /\ life[s] = "up" /\ id[s] = 0
    BY <1>5 DEF CloseUnrecorded
  <2>2. \A r \in Sessions \ {s} : life'[r] = life[r]
    BY <1>5 DEF CloseUnrecorded, TypeOK
  <2>3. ASSUME NEW u \in Threads PROVE CallFits(u)'
    <3>1. CallFits(u)
      BY DEF Calls
    <3>2. op[u].kind # "none" => op[u].s \in Sessions \ {s}
      BY <2>1, <3>1 DEF CallFits, Busy, TypeOK
    <3>. QED
      BY <2>1, <2>2, <3>1, <3>2 DEF CallFits, Busy
  <2>. QED
    BY <2>1, <2>3 DEF Calls, Busy
<1>6. ASSUME Stop
      PROVE  Calls'
  BY <1>6 DEF Calls, CallFits, Busy, Stop, Idle
<1>. QED
  BY <1>1, <1>2, <1>3, <1>4, <1>5, <1>6, StepCases, StepAdvances DEF Aside

\* Nothing but the reader moves while the server is down.
LEMMA NextEnded ==
    ASSUME TypeOK, Calls, Ended, Next
    PROVE  Ended'
<1>1. ASSUME NEW t \in Threads, CallBegins(t)
      PROVE  Ended'
  BY <1>1 DEF CallBegins, Begins, Ended
<1>2. ASSUME NEW t \in Threads, Advances(t), server' = server
      PROVE  Ended'
  BY <1>2 DEF Advances, Ended, Busy
<1>3. ASSUME NEW t \in Threads, Return(t)
      PROVE  Ended'
  BY <1>3 DEF Return, Ended, Busy
<1>4. ASSUME Aside
      PROVE  Ended'
  BY <1>4 DEF Aside, ReaderBegins, ReaderEnds, CloseUnrecorded, Ended, Busy
<1>5. ASSUME Stop
      PROVE  Ended'
  BY <1>5 DEF Stop, Ended, Busy, Idle
<1>6. ASSUME Start
      PROVE  Ended'
  BY <1>6 DEF Start, Ended
<1>7. ASSUME NEW t \in Threads, \/ GetInstance(t) \/ Lock(t) \/ Select(t)
                                \/ Insert(t) \/ UpdateBytes(t) \/ UpdateInactive(t) \/ Refused(t)
      PROVE  Ended'
  <2>1. server' = server
    BY <1>7 DEF GetInstance, Lock, Select, Insert, UpdateBytes, UpdateInactive, Refused
  <2>. QED
    BY <1>2, <1>7, <2>1, StepAdvances
<1>. QED
  BY <1>1, <1>3, <1>4, <1>5, <1>6, <1>7, StepCases

--------------------------------------------------------------------------------
(* The room in the table. *)

\* Fewer rows to insert need no more room.
LEMMA RoomKept ==
    ASSUME TypeOK, Room, lastId' = lastId, Pending' \subseteq Pending
    PROVE  Room'
<1>1. Cardinality(Pending') <= Cardinality(Pending)
  BY PendingFinite, FS_Subset
<1>2. IsFiniteSet(Pending') /\ Cardinality(Pending') \in Nat
  BY PendingFinite, FS_Subset, FS_CardinalityType
<1>3. Cardinality(Pending) \in Nat /\ lastId \in Nat /\ lastId + Cardinality(Pending) <= MaxRows
  BY PendingFinite, FS_CardinalityType DEF Room, TypeOK
<1>4. lastId + Cardinality(Pending') <= MaxRows
  <2>. HIDE DEF Pending
  <2>. QED
    BY <1>1, <1>2, <1>3, SizesAssumption
<1>. QED
  BY <1>4 DEF Room

\* There is always room for the rows that are still to be inserted.
LEMMA NextRoom ==
    ASSUME TypeOK, Calls, Room, Next
    PROVE  Room'
<1>1. ASSUME NEW t \in Threads, CallBegins(t)
      PROVE  Room'
  <2>. DEFINE Creating == {u \in Threads : op[u].kind = "create"}
  <2>1. PICK s \in Sessions, kind \in {"create", "update", "close"}, d \in Dests, n \in Nat :
            /\ Begins(t, s, kind, d, n)
            /\ kind = "create" => lastId + Cardinality(Creating) < MaxRows
    BY <1>1 DEF CallBegins
  <2>2. CASE kind # "create"
    <3>1. Pending' \subseteq Pending /\ lastId' = lastId
      BY <2>1, <2>2 DEF Begins, Pending
    <3>. QED
      BY <3>1, RoomKept
  <2>3. CASE kind = "create"
    <3>1. Pending' \subseteq Creating \cup {t} /\ lastId' = lastId /\ t \notin Creating
      BY <2>1, <2>3 DEF Begins, Pending, Calls, CallFits, Busy
    <3>2. /\ IsFiniteSet(Creating) /\ Cardinality(Creating) \in Nat
          /\ IsFiniteSet(Creating \cup {t}) /\ Cardinality(Creating \cup {t}) = Cardinality(Creating) + 1
      BY <3>1, PendingFinite, FS_AddElement, FS_CardinalityType
    <3>3. /\ Cardinality(Pending') <= Cardinality(Creating \cup {t})
          /\ Cardinality(Pending') \in Nat
      BY <3>1, <3>2, FS_Subset, FS_CardinalityType
    <3>4. lastId \in Nat /\ lastId + Cardinality(Creating) < MaxRows
      BY <2>1, <2>3 DEF TypeOK
    <3>5. lastId + Cardinality(Pending') <= MaxRows
      <4>. HIDE DEF Pending, Creating
      <4>. QED
        BY <3>2, <3>3, <3>4, SizesAssumption
    <3>. QED
      BY <3>1, <3>5 DEF Room
  <2>. QED
    BY <2>2, <2>3
<1>2. ASSUME NEW t \in Threads, Advances(t), lastId' = lastId, op[t].pc # "unlock"
      PROVE  Room'
  BY <1>2, RoomKept DEF Advances, Pending
<1>3. ASSUME NEW t \in Threads, Insert(t)
      PROVE  Room'
  <2>1. t \in Pending /\ Pending' = Pending \ {t} /\ lastId' = lastId + 1
    BY <1>3 DEF Insert, Pending, TypeOK
  <2>2. Cardinality(Pending') = Cardinality(Pending) - 1
    BY <2>1, PendingFinite, FS_RemoveElement
  <2>3. Cardinality(Pending) \in Nat /\ lastId \in Nat /\ lastId + Cardinality(Pending) <= MaxRows
    BY PendingFinite, FS_CardinalityType DEF Room, TypeOK
  <2>4. lastId' + Cardinality(Pending') <= MaxRows
    <3>. HIDE DEF Pending
    <3>. QED
      BY <2>1, <2>2, <2>3, SizesAssumption
  <2>. QED
    BY <2>4 DEF Room
<1>4. ASSUME NEW t \in Threads, Return(t)
      PROVE  Room'
  <2>1. Ends(t)
    BY <1>4, StepEnds
  <2>. QED
    BY <2>1, RoomKept DEF Ends, Pending, Idle
<1>5. ASSUME Aside \/ Start
      PROVE  Room'
  BY <1>5, RoomKept DEF Aside, ReaderBegins, ReaderEnds, CloseUnrecorded, Start, Pending
<1>6. ASSUME Stop
      PROVE  Room'
  BY <1>6, RoomKept DEF Stop, Pending, Idle
<1>7. ASSUME NEW t \in Threads, \/ GetInstance(t) \/ Lock(t) \/ Select(t)
                                \/ UpdateBytes(t) \/ UpdateInactive(t) \/ Refused(t)
      PROVE  Room'
  <2>1. lastId' = lastId /\ op[t].pc # "unlock"
    BY <1>7 DEF GetInstance, Lock, Select, UpdateBytes, UpdateInactive, Refused
  <2>. QED
    BY <1>2, <1>7, <2>1, StepAdvances
<1>. QED
  BY <1>1, <1>3, <1>4, <1>5, <1>6, <1>7, StepCases
--------------------------------------------------------------------------------
(* The ids and the states of the rows. *)

\* The ids of the sessions stay those of rows, each of one session.
LEMMA NextIds ==
    ASSUME TypeOK, Calls, Ids, States, Next
    PROVE  Ids'
<1>1. ASSUME id' = id, lastId' \in {lastId, lastId + 1}, \A s \in Sessions : life'[s] # "up" => id[s] = 0
      PROVE  Ids'
  BY <1>1 DEF Ids, TypeOK
<1>2. ASSUME NEW t \in Threads, CallBegins(t)
      PROVE  Ids'
  BY <1>1, <1>2 DEF CallBegins, Begins, Ids
<1>3. ASSUME NEW t \in Threads, \/ GetInstance(t) \/ Lock(t) \/ Select(t)
                                \/ Insert(t) \/ UpdateBytes(t) \/ UpdateInactive(t) \/ Refused(t)
      PROVE  Ids'
  <2>1. id' = id /\ life' = life /\ lastId' \in {lastId, lastId + 1}
    BY <1>3 DEF GetInstance, Lock, Select, Insert, UpdateBytes, UpdateInactive, Refused
  <2>. QED
    BY <1>1, <2>1 DEF Ids
<1>4. ASSUME NEW t \in Threads, Return(t)
      PROVE  Ids'
  <2>. DEFINE s == op[t].s
  <2>1. Ends(t) /\ s \in Sessions
    BY <1>4, StepEnds
  <2>2. Fresh(t) /\ CallFits(t)
    BY DEF States, Calls
  <2>3. \/ id'[s] = 0
        \/ id'[s] = lastId /\ \A u \in Sessions : id[u] # lastId
        \/ id'[s] = id[s] /\ life'[s] = "up"
    BY <2>1, <2>2 DEF Ends, Fresh
  <2>4. lastId' = lastId /\ lastId \in Nat
    BY <2>1 DEF Ends, TypeOK
  <2>5. ASSUME NEW u \in Sessions PROVE (life'[u] # "up" => id'[u] = 0) /\ id'[u] <= lastId
    <3>1. CASE u # s
      BY <2>1, <3>1 DEF Ends, Ids
    <3>2. CASE u = s
      <4>1. life'[s] # "up" => id'[s] = 0
        BY <2>1 DEF Ends
      <4>2. id'[s] <= lastId
        BY <2>1, <2>3, <2>4 DEF Ids
      <4>. QED
        BY <3>2, <4>1, <4>2
    <3>. QED
      BY <3>1, <3>2
  <2>6. ASSUME NEW u \in Sessions, NEW v \in Sessions, u # v, id'[u] # 0 PROVE id'[v] # id'[u]
    BY <2>1, <2>3, <2>6 DEF Ends, Ids
  <2>. QED
    BY <2>4, <2>5, <2>6 DEF Ids
<1>5. ASSUME ReaderBegins \/ ReaderEnds \/ Start
      PROVE  Ids'
  BY <1>5 DEF ReaderBegins, ReaderEnds, Start, Ids
<1>6. ASSUME NEW s \in Sessions, CloseUnrecorded(s)
      PROVE  Ids'
  BY <1>6 DEF CloseUnrecorded, Ids, TypeOK
<1>7. ASSUME Stop
      PROVE  Ids'
  BY <1>7 DEF Stop, Ids, TypeOK
<1>. QED
  BY <1>2, <1>3, <1>4, <1>5, <1>6, <1>7, StepCases DEF Aside

\* The parts of States that a step leaves alone.
LEMMA StatesKept ==
    ASSUME States, id' = id, lastId' = lastId, rows' = rows, stale \subseteq stale',
           \A t \in Threads : op'[t].pc = "unlock" => op'[t] = op[t],
           \A t \in Threads : op[t].pc = "unlock" => op'[t] = op[t]
    PROVE  States'
<1>1. ASSUME NEW t \in Threads PROVE Fresh(t)' /\ Retired(t)'
  BY DEF States, Fresh, Retired
<1>2. ASSUME NEW s \in Sessions, Closing(s) PROVE Closing(s)'
  BY <1>2 DEF Closing
<1>. QED
  BY <1>1, <1>2 DEF States

\* Every step keeps the states of the rows in line with the calls and the ids.
LEMMA NextStates ==
    ASSUME TypeOK, Calls, Ended, Room, Ids, States, Next
    PROVE  States'
<1>1. ASSUME NEW t \in Threads, CallBegins(t)
      PROVE  States'
  BY <1>1, StatesKept DEF CallBegins, Begins, Busy
<1>2. ASSUME NEW t \in Threads, GetInstance(t) \/ Lock(t) \/ Select(t)
      PROVE  States'
  <2>1. op[t].pc # "unlock" /\ op'[t].pc # "unlock" /\ \A u \in Threads \ {t} : op'[u] = op[u]
    BY <1>2 DEF TypeOK, GetInstance, Lock, Select
  <2>. QED
    BY <1>2, <2>1, StatesKept DEF GetInstance, Lock, Select
<1>3. ASSUME NEW t \in Threads, Insert(t), lastId' \in Rows
      PROVE  States'
  <2>. DEFINE n == lastId'
  <2>1. n = lastId + 1 /\ lastId \in Nat /\ n # 0 /\ id' = id /\ stale' = stale
    BY <1>3 DEF Insert, TypeOK
  <2>2. rows'[n].state = "active" /\ \A i \in Rows \ {n} : rows'[i] = rows[i]
    BY <1>3 DEF Insert, TypeOK
  <2>3. op'[t].kind = "create" /\ Advances(t)
    BY <1>3, StepAdvances DEF Advances, Insert
  <2>4. \A u \in Threads \ {t} : op'[u] = op[u] /\ op[u].pc # "unlock"
    BY <1>3, <2>3 DEF Advances, Insert, Calls, CallFits
  <2>5. \A s \in Sessions : id[s] # n
    BY <2>1 DEF Ids, TypeOK
  <2>6. ASSUME NEW u \in Threads PROVE Fresh(u)' /\ Retired(u)'
    BY <2>1, <2>2, <2>3, <2>4, <2>5 DEF Fresh, Retired
  <2>7. ASSUME NEW i \in Rows, i > n PROVE rows'[i].state = "none"
    <3>1. i # n /\ i > lastId
      BY <2>1, <2>7 DEF Rows
    <3>. QED
      BY <2>2, <3>1 DEF States
  <2>8. ASSUME NEW s \in Sessions, id[s] # 0 PROVE rows'[id[s]].state = "active" \/ Closing(s)'
    <3>1. id[s] \in Rows /\ rows'[id[s]] = rows[id[s]]
      BY <2>2, <2>5, <2>8 DEF TypeOK, Rows
    <3>2. Closing(s) => Closing(s)'
      BY <1>3, <2>4 DEF Closing, Insert
    <3>. QED
      BY <2>8, <3>1, <3>2 DEF States
  <2>. QED
    BY <2>1, <2>6, <2>7, <2>8 DEF States
<1>4. ASSUME NEW t \in Threads, UpdateBytes(t)
      PROVE  States'
  <2>1. /\ op'[t].kind = "update" /\ Advances(t) /\ id' = id /\ lastId' = lastId /\ stale' = stale
    BY <1>4, StepAdvances DEF Advances, UpdateBytes
  <2>2. \A u \in Threads \ {t} : op'[u] = op[u] /\ op[u].pc # "unlock"
    BY <1>4, <2>1 DEF Advances, UpdateBytes, Calls, CallFits
  <2>3. \A i \in Rows : rows'[i].state = rows[i].state
    BY <1>4 DEF UpdateBytes, TypeOK
  <2>4. ASSUME NEW u \in Threads PROVE Fresh(u)' /\ Retired(u)'
    BY <2>1, <2>2 DEF Fresh, Retired
  <2>5. ASSUME NEW s \in Sessions, id[s] # 0 PROVE rows'[id[s]].state = "active" \/ Closing(s)'
    <3>1. id[s] \in Rows
      BY <2>5 DEF TypeOK, Rows
    <3>2. Closing(s) => Closing(s)'
      BY <1>4, <2>2 DEF Closing, UpdateBytes
    <3>. QED
      BY <2>3, <2>5, <3>1, <3>2 DEF States
  <2>. QED
    BY <2>1, <2>3, <2>4, <2>5 DEF States
<1>5. ASSUME NEW t \in Threads, UpdateInactive(t)
      PROVE  States'
  <2>. DEFINE i == id[op[t].s]
  <2>1. /\ op[t].kind = "close" /\ op'[t].pc = "unlock" /\ op'[t].ok /\ Advances(t)
        /\ id' = id /\ lastId' = lastId /\ stale' = stale
    BY <1>5, StepAdvances, WrittenOp DEF UpdateInactive
  <2>2. \A u \in Threads \ {t} : op'[u] = op[u] /\ op[u].pc # "unlock"
    BY <1>5, <2>1 DEF Advances, UpdateInactive, Calls, CallFits
  <2>3. op[t].s \in Sessions /\ i \in Rows
    BY <2>1, RowOfCall DEF Calls
  <2>4. rows'[i].state = "inactive" /\ \A j \in Rows \ {i} : rows'[j] = rows[j]
    BY <1>5, <2>3 DEF UpdateInactive, TypeOK
  <2>5. ASSUME NEW u \in Threads PROVE Fresh(u)' /\ Retired(u)'
    BY <2>1, <2>2, <2>4 DEF Fresh, Retired, Advances
  <2>6. ASSUME NEW s \in Sessions, id[s] # 0 PROVE rows'[id[s]].state = "active" \/ Closing(s)'
    <3>1. CASE s = op[t].s
      BY <2>1, <3>1 DEF Closing, Advances
    <3>2. CASE s # op[t].s
      <4>1. id[s] \in Rows \ {i}
        BY <2>3, <2>6, <3>2 DEF Ids, TypeOK, Rows
      <4>2. Closing(s) => Closing(s)'
        BY <1>5, <2>2 DEF Closing, UpdateInactive
      <4>. QED
        BY <2>4, <2>6, <4>1, <4>2 DEF States
    <3>. QED
      BY <3>1, <3>2
  <2>7. ASSUME NEW j \in Rows, j > lastId PROVE rows'[j].state = "none"
    <3>1. i <= lastId /\ lastId \in Nat
      BY <2>3 DEF Ids, TypeOK
    <3>2. j # i
      BY <2>3, <2>7, <3>1 DEF Rows
    <3>. QED
      BY <2>4, <2>7, <3>2 DEF States
  <2>. QED
    BY <2>1, <2>5, <2>6, <2>7 DEF States
<1>6. ASSUME NEW t \in Threads, Refused(t)
      PROVE  States'
  <2>1. /\ Advances(t) /\ op'[t].pc = "unlock" /\ ~op'[t].ok
        /\ id' = id /\ lastId' = lastId /\ rows' = rows
        /\ stale \subseteq stale' /\ (op[t].kind = "close" => id[op[t].s] \in stale')
    BY <1>6, StepAdvances, WrittenOp DEF Refused
  <2>2. \A u \in Threads \ {t} : op'[u] = op[u] /\ op[u].pc # "unlock"
    BY <1>6, <2>1 DEF Advances, Refused, Calls, CallFits
  <2>3. ASSUME NEW u \in Threads PROVE Fresh(u)' /\ Retired(u)'
    BY <2>1, <2>2 DEF Fresh, Retired, Advances
  <2>4. ASSUME NEW s \in Sessions PROVE Closing(s) => Closing(s)'
    BY <1>6, <2>2 DEF Closing, Refused
  <2>. QED
    BY <2>1, <2>3, <2>4 DEF States
<1>7. ASSUME NEW t \in Threads, Return(t)
      PROVE  States'
  <2>. DEFINE s == op[t].s
  <2>1. Ends(t) /\ s \in Sessions
    BY <1>7, StepEnds
  <2>2. Fresh(t) /\ CallFits(t)
    BY DEF States, Calls
  <2>3. \A u \in Threads \ {t} : op'[u] = op[u] /\ op[u].pc # "unlock"
    BY <2>1 DEF Ends, Calls, CallFits
  <2>4. ASSUME NEW u \in Threads PROVE Fresh(u)' /\ Retired(u)'
    BY <2>1, <2>3 DEF Fresh, Retired, Ends, Idle
  <2>5. ASSUME NEW u \in Sessions, id'[u] # 0 PROVE rows[id'[u]].state = "active"
    <3>1. CASE u = s
      <4>1. CASE op[t].kind = "create" /\ op[t].ok
        BY <2>1, <2>2, <3>1, <4>1 DEF Ends, Fresh
      <4>2. CASE op[t].kind = "close"
        BY <2>1, <2>5, <3>1, <4>2 DEF Ends
      <4>3. CASE ~(op[t].kind = "create" /\ op[t].ok) /\ op[t].kind # "close"
        <5>1. id'[u] = id[s] /\ ~Closing(s)
          <6>1. ASSUME NEW v \in Threads, op[v].kind = "close", op[v].pc = "unlock", op[v].s = s
                PROVE  FALSE
            BY <2>3, <4>3, <6>1
          <6>. QED
            BY <2>1, <3>1, <4>3, <6>1 DEF Ends, Closing
        <5>. QED
          BY <2>1, <2>5, <5>1 DEF States
      <4>. QED
        BY <4>1, <4>2, <4>3
    <3>2. CASE u # s
      <4>1. id'[u] = id[u]
        BY <2>1, <3>2 DEF Ends
      <4>2. ~Closing(u)
        BY <2>3, <3>2 DEF Closing
      <4>. QED
        BY <2>5, <4>1, <4>2 DEF States
    <3>. QED
      BY <3>1, <3>2
  <2>. QED
    BY <2>1, <2>4, <2>5 DEF States, Ends
<1>8. ASSUME Aside
      PROVE  States'
  BY <1>8, StatesKept DEF Aside, ReaderBegins, ReaderEnds, CloseUnrecorded
<1>9. ASSUME Stop
      PROVE  States'
  BY <1>9 DEF Stop, States, Fresh, Retired, Idle
<1>10. ASSUME Start
       PROVE  States'
  <2>1. \A t \in Threads : ~Busy(t)
    BY <1>10 DEF Start, Ended
  <2>2. \A s \in Sessions : id[s] = 0
    BY <1>10 DEF Start, Ended, Ids
  <2>3. \A i \in Rows : rows[i].state = "none" => rows'[i].state = "none"
    BY <1>10 DEF Start, Deactivated, TypeOK
  <2>. QED
    BY <1>10, <2>1, <2>2, <2>3 DEF Start, States, Fresh, Retired, Busy
<1>. QED
  <2>1. ASSUME NEW t \in Threads, Insert(t) PROVE lastId' \in Rows
    BY <2>1, InsertRoom DEF Insert
  <2>. QED
    BY <1>1, <1>2, <1>3, <1>4, <1>5, <1>6, <1>7, <1>8, <1>9, <1>10, <2>1, StepCases
--------------------------------------------------------------------------------
(* The rows that are active. *)

\* A row is active only for a session, or for the thread or the refusal that explains it.
LEMMA NextActive ==
    ASSUME TypeOK, Calls, Ids, States, ActiveRowsLive, Next
    PROVE  ActiveRowsLive'
<1>. DEFINE Known(i) == i \in stale \/ Inserted(i) \/ \E s \in Sessions : id[s] = i
<1>0. ASSUME server = "up", NEW i \in Rows, rows[i].state = "active" PROVE Known(i)
  BY <1>0 DEF ActiveRowsLive
<1>1. ASSUME NEW t \in Threads, CallBegins(t)
      PROVE  ActiveRowsLive'
  <2>1. /\ rows' = rows /\ server' = server /\ stale' = stale /\ id' = id /\ lastId' = lastId
        /\ ~Busy(t) /\ \A u \in Threads \ {t} : op'[u] = op[u]
    BY <1>1 DEF CallBegins, Begins
  <2>2. ASSUME NEW i, Inserted(i) PROVE Inserted(i)'
    BY <2>1, <2>2 DEF Inserted, Busy
  <2>. QED
    BY <2>1, <2>2 DEF ActiveRowsLive
<1>2. ASSUME NEW t \in Threads, GetInstance(t) \/ Lock(t) \/ Select(t)
      PROVE  ActiveRowsLive'
  <2>1. /\ rows' = rows /\ server' = server /\ stale' = stale /\ id' = id /\ lastId' = lastId
        /\ op[t].pc # "unlock" /\ \A u \in Threads \ {t} : op'[u] = op[u]
    BY <1>2 DEF TypeOK, GetInstance, Lock, Select
  <2>2. ASSUME NEW i, Inserted(i) PROVE Inserted(i)'
    BY <2>1, <2>2 DEF Inserted
  <2>. QED
    BY <2>1, <2>2 DEF ActiveRowsLive
<1>3. ASSUME NEW t \in Threads, op[t].pc = "write", Advances(t) PROVE \A i : ~Inserted(i)
  BY <1>3 DEF Inserted, Calls, CallFits
<1>4. ASSUME NEW t \in Threads, Insert(t)
      PROVE  ActiveRowsLive'
  <2>1. /\ server' = server /\ stale' = stale /\ id' = id /\ \A i : ~Inserted(i)
    BY <1>3, <1>4, StepAdvances DEF Insert
  <2>2. \A i \in Rows \ {lastId'} : rows'[i] = rows[i]
    BY <1>4 DEF Insert, TypeOK
  <2>3. Inserted(lastId)'
    BY <1>4, WrittenOp DEF Insert, Inserted
  <2>. QED
    BY <2>1, <2>2, <2>3 DEF ActiveRowsLive
<1>5. ASSUME NEW t \in Threads, UpdateBytes(t)
      PROVE  ActiveRowsLive'
  <2>1. /\ server' = server /\ stale' = stale /\ id' = id /\ \A i : ~Inserted(i)
    BY <1>3, <1>5, StepAdvances DEF UpdateBytes
  <2>2. \A i \in Rows : rows'[i].state = rows[i].state
    BY <1>5 DEF UpdateBytes, TypeOK
  <2>. QED
    BY <2>1, <2>2 DEF ActiveRowsLive
<1>6. ASSUME NEW t \in Threads, UpdateInactive(t)
      PROVE  ActiveRowsLive'
  <2>1. /\ server' = server /\ stale' = stale /\ id' = id /\ \A i : ~Inserted(i)
    BY <1>3, <1>6, StepAdvances DEF UpdateInactive
  <2>2. \A i \in Rows : rows'[i].state \in {rows[i].state, "inactive"}
    BY <1>6 DEF UpdateInactive, TypeOK
  <2>. QED
    BY <2>1, <2>2 DEF ActiveRowsLive
<1>7. ASSUME NEW t \in Threads, Refused(t)
      PROVE  ActiveRowsLive'
  <2>1. /\ server' = server /\ stale \subseteq stale' /\ id' = id /\ rows' = rows /\ \A i : ~Inserted(i)
    BY <1>3, <1>7, StepAdvances DEF Refused
  <2>. QED
    BY <2>1 DEF ActiveRowsLive
<1>8. ASSUME NEW t \in Threads, Return(t)
      PROVE  ActiveRowsLive'
  <2>. DEFINE s == op[t].s
  <2>1. Ends(t) /\ s \in Sessions
    BY <1>8, StepEnds
  <2>2. Retired(t) /\ CallFits(t)
    BY DEF States, Calls
  <2>3. \A u \in Threads \ {t} : op[u].pc # "unlock"
    BY <2>1 DEF Ends, Calls, CallFits
  <2>4. ASSUME NEW i \in Rows, Inserted(i) PROVE id'[s] = i
    BY <2>1, <2>3, <2>4 DEF Inserted, Ends
  <2>5. ASSUME NEW i \in Rows, rows[i].state = "active", NEW u \in Sessions, id[u] = i
        PROVE  i \in stale \/ id'[u] = i
    <3>1. CASE u # s
      BY <2>1, <2>5, <3>1 DEF Ends
    <3>2. CASE u = s /\ op[t].kind = "close"
      BY <2>1, <2>2, <2>5, <3>2 DEF Retired, Ends
    <3>3. CASE u = s /\ op[t].kind = "create"
      BY <2>1, <2>2, <2>5, <3>3, Names DEF CallFits, Ids
    <3>4. CASE u = s /\ op[t].kind \notin {"close", "create"}
      BY <2>1, <2>5, <3>4 DEF Ends
    <3>. QED
      BY <3>1, <3>2, <3>3, <3>4
  <2>6. rows' = rows /\ stale' = stale /\ server' = server
    BY <2>1 DEF Ends
  <2>. QED
    BY <2>1, <2>4, <2>5, <2>6 DEF ActiveRowsLive
<1>9. ASSUME Aside
      PROVE  ActiveRowsLive'
  BY <1>9 DEF Aside, ReaderBegins, ReaderEnds, CloseUnrecorded, ActiveRowsLive, Inserted
<1>10. ASSUME Stop
       PROVE  ActiveRowsLive'
  BY <1>10 DEF Stop, ActiveRowsLive
<1>11. ASSUME Start
       PROVE  ActiveRowsLive'
  <2>1. \A i \in Rows : rows'[i].state # "active"
    BY <1>11 DEF Start, Deactivated, TypeOK
  <2>. QED
    BY <2>1 DEF ActiveRowsLive
<1>. QED
  BY <1>1, <1>2, <1>4, <1>5, <1>6, <1>7, <1>8, <1>9, <1>10, <1>11, StepCases

--------------------------------------------------------------------------------
(* The sums. *)

\* A call that is a later state of the one it was, and has not read its row since.
Later(u) ==
    /\ op[u].kind = "update" /\ op[u].pc # "unlock"
    /\ op'[u].s = op[u].s /\ op'[u].n = op[u].n /\ op'[u].dest = op[u].dest
    /\ op'[u].pc = "write" => op'[u] = op[u]
    /\ id'[op[u].s] = id[op[u].s]

\* A step that writes no byte column and lets the updates go on keeps the sums.
LEMMA SumsKept ==
    ASSUME TypeOK, Calls, Sums, acked' = acked, \A i \in Rows : rows'[i].bytes = rows[i].bytes,
           \A u \in Threads : op'[u].kind = "update" /\ op'[u].pc # "unlock" => Later(u)
    PROVE  Sums'
<1>1. TotalsExactBelowHalf'
  BY DEF Sums, TotalsExactBelowHalf
<1>2. ASSUME NEW u \in Threads, op'[u].kind = "update", op'[u].pc # "unlock" PROVE Summing(u)'
  <2>1. Later(u) /\ Summing(u)
    BY <1>2 DEF Sums
  <2>2. id[op[u].s] \in Rows
    BY <2>1, RowOfCall DEF Later, Calls
  <2>3. acked'[id'[op'[u].s]][op'[u].dest] + op'[u].n <= MaxBytes
    BY <2>1 DEF Later, Summing
  <2>4. ASSUME op'[u].pc = "write"
        PROVE  op'[u].seen = ToInt(rows'[id'[op'[u].s]].bytes[op'[u].dest])
    BY <2>1, <2>2, <2>4 DEF Later, Summing
  <2>. QED
    BY <1>2, <2>3, <2>4 DEF Summing, ToInt
<1>3. ASSUME NEW u \in Threads, ~(op'[u].kind = "update" /\ op'[u].pc # "unlock") PROVE Summing(u)'
  BY <1>3 DEF Summing
<1>. QED
  BY <1>1, <1>2, <1>3 DEF Sums

\* What an UPDATE of a byte column adds to, and how much, when all is exact below 2^31.
LEMMA ReadIsRecorded ==
    ASSUME TypeOK, Calls, Sums, NEW t \in Threads, UpdateBytes(t),
           acked[id[op[t].s]][op[t].dest] < Half
    PROVE  /\ rows[id[op[t].s]].bytes[op[t].dest] = acked[id[op[t].s]][op[t].dest]
           /\ op[t].seen = acked[id[op[t].s]][op[t].dest]
<1>. DEFINE i == id[op[t].s]
            d == op[t].dest
<1>1. i \in Rows /\ d \in Dests
  BY RowOfCall DEF UpdateBytes, Calls, TypeOK
<1>2. acked[i][d] \in Nat /\ acked[i][d] < Half
  BY <1>1 DEF TypeOK
<1>3. rows[i].bytes[d] = acked[i][d]
  <2>1. acked[i][d] <= Half
    BY <1>2, SizesAssumption
  <2>. QED
    BY <1>1, <2>1 DEF Sums, TotalsExactBelowHalf
<1>4. op[t].seen = ToInt(rows[i].bytes[d])
  BY DEF Sums, Summing, UpdateBytes
<1>5. op[t].seen = ToInt(acked[i][d])
  BY <1>3, <1>4 DEF ToInt
<1>6. ToInt(acked[i][d]) = acked[i][d]
  BY <1>2, ToIntExact
<1>. QED
  BY <1>3, <1>5, <1>6

\* Every step keeps the sums.
LEMMA NextSums ==
    ASSUME TypeOK, Calls, Ids, Sums, Next
    PROVE  Sums'
<1>1. ASSUME NEW t \in Threads, CallBegins(t)
      PROVE  Sums'
  <2>1. PICK s \in Sessions, kind \in {"create", "update", "close"}, d \in Dests, n \in Nat :
            /\ Begins(t, s, kind, d, n)
            /\ kind = "update" => n \in Amounts /\ acked[id[s]][d] + n <= MaxBytes
    BY <1>1 DEF CallBegins
  <2>2. TotalsExactBelowHalf'
    BY <2>1 DEF Begins, Sums, TotalsExactBelowHalf
  <2>3. ASSUME NEW u \in Threads \ {t} PROVE Summing(u)'
    BY <2>1 DEF Begins, Sums, Summing, ToInt
  <2>4. Summing(t)'
    BY <2>1 DEF Begins, Summing
  <2>. QED
    BY <2>2, <2>3, <2>4 DEF Sums
<1>2. ASSUME NEW t \in Threads, GetInstance(t) \/ Lock(t)
      PROVE  Sums'
  <2>1. ASSUME NEW u \in Threads, op'[u].kind = "update", op'[u].pc # "unlock" PROVE Later(u)
    BY <1>2, <2>1 DEF Later, GetInstance, Lock, TypeOK
  <2>. QED
    BY <1>2, <2>1, SumsKept DEF GetInstance, Lock
<1>3. ASSUME NEW t \in Threads, Select(t)
      PROVE  Sums'
  <2>1. Advances(t) /\ rows' = rows /\ acked' = acked
    BY <1>3, StepAdvances DEF Select
  <2>2. TotalsExactBelowHalf'
    BY <2>1 DEF Sums, TotalsExactBelowHalf
  <2>3. ASSUME NEW u \in Threads \ {t} PROVE Summing(u)'
    BY <2>1 DEF Advances, Sums, Summing, ToInt
  <2>4. Summing(t)'
    <3>1. op'[t].seen = ToInt(rows[id[op[t].s]].bytes[op[t].dest])
      BY <1>3 DEF Select, TypeOK
    <3>2. op'[t].seen = ToInt(rows'[id'[op'[t].s]].bytes[op'[t].dest])
      BY <2>1, <3>1 DEF Advances
    <3>3. op[t].pc # "unlock" /\ Summing(t)
      BY <1>3 DEF Select, Sums
    <3>4. op[t].kind = "update" => acked'[id'[op'[t].s]][op'[t].dest] + op'[t].n <= MaxBytes
      BY <2>1, <3>3 DEF Advances, Summing
    <3>. QED
      BY <2>1, <3>2, <3>4 DEF Summing, Advances, ToInt
  <2>. QED
    BY <2>2, <2>3, <2>4 DEF Sums
<1>4. ASSUME NEW t \in Threads, Insert(t) \/ UpdateInactive(t) \/ Refused(t)
      PROVE  Sums'
  <2>1. \A i \in Rows : rows'[i].bytes = rows[i].bytes
    <3>1. ASSUME NEW i, NEW state, rows' = [rows EXCEPT ![i].state = state]
          PROVE  \A j \in Rows : rows'[j].bytes = rows[j].bytes
      BY <3>1 DEF TypeOK
    <3>2. CASE Insert(t)
      BY <3>1, <3>2 DEF Insert
    <3>3. CASE UpdateInactive(t)
      BY <3>1, <3>3 DEF UpdateInactive
    <3>4. CASE Refused(t)
      BY <3>4 DEF Refused
    <3>. QED
      BY <1>4, <3>2, <3>3, <3>4
  <2>2. ASSUME NEW u \in Threads, op'[u].kind = "update", op'[u].pc # "unlock" PROVE Later(u)
    <3>1. op'[t].pc = "unlock" /\ Advances(t)
      BY <1>4, WrittenOp, StepAdvances DEF Insert, UpdateInactive, Refused
    <3>2. op'[u] = op[u]
      BY <2>2, <3>1 DEF Advances
    <3>. QED
      BY <2>2, <3>1, <3>2 DEF Later, Advances
  <2>. QED
    BY <1>4, <2>1, <2>2, SumsKept DEF Insert, UpdateInactive, Refused
<1>5. ASSUME NEW t \in Threads, UpdateBytes(t)
      PROVE  Sums'
  <2>. DEFINE i == id[op[t].s]
              d == op[t].dest
              n == op[t].n
  <2>1. i \in Rows /\ d \in Dests /\ n \in Nat \ {0} /\ op[t].s \in Sessions
    <3>1. op[t].kind = "update" /\ CallFits(t)
      BY <1>5 DEF UpdateBytes, Calls
    <3>. QED
      BY <3>1, RowOfCall, AmountsAssumption DEF TypeOK, CallFits
  <2>2. Advances(t) /\ op[t].pc = "write" /\ op'[t].pc = "unlock"
    BY <1>5, WrittenOp, StepAdvances DEF UpdateBytes
  <2>3. /\ acked' = [acked EXCEPT ![i] = [acked[i] EXCEPT ![d] = acked[i][d] + n]]
        /\ rows' = [rows EXCEPT ![i].bytes[d] = op[t].seen + n]
    BY <1>5 DEF UpdateBytes
  <2>4. acked'[i][d] = acked[i][d] + n /\ rows'[i].bytes[d] = op[t].seen + n
    BY <2>1, <2>3 DEF TypeOK
  <2>5. \A j \in Rows, e \in Dests :
            j # i \/ e # d => acked'[j][e] = acked[j][e] /\ rows'[j].bytes[e] = rows[j].bytes[e]
    BY <2>1, <2>3 DEF TypeOK
  <2>6. acked'[i][d] <= Half => rows'[i].bytes[d] = acked'[i][d]
    <3>1. acked[i][d] \in Nat
      BY <2>1 DEF TypeOK
    <3>2. ASSUME acked'[i][d] <= Half PROVE acked[i][d] < Half
      BY <2>1, <2>4, <3>1, <3>2, SizesAssumption
    <3>3. ASSUME acked[i][d] < Half PROVE op[t].seen = acked[i][d]
      BY <1>5, <3>3, ReadIsRecorded
    <3>. QED
      BY <2>4, <3>2, <3>3
  <2>7. TotalsExactBelowHalf'
    BY <2>1, <2>5, <2>6 DEF Sums, TotalsExactBelowHalf
  <2>8. ASSUME NEW u \in Threads \ {t} PROVE Summing(u)'
    <3>1. op'[u] = op[u] /\ id' = id /\ op[u].pc # "write" /\ CallFits(u)
      BY <2>2, <2>8 DEF Advances, Calls, CallFits
    <3>2. CASE op[u].kind = "update" /\ op[u].pc # "unlock"
      <4>1. op[u].s \in Sessions /\ id[op[u].s] \in Rows
        BY <3>1, <3>2, RowOfCall
      <4>2. op[u].s # op[t].s
        BY <2>2, <2>8, <3>1, <3>2 DEF Calls, Busy, CallFits
      <4>3. id[op[u].s] # i
        BY <2>1, <4>1, <4>2, Names DEF Ids
      <4>4. acked'[id[op[u].s]][op[u].dest] = acked[id[op[u].s]][op[u].dest]
        BY <2>5, <4>1, <4>3 DEF TypeOK
      <4>5. acked[id[op[u].s]][op[u].dest] + op[u].n <= MaxBytes
        BY <3>2 DEF Sums, Summing
      <4>. QED
        BY <3>1, <4>4, <4>5 DEF Summing
    <3>. QED
      BY <3>1, <3>2 DEF Summing
  <2>9. Summing(t)'
    BY <2>2 DEF Summing
  <2>. QED
    BY <2>7, <2>8, <2>9 DEF Sums
<1>6. ASSUME NEW t \in Threads, Return(t)
      PROVE  Sums'
  <2>1. Ends(t) /\ op[t].s \in Sessions
    BY <1>6, StepEnds
  <2>2. ASSUME NEW u \in Threads, op'[u].kind = "update", op'[u].pc # "unlock" PROVE Later(u)
    <3>1. u # t /\ op'[u] = op[u]
      BY <2>1, <2>2 DEF Ends, Idle
    <3>2. op[u].s \in Sessions \ {op[t].s}
      BY <2>1, <2>2, <3>1 DEF Ends, Calls, CallFits, Busy
    <3>3. id'[op[u].s] = id[op[u].s]
      BY <2>1, <3>2 DEF Ends
    <3>. QED
      BY <2>2, <3>1, <3>3 DEF Later
  <2>. QED
    BY <2>1, <2>2, SumsKept DEF Ends
<1>7. ASSUME Aside \/ Start
      PROVE  Sums'
  <2>1. op' = op /\ id' = id /\ acked' = acked
    BY <1>7 DEF Aside, ReaderBegins, ReaderEnds, CloseUnrecorded, Start
  <2>2. \A i \in Rows : rows'[i].bytes = rows[i].bytes
    BY <1>7 DEF Aside, ReaderBegins, ReaderEnds, CloseUnrecorded, Start, Deactivated, TypeOK
  <2>3. \A u \in Threads : op'[u].kind = "update" /\ op'[u].pc # "unlock" => Later(u)
    BY <2>1 DEF Later
  <2>. QED
    BY <2>1, <2>2, <2>3, SumsKept
<1>8. ASSUME Stop
      PROVE  Sums'
  <2>1. \A u \in Threads : op'[u].kind # "update"
    BY <1>8 DEF Stop, Idle
  <2>. QED
    BY <1>8, <2>1, SumsKept DEF Stop
<1>. QED
  BY <1>1, <1>2, <1>3, <1>4, <1>5, <1>6, <1>7, <1>8, StepCases
--------------------------------------------------------------------------------
(* The theorems. *)

\* At first the table is empty and the server is down.
LEMMA InitInv == Init => IndInv
<1>. SUFFICES ASSUME Init PROVE IndInv
  OBVIOUS
<1>1. TypeOK
  BY InitTyped
<1>2. Calls /\ Ended /\ Ids
  BY Names DEF Init, Calls, CallFits, Busy, Idle, Ended, Ids
<1>3. Room
  <2>1. Pending = {} /\ lastId = 0
    BY DEF Init, Pending, Idle
  <2>2. Cardinality(Pending) = 0
    BY <2>1, FS_EmptySet
  <2>. QED
    BY <2>1, <2>2, SizesAssumption DEF Room
<1>4. States /\ ActiveRowsLive
  BY DEF Init, States, Fresh, Retired, Idle, ActiveRowsLive
<1>5. Sums
  BY DEF Init, Sums, TotalsExactBelowHalf, Summing, Idle
<1>. QED
  BY <1>1, <1>2, <1>3, <1>4, <1>5 DEF IndInv

\* Every step keeps the invariant.
LEMMA NextInv == IndInv /\ [Next]_vars => IndInv'
<1>. SUFFICES ASSUME IndInv, [Next]_vars PROVE IndInv'
  OBVIOUS
<1>1. CASE Next
  BY <1>1, NextTyped, NextCalls, NextEnded, NextRoom, NextIds, NextStates, NextActive, NextSums DEF IndInv
<1>2. CASE UNCHANGED vars
  <2>1. TypeOK' /\ Calls' /\ Ended' /\ Ids' /\ ActiveRowsLive'
    BY <1>2 DEF vars, IndInv, TypeOK, Calls, CallFits, Busy, Ended, Ids, ActiveRowsLive, Inserted
  <2>2. Room'
    BY <1>2 DEF vars, IndInv, Room, Pending
  <2>3. States'
    BY <1>2 DEF vars, IndInv, States, Fresh, Retired, Closing
  <2>4. Sums'
    BY <1>2 DEF vars, IndInv, Sums, TotalsExactBelowHalf, Summing, ToInt
  <2>. QED
    BY <2>1, <2>2, <2>3, <2>4 DEF IndInv
<1>. QED
  BY <1>1, <1>2

\* The inductive invariant of the statistics, for any sessions, pool threads and amounts.
THEOREM StatInvariant == Spec => []IndInv
  BY InitInv, NextInv, PTL DEF Spec

\* The variables keep their types: in particular an id is never one that AUTOINCREMENT
\* has not given, and what Select reads fits an int.
THEOREM StatTypes == Spec => []TypeOK
<1>1. IndInv => TypeOK
  BY DEF IndInv
<1>. QED
  BY <1>1, StatInvariant, PTL

\* The rows shown as active are those of the live sessions, and back: no interleaving of
\* creates, updates and closes, no refused statement and no restart leaves one behind or
\* gives a row to two sessions.
THEOREM RowsAreSessions == Spec => []RowsMatchSessions
<1>1. ASSUME IndInv PROVE LiveRowsActive
  <2>1. ASSUME NEW s \in Sessions, Closing(s) PROVE InCall(s)
    BY <2>1 DEF Closing, InCall, Busy
  <2>. QED
    BY <1>1, <2>1 DEF IndInv, States, Ids, LiveRowsActive
<1>2. IndInv => RowsMatchSessions
  BY <1>1 DEF IndInv, RowsMatchSessions
<1>. QED
  BY <1>2, StatInvariant, PTL

\* As long as no sum has passed 2^31, a row's byte columns hold the sum of the updates
\* that reported no error: the read and the write of a sum are two statements, and
\* nothing changes the sum in between: a row's updates come from the main thread alone, one
\* after the other.
THEOREM TotalsAreExact == Spec => []TotalsExactBelowHalf
<1>1. IndInv => TotalsExactBelowHalf
  BY DEF IndInv, Sums
<1>. QED
  BY <1>1, StatInvariant, PTL

--------------------------------------------------------------------------------
(* The refinement. *)

\* The first state is the empty book.
LEMMA LedgerInit == Init => Ledger!Init
  BY DEF Init, Ledger!Init

\* Every step is one of the ledger, or leaves it alone, where no sum passes 2^31.
LEMMA LedgerStep ==
    ASSUME MaxBytes <= Half, IndInv, [Next]_vars
    PROVE  [Ledger!Next]_rows
<1>. USE DEF IndInv
<1>1. ASSUME NEW t \in Threads, Insert(t)
      PROVE  Ledger!Next
  <2>1. lastId' \in Rows /\ rows[lastId'].state = "none"
    <3>1. lastId' = lastId + 1 /\ lastId + 1 \in Rows /\ lastId + 1 > lastId
      <4>1. lastId \in Nat
        BY DEF TypeOK
      <4>2. lastId + 1 \in Rows
        BY <1>1, InsertRoom
      <4>. QED
        BY <1>1, <4>1, <4>2 DEF Insert
    <3>. QED
      BY <3>1 DEF States
  <2>2. Ledger!Open(lastId')
    BY <1>1, <2>1 DEF Insert, Ledger!Open
  <2>. QED
    BY <2>1, <2>2 DEF Ledger!Next
<1>2. ASSUME NEW t \in Threads, UpdateBytes(t)
      PROVE  Ledger!Next
  <2>. DEFINE i == id[op[t].s]
              d == op[t].dest
              n == op[t].n
  <2>1. CallFits(t) /\ op[t].kind = "update" /\ op[t].pc = "write"
    BY <1>2 DEF UpdateBytes, Calls
  <2>2. i \in Rows /\ d \in Dests /\ n \in Amounts /\ op[t].s \in Sessions
    BY <2>1, RowOfCall DEF TypeOK, CallFits
  <2>3. rows[i].state = "active"
    <3>1. op[t].s \in Sessions /\ id[op[t].s] # 0
      BY <2>1, <2>2 DEF CallFits
    <3>2. ~Closing(op[t].s)
      <4>1. ASSUME NEW u \in Threads, op[u].kind = "close", op[u].pc = "unlock", op[u].s = op[t].s
            PROVE  FALSE
        BY <2>1, <4>1 DEF Calls, Busy
      <4>. QED
        BY <4>1 DEF Closing
    <3>. QED
      BY <3>1, <3>2 DEF States
  <2>4. acked[i][d] < Half
    <3>1. acked[i][d] + n <= MaxBytes
      BY <2>1 DEF Sums, Summing
    <3>2. acked[i][d] \in Nat /\ n \in Nat \ {0}
      BY <2>2, AmountsAssumption DEF TypeOK
    <3>. QED
      BY <3>1, <3>2, SizesAssumption
  <2>5. op[t].seen = rows[i].bytes[d]
    BY <1>2, <2>4, ReadIsRecorded
  <2>6. rows' = [rows EXCEPT ![i].bytes[d] = rows[i].bytes[d] + n]
    BY <1>2, <2>5 DEF UpdateBytes
  <2>7. Ledger!Add(i, d, n)
    BY <2>3, <2>6 DEF Ledger!Add
  <2>. QED
    BY <2>2, <2>7 DEF Ledger!Next
<1>3. ASSUME NEW t \in Threads, UpdateInactive(t)
      PROVE  Ledger!Next
  <2>. DEFINE i == id[op[t].s]
  <2>1. CallFits(t) /\ op[t].kind = "close" /\ op[t].pc = "write"
    BY <1>3 DEF UpdateInactive, Calls
  <2>2. i \in Rows /\ op[t].s \in Sessions /\ i # 0
    BY <2>1, RowOfCall DEF CallFits
  <2>3. ~Closing(op[t].s)
    <3>1. ASSUME NEW u \in Threads, op[u].kind = "close", op[u].pc = "unlock", op[u].s = op[t].s
          PROVE  FALSE
      BY <2>1, <3>1 DEF Calls, Busy
    <3>. QED
      BY <3>1 DEF Closing
  <2>4. rows[i].state = "active"
    BY <2>2, <2>3 DEF States
  <2>5. Ledger!Retire(i)
    BY <1>3, <2>4 DEF UpdateInactive, Ledger!Retire
  <2>. QED
    BY <2>2, <2>5 DEF Ledger!Next
<1>4. ASSUME Start
      PROVE  Ledger!Next
  BY <1>4 DEF Start, Deactivated, Ledger!Next, Ledger!RetireAll
<1>5. CASE Next
  <2>1. ASSUME NEW t \in Threads, CallBegins(t) PROVE rows' = rows
    BY <2>1 DEF CallBegins, Begins
  <2>2. ASSUME NEW t \in Threads, GetInstance(t) \/ Lock(t) \/ Select(t) PROVE rows' = rows
    BY <2>2 DEF GetInstance, Lock, Select
  <2>3. ASSUME NEW t \in Threads, Refused(t) \/ Return(t) PROVE rows' = rows
    BY <2>3 DEF Refused, Return
  <2>4. Aside \/ Stop => rows' = rows
    BY DEF Aside, ReaderBegins, ReaderEnds, CloseUnrecorded, Stop
  <2>. QED
    BY <1>1, <1>2, <1>3, <1>4, <1>5, <2>1, <2>2, <2>3, <2>4, StepCases
<1>. QED
  BY <1>5 DEF vars

\* The service implements the ledger of its connections: an entry is opened once, added
\* to only while it is active, never loses what was added, and is retired once.  The
\* hypothesis is that no sum passes 2^31, where selectSession reads another number.
THEOREM StatIsLedger ==
    ASSUME MaxBytes <= Half
    PROVE  Spec => ImplementsLedger
<1>1. IndInv /\ [Next]_vars => [Ledger!Next]_rows
  BY LedgerStep
<1>. QED
  BY <1>1, LedgerInit, StatInvariant, PTL DEF Spec, ImplementsLedger, Ledger!Spec
================================================================================
