--------------------------- MODULE ProxyServerProofs ---------------------------
(***************************************************************************)
(* Theorems about ProxyServer, for every number of session objects, every   *)
(* limit and every number of pool threads.                                  *)
(*                                                                          *)
(* The counter is exact only because every object goes through close() once *)
(* and only after it was counted.  That rests on who holds an object when,  *)
(* which Control states; CounterExact and the limit follow from it.  What    *)
(* close() leaves behind, and how the relay's two directions are paired, is *)
(* Life, which rests on Control alone.                                      *)
(***************************************************************************)
EXTENDS ProxyServer, FiniteSetTheorems, TLAPS

\* The phases in which a read of the session can be armed, and close() under way.
RelayPhases == {"armed", "checked", "leaving", "left"}
MidClose == {"sockets", "record", "count"}

Typed ==
    /\ sessions \in Int
    /\ mainpc \in MainPcs
    /\ cur \in Sessions \cup {None}
    /\ frame \in Sides \cup {"accept"}
    /\ phase \in [Sessions -> Phases]
    /\ closing \in [Sessions -> ClosingSteps]
    /\ isOpen \in [Sessions -> SUBSET Sides]
    /\ read \in [Sessions -> [Sides -> ReadStates]]
    /\ row \in [Sessions -> {"none", "active", "inactive"}]
    /\ deficit \in 0 .. MaxAcceptErrors

\* What the main thread holds at each step: a live object, past its accept.
MainHolds ==
    /\ mainpc = "poll" => cur = None
    /\ mainpc \notin {"poll", "accept"} => cur \in Sessions
    /\ cur \in Sessions => phase[cur] \notin {"free", "accepting", "destroying"}
    /\ mainpc \in {"write", "close"} => phase[cur] \in RelayPhases
    /\ mainpc = "destroy" => phase[cur] \in {"left", "failed"} /\ ~ReadArmed(cur)

\* An armed read keeps its object alive.
ReadsHeld == \A s \in Sessions : ReadArmed(s) => phase[s] \in RelayPhases

\* close() is under way on s exactly while some one thread runs it.
ClosingOwned == \A s \in Sessions : closing[s] \in MidClose <=> Closes(s)

\* An object is open until it is accepted; one whose accept failed is held by the
\* main thread until the destructor has run, and has not been counted off yet.
AcceptHeld ==
    \A s \in Sessions :
        /\ phase[s] = "accepting" => closing[s] = "open"
        /\ phase[s] = "failed" => /\ cur = s /\ mainpc \in {"accept", "return", "destroy"}
                                  /\ mainpc # "destroy" => closing[s] = "open"
                                  /\ deficit < MaxAcceptErrors

Control == Typed /\ MainHolds /\ ReadsHeld /\ ClosingOwned /\ AcceptHeld

\* The counter keeps below the limit outside start_accept, and never passes it.
Limit == MaxSessions > 0 => /\ sessions <= MaxSessions
                            /\ mainpc # "accept" => sessions < MaxSessions

IndInv == Control /\ CounterExact /\ Limit
--------------------------------------------------------------------------------
USE SessionsAssumption, LimitAssumption, BoundAssumption, DbAssumption

\* The parts of Control hold initially and are kept by every step.
LEMMA ControlInit == Init => Control
  BY DEF Init, Control, Typed, MainHolds, ReadsHeld, ClosingOwned, AcceptHeld, MainPcs,
         Phases, ClosingSteps, ReadStates, Sides, ReadArmed, Closes, MainCloses, MidClose

\* Every action keeps Control.
LEMMA ControlNext == Control /\ [Next]_vars => Control'
  <1> SUFFICES ASSUME Control, [Next]_vars PROVE Control'
    OBVIOUS
  <1> USE DEF Control, Typed, MainHolds, ReadsHeld, ClosingOwned, AcceptHeld, MainPcs,
         Phases, ClosingSteps, ReadStates, Sides, ReadArmed, Closes, MainCloses, MidClose,
         RelayPhases, mainVars
  <1>1. ASSUME NEW n \in Sessions, StartAccept(n) PROVE Control'
    BY <1>1 DEF StartAccept
  <1>2. CASE HandlerReturns
    BY <1>2 DEF HandlerReturns
  <1>3. ASSUME NEW s \in Sessions, CloseSockets(s) PROVE Control'
    BY <1>3 DEF CloseSockets
  <1>4. ASSUME NEW s \in Sessions, CloseRecord(s) PROVE Control'
    BY <1>4, SMTT(30) DEF CloseRecord
  <1>5. ASSUME NEW s \in Sessions, HandlerCloseEnds(s) PROVE Control'
    BY <1>5 DEF HandlerCloseEnds, Uncount
  <1>6. ASSUME NEW s \in Sessions, MainDestroyEnds(s) PROVE Control'
    BY <1>6 DEF MainDestroyEnds, Uncount
  <1>7. ASSUME NEW s \in Sessions, PoolDestroyEnds(s) PROVE Control'
    BY <1>7 DEF PoolDestroyEnds, Uncount
  <1>8. CASE WriteOk
    <2>1. cur \in Sessions /\ phase[cur] \in RelayPhases
      BY <1>8 DEF WriteOk
    <2>2. CASE frame \in isOpen[cur]
      <3>1. frame \in Sides
        BY <2>1, <2>2
      <3>2. /\ read' = [read EXCEPT ![cur][frame] = "pending"]
            /\ mainpc' = "poll" /\ cur' = None /\ frame' = "accept"
            /\ UNCHANGED <<sessions, phase, closing, isOpen, row, deficit>>
        BY <1>8, <2>2 DEF WriteOk
      <3>3. Typed'
        BY <2>1, <3>1, <3>2
      <3>4. ReadsHeld'
        BY <2>1, <3>1, <3>2
      <3>5. MainHolds' /\ ClosingOwned' /\ AcceptHeld'
        BY <1>8, <3>2, SessionsAssumption DEF WriteOk
      <3> QED
        BY <3>3, <3>4, <3>5
    <2>3. CASE frame \notin isOpen[cur]
      BY <1>8, <2>3 DEF WriteOk
    <2> QED
      BY <2>2, <2>3
  <1>9. CASE WriteFails
    BY <1>9 DEF WriteFails
  <1>10. ASSUME NEW s \in Sessions, HandleAcceptOk(s) PROVE Control'
    BY <1>10 DEF HandleAcceptOk
  <1>11. ASSUME NEW s \in Sessions, HandleAcceptError(s) PROVE Control'
    BY <1>11 DEF HandleAcceptError
  <1>12. ASSUME NEW s \in Sessions, NEW d \in Sides, Handle(s, d) PROVE Control'
    BY <1>12, SMTT(30) DEF Handle
  <1>13. ASSUME NEW s \in Sessions, NEW d \in Sides, NEW result \in {"data", "failed"},
                ReadCompletes(s, d, result)
         PROVE  Control'
    BY <1>13 DEF ReadCompletes
  <1>14. ASSUME NEW s \in Sessions, PoolBegin(s) PROVE Control'
    BY <1>14 DEF PoolBegin
  <1>15. ASSUME NEW s \in Sessions, HandshakeFails(s) PROVE Control'
    <2>1. isOpen[s] \cup {"server"} \in SUBSET Sides
      OBVIOUS
    <2>2. isOpen' \in [Sessions -> SUBSET Sides]
      <3> HIDE DEF Sides
      <3> QED
        BY <1>15, <2>1 DEF HandshakeFails
    <2>3. /\ phase[s] = "handshake" /\ phase' = [phase EXCEPT ![s] = "leaving"]
          /\ UNCHANGED <<sessions, mainVars, closing, read, row, deficit>>
      BY <1>15 DEF HandshakeFails
    <2> QED
      BY <2>2, <2>3
  <1>16. ASSUME NEW s \in Sessions, HandshakeSucceeds(s) PROVE Control'
    BY <1>16 DEF HandshakeSucceeds
  <1>17. ASSUME NEW s \in Sessions, StartThrows(s) PROVE Control'
    BY <1>17 DEF StartThrows
  <1>18. ASSUME NEW s \in Sessions, ClientRead(s) PROVE Control'
    BY <1>18 DEF ClientRead
  <1>19. ASSUME NEW s \in Sessions, ServerReadCheck(s) PROVE Control'
    BY <1>19 DEF ServerReadCheck
  <1>20. ASSUME NEW s \in Sessions, ServerReadArm(s) PROVE Control'
    BY <1>20 DEF ServerReadArm
  <1>21. ASSUME NEW s \in Sessions, Leave(s) PROVE Control'
    BY <1>21 DEF Leave
  <1>22. CASE UNCHANGED vars
    BY <1>22 DEF vars
  <1> HIDE DEF Control, Typed, MainHolds, ReadsHeld, ClosingOwned, AcceptHeld, MainPcs,
         Phases, ClosingSteps, ReadStates, ReadArmed, Closes, MainCloses, MidClose,
         RelayPhases, mainVars
  <1> QED
    BY <1>1, <1>2, <1>3, <1>4, <1>5, <1>6, <1>7, <1>8, <1>9, <1>10, <1>11, <1>12, <1>13,
       <1>14, <1>15, <1>16, <1>17, <1>18, <1>19, <1>20, <1>21, <1>22
       DEF Next, MainStep, PoolStep, HandshakeEnds, Spin
--------------------------------------------------------------------------------
(* What a step does to the connections counted, and to the counter. *)

Admits(s) ==
    /\ s \notin Counted /\ Counted' = Counted \cup {s}
    /\ sessions' = sessions + 1 /\ deficit' = deficit
    /\ mainpc = "poll" /\ mainpc' = "accept"

Releases(s) ==
    /\ s \in Counted /\ Counted' = Counted \ {s}
    /\ sessions' = sessions - 1 /\ deficit' = deficit

KeepsCount ==
    /\ Counted' = Counted
    /\ sessions' + deficit' = sessions + deficit /\ sessions' <= sessions
    /\ deficit' = deficit \/ deficit' = deficit + 1

\* The main thread gets out of start_accept below the limit only.
PassesBelowLimit == mainpc = "accept" /\ mainpc' # "accept" => ~AtLimit

StepCounts ==
    /\ KeepsCount \/ \E s \in Sessions : Admits(s) \/ Releases(s)
    /\ PassesBelowLimit

\* The last step of close() gives a slot back, or raises the deficit instead.
LEMMA UncountCounts ==
  ASSUME Control, NEW s \in Sessions, Uncount(s), phase[s] \notin {"free", "accepting"},
         phase' = [phase EXCEPT ![s] = "free"] \/ phase' = phase
  PROVE  KeepsCount \/ Releases(s)
  <1> USE DEF Control, Typed, Uncount, Counted, KeepsCount, Releases, Phases, ClosingSteps
  <1>1. CASE phase[s] = "failed"
    BY <1>1
  <1>2. CASE phase[s] # "failed"
    BY <1>2
  <1> QED
    BY <1>1, <1>2

\* Every step counts a connection in, counts one off, or leaves the count alone.
LEMMA EveryStepCounts == Control /\ [Next]_vars => StepCounts
  <1> SUFFICES ASSUME Control, [Next]_vars PROVE StepCounts
    OBVIOUS
  <1> USE DEF Control, Typed, StepCounts, PassesBelowLimit
  <1>1. ASSUME NEW n \in Sessions, StartAccept(n) PROVE StepCounts
    BY <1>1 DEF StartAccept, KeepsCount, Counted, Phases
  <1>2. CASE HandlerReturns
    <2>1. cur \in Sessions /\ closing[cur] \notin MidClose
      BY <1>2 DEF HandlerReturns, MainHolds, ClosingOwned, Closes, MainCloses
    <2> QED
      BY <1>2, <2>1 DEF HandlerReturns, KeepsCount, Counted, Phases, ClosingSteps, MidClose
  <1>3. ASSUME NEW s \in Sessions, CloseSockets(s) PROVE StepCounts
    BY <1>3 DEF CloseSockets, KeepsCount, Counted, mainVars
  <1>4. ASSUME NEW s \in Sessions, CloseRecord(s) PROVE StepCounts
    BY <1>4 DEF CloseRecord, KeepsCount, Counted, mainVars
  <1>5. ASSUME NEW s \in Sessions, HandlerCloseEnds(s) PROVE StepCounts
    <2>1. phase[s] \in RelayPhases
      BY <1>5 DEF HandlerCloseEnds, MainHolds
    <2> QED
      BY <1>5, <2>1, UncountCounts
         DEF HandlerCloseEnds, Uncount, RelayPhases
  <1>6. ASSUME NEW s \in Sessions, MainDestroyEnds(s) PROVE StepCounts
    <2>1. phase[s] \in {"left", "failed"}
      BY <1>6 DEF MainDestroyEnds, MainHolds
    <2> QED
      BY <1>6, <2>1, UncountCounts
         DEF MainDestroyEnds, Uncount
  <1>7. ASSUME NEW s \in Sessions, PoolDestroyEnds(s) PROVE StepCounts
    BY <1>7, UncountCounts DEF PoolDestroyEnds, Uncount, mainVars
  <1>8. CASE WriteOk
    BY <1>8 DEF WriteOk, KeepsCount, Counted
  <1>9. CASE WriteFails
    <2>1. cur \in Sessions
      BY <1>9 DEF WriteFails, MainHolds
    <2> QED
      BY <1>9, <2>1 DEF WriteFails, KeepsCount, Counted
  <1>10. ASSUME NEW s \in Sessions, HandleAcceptOk(s) PROVE StepCounts
    <2>1. closing[s] = "open"
      BY <1>10 DEF HandleAcceptOk, AcceptHeld
    <2>2. Admits(s)
      BY <1>10, <2>1 DEF HandleAcceptOk, Admits, Counted
    <2> QED
      BY <2>2 DEF Admits
  <1>11. ASSUME NEW s \in Sessions, HandleAcceptError(s) PROVE StepCounts
    BY <1>11 DEF HandleAcceptError, KeepsCount, Counted
  <1>12. ASSUME NEW s \in Sessions, NEW d \in Sides, Handle(s, d) PROVE StepCounts
    BY <1>12 DEF Handle, KeepsCount, Counted
  <1>13. ASSUME NEW s \in Sessions, NEW d \in Sides, NEW result \in {"data", "failed"},
                ReadCompletes(s, d, result)
         PROVE  StepCounts
    BY <1>13 DEF ReadCompletes, KeepsCount, Counted, mainVars
  <1>14. ASSUME NEW s \in Sessions, PoolBegin(s) PROVE StepCounts
    BY <1>14 DEF PoolBegin, KeepsCount, Counted, mainVars
  <1>15. ASSUME NEW s \in Sessions, HandshakeFails(s) PROVE StepCounts
    BY <1>15 DEF HandshakeFails, KeepsCount, Counted, mainVars
  <1>16. ASSUME NEW s \in Sessions, HandshakeSucceeds(s) PROVE StepCounts
    BY <1>16 DEF HandshakeSucceeds, KeepsCount, Counted, mainVars
  <1>17. ASSUME NEW s \in Sessions, StartThrows(s) PROVE StepCounts
    BY <1>17 DEF StartThrows, KeepsCount, Counted, mainVars
  <1>18. ASSUME NEW s \in Sessions, ClientRead(s) PROVE StepCounts
    BY <1>18 DEF ClientRead, KeepsCount, Counted, mainVars
  <1>19. ASSUME NEW s \in Sessions, ServerReadCheck(s) PROVE StepCounts
    BY <1>19 DEF ServerReadCheck, KeepsCount, Counted, mainVars
  <1>20. ASSUME NEW s \in Sessions, ServerReadArm(s) PROVE StepCounts
    BY <1>20 DEF ServerReadArm, KeepsCount, Counted, mainVars
  <1>21. ASSUME NEW s \in Sessions, Leave(s) PROVE StepCounts
    <2>1. closing[s] \in {"open", "closed"} \/ cur = s
      BY <1>21 DEF Leave, ClosingOwned, Closes, MainCloses, MidClose, ClosingSteps
    <2> QED
      BY <1>21, <2>1 DEF Leave, KeepsCount, Counted, mainVars
  <1>22. CASE UNCHANGED vars
    BY <1>22 DEF vars, KeepsCount, Counted
  <1> QED
    BY <1>1, <1>2, <1>3, <1>4, <1>5, <1>6, <1>7, <1>8, <1>9, <1>10, <1>11, <1>12, <1>13,
       <1>14, <1>15, <1>16, <1>17, <1>18, <1>19, <1>20, <1>21, <1>22
       DEF Next, MainStep, PoolStep, HandshakeEnds, Spin
--------------------------------------------------------------------------------
(* The counter and the limit. *)

\* The counted connections are finitely many, at most as many as there are objects.
LEMMA CountedFinite ==
    /\ IsFiniteSet(Counted)
    /\ Cardinality(Counted) \in Nat /\ Cardinality(Sessions) \in Nat
    /\ Cardinality(Counted) <= Cardinality(Sessions)
  BY FS_Subset, FS_CardinalityType DEF Counted

\* The whole invariant holds initially.
LEMMA IndInvInit == Init => IndInv
  <1> SUFFICES ASSUME Init PROVE IndInv
    OBVIOUS
  <1>1. Counted = {}
    BY DEF Init, Counted
  <1>2. CounterExact
    BY <1>1, FS_EmptySet DEF Init, CounterExact
  <1>3. Limit
    BY DEF Init, Limit
  <1> QED
    BY <1>2, <1>3, ControlInit DEF IndInv

\* The whole invariant is kept by every step: the cardinality of Counted follows the
\* counter, and a connection is counted in only when the wait has been passed.
LEMMA IndInvNext == IndInv /\ [Next]_vars => IndInv'
  <1> SUFFICES ASSUME IndInv, [Next]_vars PROVE IndInv'
    OBVIOUS
  <1>1. Control /\ Control'
    BY ControlNext DEF IndInv
  <1>2. StepCounts
    BY EveryStepCounts DEF IndInv
  <1>3. /\ sessions \in Int /\ sessions' \in Int
        /\ deficit \in Int /\ deficit' \in Int
    BY <1>1 DEF Control, Typed
  <1>4. CounterExact'
    <2>1. CASE KeepsCount
      BY <1>3, <2>1, CountedFinite DEF KeepsCount, IndInv, CounterExact
    <2>2. ASSUME NEW s \in Sessions, Admits(s) PROVE CounterExact'
      <3>1. Cardinality(Counted \cup {s}) = Cardinality(Counted) + 1
        BY <2>2, CountedFinite, FS_AddElement DEF Admits
      <3> QED
        BY <1>3, <2>2, <3>1, CountedFinite DEF Admits, IndInv, CounterExact
    <2>3. ASSUME NEW s \in Sessions, Releases(s) PROVE CounterExact'
      <3>1. Cardinality(Counted \ {s}) = Cardinality(Counted) - 1
        BY <2>3, CountedFinite, FS_RemoveElement DEF Releases
      <3> QED
        BY <1>3, <2>3, <3>1, CountedFinite DEF Releases, IndInv, CounterExact
    <2> QED
      BY <1>2, <2>1, <2>2, <2>3 DEF StepCounts
  <1>5. Limit'
    <2> SUFFICES ASSUME MaxSessions > 0
                 PROVE  /\ sessions' <= MaxSessions
                        /\ mainpc' # "accept" => sessions' < MaxSessions
      BY DEF Limit
    <2>1. /\ sessions <= MaxSessions
          /\ mainpc # "accept" => sessions < MaxSessions
      BY DEF IndInv, Limit
    <2>2. mainpc' # "accept" => sessions < MaxSessions
      BY <1>2, <1>3, <2>1 DEF StepCounts, PassesBelowLimit, AtLimit, Admits
    <2>3. MaxSessions \in Int
      BY LimitAssumption
    <2>4. CASE KeepsCount
      BY <1>3, <2>1, <2>2, <2>3, <2>4 DEF KeepsCount
    <2>5. ASSUME NEW s \in Sessions, Admits(s)
          PROVE  sessions' <= MaxSessions /\ mainpc' = "accept"
      BY <1>3, <2>1, <2>3, <2>5 DEF Admits
    <2>6. ASSUME NEW s \in Sessions, Releases(s)
          PROVE  sessions' < MaxSessions
      BY <1>3, <2>1, <2>3, <2>6 DEF Releases
    <2> QED
      BY <1>2, <1>3, <2>3, <2>4, <2>5, <2>6 DEF StepCounts
  <1> QED
    BY <1>1, <1>4, <1>5 DEF IndInv

\* The inductive invariant is an invariant of the specification.
THEOREM Invariant == Spec => []IndInv
  BY IndInvInit, IndInvNext, PTL DEF Spec

\* Every reachable state is well typed, with the counter between the number of failed
\* accepts below zero and the number of session objects above.
THEOREM TypeCorrect == Spec => []TypeOK
  <1>1. IndInv => TypeOK
    <2> SUFFICES ASSUME IndInv PROVE TypeOK
      OBVIOUS
    <2>1. Typed /\ CounterExact
      BY DEF IndInv, Control
    <2>2. sessions \in -MaxAcceptErrors .. Cardinality(Sessions)
      BY <2>1, CountedFinite DEF Typed, CounterExact
    <2> QED
      BY <2>1, <2>2 DEF Typed, TypeOK
  <1> QED
    BY <1>1, Invariant, PTL

\* The session counter equals the number of connections being handled less the number
\* of released failed accepts, whatever interleaving of handlers and destructors.
THEOREM CounterIsExact == Spec => []CounterExact
  <1>1. IndInv => CounterExact
    BY DEF IndInv
  <1> QED
    BY <1>1, Invariant, PTL

\* The connections handled never pass max_sessions by more than the failed accepts.
THEOREM LimitUpToDeficit == Spec => []LimitWithDeficit
  <1>1. IndInv => LimitWithDeficit
    BY CountedFinite DEF IndInv, Control, Typed, CounterExact, Limit, LimitWithDeficit
  <1> QED
    BY <1>1, Invariant, PTL

\* While no accept fails, max_sessions bounds the connections handled at a time.
THEOREM LimitIsHonoured == MaxAcceptErrors = 0 => (Spec => []LimitHonoured)
  <1> SUFFICES ASSUME MaxAcceptErrors = 0 PROVE Spec => []LimitHonoured
    OBVIOUS
  <1>1. IndInv => LimitHonoured
    BY CountedFinite DEF IndInv, Control, Typed, CounterExact, Limit, LimitHonoured
  <1> QED
    BY <1>1, Invariant, PTL
--------------------------------------------------------------------------------
(* The life of a session: what close() has done at each of its steps, how the two *)
(* directions of the relay are paired, and the pending accept.                     *)

\* An object is closed exactly when it is free or later, and not before start() is past
\* its handshake; the sockets are closed before the record, the record before the slot.
CloseInOrder ==
    \A s \in Sessions :
        /\ phase[s] = "free" => closing[s] = "closed"
        /\ phase[s] \in {"queued", "handshake", "ready"} => closing[s] = "open"
        /\ closing[s] \in {"record", "count", "closed"} => isOpen[s] = {}
        /\ closing[s] \in {"count", "closed"} => (row[s] = "active" => DbMayFail)

\* A relay handler either writes or has made sure that its session is being closed.
HandlerFrame ==
    /\ mainpc \in {"poll", "accept", "destroy"} => frame = "accept"
    /\ mainpc = "write" => frame \in Sides
    /\ mainpc = "return" /\ frame # "accept" => closing[cur] # "open"

\* From client_read() on an open session has the client's direction; after start() it
\* has both, or, when start() failed, none and the accept's handler as its last holder.
RelayPaired ==
    \A s \in Sessions : closing[s] = "open" =>
        /\ phase[s] \in {"ready", "armed", "checked"} => isOpen[s] = Sides
        /\ phase[s] \in {"armed", "checked"} => Relayed(s, "client")
        /\ phase[s] \in {"leaving", "left"} =>
              \/ isOpen[s] = Sides /\ \A d \in Sides : Relayed(s, d)
              \/ /\ \A d \in Sides : ~Relayed(s, d)
                 /\ phase[s] = "left" => cur = s /\ frame = "accept"

\* No accept is pending inside start_accept, and exactly one outside.
OneAccept ==
    IF mainpc = "accept"
    THEN \A s \in Sessions : phase[s] # "accepting"
    ELSE \E s \in Sessions : /\ phase[s] = "accepting"
                             /\ \A t \in Sessions : phase[t] = "accepting" => t = s

Life == CloseInOrder /\ HandlerFrame /\ RelayPaired /\ OneAccept

\* The parts of Life hold initially.
LEMMA LifeInit == Init => Life
  BY DEF Init, Life, CloseInOrder, HandlerFrame, RelayPaired, OneAccept, Sides

\* Every action keeps Life, given who holds what (Control).
LEMMA LifeNext == Control /\ Life /\ [Next]_vars => Life'
  <1> SUFFICES ASSUME Control, Life, [Next]_vars PROVE Life'
    OBVIOUS
  <1> USE DEF Control, Typed, MainHolds, ReadsHeld, ClosingOwned, AcceptHeld, MainPcs,
         Phases, ClosingSteps, ReadStates, Sides, ReadArmed, Closes, MainCloses, MidClose,
         RelayPhases, mainVars, Life, CloseInOrder, HandlerFrame, RelayPaired, OneAccept, Relayed
  <1>1. ASSUME NEW n \in Sessions, StartAccept(n) PROVE Life'
    BY <1>1 DEF StartAccept
  <1>2. CASE HandlerReturns
    BY <1>2 DEF HandlerReturns
  <1>3. ASSUME NEW s \in Sessions, Closes(s), CloseSockets(s) PROVE Life'
    BY <1>3 DEF CloseSockets
  <1>4. ASSUME NEW s \in Sessions, CloseRecord(s) PROVE Life'
    BY <1>4 DEF CloseRecord
  <1>5. ASSUME NEW s \in Sessions, HandlerCloseEnds(s) PROVE Life'
    BY <1>5 DEF HandlerCloseEnds, Uncount
  <1>6. ASSUME NEW s \in Sessions, MainDestroyEnds(s) PROVE Life'
    BY <1>6 DEF MainDestroyEnds, Uncount
  <1>7. ASSUME NEW s \in Sessions, PoolDestroyEnds(s) PROVE Life'
    BY <1>7 DEF PoolDestroyEnds, Uncount
  <1>8. CASE WriteOk
    BY <1>8 DEF WriteOk
  <1>9. CASE WriteFails
    BY <1>9 DEF WriteFails
  <1>10. ASSUME NEW s \in Sessions, HandleAcceptOk(s) PROVE Life'
    BY <1>10 DEF HandleAcceptOk
  <1>11. ASSUME NEW s \in Sessions, HandleAcceptError(s) PROVE Life'
    BY <1>11 DEF HandleAcceptError
  <1>12. ASSUME NEW s \in Sessions, NEW d \in Sides, Handle(s, d) PROVE Life'
    BY <1>12 DEF Handle
  <1>13. ASSUME NEW s \in Sessions, NEW d \in Sides, NEW result \in {"data", "failed"},
                ReadCompletes(s, d, result)
         PROVE  Life'
    BY <1>13 DEF ReadCompletes
  <1>14. ASSUME NEW s \in Sessions, PoolBegin(s) PROVE Life'
    BY <1>14 DEF PoolBegin
  <1>15. ASSUME NEW s \in Sessions, HandshakeFails(s) PROVE Life'
    BY <1>15 DEF HandshakeFails
  <1>16. ASSUME NEW s \in Sessions, HandshakeSucceeds(s) PROVE Life'
    BY <1>16 DEF HandshakeSucceeds
  <1>17. ASSUME NEW s \in Sessions, StartThrows(s) PROVE Life'
    BY <1>17 DEF StartThrows
  <1>18. ASSUME NEW s \in Sessions, ClientRead(s) PROVE Life'
    BY <1>18 DEF ClientRead
  <1>19. ASSUME NEW s \in Sessions, ServerReadCheck(s) PROVE Life'
    BY <1>19 DEF ServerReadCheck
  <1>20. ASSUME NEW s \in Sessions, ServerReadArm(s) PROVE Life'
    BY <1>20 DEF ServerReadArm
  <1>21. ASSUME NEW s \in Sessions, Leave(s) PROVE Life'
    BY <1>21 DEF Leave
  <1>22. CASE UNCHANGED vars
    BY <1>22 DEF vars
  <1>23. \A s \in Sessions : MainCloses(s) \/ phase[s] = "destroying" => Closes(s)
    OBVIOUS
  <1> HIDE DEF Control, Typed, MainHolds, ReadsHeld, ClosingOwned, AcceptHeld, MainPcs,
         Phases, ClosingSteps, ReadStates, ReadArmed, Closes, MainCloses, MidClose,
         RelayPhases, mainVars, Life, CloseInOrder, HandlerFrame, RelayPaired,
         OneAccept, Relayed
  <1> QED
    BY <1>1, <1>2, <1>3, <1>4, <1>5, <1>6, <1>7, <1>8, <1>9, <1>10, <1>11, <1>12, <1>13,
       <1>14, <1>15, <1>16, <1>17, <1>18, <1>19, <1>20, <1>21, <1>22, <1>23
       DEF Next, MainStep, PoolStep, HandshakeEnds, Spin

\* Life is an invariant of the specification.
THEOREM LifeInvariant == Spec => []Life
  <1>1. IndInv => Control
    BY DEF IndInv
  <1> QED
    BY <1>1, Invariant, LifeInit, LifeNext, PTL DEF Spec

\* A slot is given back only after the sockets are closed and the row is inactive: the
\* connection admitted into it never meets what is left of the old one.
THEOREM SlotsAreClean == Spec => []SlotAfterCleanup
  <1>1. Life => SlotAfterCleanup
    BY DEF Life, CloseInOrder, SlotAfterCleanup
  <1> QED
    BY <1>1, LifeInvariant, PTL

\* A destroyed session has no open socket, no read armed into its buffers, no handler
\* running on it and no active row, whichever thread's shared_ptr was the last.
THEOREM SessionsEndClean == Spec => []NothingSurvives
  <1>1. Life /\ IndInv => NothingSurvives
    <2> SUFFICES ASSUME Life, IndInv, NEW s \in Sessions, phase[s] = "free"
                 PROVE  /\ isOpen[s] = {} /\ ~ReadArmed(s) /\ cur # s
                        /\ row[s] = "active" => DbMayFail
      BY DEF NothingSurvives
    <2>1. isOpen[s] = {} /\ (row[s] = "active" => DbMayFail)
      BY DEF Life, CloseInOrder
    <2>2. ~ReadArmed(s)
      BY DEF IndInv, Control, ReadsHeld, RelayPhases
    <2>3. cur # s
      BY DEF IndInv, Control, MainHolds
    <2> QED
      BY <2>1, <2>2, <2>3
  <1> QED
    BY <1>1, LifeInvariant, Invariant, PTL

\* Outside start_accept exactly one accept is pending, after a failed one as well.
THEOREM AcceptsGoOn == Spec => []AcceptChain
  <1>1. Life => AcceptChain
    <2> SUFFICES ASSUME Life PROVE AcceptChain
      OBVIOUS
    <2> DEFINE Pending == {s \in Sessions : phase[s] = "accepting"}
    <2>1. CASE mainpc = "accept"
      <3>1. Pending = {}
        BY <2>1 DEF Life, OneAccept
      <3> QED
        BY <2>1, <3>1, FS_EmptySet DEF AcceptChain
    <2>2. CASE mainpc # "accept"
      <3>1. PICK s \in Sessions : Pending = {s}
        BY <2>2 DEF Life, OneAccept
      <3> QED
        BY <2>2, <3>1, FS_Singleton DEF AcceptChain
    <2> QED
      BY <2>1, <2>2
  <1> QED
    BY <1>1, LifeInvariant, PTL

\* Once start() is over, an open session is relayed in both directions or in none: no
\* error path of a handler or of start() leaves one half of a relay running.
THEOREM RelaysAreWhole == Spec => []NoHalfRelay
  <1>1. Life => NoHalfRelay
    BY DEF Life, RelayPaired, NoHalfRelay
  <1> QED
    BY <1>1, LifeInvariant, PTL
--------------------------------------------------------------------------------
(* The server implements the admission control of Admission. *)

\* Every step admits below the limit, releases, gives back a slot in excess, or stutters.
LEMMA StepRefines ==
  ASSUME IndInv, [Next]_vars
  PROVE  [Adm!Next]_<<Counted, deficit>>
  <1>1. StepCounts /\ Control
    BY EveryStepCounts DEF IndInv
  <1>2. sessions = Cardinality(Counted) - deficit /\ deficit \in Nat
    BY CountedFinite, <1>1 DEF IndInv, CounterExact, Control, Typed
  <1>3. ASSUME NEW s \in Sessions, Admits(s) PROVE Adm!Admit(s)
    <2>1. MaxSessions = 0 \/ Cardinality(Counted) < MaxSessions + deficit
      <3>1. Cardinality(Counted) \in Nat /\ MaxSessions \in Nat
        BY CountedFinite, LimitAssumption
      <3> QED
        BY <1>2, <1>3, <3>1 DEF Admits, IndInv, Limit
    <2>2. Adm!Cardinality(Counted) = Cardinality(Counted)
      BY DEF Adm!Cardinality, Cardinality
    <2> QED
      BY <1>3, <2>1, <2>2 DEF Admits, Adm!Admit
  <1>4. ASSUME NEW s \in Sessions, Releases(s) PROVE Adm!Release(s)
    BY <1>4 DEF Releases, Adm!Release
  <1>5. CASE KeepsCount
    BY <1>5 DEF KeepsCount, Adm!Next, Adm!Overdraw
  <1> QED
    BY <1>1, <1>3, <1>4, <1>5 DEF StepCounts, Adm!Next

\* The server implements Admission with the connections it handles as the set in use and
\* the released failed accepts as the slots in excess, for every limit, every number of
\* threads and every number of failed accepts.
THEOREM Refinement == Spec => ImplementsAdmission
  <1>1. Init => Adm!Init
    BY DEF Init, Counted, Adm!Init
  <1>2. IndInv /\ [Next]_vars => [Adm!Next]_<<Counted, deficit>>
    BY StepRefines
  <1> QED
    BY <1>1, <1>2, Invariant, PTL DEF Spec, ImplementsAdmission, Adm!Spec
================================================================================
