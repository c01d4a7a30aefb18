------------------------------- MODULE Admission -------------------------------
(***************************************************************************)
(* What the max_sessions setting comes to, independent of threads, sockets *)
(* and reference counts: a set of connections in use, which never grows    *)
(* past the limit (0 is "no limit") by more than the number of slots that  *)
(* were given back without ever having been taken.  While extra stays 0    *)
(* that is the limit itself.  ProxyServer implements it.                   *)
(***************************************************************************)
EXTENDS Naturals, FiniteSets

CONSTANTS
    Sessions,       \* the connections there can be
    MaxSessions     \* the limit, 0 for none

VARIABLES
    inUse,          \* the connections being handled
    extra           \* slots given back in excess

Init == inUse = {} /\ extra = 0

Admit(s) ==
    /\ s \notin inUse
    /\ MaxSessions = 0 \/ Cardinality(inUse) < MaxSessions + extra
    /\ inUse' = inUse \cup {s} /\ UNCHANGED extra

Release(s) ==
    /\ s \in inUse
    /\ inUse' = inUse \ {s} /\ UNCHANGED extra

\* A slot comes back that nobody held.
Overdraw == extra' = extra + 1 /\ UNCHANGED inUse

Next == Overdraw \/ \E s \in Sessions : Admit(s) \/ Release(s)

Spec == Init /\ [][Next]_<<inUse, extra>>
================================================================================
