------------------------------- MODULE StatLedger -------------------------------
(***************************************************************************)
(* What the statistics promise, without threads, locks or statements: a     *)
(* book of connections.  An entry is opened once, added to while it is      *)
(* active, and retired; what was added stays.  StatDb implements it.        *)
(***************************************************************************)
EXTENDS Naturals

CONSTANTS Rows, Dests, Amounts

VARIABLE book       \* per entry: its state and the bytes added in each direction

Init == \A i \in Rows : book[i].state = "none" /\ \A d \in Dests : book[i].bytes[d] = 0

Open(i) ==
    /\ book[i].state = "none"
    /\ book' = [book EXCEPT ![i].state = "active"]

Add(i, d, n) ==
    /\ book[i].state = "active"
    /\ book' = [book EXCEPT ![i].bytes[d] = @ + n]

Retire(i) ==
    /\ book[i].state = "active"
    /\ book' = [book EXCEPT ![i].state = "inactive"]

\* The server starts: no entry of an earlier run is active any more.
RetireAll ==
    book' = [i \in Rows |->
                [book[i] EXCEPT !.state = IF @ = "active" THEN "inactive" ELSE @]]

Next ==
    \/ \E i \in Rows : Open(i) \/ Retire(i) \/ \E d \in Dests, n \in Amounts : Add(i, d, n)
    \/ RetireAll

Spec == Init /\ [][Next]_book
================================================================================
