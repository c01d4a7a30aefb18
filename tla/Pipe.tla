---------------------------------- MODULE Pipe ----------------------------------
(***************************************************************************)
(* What a relay promises for each flow of bytes: the receiver gets the      *)
(* bytes the sender sent, in order, each once and none of another flow.     *)
(* The bytes of a flow are numbered from 1.  Relay implements it.           *)
(***************************************************************************)
EXTENDS Naturals, Sequences

CONSTANT Flows

VARIABLES
    sent,       \* per flow: how many bytes the sender has sent
    got         \* per flow: the bytes the receiver has got

Init == sent = [f \in Flows |-> 0] /\ got = [f \in Flows |-> <<>>]

Send(f) == sent' = [sent EXCEPT ![f] = @ + 1] /\ UNCHANGED got

Receive(f) ==
    /\ \E n \in Len(got[f]) + 1 .. sent[f] : got' = [got EXCEPT ![f] = [i \in 1 .. n |-> i]]
    /\ UNCHANGED sent

Next == \E f \in Flows : Send(f) \/ Receive(f)

Spec == Init /\ [][Next]_<<sent, got>>
================================================================================
