------------------------------ MODULE MCHandshake ------------------------------
(* Handshake on a small instance. *)
EXTENDS Handshake

\* Ports and groups on either side of what the two conversions tell apart: no high byte,
\* a low byte below 16, one of two digits, and none.
SampleWords == {<<0, 5>>, <<0, 80>>, <<1, 2>>, <<31, 144>>, <<4, 0>>}
================================================================================
