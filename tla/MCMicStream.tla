---------------------------- MODULE MCMicStream ----------------------------
(* MicStream for TLC: a byte and a half to the millisecond; packets of     *)
(* exactly two milliseconds, and a buffer without notifications.           *)
EXTENDS MicStream

Requests == {[size |-> 6, count |-> 2], [size |-> 4, count |-> 0]}
=============================================================================
