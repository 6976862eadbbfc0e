----------------------------- MODULE MCProducer -----------------------------
(* Producer for TLC: every kind of source.                                 *)
EXTENDS Producer
=============================================================================
