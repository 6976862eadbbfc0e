---------------------------- MODULE MCStatusPage ----------------------------
(* StatusPage for TLC: two fields and two readers.                         *)
EXTENDS StatusPage, TLC

CONSTANTS f1, f2, r1, r2
TwoFields == {f1, f2}
TwoReaders == {r1, r2}
Interchangeable == Permutations(TwoFields) \cup Permutations(TwoReaders)
=============================================================================
