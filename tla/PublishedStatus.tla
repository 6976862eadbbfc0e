-------------------------- MODULE PublishedStatus ---------------------------
(***************************************************************************)
(* What the status page of a producer promises its readers: the producer   *)
(* replaces a status as a whole, and a reader is given either the status   *)
(* of that moment or none.  A status is the number of its publication.     *)
(***************************************************************************)
EXTENDS Naturals

CONSTANTS Readers,
          Nothing     \* what a reader has that was given no status
VARIABLES status,     \* the status published last; 0: none was
          given       \* what each reader was given last

vars == <<status, given>>

Init == status = 0 /\ given = [r \in Readers |-> Nothing]

Publish == status' = status + 1 /\ UNCHANGED given

Read(r) == given' = [given EXCEPT ![r] = status] /\ UNCHANGED status

Refuse(r) == given' = [given EXCEPT ![r] = Nothing] /\ UNCHANGED status

Next == Publish \/ \E r \in Readers : Read(r) \/ Refuse(r)

Spec == Init /\ [][Next]_vars
=============================================================================
