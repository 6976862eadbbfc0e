---------------------------- MODULE FrameMailbox ----------------------------
(***************************************************************************)
(* What the frame exchange of the simulated hardware promises.  A camera   *)
(* that is open shows the placeholder or the latest published frame, and   *)
(* whoever takes the picture holds on to one whole frame that does not     *)
(* change in its hands, whatever is published, and even if the camera is   *)
(* closed, until it drops it.                                              *)
(***************************************************************************)
CONSTANTS Holder, Frame, Placeholder, Nothing

VARIABLES
  open,      \* pictures can be taken
  latest,    \* the frame published last since the camera was started
  held       \* the picture in the hands of each holder

mailboxVars == <<open, latest, held>>

MailboxTypeOK ==
  /\ open \in BOOLEAN
  /\ latest \in Frame \cup {Nothing}
  /\ held \in [Holder -> Frame \cup {Placeholder, Nothing}]

MailboxInit ==
  /\ open = FALSE
  /\ latest = Nothing
  /\ held = [h \in Holder |-> Nothing]

(* The camera starts or resumes showing pictures.                          *)
Open == ~open /\ open' = TRUE /\ UNCHANGED <<latest, held>>

(* It is paused: what was published last is kept.                          *)
Close == open /\ open' = FALSE /\ UNCHANGED <<latest, held>>

(* It is stopped: nobody can find what was published, but those who hold a *)
(* picture still do.                                                       *)
Forget == open' = FALSE /\ latest' = Nothing /\ UNCHANGED held

PublishFrame(f) == open /\ latest' = f /\ UNCHANGED <<open, held>>

Take(h) ==
  /\ open /\ held[h] = Nothing
  /\ \E picture \in {Placeholder, latest} \ {Nothing} :
       held' = [held EXCEPT ![h] = picture]
  /\ UNCHANGED <<open, latest>>

Drop(h) ==
  /\ held' = [held EXCEPT ![h] = Nothing]
  /\ UNCHANGED <<open, latest>>

MailboxNext ==
  \/ Open \/ Close \/ Forget
  \/ \E f \in Frame : PublishFrame(f)
  \/ \E h \in Holder : Take(h) \/ Drop(h)

MailboxSpec == MailboxInit /\ [][MailboxNext]_mailboxVars
=============================================================================
