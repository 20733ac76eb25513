------------------------------- MODULE AtChannel -------------------------------
(***************************************************************************)
(* What the driver promises to the callers that share it, without saying   *)
(* how answers are recognised: one request is outstanding at a time, a     *)
(* request made meanwhile is refused and changes nothing for its owner,    *)
(* and the owner gets its verdict exactly when the channel becomes free.   *)
(***************************************************************************)
CONSTANTS
  Callers,   \* one reply object each
  Nobody,
  Verdicts   \* what an outstanding request can end with

VARIABLES
  owner,     \* whose request is outstanding
  verdict,   \* what each caller reads in its reply
  announced  \* has the outstanding request been answered OK ahead of its end?

vars == <<owner, verdict, announced>>

Init ==
  /\ owner = Nobody
  /\ verdict = [c \in Callers |-> "NULL"]
  /\ announced = FALSE

Free == owner = Nobody

Accept(c) ==
  /\ Free
  /\ owner' = c
  /\ verdict' = [verdict EXCEPT ![c] = "NULL"]
  /\ announced' = FALSE

Refuse(c) ==
  /\ ~Free /\ c # owner
  /\ verdict' = [verdict EXCEPT ![c] = "BUSY"]
  /\ UNCHANGED <<owner, announced>>

\* Some requests are answered OK first and end with the data that follows.
Announce ==
  /\ ~Free /\ ~announced
  /\ verdict' = [verdict EXCEPT ![owner] = "OK"]
  /\ announced' = TRUE
  /\ UNCHANGED owner

Conclude ==
  /\ ~Free
  /\ owner' = Nobody
  /\ \E v \in Verdicts : verdict' = [verdict EXCEPT ![owner] = v]
  /\ announced' = FALSE

\* A request made from inside a notification is rejected on the spot.
Bounce(c) ==
  /\ Free
  /\ verdict' = [verdict EXCEPT ![c] = "ERROR"]
  /\ UNCHANGED <<owner, announced>>

Next ==
  \/ \E c \in Callers : Accept(c) \/ Refuse(c) \/ Bounce(c)
  \/ Announce
  \/ Conclude

Spec == Init /\ [][Next]_vars

\* An outstanding request does not stay outstanding.
FairSpec == Spec /\ WF_vars(Conclude)
=============================================================================
