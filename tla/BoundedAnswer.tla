--------------------------- MODULE BoundedAnswer ---------------------------
(***************************************************************************)
(* What one invocation of the capability handler promises its caller       *)
(* (packages/server/src/adapter.ts and docs/adapter.md), without saying    *)
(* how: the issuer is contacted at most once and never after the           *)
(* invocation was closed by its deadline or by a disconnect; a capability  *)
(* is granted only by an open invocation that contacted the issuer; and    *)
(* every invocation is answered, whatever its dependencies do.             *)
(***************************************************************************)
CONSTANT None

VARIABLES
    contacted,  \* the issuer has been contacted
    closed,     \* the deadline passed or the caller went away
    verdict,    \* None, or the answer that won the race
    answer      \* None, or the answer delivered

vars == <<contacted, closed, verdict, answer>>

Init ==
    /\ contacted = FALSE
    /\ closed = FALSE
    /\ verdict = None
    /\ answer = None

(* The single exchange with the issuer begins. *)
Contact ==
    /\ ~contacted /\ ~closed
    /\ verdict = None
    /\ contacted' = TRUE
    /\ UNCHANGED <<closed, verdict, answer>>

(* The exchange begins and fails at once. *)
ContactFails ==
    /\ ~contacted /\ ~closed
    /\ verdict = None
    /\ contacted' = TRUE
    /\ closed' = TRUE
    /\ verdict' = "denied"
    /\ UNCHANGED answer

(* The issuer's capability was accepted while the invocation was open. *)
Grant ==
    /\ contacted /\ ~closed
    /\ verdict = None
    /\ verdict' = "granted"
    /\ UNCHANGED <<contacted, closed, answer>>

(* Any failure, at any point. *)
Deny ==
    /\ verdict = None
    /\ verdict' = "denied"
    /\ UNCHANGED <<contacted, closed, answer>>

(* A denial that is delivered at once. *)
Refuse ==
    /\ verdict = None
    /\ verdict' = "denied"
    /\ answer' = "denied"
    /\ UNCHANGED <<contacted, closed>>

(* The deadline or a disconnect closes the invocation and denies it, unless *)
(* it was decided before.                                                   *)
Close ==
    /\ ~closed
    /\ closed' = TRUE
    /\ verdict' = IF verdict = None THEN "denied" ELSE verdict
    /\ UNCHANGED <<contacted, answer>>

Expire == verdict = None /\ Close

Deliver ==
    /\ verdict # None
    /\ answer = None
    /\ answer' = verdict
    /\ UNCHANGED <<contacted, closed, verdict>>

Next == Contact \/ ContactFails \/ Grant \/ Deny \/ Refuse \/ Close \/ Deliver

Spec == Init /\ [][Next]_vars

(* An undecided invocation expires, and a decided one is delivered. *)
FairSpec == Spec /\ WF_vars(Expire) /\ WF_vars(Deliver)
============================================================================
