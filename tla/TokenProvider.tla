--------------------------- MODULE TokenProvider ---------------------------
(***************************************************************************)
(* One call of a page's token provider: the packaged one                   *)
(* (packages/browser/src/token-provider.ts), the v1 example                *)
(* (examples/v1-backend/transport.ts), which has the deadline but no page  *)
(* signal, or the opt-in example (examples/opt-in-backend/transport.ts),   *)
(* which has neither.                                                      *)
(*                                                                         *)
(* A call races exchange(), a coroutine, against `deadline', which the     *)
(* 25 s timer or the page's AbortSignal rejects.  The loser goes on: the   *)
(* fetch may answer at any later time, or never, and a body that abort     *)
(* cancelled reads like one that came to its end.                          *)
(***************************************************************************)
CONSTANT None  \* not one of Outcomes

VARIABLES
    provider,
    signal,     \* options.signal.aborted
    pc,         \* the await at which exchange() is suspended
    aborted,    \* controller.signal.aborted
    timer,
    listening,  \* the abort listener is on options.signal
    contacted,  \* fetch was called
    body,       \* the response's body
    winner,     \* None, or the outcome of the promise that won the race
    answer      \* None, or how the call settled

vars == <<provider, signal, pc, aborted, timer, listening, contacted, body, winner, answer>>
deadlineVars == <<provider, signal, aborted, timer, listening>>

Providers == {"packaged", "v1", "optIn"}
Outcomes == {"granted", "denied"}

TypeOK ==
    /\ provider \in Providers
    /\ signal \in BOOLEAN
    /\ pc \in {"idle", "fetch", "body", "done"}
    /\ aborted \in BOOLEAN
    /\ timer \in {"unset", "armed", "fired", "cleared"}
    /\ listening \in BOOLEAN
    /\ contacted \in BOOLEAN
    /\ body \in {"none", "reading", "cut", "cancelled", "ended"}
    /\ winner \in Outcomes \cup {None}
    /\ answer \in Outcomes \cup {None}

Init ==
    /\ provider \in Providers
    /\ signal \in BOOLEAN
    /\ pc = "idle"
    /\ aborted = FALSE
    /\ timer = "unset"
    /\ listening = FALSE
    /\ contacted = FALSE
    /\ body = "none"
    /\ winner = None
    /\ answer = None
----------------------------------------------------------------------------
(* Promise.race: the first of the two promises to settle decides. *)
Decide(outcome) == winner' = IF winner = None THEN outcome ELSE winner

(* abandonReader: a body that is being read is cancelled, which resolves   *)
(* the pending read as done.                                               *)
AbandonReader == body' = IF body = "reading" THEN "cut" ELSE body

Abort == aborted' = TRUE /\ AbandonReader /\ Decide("denied")

(* exchange() ends, with a value or by a throw. *)
Return(outcome) == pc' = "done" /\ Decide(outcome)

(* Where the call begins, an unfit page origin, a binding that is not one, *)
(* a CSRF source that fails or a body too long end it before any transport. *)
Refuse ==
    /\ pc = "idle"
    /\ Return("denied")
    /\ UNCHANGED <<deadlineVars, contacted, body, answer>>

Contact == pc' = "fetch" /\ contacted' = TRUE

(* The timer and the listener are set before the fetch; a page signal that *)
(* is aborted already ends the call without one.                           *)
BeginPackaged ==
    /\ provider = "packaged"
    /\ pc = "idle"
    /\ timer' = "armed"
    /\ listening' = TRUE
    /\ IF signal
       THEN aborted' = TRUE /\ Return("denied") /\ UNCHANGED contacted
       ELSE Contact /\ UNCHANGED <<aborted, winner>>
    /\ UNCHANGED <<provider, signal, body, answer>>

BeginV1 ==
    /\ provider = "v1"
    /\ pc = "idle"
    /\ timer' = "armed"
    /\ Contact
    /\ UNCHANGED <<provider, signal, aborted, listening, body, winner, answer>>

BeginOptIn ==
    /\ provider = "optIn"
    /\ pc = "idle"
    /\ Contact
    /\ UNCHANGED <<deadlineVars, body, winner, answer>>

(* fetch rejects: the network, a redirect, or the aborted controller. *)
FetchFails ==
    /\ pc = "fetch"
    /\ Return("denied")
    /\ UNCHANGED <<deadlineVars, contacted, body, answer>>

(* Mutant: no check between the fetch and the response. *)
ReadLateResponse ==
    /\ pc = "fetch" /\ aborted
    /\ pc' = "body" /\ body' = "reading"
    /\ UNCHANGED <<deadlineVars, contacted, winner, answer>>

(* A response that comes after the abort is cancelled. *)
LateResponse ==
    /\ pc = "fetch"
    /\ aborted
    /\ body' = "cancelled"
    /\ Return("denied")
    /\ UNCHANGED <<deadlineVars, contacted, answer>>

(* A wrong status or header cancels the body; a response may have none. *)
BadResponse ==
    /\ pc = "fetch"
    /\ ~aborted
    /\ body' \in {"none", "cancelled"}
    /\ Return("denied")
    /\ UNCHANGED <<deadlineVars, contacted, answer>>

GoodResponse ==
    /\ pc = "fetch"
    /\ ~aborted
    /\ pc' = "body"
    /\ body' = "reading"
    /\ UNCHANGED <<deadlineVars, contacted, winner, answer>>

(* Mutant: no check after the loop. *)
BodyEndsUnchecked ==
    /\ pc = "body"
    /\ body' = IF body = "reading" THEN "ended" ELSE body
    /\ pc' = "done" /\ winner' \in Outcomes
    /\ UNCHANGED <<deadlineVars, contacted, answer>>

(* The reader reports the end, of the body or of one that was cut: only    *)
(* the check that follows the loop tells.  What was read may not parse.    *)
BodyEnds ==
    /\ pc = "body"
    /\ body' = IF body = "reading" THEN "ended" ELSE body
    /\ \E outcome \in Outcomes :
          /\ aborted => outcome = "denied"
          /\ Return(outcome)
    /\ UNCHANGED <<deadlineVars, contacted, answer>>

(* The body breaks, or is longer than RESPONSE_LIMIT. *)
BodyFails ==
    /\ pc = "body"
    /\ body' = "cancelled"
    /\ Return("denied")
    /\ UNCHANGED <<deadlineVars, contacted, answer>>

(* Mutant: the deadline aborts, and waits for exchange() to notice. *)
DeadlineOnlyAborts ==
    /\ timer = "armed" /\ winner = None
    /\ timer' = "fired" /\ aborted' = TRUE /\ AbandonReader
    /\ UNCHANGED <<provider, signal, pc, listening, contacted, winner, answer>>

(* setTimeout(abort, DEADLINE_MS): no timer runs between a decided race    *)
(* and the finally block that clears it.                                   *)
DeadlineFires ==
    /\ timer = "armed"
    /\ winner = None
    /\ timer' = "fired"
    /\ Abort
    /\ UNCHANGED <<provider, signal, pc, listening, contacted, answer>>

(* The page aborts its signal, at any time. *)
PageAborts ==
    /\ ~signal
    /\ signal' = TRUE
    /\ IF listening THEN Abort ELSE UNCHANGED <<aborted, body, winner>>
    /\ UNCHANGED <<provider, pc, timer, listening, contacted, answer>>

(* The finally block, and the caller: every error is the same one. *)
Settle ==
    /\ winner # None
    /\ answer = None
    /\ answer' = winner
    /\ timer' = IF timer = "armed" THEN "cleared" ELSE timer
    /\ listening' = FALSE
    /\ UNCHANGED <<provider, signal, pc, aborted, contacted, body, winner>>
----------------------------------------------------------------------------
Exchange ==
    \/ FetchFails \/ LateResponse \/ BadResponse \/ GoodResponse
    \/ BodyEnds \/ BodyFails

V1Call == BeginV1 \/ (provider = "v1" /\ Exchange)
OptInCall == BeginOptIn \/ (provider = "optIn" /\ Exchange)
PackagedCall == BeginPackaged \/ (provider = "packaged" /\ Exchange)

Next ==
    \/ Refuse \/ PackagedCall \/ V1Call \/ OptInCall
    \/ DeadlineFires \/ PageAborts \/ Settle

Spec == Init /\ [][Next]_vars

Begin == Refuse \/ BeginPackaged \/ BeginV1 \/ BeginOptIn
----------------------------------------------------------------------------
(* A capability comes from a body read to its end: never from one that the *)
(* abort cut and that looks complete to the reader, nor from a call its    *)
(* deadline ended (token-provider.ts:132).                                 *)
GrantIsWhole == winner = "granted" => body = "ended" /\ timer # "fired"

(* A settled call reads nothing and waits for nothing: its timer and its   *)
(* listener on the page's signal are gone, the body it was reading is      *)
(* cancelled, and so is a response that comes later                        *)
(* (token-provider.ts:82-86, 104-107, 153-156).                            *)
NothingHeldAfterAnswer ==
    answer # None => body # "reading" /\ timer # "armed" /\ ~listening

(* What a call promises the loader: it contacts its backend once and only  *)
(* while it is open, is granted only while open, never changes its answer, *)
(* and is always answered.                                                 *)
Promise == INSTANCE BoundedAnswer WITH closed <- aborted, verdict <- winner
============================================================================
