--------------------------- MODULE OptInExchange ---------------------------
(***************************************************************************)
(* One request to the opt-in backend: its handler                          *)
(* (examples/opt-in-backend/handler.ts), the opt-in client it calls        *)
(* (packages/server/src/opt-in.ts), the request it builds and the          *)
(* confirmation it verifies (opt-in-protocol.ts, contracts/src/index.ts),  *)
(* and the exchange with the admission service, sealed after 8 s           *)
(* (opt-in-exchange.ts).                                                   *)
(*                                                                         *)
(* `now' is true time, which the service's clock shows and performance.now *)
(* follows; the server's wall clock, Date.now, shows now + offset and may  *)
(* be set at any moment.  A timer may be late: the event loop is busy.     *)
(***************************************************************************)
EXTENDS Integers

CONSTANTS
    None,
    SEAL_MS,         \* 8 s, after which the exchange is sealed
    ALLOWANCE_MS,    \* 5 s, between the clocks of server and service
    INTENT_MS,       \* 60 s, the life of an intent
    BUGDROP_MAX_CAPABILITY_TTL_MS,
    BUGDROP_CAPABILITY_CLOCK_SKEW_MS,
    Offsets,         \* the values of offset
    MaxTime          \* bound on now

ASSUME TimeAssumption ==
    /\ SEAL_MS \in Nat \ {0}
    /\ ALLOWANCE_MS \in Nat
    /\ INTENT_MS \in Nat
    /\ INTENT_MS >= SEAL_MS + 2 * ALLOWANCE_MS
    /\ BUGDROP_MAX_CAPABILITY_TTL_MS \in Nat
    /\ BUGDROP_MAX_CAPABILITY_TTL_MS >= SEAL_MS
    /\ BUGDROP_CAPABILITY_CLOCK_SKEW_MS \in Nat
    /\ BUGDROP_CAPABILITY_CLOCK_SKEW_MS > ALLOWANCE_MS
    /\ Offsets \subseteq Int
    /\ MaxTime \in Nat

Codes == {"rejected_before_send", "exchange_unconfirmed"}

ASSUME NoneAssumption == None \notin Int \cup Codes \cup {"granted", "denied", "own", "other"}

VARIABLES
    now, offset,
    gone,         \* request.signal.aborted
    pc,           \* the await at which the handler is suspended
    requestBody,
    sentAt,       \* None, or when the transport was called: lifecycle's start
    issuedAt,     \* None, or the intent's issuedAt
    reservedAt, admittedAt,  \* None, or when the service took the attempt
    transport,    \* the transport's promise
    payload,      \* what the response's body holds: this attempt's
                  \* confirmation, or anything else
    reader,       \* the response's body
    chunks,       \* pending.chunks is not empty
    pending,      \* the cell of lifecycle still holds its state
    timer, aborted,
    settledAt,    \* None, or when createSubmissionCapability settled
    outcome,      \* None, "granted" or the code of the error
    answer        \* None, or the handler's Response

clock == <<now, offset>>
handlerVars == <<gone, pc, requestBody, answer>>
serviceVars == <<reservedAt, admittedAt>>
cell == <<chunks, pending, timer, aborted, settledAt, outcome>>
vars == <<clock, handlerVars, serviceVars, sentAt, issuedAt, transport, payload, reader, cell>>

Times == Nat \cup {None}

TypeOK ==
    /\ now \in Nat /\ offset \in Int
    /\ gone \in BOOLEAN
    /\ pc \in {"idle", "policy", "body", "exchange", "answered"}
    /\ requestBody \in {"untouched", "reading", "cancelled", "read"}
    /\ sentAt \in Times /\ reservedAt \in Times /\ admittedAt \in Times
    /\ issuedAt \in Int \cup {None}
    /\ transport \in {"idle", "inFlight", "settled"}
    /\ payload \in {None, "own", "other"}
    /\ reader \in {"none", "reading", "cancelled", "ended"}
    /\ chunks \in BOOLEAN /\ pending \in BOOLEAN /\ aborted \in BOOLEAN
    /\ timer \in {"unset", "armed", "fired", "cleared"}
    /\ settledAt \in Times
    /\ outcome \in Codes \cup {"granted", None}
    /\ answer \in {None, "granted", "denied"}

Init ==
    /\ now = 0 /\ offset \in Offsets
    /\ gone = FALSE /\ pc = "idle" /\ requestBody = "untouched"
    /\ sentAt = None /\ issuedAt = None /\ reservedAt = None /\ admittedAt = None
    /\ transport = "idle" /\ payload = None /\ reader = "none"
    /\ chunks = FALSE /\ pending = FALSE /\ timer = "unset" /\ aborted = FALSE
    /\ settledAt = None /\ outcome = None /\ answer = None
----------------------------------------------------------------------------
(* The confirmation.                                                       *)

wall == now + offset

(* parseUsableSubmissionCapability, for a capability that expires at t. *)
Usable(t) ==
    /\ t > wall - BUGDROP_CAPABILITY_CLOCK_SKEW_MS
    /\ t <= wall + BUGDROP_MAX_CAPABILITY_TTL_MS + BUGDROP_CAPABILITY_CLOCK_SKEW_MS

(* The capability the service signs lives as long as it may. *)
expiration == admittedAt + BUGDROP_MAX_CAPABILITY_TTL_MS

(* Mutant: reservations have to follow the intent. *)
ConfirmsWithoutAllowance ==
    /\ payload = "own"
    /\ wall >= issuedAt /\ wall < issuedAt + INTENT_MS
    /\ Usable(expiration)
    /\ reservedAt >= issuedAt /\ reservedAt <= admittedAt
    /\ admittedAt < issuedAt + INTENT_MS /\ admittedAt <= wall + ALLOWANCE_MS

(* confirmation(): the payload confirms this intent, at this time.  Its    *)
(* digests and its signature are those of this attempt's confirmation, or  *)
(* the payload is another one.                                             *)
Confirms ==
    /\ payload = "own"
    /\ wall >= issuedAt /\ wall < issuedAt + INTENT_MS
    /\ Usable(expiration)
    /\ reservedAt >= issuedAt - ALLOWANCE_MS /\ reservedAt <= admittedAt
    /\ admittedAt < issuedAt + INTENT_MS /\ admittedAt <= wall + ALLOWANCE_MS
----------------------------------------------------------------------------
(* lifecycle().                                                            *)

expired == now - sentAt >= SEAL_MS

(* Mutant: the reader and the chunks are left to the garbage collector. *)
FinishForgets(verdict, t) ==
    /\ pending' = FALSE /\ outcome' = verdict /\ settledAt' = t
    /\ timer' = "cleared" /\ aborted' = (verdict # "granted") /\ UNCHANGED chunks

(* finish(), on a cell that is still pending: its timer is cleared or has  *)
(* fired, a failure aborts the controller, and its chunks are dropped.     *)
Finish(verdict, t) ==
    /\ pending' = FALSE
    /\ outcome' = verdict
    /\ settledAt' = t
    /\ timer' = IF timer = "armed" THEN "cleared" ELSE timer
    /\ aborted' = (verdict # "granted")
    /\ chunks' = FALSE

Fail(t) == Finish("exchange_unconfirmed", t)

(* reader.cancel(). *)
CancelReader == reader' = IF reader = "reading" THEN "cancelled" ELSE reader

(* setTimeout(() => finish(), 8000). *)
TimerFires ==
    /\ timer = "armed"
    /\ expired
    /\ pending' = FALSE /\ outcome' = "exchange_unconfirmed" /\ settledAt' = now
    /\ timer' = "fired" /\ aborted' = TRUE /\ chunks' = FALSE
    /\ CancelReader
    /\ UNCHANGED <<clock, handlerVars, serviceVars, sentAt, issuedAt, transport, payload>>

TransportFails ==
    /\ transport = "inFlight"
    /\ transport' = "settled"
    /\ IF pending THEN Fail(now) ELSE UNCHANGED cell
    /\ UNCHANGED <<clock, handlerVars, serviceVars, sentAt, issuedAt, payload, reader>>

(* Mutant: received() trusts its caller to be in time. *)
ReadsLateResponse ==
    /\ transport = "inFlight" /\ transport' = "settled"
    /\ \E p \in {"own", "other"} : (p = "own" => admittedAt # None) /\ payload' = p
    /\ reader' = "reading"
    /\ UNCHANGED <<clock, handlerVars, serviceVars, sentAt, issuedAt, cell>>

(* Mutant: a response in time needs no timer any more. *)
ReceivedDisarms ==
    /\ transport = "inFlight" /\ transport' = "settled"
    /\ payload' = "other"
    /\ pending /\ ~expired /\ reader' = "reading" /\ timer' = "cleared"
    /\ UNCHANGED <<clock, handlerVars, serviceVars, sentAt, issuedAt, chunks, pending, aborted,
                   settledAt, outcome>>

(* received(): a late response is cancelled, and so is one whose status or *)
(* headers (responseLength) are wrong; or its reading begins.              *)
Received ==
    /\ transport = "inFlight"
    /\ transport' = "settled"
    /\ \E p \in {"own", "other"} : (p = "own" => admittedAt # None) /\ payload' = p
    /\ \/ /\ reader' = "cancelled"
          /\ IF pending THEN Fail(now) ELSE UNCHANGED cell
       \/ /\ pending /\ ~expired
          /\ reader' = "reading"
          /\ UNCHANGED cell
    /\ UNCHANGED <<clock, handlerVars, serviceVars, sentAt, issuedAt>>

(* chunk() with a part that is not the last, and the next read(). *)
ChunkArrives ==
    /\ reader = "reading"
    /\ \/ Fail(now) /\ CancelReader
       \/ /\ ~expired
          /\ chunks' = TRUE
          /\ UNCHANGED <<reader, pending, timer, aborted, settledAt, outcome>>
    /\ UNCHANGED <<clock, handlerVars, serviceVars, sentAt, issuedAt, transport, payload>>

(* fail(): the body breaks. *)
ReadFails ==
    /\ reader = "reading"
    /\ reader' = "cancelled"
    /\ Fail(now)
    /\ UNCHANGED <<clock, handlerVars, serviceVars, sentAt, issuedAt, transport, payload>>

(* Mutant: no second look at the clock. *)
BodyEndsWithoutRecheck ==
    /\ reader = "reading" /\ reader' = "ended"
    /\ now' \in now .. now + 1 /\ now' <= MaxTime
    /\ IF ~expired /\ Confirms THEN Finish("granted", now') ELSE Fail(now')
    /\ UNCHANGED <<offset, handlerVars, serviceVars, sentAt, issuedAt, transport, payload>>

(* chunk() with the end of the body: parsing and verifying take time, and  *)
(* the seal is looked at before and after.                                 *)
BodyEnds ==
    /\ reader = "reading"
    /\ reader' = "ended"
    /\ now' \in now .. now + 1
    /\ now' <= MaxTime
    /\ IF ~expired /\ Confirms /\ now' - sentAt < SEAL_MS
       THEN Finish("granted", now')
       ELSE Fail(now')
    /\ UNCHANGED <<offset, handlerVars, serviceVars, sentAt, issuedAt, transport, payload>>
----------------------------------------------------------------------------
(* The handler.                                                            *)

(* The catch block: a body nobody reads is cancelled. *)
Deny ==
    /\ pc' = "answered"
    /\ answer' = "denied"
    /\ requestBody' = IF requestBody = "untouched" THEN "cancelled" ELSE "read"

(* The envelope is refused, or the request is aborted already. *)
RefuseEnvelope ==
    /\ pc = "idle"
    /\ Deny
    /\ UNCHANGED <<clock, gone, serviceVars, sentAt, issuedAt, transport, payload, reader, cell>>

AskPolicy ==
    /\ pc = "idle"
    /\ ~gone
    /\ pc' = "policy"
    /\ UNCHANGED <<clock, gone, requestBody, answer, serviceVars, sentAt, issuedAt, transport,
                   payload, reader, cell>>

PolicyRefuses ==
    /\ pc = "policy"
    /\ Deny
    /\ UNCHANGED <<clock, gone, serviceVars, sentAt, issuedAt, transport, payload, reader, cell>>

(* read() begins, or finds the body too long or missing. *)
PolicyAllows ==
    /\ pc = "policy"
    /\ \/ Deny
       \/ pc' = "body" /\ requestBody' = "reading" /\ UNCHANGED answer
    /\ UNCHANGED <<clock, gone, serviceVars, sentAt, issuedAt, transport, payload, reader, cell>>

(* A chunk too many or after an abort, a wrong length, a broken body, a    *)
(* text that does not parse, or names a member twice.                      *)
BodyRejected ==
    /\ pc = "body"
    /\ Deny
    /\ UNCHANGED <<clock, gone, serviceVars, sentAt, issuedAt, transport, payload, reader, cell>>

(* request() throws: nothing is sent. *)
RejectBeforeSend ==
    /\ pc = "body"
    /\ ~gone
    /\ pc' = "exchange"
    /\ requestBody' = "read"
    /\ outcome' = "rejected_before_send"
    /\ settledAt' = now
    /\ UNCHANGED <<clock, gone, answer, serviceVars, sentAt, issuedAt, transport, payload,
                   reader, chunks, pending, timer, aborted>>

(* The request is built and the transport is called; it may throw.  Bound: *)
(* an exchange begins early enough to be sealed before MaxTime.            *)
Send ==
    /\ pc = "body"
    /\ ~gone
    /\ now + SEAL_MS <= MaxTime
    /\ pc' = "exchange"
    /\ requestBody' = "read"
    /\ issuedAt' = wall
    /\ sentAt' = now
    /\ \/ /\ transport' = "inFlight"
          /\ pending' = TRUE
          /\ timer' = "armed"
          /\ UNCHANGED <<chunks, aborted, settledAt, outcome>>
       \/ /\ transport' = "settled"
          /\ pending' = FALSE
          /\ timer' = "cleared"
          /\ aborted' = TRUE
          /\ settledAt' = now
          /\ outcome' = "exchange_unconfirmed"
          /\ UNCHANGED chunks
    /\ UNCHANGED <<clock, gone, answer, serviceVars, payload, reader>>

(* Mutant: the browser is told what went wrong. *)
AnswerWithCode ==
    /\ pc = "exchange" /\ outcome # None
    /\ pc' = "answered" /\ answer' = outcome
    /\ UNCHANGED <<clock, gone, requestBody, serviceVars, sentAt, issuedAt, transport,
                   payload, reader, cell>>

(* createSubmissionCapability settled; the handler answers, and a failure  *)
(* is the same whatever its code.                                          *)
Answer ==
    /\ pc = "exchange"
    /\ outcome # None
    /\ pc' = "answered"
    /\ answer' = IF outcome = "granted" THEN "granted" ELSE "denied"
    /\ UNCHANGED <<clock, gone, requestBody, serviceVars, sentAt, issuedAt, transport,
                   payload, reader, cell>>

(* The browser disconnects: request.signal aborts. *)
Disconnect ==
    /\ ~gone
    /\ gone' = TRUE
    /\ UNCHANGED <<clock, pc, requestBody, answer, serviceVars, sentAt, issuedAt, transport,
                   payload, reader, cell>>
----------------------------------------------------------------------------
(* The admission service, and the clocks.                                  *)

(* The service reserves the attempt, then admits it; what comes back may   *)
(* come at any time, or be anything else.                                  *)
Reserve ==
    /\ sentAt # None /\ reservedAt = None
    /\ reservedAt' = now
    /\ UNCHANGED <<clock, handlerVars, admittedAt, sentAt, issuedAt, transport, payload,
                   reader, cell>>

Admit ==
    /\ reservedAt # None /\ admittedAt = None
    /\ admittedAt' = now
    /\ UNCHANGED <<clock, handlerVars, reservedAt, sentAt, issuedAt, transport, payload,
                   reader, cell>>

Tick ==
    /\ now < MaxTime
    /\ now' = now + 1
    /\ UNCHANGED <<offset, handlerVars, serviceVars, sentAt, issuedAt, transport, payload,
                   reader, cell>>

(* The server's wall clock is set. *)
SetClock ==
    /\ offset' \in Offsets \ {offset}
    /\ UNCHANGED <<now, handlerVars, serviceVars, sentAt, issuedAt, transport, payload,
                   reader, cell>>
----------------------------------------------------------------------------
Handler ==
    \/ RefuseEnvelope \/ AskPolicy \/ PolicyRefuses \/ PolicyAllows
    \/ BodyRejected \/ RejectBeforeSend \/ Send \/ Answer

Exchange == TransportFails \/ Received \/ ChunkArrives \/ ReadFails \/ BodyEnds \/ TimerFires

Next == Handler \/ Exchange \/ Disconnect \/ Reserve \/ Admit \/ Tick \/ SetClock

Spec == Init /\ [][Next]_vars

(* Time passes, a due timer fires and a settled promise's reaction runs.   *)
FairSpec == Spec /\ WF_vars(Tick) /\ WF_vars(TimerFires) /\ WF_vars(Answer)
----------------------------------------------------------------------------
(* Properties.                                                             *)

(* A capability is granted for the whole confirmation of this very         *)
(* attempt, before the seal although verifying it takes time and the timer *)
(* may be late; and an error that says nothing was sent is right.          *)
GrantIsConfirmedInTime ==
    /\ outcome = "granted" =>
           /\ payload = "own" /\ reader = "ended"
           /\ sentAt <= reservedAt /\ reservedAt <= admittedAt
           /\ settledAt - sentAt < SEAL_MS
    /\ outcome = "rejected_before_send" => sentAt = None

WithinAllowance(d) == -ALLOWANCE_MS <= d /\ d <= ALLOWANCE_MS

(* The windows are wide enough: when the whole confirmation of this        *)
(* attempt is read before the seal, and both clocks stay within the        *)
(* allowance of each other, it is refused only because the wall clock was  *)
(* set back behind the intent (opt-in-protocol.ts:94-124).                 *)
HonestAnswerIsGranted ==
    [][ /\ outcome = None /\ outcome' = "exchange_unconfirmed"
        /\ reader' = "ended" /\ payload = "own"
        /\ now' - sentAt < SEAL_MS
        /\ WithinAllowance(issuedAt - sentAt) /\ WithinAllowance(offset)
        => wall < issuedAt ]_vars

(* "Clearing pending drops SDK references to intent, body, chunks and      *)
(* callbacks at the 8s seal": a settled exchange reads nothing and holds   *)
(* nothing, whenever the transport answers; a failed one is aborted.       *)
SealReleases ==
    outcome # None =>
        /\ ~pending /\ ~chunks
        /\ timer # "armed" /\ reader # "reading"
        /\ outcome = "exchange_unconfirmed" => aborted

(* What the request's answer is made of: the exchange's outcome, or the    *)
(* handler's own refusal.                                                  *)
Decided ==
    IF outcome = "granted" THEN "granted"
    ELSE IF outcome # None \/ answer # None THEN "denied" ELSE None

Promise == INSTANCE BoundedAnswer WITH
    contacted <- sentAt # None,
    closed <- aborted,
    verdict <- Decided

(* The safety part of the promise: the service is contacted at most once,  *)
(* nothing is granted once the exchange failed or was sealed, and what was *)
(* decided is what is answered, for good (opt-in-exchange.ts:36-156).      *)
ExchangeKeepsPromise == Promise!Spec

(* What was sent is answered, although the transport never settles. *)
SentIsAnswered == sentAt # None ~> answer # None
============================================================================
