------------------------- MODULE CapabilityAdapter -------------------------
(***************************************************************************)
(* One invocation of the handler that createCapabilityHandler returns      *)
(* (packages/server/src/adapter.ts), with the SDK client it drives         *)
(* (packages/server/src/index.ts), the lease on the issuer's response body *)
(* (adapter-response.ts), the reading of the request body                  *)
(* (adapter-body.ts) and the failure reporter (adapter-diagnostics.ts).    *)
(*                                                                         *)
(* The handler races two promises.  exchange() is a coroutine: an action   *)
(* is the code between two of its awaits.  `ended' is resolved by the      *)
(* deadline or by the request's abort event, both through end().  The      *)
(* loser goes on after the handler has answered: a policy, a body or a     *)
(* transport may settle at any later time, or never.                       *)
(*                                                                         *)
(* The promise reactions that follow a decided race run before the event   *)
(* loop takes the next timer; other code in that same run may still abort  *)
(* the request.                                                            *)
(***************************************************************************)
EXTENDS Naturals

CONSTANTS
    None,            \* no value (undefined in the code)
    OkStatuses,      \* HTTP statuses with response.ok
    RefusedStatuses  \* every other HTTP status

ASSUME StatusAssumption ==
    /\ None \notin OkStatuses \cup RefusedStatuses
    /\ OkStatuses \cap RefusedStatuses = {}

VARIABLES
    options,          \* what the handler was created with
    requestAborted,   \* request.signal.aborted
    listening,        \* the abort listener is on request.signal
    timer,            \* the 18 s timer
    aborted,          \* controller.signal.aborted
    pc,               \* the await at which exchange() is suspended
    phase,            \* the phase exchange() would report
    requestBody,      \* the request's body stream; "locked": nobody will read
                      \* or cancel it
    policy,           \* the customer policy, as seen by exchange()
    issuerContacted,
    httpStatus,
    issuerBody,       \* the body of the issuer's response, read through the lease
    diagnostic,       \* None, or the first event reported
    observed,         \* how many events the observer received
    winner,           \* None, or the outcome of the promise that won the race
    answer            \* None, or what the handler returned

vars == <<options, requestAborted, listening, timer, aborted, pc, phase,
          requestBody, policy, issuerContacted, httpStatus, issuerBody,
          diagnostic, observed, winner, answer>>

exchangeVars == <<phase, policy, issuerContacted, httpStatus>>
handlerVars == <<options, requestAborted, listening, timer, aborted>>

Modes == {"anonymous", "customer-policy"}
Statuses == OkStatuses \cup RefusedStatuses
ExchangePhases == {"node_envelope", "body", "binding", "policy", "sdk_init",
                   "issuer_exchange"}
Phases == ExchangePhases \cup {"configuration", "deadline", "cancelled"}
Diagnostics == [phase : Phases, issuerContacted : BOOLEAN,
                httpStatus : Statuses \cup {None}]

ASSUME NoneAssumption ==
    /\ None \notin {"granted", "denied", "disabled"}
    /\ None \notin Diagnostics

TypeOK ==
    /\ options \in [enabled : BOOLEAN, mode : Modes]
    /\ requestAborted \in BOOLEAN
    /\ listening \in BOOLEAN
    /\ timer \in {"unset", "armed", "fired", "cleared"}
    /\ aborted \in BOOLEAN
    /\ pc \in {"invoked", "body", "policy", "authenticator", "transport",
               "issuerBody", "capability", "returned"}
    /\ phase \in ExchangePhases
    /\ requestBody \in {"untouched", "locked", "reading", "cut", "released"}
    /\ policy \in {"unasked", "asked", "allowed"}
    /\ issuerContacted \in BOOLEAN
    /\ httpStatus \in Statuses \cup {None}
    /\ issuerBody \in {"none", "leased", "drained", "cancelled"}
    /\ diagnostic \in Diagnostics \cup {None}
    /\ observed \in Nat
    /\ winner \in {None, "granted", "denied", "disabled"}
    /\ answer \in {None, "granted", "denied", "disabled"}

Init ==
    /\ options \in [enabled : BOOLEAN, mode : Modes]
    /\ requestAborted \in BOOLEAN
    /\ listening = FALSE
    /\ timer = "unset"
    /\ aborted = FALSE
    /\ pc = "invoked"
    /\ phase = "node_envelope"
    /\ requestBody = "untouched"
    /\ policy = "unasked"
    /\ issuerContacted = FALSE
    /\ httpStatus = None
    /\ issuerBody = "none"
    /\ diagnostic = None
    /\ observed = 0
    /\ winner = None
    /\ answer = None
----------------------------------------------------------------------------
(* Helpers shared by the steps.                                            *)

(* Mutant: no latch. *)
EmitEveryEvent(event) == diagnostic' = event /\ observed' = observed + 1

(* failureReporter: only the first event of an invocation is emitted. *)
Emit(event) ==
    IF diagnostic = None
    THEN /\ diagnostic' = event
         /\ observed' = observed + 1
    ELSE UNCHANGED <<diagnostic, observed>>

(* Mutant: the status is left out of the event. *)
ReportWithoutStatus(p, status) == Emit([phase |-> p, issuerContacted |-> issuerContacted])

ReportStatus(p, status) ==
    Emit([phase |-> p, issuerContacted |-> issuerContacted, httpStatus |-> status])

Report(p) == ReportStatus(p, httpStatus)

(* Promise.race: the first of the two promises to settle decides. *)
Decide(outcome) == winner' = IF winner = None THEN outcome ELSE winner

(* lease.close: an unread issuer body is cancelled and its lock released. *)
CloseLease == issuerBody' = IF issuerBody = "leased" THEN "cancelled" ELSE issuerBody

(* The abort listener of readBindingBody cancels a body being read. *)
CutRequestBody == requestBody' = IF requestBody = "reading" THEN "cut" ELSE requestBody

(* The catch block of exchange(), after a failure in phase p: it cancels    *)
(* the request's body unless it is locked.                                 *)
Catch(p, status, body) ==
    /\ pc' = "returned"
    /\ ReportStatus(IF aborted THEN "cancelled" ELSE p, status)
    /\ requestBody' = IF body = "locked" THEN "locked" ELSE "released"
    /\ Decide("denied")

(* A body that was being read is not locked any more by then: the finally  *)
(* block of readBindingBody cancels its reader and releases it.            *)
ExchangeFailsWith(p, status) == Catch(p, status, requestBody)

ExchangeFails(p) == ExchangeFailsWith(p, httpStatus)

(* Mutant: the deadline and a disconnect only abort, and wait for exchange(). *)
EndOnlyAborts(p) ==
    aborted' = TRUE /\ CutRequestBody /\ CloseLease /\ Report(p) /\ UNCHANGED winner

(* end(): controller.abort() runs its listeners, then the report, then the *)
(* `ended' promise resolves to the failure response.                       *)
End(p) ==
    /\ aborted' = TRUE
    /\ CutRequestBody
    /\ CloseLease
    /\ Report(p)
    /\ Decide("denied")
----------------------------------------------------------------------------
(* The handler.                                                            *)

InvokeDisabled ==
    /\ pc = "invoked"
    /\ ~options.enabled
    /\ Report("configuration")
    /\ winner' = "disabled"
    /\ pc' = "returned"
    /\ UNCHANGED <<handlerVars, exchangeVars, requestBody, issuerBody, answer>>

(* A request whose signal is already aborted ends at once: the exchange    *)
(* finds the controller aborted at its first check, releases the body and  *)
(* has nothing left to report.                                             *)
InvokeAborted ==
    /\ pc = "invoked"
    /\ options.enabled
    /\ requestAborted
    /\ timer' = "armed"
    /\ listening' = TRUE
    /\ aborted' = TRUE
    /\ Report("cancelled")
    /\ winner' = "denied"
    /\ pc' = "returned"
    /\ requestBody' = "released"
    /\ UNCHANGED <<options, requestAborted, exchangeVars, issuerBody, answer>>

(* Up to the first await: the envelope is refused; or the body is missing, *)
(* or its declared length refused before there is a reader, while the copy *)
(* made for the policy (adapter.ts:82) keeps it locked; or its reading     *)
(* begins.                                                                 *)
InvokeOpen ==
    /\ pc = "invoked"
    /\ options.enabled
    /\ ~requestAborted
    /\ timer' = "armed"
    /\ listening' = TRUE
    /\ \/ /\ ExchangeFails("node_envelope")
          /\ UNCHANGED phase
       \/ /\ phase' = "body"
          /\ \E body \in {"untouched", "locked"} : Catch("body", httpStatus, body)
       \/ /\ phase' = "body"
          /\ pc' = "body"
          /\ requestBody' = "reading"
          /\ UNCHANGED <<diagnostic, observed, winner>>
    /\ UNCHANGED <<options, requestAborted, aborted, policy, issuerContacted,
                   httpStatus, issuerBody, answer>>

(* setTimeout(() => end(false), 18_000): no timer runs between a decided   *)
(* race and the finally block that clears it.                              *)
DeadlineFires ==
    /\ timer = "armed"
    /\ winner = None
    /\ timer' = "fired"
    /\ IF aborted
       THEN UNCHANGED <<aborted, requestBody, issuerBody, diagnostic, observed, winner>>
       ELSE End("deadline")
    /\ UNCHANGED <<options, requestAborted, listening, pc, exchangeVars, answer>>

(* The caller goes away, at any time. *)
RequestAborts ==
    /\ ~requestAborted
    /\ requestAborted' = TRUE
    /\ IF listening /\ ~aborted
       THEN End("cancelled")
       ELSE UNCHANGED <<aborted, requestBody, issuerBody, diagnostic, observed, winner>>
    /\ UNCHANGED <<options, listening, timer, pc, exchangeVars, answer>>

(* Mutant: the finally block forgets the issuer's response. *)
SettleWithoutClose ==
    /\ winner # None /\ answer = None
    /\ answer' = winner
    /\ timer' = "cleared"
    /\ listening' = FALSE
    /\ UNCHANGED <<options, requestAborted, aborted, pc, exchangeVars, requestBody,
                   issuerBody, diagnostic, observed, winner>>

(* The race's result reaches the finally block, and the caller. *)
Settle ==
    /\ winner # None
    /\ answer = None
    /\ answer' = winner
    /\ timer' = IF timer = "armed" THEN "cleared" ELSE timer
    /\ listening' = FALSE
    /\ CloseLease
    /\ UNCHANGED <<options, requestAborted, aborted, pc, exchangeVars, requestBody,
                   diagnostic, observed, winner>>
----------------------------------------------------------------------------
(* exchange(), from one await to the next.                                 *)

(* The synchronous code from the policy's verdict to the authenticator:    *)
(* the client's construction or the request's validation may throw.        *)
StartClient ==
    \/ /\ phase' = "sdk_init"
       /\ ExchangeFails("sdk_init")
    \/ /\ phase' = "issuer_exchange"
       /\ \/ ExchangeFails("issuer_exchange")
          \/ /\ pc' = "authenticator"
             /\ requestBody' = "released"
             /\ UNCHANGED <<diagnostic, observed, winner>>

(* A chunk too many, a wrong length, text that is not UTF-8, or a body     *)
(* that breaks: readBindingBody throws.  The controller may be aborted.    *)
BodyRejected ==
    /\ pc = "body"
    /\ ExchangeFails("body")
    /\ UNCHANGED <<handlerVars, exchangeVars, issuerBody, answer>>

(* Mutant: no check between the body and the policy. *)
BodyReadUnchecked ==
    /\ pc = "body"
    /\ phase' = "policy" /\ pc' = "policy" /\ policy' = "asked"
    /\ requestBody' = "released"
    /\ UNCHANGED <<handlerVars, issuerContacted, httpStatus, issuerBody, diagnostic,
                   observed, winner, answer>>

(* The reader reports the end of the body.  A body cut by the abort looks  *)
(* the same to readBindingBody: only the check that follows tells.         *)
BodyRead ==
    /\ pc = "body"
    /\ IF aborted
       THEN /\ ExchangeFails("body")
            /\ UNCHANGED <<phase, policy>>
       ELSE \/ /\ phase' = "binding"
               /\ ExchangeFails("binding")
               /\ UNCHANGED policy
            \/ /\ options.mode = "anonymous"
               /\ StartClient
               /\ UNCHANGED policy
            \/ /\ options.mode = "customer-policy"
               /\ phase' = "policy"
               /\ pc' = "policy"
               /\ policy' = "asked"
               /\ requestBody' = IF requestBody = "cut" THEN "cut" ELSE "released"
               /\ UNCHANGED <<diagnostic, observed, winner>>
    /\ UNCHANGED <<handlerVars, issuerContacted, httpStatus, issuerBody, answer>>

(* Anything but true, or a rejection. *)
PolicyRefuses ==
    /\ pc = "policy"
    /\ ExchangeFails("policy")
    /\ UNCHANGED <<handlerVars, exchangeVars, issuerBody, answer>>

PolicyAllows ==
    /\ pc = "policy"
    /\ policy' = "allowed"
    /\ IF aborted
       THEN /\ ExchangeFails("policy")
            /\ UNCHANGED phase
       ELSE StartClient
    /\ UNCHANGED <<handlerVars, issuerContacted, httpStatus, issuerBody, answer>>

(* The authenticator settles; the client calls the guarded transport. *)
AuthenticatorFails ==
    /\ pc = "authenticator"
    /\ ExchangeFails("issuer_exchange")
    /\ UNCHANGED <<handlerVars, exchangeVars, issuerBody, answer>>

(* Mutant: no check in the transport. *)
ContactIssuerUnguarded ==
    /\ pc = "authenticator"
    /\ issuerContacted' = TRUE
    /\ pc' = "transport"
    /\ UNCHANGED <<handlerVars, phase, policy, httpStatus, requestBody, issuerBody,
                   diagnostic, observed, winner, answer>>

ContactIssuer ==
    /\ pc = "authenticator"
    /\ IF aborted
       THEN /\ ExchangeFails("issuer_exchange")
            /\ UNCHANGED issuerContacted
       ELSE /\ issuerContacted' = TRUE
            /\ pc' = "transport"
            /\ UNCHANGED <<requestBody, diagnostic, observed, winner>>
    /\ UNCHANGED <<handlerVars, phase, policy, httpStatus, issuerBody, answer>>

TransportFails ==
    /\ pc = "transport"
    /\ ExchangeFails("issuer_exchange")
    /\ UNCHANGED <<handlerVars, exchangeVars, issuerBody, answer>>

(* A response that comes after the abort is discarded by the wrapper. *)
LateResponse ==
    /\ pc = "transport"
    /\ aborted
    /\ issuerBody' \in {"none", "cancelled"}
    /\ ExchangeFails("issuer_exchange")
    /\ UNCHANGED <<handlerVars, exchangeVars, answer>>

(* Otherwise its body, if it has one, is leased; a body the Response       *)
(* constructor does not accept is closed at once; and a refusal leaves the *)
(* body to the finally block of the handler.                               *)
IssuerResponds(status) ==
    /\ pc = "transport"
    /\ ~aborted
    /\ httpStatus' = status
    /\ \/ /\ issuerBody' = "leased"
          /\ status \in OkStatuses
          /\ pc' = "issuerBody"
          /\ UNCHANGED <<diagnostic, observed, requestBody, winner>>
       \/ /\ issuerBody' \in {"none", "cancelled"}
          /\ ExchangeFailsWith(phase, status)
       \/ /\ issuerBody' = "leased"
          /\ status \in RefusedStatuses
          /\ ExchangeFailsWith(phase, status)
    /\ UNCHANGED <<handlerVars, phase, policy, issuerContacted, answer>>

(* The lease's pull reads the end of the issuer's body, and closes the     *)
(* forwarded stream; whether or not the client is reading it.              *)
IssuerBodyEnds ==
    /\ issuerBody = "leased"
    /\ issuerBody' = "drained"
    /\ pc' = IF pc = "issuerBody" THEN "capability" ELSE pc
    /\ UNCHANGED <<handlerVars, exchangeVars, requestBody, diagnostic, observed,
                   winner, answer>>

(* Mutant: pull takes a broken body for a complete one. *)
BreakTakenForEnd ==
    /\ pc = "issuerBody" /\ issuerBody = "leased"
    /\ issuerBody' = "cancelled" /\ pc' = "capability"
    /\ UNCHANGED <<handlerVars, exchangeVars, requestBody, diagnostic, observed,
                   winner, answer>>

(* The issuer's body breaks: pull closes the lease, which errors the       *)
(* forwarded stream.                                                       *)
IssuerBodyBreaks ==
    /\ CloseLease
    /\ issuerBody = "leased"
    /\ UNCHANGED <<handlerVars, pc, exchangeVars, requestBody, diagnostic, observed,
                   winner, answer>>

(* response.json() rejects on the errored stream. *)
ReadCut ==
    /\ pc = "issuerBody"
    /\ issuerBody = "cancelled"
    /\ ExchangeFails("issuer_exchange")
    /\ UNCHANGED <<handlerVars, exchangeVars, issuerBody, answer>>

(* Not JSON, admission not confirmed, or not a usable capability. *)
CapabilityRejected ==
    /\ pc = "capability"
    /\ ExchangeFails("issuer_exchange")
    /\ UNCHANGED <<handlerVars, exchangeVars, issuerBody, answer>>

CapabilityAccepted ==
    /\ pc = "capability"
    /\ IF aborted
       THEN ExchangeFails("issuer_exchange")
       ELSE /\ pc' = "returned"
            /\ Decide("granted")
            /\ UNCHANGED <<diagnostic, observed, requestBody>>
    /\ UNCHANGED <<handlerVars, exchangeVars, issuerBody, answer>>
----------------------------------------------------------------------------
Invoke == InvokeDisabled \/ InvokeAborted \/ InvokeOpen

Exchange ==
    \/ BodyRejected \/ BodyRead
    \/ PolicyRefuses \/ PolicyAllows
    \/ AuthenticatorFails \/ ContactIssuer
    \/ TransportFails \/ LateResponse
    \/ \E status \in Statuses : IssuerResponds(status)
    \/ IssuerBodyEnds \/ IssuerBodyBreaks \/ ReadCut
    \/ CapabilityRejected \/ CapabilityAccepted

Next == Invoke \/ DeadlineFires \/ RequestAborts \/ Settle \/ Exchange

Spec == Init /\ [][Next]_vars

(* The event loop runs the call, the reactions of a decided race and a due *)
(* timer.  Nothing is assumed of the caller, the policy, the transport or  *)
(* a body: none of them needs to settle.                                   *)
FairSpec == Spec /\ WF_vars(Invoke) /\ WF_vars(DeadlineFires) /\ WF_vars(Settle)
----------------------------------------------------------------------------
(* Properties.                                                             *)

(* A diagnostic that says the issuer was not contacted stays true for the  *)
(* rest of the invocation, although exchange() may still be running when   *)
(* it is emitted (adapter.ts:54-59 reports before the race's loser ends);  *)
(* and it names the HTTP status of a contact that took place.              *)
DiagnosticIsFinal ==
    diagnostic # None =>
        /\ issuerContacted => diagnostic.issuerContacted
        /\ diagnostic.httpStatus # None => diagnostic.issuerContacted
        /\ diagnostic.phase \in {"configuration", "node_envelope", "body",
                                 "binding", "policy", "sdk_init"}
               => ~issuerContacted

(* The cause the diagnostic names is the one that ended the invocation: a  *)
(* late failure of exchange(), whose catch block calls every abort         *)
(* "cancelled" (adapter.ts:128), never covers a deadline.  Every answer    *)
(* but a capability was diagnosed, once ("One sanitized event per          *)
(* invocation", adapter-diagnostics.ts:39), and a capability is only       *)
(* accompanied by the disconnect of a caller that no longer waits for it.  *)
DiagnosticNamesTheCause ==
    /\ diagnostic # None =>
           /\ diagnostic.phase = "deadline" => timer = "fired" /\ winner = "denied"
           /\ diagnostic.phase = "cancelled" => requestAborted /\ timer # "fired"
           /\ diagnostic.phase = "configuration" <=> winner = "disabled"
           /\ winner = "granted" => diagnostic.phase = "cancelled"
    /\ answer \in {"denied", "disabled"} => observed = 1

(* A capability is returned only from a response read to its end, with a   *)
(* status that is ok, before the deadline, and in customer mode after the  *)
(* policy allowed the binding.                                             *)
GrantIsEarned ==
    winner = "granted" =>
        /\ issuerBody = "drained"
        /\ httpStatus \in OkStatuses
        /\ timer # "fired"
        /\ options.enabled
        /\ options.mode = "customer-policy" => policy = "allowed"

(* When the handler has answered it reads neither body any more, and a     *)
(* response that comes later is discarded (adapter.ts:103-105, 142).  One  *)
(* body is left behind, neither read nor cancelled: that of a request      *)
(* refused for its declared length, before policy and issuer; and a        *)
(* disabled handler does not touch it (adapter.ts:39-42, 82, 133;          *)
(* adapter-body.ts:49).                                                    *)
NothingHeldAfterAnswer ==
    answer # None =>
        /\ requestBody # "reading" /\ issuerBody # "leased"
        /\ requestBody = "untouched" <=> answer = "disabled"
        /\ requestBody = "locked" =>
              diagnostic.phase = "body" /\ policy = "unasked" /\ ~issuerContacted

(* The policy is asked while the invocation is open, about a body that was *)
(* read to its end and not cut by an abort (adapter.ts:84-89).             *)
PolicyAskedWhileOpen ==
    [][policy = "unasked" /\ policy' = "asked"
          => ~aborted /\ requestBody = "reading"]_vars

(* The exchange may go on after the answer, but it changes neither the     *)
(* answer nor the diagnostic, asks no policy and contacts no issuer        *)
(* ("prevents late issuer contact after cancellation", docs/adapter.md).   *)
AnswerIsFinal ==
    [][answer # None =>
          /\ UNCHANGED <<answer, winner, issuerContacted, diagnostic, observed>>
          /\ policy' = "asked" => policy = "asked"]_vars

(* What the handler promises. *)
Promise == INSTANCE BoundedAnswer WITH
    contacted <- issuerContacted,
    closed <- aborted,
    verdict <- IF winner = "disabled" THEN "denied" ELSE winner,
    answer <- IF answer = "disabled" THEN "denied" ELSE answer
============================================================================
