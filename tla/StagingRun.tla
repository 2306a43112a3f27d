----------------------------- MODULE StagingRun -----------------------------
(***************************************************************************)
(* One staging run (scripts/staging): the isolated worker and its parent   *)
(* (runner.mjs, worker.mjs), the conformance scenarios the worker drives   *)
(* (scenarios.mjs), the bridge through which an external safety runner     *)
(* drives others (safety-provider.mjs), the record of the SDK calls of     *)
(* each scenario (attempts.mjs) and the lease with which the provider of   *)
(* the scenario observes what the remote service admitted (observer.mjs,   *)
(* observer-wire.mjs).                                                     *)
(*                                                                         *)
(* A request may be admitted at any time after it was sent, also after its *)
(* call failed.  Runner, service, observer and network are external: they  *)
(* may do anything, at any time, or nothing.                               *)
(***************************************************************************)
EXTENDS Naturals, Sequences

CONSTANTS
    None,
    Conformance,  \* the scenarios of scenarios.mjs
    Safety,       \* scenarios of the external runner
    MaxCalls,     \* bound, for each scenario: its SDK calls
    MaxReads      \* bound, for each scenario: reads of its exchanges

Scenarios == Conformance \cup Safety

ASSUME StagingAssumption ==
    /\ Conformance \cap Safety = {}
    /\ MaxCalls \in [Scenarios -> Nat] /\ MaxReads \in [Scenarios -> Nat]

VARIABLES
    worker,       \* what worker.mjs is doing
    result,       \* None, or what runIsolated resolved to
    active, stopped,  \* of safetyProvider
    service,      \* startScenario, for each scenario
    sealed, incomplete,
    attempts,     \* the SDK calls, each with the fate of its request
    log,          \* the statuses of the requests the service admitted
    failed, closed,
    busy,         \* None, or what a command of the observer lease is for
    reply,        \* None, or the exchanges the observer answered it with
    previous,     \* None, or the exchanges of the last read
    reads,
    evidence,     \* None, or the exchanges the evidence was accepted with
    closing       \* close(), for each scenario

bridgeVars == <<active, stopped>>
runVars == <<worker, result, bridgeVars, service>>
attemptVars == <<sealed, incomplete, attempts>>
leaseVars == <<failed, closed, busy, reply, previous, reads>>
vars == <<runVars, attemptVars, log, leaseVars, evidence, closing>>

Outcomes == {"pending", "capability_issued", "http_denied", "local_rejected", "error"}
Statuses == {"ok", "denied"}
Calls == [outcome : Outcomes, request : {"none", "sent"} \cup Statuses]

ASSUME NoneAssumption ==
    None \notin Seq(Statuses) \cup {"count", "evidence", "close", "staging_passed", "staging_failed"}

TypeOK ==
    /\ worker \in {"scenarios", "safety", "receipt", "failed"}
    /\ result \in {None, "staging_passed", "staging_failed"}
    /\ active \in BOOLEAN /\ stopped \in BOOLEAN
    /\ service \in [Scenarios -> {"unused", "starting", "open", "refused"}]
    /\ sealed \in [Scenarios -> BOOLEAN]
    /\ incomplete \in [Scenarios -> BOOLEAN]
    /\ attempts \in [Scenarios -> Seq(Calls)]
    /\ log \in [Scenarios -> Seq(Statuses)]
    /\ failed \in [Scenarios -> BOOLEAN] /\ closed \in [Scenarios -> BOOLEAN]
    /\ busy \in [Scenarios -> {None, "count", "evidence", "close"}]
    /\ reply \in [Scenarios -> Seq(Statuses) \cup {None}]
    /\ previous \in [Scenarios -> Seq(Statuses) \cup {None}]
    /\ reads \in [Scenarios -> Nat]
    /\ evidence \in [Scenarios -> Seq(Statuses) \cup {None}]
    /\ closing \in [Scenarios -> {"no", "draining", "closing", "clean", "failed"}]

Init ==
    /\ worker = "scenarios" /\ result = None
    /\ active = FALSE /\ stopped = FALSE
    /\ service = [k \in Scenarios |-> "unused"]
    /\ sealed = [k \in Scenarios |-> FALSE]
    /\ incomplete = [k \in Scenarios |-> FALSE]
    /\ attempts = [k \in Scenarios |-> <<>>]
    /\ log = [k \in Scenarios |-> <<>>]
    /\ failed = [k \in Scenarios |-> FALSE]
    /\ closed = [k \in Scenarios |-> FALSE]
    /\ busy = [k \in Scenarios |-> None]
    /\ reply = [k \in Scenarios |-> None]
    /\ previous = [k \in Scenarios |-> None]
    /\ reads = [k \in Scenarios |-> 0]
    /\ evidence = [k \in Scenarios |-> None]
    /\ closing = [k \in Scenarios |-> "no"]
----------------------------------------------------------------------------
(* Helpers.                                                                *)

Pending(k) == {i \in DOMAIN attempts[k] : attempts[k][i].outcome = "pending"}

(* snapshot().complete. *)
Complete(k) == ~incomplete[k] /\ Pending(k) = {}

(* network(): the attempts whose exchange the observer must have seen. *)
NetworkOf(calls) ==
    SelectSeq(calls, LAMBDA a : a.outcome \in {"capability_issued", "http_denied"})

Network(k) == NetworkOf(attempts[k])

(* assertExchanges. *)
Matches(k, exchanges) ==
    /\ Len(exchanges) = Len(Network(k))
    /\ \A i \in DOMAIN exchanges :
          exchanges[i] = IF Network(k)[i].outcome = "http_denied" THEN "denied" ELSE "ok"

Invalidate(k) == incomplete' = [incomplete EXCEPT ![k] = TRUE]

(* The worker's process has come to the scenario, and runs.  What the      *)
(* external runner left unfinished goes on until the process exits.        *)
Runs(k) ==
    /\ result = None
    /\ worker \in IF k \in Conformance
                  THEN {"scenarios"}
                  ELSE {"safety", "receipt"}

(* scenarios.mjs awaits one thing at a time. *)
MayAct(k) ==
    /\ Runs(k)
    /\ service[k] = "open"
    /\ k \in Conformance => Pending(k) = {} /\ busy[k] = None /\ evidence[k] = None
                            /\ closing[k] = "no"
----------------------------------------------------------------------------
(* Starting a scenario.                                                    *)

StartScenario(k) ==
    /\ Runs(k)
    /\ service[k] = "unused"
    /\ service' = [service EXCEPT ![k] = "starting"]
    /\ IF k \in Conformance
       THEN /\ \A j \in Conformance : service[j] # "unused" => closing[j] = "clean"
            /\ UNCHANGED bridgeVars
       ELSE /\ ~active /\ ~stopped
            /\ active' = TRUE
            /\ UNCHANGED stopped
    /\ UNCHANGED <<worker, result, attemptVars, log, leaseVars, evidence, closing>>

ScenarioStarted(k) ==
    /\ Runs(k)
    /\ service[k] = "starting"
    /\ service' = [service EXCEPT ![k] = "open"]
    /\ UNCHANGED <<worker, result, bridgeVars, attemptVars, log, leaseVars, evidence, closing>>

(* The provider fails, or what it returns is not what was asked for. *)
StartFails(k) ==
    /\ Runs(k)
    /\ service[k] = "starting"
    /\ service' = [service EXCEPT ![k] = "refused"]
    /\ IF k \in Conformance
       THEN worker' = "failed" /\ UNCHANGED bridgeVars
       ELSE active' = FALSE /\ stopped' = TRUE /\ UNCHANGED worker
    /\ UNCHANGED <<result, attemptVars, log, leaseVars, evidence, closing>>
----------------------------------------------------------------------------
(* The SDK calls.                                                          *)

Record(k, outcome, request) ==
    attempts' = [attempts EXCEPT ![k] = Append(@, [outcome |-> outcome, request |-> request])]

(* Mutant: the entry is stored before its outcome is known. *)
InvokeUnrecorded(k) ==
    /\ MayAct(k) /\ ~sealed[k] /\ Len(attempts[k]) < MaxCalls[k]
    /\ attempts' = [attempts EXCEPT ![k] = Append(@, [request |-> "sent"])]
    /\ UNCHANGED <<runVars, sealed, incomplete, log, leaseVars, evidence, closing>>

(* invoke(): a call that the SDK rejects by itself sends nothing. *)
Invoke(k) ==
    /\ MayAct(k)
    /\ ~sealed[k]
    /\ Len(attempts[k]) < MaxCalls[k]
    /\ Record(k, "pending", "sent") \/ Record(k, "local_rejected", "none")
    /\ UNCHANGED <<runVars, sealed, incomplete, log, leaseVars, evidence, closing>>

InvokeSealed(k) ==
    /\ MayAct(k)
    /\ sealed[k]
    /\ Invalidate(k)
    /\ UNCHANGED <<runVars, sealed, attempts, log, leaseVars, evidence, closing>>

Settles(k, i, outcome) == attempts' = [attempts EXCEPT ![k][i].outcome = outcome]

(* The call's answer: of the service, or a 403 from before the admission. *)
CallAnswered(k, i) ==
    /\ Runs(k)
    /\ i \in Pending(k)
    /\ \/ attempts[k][i].request = "ok" /\ Settles(k, i, "capability_issued")
       \/ attempts[k][i].request = "denied" /\ Settles(k, i, "http_denied")
       \/ /\ attempts[k][i].request = "sent"
          /\ attempts' = [attempts EXCEPT ![k][i] = [outcome |-> "http_denied", request |-> "none"]]
    /\ UNCHANGED <<runVars, sealed, incomplete, log, leaseVars, evidence, closing>>

(* Any other failure; its request may still be on its way. *)
CallFails(k, i) ==
    /\ Runs(k)
    /\ i \in Pending(k)
    /\ Settles(k, i, "error")
    /\ Invalidate(k)
    /\ UNCHANGED <<runVars, sealed, log, leaseVars, evidence, closing>>

(* The remote service admits a request, and answers it. *)
Admit(k, i) ==
    /\ i \in DOMAIN attempts[k]
    /\ attempts[k][i].request = "sent"
    /\ \E status \in Statuses :
          /\ attempts' = [attempts EXCEPT ![k][i].request = status]
          /\ log' = [log EXCEPT ![k] = Append(@, status)]
    /\ UNCHANGED <<runVars, sealed, incomplete, leaseVars, evidence, closing>>
----------------------------------------------------------------------------
(* The observer lease.                                                     *)

(* A command while another is under way, or after close, fails the lease.  *)
LeaseRefuses(k) == busy[k] # None \/ closed[k]

(* readExchangeCount() and evidence(). *)
Read(k, kind) ==
    /\ MayAct(k)
    /\ kind = "count" => k \in Safety
    /\ reads[k] < MaxReads[k]
    /\ reads' = [reads EXCEPT ![k] = @ + 1]
    /\ IF Complete(k) /\ ~LeaseRefuses(k)
       THEN /\ busy' = [busy EXCEPT ![k] = kind]
            /\ UNCHANGED <<incomplete, failed>>
       ELSE /\ Invalidate(k)
            /\ failed' = IF Complete(k) THEN [failed EXCEPT ![k] = TRUE] ELSE failed
            /\ UNCHANGED busy
    /\ UNCHANGED <<runVars, sealed, attempts, log, closed, reply, previous, evidence, closing>>

(* The observer answers with what has been admitted so far. *)
ObserverAnswers(k) ==
    /\ Runs(k)
    /\ busy[k] # None
    /\ reply[k] = None
    /\ reply' = [reply EXCEPT ![k] = log[k]]
    /\ UNCHANGED <<runVars, attemptVars, log, failed, closed, busy, previous, reads, evidence,
                   closing>>

(* The read's promise settles: its value, or the lease's failure. *)
ReadReturns(k) ==
    LET kind == busy[k] IN
    /\ Runs(k)
    /\ kind \in {"count", "evidence"}
    /\ reply[k] # None
    /\ busy' = [busy EXCEPT ![k] = None]
    /\ reply' = [reply EXCEPT ![k] = None]
    /\ previous' = [previous EXCEPT ![k] = reply[k]]
    /\ LET accepted ==
               /\ ~failed[k] /\ Complete(k)
               /\ IF kind = "count"
                  THEN Len(reply[k]) = Len(Network(k))
                  ELSE Matches(k, reply[k]) IN
       /\ incomplete' = [incomplete EXCEPT ![k] = @ \/ ~accepted]
       /\ evidence' = IF accepted /\ kind = "evidence"
                      THEN [evidence EXCEPT ![k] = reply[k]]
                      ELSE evidence
    /\ UNCHANGED <<runVars, sealed, attempts, log, failed, closed, reads, closing>>

(* The transport fails, the answer does not validate, or 2 s have passed. *)
ReadFails(k) ==
    /\ Runs(k)
    /\ busy[k] \in {"count", "evidence"}
    /\ busy' = [busy EXCEPT ![k] = None]
    /\ reply' = [reply EXCEPT ![k] = None]
    /\ failed' = [failed EXCEPT ![k] = TRUE]
    /\ Invalidate(k)
    /\ UNCHANGED <<runVars, sealed, attempts, log, closed, previous, reads, evidence, closing>>
----------------------------------------------------------------------------
(* Closing a scenario.                                                     *)

(* drain(): new calls are refused, and those under way are aborted and     *)
(* make the record incomplete.                                             *)
Close(k) ==
    /\ Runs(k)
    /\ service[k] = "open"
    /\ closing[k] = "no"
    /\ k \in Conformance => Pending(k) = {} /\ busy[k] = None
    /\ closing' = [closing EXCEPT ![k] = "draining"]
    /\ sealed' = [sealed EXCEPT ![k] = TRUE]
    /\ incomplete' = [incomplete EXCEPT ![k] = @ \/ Pending(k) # {}]
    /\ UNCHANGED <<runVars, attempts, log, leaseVars, evidence>>

(* Mutant: a failed close of a safety scenario only ends the scenario. *)
CloseEndsQuietly(k, ok) ==
    /\ closing' = [closing EXCEPT ![k] = IF ok THEN "clean" ELSE "failed"]
    /\ active' = FALSE
    /\ UNCHANGED <<stopped, worker>>

(* The end of close(), of the bridge or of scenarios.mjs, where the body   *)
(* of the scenario has thrown unless its evidence was accepted.            *)
CloseEndsWith(k, ok) ==
    /\ closing' = [closing EXCEPT ![k] = IF ok THEN "clean" ELSE "failed"]
    /\ IF k \in Conformance
       THEN /\ worker' = IF ok THEN worker ELSE "failed"
            /\ UNCHANGED bridgeVars
       ELSE /\ active' = FALSE
            /\ stopped' = (stopped \/ ~ok)
            /\ UNCHANGED worker

(* The drain is over: its calls have settled, or 2 s have passed; in each  *)
(* case the service is closed, which ends the observer lease.              *)
CloseService(k) ==
    /\ Runs(k)
    /\ closing[k] = "draining"
    /\ IF LeaseRefuses(k)
       THEN /\ failed' = [failed EXCEPT ![k] = TRUE]
            /\ CloseEndsWith(k, FALSE)
            /\ UNCHANGED busy
       ELSE /\ busy' = [busy EXCEPT ![k] = "close"]
            /\ closing' = [closing EXCEPT ![k] = "closing"]
            /\ UNCHANGED <<failed, worker, bridgeVars>>
    /\ UNCHANGED <<result, service, attemptVars, log, closed, reply, previous, reads, evidence>>

Drained(k) == Pending(k) = {} /\ CloseService(k)

(* Mutant: the drain has no timer. *)
DrainWaits(k) == Drained(k) /\ Pending(k) # {}

DrainTimesOut(k) == Pending(k) # {} /\ CloseService(k)

(* Mutant: the last answer is not compared with the one before. *)
Unchanged(k) == TRUE

(* Nothing was admitted between the last read and the close, which is      *)
(* worthless without a read.                                               *)
NothingSinceRead(k) == previous[k] # None /\ reply[k] = previous[k]

(* assertComplete() for the bridge; an accepted evidence for scenarios.mjs. *)
Reconciled(k) == IF k \in Conformance THEN evidence[k] # None ELSE Complete(k)

CloseReturns(k) ==
    /\ Runs(k)
    /\ busy[k] = "close"
    /\ reply[k] # None
    /\ busy' = [busy EXCEPT ![k] = None]
    /\ reply' = [reply EXCEPT ![k] = None]
    /\ closed' = [closed EXCEPT ![k] = previous[k] = None \/ NothingSinceRead(k)]
    /\ failed' = [failed EXCEPT ![k] = @ \/ ~NothingSinceRead(k)]
    /\ CloseEndsWith(k, ~failed[k] /\ NothingSinceRead(k) /\ Reconciled(k))
    /\ UNCHANGED <<result, service, attemptVars, log, previous, reads, evidence>>

CloseFails(k) ==
    /\ Runs(k)
    /\ busy[k] = "close"
    /\ busy' = [busy EXCEPT ![k] = None]
    /\ reply' = [reply EXCEPT ![k] = None]
    /\ failed' = [failed EXCEPT ![k] = TRUE]
    /\ CloseEndsWith(k, FALSE)
    /\ UNCHANGED <<result, service, attemptVars, log, closed, previous, reads, evidence>>

(* The runner closes a scenario once more: the lease refuses.  A close that *)
(* overlaps the first is left out: the lease refuses it, too, and fails,   *)
(* so that both always end as failed.                                      *)
CloseAgain(k) ==
    /\ Runs(k)
    /\ k \in Safety
    /\ closing[k] \in {"clean", "failed"} /\ busy[k] = None /\ closed[k]
    /\ failed' = [failed EXCEPT ![k] = TRUE]
    /\ CloseEndsWith(k, FALSE)
    /\ UNCHANGED <<result, service, attemptVars, log, closed, busy, reply, previous, reads,
                   evidence>>
----------------------------------------------------------------------------
(* The worker and its parent.                                              *)

BeginSafety ==
    /\ result = None
    /\ worker = "scenarios"
    /\ \A k \in Conformance : closing[k] = "clean"
    /\ worker' = "safety"
    /\ UNCHANGED <<result, bridgeVars, service, attemptVars, log, leaseVars, evidence, closing>>

(* The external runner returns complete results; when they are not, the    *)
(* worker only waits for its end.                                          *)
SafetyEnds ==
    /\ result = None
    /\ worker = "safety"
    /\ worker' = "receipt"
    /\ UNCHANGED <<result, bridgeVars, service, attemptVars, log, leaseVars, evidence, closing>>

(* The child exits, or is killed after the time-out. *)
ChildEnds ==
    /\ result = None
    /\ \/ worker = "receipt" /\ result' = "staging_passed"
       \/ result' = "staging_failed"
    /\ UNCHANGED <<worker, bridgeVars, service, attemptVars, log, leaseVars, evidence, closing>>
----------------------------------------------------------------------------
Scenario(k) ==
    \/ StartScenario(k) \/ ScenarioStarted(k) \/ StartFails(k)
    \/ Invoke(k) \/ InvokeSealed(k)
    \/ \E i \in DOMAIN attempts[k] : CallAnswered(k, i) \/ CallFails(k, i) \/ Admit(k, i)
    \/ \E kind \in {"count", "evidence"} : Read(k, kind)
    \/ ObserverAnswers(k) \/ ReadReturns(k) \/ ReadFails(k)
    \/ Close(k) \/ Drained(k) \/ DrainTimesOut(k)
    \/ CloseReturns(k) \/ CloseFails(k) \/ CloseAgain(k)

Next == (\E k \in Scenarios : Scenario(k)) \/ BeginSafety \/ SafetyEnds \/ ChildEnds

Spec == Init /\ [][Next]_vars

(* The two timers of 2 s, of the drain and of the observer's transport,    *)
(* and the reaction to drained calls.                                      *)
FairSpec ==
    /\ Spec
    /\ \A k \in Scenarios :
          /\ WF_vars(Drained(k) \/ DrainTimesOut(k))
          /\ WF_vars(CloseReturns(k) \/ CloseFails(k))
----------------------------------------------------------------------------
(* Properties.                                                             *)

Clean(k) == closing[k] = "clean"

(* A scenario that was closed well has seen everything: what its last read *)
(* returned is all that was admitted, and still is when requests arrive    *)
(* late; and a run has passed only if each conformance scenario's accepted *)
(* evidence is all that was admitted for it (observer-wire.mjs:91-95,      *)
(* attempts.mjs:110-123).                                                  *)
EvidenceIsWhole ==
    /\ \A k \in Scenarios : Clean(k) => log[k] = previous[k] /\ Pending(k) = {}
    /\ result = "staging_passed" =>
           \A k \in Conformance : Clean(k) /\ evidence[k] = log[k] /\ Matches(k, log[k])

(* "The safety bridge permanently blocks another scenario after failed     *)
(* cleanup or an undrained invocation" (docs/staging.md:206-208): one      *)
(* starts only when those before it were closed well and none of their     *)
(* calls or requests is under way.                                         *)
NextWindowIsClean ==
    [][\A k \in Safety :
          service[k] = "unused" /\ service'[k] = "starting" =>
              \A j \in Scenarios \ {k} :
                  service[j] # "unused" =>
                      /\ Clean(j)
                      /\ \A i \in DOMAIN attempts[j] :
                            /\ attempts[j][i].outcome # "pending"
                            /\ attempts[j][i].request # "sent"]_vars

(* close() ends although calls ignore their abort and the observer does    *)
(* not answer (attempts.mjs:40-42, observer.mjs:91-97).                    *)
CloseEnds ==
    \A k \in Scenarios :
        closing[k] \in {"draining", "closing"} ~>
            closing[k] \in {"clean", "failed"} \/ result # None
=============================================================================
