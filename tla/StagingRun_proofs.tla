-------------------------- MODULE StagingRun_proofs --------------------------
(***************************************************************************)
(* Theorems about StagingRun for all scenarios and all bounds: evidence    *)
(* that was accepted is all that the service admitted, and a safety        *)
(* scenario starts only after those before it have come to rest.           *)
(***************************************************************************)
EXTENDS StagingRun, SequenceTheorems, TLAPS

(* The values of one scenario do not change. *)
Same(j) ==
    /\ service'[j] = service[j] /\ sealed'[j] = sealed[j]
    /\ incomplete'[j] = incomplete[j] /\ attempts'[j] = attempts[j]
    /\ log'[j] = log[j] /\ failed'[j] = failed[j] /\ closed'[j] = closed[j]
    /\ busy'[j] = busy[j] /\ reply'[j] = reply[j] /\ previous'[j] = previous[j]
    /\ evidence'[j] = evidence[j] /\ closing'[j] = closing[j]

(* Nothing of a scenario is under way, in a call or on the network. *)
Quiet(k) ==
    \A i \in DOMAIN attempts[k] :
        attempts[k][i].outcome # "pending" /\ attempts[k][i].request # "sent"

(* A call that returned a verdict left no request behind; another makes    *)
(* the record incomplete, as do calls under way when the record is sealed. *)
RecordInv(k) ==
    /\ \A i \in DOMAIN attempts[k] :
          /\ attempts[k][i].outcome \in {"capability_issued", "http_denied", "local_rejected"}
                => attempts[k][i].request # "sent"
          /\ attempts[k][i].outcome = "error" => incomplete[k]
    /\ sealed[k] <=> closing[k] # "no"
    /\ sealed[k] /\ Pending(k) # {} => incomplete[k]

(* The lease answers one command at a time, and none once it is closed. *)
LeaseInv(k) ==
    /\ closing[k] # "no" => service[k] = "open"
    /\ busy[k] = "close" <=> closing[k] = "closing"
    /\ reply[k] # None => busy[k] # None
    /\ closed[k] => closing[k] \in {"clean", "failed"} /\ busy[k] = None

(* Accepted evidence of a conformance scenario stays true. *)
AcceptedInv(k) ==
    k \in Conformance /\ evidence[k] # None =>
        /\ Complete(k)
        /\ previous[k] = evidence[k]
        /\ Matches(k, evidence[k])
        /\ busy[k] \notin {"count", "evidence"}

(* The answer to the close is all that was ever admitted, if it counts. *)
ClosingInv(k) ==
    /\ closing[k] = "closing" /\ reply[k] # None /\ Reconciled(k) => reply[k] = log[k]
    /\ Clean(k) => /\ closed[k] /\ Quiet(k)
                   /\ previous[k] = log[k]
                   /\ k \in Conformance => evidence[k] # None

ScenarioInv(k) == RecordInv(k) /\ LeaseInv(k) /\ AcceptedInv(k) /\ ClosingInv(k)

(* The worker leaves the conformance scenarios when all were closed well;  *)
(* the bridge has at most one safety scenario that was not, unless it is   *)
(* stopped for good.                                                       *)
WorkerInv ==
    /\ worker \in {"safety", "receipt"} => \A k \in Conformance : Clean(k)
    /\ result = "staging_passed" => worker = "receipt"
    /\ ~stopped => \A j, k \in Safety :
          /\ service[j] # "unused" /\ ~Clean(j)
          /\ service[k] # "unused" /\ ~Clean(k)
          => active /\ j = k

StagingInv == TypeOK /\ (\A k \in Scenarios : ScenarioInv(k)) /\ WorkerInv
-------------------------------------------------------------------------------
(* Types. *)

LEMMA CallsAppend ==
  ASSUME NEW calls \in Seq(Calls), NEW call \in Calls
  PROVE  Append(calls, call) \in Seq(Calls)
  BY AppendProperties

LEMMA CallsExcept ==
  ASSUME NEW calls \in Seq(Calls), NEW i \in DOMAIN calls, NEW call \in Calls
  PROVE  [calls EXCEPT ![i] = call] \in Seq(Calls)
  BY ExceptSeq, LenProperties

LEMMA InitTypes == Init => TypeOK
  <1> SUFFICES ASSUME Init
               PROVE  TypeOK
    OBVIOUS
  <1>1. attempts \in [Scenarios -> Seq(Calls)]
    BY EmptySeq DEF Init
  <1>2. log \in [Scenarios -> Seq(Statuses)]
    BY EmptySeq DEF Init
  <1>3. reads \in [Scenarios -> Nat]
    BY DEF Init
  <1>4. QED
    BY <1>1, <1>2, <1>3 DEF Init, TypeOK

(* The steps of one scenario. *)
LEMMA ScenarioTypes ==
  ASSUME TypeOK, NEW k \in Scenarios, Scenario(k)
  PROVE  TypeOK'
  <1> USE DEF TypeOK, Runs, MayAct, runVars, bridgeVars, attemptVars, leaseVars, Invalidate
  <1>1. CASE StartScenario(k)
    BY <1>1 DEF StartScenario
  <1>2. CASE ScenarioStarted(k)
    BY <1>2 DEF ScenarioStarted
  <1>3. CASE StartFails(k)
    BY <1>3 DEF StartFails
  <1>4. CASE Invoke(k)
    <2>1. attempts' \in [Scenarios -> Seq(Calls)]
      <3>1. PICK call \in Calls : attempts' = [attempts EXCEPT ![k] = Append(@, call)]
        BY <1>4 DEF Invoke, Record, Calls, Outcomes
      <3>2. Append(attempts[k], call) \in Seq(Calls)
        BY CallsAppend
      <3>3. QED
        BY <3>1, <3>2
    <2>2. QED
      BY <1>4, <2>1 DEF Invoke
  <1>5. CASE InvokeSealed(k)
    BY <1>5 DEF InvokeSealed
  <1>6. ASSUME NEW i \in DOMAIN attempts[k], CallAnswered(k, i)
        PROVE  TypeOK'
    <2>1. attempts' \in [Scenarios -> Seq(Calls)]
      <3>1. attempts[k][i] \in Calls
        BY ElementOfSeq, LenProperties
      <3>2. PICK call \in Calls : attempts' = [attempts EXCEPT ![k][i] = call]
        BY <1>6, <3>1 DEF CallAnswered, Settles, Calls, Outcomes
      <3>3. [attempts[k] EXCEPT ![i] = call] \in Seq(Calls)
        BY CallsExcept
      <3>4. QED
        BY <3>2, <3>3
    <2>2. QED
      BY <1>6, <2>1 DEF CallAnswered
  <1>7. ASSUME NEW i \in DOMAIN attempts[k], CallFails(k, i)
        PROVE  TypeOK'
    <2>1. attempts' \in [Scenarios -> Seq(Calls)]
      <3>1. attempts[k][i] \in Calls
        BY ElementOfSeq, LenProperties
      <3>2. PICK call \in Calls : attempts' = [attempts EXCEPT ![k][i] = call]
        BY <1>7, <3>1 DEF CallFails, Settles, Calls, Outcomes
      <3>3. [attempts[k] EXCEPT ![i] = call] \in Seq(Calls)
        BY CallsExcept
      <3>4. QED
        BY <3>2, <3>3
    <2>2. QED
      BY <1>7, <2>1 DEF CallFails
  <1>8. ASSUME NEW i \in DOMAIN attempts[k], Admit(k, i)
        PROVE  TypeOK'
    <2>1. PICK status \in Statuses :
            /\ attempts' = [attempts EXCEPT ![k][i].request = status]
            /\ log' = [log EXCEPT ![k] = Append(@, status)]
      BY <1>8 DEF Admit
    <2>2. attempts' \in [Scenarios -> Seq(Calls)]
      <3>1. attempts[k][i] \in Calls
        BY ElementOfSeq, LenProperties
      <3>2. PICK call \in Calls : attempts' = [attempts EXCEPT ![k][i] = call]
        BY <2>1, <3>1 DEF Calls
      <3>3. [attempts[k] EXCEPT ![i] = call] \in Seq(Calls)
        BY CallsExcept
      <3>4. QED
        BY <3>2, <3>3
    <2>3. log' \in [Scenarios -> Seq(Statuses)]
      <3>1. Append(log[k], status) \in Seq(Statuses)
        BY AppendProperties
      <3>2. QED
        BY <2>1, <3>1
    <2>4. QED
      BY <1>8, <2>2, <2>3 DEF Admit
  <1>9. ASSUME NEW kind \in {"count", "evidence"}, Read(k, kind)
        PROVE  TypeOK'
    <2>1. reads' \in [Scenarios -> Nat]
      BY <1>9 DEF Read
    <2>2. CASE Complete(k) /\ ~LeaseRefuses(k)
      BY <1>9, <2>1, <2>2 DEF Read
    <2>3. CASE ~(Complete(k) /\ ~LeaseRefuses(k))
      <3>1. failed' \in [Scenarios -> BOOLEAN] /\ incomplete' \in [Scenarios -> BOOLEAN]
        BY <1>9, <2>3 DEF Read
      <3>2. QED
        BY <1>9, <2>1, <2>3, <3>1 DEF Read
    <2>4. QED
      BY <2>2, <2>3
  <1>10. CASE ObserverAnswers(k)
    BY <1>10 DEF ObserverAnswers
  <1>11. CASE ReadReturns(k)
    BY <1>11 DEF ReadReturns
  <1>12. CASE ReadFails(k)
    BY <1>12 DEF ReadFails
  <1>13. CASE Close(k)
    BY <1>13 DEF Close
  <1>14. CASE CloseService(k)
    BY <1>14 DEF CloseService, CloseEndsWith
  <1>15. CASE CloseReturns(k)
    BY <1>15 DEF CloseReturns, CloseEndsWith
  <1>16. CASE CloseFails(k)
    BY <1>16 DEF CloseFails, CloseEndsWith
  <1>17. CASE CloseAgain(k)
    BY <1>17 DEF CloseAgain, CloseEndsWith
  <1>18. QED
    BY <1>1, <1>2, <1>3, <1>4, <1>5, <1>6, <1>7, <1>8, <1>9, <1>10, <1>11, <1>12, <1>13,
       <1>14, <1>15, <1>16, <1>17 DEF Scenario, Drained, DrainTimesOut

LEMMA NextTypes ==
  ASSUME TypeOK, [Next]_vars
  PROVE  TypeOK'
  <1>1. ASSUME NEW k \in Scenarios, Scenario(k)
        PROVE  TypeOK'
    BY <1>1, ScenarioTypes
  <1>2. CASE BeginSafety
    BY <1>2 DEF BeginSafety, TypeOK, bridgeVars, attemptVars, leaseVars
  <1>3. CASE SafetyEnds
    BY <1>3 DEF SafetyEnds, TypeOK, bridgeVars, attemptVars, leaseVars
  <1>4. CASE ChildEnds
    BY <1>4 DEF ChildEnds, TypeOK, bridgeVars, attemptVars, leaseVars
  <1>5. CASE UNCHANGED vars
    BY <1>5 DEF vars, TypeOK, runVars, bridgeVars, attemptVars, leaseVars
  <1>6. QED
    BY <1>1, <1>2, <1>3, <1>4, <1>5 DEF Next
-------------------------------------------------------------------------------
(* A step of one scenario leaves the others alone. *)
LEMMA OthersSame ==
  ASSUME TypeOK, NEW k \in Scenarios, Scenario(k), NEW j \in Scenarios \ {k}
  PROVE  Same(j)
  <1> USE DEF TypeOK, Same, runVars, bridgeVars, attemptVars, leaseVars, Invalidate
  <1>1. CASE StartScenario(k) \/ ScenarioStarted(k) \/ StartFails(k)
    BY <1>1 DEF StartScenario, ScenarioStarted, StartFails
  <1>2. CASE Invoke(k) \/ InvokeSealed(k)
    BY <1>2 DEF Invoke, InvokeSealed, Record
  <1>3. ASSUME NEW i, CallAnswered(k, i) \/ CallFails(k, i) \/ Admit(k, i)
        PROVE  Same(j)
    BY <1>3 DEF CallAnswered, CallFails, Admit, Settles
  <1>4. ASSUME NEW kind, Read(k, kind)
        PROVE  Same(j)
    BY <1>4 DEF Read
  <1>5. CASE ObserverAnswers(k) \/ ReadReturns(k) \/ ReadFails(k)
    BY <1>5 DEF ObserverAnswers, ReadReturns, ReadFails
  <1>6. CASE Close(k)
    BY <1>6 DEF Close
  <1>7. CASE CloseService(k)
    BY <1>7 DEF CloseService, CloseEndsWith
  <1>8. CASE CloseReturns(k) \/ CloseFails(k) \/ CloseAgain(k)
    BY <1>8 DEF CloseReturns, CloseFails, CloseAgain, CloseEndsWith
  <1>9. QED
    BY <1>1, <1>2, <1>3, <1>4, <1>5, <1>6, <1>7, <1>8 DEF Scenario, Drained, DrainTimesOut

(* What says nothing of other scenarios is kept by their steps. *)
LEMMA SameInv ==
  ASSUME NEW j \in Scenarios, ScenarioInv(j), Same(j)
  PROVE  ScenarioInv(j)'
  <1> USE DEF Same, Pending, Complete, Clean
  <1>1. RecordInv(j)'
    BY DEF ScenarioInv, RecordInv
  <1>2. LeaseInv(j)'
    BY DEF ScenarioInv, LeaseInv
  <1>3. AcceptedInv(j)'
    BY DEF ScenarioInv, AcceptedInv, Matches, Network
  <1>4. ClosingInv(j)'
    BY DEF ScenarioInv, ClosingInv, Reconciled, Quiet
  <1>5. QED
    BY <1>1, <1>2, <1>3, <1>4 DEF ScenarioInv
-------------------------------------------------------------------------------
(* A step of a scenario keeps its invariant. *)

(* A record that is complete has nothing under way. *)
LEMMA CompleteIsQuiet ==
  ASSUME TypeOK, NEW k \in Scenarios, RecordInv(k), Complete(k)
  PROVE  Quiet(k)
  <1> SUFFICES ASSUME NEW i \in DOMAIN attempts[k]
               PROVE  attempts[k][i].outcome # "pending" /\ attempts[k][i].request # "sent"
    BY DEF Quiet
  <1>1. attempts[k][i] \in Calls
    BY ElementOfSeq, LenProperties DEF TypeOK
  <1>2. attempts[k][i].outcome \in Outcomes
    BY <1>1 DEF Calls
  <1>3. QED
    BY <1>2 DEF RecordInv, Complete, Pending, Outcomes

(* The calls: only the record changes, and only while it is unfinished. *)
LEMMA CallStep ==
  ASSUME TypeOK, NEW k \in Scenarios, ScenarioInv(k),
         \/ Invoke(k) \/ InvokeSealed(k)
         \/ \E i \in DOMAIN attempts[k] : CallAnswered(k, i) \/ CallFails(k, i) \/ Admit(k, i)
  PROVE  ScenarioInv(k)'
  <1> USE DEF runVars, leaseVars, bridgeVars, attemptVars, Clean, Invalidate, Runs, MayAct
  <1>1. CASE Invoke(k)
    <2>1. PICK call \in Calls :
            /\ attempts' = [attempts EXCEPT ![k] = Append(@, call)]
            /\ call.outcome \in {"pending", "local_rejected"}
            /\ call.outcome = "local_rejected" => call.request = "none"
      BY <1>1 DEF Invoke, Record, Calls, Outcomes
    <2>2. attempts[k] \in Seq(Calls) /\ attempts'[k] = Append(attempts[k], call)
      BY <2>1 DEF TypeOK
    <2>3. /\ DOMAIN attempts'[k] = DOMAIN attempts[k] \cup {Len(attempts[k]) + 1}
          /\ \A i \in DOMAIN attempts[k] : attempts'[k][i] = attempts[k][i]
          /\ attempts'[k][Len(attempts[k]) + 1] = call
      BY <2>2, AppendProperties, LenProperties
    <2>4. RecordInv(k)'
      BY <1>1, <2>1, <2>3 DEF Invoke, ScenarioInv, RecordInv
    <2>5. LeaseInv(k)'
      BY <1>1 DEF Invoke, ScenarioInv, LeaseInv
    <2>6. AcceptedInv(k)'
      BY <1>1 DEF Invoke, AcceptedInv
    <2>7. ClosingInv(k)'
      BY <1>1 DEF Invoke, ScenarioInv, ClosingInv, RecordInv
    <2>8. QED
      BY <2>4, <2>5, <2>6, <2>7 DEF ScenarioInv
  <1>2. CASE InvokeSealed(k)
    <2>1. incomplete'[k] = TRUE
      BY <1>2 DEF InvokeSealed, TypeOK
    <2>2. RecordInv(k)'
      BY <1>2, <2>1 DEF InvokeSealed, ScenarioInv, RecordInv
    <2>3. LeaseInv(k)'
      BY <1>2 DEF InvokeSealed, ScenarioInv, LeaseInv
    <2>4. AcceptedInv(k)'
      BY <1>2 DEF InvokeSealed, AcceptedInv
    <2>5. ClosingInv(k)'
      BY <1>2, <2>1 DEF InvokeSealed, ScenarioInv, ClosingInv, RecordInv, Reconciled, Complete, Quiet
    <2>6. QED
      BY <2>2, <2>3, <2>4, <2>5 DEF ScenarioInv
  <1>3. ASSUME NEW i \in DOMAIN attempts[k],
               CallAnswered(k, i) \/ CallFails(k, i) \/ Admit(k, i)
        PROVE  ScenarioInv(k)'
    <2>1. attempts[k] \in Seq(Calls) /\ attempts[k][i] \in Calls
      BY ElementOfSeq, LenProperties DEF TypeOK
    <2>2. PICK call \in Calls :
            /\ attempts' = [attempts EXCEPT ![k][i] = call]
            /\ call.outcome \in {"capability_issued", "http_denied"} => call.request # "sent"
            /\ call.outcome = "error" => attempts[k][i].outcome = "error" \/ incomplete'[k]
            /\ call.outcome = "local_rejected" => attempts[k][i].outcome = "local_rejected"
            /\ call.request = "sent" => attempts[k][i].request = "sent"
            /\ call.outcome = "pending" => attempts[k][i].outcome = "pending"
      BY <1>3, <2>1 DEF CallAnswered, CallFails, Admit, Settles, Calls, Outcomes, Statuses, TypeOK
    <2>3. /\ DOMAIN attempts'[k] = DOMAIN attempts[k]
          /\ \A n \in DOMAIN attempts[k] :
                attempts'[k][n] = IF n = i THEN call ELSE attempts[k][n]
      BY <2>2 DEF TypeOK
    <2>4. ~Quiet(k)
      BY <1>3 DEF CallAnswered, CallFails, Admit, Pending, Quiet
    <2>5. ~Complete(k)
      BY <2>4, CompleteIsQuiet DEF ScenarioInv
    <2>6. incomplete[k] => incomplete'[k]
      BY <1>3 DEF CallAnswered, CallFails, Admit, TypeOK
    <2>7. UNCHANGED <<sealed, closing, service, busy, reply, closed, evidence, previous>>
      BY <1>3 DEF CallAnswered, CallFails, Admit
    <2>8. RecordInv(k)'
      BY <2>2, <2>3, <2>6, <2>7 DEF ScenarioInv, RecordInv, Pending
    <2>9. LeaseInv(k)'
      BY <2>7 DEF ScenarioInv, LeaseInv
    <2>10. AcceptedInv(k)'
      BY <2>5, <2>7 DEF ScenarioInv, AcceptedInv
    <2>11. ClosingInv(k)'
      <3>1. ~Clean(k)
        BY <2>4 DEF ScenarioInv, ClosingInv
      <3>2. closing[k] = "closing" /\ Reconciled(k)' => k \notin Conformance
        BY <2>5, <2>7 DEF ScenarioInv, AcceptedInv, Reconciled
      <3>3. closing[k] = "closing" => sealed[k]
        BY DEF ScenarioInv, RecordInv
      <3>4. closing[k] = "closing" => incomplete[k]
        BY <2>5, <3>3 DEF ScenarioInv, RecordInv, Complete
      <3>5. QED
        BY <2>6, <2>7, <3>1, <3>2, <3>4 DEF ClosingInv, Reconciled, Complete
    <2>12. QED
      BY <2>8, <2>9, <2>10, <2>11 DEF ScenarioInv
  <1>4. QED
    BY <1>1, <1>2, <1>3

(* The commands of the observer lease. *)
LEMMA LeaseStep ==
  ASSUME TypeOK, StagingAssumption, NoneAssumption, NEW k \in Scenarios, ScenarioInv(k),
         \/ \E kind \in {"count", "evidence"} : Read(k, kind)
         \/ ObserverAnswers(k) \/ ReadReturns(k) \/ ReadFails(k)
  PROVE  ScenarioInv(k)'
  <1> USE DEF runVars, attemptVars, bridgeVars, Clean, Runs, MayAct, Invalidate
  <1>1. ASSUME NEW kind \in {"count", "evidence"}, Read(k, kind)
        PROVE  ScenarioInv(k)'
    <2>1. UNCHANGED <<sealed, attempts, log, closed, reply, previous, evidence, closing, service>>
      BY <1>1 DEF Read
    <2>2. incomplete[k] => incomplete'[k]
      BY <1>1 DEF Read, TypeOK
    <2>3. \/ busy' = busy
          \/ busy'[k] = kind /\ busy[k] = None /\ ~closed[k]
      BY <1>1 DEF Read, LeaseRefuses, TypeOK
    <2>4. RecordInv(k)'
      BY <2>1, <2>2 DEF ScenarioInv, RecordInv, Pending
    <2>5. LeaseInv(k)'
      BY <2>1, <2>3, NoneAssumption DEF ScenarioInv, LeaseInv
    <2>6. AcceptedInv(k)'
      BY <1>1, <2>1 DEF Read, ScenarioInv, AcceptedInv
    <2>7. Reconciled(k)' => Reconciled(k)
      BY <2>1, <2>2 DEF Reconciled, Complete, Pending
    <2>8. ClosingInv(k)'
      BY <2>1, <2>7 DEF ScenarioInv, ClosingInv, Quiet
    <2>9. QED
      BY <2>4, <2>5, <2>6, <2>8 DEF ScenarioInv
  <1>2. CASE ObserverAnswers(k)
    <2>1. UNCHANGED <<sealed, incomplete, attempts, log, closed, busy, previous, evidence, closing, service>>
      BY <1>2 DEF ObserverAnswers, leaseVars
    <2>2. reply'[k] = log[k] /\ busy[k] # None
      BY <1>2 DEF ObserverAnswers, TypeOK
    <2>3. RecordInv(k)' /\ LeaseInv(k)'
      BY <2>1, <2>2 DEF ScenarioInv, RecordInv, LeaseInv, Pending
    <2>4. AcceptedInv(k)'
      BY <2>1 DEF ScenarioInv, AcceptedInv, Complete, Pending, Matches, Network
    <2>5. ClosingInv(k)'
      BY <2>1, <2>2 DEF ScenarioInv, ClosingInv, Quiet
    <2>6. QED
      BY <2>3, <2>4, <2>5 DEF ScenarioInv
  <1>3. CASE ReadReturns(k)
    <2>1. UNCHANGED <<sealed, attempts, log, closed, closing, service>>
      BY <1>3 DEF ReadReturns
    <2>2. /\ busy[k] \in {"count", "evidence"} /\ busy'[k] = None
          /\ reply[k] # None /\ reply'[k] = None
          /\ previous'[k] = reply[k]
      BY <1>3 DEF ReadReturns, TypeOK
    <2>3. incomplete[k] => incomplete'[k]
      BY <1>3 DEF ReadReturns, TypeOK
    <2>4. closing[k] \notin {"closing", "clean"}
      BY <2>2, NoneAssumption DEF ScenarioInv, LeaseInv, ClosingInv
    <2>5. RecordInv(k)'
      BY <2>1, <2>3 DEF ScenarioInv, RecordInv, Pending
    <2>6. LeaseInv(k)'
      BY <2>1, <2>2, <2>4, NoneAssumption DEF ScenarioInv, LeaseInv
    <2>7. AcceptedInv(k)'
      <3>1. SUFFICES ASSUME k \in Conformance, evidence'[k] # None
                     PROVE  /\ Complete(k)' /\ Matches(k, evidence[k])'
                            /\ evidence'[k] = reply[k]
        BY <2>2, NoneAssumption DEF AcceptedInv
      <3>2. evidence[k] = None
        BY <2>2, <3>1 DEF ScenarioInv, AcceptedInv
      <3>3. /\ evidence'[k] = reply[k]
            /\ Complete(k) /\ Matches(k, reply[k])
            /\ incomplete'[k] = incomplete[k]
        BY <1>3, <3>1, <3>2 DEF ReadReturns, TypeOK
      <3>4. QED
        BY <2>1, <3>3 DEF Complete, Pending, Matches, Network
    <2>8. ClosingInv(k)'
      BY <2>1, <2>4 DEF ClosingInv
    <2>9. QED
      BY <2>5, <2>6, <2>7, <2>8 DEF ScenarioInv
  <1>4. CASE ReadFails(k)
    <2>1. UNCHANGED <<sealed, attempts, log, closed, closing, service, previous, evidence>>
      BY <1>4 DEF ReadFails
    <2>2. busy[k] \in {"count", "evidence"} /\ busy'[k] = None /\ reply'[k] = None
      BY <1>4 DEF ReadFails, TypeOK
    <2>3. incomplete'[k]
      BY <1>4 DEF ReadFails, TypeOK
    <2>4. closing[k] \notin {"closing", "clean"}
      BY <2>2, NoneAssumption DEF ScenarioInv, LeaseInv, ClosingInv
    <2>5. RecordInv(k)'
      BY <2>1, <2>3 DEF ScenarioInv, RecordInv
    <2>6. LeaseInv(k)'
      BY <2>1, <2>2, <2>4, NoneAssumption DEF ScenarioInv, LeaseInv
    <2>7. AcceptedInv(k)'
      BY <2>1, <2>2 DEF ScenarioInv, AcceptedInv
    <2>8. ClosingInv(k)'
      BY <2>1, <2>4 DEF ClosingInv
    <2>9. QED
      BY <2>5, <2>6, <2>7, <2>8 DEF ScenarioInv
  <1>5. QED
    BY <1>1, <1>2, <1>3, <1>4

(* Closing a scenario. *)
LEMMA CloseStep ==
  ASSUME TypeOK, NoneAssumption, NEW k \in Scenarios, ScenarioInv(k),
         Close(k) \/ CloseService(k) \/ CloseReturns(k) \/ CloseFails(k) \/ CloseAgain(k)
  PROVE  ScenarioInv(k)'
  <1> USE DEF attemptVars, Clean, Runs
  <1>1. CASE Close(k)
    <2>1. UNCHANGED <<attempts, log, closed, busy, reply, previous, evidence, service>>
      BY <1>1 DEF Close, leaseVars, runVars
    <2>2. /\ sealed'[k] /\ closing'[k] = "draining" /\ service[k] = "open"
          /\ closing[k] = "no"
      BY <1>1 DEF Close, TypeOK
    <2>3. /\ incomplete[k] => incomplete'[k]
          /\ Pending(k) # {} => incomplete'[k]
          /\ Pending(k) = {} => incomplete'[k] = incomplete[k]
      BY <1>1 DEF Close, TypeOK
    <2>4. RecordInv(k)'
      BY <2>1, <2>2, <2>3 DEF ScenarioInv, RecordInv, Pending
    <2>5. LeaseInv(k)'
      BY <2>1, <2>2 DEF ScenarioInv, LeaseInv
    <2>6. AcceptedInv(k)'
      BY <2>1, <2>3 DEF ScenarioInv, AcceptedInv, Complete, Pending, Matches, Network
    <2>7. ClosingInv(k)'
      BY <2>2 DEF ClosingInv
    <2>8. QED
      BY <2>4, <2>5, <2>6, <2>7 DEF ScenarioInv
  <1>2. CASE CloseService(k)
    <2>1. UNCHANGED <<sealed, incomplete, attempts, log, closed, reply, previous, evidence, service>>
      BY <1>2 DEF CloseService
    <2>2. closing[k] = "draining"
      BY <1>2 DEF CloseService
    <2>3. \/ busy' = busy /\ closing'[k] = "failed"
          \/ /\ busy[k] = None /\ ~closed[k]
             /\ busy'[k] = "close" /\ closing'[k] = "closing"
      BY <1>2 DEF CloseService, CloseEndsWith, LeaseRefuses, TypeOK
    <2>4. RecordInv(k)'
      BY <2>1, <2>2, <2>3 DEF ScenarioInv, RecordInv, Pending
    <2>5. LeaseInv(k)'
      BY <2>1, <2>2, <2>3, NoneAssumption DEF ScenarioInv, LeaseInv
    <2>6. AcceptedInv(k)'
      BY <2>1, <2>3 DEF ScenarioInv, AcceptedInv, Complete, Pending, Matches, Network
    <2>7. ClosingInv(k)'
      BY <2>1, <2>3 DEF ScenarioInv, LeaseInv, ClosingInv
    <2>8. QED
      BY <2>4, <2>5, <2>6, <2>7 DEF ScenarioInv
  <1>3. CASE CloseReturns(k)
    <2>1. UNCHANGED <<sealed, incomplete, attempts, log, previous, evidence, service>>
      BY <1>3 DEF CloseReturns
    <2>2. /\ closing[k] = "closing" /\ reply[k] # None
          /\ busy'[k] = None /\ reply'[k] = None
          /\ closing'[k] \in {"clean", "failed"}
      BY <1>3 DEF CloseReturns, CloseEndsWith, ScenarioInv, LeaseInv, TypeOK
    <2>3. closing'[k] = "clean" => closed'[k] /\ reply[k] = previous[k] /\ Reconciled(k)
      BY <1>3 DEF CloseReturns, CloseEndsWith, NothingSinceRead, TypeOK
    <2>4. RecordInv(k)'
      BY <2>1, <2>2 DEF ScenarioInv, RecordInv, Pending
    <2>5. LeaseInv(k)'
      BY <2>1, <2>2, NoneAssumption DEF ScenarioInv, LeaseInv
    <2>6. AcceptedInv(k)'
      BY <2>1, <2>2, NoneAssumption DEF ScenarioInv, AcceptedInv, Complete, Pending, Matches, Network
    <2>7. ClosingInv(k)'
      <3>1. SUFFICES ASSUME closing'[k] = "clean"
                     PROVE  /\ closed'[k] /\ Quiet(k)'
                            /\ previous'[k] = log'[k]
                            /\ k \in Conformance => evidence'[k] # None
        BY <2>2 DEF ClosingInv
      <3>2. Reconciled(k)
        BY <2>3, <3>1
      <3>3. Complete(k)
        BY <3>2 DEF Reconciled, ScenarioInv, AcceptedInv
      <3>4. Quiet(k)
        BY <3>3, CompleteIsQuiet DEF ScenarioInv
      <3>5. previous[k] = log[k]
        BY <2>2, <2>3, <3>1, <3>2 DEF ScenarioInv, ClosingInv
      <3>6. QED
        BY <2>1, <2>3, <3>1, <3>2, <3>4, <3>5 DEF Quiet, Reconciled
    <2>8. QED
      BY <2>4, <2>5, <2>6, <2>7 DEF ScenarioInv
  <1>4. CASE CloseFails(k) \/ CloseAgain(k)
    <2>1. UNCHANGED <<sealed, incomplete, attempts, log, closed, previous, evidence, service>>
      BY <1>4 DEF CloseFails, CloseAgain
    <2>2. closing[k] \notin {"no", "draining"} /\ closing'[k] = "failed"
      BY <1>4 DEF CloseFails, CloseAgain, CloseEndsWith, ScenarioInv, LeaseInv, TypeOK
    <2>3. busy'[k] = None /\ (reply'[k] # None => reply[k] # None /\ busy[k] = None)
      BY <1>4 DEF CloseFails, CloseAgain, TypeOK
    <2>4. RecordInv(k)'
      BY <2>1, <2>2 DEF ScenarioInv, RecordInv, Pending
    <2>5. LeaseInv(k)'
      BY <2>1, <2>2, <2>3, NoneAssumption DEF ScenarioInv, LeaseInv
    <2>6. AcceptedInv(k)'
      BY <2>1, <2>3, NoneAssumption DEF ScenarioInv, AcceptedInv, Complete, Pending, Matches, Network
    <2>7. ClosingInv(k)'
      BY <2>2 DEF ClosingInv
    <2>8. QED
      BY <2>4, <2>5, <2>6, <2>7 DEF ScenarioInv
  <1>5. QED
    BY <1>1, <1>2, <1>3, <1>4

(* Starting it. *)
LEMMA StartStep ==
  ASSUME TypeOK, NEW k \in Scenarios, ScenarioInv(k),
         StartScenario(k) \/ ScenarioStarted(k) \/ StartFails(k)
  PROVE  ScenarioInv(k)'
  <1>1. UNCHANGED <<attemptVars, log, leaseVars, evidence, closing>>
    BY DEF StartScenario, ScenarioStarted, StartFails
  <1>2. closing[k] = "no"
    BY DEF StartScenario, ScenarioStarted, StartFails, ScenarioInv, LeaseInv
  <1> USE DEF attemptVars, leaseVars, Clean
  <1>3. RecordInv(k)'
    BY <1>1 DEF ScenarioInv, RecordInv, Pending
  <1>4. LeaseInv(k)'
    BY <1>1, <1>2 DEF ScenarioInv, LeaseInv
  <1>5. AcceptedInv(k)'
    BY <1>1 DEF ScenarioInv, AcceptedInv, Complete, Pending, Matches, Network
  <1>6. ClosingInv(k)'
    BY <1>1, <1>2 DEF ClosingInv
  <1>7. QED
    BY <1>3, <1>4, <1>5, <1>6 DEF ScenarioInv

LEMMA NextScenarios ==
  ASSUME StagingInv, StagingAssumption, NoneAssumption, [Next]_vars
  PROVE  \A k \in Scenarios : ScenarioInv(k)'
  <1>1. ASSUME NEW k \in Scenarios, Scenario(k), NEW j \in Scenarios
        PROVE  ScenarioInv(j)'
    <2>1. CASE j = k
      BY <1>1, <2>1, StartStep, CallStep, LeaseStep, CloseStep
         DEF StagingInv, Scenario, Drained, DrainTimesOut
    <2>2. CASE j # k
      BY <1>1, <2>2, OthersSame, SameInv DEF StagingInv
    <2>3. QED
      BY <2>1, <2>2
  <1>2. ASSUME BeginSafety \/ SafetyEnds \/ ChildEnds \/ UNCHANGED vars, NEW j \in Scenarios
        PROVE  ScenarioInv(j)'
    <2>1. Same(j)
      BY <1>2 DEF Same, BeginSafety, SafetyEnds, ChildEnds, vars, runVars, attemptVars, leaseVars
    <2>2. QED
      BY <2>1, SameInv DEF StagingInv
  <1>3. QED
    BY <1>1, <1>2 DEF Next

(* The worker and the bridge.                                              *)

(* A step that starts and closes nothing. *)
LEMMA BridgeSame ==
  ASSUME WorkerInv, UNCHANGED runVars,
         \A j \in Scenarios : Clean(j)' <=> Clean(j)
  PROVE  WorkerInv'
  <1>1. /\ worker' = worker /\ result' = result /\ service' = service
        /\ active' = active /\ stopped' = stopped
    BY DEF runVars, bridgeVars
  <1>2. QED
    BY <1>1 DEF WorkerInv, Scenarios

LEMMA ScenarioWorker ==
  ASSUME TypeOK, NEW k \in Scenarios, ScenarioInv(k), StagingAssumption, WorkerInv, Scenario(k)
  PROVE  WorkerInv'
  <1> USE DEF bridgeVars, runVars
  <1>1. CASE StartScenario(k)
    <2>1. /\ result = None /\ worker' = worker /\ result' = result /\ closing' = closing
          /\ \A j \in Scenarios \ {k} : service'[j] = service[j]
      BY <1>1 DEF StartScenario, Runs, TypeOK
    <2>2. CASE k \in Conformance
      <3>1. UNCHANGED <<active, stopped>>
        BY <1>1, <2>2 DEF StartScenario
      <3>2. \A j \in Safety : service'[j] = service[j]
        BY <2>1, <2>2 DEF StagingAssumption, Scenarios
      <3>3. QED
        BY <2>1, <3>1, <3>2 DEF WorkerInv, Clean
    <2>3. CASE k \in Safety
      <3>1. ~active /\ ~stopped /\ active' /\ stopped' = stopped
        BY <1>1, <2>3 DEF StartScenario, StagingAssumption
      <3>2. \A j \in Safety : service[j] = "unused" \/ Clean(j)
        BY <3>1 DEF WorkerInv
      <3>3. \A j \in Safety : service'[j] # "unused" /\ ~Clean(j)' => j = k
        BY <2>1, <3>2 DEF Clean, Scenarios
      <3>4. QED
        BY <2>1, <3>1, <3>3 DEF WorkerInv, Clean
    <2>4. QED
      BY <2>2, <2>3 DEF Scenarios
  <1>2. CASE StartFails(k)
    <2>1. result' = result /\ closing' = closing /\ result = None
      BY <1>2 DEF StartFails, Runs
    <2>2. CASE k \in Conformance
      <3>1. /\ worker' = "failed" /\ UNCHANGED <<active, stopped>>
            /\ \A j \in Safety : service'[j] = service[j]
        BY <1>2, <2>2 DEF StartFails, TypeOK, StagingAssumption, Scenarios
      <3>2. result = "staging_passed" => worker' = "receipt"
        BY <1>2, <2>2 DEF StartFails, Runs, WorkerInv
      <3>3. QED
        BY <2>1, <3>1, <3>2 DEF WorkerInv, Clean
    <2>3. CASE k \in Safety
      <3>1. stopped' /\ worker' = worker
        BY <1>2, <2>3 DEF StartFails, StagingAssumption
      <3>2. QED
        BY <2>1, <3>1 DEF WorkerInv, Clean
    <2>4. QED
      BY <2>2, <2>3 DEF Scenarios
  <1>3. ASSUME closing' = [closing EXCEPT ![k] = closing'[k]], closing[k] # "clean",
               UNCHANGED <<result, service>>, service[k] # "unused",
               \E ok \in BOOLEAN : CloseEndsWith(k, ok), Runs(k)
        PROVE  WorkerInv'
    <2>1. PICK ok \in BOOLEAN : CloseEndsWith(k, ok)
      BY <1>3
    <2>2. closing'[k] = IF ok THEN "clean" ELSE "failed"
      BY <2>1 DEF CloseEndsWith, TypeOK
    <2>3. \A j \in Scenarios \ {k} : closing'[j] = closing[j]
      BY <1>3 DEF TypeOK
    <2>4. CASE k \in Conformance
      <3>1. worker' \in {worker, "failed"} /\ UNCHANGED <<active, stopped>> /\ worker = "scenarios"
        BY <1>3, <2>1, <2>4 DEF CloseEndsWith, Runs
      <3>2. \A j \in Safety : closing'[j] = closing[j]
        BY <2>3, <2>4 DEF StagingAssumption, Scenarios
      <3>3. QED
        BY <1>3, <3>1, <3>2 DEF WorkerInv, Clean
    <2>5. CASE k \in Safety
      <3>1. worker' = worker /\ ~active' /\ stopped' = (stopped \/ ~ok)
        BY <2>1, <2>5 DEF CloseEndsWith, StagingAssumption
      <3>2. \A j \in Conformance : closing'[j] = closing[j]
        BY <2>3, <2>5 DEF StagingAssumption, Scenarios
      <3>3. ~stopped' => \A j \in Safety : service'[j] # "unused" => Clean(j)'
        <4>1. SUFFICES ASSUME ~stopped', NEW j \in Safety, service'[j] # "unused"
                       PROVE  Clean(j)'
          OBVIOUS
        <4>2. ~stopped /\ ok
          BY <3>1, <4>1
        <4>3. CASE j = k
          BY <2>2, <4>2, <4>3 DEF Clean
        <4>4. CASE j # k
          BY <1>3, <2>3, <2>5, <4>1, <4>2, <4>4 DEF WorkerInv, Clean, Scenarios
        <4>5. QED
          BY <4>3, <4>4
      <3>4. QED
        BY <1>3, <3>1, <3>2, <3>3 DEF WorkerInv, Clean
    <2>6. QED
      BY <2>4, <2>5 DEF Scenarios
  <1>4. CASE CloseReturns(k) \/ CloseFails(k)
    <2>1. closing[k] = "closing" /\ service[k] = "open"
      BY <1>4 DEF CloseReturns, CloseFails, ScenarioInv, LeaseInv
    <2>2. UNCHANGED <<result, service>> /\ Runs(k) /\ \E ok \in BOOLEAN : CloseEndsWith(k, ok)
      BY <1>4 DEF CloseReturns, CloseFails
    <2>3. closing' = [closing EXCEPT ![k] = closing'[k]]
      BY <2>2 DEF CloseEndsWith, TypeOK
    <2>4. QED
      BY <1>3, <2>1, <2>2, <2>3
  <1>5. CASE CloseAgain(k)
    <2>1. k \in Safety /\ UNCHANGED <<result, service>> /\ CloseEndsWith(k, FALSE)
      BY <1>5 DEF CloseAgain
    <2>2. stopped' /\ worker' = worker /\ \A j \in Conformance : closing'[j] = closing[j]
      BY <2>1 DEF CloseEndsWith, StagingAssumption, TypeOK, Scenarios
    <2>3. QED
      BY <2>1, <2>2 DEF WorkerInv, Clean
  <1>6. CASE CloseService(k)
    <2>1. CASE CloseEndsWith(k, FALSE)
      <3>1. closing[k] # "clean" /\ service[k] # "unused" /\ UNCHANGED <<result, service>> /\ Runs(k)
        BY <1>6 DEF CloseService, ScenarioInv, LeaseInv
      <3>2. closing' = [closing EXCEPT ![k] = closing'[k]]
        BY <2>1 DEF CloseEndsWith, TypeOK
      <3>3. QED
        BY <1>3, <2>1, <3>1, <3>2
    <2>2. CASE ~CloseEndsWith(k, FALSE)
      <3>1. UNCHANGED runVars
        BY <1>6, <2>2 DEF CloseService
      <3>2. \A j \in Scenarios : Clean(j)' <=> Clean(j)
        BY <1>6, <2>2 DEF CloseService, TypeOK, Clean
      <3>3. QED
        BY <3>1, <3>2, BridgeSame
    <2>3. QED
      BY <2>1, <2>2
  <1>7. CASE ScenarioStarted(k)
    <2>1. /\ UNCHANGED <<worker, result, active, stopped, closing>>
          /\ \A j \in Scenarios : service'[j] # "unused" <=> service[j] # "unused"
      BY <1>7 DEF ScenarioStarted, TypeOK
    <2>2. QED
      BY <2>1 DEF WorkerInv, Clean, Scenarios
  <1>8. CASE Close(k)
    <2>1. UNCHANGED runVars
      BY <1>8 DEF Close
    <2>2. \A j \in Scenarios : Clean(j)' <=> Clean(j)
      BY <1>8 DEF Close, TypeOK, Clean
    <2>3. QED
      BY <2>1, <2>2, BridgeSame
  <1>9. CASE UNCHANGED <<runVars, closing>>
    <2>1. \A j \in Scenarios : Clean(j)' <=> Clean(j)
      BY <1>9 DEF Clean
    <2>2. QED
      BY <1>9, <2>1, BridgeSame
  <1>10. QED
    <2>1. ASSUME NEW i, CallAnswered(k, i) \/ CallFails(k, i) \/ Admit(k, i)
          PROVE  UNCHANGED <<runVars, closing>>
      BY <2>1 DEF CallAnswered, CallFails, Admit, leaseVars
    <2>2. ASSUME NEW kind, Read(k, kind)
          PROVE  UNCHANGED <<runVars, closing>>
      BY <2>2 DEF Read
    <2>3. CASE Invoke(k) \/ InvokeSealed(k) \/ ObserverAnswers(k) \/ ReadReturns(k) \/ ReadFails(k)
      BY <1>9, <2>3 DEF Invoke, InvokeSealed, ObserverAnswers, ReadReturns, ReadFails
    <2>4. QED
      BY <1>1, <1>2, <1>4, <1>5, <1>6, <1>7, <1>8, <1>9, <2>1, <2>2, <2>3
         DEF Scenario, Drained, DrainTimesOut

LEMMA NextWorker ==
  ASSUME StagingInv, StagingAssumption, [Next]_vars
  PROVE  WorkerInv'
  <1>1. ASSUME NEW k \in Scenarios, Scenario(k)
        PROVE  WorkerInv'
    BY <1>1, ScenarioWorker DEF StagingInv
  <1>2. CASE BeginSafety
    BY <1>2 DEF BeginSafety, StagingInv, WorkerInv, Clean, bridgeVars
  <1>3. CASE SafetyEnds
    BY <1>3 DEF SafetyEnds, StagingInv, WorkerInv, Clean, bridgeVars
  <1>4. CASE ChildEnds
    BY <1>4 DEF ChildEnds, StagingInv, WorkerInv, Clean, bridgeVars
  <1>5. CASE UNCHANGED vars
    BY <1>5 DEF vars, runVars, bridgeVars, StagingInv, WorkerInv, Clean
  <1>6. QED
    BY <1>1, <1>2, <1>3, <1>4, <1>5 DEF Next

LEMMA InitStaging ==
  ASSUME Init, NoneAssumption
  PROVE  StagingInv
  <1>1. TypeOK
    BY InitTypes
  <1>2. ASSUME NEW k \in Scenarios
        PROVE  ScenarioInv(k)
    <2>1. /\ attempts[k] = <<>> /\ ~sealed[k] /\ closing[k] = "no" /\ busy[k] = None
          /\ reply[k] = None /\ ~closed[k] /\ evidence[k] = None
      BY DEF Init
    <2>2. DOMAIN attempts[k] = {}
      BY <2>1
    <2>3. RecordInv(k)
      BY <2>1, <2>2 DEF RecordInv
    <2>4. LeaseInv(k) /\ AcceptedInv(k) /\ ClosingInv(k)
      BY <2>1, NoneAssumption DEF LeaseInv, AcceptedInv, ClosingInv, Clean
    <2>5. QED
      BY <2>3, <2>4 DEF ScenarioInv
  <1>3. WorkerInv
    BY DEF Init, WorkerInv, Scenarios, NoneAssumption
  <1>4. QED
    BY <1>1, <1>2, <1>3 DEF StagingInv

LEMMA InvariantHolds == Spec => []StagingInv
  <1>1. Init => StagingInv
    BY InitStaging, NoneAssumption
  <1>2. StagingInv /\ [Next]_vars => StagingInv'
    BY NextTypes, NextScenarios, NextWorker, StagingAssumption, NoneAssumption DEF StagingInv
  <1>3. QED
    BY <1>1, <1>2, PTL DEF Spec
-------------------------------------------------------------------------------
(* The variables of a staging run stay in their types. *)
THEOREM StagingTypeCorrect == Spec => []TypeOK
  <1>1. StagingInv => TypeOK
    BY DEF StagingInv
  <1>2. QED
    BY <1>1, InvariantHolds, PTL

(* A scenario that was closed well has seen everything that the service    *)
(* admitted, and a run passes only on such evidence (observer-wire.mjs:91- *)
(* 95, attempts.mjs:110-123).                                              *)
THEOREM WholeEvidence == Spec => []EvidenceIsWhole
  <1>1. StagingInv => EvidenceIsWhole
    <2> SUFFICES ASSUME StagingInv
                 PROVE  EvidenceIsWhole
      OBVIOUS
    <2>1. ASSUME NEW k \in Scenarios, Clean(k)
          PROVE  log[k] = previous[k] /\ Pending(k) = {}
      BY <2>1 DEF StagingInv, ScenarioInv, ClosingInv, Quiet, Pending
    <2>2. ASSUME result = "staging_passed", NEW k \in Conformance
          PROVE  Clean(k) /\ evidence[k] = log[k] /\ Matches(k, log[k])
      <3>1. Clean(k)
        BY <2>2 DEF StagingInv, WorkerInv
      <3>2. ScenarioInv(k)
        BY DEF StagingInv, Scenarios
      <3>3. previous[k] = log[k] /\ evidence[k] # None
        BY <3>1, <3>2 DEF ScenarioInv, ClosingInv
      <3>4. QED
        BY <3>1, <3>2, <3>3 DEF ScenarioInv, AcceptedInv
    <2>3. QED
      BY <2>1, <2>2 DEF EvidenceIsWhole
  <1>2. QED
    BY <1>1, InvariantHolds, PTL

(* A safety scenario starts only when those before it were closed well and *)
(* none of their calls or requests is under way (docs/staging.md:206-208). *)
THEOREM CleanWindow == Spec => NextWindowIsClean
  <1> DEFINE Window(k) ==
        service[k] = "unused" /\ service'[k] = "starting" =>
            \A j \in Scenarios \ {k} :
                service[j] # "unused" =>
                    /\ Clean(j)
                    /\ \A i \in DOMAIN attempts[j] :
                          /\ attempts[j][i].outcome # "pending"
                          /\ attempts[j][i].request # "sent"
  <1>1. ASSUME StagingInv, Next, NEW k \in Safety
        PROVE  Window(k)
    <2> SUFFICES ASSUME service[k] = "unused", service'[k] = "starting",
                        NEW j \in Scenarios \ {k}, service[j] # "unused"
                 PROVE  Clean(j) /\ Quiet(j)
      BY DEF Quiet
    <2> k \in Scenarios
      BY DEF Scenarios
    <2>1. StartScenario(k)
      <3>1. PICK n \in Scenarios : Scenario(n)
        BY <1>1 DEF Next, BeginSafety, SafetyEnds, ChildEnds
      <3>2. n = k
        BY <1>1, <3>1, OthersSame DEF StagingInv, Same
      <3>3. ASSUME NEW i, CallAnswered(k, i) \/ CallFails(k, i) \/ Admit(k, i)
            PROVE  service' = service
        BY <3>3 DEF CallAnswered, CallFails, Admit, runVars
      <3>4. ASSUME NEW kind, Read(k, kind)
            PROVE  service' = service
        BY <3>4 DEF Read, runVars
      <3>5. CASE ScenarioStarted(k) \/ StartFails(k)
        BY <3>5 DEF ScenarioStarted, StartFails
      <3>6. CASE \/ Invoke(k) \/ InvokeSealed(k) \/ ObserverAnswers(k) \/ ReadReturns(k)
                 \/ ReadFails(k)
        BY <3>6 DEF Invoke, InvokeSealed, ObserverAnswers, ReadReturns, ReadFails, runVars
      <3>7. CASE \/ Close(k) \/ CloseService(k) \/ CloseReturns(k) \/ CloseFails(k)
                 \/ CloseAgain(k)
        BY <3>7 DEF Close, CloseService, CloseReturns, CloseFails, CloseAgain, runVars
      <3>8. QED
        BY <3>1, <3>2, <3>3, <3>4, <3>5, <3>6, <3>7 DEF Scenario, Drained, DrainTimesOut
    <2>2. worker \in {"safety", "receipt"} /\ ~active /\ ~stopped
      BY <2>1, StagingAssumption DEF StartScenario, Runs
    <2>3. Clean(j)
      BY <1>1, <2>2 DEF StagingInv, WorkerInv, Scenarios
    <2>4. QED
      BY <1>1, <2>3 DEF StagingInv, ScenarioInv, ClosingInv
  <1>2. StagingInv /\ [Next]_vars => [\A k \in Safety : Window(k)]_vars
    BY <1>1
  <1>3. QED
    BY <1>2, InvariantHolds, PTL DEF Spec, NextWindowIsClean
===============================================================================
