----------------------- MODULE CapabilityAdapter_proofs -----------------------
(***************************************************************************)
(* Theorems about CapabilityAdapter for every set of HTTP statuses.  All   *)
(* of them rest on one inductive invariant, IInv, whose conjuncts relate   *)
(* the await at which exchange() is suspended to what the handler knows.   *)
(***************************************************************************)
EXTENDS CapabilityAdapter, TLAPS

(* The state before the call. *)
NotStarted ==
    /\ timer = "unset" /\ ~listening /\ ~aborted
    /\ winner = None
    /\ phase = "node_envelope"
    /\ requestBody = "untouched"
    /\ policy = "unasked"

(* The race is decided when the controller is aborted or exchange() has    *)
(* returned, and not before; a timer that fired denied the request.        *)
RaceInv ==
    /\ winner = None <=> pc # "returned" /\ ~aborted
    /\ winner = None => answer = None /\ diagnostic = None
    /\ winner = None /\ pc # "invoked" => timer = "armed" /\ listening
    /\ answer # None => answer = winner /\ timer # "armed" /\ ~listening
    /\ timer = "fired" => aborted /\ winner = "denied"
    /\ aborted \/ listening => options.enabled
    /\ winner = "disabled" => ~options.enabled
    /\ pc # "returned" => winner \in {None, "denied"}
    /\ pc \notin {"invoked", "returned"} => options.enabled

(* Where exchange() is tells what it has done. *)
ProgressInv ==
    /\ pc = "invoked" => NotStarted
    /\ pc = "body" => phase = "body" /\ (requestBody = "reading" \/ aborted)
    /\ pc = "policy" => phase = "policy"
    /\ pc \in {"authenticator", "transport", "issuerBody", "capability"}
          => /\ phase = "issuer_exchange"
             /\ options.mode = "customer-policy" => policy = "allowed"
    /\ pc \in {"invoked", "body", "policy", "authenticator"} => ~issuerContacted
    /\ pc \in {"transport", "issuerBody", "capability"} => issuerContacted
    /\ issuerContacted => phase = "issuer_exchange" /\ options.enabled
    /\ ~issuerContacted \/ pc = "transport" => httpStatus = None /\ issuerBody \in {"none", "cancelled"}
    /\ pc \in {"issuerBody", "capability"} => httpStatus \in OkStatuses
    /\ pc = "issuerBody" => issuerBody \in {"leased", "cancelled"}
    /\ pc = "capability" => issuerBody = "drained"

(* What is still being read belongs to an open invocation; a body left     *)
(* locked belongs to a request that got no further.                        *)
ReadingInv ==
    /\ requestBody = "reading" => pc = "body" /\ ~aborted
    /\ issuerBody = "leased" => ~aborted /\ answer = None
    /\ requestBody = "untouched" <=> pc = "invoked" \/ winner = "disabled"
    /\ requestBody = "locked" =>
          pc = "returned" /\ phase = "body" /\ policy = "unasked" /\ winner = "denied"

(* What the diagnostic says is true, and cannot become false. *)
DiagnosticInv ==
    /\ winner \in {"denied", "disabled"} => diagnostic # None
    /\ observed = (IF diagnostic = None THEN 0 ELSE 1)
    /\ diagnostic # None =>
          /\ diagnostic.issuerContacted = issuerContacted
          /\ diagnostic.httpStatus # None => issuerContacted
          /\ diagnostic.phase \in ExchangePhases
                => diagnostic.phase = phase /\ pc = "returned" /\ winner = "denied"
          /\ diagnostic.phase = "deadline" => timer = "fired"
          /\ diagnostic.phase = "cancelled" => requestAborted /\ timer # "fired"
          /\ diagnostic.phase = "configuration" <=> winner = "disabled"

(* A body that was left locked was diagnosed, and first. *)
LockedInv == requestBody = "locked" => diagnostic # None /\ diagnostic.phase = "body"

GrantInv == winner = "granted" => GrantIsEarned /\ pc = "returned"

IInv ==
    /\ TypeOK /\ RaceInv /\ ProgressInv /\ ReadingInv /\ DiagnosticInv /\ LockedInv
    /\ GrantInv
-------------------------------------------------------------------------------
(* Types. *)
LEMMA InitTypeOK == Init => TypeOK
  <1> SUFFICES ASSUME Init PROVE TypeOK
    OBVIOUS
  <1> QED
    BY DEF Init, TypeOK, ExchangePhases

LEMMA EmitTyped ==
  ASSUME TypeOK, NEW p \in Phases, NEW status \in Statuses \cup {None},
         ReportStatus(p, status)
  PROVE  diagnostic' \in Diagnostics \cup {None} /\ observed' \in Nat
  <1>1. [phase |-> p, issuerContacted |-> issuerContacted, httpStatus |-> status]
          \in Diagnostics
    BY DEF TypeOK, Diagnostics
  <1>2. QED
    BY <1>1 DEF TypeOK, ReportStatus, Emit

LEMMA FailureTyped ==
  ASSUME TypeOK, NEW p \in ExchangePhases, NEW status \in Statuses \cup {None},
         NEW body, Catch(p, status, body)
  PROVE  /\ pc' = "returned"
         /\ requestBody' \in {"locked", "released"}
         /\ diagnostic' \in Diagnostics \cup {None}
         /\ observed' \in Nat
         /\ winner' \in {None, "granted", "denied", "disabled"}
  <1> DEFINE reported == IF aborted THEN "cancelled" ELSE p
  <1>1. reported \in Phases
    BY DEF Phases, ExchangePhases
  <1>2. ReportStatus(reported, status)
    BY DEF Catch
  <1>3. diagnostic' \in Diagnostics \cup {None} /\ observed' \in Nat
    BY <1>1, <1>2, EmitTyped
  <1>4. QED
    BY <1>3 DEF Catch, Decide, TypeOK

LEMMA EndTyped ==
  ASSUME TypeOK, NEW p \in Phases, End(p)
  PROVE  /\ aborted' \in BOOLEAN
         /\ requestBody' \in {"untouched", "locked", "reading", "cut", "released"}
         /\ issuerBody' \in {"none", "leased", "drained", "cancelled"}
         /\ diagnostic' \in Diagnostics \cup {None}
         /\ observed' \in Nat
         /\ winner' \in {None, "granted", "denied", "disabled"}
  <1>1. diagnostic' \in Diagnostics \cup {None} /\ observed' \in Nat
    BY EmitTyped DEF End, Report, TypeOK
  <1>2. QED
    BY <1>1 DEF End, Decide, CutRequestBody, CloseLease, TypeOK

LEMMA NextTypeOK == TypeOK /\ [Next]_vars => TypeOK'
  <1> SUFFICES ASSUME TypeOK, [Next]_vars PROVE TypeOK'
    OBVIOUS
  <1> USE DEF exchangeVars, handlerVars, ExchangePhases
  <1>1. CASE InvokeDisabled
    BY <1>1, EmitTyped DEF InvokeDisabled, Report, Phases, TypeOK
  <1>2. CASE InvokeAborted
    BY <1>2, EmitTyped DEF InvokeAborted, Report, Phases, TypeOK
  <1>3. CASE InvokeOpen
    BY <1>3, FailureTyped DEF InvokeOpen, ExchangeFails, ExchangeFailsWith, TypeOK
  <1>4. CASE DeadlineFires
    BY <1>4, EndTyped DEF DeadlineFires, Phases, TypeOK
  <1>5. CASE RequestAborts
    BY <1>5, EndTyped DEF RequestAborts, Phases, TypeOK
  <1>6. CASE Settle
    <2>1. timer' \in {"unset", "armed", "fired", "cleared"}
      BY <1>6 DEF Settle, TypeOK
    <2>2. issuerBody' \in {"none", "leased", "drained", "cancelled"}
      BY <1>6 DEF Settle, CloseLease, TypeOK
    <2>3. listening' \in BOOLEAN /\ answer' \in {None, "granted", "denied", "disabled"}
      BY <1>6 DEF Settle, TypeOK
    <2>4. UNCHANGED <<options, requestAborted, aborted, pc, phase, policy, issuerContacted,
                      httpStatus, requestBody, diagnostic, observed, winner>>
      BY <1>6 DEF Settle
    <2>5. QED
      BY <2>1, <2>2, <2>3, <2>4 DEF TypeOK
  <1>7. CASE BodyRejected
    BY <1>7, FailureTyped DEF BodyRejected, ExchangeFails, ExchangeFailsWith, TypeOK
  <1>8. CASE BodyRead
    BY <1>8, FailureTyped DEF BodyRead, ExchangeFails, ExchangeFailsWith, StartClient, TypeOK
  <1>9. CASE PolicyRefuses
    BY <1>9, FailureTyped DEF PolicyRefuses, ExchangeFails, ExchangeFailsWith, TypeOK
  <1>10. CASE PolicyAllows
    BY <1>10, FailureTyped DEF PolicyAllows, ExchangeFails, ExchangeFailsWith, StartClient, TypeOK
  <1>11. CASE AuthenticatorFails
    BY <1>11, FailureTyped DEF AuthenticatorFails, ExchangeFails, ExchangeFailsWith, TypeOK
  <1>12. CASE ContactIssuer
    <2>1. CASE aborted
      BY <1>12, <2>1, FailureTyped DEF ContactIssuer, ExchangeFails, ExchangeFailsWith, TypeOK
    <2>2. CASE ~aborted
      BY <1>12, <2>2 DEF ContactIssuer, TypeOK
    <2>3. QED
      BY <2>1, <2>2
  <1>13. CASE TransportFails
    BY <1>13, FailureTyped DEF TransportFails, ExchangeFails, ExchangeFailsWith, TypeOK
  <1>14. CASE LateResponse
    BY <1>14, FailureTyped DEF LateResponse, ExchangeFails, ExchangeFailsWith, TypeOK
  <1>15. ASSUME NEW status \in Statuses, IssuerResponds(status)
        PROVE  TypeOK'
    BY <1>15, FailureTyped DEF IssuerResponds, ExchangeFails, ExchangeFailsWith, TypeOK
  <1>16. CASE IssuerBodyEnds
    BY <1>16 DEF IssuerBodyEnds, TypeOK
  <1>17. CASE IssuerBodyBreaks
    BY <1>17 DEF IssuerBodyBreaks, CloseLease, TypeOK
  <1>18. CASE ReadCut
    BY <1>18, FailureTyped DEF ReadCut, ExchangeFails, ExchangeFailsWith, TypeOK
  <1>19. CASE CapabilityRejected
    BY <1>19, FailureTyped DEF CapabilityRejected, ExchangeFails, ExchangeFailsWith, TypeOK
  <1>20. CASE CapabilityAccepted
    BY <1>20, FailureTyped DEF CapabilityAccepted, ExchangeFails, ExchangeFailsWith, Decide, TypeOK
  <1>21. CASE UNCHANGED vars
    BY <1>21 DEF vars, TypeOK
  <1>22. QED
    BY <1>1, <1>2, <1>3, <1>4, <1>5, <1>6, <1>7, <1>8, <1>9, <1>10, <1>11,
       <1>12, <1>13, <1>14, <1>15, <1>16, <1>17, <1>18, <1>19, <1>20, <1>21
    DEF Next, Invoke, Exchange

(* The control of the race, of exchange() and of the bodies. *)
LEMMA NextControlInv ==
  ASSUME IInv, [Next]_vars
  PROVE  RaceInv' /\ ProgressInv' /\ ReadingInv' /\ GrantInv'
  <1> USE NoneAssumption
      DEF IInv, RaceInv, ProgressInv, NotStarted, ReadingInv, GrantInv, GrantIsEarned,
          Decide, CloseLease, CutRequestBody, ExchangeFails, ExchangeFailsWith, Catch, End,
          Emit, Report, ReportStatus,
          exchangeVars, handlerVars, ExchangePhases
  <1>1. CASE InvokeDisabled
    BY <1>1 DEF InvokeDisabled
  <1>2. CASE InvokeAborted
    BY <1>2 DEF InvokeAborted
  <1>3. CASE InvokeOpen
    BY <1>3 DEF InvokeOpen
  <1>4. CASE DeadlineFires
    BY <1>4 DEF DeadlineFires
  <1>5. CASE RequestAborts
    <2>1. CASE listening /\ ~aborted
      <3>1. RaceInv'
        <4>1. CASE winner = None
          BY <1>5, <2>1, <4>1 DEF RequestAborts
        <4>2. CASE winner # None
          BY <1>5, <2>1, <4>2 DEF RequestAborts
        <4>3. QED
          BY <4>1, <4>2
      <3>2. ProgressInv'
        BY <1>5, <2>1 DEF RequestAborts
      <3>3. GrantInv'
        BY <1>5, <2>1 DEF RequestAborts
      <3>4. ReadingInv'
        BY <1>5, <2>1 DEF RequestAborts
      <3>5. QED
        BY <3>1, <3>2, <3>3, <3>4
    <2>2. CASE ~(listening /\ ~aborted)
      BY <1>5, <2>2 DEF RequestAborts
    <2>3. QED
      BY <2>1, <2>2
  <1>6. CASE Settle
    BY <1>6 DEF Settle
  <1>7. CASE BodyRejected
    BY <1>7 DEF BodyRejected
  <1>8. CASE BodyRead
    BY <1>8 DEF BodyRead, StartClient
  <1>9. CASE PolicyRefuses
    BY <1>9 DEF PolicyRefuses
  <1>10. CASE PolicyAllows
    BY <1>10 DEF PolicyAllows, StartClient
  <1>11. CASE AuthenticatorFails
    BY <1>11 DEF AuthenticatorFails
  <1>12. CASE ContactIssuer
    BY <1>12 DEF ContactIssuer
  <1>13. CASE TransportFails
    BY <1>13 DEF TransportFails
  <1>14. CASE LateResponse
    BY <1>14 DEF LateResponse
  <1>15. ASSUME NEW status \in Statuses, IssuerResponds(status)
        PROVE  RaceInv' /\ ProgressInv' /\ ReadingInv' /\ GrantInv'
    BY <1>15 DEF IssuerResponds
  <1>16. CASE IssuerBodyEnds
    BY <1>16 DEF IssuerBodyEnds
  <1>17. CASE IssuerBodyBreaks
    BY <1>17 DEF IssuerBodyBreaks
  <1>18. CASE ReadCut
    BY <1>18 DEF ReadCut
  <1>19. CASE CapabilityRejected
    BY <1>19 DEF CapabilityRejected
  <1>20. CASE CapabilityAccepted
    BY <1>20 DEF CapabilityAccepted
  <1>21. CASE UNCHANGED vars
    BY <1>21 DEF vars
  <1>22. QED
    BY <1>1, <1>2, <1>3, <1>4, <1>5, <1>6, <1>7, <1>8, <1>9, <1>10, <1>11,
       <1>12, <1>13, <1>14, <1>15, <1>16, <1>17, <1>18, <1>19, <1>20, <1>21
    DEF Next, Invoke, Exchange

(* The diagnostic. *)
LEMMA Emitted ==
  ASSUME TypeOK, NEW p \in Phases, NEW status \in Statuses \cup {None},
         ReportStatus(p, status), diagnostic = None
  PROVE  /\ diagnostic' # None
         /\ observed' = observed + 1
         /\ diagnostic'.phase = p
         /\ diagnostic'.issuerContacted = issuerContacted
         /\ diagnostic'.httpStatus = status
  <1> DEFINE event == [phase |-> p, issuerContacted |-> issuerContacted, httpStatus |-> status]
  <1>1. event \in Diagnostics
    BY DEF TypeOK, Diagnostics
  <1>2. diagnostic' = event /\ observed' = observed + 1
    BY DEF ReportStatus, Emit
  <1>3. QED
    BY <1>1, <1>2, NoneAssumption

LEMMA FailureDiagnosed ==
  ASSUME TypeOK, RaceInv, DiagnosticInv, pc # "returned",
         NEW p \in ExchangePhases, NEW status \in Statuses \cup {None},
         ExchangeFailsWith(p, status),
         phase' = p, UNCHANGED <<timer, requestAborted, issuerContacted>>,
         status = None \/ issuerContacted
  PROVE  DiagnosticInv'
  <1>1. pc' = "returned" /\ winner' = "denied"
    BY NoneAssumption DEF ExchangeFailsWith, Catch, Decide, RaceInv
  <1>2. CASE diagnostic = None
    <2>1. winner = None /\ ~aborted /\ observed = 0
      BY <1>2, NoneAssumption DEF RaceInv, DiagnosticInv
    <2>2. ReportStatus(p, status) /\ p \in Phases
      BY <2>1 DEF ExchangeFailsWith, Catch, Phases
    <2>3. /\ diagnostic' # None /\ observed' = 1
          /\ diagnostic'.phase = p
          /\ diagnostic'.issuerContacted = issuerContacted
          /\ diagnostic'.httpStatus = status
      BY <1>2, <2>1, <2>2, Emitted
    <2>4. QED
      BY <1>1, <2>3, NoneAssumption DEF DiagnosticInv, ExchangePhases
  <1>3. CASE diagnostic # None
    <2>1. UNCHANGED <<diagnostic, observed>>
      BY <1>3 DEF ExchangeFailsWith, Catch, ReportStatus, Emit
    <2>2. winner = "denied" /\ aborted
      BY <1>3 DEF RaceInv
    <2>3. diagnostic.phase \notin ExchangePhases
      BY <1>3 DEF DiagnosticInv
    <2>4. QED
      BY <1>1, <1>3, <2>1, <2>2, <2>3 DEF DiagnosticInv
  <1>4. QED
    BY <1>2, <1>3

LEMMA EndDiagnosed ==
  ASSUME TypeOK, RaceInv, DiagnosticInv, ~aborted,
         NEW p \in {"deadline", "cancelled"}, End(p),
         UNCHANGED <<pc, phase, issuerContacted, httpStatus>>,
         p = "deadline" => timer' = "fired" /\ requestAborted' = requestAborted /\ winner = None,
         p = "cancelled" => requestAborted' /\ timer' = timer,
         httpStatus # None => issuerContacted
  PROVE  DiagnosticInv'
  <1>1. winner' = IF winner = None THEN "denied" ELSE winner
    BY DEF End, Decide
  <1>2. CASE diagnostic = None
    <2>1. ReportStatus(p, httpStatus) /\ p \in Phases /\ httpStatus \in Statuses \cup {None}
      BY DEF End, Report, Phases, TypeOK
    <2>2. /\ diagnostic' # None /\ observed' = 1
          /\ diagnostic'.phase = p
          /\ diagnostic'.issuerContacted = issuerContacted
          /\ diagnostic'.httpStatus = httpStatus
      BY <1>2, <2>1, Emitted DEF DiagnosticInv
    <2>3. winner # "disabled" /\ winner' # "disabled"
      BY <1>1, <1>2, NoneAssumption DEF DiagnosticInv
    <2>4. timer # "fired"
      BY DEF RaceInv
    <2>5. QED
      BY <2>2, <2>3, <2>4 DEF DiagnosticInv, ExchangePhases
  <1>3. CASE diagnostic # None
    <2>1. UNCHANGED <<diagnostic, observed>>
      BY <1>3 DEF End, Report, ReportStatus, Emit
    <2>2. winner # None /\ winner' = winner /\ p = "cancelled"
      BY <1>1, <1>3 DEF RaceInv
    <2>3. QED
      BY <1>3, <2>1, <2>2 DEF DiagnosticInv, RaceInv
  <1>4. QED
    BY <1>2, <1>3
LEMMA NextDiagnosticInv ==
  ASSUME IInv, [Next]_vars
  PROVE  DiagnosticInv'
  <1> USE NoneAssumption DEF IInv, exchangeVars, handlerVars
  <1>1. CASE InvokeDisabled
    BY <1>1, Emitted
    DEF InvokeDisabled, Report, DiagnosticInv, ProgressInv, NotStarted, RaceInv, TypeOK, Phases, ExchangePhases
  <1>2. CASE InvokeAborted
    BY <1>2, Emitted
    DEF InvokeAborted, Report, DiagnosticInv, ProgressInv, NotStarted, RaceInv, TypeOK, Phases, ExchangePhases
  <1>3. CASE InvokeOpen
    <2>1. winner = None /\ ~aborted /\ diagnostic = None /\ observed = 0
          /\ ~issuerContacted /\ httpStatus = None /\ timer' # "fired"
      BY <1>3 DEF InvokeOpen, ProgressInv, NotStarted, RaceInv, DiagnosticInv
    <2>2. CASE pc' = "body"
      BY <1>3, <2>1, <2>2
      DEF InvokeOpen, ExchangeFails, ExchangeFailsWith, Catch, DiagnosticInv
    <2>3. ASSUME NEW p \in {"node_envelope", "body"}, NEW body,
                 Catch(p, httpStatus, body), phase' = p
          PROVE  DiagnosticInv'
      <3>1. pc' = "returned" /\ winner' = "denied" /\ UNCHANGED issuerContacted
        BY <1>3, <2>1, <2>3 DEF InvokeOpen, Catch, Decide
      <3>2. ReportStatus(p, None) /\ p \in Phases
        BY <2>1, <2>3 DEF Catch, Phases, ExchangePhases
      <3>3. /\ diagnostic' # None /\ observed' = 1
            /\ diagnostic'.phase = p
            /\ diagnostic'.issuerContacted = issuerContacted
            /\ diagnostic'.httpStatus = None
        BY <2>1, <3>2, Emitted
      <3>4. QED
        BY <2>3, <3>1, <3>3 DEF DiagnosticInv
    <2>4. QED
      BY <1>3, <2>2, <2>3 DEF InvokeOpen, ExchangeFails, ExchangeFailsWith, ProgressInv, NotStarted
  <1>4. CASE DeadlineFires
    BY <1>4, EndDiagnosed DEF DeadlineFires, DiagnosticInv, ProgressInv, RaceInv
  <1>5. CASE RequestAborts
    BY <1>5, EndDiagnosed DEF RequestAborts, DiagnosticInv, ProgressInv, RaceInv
  <1>6. CASE Settle
    BY <1>6 DEF Settle, DiagnosticInv
  <1>7. CASE BodyRejected
    BY <1>7, FailureDiagnosed
    DEF BodyRejected, ExchangeFails, ProgressInv, DiagnosticInv, RaceInv, TypeOK, ExchangePhases
  <1>8. CASE BodyRead
    BY <1>8, FailureDiagnosed
    DEF BodyRead, ExchangeFails, StartClient, ProgressInv, DiagnosticInv, RaceInv, TypeOK, ExchangePhases
  <1>9. CASE PolicyRefuses
    BY <1>9, FailureDiagnosed
    DEF PolicyRefuses, ExchangeFails, ProgressInv, DiagnosticInv, RaceInv, TypeOK, ExchangePhases
  <1>10. CASE PolicyAllows
    BY <1>10, FailureDiagnosed
    DEF PolicyAllows, ExchangeFails, StartClient, ProgressInv, DiagnosticInv, RaceInv, TypeOK, ExchangePhases
  <1>11. CASE AuthenticatorFails
    BY <1>11, FailureDiagnosed
    DEF AuthenticatorFails, ExchangeFails, ProgressInv, DiagnosticInv, RaceInv, TypeOK, ExchangePhases
  <1>12. CASE ContactIssuer
    BY <1>12, FailureDiagnosed
    DEF ContactIssuer, ExchangeFails, ProgressInv, DiagnosticInv, RaceInv, TypeOK, ExchangePhases
  <1>13. CASE TransportFails
    BY <1>13, FailureDiagnosed
    DEF TransportFails, ExchangeFails, ProgressInv, DiagnosticInv, RaceInv, TypeOK, ExchangePhases
  <1>14. CASE LateResponse
    BY <1>14, FailureDiagnosed
    DEF LateResponse, ExchangeFails, ProgressInv, DiagnosticInv, RaceInv, TypeOK, ExchangePhases
  <1>15. ASSUME NEW status \in Statuses, IssuerResponds(status)
        PROVE  DiagnosticInv'
    BY <1>15, FailureDiagnosed
    DEF IssuerResponds, ExchangeFails, ProgressInv, DiagnosticInv, RaceInv, TypeOK, ExchangePhases
  <1>16. CASE IssuerBodyEnds
    BY <1>16 DEF IssuerBodyEnds, DiagnosticInv
  <1>17. CASE IssuerBodyBreaks
    BY <1>17 DEF IssuerBodyBreaks, DiagnosticInv
  <1>18. CASE ReadCut
    BY <1>18, FailureDiagnosed
    DEF ReadCut, ExchangeFails, ProgressInv, DiagnosticInv, RaceInv, TypeOK, ExchangePhases
  <1>19. CASE CapabilityRejected
    BY <1>19, FailureDiagnosed
    DEF CapabilityRejected, ExchangeFails, ProgressInv, DiagnosticInv, RaceInv, TypeOK, ExchangePhases
  <1>20. CASE CapabilityAccepted
    <2>1. CASE aborted
      BY <1>20, <2>1, FailureDiagnosed
      DEF CapabilityAccepted, ExchangeFails, ProgressInv, DiagnosticInv, TypeOK, ExchangePhases
    <2>2. CASE ~aborted
      BY <1>20, <2>2 DEF CapabilityAccepted, Decide, DiagnosticInv, RaceInv
    <2>3. QED
      BY <2>1, <2>2
  <1>21. CASE UNCHANGED vars
    BY <1>21 DEF vars, DiagnosticInv
  <1>22. QED
    BY <1>1, <1>2, <1>3, <1>4, <1>5, <1>6, <1>7, <1>8, <1>9, <1>10, <1>11,
       <1>12, <1>13, <1>14, <1>15, <1>16, <1>17, <1>18, <1>19, <1>20, <1>21
    DEF Next, Invoke, Exchange

(* A locked body is left by the first step only, and the latch holds.      *)
LEMMA NextLockedInv ==
  ASSUME IInv, [Next]_vars
  PROVE  LockedInv'
  <1> USE DEF exchangeVars, handlerVars
  <1>1. CASE InvokeOpen
    <2> SUFFICES ASSUME requestBody' = "locked"
                 PROVE  diagnostic' # None /\ diagnostic'.phase = "body"
      BY DEF LockedInv
    <2>1. diagnostic = None /\ ~aborted /\ httpStatus = None /\ requestBody = "untouched"
      BY <1>1 DEF InvokeOpen, IInv, ProgressInv, NotStarted, RaceInv
    <2>2. ReportStatus("body", None)
      BY <1>1, <2>1 DEF InvokeOpen, ExchangeFails, ExchangeFailsWith, Catch
    <2>3. QED
      BY <2>1, <2>2, Emitted DEF IInv, Phases, ExchangePhases
  <1>2. CASE ~InvokeOpen
    <2> SUFFICES ASSUME requestBody' = "locked" PROVE requestBody = "locked" /\ UNCHANGED diagnostic
      BY DEF LockedInv, IInv
    <2>1. requestBody = "locked"
      BY <1>2 DEF Next, vars, Invoke, InvokeDisabled, InvokeAborted, DeadlineFires, RequestAborts,
           Settle, End, CutRequestBody, Exchange, BodyRejected, BodyRead, StartClient,
           PolicyRefuses, PolicyAllows, AuthenticatorFails, ContactIssuer, TransportFails,
           LateResponse, IssuerResponds, IssuerBodyEnds, IssuerBodyBreaks, ReadCut,
           CapabilityRejected, CapabilityAccepted, ExchangeFails, ExchangeFailsWith, Catch
    <2>2. diagnostic # None /\ pc = "returned"
      BY <2>1 DEF IInv, LockedInv, ReadingInv
    <2>3. QED
      BY <1>2, <2>1, <2>2
      DEF Next, vars, Invoke, InvokeDisabled, InvokeAborted, DeadlineFires, RequestAborts,
          Settle, End, Report, ReportStatus, Emit, Exchange, BodyRejected, BodyRead,
          PolicyRefuses, PolicyAllows, AuthenticatorFails, ContactIssuer, TransportFails,
          LateResponse, IssuerResponds, IssuerBodyEnds, IssuerBodyBreaks, ReadCut,
          CapabilityRejected, CapabilityAccepted
  <1>3. QED
    BY <1>1, <1>2

-------------------------------------------------------------------------------
LEMMA InitIInv == Init => IInv
  <1> SUFFICES ASSUME Init PROVE IInv
    OBVIOUS
  <1>1. TypeOK
    BY InitTypeOK
  <1>2. RaceInv /\ ProgressInv /\ ReadingInv /\ DiagnosticInv /\ LockedInv /\ GrantInv
    BY NoneAssumption
    DEF Init, RaceInv, ProgressInv, NotStarted, ReadingInv, DiagnosticInv, LockedInv, GrantInv
  <1>3. QED
    BY <1>1, <1>2 DEF IInv

LEMMA NextIInv == IInv /\ [Next]_vars => IInv'
  BY NextTypeOK, NextControlInv, NextDiagnosticInv, NextLockedInv DEF IInv

(* The inductive invariant holds in every reachable state of an invocation. *)
THEOREM Invariance == Spec => []IInv
  BY InitIInv, NextIInv, PTL DEF Spec

(* The variables stay in their types. *)
THEOREM TypeCorrect == Spec => []TypeOK
  <1>1. IInv => TypeOK
    BY DEF IInv
  <1>2. QED
    BY <1>1, Invariance, PTL

(* What a diagnostic says of the issuer stays true while the loser of the  *)
(* race goes on: an issuer it calls uncontacted is never contacted, and a  *)
(* status it names comes from a contact.                                   *)
THEOREM DiagnosticFinality == Spec => []DiagnosticIsFinal
  <1>1. IInv => DiagnosticIsFinal
    BY DEF IInv, DiagnosticIsFinal, DiagnosticInv, ProgressInv, RaceInv, ExchangePhases
  <1>2. QED
    BY <1>1, Invariance, PTL

(* Deadline, disconnect and disabled handler are told apart, and a failed  *)
(* invocation has one event.                                               *)
THEOREM DiagnosticCause == Spec => []DiagnosticNamesTheCause
  <1>1. IInv => DiagnosticNamesTheCause
    <2> SUFFICES ASSUME IInv PROVE DiagnosticNamesTheCause
      OBVIOUS
    <2>1. answer \in {"denied", "disabled"} => observed = 1
      BY NoneAssumption DEF IInv, RaceInv, DiagnosticInv
    <2>2. ASSUME winner = "granted", diagnostic # None
          PROVE  diagnostic.phase = "cancelled"
      <3>1. diagnostic.phase \in Phases
        BY <2>2 DEF IInv, TypeOK, Diagnostics
      <3>2. diagnostic.phase \notin ExchangePhases
        BY <2>2 DEF IInv, DiagnosticInv
      <3>3. diagnostic.phase # "deadline" /\ diagnostic.phase # "configuration"
        BY <2>2 DEF IInv, DiagnosticInv, RaceInv
      <3>4. QED
        BY <3>1, <3>2, <3>3 DEF Phases
    <2>3. QED
      BY <2>1, <2>2 DEF IInv, DiagnosticNamesTheCause, DiagnosticInv, RaceInv
  <1>2. QED
    BY <1>1, Invariance, PTL

(* A capability comes from a complete ok response, before the deadline,    *)
(* and with the policy's consent.                                          *)
THEOREM Earned == Spec => []GrantIsEarned
  <1>1. IInv => GrantIsEarned
    BY DEF IInv, GrantInv, GrantIsEarned
  <1>2. QED
    BY <1>1, Invariance, PTL

(* An answered invocation reads no stream any more; it leaves one behind   *)
(* only of a request refused for its body's declared length.               *)
THEOREM NothingHeld == Spec => []NothingHeldAfterAnswer
  <1>1. IInv => NothingHeldAfterAnswer
    <2> SUFFICES ASSUME IInv, answer # None
                 PROVE  /\ requestBody # "reading" /\ issuerBody # "leased"
                        /\ requestBody = "untouched" <=> answer = "disabled"
                        /\ requestBody = "locked" =>
                              diagnostic.phase = "body" /\ policy = "unasked" /\ ~issuerContacted
      BY DEF NothingHeldAfterAnswer
    <2>1. requestBody # "reading" /\ issuerBody # "leased"
      BY DEF IInv, ReadingInv, RaceInv
    <2>2. requestBody = "untouched" <=> answer = "disabled"
      BY DEF IInv, ReadingInv, RaceInv, ProgressInv, NotStarted
    <2>3. QED
      BY <2>1, <2>2 DEF IInv, LockedInv, ReadingInv, ProgressInv
  <1>2. QED
    BY <1>1, Invariance, PTL
-------------------------------------------------------------------------------
(* The loser of the race can do nothing that the caller, the observer, the *)
(* policy or the issuer would notice.                                      *)
LEMMA FailureAfterReport ==
  ASSUME diagnostic # None, winner # None,
         NEW p, NEW status, ExchangeFailsWith(p, status)
  PROVE  UNCHANGED <<winner, diagnostic, observed>>
  BY DEF ExchangeFailsWith, Catch, ReportStatus, Emit, Decide

LEMMA AfterAnswer ==
  ASSUME IInv, [Next]_vars, answer # None
  PROVE  /\ UNCHANGED <<answer, winner, issuerContacted, diagnostic, observed>>
         /\ policy' = "asked" => policy = "asked"
  <1> USE DEF exchangeVars, handlerVars
  <1>1. winner # None /\ timer # "armed" /\ ~listening /\ pc # "invoked"
        /\ issuerBody # "leased"
    BY NoneAssumption DEF IInv, RaceInv, ReadingInv, ProgressInv, NotStarted
  <1>2. CASE pc = "returned"
    BY <1>1, <1>2
    DEF Next, Invoke, Exchange, InvokeDisabled, InvokeAborted, InvokeOpen,
        DeadlineFires, RequestAborts, Settle, BodyRejected, BodyRead, PolicyRefuses,
        PolicyAllows, AuthenticatorFails, ContactIssuer, TransportFails, LateResponse,
        IssuerResponds, IssuerBodyEnds, IssuerBodyBreaks, ReadCut,
        CapabilityRejected, CapabilityAccepted, vars
  <1>3. CASE pc # "returned"
    <2>1. aborted /\ diagnostic # None
      BY <1>1, <1>3, NoneAssumption DEF IInv, RaceInv, DiagnosticInv
    <2>2. CASE BodyRejected \/ BodyRead \/ PolicyRefuses \/ PolicyAllows
      BY <1>1, <2>1, <2>2, FailureAfterReport
      DEF BodyRejected, BodyRead, PolicyRefuses, PolicyAllows, ExchangeFails
    <2>3. CASE AuthenticatorFails \/ ContactIssuer \/ TransportFails \/ LateResponse
      BY <1>1, <2>1, <2>3, FailureAfterReport
      DEF AuthenticatorFails, ContactIssuer, TransportFails, LateResponse, ExchangeFails
    <2>4. CASE ReadCut \/ CapabilityRejected \/ CapabilityAccepted
      BY <1>1, <2>1, <2>4, FailureAfterReport
      DEF ReadCut, CapabilityRejected, CapabilityAccepted, ExchangeFails
    <2>5. CASE RequestAborts
      BY <1>1, <2>5 DEF RequestAborts
    <2>6. QED
      BY <1>1, <2>1, <2>2, <2>3, <2>4, <2>5
      DEF Next, Invoke, Exchange, InvokeDisabled, InvokeAborted, InvokeOpen,
          DeadlineFires, Settle, IssuerResponds, IssuerBodyEnds, IssuerBodyBreaks, vars
  <1>4. QED
    BY <1>2, <1>3

(* An answer is final: nothing that settles later changes it, contacts the *)
(* issuer or reports again.                                                *)
THEOREM FinalAnswer == Spec => AnswerIsFinal
  <1> DEFINE A == answer # None =>
                    /\ UNCHANGED <<answer, winner, issuerContacted, diagnostic, observed>>
                    /\ policy' = "asked" => policy = "asked"
  <1>1. IInv /\ [Next]_vars => [A]_vars
    BY AfterAnswer
  <1>2. QED
    BY <1>1, Invariance, PTL DEF Spec, AnswerIsFinal
-------------------------------------------------------------------------------
(* Only BodyRead asks the policy, and an open invocation whose body is     *)
(* being read has not been cut (adapter.ts:84-89).                         *)
THEOREM PolicyInTime == Spec => PolicyAskedWhileOpen
  <1> DEFINE A == policy = "unasked" /\ policy' = "asked" => ~aborted /\ requestBody = "reading"
  <1>1. ASSUME IInv, [Next]_vars, policy = "unasked", policy' = "asked"
        PROVE  ~aborted /\ requestBody = "reading"
    <2>1. BodyRead
      BY <1>1
      DEF Next, Invoke, Exchange, InvokeDisabled, InvokeAborted, InvokeOpen, DeadlineFires,
          RequestAborts, Settle, BodyRejected, PolicyRefuses, PolicyAllows, AuthenticatorFails,
          ContactIssuer, TransportFails, LateResponse, IssuerResponds, IssuerBodyEnds,
          IssuerBodyBreaks, ReadCut, CapabilityRejected, CapabilityAccepted, exchangeVars, vars
    <2>2. pc = "body" /\ ~aborted
      BY <1>1, <2>1 DEF BodyRead
    <2>3. QED
      BY <1>1, <2>2 DEF IInv, ProgressInv
  <1>2. IInv /\ [Next]_vars => [A]_vars
    BY <1>1
  <1>3. QED
    BY <1>2, Invariance, PTL DEF Spec, PolicyAskedWhileOpen
-------------------------------------------------------------------------------
(* The handler implements the specification of its answer: the exchange's  *)
(* steps map to Contact, Grant and Deny, both ways of ending to Close, the *)
(* finally block to Deliver, and everything else to stuttering.            *)
LEMMA DeniesOrStutters ==
  ASSUME UNCHANGED <<issuerContacted, aborted, answer>>,
         winner' = IF winner = None THEN "denied" ELSE winner
  PROVE  [Promise!Next]_Promise!vars
  <1>1. CASE winner = None
    BY <1>1, NoneAssumption DEF Promise!Next, Promise!Deny
  <1>2. CASE winner # None
    BY <1>2 DEF Promise!vars
  <1>3. QED
    BY <1>1, <1>2

LEMMA EndCloses ==
  ASSUME ~aborted, NEW p, End(p), UNCHANGED <<issuerContacted, answer>>
  PROVE  Promise!Close
  <1>1. aborted' = TRUE /\ winner' = IF winner = None THEN "denied" ELSE winner
    BY DEF End, Decide
  <1>2. QED
    BY <1>1, NoneAssumption DEF Promise!Close

LEMMA PromiseStep == IInv /\ [Next]_vars => [Promise!Next]_Promise!vars
  <1> SUFFICES ASSUME IInv, [Next]_vars PROVE [Promise!Next]_Promise!vars
    OBVIOUS
  <1> USE DEF exchangeVars, handlerVars
  <1>1. CASE InvokeDisabled
    <2>1. winner = None /\ winner' = "disabled"
      BY <1>1 DEF InvokeDisabled, IInv, ProgressInv, NotStarted
    <2>2. QED
      BY <1>1, <2>1, NoneAssumption DEF InvokeDisabled, Promise!Next, Promise!Deny
  <1>2. CASE InvokeAborted
    <2>1. winner = None /\ ~aborted
      BY <1>2 DEF InvokeAborted, IInv, ProgressInv, NotStarted
    <2>2. QED
      BY <1>2, <2>1, NoneAssumption DEF InvokeAborted, Promise!Next, Promise!Close
  <1>3. CASE InvokeOpen
    BY <1>3, DeniesOrStutters
    DEF InvokeOpen, ExchangeFails, ExchangeFailsWith, Catch, Decide, Promise!vars
  <1>4. CASE DeadlineFires
    BY <1>4, EndCloses DEF DeadlineFires, Promise!Next, Promise!vars
  <1>5. CASE RequestAborts
    BY <1>5, EndCloses DEF RequestAborts, Promise!Next, Promise!vars
  <1>6. CASE Settle
    BY <1>6, NoneAssumption DEF Settle, Promise!Next, Promise!Deliver
  <1>7. CASE BodyRejected \/ PolicyRefuses \/ AuthenticatorFails \/ TransportFails
             \/ LateResponse \/ ReadCut \/ CapabilityRejected
    BY <1>7, DeniesOrStutters
    DEF BodyRejected, PolicyRefuses, AuthenticatorFails, TransportFails, LateResponse,
        ReadCut, CapabilityRejected, ExchangeFails, ExchangeFailsWith, Catch, Decide
  <1>8. CASE BodyRead \/ PolicyAllows
    BY <1>8, DeniesOrStutters
    DEF BodyRead, PolicyAllows, StartClient, ExchangeFails, ExchangeFailsWith, Catch, Decide,
        Promise!vars
  <1>9. CASE ContactIssuer
    <2>1. CASE aborted
      BY <1>9, <2>1, DeniesOrStutters
      DEF ContactIssuer, ExchangeFails, ExchangeFailsWith, Catch, Decide
    <2>2. CASE ~aborted
      <3>1. winner = None /\ ~issuerContacted
        BY <1>9, <2>2 DEF ContactIssuer, IInv, RaceInv, ProgressInv
      <3>2. QED
        BY <1>9, <2>2, <3>1, NoneAssumption DEF ContactIssuer, Promise!Next, Promise!Contact
    <2>3. QED
      BY <2>1, <2>2
  <1>10. ASSUME NEW status \in Statuses, IssuerResponds(status)
         PROVE  [Promise!Next]_Promise!vars
    BY <1>10, DeniesOrStutters DEF IssuerResponds, ExchangeFailsWith, Catch, Decide, Promise!vars
  <1>11. CASE IssuerBodyEnds \/ IssuerBodyBreaks
    BY <1>11 DEF IssuerBodyEnds, IssuerBodyBreaks, Promise!vars
  <1>12. CASE CapabilityAccepted
    <2>1. CASE aborted
      BY <1>12, <2>1, DeniesOrStutters
      DEF CapabilityAccepted, ExchangeFails, ExchangeFailsWith, Catch, Decide
    <2>2. CASE ~aborted
      <3>1. winner = None /\ issuerContacted
        BY <1>12, <2>2 DEF CapabilityAccepted, IInv, RaceInv, ProgressInv
      <3>2. QED
        BY <1>12, <2>2, <3>1, NoneAssumption
        DEF CapabilityAccepted, Decide, Promise!Next, Promise!Grant
    <2>3. QED
      BY <2>1, <2>2
  <1>13. CASE UNCHANGED vars
    BY <1>13 DEF vars, Promise!vars
  <1>14. QED
    BY <1>1, <1>2, <1>3, <1>4, <1>5, <1>6, <1>7, <1>8, <1>9, <1>10, <1>11, <1>12, <1>13
    DEF Next, Invoke, Exchange

(* The handler implements the safety part of BoundedAnswer. *)
THEOREM KeepsPromiseSafely == Spec => Promise!Spec
  <1>1. Init => Promise!Init
    BY NoneAssumption DEF Init, Promise!Init
  <1>2. QED
    BY <1>1, PromiseStep, Invariance, PTL DEF Spec, Promise!Spec
===============================================================================
