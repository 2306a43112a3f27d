------------------------ MODULE CapabilityPath_proofs ------------------------
(***************************************************************************)
(* Theorems about CapabilityPath for every set of HTTP statuses, either    *)
(* platform and every token provider.  A step of the path is a step of the *)
(* handler or of the page's call, or leaves each alone, so the inductive   *)
(* invariants of the two carry over; what is new is the Node wrapper       *)
(* between them, and the request and the response that connect them.       *)
(***************************************************************************)
EXTENDS CapabilityPath, CapabilityAdapter_proofs

PageProofs == INSTANCE TokenProvider_proofs WITH
    pc <- pagePc, aborted <- pageAborted, timer <- pageTimer,
    listening <- pageListening, contacted <- pageContacted,
    winner <- pageWinner, answer <- pageAnswer

(* The wrapper has not begun, or refused the request itself: the handler   *)
(* was not called.                                                         *)
Uncalled ==
    /\ pc = "invoked"
    /\ diagnostic = None

(* Where the wrapper is, and what it knows of the handler. *)
WrapperInv ==
    /\ platform = "fetch" => wrapper = "idle"
    /\ platform = "node" /\ wrapper = "idle" => Uncalled /\ ~requestAborted
    /\ wrapper = "idle" => nodeDiagnostic = None /\ toWrite = None /\ served = None
    /\ wrapper = "handling" => nodeDiagnostic = None /\ toWrite = None
    /\ wrapper \in {"writing", "rejecting"} => toWrite # None
    /\ served # None => wrapper = "done"
    /\ wrapper \in {"writing", "rejecting", "done"}
           => answer # None \/ (Uncalled /\ nodeDiagnostic # None)

(* What the wrapper writes is what the handler answered, or a failure that *)
(* was reported.                                                           *)
AnswerInv ==
    /\ toWrite = "granted" => answer = "granted" /\ nodeDiagnostic = None
    /\ toWrite = "denied" => diagnostic # None \/ nodeDiagnostic # None
    /\ served = "granted" => answer = "granted"
    /\ diagnostic # None /\ nodeDiagnostic # None
           => wrapper \in {"rejecting", "done"} /\ answer # None

NodeInv == IInv /\ NodeTypeOK /\ WrapperInv /\ AnswerInv

(* What the page reads is what was served. *)
ResponseInv ==
    provider = "packaged" /\ (pagePc = "body" \/ pageWinner = "granted")
        => ServedAnswer = "granted"

PathInv == NodeInv /\ PageProofs!IInv /\ ResponseInv
------------------------------------------------------------------------------
(* A step of the path is one of the handler and one of the page, or less.  *)

LEMMA HandlerStep == [PathNext]_pathVars => [Next]_vars
BY DEF PathNext, pathVars, ServerReceives, ServerGoesOn, PageSteps, Receive, FetchInvokes,
       FetchAborts, NodeDisabled, NodeRefuses, NodeInvokes, Disconnect, HandlerSteps, Finish,
       HandlerAnswers, Write, WriteThrows, Next, Invoke

(* The two instances of TokenProvider are one. *)
LEMMA OnePage ==
    /\ Page!Init <=> PageProofs!Init
    /\ Page!Next <=> PageProofs!Next
    /\ Page!vars = PageProofs!vars
<1>1. Page!Init <=> PageProofs!Init
  BY DEF Page!Init, PageProofs!Init, Page!Providers, PageProofs!Providers
<1>2. Page!vars = PageProofs!vars
  BY DEF Page!vars, PageProofs!vars
<1>3. Page!Next <=> PageProofs!Next
  BY
   DEF Page!Next, PageProofs!Next, Page!Refuse, PageProofs!Refuse,
       Page!PackagedCall, PageProofs!PackagedCall, Page!V1Call,
       PageProofs!V1Call, Page!OptInCall, PageProofs!OptInCall,
       Page!BeginPackaged, PageProofs!BeginPackaged, Page!BeginV1,
       PageProofs!BeginV1, Page!BeginOptIn, PageProofs!BeginOptIn,
       Page!Exchange, PageProofs!Exchange, Page!FetchFails,
       PageProofs!FetchFails, Page!LateResponse,
       PageProofs!LateResponse, Page!BadResponse,
       PageProofs!BadResponse, Page!GoodResponse,
       PageProofs!GoodResponse, Page!BodyEnds, PageProofs!BodyEnds,
       Page!BodyFails, PageProofs!BodyFails, Page!DeadlineFires,
       PageProofs!DeadlineFires, Page!PageAborts, PageProofs!PageAborts,
       Page!Settle, PageProofs!Settle, Page!Return, PageProofs!Return,
       Page!Decide, PageProofs!Decide, Page!Contact, PageProofs!Contact,
       Page!Abort, PageProofs!Abort, Page!AbandonReader,
       PageProofs!AbandonReader, Page!deadlineVars,
       PageProofs!deadlineVars, Page!Outcomes, PageProofs!Outcomes
<1> QED
  BY <1>1, <1>2, <1>3

LEMMA PageStep == [PathNext]_pathVars => [PageProofs!Next]_PageProofs!vars
BY OnePage DEF PathNext, pathVars, pageVars, ServerReceives, ServerGoesOn, PageSteps,
       Page!vars, PageProofs!vars

LEMMA PathInitially == PathInit => PathInv
<1> SUFFICES ASSUME PathInit PROVE PathInv
  OBVIOUS
<1>1. IInv
  BY InitIInv DEF PathInit, NodeInit
<1>2. PageProofs!IInv
  BY OnePage, PageProofs!Initially, NoneAssumption DEF PathInit, PageProofs!Outcomes
<1>3. NodeTypeOK /\ WrapperInv /\ AnswerInv
  BY NoneAssumption DEF PathInit, NodeInit, Init, NodeTypeOK, WrapperInv, AnswerInv, Uncalled, Answers
<1>4. ResponseInv
  BY NoneAssumption DEF PathInit, Page!Init, ResponseInv
<1> QED
  BY <1>1, <1>2, <1>3, <1>4 DEF PathInv, NodeInv
------------------------------------------------------------------------------
(* The handler, as the wrapper sees it.                                    *)

(* A handler that was not called does nothing. *)
LEMMA UncalledStays ==
  ASSUME IInv, Uncalled, Disconnect \/ HandlerSteps
  PROVE  Uncalled'
<1>1. timer = "unset" /\ ~listening /\ winner = None /\ issuerBody # "leased"
  BY DEF IInv, ProgressInv, NotStarted, Uncalled
<1>2. CASE Disconnect
  BY <1>1, <1>2 DEF Disconnect, RequestAborts, Uncalled, vars
<1>3. CASE HandlerSteps
  BY <1>1, <1>3
  DEF HandlerSteps, Uncalled, DeadlineFires, Settle, Exchange, BodyRejected, BodyRead,
      PolicyRefuses, PolicyAllows, AuthenticatorFails, ContactIssuer, TransportFails,
      LateResponse, IssuerResponds, IssuerBodyEnds, IssuerBodyBreaks, ReadCut,
      CapabilityRejected, CapabilityAccepted
<1> QED
  BY <1>2, <1>3

LEMMA HandlerSteadies ==
  ASSUME NodeInv, Disconnect \/ HandlerSteps \/ FetchAborts
  PROVE  NodeTypeOK' /\ WrapperInv' /\ AnswerInv'
<1> USE NoneAssumption DEF NodeInv
<1>1. [Next]_vars
  BY DEF Disconnect, HandlerSteps, FetchAborts, Next
<1>2. UNCHANGED <<platform, wrapper, nodeDiagnostic, toWrite, served>>
  BY DEF Disconnect, HandlerSteps, FetchAborts, nodeVars
<1>3. answer # None => UNCHANGED <<answer, diagnostic>>
  BY <1>1, AfterAnswer
<1>4. CASE FetchAborts
  BY <1>2, <1>3, <1>4
  DEF FetchAborts, nodeVars, NodeTypeOK, WrapperInv, AnswerInv, Answers
<1>5. CASE Disconnect \/ HandlerSteps
  <2>1. Uncalled => Uncalled'
    BY <1>5, UncalledStays
  <2>2. platform = "node" /\ wrapper = "idle" => requestAborted' = requestAborted
    BY <1>5
    DEF Disconnect, HandlerSteps, WrapperInv, Uncalled, DeadlineFires, Settle, Exchange,
        BodyRejected, BodyRead, PolicyRefuses, PolicyAllows, AuthenticatorFails,
        ContactIssuer, TransportFails, LateResponse, IssuerResponds, IssuerBodyEnds,
        IssuerBodyBreaks, ReadCut, CapabilityRejected, CapabilityAccepted, handlerVars
  <2>3. responseClosed' \in BOOLEAN
    BY <1>5 DEF Disconnect, HandlerSteps, nodeVars, NodeTypeOK
  <2>4. WrapperInv'
    BY <1>2, <1>3, <2>1, <2>2 DEF WrapperInv
  <2>5. AnswerInv'
    BY <1>2, <1>3, <2>1 DEF NodeTypeOK, WrapperInv, AnswerInv, Uncalled
  <2> QED
    BY <1>2, <2>3, <2>4, <2>5 DEF NodeTypeOK
<1> QED
  BY <1>4, <1>5

LEMMA WrapperSteadies ==
  ASSUME NodeInv, Receive \/ Finish
  PROVE  NodeTypeOK' /\ WrapperInv' /\ AnswerInv'
<1> USE NoneAssumption, NodeNoneAssumption
    DEF NodeInv, NodeTypeOK, WrapperInv, AnswerInv, Answers, NodePhases
<1>1. CASE FetchInvokes
  BY <1>1 DEF FetchInvokes, nodeVars
<1>2. CASE NodeDisabled
  BY <1>2 DEF NodeDisabled, NodeReport, WriteNext, Uncalled, vars
<1>3. CASE NodeRefuses
  BY <1>3 DEF NodeRefuses, NodeReport, WriteNext, Uncalled, vars
<1>4. CASE NodeInvokes
  BY <1>4 DEF NodeInvokes
<1>5. CASE HandlerAnswers
  <2>1. answer = "denied" => diagnostic # None
    BY DEF IInv, RaceInv, DiagnosticInv
  <2>2. answer \in Answers
    BY <1>5 DEF HandlerAnswers, IInv, TypeOK
  <2>3. answer # None /\ wrapper = "handling"
    BY <1>5 DEF HandlerAnswers
  <2>4. UNCHANGED <<answer, diagnostic, platform, responseClosed, nodeDiagnostic, served>>
        /\ wrapper' = "writing" /\ toWrite' = answer
    BY <1>5 DEF HandlerAnswers, WriteNext, vars
  <2>5. NodeTypeOK'
    BY <2>2, <2>4
  <2>6. WrapperInv'
    BY <2>3, <2>4
  <2>7. AnswerInv'
    BY <2>1, <2>3, <2>4
  <2> QED
    BY <2>5, <2>6, <2>7
<1>6. CASE Write
  BY <1>6 DEF Write, Uncalled, vars
<1>7. CASE WriteThrows
  BY <1>7 DEF WriteThrows, NodeReport, WriteNext, Uncalled, vars
<1> QED
  BY <1>1, <1>2, <1>3, <1>4, <1>5, <1>6, <1>7 DEF Receive, Finish

LEMMA NodeSteady == PathInv /\ [PathNext]_pathVars => NodeInv'
<1> SUFFICES ASSUME PathInv, [PathNext]_pathVars PROVE NodeInv'
  OBVIOUS
<1>1. IInv'
  BY HandlerStep, NextIInv DEF PathInv, NodeInv
<1>2. CASE UNCHANGED <<vars, nodeVars>>
  BY <1>1, <1>2
  DEF PathInv, NodeInv, NodeTypeOK, WrapperInv, AnswerInv, Uncalled, vars, nodeVars
<1>3. CASE Disconnect \/ HandlerSteps \/ FetchAborts
  BY <1>1, <1>3, HandlerSteadies DEF PathInv, NodeInv
<1>4. CASE Receive \/ Finish
  BY <1>1, <1>4, WrapperSteadies DEF PathInv, NodeInv
<1> QED
  BY <1>2, <1>3, <1>4 DEF PathNext, ServerReceives, ServerGoesOn, PageSteps, pathVars
------------------------------------------------------------------------------
(* The page.                                                               *)

LEMMA ServedStays ==
  ASSUME PathInv, [PathNext]_pathVars, ServedAnswer = "granted"
  PROVE  ServedAnswer' = "granted"
<1> USE NoneAssumption
<1>1. platform' = platform
  BY DEF PathNext, ServerReceives, ServerGoesOn, PageSteps, pathVars, nodeVars, Receive,
         FetchInvokes, FetchAborts, NodeDisabled, NodeRefuses, NodeInvokes, Disconnect,
         HandlerSteps, Finish, HandlerAnswers, Write, WriteThrows
<1>2. CASE platform = "fetch"
  BY <1>1, <1>2, HandlerStep, AfterAnswer DEF ServedAnswer, PathInv, NodeInv
<1>3. CASE platform # "fetch"
  <2>1. served = "granted" /\ wrapper = "done"
    BY <1>3 DEF ServedAnswer, PathInv, NodeInv, WrapperInv
  <2>2. served' = served
    BY <2>1
    DEF PathNext, ServerReceives, ServerGoesOn, PageSteps, pathVars, nodeVars, Receive,
        FetchInvokes, FetchAborts, NodeDisabled, NodeRefuses, NodeInvokes, Disconnect,
        HandlerSteps, Finish, HandlerAnswers, Write, WriteThrows
  <2> QED
    BY <1>1, <1>3, <2>1, <2>2 DEF ServedAnswer
<1> QED
  BY <1>2, <1>3

LEMMA ResponseSteady == PathInv /\ [PathNext]_pathVars => ResponseInv'
<1> SUFFICES ASSUME PathInv, [PathNext]_pathVars,
                    provider' = "packaged", pagePc' = "body" \/ pageWinner' = "granted"
             PROVE  ServedAnswer' = "granted"
  BY DEF ResponseInv
<1>1. CASE UNCHANGED pageVars
  BY <1>1, ServedStays DEF PathInv, ResponseInv, pageVars
<1>2. CASE PageSteps
  <2>1. provider = "packaged"
    BY <1>2
    DEF PageSteps, Page!Next, Page!Refuse, Page!PackagedCall, Page!V1Call, Page!OptInCall,
        Page!BeginPackaged, Page!BeginV1, Page!BeginOptIn, Page!Exchange, Page!FetchFails,
        Page!LateResponse, Page!BadResponse, Page!GoodResponse, Page!BodyEnds,
        Page!BodyFails, Page!DeadlineFires, Page!PageAborts, Page!Settle, Page!deadlineVars
  <2>2. \/ pagePc = "body" \/ pageWinner = "granted"
        \/ pagePc = "fetch" /\ pagePc' = "body"
    BY <1>2
    DEF PageSteps, Page!Next, Page!Refuse, Page!PackagedCall, Page!V1Call, Page!OptInCall,
        Page!BeginPackaged, Page!BeginV1, Page!BeginOptIn, Page!Exchange, Page!FetchFails,
        Page!LateResponse, Page!BadResponse, Page!GoodResponse, Page!BodyEnds,
        Page!BodyFails, Page!DeadlineFires, Page!PageAborts, Page!Settle, Page!deadlineVars,
        Page!Return, Page!Decide, Page!Contact, Page!Abort
  <2>3. ServedAnswer = "granted"
    BY <1>2, <2>1, <2>2 DEF PageSteps, PathInv, ResponseInv
  <2> QED
    BY <2>3, ServedStays
<1> QED
  BY <1>1, <1>2 DEF PathNext, ServerReceives, ServerGoesOn, pathVars

LEMMA PathInductive == PathInv /\ [PathNext]_pathVars => PathInv'
<1> SUFFICES ASSUME PathInv, [PathNext]_pathVars PROVE PathInv'
  OBVIOUS
<1>1. PageProofs!IInv'
  BY PageStep, PageProofs!Inductive, NoneAssumption DEF PathInv, PageProofs!Outcomes
<1> QED
  BY <1>1, NodeSteady, ResponseSteady DEF PathInv
------------------------------------------------------------------------------
(* The invariants of page, wrapper and handler hold along every path. *)
THEOREM PathInvariance == PathSpec => []PathInv
BY PathInitially, PathInductive, PTL DEF PathSpec

(* The handler on the path behaves as CapabilityAdapter says, so that what *)
(* is proved there of every invocation is true of the path's.              *)
THEOREM PathHasHandler == PathSpec => Spec
<1>1. PathInit => Init
  BY DEF PathInit, NodeInit
<1> QED
  BY <1>1, HandlerStep, PTL DEF PathSpec, Spec

(* The variables stay in their types. *)
THEOREM PathTypeCorrect == PathSpec => []PathTypeOK
<1>1. PathInv => PathTypeOK
  BY DEF PathInv, NodeInv, IInv, PathTypeOK, PageProofs!IInv, PageProofs!TypeOK, Page!TypeOK,
         Page!Providers, PageProofs!Providers, Page!Outcomes, PageProofs!Outcomes
<1> QED
  BY <1>1, PathInvariance, PTL

(* A page that holds a capability got it whole, and from a handler that    *)
(* had earned it.                                                          *)
THEOREM PathEarned == PathSpec => []CapabilityIsEarned
<1>1. ASSUME PathInv PROVE CapabilityIsEarned
  <2>1. GrantIsEarned
    BY <1>1 DEF PathInv, NodeInv, IInv, GrantInv, GrantIsEarned
  <2>2. pageWinner = "granted" => Page!GrantIsWhole
    BY <1>1 DEF PathInv, PageProofs!IInv, PageProofs!Reading, Page!GrantIsWhole
  <2>3. ServedAnswer = "granted" => winner = "granted"
    BY <1>1, NoneAssumption
    DEF PathInv, NodeInv, IInv, RaceInv, AnswerInv, ServedAnswer
  <2> QED
    BY <1>1, <2>1, <2>2, <2>3 DEF PathInv, ResponseInv, CapabilityIsEarned
<1> QED
  BY <1>1, PathInvariance, PTL

(* A page's call that was answered holds nothing. *)
THEOREM PageReleases == PathSpec => []PageHoldsNothing
<1>1. PathInv => PageHoldsNothing
  BY PageProofs!Released, NoneAssumption
  DEF PathInv, PageHoldsNothing, PageProofs!Outcomes, PageProofs!NothingHeldAfterAnswer,
      Page!NothingHeldAfterAnswer
<1> QED
  BY <1>1, PathInvariance, PTL

(* The wrapper writes at most once, what the handler decided, and reports  *)
(* what it refuses by itself.                                              *)
THEOREM WrittenAsDecided == PathSpec => ServedAsDecided
<1> DEFINE A ==
      served' # served =>
          /\ served = None /\ ~responseClosed
          /\ served' = "granted" => answer = "granted" /\ nodeDiagnostic = None
          /\ served' = "denied" => diagnostic # None \/ nodeDiagnostic # None
          /\ diagnostic # None /\ nodeDiagnostic # None
                => wrapper = "rejecting" /\ answer # None
<1>1. ASSUME PathInv, [PathNext]_pathVars PROVE A
  <2>1. SUFFICES ASSUME served' # served PROVE A
    OBVIOUS
  <2>2. Write
    BY <1>1, <2>1
    DEF PathNext, ServerReceives, ServerGoesOn, PageSteps, pathVars, nodeVars, Receive,
        FetchInvokes, FetchAborts, NodeDisabled, NodeRefuses, NodeInvokes, Disconnect,
        HandlerSteps, Finish, HandlerAnswers, WriteThrows
  <2>3. served' = toWrite /\ ~responseClosed /\ wrapper \in {"writing", "rejecting"}
    BY <2>1, <2>2 DEF Write
  <2> QED
    BY <1>1, <2>3 DEF PathInv, NodeInv, WrapperInv, AnswerInv
<1>2. PathInv /\ [PathNext]_pathVars => [A]_nodeVars
  BY <1>1
<1> QED
  BY <1>2, PathInvariance, PTL DEF PathSpec, ServedAsDecided

(* The page's call keeps what BoundedAnswer promises, as to its safety. *)
THEOREM PageKeepsPromiseSafely == PathSpec => Page!Promise!Spec
<1>1. PathInit => Page!Promise!Init
  BY DEF PathInit, Page!Init, Page!Promise!Init
<1>2. PathInv /\ [PathNext]_pathVars => [Page!Promise!Next]_(Page!Promise!vars)
  BY PageStep, PageProofs!PromiseStep, NoneAssumption
  DEF PathInv, PageProofs!Outcomes, Page!Promise!Next, PageProofs!Promise!Next,
      Page!Promise!vars, PageProofs!Promise!vars, Page!Promise!Contact,
      PageProofs!Promise!Contact, Page!Promise!Grant, PageProofs!Promise!Grant,
      Page!Promise!Deny, PageProofs!Promise!Deny, Page!Promise!Close,
      PageProofs!Promise!Close, Page!Promise!Deliver, PageProofs!Promise!Deliver,
      Page!Promise!ContactFails, PageProofs!Promise!ContactFails, Page!Promise!Refuse,
      PageProofs!Promise!Refuse
<1> QED
  BY <1>1, <1>2, PathInvariance, PTL DEF PathSpec, Page!Promise!Spec
------------------------------------------------------------------------------
(* The handler with its wrapper keeps the promise too: what the wrapper    *)
(* refuses by itself is denied, and answered when its answer is written.   *)

LEMMA RefusedIsUncalled ==
  ASSUME NodeInv, nodeDiagnostic # None
  PROVE  /\ winner = None <=> answer = None
         /\ winner = None => Uncalled /\ ~listening /\ timer = "unset"
                            /\ wrapper \in {"writing", "rejecting", "done"}
BY NoneAssumption
DEF NodeInv, NodeTypeOK, WrapperInv, Uncalled, IInv, RaceInv, ProgressInv, NotStarted

LEMMA NodePromiseStep == PathInv /\ [PathNext]_pathVars => [NodePromise!Next]_(NodePromise!vars)
<1> SUFFICES ASSUME PathInv, [PathNext]_pathVars
             PROVE  [NodePromise!Next]_(NodePromise!vars)
  OBVIOUS
<1> USE NoneAssumption, NodeNoneAssumption DEF NodePhases
<1>1. NodeInv /\ IInv
  BY DEF PathInv, NodeInv
(* Nothing is refused before or after: the handler's step. *)
<1>2. CASE ~RefusedByNode /\ ~RefusedByNode'
  <2>1. [Promise!Next]_(Promise!vars)
    BY <1>1, HandlerStep, PromiseStep
  <2> QED
    BY <1>2, <2>1
    DEF Promise!Next, NodePromise!Next, Promise!vars, NodePromise!vars, Promise!Contact,
        NodePromise!Contact, Promise!Grant, NodePromise!Grant, Promise!Deny,
        NodePromise!Deny, Promise!Close, NodePromise!Close, Promise!Deliver,
        NodePromise!Deliver, Promise!ContactFails, NodePromise!ContactFails, Promise!Refuse,
        NodePromise!Refuse
(* The wrapper refuses. *)
<1>3. CASE ~RefusedByNode /\ RefusedByNode'
  <2>1. NodeDisabled \/ NodeRefuses
    <3>1. nodeDiagnostic = None \/ winner # None
      BY <1>3 DEF RefusedByNode
    <3>2. CASE nodeDiagnostic = None
      BY <1>1, <1>3, <3>2
      DEF RefusedByNode, PathNext, ServerReceives, ServerGoesOn, PageSteps, pathVars,
          nodeVars, Receive, FetchInvokes, FetchAborts, NodeInvokes, Disconnect,
          HandlerSteps, Finish, HandlerAnswers, Write, WriteThrows, NodeReport, vars,
          NodeInv, WrapperInv, Uncalled, IInv, RaceInv
    <3>3. CASE nodeDiagnostic # None /\ winner # None
      <4>1. answer # None
        BY <1>1, <3>3, RefusedIsUncalled
      <4>2. winner' = winner
        BY <1>1, <4>1, HandlerStep, AfterAnswer
      <4> QED
        BY <1>3, <3>3, <4>2 DEF RefusedByNode
    <3> QED
      BY <3>1, <3>2, <3>3
  <2>2. winner = None /\ answer = None
    BY <1>1, <2>1
    DEF NodeDisabled, NodeRefuses, NodeInv, WrapperInv, Uncalled, IInv, RaceInv, ProgressInv,
        NotStarted
  <2>3. wrapper' # "done" /\ UNCHANGED vars
    BY <2>1 DEF NodeDisabled, NodeRefuses, WriteNext
  <2> QED
    BY <1>3, <2>2, <2>3
    DEF RefusedByNode, NodePromise!Next, NodePromise!Deny, vars
(* The refusal is on its way, or written. *)
<1>4. CASE RefusedByNode
  <2>1. Uncalled /\ winner = None /\ answer = None /\ wrapper \in {"writing", "rejecting", "done"}
        /\ ~listening /\ timer = "unset"
    BY <1>1, <1>4, RefusedIsUncalled DEF RefusedByNode
  <2>2. issuerBody # "leased"
    BY <1>1, <2>1 DEF IInv, ProgressInv, Uncalled
  <2>3. UNCHANGED <<winner, issuerContacted, aborted>>
    <3>1. wrapper # "idle" /\ platform # "fetch" /\ wrapper # "handling"
      BY <1>1, <2>1 DEF NodeInv, WrapperInv
    <3>2. ~Receive /\ ~FetchAborts /\ ~HandlerAnswers
      BY <3>1 DEF Receive, FetchInvokes, FetchAborts, NodeDisabled, NodeRefuses, NodeInvokes,
                  HandlerAnswers
    <3>3. CASE Disconnect
      BY <2>1, <3>3 DEF Disconnect, RequestAborts, exchangeVars, vars
    <3>4. ~HandlerSteps
      BY <2>1, <2>2
      DEF HandlerSteps, Uncalled, DeadlineFires, Settle, Exchange, BodyRejected, BodyRead,
          PolicyRefuses, PolicyAllows, AuthenticatorFails, ContactIssuer, TransportFails,
          LateResponse, IssuerResponds, IssuerBodyEnds, IssuerBodyBreaks, ReadCut,
          CapabilityRejected, CapabilityAccepted
    <3> QED
      BY <3>2, <3>3, <3>4
      DEF PathNext, ServerReceives, ServerGoesOn, PageSteps, pathVars, Finish, Write,
          WriteThrows, vars
  <2>4. nodeDiagnostic' # None /\ (wrapper = "done" => wrapper' = "done")
    BY <1>4, <2>1
    DEF RefusedByNode, PathNext, ServerReceives, ServerGoesOn, PageSteps, pathVars, nodeVars,
        Receive, FetchInvokes, FetchAborts, NodeDisabled, NodeRefuses, NodeInvokes,
        Disconnect, HandlerSteps, Finish, HandlerAnswers, Write, WriteThrows, NodeReport
  <2> QED
    BY <1>4, <2>1, <2>3, <2>4
    DEF RefusedByNode, NodePromise!Next, NodePromise!Deliver, NodePromise!vars
<1> QED
  BY <1>2, <1>3, <1>4

(* The handler behind its wrapper implements the safety part of            *)
(* BoundedAnswer.                                                          *)
THEOREM NodeKeepsPromiseSafely == PathSpec => NodePromise!Spec
<1>1. PathInit => NodePromise!Init
  BY NoneAssumption DEF PathInit, NodeInit, Init, NodePromise!Init, RefusedByNode
<1> QED
  BY <1>1, NodePromiseStep, PathInvariance, PTL DEF PathSpec, NodePromise!Spec
==============================================================================
