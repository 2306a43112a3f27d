------------------------ MODULE TokenProvider_proofs ------------------------
(* Proofs about TokenProvider, for every provider and every page signal.  The *)
(* one hypothesis is that None is not an outcome; the module that makes an  *)
(* instance of this one discharges it.                                      *)
EXTENDS TokenProvider, TLAPS

(* What is always true of the race, from any state of a call. *)
Race ==
    /\ aborted \/ pc = "done" <=> winner # None
    /\ timer = "fired" => aborted
    /\ listening \/ timer = "armed" => answer = None
    /\ answer # None => answer = winner
    /\ pc = "idle" => timer = "unset" /\ ~listening /\ ~contacted
    /\ pc \in {"fetch", "body"} => contacted
    /\ pc = "idle" => winner = None
    /\ provider = "optIn" => timer = "unset"

(* What is always true of the response's body: it is being read only at    *)
(* the reader's await of an open call.                                     *)
Reading ==
    /\ pc = "body" => body \in {"reading", "cut"}
    /\ body = "reading" => pc = "body" /\ ~aborted
    /\ body = "cut" => aborted
    /\ winner = "granted" => pc = "done" /\ body = "ended" /\ timer # "fired" /\ contacted

IInv == TypeOK /\ Race /\ Reading

LEMMA Initially == None \notin Outcomes /\ Init => IInv
BY DEF Init, IInv, TypeOK, Race, Reading, Providers, Outcomes

LEMMA Inductive == None \notin Outcomes /\ IInv /\ [Next]_vars => IInv'
<1> SUFFICES ASSUME None \notin Outcomes, IInv, [Next]_vars PROVE IInv'
  OBVIOUS
<1> USE DEF IInv, TypeOK, Race, Reading, Providers, Outcomes
<1>1. CASE Refuse
  BY <1>1 DEF Refuse, Return, Decide, deadlineVars
<1>2. CASE BeginPackaged
  BY <1>2 DEF BeginPackaged, Return, Decide, Contact
<1>3. CASE BeginV1
  BY <1>3 DEF BeginV1, Contact
<1>4. CASE BeginOptIn
  BY <1>4 DEF BeginOptIn, Contact, deadlineVars
<1>5. CASE FetchFails
  BY <1>5 DEF FetchFails, Return, Decide, deadlineVars
<1>6. CASE LateResponse
  BY <1>6 DEF LateResponse, Return, Decide, deadlineVars
<1>7. CASE BadResponse
  BY <1>7 DEF BadResponse, Return, Decide, deadlineVars
<1>8. CASE GoodResponse
  BY <1>8 DEF GoodResponse, deadlineVars
<1>9. CASE BodyEnds
  BY <1>9 DEF BodyEnds, Return, Decide, deadlineVars
<1>10. CASE BodyFails
  BY <1>10 DEF BodyFails, Return, Decide, deadlineVars
<1>11. CASE DeadlineFires
  BY <1>11 DEF DeadlineFires, Abort, AbandonReader, Decide
<1>12. CASE PageAborts
  BY <1>12 DEF PageAborts, Abort, AbandonReader, Decide
<1>13. CASE Settle
  BY <1>13 DEF Settle
<1>14. CASE UNCHANGED vars
  BY <1>14 DEF vars
<1> QED
  BY <1>1, <1>2, <1>3, <1>4, <1>5, <1>6, <1>7, <1>8, <1>9, <1>10, <1>11, <1>12, <1>13, <1>14
     DEF Next, PackagedCall, V1Call, OptInCall, Exchange

(* The invariant of a call, from which the rest follows. *)
THEOREM CallInvariance ==
  ASSUME None \notin Outcomes
  PROVE  Spec => []IInv
<1>1. Init => IInv
  BY Initially
<1>2. IInv /\ [Next]_vars => IInv'
  BY Inductive
<1> QED
  BY <1>1, <1>2, PTL DEF Spec

(* No capability comes from a body that was cut. *)
THEOREM WholeGrants ==
  ASSUME None \notin Outcomes
  PROVE  Spec => []GrantIsWhole
<1>1. IInv => GrantIsWhole
  BY DEF IInv, Reading, GrantIsWhole
<1>2. Spec => []IInv
  BY CallInvariance
<1> QED
  BY <1>1, <1>2, PTL

(* A settled call holds nothing. *)
LEMMA Released == None \notin Outcomes /\ IInv => NothingHeldAfterAnswer
BY DEF IInv, TypeOK, Race, Reading, NothingHeldAfterAnswer, Outcomes

(* A settled call reads nothing and waits for nothing. *)
THEOREM NothingHeldByCall ==
  ASSUME None \notin Outcomes
  PROVE  Spec => []NothingHeldAfterAnswer
<1>1. IInv => NothingHeldAfterAnswer
  BY Released
<1>2. Spec => []IInv
  BY CallInvariance
<1> QED
  BY <1>1, <1>2, PTL
----------------------------------------------------------------------------
(* The refinement of BoundedAnswer: what each step is there.               *)

LEMMA PromiseInit == Init => Promise!Init
BY DEF Init, Promise!Init

LEMMA PromiseStep == None \notin Outcomes /\ IInv /\ [Next]_vars => [Promise!Next]_(Promise!vars)
<1> SUFFICES ASSUME None \notin Outcomes, IInv, [Next]_vars PROVE [Promise!Next]_(Promise!vars)
  OBVIOUS
<1> USE DEF IInv, TypeOK, Race, Reading, Providers, Outcomes,
        Promise!Next, Promise!vars
(* Sending is a contact, and leaves the race open. *)
<1>1. CASE Refuse
  BY <1>1 DEF Refuse, Return, Decide, deadlineVars, Promise!Deny
<1>2. CASE BeginPackaged
  <2>1. CASE signal
    BY <1>2, <2>1 DEF BeginPackaged, Return, Decide, Promise!Close
  <2>2. CASE ~signal
    BY <1>2, <2>2 DEF BeginPackaged, Contact, Promise!Contact
  <2> QED
    BY <2>1, <2>2
<1>3. CASE BeginV1
  BY <1>3 DEF BeginV1, Contact, Promise!Contact
<1>4. CASE BeginOptIn
  BY <1>4 DEF BeginOptIn, Contact, deadlineVars, Promise!Contact
(* The end of exchange() denies a race that is open. *)
<1>5. CASE FetchFails
  BY <1>5 DEF FetchFails, Return, Decide, deadlineVars, Promise!Deny
<1>6. CASE LateResponse
  BY <1>6 DEF LateResponse, Return, Decide, deadlineVars, Promise!Deny
<1>7. CASE BadResponse
  BY <1>7 DEF BadResponse, Return, Decide, deadlineVars, Promise!Deny
<1>8. CASE GoodResponse
  BY <1>8 DEF GoodResponse, deadlineVars
<1>9. CASE BodyEnds
  <2>1. PICK outcome \in Outcomes : (aborted => outcome = "denied") /\ Return(outcome)
    BY <1>9 DEF BodyEnds
  <2>2. UNCHANGED <<contacted, aborted, answer>>
    BY <1>9 DEF BodyEnds, deadlineVars
  <2>3. CASE outcome = "granted" /\ winner = None
    BY <1>9, <2>1, <2>2, <2>3 DEF BodyEnds, Return, Decide, Promise!Grant
  <2>4. CASE outcome = "denied" /\ winner = None
    BY <1>9, <2>1, <2>2, <2>4 DEF BodyEnds, Return, Decide, Promise!Deny
  <2>5. CASE winner # None
    BY <2>1, <2>2, <2>5 DEF Return, Decide
  <2> QED
    BY <2>1, <2>3, <2>4, <2>5
<1>10. CASE BodyFails
  BY <1>10 DEF BodyFails, Return, Decide, deadlineVars, Promise!Deny
(* The deadline and the page close the call. *)
<1>11. CASE DeadlineFires
  BY <1>11 DEF DeadlineFires, Abort, Decide, Promise!Close
<1>12. CASE PageAborts
  <2>1. CASE ~listening \/ aborted
    BY <1>12, <2>1 DEF PageAborts, Abort, Decide
  <2>2. CASE listening /\ ~aborted
    BY <1>12, <2>2 DEF PageAborts, Abort, Decide, Promise!Close
  <2> QED
    BY <2>1, <2>2
<1>13. CASE Settle
  BY <1>13 DEF Settle, Promise!Deliver
<1>14. CASE UNCHANGED vars
  BY <1>14 DEF vars
<1> QED
  BY <1>1, <1>2, <1>3, <1>4, <1>5, <1>6, <1>7, <1>8, <1>9, <1>10, <1>11, <1>12, <1>13, <1>14
     DEF Next, PackagedCall, V1Call, OptInCall, Exchange

(* A call of the token provider keeps what BoundedAnswer promises: one      *)
(* contact, while open; a grant only while open; one final answer.          *)
THEOREM CallKeepsPromise ==
  ASSUME None \notin Outcomes
  PROVE  Spec => Promise!Spec
<1>1. IInv /\ [Next]_vars => [Promise!Next]_(Promise!vars)
  BY PromiseStep
<1>2. Spec => []IInv
  BY CallInvariance
<1> QED
  BY PromiseInit, <1>1, <1>2, PTL DEF Spec, Promise!Spec
=============================================================================
