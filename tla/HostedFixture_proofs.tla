------------------------ MODULE HostedFixture_proofs ------------------------
(***************************************************************************)
(* Theorems about HostedFixture for every number of sessions, requests and *)
(* submissions, and for every choice of the time limits in which a lease   *)
(* outlives the deadline of a request.                                     *)
(***************************************************************************)
EXTENDS HostedFixture, FiniteSetTheorems, TLAPS

(* The lease of request r is the active one of its session, and outlives   *)
(* the deadline of r.                                                      *)
Held(r) ==
    LET record == session[request[r].session] IN
    /\ record # None
    /\ record.active # None
    /\ record.active.token = r
    /\ deadline[r] < record.active.until

(* An unanswered request has a timer that is not overdue; an answered one  *)
(* has none and exchanges nothing.                                         *)
TimerInv ==
    \A r \in Requests :
        /\ handler[r] = "idle" => answer[r] = None /\ deadline[r] = None
        /\ handler[r] # "idle" /\ answer[r] = None =>
              deadline[r] \in Nat /\ now <= deadline[r] /\ deadline[r] <= now + DEADLINE_MS
        /\ answer[r] # None => deadline[r] = None /\ handler[r] # "exchanging"
        /\ handler[r] = "done" => answer[r] # None

(* One call to /authorize per request, before its charge; a finish only    *)
(* after the answer.                                                       *)
CallOf(r) ==
    /\ handler[r] \in {"idle", "reading"} =>
          <<"authorize", r>> \notin calls /\ chargedAt[r] = None
    /\ <<"authorize", r>> \in calls => chargedAt[r] = None
    /\ <<"leased", r>> \in replies => chargedAt[r] # None
    /\ handler[r] = "exchanging" => chargedAt[r] # None
    /\ <<"finish", r>> \in calls => answer[r] # None

CallInv == \A r \in Requests : CallOf(r)

(* A charged request is bound, and holds its lease until it is answered. *)
ChargeOf(r) ==
    chargedAt[r] # None =>
        /\ binding[request[r].submission] =
               [session |-> request[r].session, digest |-> request[r].digest]
        /\ answer[r] = None => Held(r)

ChargeInv == \A r \in Requests : ChargeOf(r)

SignInInv == \A s \in Sessions : session[s] # None => signIn[s] = "over"

FixtureInv == TypeOK /\ TimerInv /\ CallInv /\ ChargeInv /\ SignInInv
-----------------------------------------------------------------------------
(* What the object's transactions do. *)
LEMMA ChargeTyped ==
  ASSUME NEW rate \in Windows, now \in Nat
  PROVE  Charge(rate) \in Windows
  BY DEF Charge, Windows, Time

Granted(r) ==
    LET id == request[r].session IN
    /\ Admits(r)
    /\ session' = [session EXCEPT ![id] =
           [expiresAt |-> session[id].expiresAt,
            rate |-> Charge(session[id].rate),
            active |-> [token |-> r, until |-> now + LEASE_MS]]]
    /\ binding' = [binding EXCEPT ![request[r].submission] =
           [session |-> id, digest |-> request[r].digest]]
    /\ chargedAt' = [chargedAt EXCEPT ![r] = now]
    /\ replies' \subseteq replies \cup {<<"leased", r>>}

Denied(r) ==
    /\ UNCHANGED <<session, binding, chargedAt>>
    /\ replies' \subseteq replies \cup {<<"refused", r>>}

LEMMA AuthorizeEffect ==
  ASSUME TypeOK, NEW r \in Requests, Authorize(r)
  PROVE  Granted(r) \/ Denied(r)
  <1> DEFINE id == request[r].session
             submission == request[r].submission
             content == [session |-> id, digest |-> request[r].digest]
  <1>0. request[r] \in [session : Sessions, submission : Submissions, digest : Digests]
    BY DEF TypeOK
  <1>1. CASE UNCHANGED <<binding, session, chargedAt>> /\ replies' \in {replies, replies \cup {<<"refused", r>>}}
    BY <1>1 DEF Denied
  <1>2. CASE /\ Admits(r)
             /\ binding' = IF binding[submission] = None
                           THEN [binding EXCEPT ![submission] = content]
                           ELSE binding
             /\ session' = [session EXCEPT ![id] =
                    [expiresAt |-> @.expiresAt,
                     rate |-> Charge(@.rate),
                     active |-> [token |-> r, until |-> now + LEASE_MS]]]
             /\ chargedAt' = [chargedAt EXCEPT ![r] = now]
             /\ replies' \in {replies, replies \cup {<<"leased", r>>}}
    <2>1. binding' = [binding EXCEPT ![submission] = content]
      BY <1>0, <1>2 DEF Admits, TypeOK
    <2>2. QED
      BY <1>2, <2>1 DEF Granted
  <1>3. QED
    BY <1>1, <1>2 DEF Authorize

(* A finish releases the lease of its own request, or nothing. *)
LEMMA FinishEffect ==
  ASSUME TypeOK, NEW r \in Requests, Finish(r)
  PROVE  \/ session' = session
         \/ LET id == request[r].session IN
            /\ session[id] \in SessionRecords
            /\ session[id].active # None /\ session[id].active.token = r
            /\ session' = [session EXCEPT ![id] =
                   [expiresAt |-> session[id].expiresAt,
                    rate |-> session[id].rate, active |-> None]]
  <1> DEFINE id == request[r].session
  <1>0. id \in Sessions
    BY DEF TypeOK
  <1>1. CASE session[id] # None /\ session[id].active # None /\ session[id].active.token = r
    <2>1. session[id] \in SessionRecords
      BY <1>0, <1>1 DEF TypeOK
    <2>2. QED
      BY <1>1, <2>1 DEF Finish
  <1>2. CASE ~(session[id] # None /\ session[id].active # None /\ session[id].active.token = r)
    BY <1>2 DEF Finish
  <1>3. QED
    BY <1>1, <1>2

(* Types. *)
LEMMA NextTyped ==
  ASSUME TypeOK, [Next]_vars
  PROVE  TypeOK'
  <1> USE FixtureAssumption, NoneAssumption DEF TypeOK, Time, Windows, Leases, SessionRecords, Contents, storage, worker, network, history
  <1>1. ASSUME NEW s \in Sessions, SignInFails(s)
        PROVE  TypeOK'
    BY <1>1 DEF SignInFails
  <1>2. ASSUME NEW s \in Sessions, LoginAllow(s)
        PROVE  TypeOK'
    <2>1. loginRate' \in Windows \cup {None}
      <3>1. CASE loginRate = None
        BY <1>2, <3>1 DEF LoginAllow
      <3>2. CASE loginRate # None
        BY <1>2, <3>2, ChargeTyped DEF LoginAllow
      <3>3. QED
        BY <3>1, <3>2
    <2>2. attemptedAt' \in [Sessions -> Time \cup {None}]
      BY <1>2 DEF LoginAllow
    <2>3. signIn' \in [Sessions -> {"idle", "allowed", "over"}]
      BY <1>2 DEF LoginAllow
    <2>4. QED
      BY <1>2, <2>1, <2>2, <2>3 DEF LoginAllow
  <1>3. ASSUME NEW s \in Sessions, Create(s)
        PROVE  TypeOK'
    BY <1>3 DEF Create
  <1>4. ASSUME NEW r \in Requests, Start(r)
        PROVE  TypeOK'
    BY <1>4 DEF Start
  <1>5. ASSUME NEW r \in Requests, BodyRead(r)
        PROVE  TypeOK'
    BY <1>5 DEF BodyRead
  <1>6. ASSUME NEW r \in Requests, BodyRejected(r)
        PROVE  TypeOK'
    BY <1>6 DEF BodyRejected, HandlerReturns, AnswerWith
  <1>7. ASSUME NEW r \in Requests, CallTimesOut(r)
        PROVE  TypeOK'
    BY <1>7 DEF CallTimesOut, HandlerReturns, AnswerWith
  <1>8. ASSUME NEW r \in Requests, Refused(r)
        PROVE  TypeOK'
    BY <1>8 DEF Refused, HandlerReturns, AnswerWith
  <1>9. ASSUME NEW r \in Requests, Leased(r)
        PROVE  TypeOK'
    BY <1>9 DEF Leased, HandlerReturns, AnswerWith
  <1>10. ASSUME NEW r \in Requests, IssuerAnswers(r)
        PROVE  TypeOK'
    BY <1>10 DEF IssuerAnswers, HandlerReturns, AnswerWith
  <1>11. ASSUME NEW r \in Requests, DeadlineFires(r)
        PROVE  TypeOK'
    BY <1>11 DEF DeadlineFires, AnswerWith
  <1>12. ASSUME NEW r \in Requests, WorkerDies(r)
        PROVE  TypeOK'
    BY <1>12 DEF WorkerDies
  <1>13. ASSUME NEW r \in Requests, Authorize(r)
        PROVE  TypeOK'
    <2>1. calls' \subseteq calls /\ UNCHANGED <<now, request, loginRate, signIn, worker, attemptedAt>>
      BY <1>13 DEF Authorize
    <2>2. CASE Denied(r)
      BY <2>1, <2>2 DEF Denied
    <2>3. CASE Granted(r)
      <3> DEFINE id == request[r].session
                 held == [token |-> r, until |-> now + LEASE_MS]
      <3>1. id \in Sessions /\ request[r].submission \in Submissions /\ request[r].digest \in Digests
        BY DEF TypeOK
      <3>2. session[id] \in SessionRecords
        BY <2>3, <3>1 DEF Granted, Admits
      <3>3. Charge(session[id].rate) \in Windows
        BY <3>2, ChargeTyped
      <3>4. held \in Leases
        OBVIOUS
      <3> HIDE DEF held
      <3>5. session' \in [Sessions -> SessionRecords \cup {None}]
        BY <2>3, <3>1, <3>2, <3>3, <3>4 DEF Granted, held
      <3>6. binding' \in [Submissions -> Contents \cup {None}]
        BY <2>3, <3>1 DEF Granted
      <3>7. chargedAt' \in [Requests -> Time \cup {None}] /\ replies' \subseteq {"leased", "refused"} \X Requests
        BY <2>3 DEF Granted
      <3>8. QED
        BY <2>1, <3>5, <3>6, <3>7
    <2>4. QED
      BY <1>13, <2>2, <2>3, AuthorizeEffect
  <1>14. ASSUME NEW r \in Requests, Finish(r)
        PROVE  TypeOK'
    <2>1. session' \in [Sessions -> SessionRecords \cup {None}]
      <3> DEFINE id == request[r].session
                 released == [expiresAt |-> session[id].expiresAt,
                              rate |-> session[id].rate, active |-> None]
      <3>1. session' = session \/ (session[id] \in SessionRecords
                                   /\ session' = [session EXCEPT ![id] = released])
        BY <1>14, FinishEffect
      <3>2. session[id] \in SessionRecords => released \in SessionRecords
        OBVIOUS
      <3> HIDE DEF released
      <3>3. QED
        BY <3>1, <3>2
    <2>2. QED
      BY <1>14, <2>1 DEF Finish
  <1>15. ASSUME NEW call \in calls, CallLost(call)
        PROVE  TypeOK'
    BY <1>15 DEF CallLost
  <1>16. CASE Tick
    BY <1>16 DEF Tick, TimerDue
  <1>17. CASE UNCHANGED vars
    BY <1>17 DEF vars
  <1>18. QED
    BY <1>1, <1>2, <1>3, <1>4, <1>5, <1>6, <1>7, <1>8, <1>9, <1>10, <1>11, <1>12, <1>13, <1>14, <1>15, <1>16, <1>17 DEF Next, Capability

(* Timers. *)
LEMMA NextTimer ==
  ASSUME TypeOK, TimerInv, [Next]_vars
  PROVE  TimerInv'
  <1> USE FixtureAssumption, NoneAssumption DEF TypeOK, Time, TimerInv, storage, worker, network, history
  <1>1. ASSUME NEW s \in Sessions, SignInFails(s)
        PROVE  TimerInv'
    BY <1>1 DEF SignInFails
  <1>2. ASSUME NEW s \in Sessions, LoginAllow(s)
        PROVE  TimerInv'
    BY <1>2 DEF LoginAllow, Charge, WithinWindow
  <1>3. ASSUME NEW s \in Sessions, Create(s)
        PROVE  TimerInv'
    BY <1>3 DEF Create
  <1>4. ASSUME NEW r \in Requests, Start(r)
        PROVE  TimerInv'
    BY <1>4 DEF Start
  <1>5. ASSUME NEW r \in Requests, BodyRead(r)
        PROVE  TimerInv'
    BY <1>5 DEF BodyRead
  <1>6. ASSUME NEW r \in Requests, BodyRejected(r)
        PROVE  TimerInv'
    BY <1>6 DEF BodyRejected, HandlerReturns, AnswerWith
  <1>7. ASSUME NEW r \in Requests, CallTimesOut(r)
        PROVE  TimerInv'
    BY <1>7 DEF CallTimesOut, HandlerReturns, AnswerWith
  <1>8. ASSUME NEW r \in Requests, Refused(r)
        PROVE  TimerInv'
    BY <1>8 DEF Refused, HandlerReturns, AnswerWith
  <1>9. ASSUME NEW r \in Requests, Leased(r)
        PROVE  TimerInv'
    BY <1>9 DEF Leased, HandlerReturns, AnswerWith
  <1>10. ASSUME NEW r \in Requests, IssuerAnswers(r)
        PROVE  TimerInv'
    BY <1>10 DEF IssuerAnswers, HandlerReturns, AnswerWith
  <1>11. ASSUME NEW r \in Requests, DeadlineFires(r)
        PROVE  TimerInv'
    BY <1>11 DEF DeadlineFires, AnswerWith
  <1>12. ASSUME NEW r \in Requests, WorkerDies(r)
        PROVE  TimerInv'
    BY <1>12 DEF WorkerDies
  <1>13. ASSUME NEW r \in Requests, Authorize(r)
        PROVE  TimerInv'
    BY <1>13 DEF Authorize, Admits, Charge, WithinWindow
  <1>14. ASSUME NEW r \in Requests, Finish(r)
        PROVE  TimerInv'
    BY <1>14 DEF Finish
  <1>15. ASSUME NEW call \in calls, CallLost(call)
        PROVE  TimerInv'
    BY <1>15 DEF CallLost
  <1>16. CASE Tick
    BY <1>16 DEF Tick, TimerDue
  <1>17. CASE UNCHANGED vars
    BY <1>17 DEF vars
  <1>18. QED
    BY <1>1, <1>2, <1>3, <1>4, <1>5, <1>6, <1>7, <1>8, <1>9, <1>10, <1>11, <1>12, <1>13, <1>14, <1>15, <1>16, <1>17 DEF Next, Capability

(* Calls. *)
LEMMA NextCall ==
  ASSUME TypeOK, TimerInv, CallInv, [Next]_vars
  PROVE  CallInv'
  <1> USE FixtureAssumption, NoneAssumption DEF TypeOK, Time, TimerInv, CallInv, CallOf, storage, worker, network, history
  <1>1. ASSUME NEW s \in Sessions, SignInFails(s)
        PROVE  CallInv'
    BY <1>1 DEF SignInFails
  <1>2. ASSUME NEW s \in Sessions, LoginAllow(s)
        PROVE  CallInv'
    BY <1>2 DEF LoginAllow, Charge, WithinWindow
  <1>3. ASSUME NEW s \in Sessions, Create(s)
        PROVE  CallInv'
    BY <1>3 DEF Create
  <1>4. ASSUME NEW r \in Requests, Start(r)
        PROVE  CallInv'
    BY <1>4 DEF Start
  <1>5. ASSUME NEW r \in Requests, BodyRead(r)
        PROVE  CallInv'
    BY <1>5 DEF BodyRead
  <1>6. ASSUME NEW r \in Requests, BodyRejected(r)
        PROVE  CallInv'
    BY <1>6 DEF BodyRejected, HandlerReturns, AnswerWith
  <1>7. ASSUME NEW r \in Requests, CallTimesOut(r)
        PROVE  CallInv'
    BY <1>7 DEF CallTimesOut, HandlerReturns, AnswerWith
  <1>8. ASSUME NEW r \in Requests, Refused(r)
        PROVE  CallInv'
    BY <1>8 DEF Refused, HandlerReturns, AnswerWith
  <1>9. ASSUME NEW r \in Requests, Leased(r)
        PROVE  CallInv'
    <2> SUFFICES ASSUME NEW q \in Requests
                 PROVE  CallOf(q)'
      BY DEF CallInv
    <2>1. CASE q = r
      BY <1>9, <2>1 DEF Leased, HandlerReturns, AnswerWith
    <2>2. CASE q # r
      BY <1>9, <2>2 DEF Leased, HandlerReturns, AnswerWith
    <2>3. QED
      BY <2>1, <2>2
  <1>10. ASSUME NEW r \in Requests, IssuerAnswers(r)
        PROVE  CallInv'
    <2> SUFFICES ASSUME NEW q \in Requests
                 PROVE  CallOf(q)'
      BY DEF CallInv
    <2>1. CASE q = r
      BY <1>10, <2>1 DEF IssuerAnswers, HandlerReturns, AnswerWith
    <2>2. CASE q # r
      BY <1>10, <2>2 DEF IssuerAnswers, HandlerReturns, AnswerWith
    <2>3. QED
      BY <2>1, <2>2
  <1>11. ASSUME NEW r \in Requests, DeadlineFires(r)
        PROVE  CallInv'
    BY <1>11 DEF DeadlineFires, AnswerWith
  <1>12. ASSUME NEW r \in Requests, WorkerDies(r)
        PROVE  CallInv'
    BY <1>12 DEF WorkerDies
  <1>13. ASSUME NEW r \in Requests, Authorize(r)
        PROVE  CallInv'
    <2> SUFFICES ASSUME NEW q \in Requests
                 PROVE  CallOf(q)'
      BY DEF CallInv
    <2>1. /\ calls' = calls \ {<<"authorize", r>>} /\ <<"authorize", r>> \in calls
          /\ UNCHANGED worker
      BY <1>13 DEF Authorize
    <2>2. CASE Denied(r)
      BY <2>1, <2>2 DEF Denied
    <2>3. CASE Granted(r)
      BY <2>1, <2>3 DEF Granted
    <2>4. QED
      BY <1>13, <2>2, <2>3, AuthorizeEffect
  <1>14. ASSUME NEW r \in Requests, Finish(r)
        PROVE  CallInv'
    BY <1>14 DEF Finish
  <1>15. ASSUME NEW call \in calls, CallLost(call)
        PROVE  CallInv'
    BY <1>15 DEF CallLost
  <1>16. CASE Tick
    BY <1>16 DEF Tick, TimerDue
  <1>17. CASE UNCHANGED vars
    BY <1>17 DEF vars
  <1>18. QED
    BY <1>1, <1>2, <1>3, <1>4, <1>5, <1>6, <1>7, <1>8, <1>9, <1>10, <1>11, <1>12, <1>13, <1>14, <1>15, <1>16, <1>17 DEF Next, Capability

(* Charges. *)
LEMMA NextCharge ==
  ASSUME FixtureInv, [Next]_vars
  PROVE  ChargeInv'
  <1> USE FixtureAssumption, NoneAssumption DEF FixtureInv, TypeOK, Time, Windows, Leases, SessionRecords, Contents, TimerInv, CallInv, CallOf, ChargeInv, ChargeOf, SignInInv, Held, storage, worker, network, history
  <1>1. ASSUME NEW s \in Sessions, SignInFails(s)
        PROVE  ChargeInv'
    BY <1>1 DEF SignInFails
  <1>2. ASSUME NEW s \in Sessions, LoginAllow(s)
        PROVE  ChargeInv'
    BY <1>2 DEF LoginAllow, Charge, WithinWindow
  <1>3. ASSUME NEW s \in Sessions, Create(s)
        PROVE  ChargeInv'
    BY <1>3 DEF Create
  <1>4. ASSUME NEW r \in Requests, Start(r)
        PROVE  ChargeInv'
    <2> SUFFICES ASSUME NEW q \in Requests
                 PROVE  ChargeOf(q)'
      BY DEF ChargeInv
    <2>1. CASE q = r
      BY <1>4, <2>1 DEF Start
    <2>2. CASE q # r
      BY <1>4, <2>2 DEF Start
    <2>3. QED
      BY <2>1, <2>2
  <1>5. ASSUME NEW r \in Requests, BodyRead(r)
        PROVE  ChargeInv'
    BY <1>5 DEF BodyRead
  <1>6. ASSUME NEW r \in Requests, BodyRejected(r)
        PROVE  ChargeInv'
    BY <1>6 DEF BodyRejected, HandlerReturns, AnswerWith
  <1>7. ASSUME NEW r \in Requests, CallTimesOut(r)
        PROVE  ChargeInv'
    BY <1>7 DEF CallTimesOut, HandlerReturns, AnswerWith
  <1>8. ASSUME NEW r \in Requests, Refused(r)
        PROVE  ChargeInv'
    BY <1>8 DEF Refused, HandlerReturns, AnswerWith
  <1>9. ASSUME NEW r \in Requests, Leased(r)
        PROVE  ChargeInv'
    BY <1>9 DEF Leased, HandlerReturns, AnswerWith
  <1>10. ASSUME NEW r \in Requests, IssuerAnswers(r)
        PROVE  ChargeInv'
    BY <1>10 DEF IssuerAnswers, HandlerReturns, AnswerWith
  <1>11. ASSUME NEW r \in Requests, DeadlineFires(r)
        PROVE  ChargeInv'
    BY <1>11 DEF DeadlineFires, AnswerWith
  <1>12. ASSUME NEW r \in Requests, WorkerDies(r)
        PROVE  ChargeInv'
    BY <1>12 DEF WorkerDies
  <1>13. ASSUME NEW r \in Requests, Authorize(r)
        PROVE  ChargeInv'
    <2> SUFFICES ASSUME NEW q \in Requests
                 PROVE  ChargeOf(q)'
      BY DEF ChargeInv
    <2>1. <<"authorize", r>> \in calls /\ UNCHANGED <<now, request, worker>>
      BY <1>13 DEF Authorize
    <2>2. CASE Denied(r)
      BY <2>1, <2>2 DEF Denied
    <2>3. CASE Granted(r) /\ q = r
      <3>1. handler[r] # "idle" /\ chargedAt[r] = None
        BY <2>1
      <3>2. answer[r] = None => deadline[r] < now + LEASE_MS
        BY <3>1
      <3>3. session'[request[r].session].active = [token |-> r, until |-> now + LEASE_MS]
        BY <2>3 DEF Granted
      <3>4. binding'[request[r].submission] = [session |-> request[r].session, digest |-> request[r].digest]
        BY <2>3 DEF Granted
      <3>5. session'[request[r].session] # None /\ session'[request[r].session].active # None
        <4>1. session'[request[r].session] \in SessionRecords
          <5>1. session'[request[r].session] =
                  [expiresAt |-> session[request[r].session].expiresAt,
                   rate |-> Charge(session[request[r].session].rate),
                   active |-> [token |-> r, until |-> now + LEASE_MS]]
            BY <2>3 DEF Granted
          <5>2. session[request[r].session] \in SessionRecords
            BY <2>3 DEF Granted, Admits
          <5>3. Charge(session[request[r].session].rate) \in Windows
            BY <5>2, ChargeTyped
          <5>4. QED
            BY <5>1, <5>2, <5>3
        <4>2. [token |-> r, until |-> now + LEASE_MS] \in Leases
          OBVIOUS
        <4>3. QED
          BY <3>3, <4>1, <4>2
      <3>6. QED
        BY <2>1, <2>3, <3>2, <3>3, <3>4, <3>5
    <2>4. CASE Granted(r) /\ q # r
      <3>1. SUFFICES ASSUME chargedAt[q] # None PROVE ChargeOf(q)'
        BY <2>4 DEF Granted
      <3>2. binding'[request[q].submission] = binding[request[q].submission]
        <4>1. [session |-> request[q].session, digest |-> request[q].digest] \in Contents
          OBVIOUS
        <4>2. binding[request[q].submission] # None
          BY <3>1, <4>1
        <4>3. CASE request[q].submission = request[r].submission
          BY <2>4, <4>2, <4>3 DEF Granted, Admits
        <4>4. CASE request[q].submission # request[r].submission
          BY <2>4, <4>4 DEF Granted
        <4>5. QED
          BY <4>3, <4>4
      <3>3. ASSUME answer[q] = None PROVE request[q].session # request[r].session
        <4>1. now < session[request[q].session].active.until
          <5>1. Held(q) /\ handler[q] # "idle"
            BY <3>1, <3>3
          <5>2. now <= deadline[q] /\ deadline[q] \in Nat
            BY <3>3, <5>1
          <5>3. session[request[q].session].active \in Leases
            BY <5>1
          <5>4. session[request[q].session].active.until \in Nat
            BY <5>3
          <5>5. QED
            BY <5>1, <5>2, <5>4
        <4>2. session[request[q].session].active # None
          BY <3>1, <3>3
        <4>3. session[request[q].session].active.until \in Nat
          <5>1. Held(q) /\ request[q].session \in Sessions
            BY <3>1, <3>3
          <5>2. session[request[q].session] \in SessionRecords
            BY <5>1
          <5>3. session[request[q].session].active \in Leases
            BY <5>1, <5>2
          <5>4. QED
            BY <5>3
        <4>4. session[request[r].session].active = None \/ session[request[r].session].active.until <= now
          BY <2>4 DEF Granted, Admits
        <4>5. QED
          BY <4>1, <4>2, <4>3, <4>4
      <3>4. QED
        BY <2>1, <2>4, <3>1, <3>2, <3>3 DEF Granted
    <2>5. QED
      BY <1>13, <2>2, <2>3, <2>4, AuthorizeEffect
  <1>14. ASSUME NEW r \in Requests, Finish(r)
        PROVE  ChargeInv'
    <2> SUFFICES ASSUME NEW q \in Requests
                 PROVE  ChargeOf(q)'
      BY DEF ChargeInv
    <2>1. /\ <<"finish", r>> \in calls
          /\ UNCHANGED <<now, request, binding, worker, history>>
      BY <1>14 DEF Finish
    <2>2. CASE session' = session
      BY <2>1, <2>2
    <2>3. CASE answer[q] # None
      BY <2>1, <2>3
    <2>4. CASE /\ answer[q] = None
               /\ session[request[r].session].active # None
               /\ session[request[r].session].active.token = r
               /\ session' = [session EXCEPT ![request[r].session] =
                      [expiresAt |-> session[request[r].session].expiresAt,
                       rate |-> session[request[r].session].rate, active |-> None]]
      <3>1. answer[r] # None
        BY <2>1
      <3>2. ASSUME chargedAt[q] # None PROVE request[q].session # request[r].session
        <4>1. Held(q)
          BY <2>4, <3>2
        <4>2. q # r
          BY <2>4, <3>1
        <4>3. QED
          BY <2>4, <4>1, <4>2
      <3>3. QED
        BY <2>1, <2>4, <3>2
    <2>5. QED
      BY <1>14, <2>2, <2>3, <2>4, FinishEffect
  <1>15. ASSUME NEW call \in calls, CallLost(call)
        PROVE  ChargeInv'
    BY <1>15 DEF CallLost
  <1>16. CASE Tick
    BY <1>16 DEF Tick, TimerDue
  <1>17. CASE UNCHANGED vars
    BY <1>17 DEF vars
  <1>18. QED
    BY <1>1, <1>2, <1>3, <1>4, <1>5, <1>6, <1>7, <1>8, <1>9, <1>10, <1>11, <1>12, <1>13, <1>14, <1>15, <1>16, <1>17 DEF Next, Capability

(* Sign-ins. *)
LEMMA NextSignIn ==
  ASSUME FixtureInv, [Next]_vars
  PROVE  SignInInv'
  <1> USE FixtureAssumption, NoneAssumption DEF FixtureInv, TypeOK, CallInv, SignInInv, storage, worker, network, history
  <1>1. ASSUME NEW s \in Sessions, SignInFails(s)
        PROVE  SignInInv'
    BY <1>1 DEF SignInFails
  <1>2. ASSUME NEW s \in Sessions, LoginAllow(s)
        PROVE  SignInInv'
    BY <1>2 DEF LoginAllow, Charge, WithinWindow
  <1>3. ASSUME NEW s \in Sessions, Create(s)
        PROVE  SignInInv'
    BY <1>3 DEF Create
  <1>4. ASSUME NEW r \in Requests, Start(r)
        PROVE  SignInInv'
    BY <1>4 DEF Start
  <1>5. ASSUME NEW r \in Requests, BodyRead(r)
        PROVE  SignInInv'
    BY <1>5 DEF BodyRead
  <1>6. ASSUME NEW r \in Requests, BodyRejected(r)
        PROVE  SignInInv'
    BY <1>6 DEF BodyRejected, HandlerReturns, AnswerWith
  <1>7. ASSUME NEW r \in Requests, CallTimesOut(r)
        PROVE  SignInInv'
    BY <1>7 DEF CallTimesOut, HandlerReturns, AnswerWith
  <1>8. ASSUME NEW r \in Requests, Refused(r)
        PROVE  SignInInv'
    BY <1>8 DEF Refused, HandlerReturns, AnswerWith
  <1>9. ASSUME NEW r \in Requests, Leased(r)
        PROVE  SignInInv'
    BY <1>9 DEF Leased, HandlerReturns, AnswerWith
  <1>10. ASSUME NEW r \in Requests, IssuerAnswers(r)
        PROVE  SignInInv'
    BY <1>10 DEF IssuerAnswers, HandlerReturns, AnswerWith
  <1>11. ASSUME NEW r \in Requests, DeadlineFires(r)
        PROVE  SignInInv'
    BY <1>11 DEF DeadlineFires, AnswerWith
  <1>12. ASSUME NEW r \in Requests, WorkerDies(r)
        PROVE  SignInInv'
    BY <1>12 DEF WorkerDies
  <1>13. ASSUME NEW r \in Requests, Authorize(r)
        PROVE  SignInInv'
    BY <1>13 DEF Authorize, Admits, Charge, WithinWindow
  <1>14. ASSUME NEW r \in Requests, Finish(r)
        PROVE  SignInInv'
    BY <1>14 DEF Finish
  <1>15. ASSUME NEW call \in calls, CallLost(call)
        PROVE  SignInInv'
    BY <1>15 DEF CallLost
  <1>16. CASE Tick
    BY <1>16 DEF Tick, TimerDue
  <1>17. CASE UNCHANGED vars
    BY <1>17 DEF vars
  <1>18. QED
    BY <1>1, <1>2, <1>3, <1>4, <1>5, <1>6, <1>7, <1>8, <1>9, <1>10, <1>11, <1>12, <1>13, <1>14, <1>15, <1>16, <1>17 DEF Next, Capability

LEMMA InitFixtureInv == Init => FixtureInv
  BY FixtureAssumption
  DEF Init, FixtureInv, TypeOK, TimerInv, CallInv, CallOf, ChargeInv, ChargeOf, SignInInv, Time

LEMMA NextFixtureInv == FixtureInv /\ [Next]_vars => FixtureInv'
  BY NextTyped, NextTimer, NextCall, NextCharge, NextSignIn DEF FixtureInv

(* The inductive invariant holds in every reachable state of the fixture.  *)
THEOREM FixtureInvariance == Spec => []FixtureInv
  BY InitFixtureInv, NextFixtureInv, PTL DEF Spec

(* The storage and the Worker's variables stay in their types. *)
THEOREM FixtureTypes == Spec => []TypeOK
  <1>1. FixtureInv => TypeOK
    BY DEF FixtureInv
  <1>2. QED
    BY <1>1, FixtureInvariance, PTL

(* One request of a session at a time exchanges with the issuer: a lease   *)
(* outlives the deadline of the request that holds it.                     *)
THEOREM ExclusiveExchange == Spec => []OneExchangePerSession
  <1>1. FixtureInv => OneExchangePerSession
    <2> SUFFICES ASSUME FixtureInv, NEW q \in Requests, NEW r \in Requests,
                        handler[q] = "exchanging", handler[r] = "exchanging",
                        request[q].session = request[r].session
                 PROVE  q = r
      BY DEF OneExchangePerSession
    <2>1. Held(q) /\ Held(r)
      BY DEF FixtureInv, TimerInv, CallInv, CallOf, ChargeInv, ChargeOf
    <2>2. QED
      BY <2>1 DEF Held
  <1>2. QED
    BY <1>1, FixtureInvariance, PTL

(* Whatever is exchanged was charged, is bound to its content, and is not  *)
(* answered yet.                                                           *)
THEOREM BoundExchange == Spec => []ExchangeIsBound
  <1>1. FixtureInv => ExchangeIsBound
    BY DEF FixtureInv, TimerInv, CallInv, CallOf, ChargeInv, ChargeOf, ExchangeIsBound
  <1>2. QED
    BY <1>1, FixtureInvariance, PTL

(* A submission, once bound to a session and a content, stays bound. *)
THEOREM LastingBindings == Spec => BindingsAreFinal
  <1>1. ASSUME FixtureInv, [Next]_vars, NEW m \in Submissions, binding[m] # None
        PROVE  binding'[m] = binding[m]
    <2> USE DEF storage, worker, network, history
    <2>1. ASSUME NEW r \in Requests, Authorize(r)
          PROVE  binding'[m] = binding[m]
      <3>1. Granted(r) \/ Denied(r)
        BY <1>1, <2>1, AuthorizeEffect DEF FixtureInv
      <3>2. QED
        BY <1>1, <3>1 DEF Granted, Denied, Admits, FixtureInv, TypeOK
    <2>2. ASSUME ~ \E r \in Requests : Authorize(r)
          PROVE  binding' = binding
      BY <1>1, <2>2 DEF Next, Capability, vars, SignInFails, LoginAllow, Create, Start,
           BodyRead, BodyRejected, CallTimesOut, Refused, Leased, IssuerAnswers,
           DeadlineFires, WorkerDies, Finish, CallLost, Tick
    <2>3. QED
      BY <2>1, <2>2
  <1>2. FixtureInv /\ [Next]_vars
          => (\A m \in Submissions : binding[m] # None => binding'[m] = binding[m])
    BY <1>1
  <1>3. QED
    BY <1>2, FixtureInvariance, PTL DEF Spec, BindingsAreFinal

(* A lease is lost by its expiry or after its own request was answered,    *)
(* and never to the late finish of another request.                        *)
THEOREM LeaseSafety == Spec => LeaseIsNotStolen
  <1>1. ASSUME FixtureInv, [Next]_vars, NEW s \in Sessions,
               session[s] # None, session[s].active # None,
               session'[s].active # session[s].active
        PROVE  session[s].active.until <= now \/ answer[session[s].active.token] # None
    <2> USE DEF storage, worker, network, history
    <2>0. TypeOK
      BY <1>1 DEF FixtureInv
    <2>1. ASSUME NEW r \in Requests, Authorize(r)
          PROVE  session[s].active.until <= now
      <3>1. Granted(r) \/ Denied(r)
        BY <2>0, <2>1, AuthorizeEffect
      <3>2. Granted(r) /\ request[r].session = s
        BY <1>1, <2>0, <3>1 DEF Granted, Denied, TypeOK
      <3>3. QED
        BY <1>1, <3>2 DEF Granted, Admits
    <2>2. ASSUME NEW r \in Requests, Finish(r)
          PROVE  answer[session[s].active.token] # None
      <3>1. answer[r] # None
        BY <1>1, <2>2 DEF Finish, FixtureInv, CallInv, CallOf
      <3>2. session[s].active.token = r
        BY <1>1, <2>0, <2>2, FinishEffect DEF TypeOK
      <3>3. QED
        BY <3>1, <3>2
    <2>3. ASSUME NEW x \in Sessions, Create(x)
          PROVE  FALSE
      BY <1>1, <2>3 DEF Create, FixtureInv, SignInInv, TypeOK
    <2>4. ASSUME ~ \E r \in Requests : Authorize(r) \/ Finish(r),
                 ~ \E x \in Sessions : Create(x)
          PROVE  session' = session
      BY <1>1, <2>4 DEF Next, Capability, vars, SignInFails, LoginAllow, Start, BodyRead,
           BodyRejected, CallTimesOut, Refused, Leased, IssuerAnswers, DeadlineFires,
           WorkerDies, CallLost, Tick
    <2>5. QED
      BY <1>1, <2>1, <2>2, <2>3, <2>4
  <1>2. FixtureInv /\ [Next]_vars =>
          (\A s \in Sessions :
             session[s] # None /\ session[s].active # None =>
               LET held == session[s].active IN
               session'[s].active # held => held.until <= now \/ answer[held.token] # None)
    BY <1>1
  <1>3. QED
    BY <1>2, FixtureInvariance, PTL DEF Spec, LeaseIsNotStolen
-----------------------------------------------------------------------------
(* Counting.  What a fixed window has admitted among the members of S that *)
(* carry a time stamp: since it opened, and in the minute before that.     *)
Stamped(S, stamp) == {x \in S : stamp[x] # None}

SinceOpening(S, stamp, rate) ==
    {x \in Stamped(S, stamp) : rate.windowStart <= stamp[x]}

MinuteBefore(S, stamp, rate) ==
    {x \in Stamped(S, stamp) : /\ stamp[x] < rate.windowStart
                               /\ rate.windowStart < stamp[x] + RATE_WINDOW_MS}

InMinute(S, stamp, t) == {x \in S : stamp[x] \in t .. (t + RATE_WINDOW_MS - 1)}

(* The window's count covers what was admitted since it opened, the minute *)
(* before it saw at most one budget, and so no minute saw more than two.   *)
CountInv(S, stamp, rate) ==
    /\ IsFiniteSet(Stamped(S, stamp))
    /\ \A x \in Stamped(S, stamp) : stamp[x] < rate.windowStart + RATE_WINDOW_MS
    /\ Cardinality(SinceOpening(S, stamp, rate)) <= rate.count
    /\ rate.count <= RATE_LIMIT
    /\ Cardinality(MinuteBefore(S, stamp, rate)) <= RATE_LIMIT
    /\ \A t \in Nat : Cardinality(InMinute(S, stamp, t)) <= 2 * RATE_LIMIT

RequestsOf(s) == {r \in Requests : request[r].session = s}

(* The window of a session counts its charged requests. *)
ChargesCounted ==
    \A s \in Sessions :
        /\ session[s] = None => Stamped(RequestsOf(s), chargedAt) = {}
        /\ session[s] # None =>
              /\ session[s].rate.windowStart <= now
              /\ CountInv(RequestsOf(s), chargedAt, session[s].rate)

(* A window that opens with a charge: what it counts is not all in the     *)
(* minute before the next one, for its opening is not.                     *)
OpenedInv(S, stamp, rate) ==
    /\ \E x \in Stamped(S, stamp) : stamp[x] = rate.windowStart
    /\ Cardinality(MinuteBefore(S, stamp, rate)) <= RATE_LIMIT - 1
    /\ \A t \in Nat : Cardinality(InMinute(S, stamp, t)) <= 2 * RATE_LIMIT - 1

(* The fixture's window counts the sign-ins it admitted. *)
AttemptsCounted ==
    /\ loginRate = None => Stamped(Sessions, attemptedAt) = {}
    /\ loginRate # None =>
          /\ loginRate.windowStart <= now
          /\ CountInv(Sessions, attemptedAt, loginRate)
          /\ OpenedInv(Sessions, attemptedAt, loginRate)
    /\ \A s \in Sessions : signIn[s] = "idle" => attemptedAt[s] = None
    /\ \A s \in Sessions :
          signIn[s] = "allowed" \/ session[s] # None => attemptedAt[s] # None

LEMMA AtMostOneMore ==
  ASSUME NEW A, IsFiniteSet(A), NEW x, NEW B, B \subseteq A \cup {x}
  PROVE  IsFiniteSet(B) /\ Cardinality(B) <= Cardinality(A) + 1
  <1>1. /\ IsFiniteSet(A \cup {x})
        /\ Cardinality(A \cup {x}) = IF x \in A THEN Cardinality(A) ELSE Cardinality(A) + 1
    BY FS_AddElement
  <1>2. IsFiniteSet(B) /\ Cardinality(B) <= Cardinality(A \cup {x})
    BY <1>1, FS_Subset
  <1>3. Cardinality(A) \in Nat /\ Cardinality(B) \in Nat
    BY <1>2, FS_CardinalityType
  <1>4. QED
    BY <1>1, <1>2, <1>3

LEMMA AtMostBoth ==
  ASSUME NEW A, IsFiniteSet(A), NEW B, IsFiniteSet(B), NEW C, C \subseteq A \cup B
  PROVE  Cardinality(C) <= Cardinality(A) + Cardinality(B)
  <1>1. IsFiniteSet(A \cup B)
    BY FS_Union
  <1>2. IsFiniteSet(A \cap B)
    BY FS_Intersection
  <1>3. /\ Cardinality(A) \in Nat /\ Cardinality(B) \in Nat
        /\ Cardinality(A \cap B) \in Nat /\ Cardinality(A \cup B) \in Nat
    BY <1>1, <1>2, FS_CardinalityType
  <1>4. Cardinality(A \cup B) <= Cardinality(A) + Cardinality(B)
    <2>1. Cardinality(A \cup B) = Cardinality(A) + Cardinality(B) - Cardinality(A \cap B)
      BY FS_Union
    <2>2. QED
      BY <1>3, <2>1
  <1>5. IsFiniteSet(C) /\ Cardinality(C) <= Cardinality(A \cup B)
    BY <1>1, FS_Subset
  <1>6. Cardinality(C) \in Nat
    BY <1>5, FS_CardinalityType
  <1>7. QED
    BY <1>3, <1>4, <1>5, <1>6

LEMMA CountedSets ==
  ASSUME NEW S, NEW stamp, NEW rate, NEW t, IsFiniteSet(Stamped(S, stamp)), t \in Nat
  PROVE  /\ IsFiniteSet(SinceOpening(S, stamp, rate))
         /\ IsFiniteSet(MinuteBefore(S, stamp, rate))
         /\ IsFiniteSet(InMinute(S, stamp, t))
         /\ Cardinality(SinceOpening(S, stamp, rate)) \in Nat
         /\ Cardinality(MinuteBefore(S, stamp, rate)) \in Nat
         /\ Cardinality(InMinute(S, stamp, t)) \in Nat
  <1>1. /\ SinceOpening(S, stamp, rate) \subseteq Stamped(S, stamp)
        /\ MinuteBefore(S, stamp, rate) \subseteq Stamped(S, stamp)
    BY DEF SinceOpening, MinuteBefore
  <1>2. InMinute(S, stamp, t) \subseteq Stamped(S, stamp)
    BY FixtureAssumption DEF InMinute, Stamped
  <1>3. /\ IsFiniteSet(SinceOpening(S, stamp, rate))
        /\ IsFiniteSet(MinuteBefore(S, stamp, rate))
        /\ IsFiniteSet(InMinute(S, stamp, t))
    BY <1>1, <1>2, FS_Subset
  <1>4. QED
    BY <1>3, FS_CardinalityType

(* A fresh window that nothing was admitted to. *)
LEMMA NothingCounted ==
  ASSUME NEW S, NEW stamp, NEW rate \in Windows, Stamped(S, stamp) = {}, rate.count <= RATE_LIMIT
  PROVE  CountInv(S, stamp, rate)
  <1>1. SinceOpening(S, stamp, rate) = {} /\ MinuteBefore(S, stamp, rate) = {}
    BY DEF SinceOpening, MinuteBefore
  <1>2. \A t \in Nat : InMinute(S, stamp, t) = {}
    BY FixtureAssumption DEF InMinute, Stamped
  <1>3. IsFiniteSet({}) /\ Cardinality({}) = 0
    BY FS_EmptySet
  <1>4. 0 <= RATE_LIMIT /\ 0 <= 2 * RATE_LIMIT /\ 0 <= rate.count
    BY FixtureAssumption DEF Windows
  <1>5. QED
    BY <1>1, <1>2, <1>3, <1>4 DEF CountInv

(* The invariant is about the stamps of S alone. *)
LEMMA SameStampsCounted ==
  ASSUME NEW S, NEW old, NEW new, NEW rate, CountInv(S, old, rate),
         \A x \in S : new[x] = old[x]
  PROVE  CountInv(S, new, rate)
  <1>1. Stamped(S, new) = Stamped(S, old)
    BY DEF Stamped
  <1>2. /\ SinceOpening(S, new, rate) = SinceOpening(S, old, rate)
        /\ MinuteBefore(S, new, rate) = MinuteBefore(S, old, rate)
    BY DEF SinceOpening, MinuteBefore, Stamped
  <1>3. \A t \in Nat : InMinute(S, new, t) = InMinute(S, old, t)
    BY DEF InMinute
  <1>4. \A x \in Stamped(S, new) : new[x] = old[x]
    BY DEF Stamped
  <1>5. QED
    BY <1>1, <1>2, <1>3, <1>4 DEF CountInv

(* Admitting one more member of S, when the window is not exhausted.  A    *)
(* new window opens at least RATE_WINDOW_MS after the last one, so that    *)
(* the minute before it holds only what the last one counted.              *)
LEMMA ChargeCounted ==
  ASSUME NEW S, NEW x \in S, NEW old, NEW new, NEW rate \in Windows, now \in Nat,
         \A y \in S : old[y] \in Nat \cup {None},
         new[x] = now, \A y \in S \ {x} : new[y] = old[y],
         CountInv(S, old, rate), rate.windowStart <= now, ~Exhausted(rate)
  PROVE  CountInv(S, new, Charge(rate)) /\ Charge(rate).windowStart <= now
  <1> DEFINE next == Charge(rate)
             W == RATE_WINDOW_MS
             L == RATE_LIMIT
  <1>0. /\ rate.windowStart \in Nat /\ rate.count \in Nat /\ W \in Nat /\ L \in Nat
        /\ W > 0 /\ L > 0 /\ None \notin Nat
    BY FixtureAssumption DEF Windows, Time
  <1>1. Stamped(S, new) = Stamped(S, old) \cup {x}
    BY <1>0 DEF Stamped
  <1>2. IsFiniteSet(Stamped(S, old)) /\ IsFiniteSet(Stamped(S, new))
    BY <1>1, FS_AddElement DEF CountInv
  <1>3. \A y \in Stamped(S, old) : old[y] \in Nat /\ old[y] < rate.windowStart + W
    BY DEF CountInv, Stamped
  <1>4. CASE WithinWindow(rate)
    <2>1. next.windowStart = rate.windowStart /\ next.count = rate.count + 1
      BY <1>4 DEF Charge, Windows
    <2>2. next.count <= L /\ now < rate.windowStart + W
      BY <1>0, <1>4, <2>1 DEF Exhausted, WithinWindow
    <2>3. \A y \in Stamped(S, new) : new[y] < next.windowStart + W
      BY <1>0, <1>1, <1>3, <2>1, <2>2 DEF Stamped
    <2>4. SinceOpening(S, new, next) \subseteq SinceOpening(S, old, rate) \cup {x}
      BY <1>1, <2>1 DEF SinceOpening, Stamped
    <2>5. Cardinality(SinceOpening(S, new, next)) <= next.count
      <3>1. /\ IsFiniteSet(SinceOpening(S, old, rate))
            /\ Cardinality(SinceOpening(S, old, rate)) \in Nat
            /\ Cardinality(SinceOpening(S, new, next)) \in Nat
        BY <1>2, CountedSets
      <3>2. Cardinality(SinceOpening(S, new, next)) <= Cardinality(SinceOpening(S, old, rate)) + 1
        BY <2>4, <3>1, AtMostOneMore
      <3>3. Cardinality(SinceOpening(S, old, rate)) <= rate.count
        BY DEF CountInv
      <3>4. QED
        BY <1>0, <2>1, <3>1, <3>2, <3>3
    <2>6. MinuteBefore(S, new, next) \subseteq MinuteBefore(S, old, rate)
      BY <1>0, <1>1, <2>1 DEF MinuteBefore, Stamped
    <2>7. Cardinality(MinuteBefore(S, new, next)) <= L
      <3>1. /\ IsFiniteSet(MinuteBefore(S, old, rate))
            /\ Cardinality(MinuteBefore(S, old, rate)) \in Nat
            /\ Cardinality(MinuteBefore(S, new, next)) \in Nat
        BY <1>2, CountedSets
      <3>2. Cardinality(MinuteBefore(S, new, next)) <= Cardinality(MinuteBefore(S, old, rate))
        BY <2>6, <3>1, FS_Subset
      <3>3. Cardinality(MinuteBefore(S, old, rate)) <= L
        BY DEF CountInv
      <3>4. QED
        BY <1>0, <3>1, <3>2, <3>3
    <2>8. ASSUME NEW t \in Nat
          PROVE  Cardinality(InMinute(S, new, t)) <= 2 * L
      <3>1. CASE t + W <= rate.windowStart
        <4>1. InMinute(S, new, t) \subseteq InMinute(S, old, t)
          BY <1>0, <3>1 DEF InMinute
        <4>2. IsFiniteSet(InMinute(S, old, t))
          BY <1>2, CountedSets
        <4>3. Cardinality(InMinute(S, new, t)) <= Cardinality(InMinute(S, old, t))
          BY <4>1, <4>2, FS_Subset
        <4>4. Cardinality(InMinute(S, old, t)) <= 2 * L
          BY DEF CountInv
        <4>5. Cardinality(InMinute(S, new, t)) \in Nat /\ Cardinality(InMinute(S, old, t)) \in Nat
          BY <1>2, CountedSets
        <4>6. QED
          BY <1>0, <4>3, <4>4, <4>5
      <3>2. CASE rate.windowStart < t + W
        <4>1. InMinute(S, new, t) \subseteq SinceOpening(S, new, next) \cup MinuteBefore(S, new, next)
          <5>1. SUFFICES ASSUME NEW y \in S, new[y] \in t .. (t + W - 1)
                         PROVE  y \in SinceOpening(S, new, next) \cup MinuteBefore(S, new, next)
            BY DEF InMinute
          <5>2. new[y] \in Nat /\ t <= new[y] /\ y \in Stamped(S, new)
            BY <1>0, <5>1 DEF Stamped
          <5>3. QED
            BY <1>0, <2>1, <3>2, <5>2 DEF SinceOpening, MinuteBefore
        <4>2. /\ IsFiniteSet(SinceOpening(S, new, next)) /\ IsFiniteSet(MinuteBefore(S, new, next))
              /\ Cardinality(SinceOpening(S, new, next)) \in Nat
              /\ Cardinality(MinuteBefore(S, new, next)) \in Nat
              /\ Cardinality(InMinute(S, new, t)) \in Nat
          BY <1>2, CountedSets
        <4>3. Cardinality(InMinute(S, new, t))
                <= Cardinality(SinceOpening(S, new, next)) + Cardinality(MinuteBefore(S, new, next))
          BY <4>1, <4>2, AtMostBoth
        <4>4. QED
          BY <1>0, <2>1, <2>2, <2>5, <2>7, <4>2, <4>3
      <3>3. QED
        BY <1>0, <3>1, <3>2
    <2>9. QED
      BY <1>2, <2>1, <2>2, <2>3, <2>5, <2>7, <2>8 DEF CountInv
  <1>5. CASE ~WithinWindow(rate)
    <2>1. next = [windowStart |-> now, count |-> 1]
      BY <1>5 DEF Charge
    <2>2. rate.windowStart + W <= now
      BY <1>0, <1>5 DEF WithinWindow
    <2>3. \A y \in Stamped(S, new) : new[y] < next.windowStart + W
      BY <1>0, <1>1, <1>3, <2>1, <2>2 DEF Stamped
    <2>4. SinceOpening(S, new, next) = {x}
      BY <1>0, <1>1, <1>3, <2>1, <2>2 DEF SinceOpening, Stamped
    <2>5. Cardinality(SinceOpening(S, new, next)) = 1
      BY <2>4, FS_Singleton
    <2>6. MinuteBefore(S, new, next) \subseteq SinceOpening(S, old, rate)
      BY <1>0, <1>1, <1>3, <2>1, <2>2 DEF MinuteBefore, SinceOpening, Stamped
    <2>7. Cardinality(MinuteBefore(S, new, next)) <= L
      <3>1. /\ IsFiniteSet(SinceOpening(S, old, rate))
            /\ Cardinality(SinceOpening(S, old, rate)) \in Nat
            /\ Cardinality(MinuteBefore(S, new, next)) \in Nat
        BY <1>2, CountedSets
      <3>2. Cardinality(MinuteBefore(S, new, next)) <= Cardinality(SinceOpening(S, old, rate))
        BY <2>6, <3>1, FS_Subset
      <3>3. Cardinality(SinceOpening(S, old, rate)) <= rate.count /\ rate.count <= L
        BY DEF CountInv
      <3>4. QED
        BY <1>0, <3>1, <3>2, <3>3
    <2>8. ASSUME NEW t \in Nat
          PROVE  Cardinality(InMinute(S, new, t)) <= 2 * L
      <3>1. CASE t + W <= now
        <4>1. InMinute(S, new, t) \subseteq InMinute(S, old, t)
          BY <1>0, <3>1 DEF InMinute
        <4>2. IsFiniteSet(InMinute(S, old, t))
          BY <1>2, CountedSets
        <4>3. Cardinality(InMinute(S, new, t)) <= Cardinality(InMinute(S, old, t))
          BY <4>1, <4>2, FS_Subset
        <4>4. Cardinality(InMinute(S, old, t)) <= 2 * L
          BY DEF CountInv
        <4>5. Cardinality(InMinute(S, new, t)) \in Nat /\ Cardinality(InMinute(S, old, t)) \in Nat
          BY <1>2, CountedSets
        <4>6. QED
          BY <1>0, <4>3, <4>4, <4>5
      <3>2. CASE now < t + W
        <4>1. InMinute(S, new, t) \subseteq SinceOpening(S, new, next) \cup MinuteBefore(S, new, next)
          <5>1. SUFFICES ASSUME NEW y \in S, new[y] \in t .. (t + W - 1)
                         PROVE  y \in SinceOpening(S, new, next) \cup MinuteBefore(S, new, next)
            BY DEF InMinute
          <5>2. new[y] \in Nat /\ t <= new[y] /\ y \in Stamped(S, new)
            BY <1>0, <5>1 DEF Stamped
          <5>3. QED
            BY <1>0, <2>1, <3>2, <5>2 DEF SinceOpening, MinuteBefore
        <4>2. /\ IsFiniteSet(SinceOpening(S, new, next)) /\ IsFiniteSet(MinuteBefore(S, new, next))
              /\ Cardinality(MinuteBefore(S, new, next)) \in Nat
              /\ Cardinality(InMinute(S, new, t)) \in Nat
          BY <1>2, CountedSets
        <4>3. Cardinality(InMinute(S, new, t))
                <= Cardinality(SinceOpening(S, new, next)) + Cardinality(MinuteBefore(S, new, next))
          BY <4>1, <4>2, AtMostBoth
        <4>4. QED
          BY <1>0, <2>5, <2>7, <4>2, <4>3
      <3>3. QED
        BY <1>0, <3>1, <3>2
    <2>9. next.windowStart <= now /\ next.count = 1 /\ 1 <= L
      BY <1>0, <2>1
    <2>10. QED
      BY <1>2, <2>3, <2>5, <2>7, <2>8, <2>9 DEF CountInv
  <1>6. QED
    BY <1>4, <1>5

(* The same member opens a window, or adds to one that was opened so. *)
LEMMA ChargeOpened ==
  ASSUME NEW S, NEW x \in S, NEW old, NEW new, NEW rate \in Windows, now \in Nat,
         \A y \in S : old[y] \in Nat \cup {None}, old[x] = None,
         new[x] = now, \A y \in S \ {x} : new[y] = old[y],
         CountInv(S, old, rate), rate.windowStart <= now,
         OpenedInv(S, old, rate),
         CountInv(S, new, Charge(rate)), Charge(rate).windowStart <= now
  PROVE  OpenedInv(S, new, Charge(rate))
  <1> DEFINE next == Charge(rate)
             W == RATE_WINDOW_MS
             L == RATE_LIMIT
  <1>0. /\ rate.windowStart \in Nat /\ rate.count \in Nat /\ W \in Nat /\ L \in Nat
        /\ W > 0 /\ L > 0 /\ None \notin Nat
    BY FixtureAssumption DEF Windows, Time
  <1>1. PICK opener \in Stamped(S, old) : old[opener] = rate.windowStart
    BY DEF OpenedInv
  <1>2. opener \in S /\ opener # x /\ new[opener] = old[opener]
    BY <1>1 DEF Stamped
  <1>3. IsFiniteSet(Stamped(S, old)) /\ IsFiniteSet(Stamped(S, new))
    BY DEF CountInv
  <1>4. \A y \in Stamped(S, new) : y # x => y \in Stamped(S, old) /\ new[y] = old[y]
    BY DEF Stamped
  <1>5. \A y \in Stamped(S, old) : old[y] \in Nat /\ old[y] < rate.windowStart + W
    BY DEF CountInv, Stamped
  <1>6. /\ next.windowStart \in Nat
        /\ \E y \in Stamped(S, new) : new[y] = next.windowStart
        /\ Cardinality(MinuteBefore(S, new, next)) <= L - 1
    <2>1. CASE WithinWindow(rate)
      <3>1. next.windowStart = rate.windowStart
        BY <2>1 DEF Charge, Windows
      <3>2. opener \in Stamped(S, new) /\ new[opener] = next.windowStart
        BY <1>0, <1>1, <1>2, <3>1 DEF Stamped
      <3>3. MinuteBefore(S, new, next) \subseteq MinuteBefore(S, old, rate)
        BY <1>0, <1>4, <3>1 DEF MinuteBefore
      <3>4. Cardinality(MinuteBefore(S, new, next)) <= Cardinality(MinuteBefore(S, old, rate))
        BY <1>3, <3>3, CountedSets, FS_Subset, 0 \in Nat
      <3>5. /\ Cardinality(MinuteBefore(S, new, next)) \in Nat
            /\ Cardinality(MinuteBefore(S, old, rate)) \in Nat
        BY <1>3, CountedSets, 0 \in Nat
      <3>6. Cardinality(MinuteBefore(S, old, rate)) <= L - 1
        BY DEF OpenedInv
      <3>7. QED
        BY <1>0, <3>1, <3>2, <3>4, <3>5, <3>6
    <2>2. CASE ~WithinWindow(rate)
      <3>1. next.windowStart = now /\ rate.windowStart + W <= now
        BY <1>0, <2>2 DEF Charge, WithinWindow
      <3>2. x \in Stamped(S, new) /\ new[x] = next.windowStart
        BY <1>0, <3>1 DEF Stamped
      <3>3. MinuteBefore(S, new, next) \subseteq SinceOpening(S, old, rate) \ {opener}
        BY <1>0, <1>1, <1>2, <1>4, <1>5, <3>1 DEF MinuteBefore, SinceOpening
      <3>4. opener \in SinceOpening(S, old, rate)
        BY <1>0, <1>1 DEF SinceOpening
      <3>5. /\ IsFiniteSet(SinceOpening(S, old, rate))
            /\ Cardinality(SinceOpening(S, old, rate)) \in Nat
            /\ Cardinality(MinuteBefore(S, new, next)) \in Nat
        BY <1>3, CountedSets, 0 \in Nat
      <3>6. /\ IsFiniteSet(SinceOpening(S, old, rate) \ {opener})
            /\ Cardinality(SinceOpening(S, old, rate) \ {opener}) =
                 Cardinality(SinceOpening(S, old, rate)) - 1
        BY <3>4, <3>5, FS_RemoveElement
      <3>7. Cardinality(MinuteBefore(S, new, next)) <= Cardinality(SinceOpening(S, old, rate) \ {opener})
        BY <3>3, <3>6, FS_Subset
      <3>8. Cardinality(SinceOpening(S, old, rate)) <= rate.count /\ rate.count <= L
        BY DEF CountInv
      <3>9. QED
        BY <1>0, <3>1, <3>2, <3>5, <3>6, <3>7, <3>8
    <2>3. QED
      BY <2>1, <2>2
  <1> HIDE DEF next
  <1>7. ASSUME NEW t \in Nat
        PROVE  Cardinality(InMinute(S, new, t)) <= 2 * L - 1
    <2>1. CASE t + W <= next.windowStart
      <3>1. t + W <= now
        BY <1>0, <1>6, <2>1 DEF next
      <3>2. InMinute(S, new, t) \subseteq InMinute(S, old, t)
        BY <1>0, <3>1 DEF InMinute
      <3>3. IsFiniteSet(InMinute(S, old, t))
        BY <1>3, CountedSets
      <3>4. Cardinality(InMinute(S, new, t)) <= Cardinality(InMinute(S, old, t))
        BY <3>2, <3>3, FS_Subset
      <3>5. Cardinality(InMinute(S, old, t)) <= 2 * L - 1
        BY DEF OpenedInv
      <3>6. Cardinality(InMinute(S, new, t)) \in Nat /\ Cardinality(InMinute(S, old, t)) \in Nat
        BY <1>3, CountedSets
      <3>7. QED
        BY <1>0, <3>4, <3>5, <3>6
    <2>2. CASE next.windowStart < t + W
      <3>1. InMinute(S, new, t) \subseteq SinceOpening(S, new, next) \cup MinuteBefore(S, new, next)
        <4>1. SUFFICES ASSUME NEW y \in S, new[y] \in t .. (t + W - 1)
                       PROVE  y \in SinceOpening(S, new, next) \cup MinuteBefore(S, new, next)
          BY DEF InMinute
        <4>2. new[y] \in Nat /\ t <= new[y] /\ y \in Stamped(S, new)
          BY <1>0, <4>1 DEF Stamped
        <4>3. QED
          BY <1>0, <1>6, <2>2, <4>2 DEF SinceOpening, MinuteBefore
      <3>2. /\ IsFiniteSet(SinceOpening(S, new, next)) /\ IsFiniteSet(MinuteBefore(S, new, next))
            /\ Cardinality(SinceOpening(S, new, next)) \in Nat
            /\ Cardinality(MinuteBefore(S, new, next)) \in Nat
            /\ Cardinality(InMinute(S, new, t)) \in Nat
        BY <1>3, CountedSets
      <3>3. Cardinality(InMinute(S, new, t))
              <= Cardinality(SinceOpening(S, new, next)) + Cardinality(MinuteBefore(S, new, next))
        BY <3>1, <3>2, AtMostBoth
      <3>4. Cardinality(SinceOpening(S, new, next)) <= L
        <4>1. Cardinality(SinceOpening(S, new, next)) <= next.count /\ next.count <= L
          BY DEF CountInv, next
        <4>2. next.count \in Nat
          BY ChargeTyped DEF next, Windows
        <4>3. QED
          BY <1>0, <3>2, <4>1, <4>2
      <3>5. QED
        BY <1>0, <1>6, <3>2, <3>3, <3>4
    <2>3. QED
      BY <1>0, <1>6, <2>1, <2>2
  <1>8. QED
    BY <1>6, <1>7 DEF OpenedInv, next

(* The first one opens the first window. *)
LEMMA FirstOpened ==
  ASSUME NEW S, NEW x \in S, NEW old, NEW new, NEW rate, now \in Nat,
         Stamped(S, old) = {}, new[x] = now, \A y \in S \ {x} : new[y] = old[y],
         rate.windowStart = now
  PROVE  OpenedInv(S, new, rate)
  <1>0. RATE_LIMIT \in Nat /\ RATE_LIMIT > 0 /\ None \notin Nat
    BY FixtureAssumption
  <1>1. Stamped(S, new) = {x}
    BY <1>0 DEF Stamped
  <1>2. MinuteBefore(S, new, rate) = {}
    BY <1>1 DEF MinuteBefore
  <1>3. IsFiniteSet({}) /\ Cardinality({}) = 0 /\ Cardinality({x}) = 1 /\ IsFiniteSet({x})
    BY FS_EmptySet, FS_Singleton
  <1>4. ASSUME NEW t \in Nat
        PROVE  Cardinality(InMinute(S, new, t)) <= 2 * RATE_LIMIT - 1
    <2>1. InMinute(S, new, t) \subseteq {x}
      BY <1>1, FixtureAssumption DEF InMinute, Stamped
    <2>2. InMinute(S, new, t) = {} \/ InMinute(S, new, t) = {x}
      BY <2>1
    <2>3. Cardinality(InMinute(S, new, t)) \in {0, 1}
      BY <1>3, <2>2
    <2>4. QED
      BY <1>0, <2>3
  <1>5. QED
    BY <1>0, <1>1, <1>2, <1>3, <1>4 DEF OpenedInv

(* The clock only moves forward. *)
LEMMA NextClock ==
  ASSUME TypeOK, [Next]_vars
  PROVE  now' \in Nat /\ now <= now' /\ request' = request
  <1>1. now \in Nat
    BY DEF TypeOK, Time
  <1>2. CASE Tick
    BY <1>1, <1>2 DEF Tick
  <1>3. CASE ~Tick
    <2>1. UNCHANGED <<now, request>>
      BY <1>3 DEF Next, Capability, vars, SignInFails, LoginAllow, Create, Start, BodyRead,
         BodyRejected, CallTimesOut, Refused, Leased, IssuerAnswers, DeadlineFires,
         WorkerDies, Authorize, Finish, CallLost
    <2>2. QED
      BY <1>1, <2>1
  <1>4. QED
    BY <1>2, <1>3

(* A step that charges nobody and leaves every window alone. *)
LEMMA QuietCharges ==
  ASSUME FixtureInv, ChargesCounted, [Next]_vars, UNCHANGED chargedAt,
         \A s \in Sessions : \/ session'[s] = session[s]
                             \/ /\ session[s] # None /\ session'[s] # None
                                /\ session'[s].rate = session[s].rate
  PROVE  ChargesCounted'
  <1>1. now' \in Nat /\ now <= now' /\ request' = request /\ now \in Nat
    BY NextClock DEF FixtureInv, TypeOK, Time
  <1>2. \A s \in Sessions : RequestsOf(s)' = RequestsOf(s)
    BY <1>1 DEF RequestsOf
  <1>3. ASSUME NEW s \in Sessions, session'[s] = None
        PROVE  Stamped(RequestsOf(s), chargedAt)' = {}
    <2>1. session[s] = None
      BY <1>3
    <2>2. Stamped(RequestsOf(s), chargedAt) = {}
      BY <2>1 DEF ChargesCounted
    <2>3. QED
      BY <1>2, <2>2 DEF Stamped
  <1>4. ASSUME NEW s \in Sessions, session'[s] # None
        PROVE  session'[s].rate.windowStart <= now' /\ CountInv(RequestsOf(s), chargedAt, session[s].rate)'
    <2>1. session[s] # None /\ session'[s].rate = session[s].rate
      BY <1>4
    <2>2. session[s].rate.windowStart <= now /\ CountInv(RequestsOf(s), chargedAt, session[s].rate)
      BY <2>1 DEF ChargesCounted
    <2>3. session[s].rate.windowStart \in Nat
      <3>1. session[s] \in SessionRecords
        BY <2>1 DEF FixtureInv, TypeOK
      <3>2. session[s].rate \in Windows
        BY <3>1 DEF SessionRecords
      <3>3. QED
        BY <3>2 DEF Windows, Time
    <2>4. CountInv(RequestsOf(s), chargedAt, session[s].rate)'
      <3>1. CountInv(RequestsOf(s)', chargedAt', session'[s].rate)
        BY <1>2, <2>1, <2>2
      <3>2. QED
        BY <3>1 DEF CountInv, Stamped, SinceOpening, MinuteBefore, InMinute
    <2>5. QED
      BY <1>1, <2>1, <2>2, <2>3, <2>4
  <1>5. QED
    BY <1>3, <1>4 DEF ChargesCounted

LEMMA NextChargesCounted ==
  ASSUME FixtureInv, ChargesCounted, [Next]_vars
  PROVE  ChargesCounted'
  <1> USE DEF storage, worker, network, history
  <1>0. TypeOK /\ now \in Nat /\ request' = request
    BY NextClock DEF FixtureInv, TypeOK, Time
  <1>1. ASSUME NEW r \in Requests, Authorize(r), Granted(r)
        PROVE  ChargesCounted'
    <2> DEFINE id == request[r].session
               rate == session[id].rate
    <2>1. now' = now /\ id \in Sessions /\ r \in RequestsOf(id)
      BY <1>0, <1>1 DEF Authorize, TypeOK, RequestsOf
    <2>2. session[id] # None /\ ~Exhausted(rate)
      BY <1>1 DEF Granted, Admits
    <2>3. session[id] \in SessionRecords
      BY <1>0, <2>1, <2>2 DEF TypeOK
    <2>4. rate \in Windows
      BY <2>3 DEF SessionRecords
    <2>5. rate.windowStart <= now /\ CountInv(RequestsOf(id), chargedAt, rate)
      BY <2>1, <2>2 DEF ChargesCounted
    <2>6. chargedAt' = [chargedAt EXCEPT ![r] = now] /\ chargedAt \in [Requests -> Nat \cup {None}]
      BY <1>0, <1>1 DEF Granted, TypeOK, Time
    <2>7. CountInv(RequestsOf(id), chargedAt', Charge(rate)) /\ Charge(rate).windowStart <= now
      <3>1. \A y \in RequestsOf(id) : chargedAt[y] \in Nat \cup {None}
        BY <2>6 DEF RequestsOf
      <3>2. chargedAt'[r] = now /\ \A y \in RequestsOf(id) \ {r} : chargedAt'[y] = chargedAt[y]
        BY <2>6 DEF RequestsOf
      <3> HIDE DEF rate, id
      <3>3. QED
        BY <1>0, <2>1, <2>2, <2>4, <2>5, <3>1, <3>2, ChargeCounted
    <2>8. session'[id] # None /\ session'[id].rate = Charge(rate)
      <3>1. session'[id] = [expiresAt |-> session[id].expiresAt, rate |-> Charge(rate),
                            active |-> [token |-> r, until |-> now + LEASE_MS]]
        BY <1>0, <1>1, <2>1 DEF Granted, TypeOK
      <3>2. Charge(rate) \in Windows
        BY <1>0, <2>4, ChargeTyped
      <3>3. [token |-> r, until |-> now + LEASE_MS] \in Leases
        BY <1>0, FixtureAssumption DEF Leases, Time
      <3>4. session'[id] \in SessionRecords
        <4> HIDE DEF rate, id
        <4>1. QED
          BY <2>3, <3>1, <3>2, <3>3 DEF SessionRecords
      <3>5. QED
        BY <3>1, <3>4, NoneAssumption
    <2>9. ASSUME NEW s \in Sessions, s # id
          PROVE  session'[s] = session[s] /\ \A y \in RequestsOf(s) : chargedAt'[y] = chargedAt[y]
      BY <1>0, <1>1, <2>6, <2>9 DEF Granted, TypeOK, RequestsOf
    <2>10. ASSUME NEW s \in Sessions
           PROVE  /\ session'[s] = None => Stamped(RequestsOf(s), chargedAt') = {}
                  /\ session'[s] # None => session'[s].rate.windowStart <= now
                                           /\ CountInv(RequestsOf(s), chargedAt', session'[s].rate)
      <3>1. CASE s = id
        BY <2>7, <2>8, <3>1
      <3>2. CASE s # id /\ session[s] = None
        <4>1. Stamped(RequestsOf(s), chargedAt) = {}
          BY <3>2 DEF ChargesCounted
        <4>2. Stamped(RequestsOf(s), chargedAt') = {}
          BY <2>9, <3>2, <4>1 DEF Stamped
        <4>3. QED
          BY <2>9, <3>2, <4>2
      <3>3. CASE s # id /\ session[s] # None
        <4>1. session[s].rate.windowStart <= now /\ CountInv(RequestsOf(s), chargedAt, session[s].rate)
          BY <3>3 DEF ChargesCounted
        <4>2. CountInv(RequestsOf(s), chargedAt', session[s].rate)
          BY <2>9, <3>3, <4>1, SameStampsCounted
        <4>3. QED
          BY <2>9, <3>3, <4>1, <4>2
      <3>4. QED
        BY <3>1, <3>2, <3>3
    <2>11. \A s \in Sessions : RequestsOf(s)' = RequestsOf(s)
      BY <1>0 DEF RequestsOf
    <2>12. QED
      BY <2>1, <2>10, <2>11 DEF ChargesCounted, CountInv, Stamped, SinceOpening, MinuteBefore, InMinute
  <1>2. ASSUME NEW r \in Requests, Authorize(r), Denied(r)
        PROVE  ChargesCounted'
    BY <1>2, QuietCharges DEF Denied
  <1>3. ASSUME NEW r \in Requests, Finish(r)
        PROVE  ChargesCounted'
    <2>1. UNCHANGED chargedAt
      BY <1>3 DEF Finish
    <2>2. ASSUME NEW s \in Sessions
          PROVE  \/ session'[s] = session[s]
                 \/ /\ session[s] # None /\ session'[s] # None
                    /\ session'[s].rate = session[s].rate
      <3> DEFINE id == request[r].session
                 released == [expiresAt |-> session[id].expiresAt, rate |-> session[id].rate, active |-> None]
      <3>1. CASE session' = session
        BY <3>1
      <3>2. CASE session[id] \in SessionRecords /\ session' = [session EXCEPT ![id] = released]
        <4>1. released \in SessionRecords /\ released.rate = session[id].rate
          BY <3>2 DEF SessionRecords
        <4>2. session[id] # None /\ released # None
          BY <3>2, <4>1, NoneAssumption
        <4> HIDE DEF released
        <4>3. QED
          BY <1>0, <3>2, <4>1, <4>2 DEF TypeOK
      <3>3. QED
        BY <1>0, <1>3, <3>1, <3>2, FinishEffect
    <2>3. QED
      BY <2>1, <2>2, QuietCharges
  <1>4. ASSUME NEW s \in Sessions, Create(s)
        PROVE  ChargesCounted'
    <2> DEFINE fresh == [windowStart |-> now, count |-> 0]
    <2>1. session[s] = None /\ now' = now /\ chargedAt' = chargedAt
      BY <1>4 DEF Create, FixtureInv, SignInInv
    <2>2. fresh \in Windows /\ fresh.count <= RATE_LIMIT /\ fresh.windowStart = now
      BY <1>0, FixtureAssumption DEF Windows, Time
    <2>3. session' = [session EXCEPT ![s] = [expiresAt |-> now + SESSION_MS, rate |-> fresh, active |-> None]]
      BY <1>4 DEF Create
    <2> HIDE DEF fresh
    <2>4. session'[s].rate = fresh /\ \A x \in Sessions \ {s} : session'[x] = session[x]
      BY <1>0, <2>3 DEF TypeOK
    <2>5. Stamped(RequestsOf(s), chargedAt) = {}
      BY <2>1 DEF ChargesCounted
    <2>6. CountInv(RequestsOf(s), chargedAt, fresh)
      BY <2>2, <2>5, NothingCounted
    <2>7. \A x \in Sessions : RequestsOf(x)' = RequestsOf(x)
      BY <1>0 DEF RequestsOf
    <2>8. now <= now
      BY <1>0
    <2>9. ASSUME NEW x \in Sessions
          PROVE  /\ session'[x] = None => Stamped(RequestsOf(x), chargedAt) = {}
                 /\ session'[x] # None => session'[x].rate.windowStart <= now
                                          /\ CountInv(RequestsOf(x), chargedAt, session'[x].rate)
      <3>1. CASE x = s
        BY <2>2, <2>4, <2>5, <2>6, <2>8, <3>1
      <3>2. CASE x # s
        BY <2>4, <3>2 DEF ChargesCounted
      <3>3. QED
        BY <3>1, <3>2
    <2>10. ASSUME NEW x \in Sessions
           PROVE  /\ session'[x] = None => Stamped(RequestsOf(x), chargedAt)' = {}
                  /\ session'[x] # None =>
                        /\ session'[x].rate.windowStart <= now'
                        /\ CountInv(RequestsOf(x), chargedAt, session[x].rate)'
      <3>1. CASE session'[x] = None
        BY <2>1, <2>7, <2>9, <3>1 DEF Stamped
      <3>2. CASE session'[x] # None
        <4>1. CountInv(RequestsOf(x)', chargedAt', session'[x].rate)
          BY <2>1, <2>7, <2>9, <3>2
        <4>2. CountInv(RequestsOf(x), chargedAt, session[x].rate)'
          BY <4>1 DEF CountInv, Stamped, SinceOpening, MinuteBefore, InMinute
        <4>3. QED
          BY <2>1, <2>9, <3>2, <4>2
      <3>3. QED
        BY <3>1, <3>2
    <2>11. QED
      BY <2>10 DEF ChargesCounted
  <1>5. ASSUME ~ \E r \in Requests : Authorize(r) \/ Finish(r), ~ \E s \in Sessions : Create(s)
        PROVE  ChargesCounted'
    <2>1. UNCHANGED <<session, chargedAt>>
      BY <1>5 DEF Next, Capability, vars, SignInFails, LoginAllow, Start, BodyRead,
           BodyRejected, CallTimesOut, Refused, Leased, IssuerAnswers, DeadlineFires,
           WorkerDies, CallLost, Tick
    <2>2. QED
      BY <2>1, QuietCharges
  <1>6. QED
    BY <1>0, <1>1, <1>2, <1>3, <1>4, <1>5, AuthorizeEffect

(* A step that admits no sign-in. *)
LEMMA QuietAttempts ==
  ASSUME FixtureInv, AttemptsCounted, [Next]_vars, UNCHANGED <<loginRate, attemptedAt>>,
         \A s \in Sessions : signIn'[s] = "allowed" => signIn[s] = "allowed",
         \A s \in Sessions : signIn'[s] = "idle" => signIn[s] = "idle",
         \A s \in Sessions : session'[s] # None => session[s] # None \/ signIn[s] = "allowed"
  PROVE  AttemptsCounted'
  <1>1. now' \in Nat /\ now <= now' /\ now \in Nat
    BY NextClock DEF FixtureInv, TypeOK, Time
  <1>2. \A s \in Sessions :
           /\ signIn'[s] = "allowed" \/ session'[s] # None => attemptedAt'[s] # None
           /\ signIn'[s] = "idle" => attemptedAt'[s] = None
    BY DEF AttemptsCounted
  <1>3. CASE loginRate = None
    BY <1>2, <1>3 DEF AttemptsCounted, Stamped
  <1>4. CASE loginRate # None
    <2>1. loginRate \in Windows
      BY <1>4 DEF FixtureInv, TypeOK
    <2>2. loginRate.windowStart \in Nat
      BY <2>1 DEF Windows, Time
    <2>3. loginRate.windowStart <= now /\ CountInv(Sessions, attemptedAt, loginRate)
      BY <1>4 DEF AttemptsCounted
    <2>4. CountInv(Sessions, attemptedAt, loginRate)'
      BY <2>3 DEF CountInv, Stamped, SinceOpening, MinuteBefore, InMinute
    <2>5. OpenedInv(Sessions, attemptedAt, loginRate)'
      BY <1>4 DEF AttemptsCounted, OpenedInv, Stamped, MinuteBefore, InMinute
    <2>6. loginRate'.windowStart <= now'
      BY <1>1, <2>2, <2>3
    <2>7. QED
      BY <1>2, <1>4, <2>4, <2>5, <2>6 DEF AttemptsCounted
  <1>5. QED
    BY <1>3, <1>4

LEMMA NextAttemptsCounted ==
  ASSUME FixtureInv, AttemptsCounted, [Next]_vars
  PROVE  AttemptsCounted'
  <1> USE DEF storage, worker, network, history
  <1>0. TypeOK /\ now \in Nat
    BY DEF FixtureInv, TypeOK, Time
  <1>1. ASSUME NEW s \in Sessions, LoginAllow(s)
        PROVE  AttemptsCounted'
    <2>0. UNCHANGED <<now, session>>
      BY <1>1 DEF LoginAllow
    <2>1. CASE loginRate # None /\ Exhausted(loginRate)
      <3>1. UNCHANGED <<loginRate, attemptedAt>> /\ signIn' = [signIn EXCEPT ![s] = "over"]
        BY <1>1, <2>1 DEF LoginAllow
      <3>2. \A x \in Sessions : /\ signIn'[x] = "allowed" => signIn[x] = "allowed"
                               /\ signIn'[x] = "idle" => signIn[x] = "idle"
        BY <1>0, <3>1 DEF TypeOK
      <3>3. QED
        BY <2>0, <3>1, <3>2, QuietAttempts
    <2>2. CASE ~(loginRate # None /\ Exhausted(loginRate))
      <3>1. /\ loginRate' = IF loginRate = None THEN [windowStart |-> now, count |-> 1] ELSE Charge(loginRate)
            /\ attemptedAt' = [attemptedAt EXCEPT ![s] = now]
            /\ signIn' = [signIn EXCEPT ![s] = "allowed"]
        BY <1>1, <2>2 DEF LoginAllow
      <3>2. attemptedAt \in [Sessions -> Nat \cup {None}] /\ None \notin Nat
        BY <1>0, FixtureAssumption DEF TypeOK, Time
      <3>3. attemptedAt'[s] = now /\ \A x \in Sessions \ {s} : attemptedAt'[x] = attemptedAt[x]
        BY <3>1, <3>2
      <3>4. \A x \in Sessions :
               /\ signIn'[x] = "allowed" \/ session'[x] # None => attemptedAt'[x] # None
               /\ signIn'[x] = "idle" => attemptedAt'[x] = None
        BY <1>0, <2>0, <3>1, <3>2, <3>3 DEF AttemptsCounted, TypeOK
      <3>5. attemptedAt[s] = None
        BY <1>1 DEF AttemptsCounted, LoginAllow
      <3>6. /\ loginRate' # None /\ loginRate'.windowStart <= now
            /\ CountInv(Sessions, attemptedAt', loginRate')
            /\ OpenedInv(Sessions, attemptedAt', loginRate')
        <4>1. CASE loginRate # None
          <5>1. loginRate \in Windows
            BY <1>0, <4>1 DEF TypeOK
          <5>2. Charge(loginRate) # None
            BY <1>0, <5>1, ChargeTyped, NoneAssumption
          <5>3. loginRate.windowStart <= now /\ CountInv(Sessions, attemptedAt, loginRate)
            BY <4>1 DEF AttemptsCounted
          <5>4. CountInv(Sessions, attemptedAt', Charge(loginRate)) /\ Charge(loginRate).windowStart <= now
            BY <1>0, <2>2, <3>2, <3>3, <4>1, <5>1, <5>3, ChargeCounted
          <5>5. OpenedInv(Sessions, attemptedAt, loginRate)
            BY <4>1 DEF AttemptsCounted
          <5>6. OpenedInv(Sessions, attemptedAt', Charge(loginRate))
            BY <1>0, <3>2, <3>3, <3>5, <5>1, <5>3, <5>4, <5>5, ChargeOpened
          <5>7. QED
            BY <3>1, <4>1, <5>2, <5>4, <5>6
        <4>2. CASE loginRate = None
          <5> DEFINE fresh == [windowStart |-> now, count |-> 0]
          <5>1. fresh \in Windows /\ fresh.windowStart = now /\ fresh.count = 0
            BY <1>0 DEF Windows, Time
          <5>2. fresh.count <= RATE_LIMIT /\ fresh.windowStart <= now
            BY <1>0, <5>1, FixtureAssumption
          <5>3. Stamped(Sessions, attemptedAt) = {}
            BY <4>2 DEF AttemptsCounted
          <5>4. Charge(fresh) = [windowStart |-> now, count |-> 1] /\ ~Exhausted(fresh)
            BY <1>0, <5>1, FixtureAssumption DEF Charge, WithinWindow, Exhausted
          <5>5. loginRate' = Charge(fresh)
            BY <3>1, <4>2, <5>4
          <5> HIDE DEF fresh
          <5>6. CountInv(Sessions, attemptedAt, fresh)
            BY <5>1, <5>2, <5>3, NothingCounted
          <5>7. CountInv(Sessions, attemptedAt', Charge(fresh)) /\ Charge(fresh).windowStart <= now
            BY <1>0, <3>2, <3>3, <5>1, <5>2, <5>4, <5>6, ChargeCounted
          <5>8. Charge(fresh) # None
            BY <1>0, <5>1, ChargeTyped, NoneAssumption
          <5>9. Charge(fresh).windowStart = now
            BY <5>4
          <5>10. OpenedInv(Sessions, attemptedAt', Charge(fresh))
            BY <1>0, <3>3, <5>3, <5>9, FirstOpened
          <5>11. QED
            BY <5>5, <5>7, <5>8, <5>10
        <4>3. QED
          BY <4>1, <4>2
      <3>7. QED
        BY <2>0, <3>4, <3>6 DEF AttemptsCounted, CountInv, OpenedInv, Stamped, SinceOpening,
             MinuteBefore, InMinute
    <2>3. QED
      BY <2>1, <2>2
  <1>2. ASSUME NEW s \in Sessions, Create(s)
        PROVE  AttemptsCounted'
    BY <1>0, <1>2, QuietAttempts DEF Create, TypeOK
  <1>3. ASSUME NEW s \in Sessions, SignInFails(s)
        PROVE  AttemptsCounted'
    BY <1>0, <1>3, QuietAttempts DEF SignInFails, TypeOK
  <1>4. ASSUME NEW r \in Requests, Authorize(r) \/ Finish(r)
        PROVE  AttemptsCounted'
    <2>1. UNCHANGED <<loginRate, attemptedAt, signIn>>
      BY <1>4 DEF Authorize, Finish
    <2>2. \A s \in Sessions : session'[s] # None => session[s] # None
      <3>1. CASE Authorize(r)
        <4>1. CASE Granted(r)
          BY <1>0, <4>1 DEF Granted, Admits, TypeOK
        <4>2. CASE Denied(r)
          BY <4>2 DEF Denied
        <4>3. QED
          BY <1>0, <3>1, <4>1, <4>2, AuthorizeEffect
      <3>2. CASE Finish(r)
        BY <1>0, <3>2 DEF Finish, TypeOK
      <3>3. QED
        BY <1>4, <3>1, <3>2
    <2>3. QED
      BY <2>1, <2>2, QuietAttempts
  <1>5. ASSUME ~ \E r \in Requests : Authorize(r) \/ Finish(r),
               ~ \E s \in Sessions : Create(s) \/ LoginAllow(s) \/ SignInFails(s)
        PROVE  AttemptsCounted'
    <2>1. UNCHANGED <<session, signIn, loginRate, attemptedAt>>
      BY <1>5 DEF Next, Capability, vars, Start, BodyRead, BodyRejected, CallTimesOut, Refused,
           Leased, IssuerAnswers, DeadlineFires, WorkerDies, CallLost, Tick
    <2>2. QED
      BY <2>1, QuietAttempts
  <1>6. QED
    BY <1>1, <1>2, <1>3, <1>4, <1>5

LEMMA InitCounted == Init => ChargesCounted /\ AttemptsCounted
  BY DEF Init, ChargesCounted, AttemptsCounted, Stamped, RequestsOf

(* A window counts every charge since it opened, up to its budget, and no  *)
(* minute before it holds more than one budget: so it is for each session, *)
(* and for the sign-ins together.                                          *)
THEOREM CountInvariance == Spec => [](ChargesCounted /\ AttemptsCounted)
  <1>1. FixtureInv /\ ChargesCounted /\ AttemptsCounted /\ [Next]_vars => (ChargesCounted /\ AttemptsCounted)'
    BY NextChargesCounted, NextAttemptsCounted
  <1>2. QED
    BY <1>1, InitCounted, FixtureInvariance, PTL DEF Spec

(* However the windows of a session open and close, no minute sees more    *)
(* than two of its budgets.                                                *)
THEOREM TwoBudgets == Spec => []TwoBudgetsAtMost
  <1>1. FixtureInv /\ ChargesCounted => TwoBudgetsAtMost
    <2> SUFFICES ASSUME FixtureInv, ChargesCounted, NEW s \in Sessions, NEW t \in 0 .. now
                 PROVE  Cardinality(ChargedIn(s, t)) <= 2 * RATE_LIMIT
      BY DEF TwoBudgetsAtMost
    <2>1. t \in Nat
      BY DEF FixtureInv, TypeOK, Time
    <2>2. ChargedIn(s, t) = InMinute(RequestsOf(s), chargedAt, t)
      BY DEF ChargedIn, InMinute, RequestsOf
    <2>3. CASE session[s] # None
      BY <2>1, <2>2, <2>3 DEF ChargesCounted, CountInv
    <2>4. CASE session[s] = None
      <3>1. Stamped(RequestsOf(s), chargedAt) = {}
        BY <2>4 DEF ChargesCounted
      <3>2. InMinute(RequestsOf(s), chargedAt, t) = {}
        BY <2>1, <3>1, FixtureAssumption DEF InMinute, Stamped
      <3>3. QED
        BY <2>2, <3>2, FS_EmptySet, FixtureAssumption
    <2>5. QED
      BY <2>3, <2>4
  <1>2. QED
    BY <1>1, FixtureInvariance, CountInvariance, PTL

(* No minute sees more sign-ins than two budgets less the one that opened  *)
(* a window; and nobody has a session without an admitted sign-in.         *)
THEOREM LimitedSignIns == Spec => []SignInsAreLimited
  <1>1. FixtureInv /\ AttemptsCounted => SignInsAreLimited
    <2> SUFFICES ASSUME FixtureInv, AttemptsCounted, NEW t \in 0 .. now
                 PROVE  Cardinality(AttemptedIn(t)) <= 2 * RATE_LIMIT - 1
      BY DEF SignInsAreLimited, AttemptsCounted
    <2>1. t \in Nat
      BY DEF FixtureInv, TypeOK, Time
    <2>2. AttemptedIn(t) = InMinute(Sessions, attemptedAt, t)
      BY DEF AttemptedIn, InMinute
    <2>3. CASE loginRate # None
      BY <2>1, <2>2, <2>3 DEF AttemptsCounted, OpenedInv
    <2>4. CASE loginRate = None
      <3>1. Stamped(Sessions, attemptedAt) = {}
        BY <2>4 DEF AttemptsCounted
      <3>2. InMinute(Sessions, attemptedAt, t) = {}
        BY <2>1, <3>1, FixtureAssumption DEF InMinute, Stamped
      <3>3. QED
        BY <2>2, <3>2, FS_EmptySet, FixtureAssumption
    <2>5. QED
      BY <2>3, <2>4
  <1>2. QED
    BY <1>1, FixtureInvariance, CountInvariance, PTL
-----------------------------------------------------------------------------
(* The refinement of the register: a granted charge confirms, and every    *)
(* other step leaves the register alone.                                   *)
LEMMA GrantConfirms ==
  ASSUME TypeOK, NEW r \in Requests, Granted(r), UNCHANGED <<now, request>>
  PROVE  Register!Next
  <1> DEFINE id == request[r].session
             submission == request[r].submission
             content == [session |-> id, digest |-> request[r].digest]
             Confirmed == {Asked(q) : q \in {p \in Requests : chargedAt[p] # None}}
  <1>1. submission \in Submissions /\ content \in Contents /\ now \in Nat
    BY DEF TypeOK, Contents, Time
  <1>2. binding \in [Submissions -> Contents \cup {None}] /\ chargedAt \in [Requests -> Nat \cup {None}]
    BY DEF TypeOK, Time
  <1>3. binding[submission] \in {None, content}
    BY DEF Granted, Admits
  <1>4. binding' = [binding EXCEPT ![submission] = content]
    BY DEF Granted
  <1>5. \E synced \in SUBSET Submissions :
          /\ submission \in synced
          /\ binding' = [l \in Submissions |-> IF l \in synced THEN binding'[l] ELSE binding[l]]
    <2>1. binding' = [l \in Submissions |-> IF l \in Submissions THEN binding'[l] ELSE binding[l]]
      BY <1>2, <1>4
    <2>2. QED
      BY <1>1, <2>1
  <1>6. Confirmed' = Confirmed \cup {<<submission, content>>}
    <2>1. \A q \in Requests : Asked(q)' = Asked(q)
      BY DEF Asked
    <2>2. \A q \in Requests : chargedAt'[q] # None <=> q = r \/ chargedAt[q] # None
      BY <1>1, <1>2, FixtureAssumption DEF Granted
    <2>3. Asked(r) = <<submission, content>>
      BY DEF Asked
    <2>4. QED
      BY <2>1, <2>2, <2>3
  <1> HIDE DEF submission, content, Confirmed
  <1>7. PICK k \in Submissions, x \in Contents : k = submission /\ x = content
    BY <1>1
  <1>8. Register!Confirm(k, x)
    BY <1>3, <1>4, <1>5, <1>6, <1>7 DEF Register!Confirm, Confirmed
  <1>9. QED
    BY <1>8 DEF Register!Next

LEMMA RegisterStep ==
  ASSUME FixtureInv, [Next]_vars
  PROVE  [Register!Next]_Register!vars
  <1> USE DEF storage, worker, network, history
  <1>0. TypeOK
    BY DEF FixtureInv
  <1>1. ASSUME UNCHANGED <<request, binding, chargedAt>>
        PROVE  UNCHANGED Register!vars
    BY <1>1 DEF Register!vars, Asked
  <1>2. ASSUME NEW r \in Requests, Authorize(r)
        PROVE  [Register!Next]_Register!vars
    <2>1. UNCHANGED <<now, request>>
      BY <1>2 DEF Authorize
    <2>2. CASE Granted(r)
      BY <1>0, <2>1, <2>2, GrantConfirms
    <2>3. CASE Denied(r)
      BY <1>1, <2>1, <2>3 DEF Denied
    <2>4. QED
      BY <1>0, <1>2, <2>2, <2>3, AuthorizeEffect
  <1>3. ASSUME ~ \E r \in Requests : Authorize(r)
        PROVE  UNCHANGED <<request, binding, chargedAt>>
    BY <1>3 DEF Next, Capability, vars, SignInFails, LoginAllow, Create, Start, BodyRead,
         BodyRejected, CallTimesOut, Refused, Leased, IssuerAnswers, DeadlineFires,
         WorkerDies, Finish, CallLost, Tick
  <1>4. QED
    BY <1>1, <1>2, <1>3

(* The storage implements the write-once register: however late calls come *)
(* and leases expire, a request is charged only for the content that its   *)
(* submission was first bound to.                                          *)
THEOREM RegisterRefinement == Spec => BindsOnce
  <1>1. Init => Register!Init
    BY DEF Init, Register!Init
  <1>2. FixtureInv /\ [Next]_vars => [Register!Next]_Register!vars
    BY RegisterStep
  <1>3. QED
    BY <1>1, <1>2, FixtureInvariance, PTL DEF Spec, BindsOnce, Register!Spec
-----------------------------------------------------------------------------
(* The safety core of EveryRequestAnswered.  An unanswered request is      *)
(* within DEADLINE_MS of its deadline and not past it, and the deadline is *)
(* never moved: it goes only with the answer.                              *)
NeverOverdue ==
    \A r \in Requests : handler[r] # "idle" /\ answer[r] = None =>
        deadline[r] \in Nat /\ now <= deadline[r] /\ deadline[r] <= now + DEADLINE_MS

DeadlineIsKept ==
    [][\A r \in Requests : deadline[r] # None =>
          deadline'[r] = deadline[r] \/ answer'[r] # None]_vars

(* Both hold of every request, whatever is lost, late or ended. *)
THEOREM AnsweredInTime == Spec => []NeverOverdue /\ DeadlineIsKept
  <1>1. FixtureInv => NeverOverdue
    BY DEF FixtureInv, TimerInv, NeverOverdue
  <1>2. FixtureInv /\ [Next]_vars =>
          (\A r \in Requests : deadline[r] # None => deadline'[r] = deadline[r] \/ answer'[r] # None)
    <2> SUFFICES ASSUME FixtureInv, [Next]_vars, NEW r \in Requests, deadline[r] # None
                 PROVE  deadline'[r] = deadline[r] \/ answer'[r] # None
      OBVIOUS
    <2> USE DEF storage, worker, network, history
    <2>0. TypeOK /\ TimerInv
      BY DEF FixtureInv
    <2>1. ASSUME NEW q \in Requests, NEW value \in {"granted", "denied"}, NEW leased,
                 AnswerWith(q, value, leased)
          PROVE  deadline'[r] = deadline[r] \/ answer'[r] # None
      BY <2>0, <2>1, NoneAssumption DEF TypeOK, AnswerWith
    <2>2. ASSUME NEW q \in Requests, NEW value \in {"granted", "denied"}, NEW leased,
                 HandlerReturns(q, value, leased)
          PROVE  deadline'[r] = deadline[r] \/ answer'[r] # None
      BY <2>1, <2>2 DEF HandlerReturns
    <2>3. ASSUME NEW q \in Requests, Start(q)
          PROVE  deadline'[r] = deadline[r]
      BY <2>0, <2>3 DEF TypeOK, TimerInv, Start
    <2>4. ASSUME NEW q \in Requests, WorkerDies(q)
          PROVE  deadline'[r] = deadline[r] \/ answer'[r] # None
      BY <2>0, <2>4, NoneAssumption DEF TypeOK, WorkerDies
    <2>5. ASSUME NEW q \in Requests,
                 BodyRejected(q) \/ CallTimesOut(q) \/ Refused(q) \/ Leased(q)
                 \/ IssuerAnswers(q) \/ DeadlineFires(q)
          PROVE  deadline'[r] = deadline[r] \/ answer'[r] # None
      BY <2>1, <2>2, <2>5 DEF BodyRejected, CallTimesOut, Refused, Leased, IssuerAnswers, DeadlineFires
    <2>6. ASSUME ~ \E q \in Requests : \/ Start(q) \/ WorkerDies(q) \/ BodyRejected(q)
                                       \/ CallTimesOut(q) \/ Refused(q) \/ Leased(q)
                                       \/ IssuerAnswers(q) \/ DeadlineFires(q)
          PROVE  deadline' = deadline
      BY <2>6 DEF Next, Capability, vars, SignInFails, LoginAllow, Create, BodyRead,
           Authorize, Finish, CallLost, Tick
    <2>7. QED
      BY <2>3, <2>4, <2>5, <2>6
  <1>3. QED
    BY <1>1, <1>2, FixtureInvariance, PTL DEF Spec, DeadlineIsKept
=============================================================================
