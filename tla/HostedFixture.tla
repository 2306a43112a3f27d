--------------------------- MODULE HostedFixture ---------------------------
(***************************************************************************)
(* The staging fixture (examples/hosted-fixture): the Worker's sign-in and *)
(* capability routes (worker.ts, capability.ts with the V1 handler of      *)
(* examples/v1-backend/handler.ts), and the Durable Object that keeps      *)
(* sessions, bindings, leases and rate windows (state.ts).                 *)
(*                                                                         *)
(* Worker and object exchange messages (state-client.ts): a call gives up  *)
(* after a time-out, but the object may handle it at any later time; a     *)
(* call or its reply may be lost; and the Worker may die.  Each route of   *)
(* the object is one storage transaction.                                  *)
(*                                                                         *)
(* Time is discrete.  A due timer of a live Worker fires before the clock  *)
(* moves on.                                                               *)
(***************************************************************************)
EXTENDS Naturals, FiniteSets

CONSTANTS
    None,
    Sessions,       \* one per sign-in attempt
    Requests,       \* capability requests of the browser
    Submissions,
    Digests,
    SESSION_MS, RATE_WINDOW_MS, RATE_LIMIT, LEASE_MS,   \* state.ts
    DEADLINE_MS,    \* capability.ts
    CALL_MS,        \* state-client.ts
    MaxTime         \* bound on the clock

ASSUME FixtureAssumption ==
    /\ {SESSION_MS, RATE_WINDOW_MS, RATE_LIMIT, LEASE_MS, DEADLINE_MS, CALL_MS,
        MaxTime} \subseteq Nat
    /\ DEADLINE_MS < LEASE_MS
    /\ RATE_LIMIT > 0 /\ RATE_WINDOW_MS > 0
    /\ None \notin Nat

VARIABLES
    now,
    request,     \* what each request carries
    session,     \* the object's storage: session:<id>,
    binding,     \* binding:<submission>
    loginRate,   \* and login-rate
    signIn,      \* where each sign-in is
    handler,     \* the await at which the handler of a request is
    deadline,    \* when a request's 20 s timer is due, or None
    callDue,     \* when its call to the object times out, or None
    lease,       \* the variable `lease' of capability() is set
    answer,      \* what the browser received
    calls,       \* calls on their way to the object
    replies,     \* replies on their way back
    attemptedAt, \* when a sign-in attempt was admitted (history)
    chargedAt    \* when a request was charged and granted (history)

storage == <<session, binding, loginRate>>
worker == <<handler, deadline, callDue, lease, answer>>
network == <<calls, replies>>
history == <<attemptedAt, chargedAt>>
vars == <<now, request, storage, signIn, worker, network, history>>

Time == Nat
Windows == [windowStart : Time, count : Nat]
Leases == [token : Requests, until : Time]
SessionRecords == [expiresAt : Time, rate : Windows, active : Leases \cup {None}]
Contents == [session : Sessions, digest : Digests]

ASSUME NoneAssumption ==
    /\ None \notin {"granted", "denied", "lost"}
    /\ None \notin Leases
    /\ None \notin SessionRecords
    /\ None \notin Contents
    /\ None \notin Windows

TypeOK ==
    /\ now \in Time
    /\ request \in [Requests -> [session : Sessions, submission : Submissions,
                                 digest : Digests]]
    /\ session \in [Sessions -> SessionRecords \cup {None}]
    /\ binding \in [Submissions -> Contents \cup {None}]
    /\ loginRate \in Windows \cup {None}
    /\ signIn \in [Sessions -> {"idle", "allowed", "over"}]
    /\ handler \in [Requests -> {"idle", "reading", "authorizing", "exchanging", "done"}]
    /\ deadline \in [Requests -> Time \cup {None}]
    /\ callDue \in [Requests -> Time \cup {None}]
    /\ lease \in [Requests -> BOOLEAN]
    /\ answer \in [Requests -> {None, "granted", "denied", "lost"}]
    /\ calls \subseteq {"authorize", "finish"} \X Requests
    /\ replies \subseteq {"leased", "refused"} \X Requests
    /\ attemptedAt \in [Sessions -> Time \cup {None}]
    /\ chargedAt \in [Requests -> Time \cup {None}]

Init ==
    /\ now = 0
    /\ request \in [Requests -> [session : Sessions, submission : Submissions,
                                 digest : Digests]]
    /\ session = [s \in Sessions |-> None]
    /\ binding = [m \in Submissions |-> None]
    /\ loginRate = None
    /\ signIn = [s \in Sessions |-> "idle"]
    /\ handler = [r \in Requests |-> "idle"]
    /\ deadline = [r \in Requests |-> None]
    /\ callDue = [r \in Requests |-> None]
    /\ lease = [r \in Requests |-> FALSE]
    /\ answer = [r \in Requests |-> None]
    /\ calls = {}
    /\ replies = {}
    /\ attemptedAt = [s \in Sessions |-> None]
    /\ chargedAt = [r \in Requests |-> None]
----------------------------------------------------------------------------
(* The Durable Object.                                                     *)

(* A fixed window that opens with the first charge after the last one. *)
WithinWindow(rate) == now - rate.windowStart < RATE_WINDOW_MS

Exhausted(rate) == WithinWindow(rate) /\ rate.count >= RATE_LIMIT

Charge(rate) ==
    IF WithinWindow(rate)
    THEN [rate EXCEPT !.count = @ + 1]
    ELSE [windowStart |-> now, count |-> 1]

(* Mutant: the budget is kept but not tested. *)
LoginAllowUnlimited(s) ==
    /\ signIn[s] = "idle"
    /\ loginRate' = IF loginRate = None THEN [windowStart |-> now, count |-> 1] ELSE Charge(loginRate)
    /\ signIn' = [signIn EXCEPT ![s] = "allowed"]
    /\ attemptedAt' = [attemptedAt EXCEPT ![s] = now]
    /\ UNCHANGED <<now, request, session, binding, worker, network, chargedAt>>

(* /login-allow, called by a sign-in. *)
LoginAllow(s) ==
    /\ signIn[s] = "idle"
    /\ IF loginRate # None /\ Exhausted(loginRate)
       THEN /\ signIn' = [signIn EXCEPT ![s] = "over"]
            /\ UNCHANGED <<loginRate, attemptedAt>>
       ELSE /\ loginRate' = IF loginRate = None
                            THEN [windowStart |-> now, count |-> 1]
                            ELSE Charge(loginRate)
            /\ signIn' = [signIn EXCEPT ![s] = "allowed"]
            /\ attemptedAt' = [attemptedAt EXCEPT ![s] = now]
    /\ UNCHANGED <<now, request, session, binding, worker, network, chargedAt>>

(* Mutant: the record is stored without its lease field. *)
CreateIncomplete(s) ==
    /\ signIn[s] = "allowed"
    /\ signIn' = [signIn EXCEPT ![s] = "over"]
    /\ session' = [session EXCEPT ![s] =
           [expiresAt |-> now + SESSION_MS, rate |-> [windowStart |-> now, count |-> 0]]]
    /\ UNCHANGED <<now, request, binding, loginRate, worker, network, history>>

(* /create, after the password was read and compared. *)
Create(s) ==
    /\ signIn[s] = "allowed"
    /\ signIn' = [signIn EXCEPT ![s] = "over"]
    /\ session' = [session EXCEPT ![s] =
           [expiresAt |-> now + SESSION_MS,
            rate |-> [windowStart |-> now, count |-> 0],
            active |-> None]]
    /\ UNCHANGED <<now, request, binding, loginRate, worker, network, history>>

(* Mutants: a lease is not looked at; the digest is not compared. *)
AdmitsConcurrent(r) ==
    LET s == session[request[r].session]
        prior == binding[request[r].submission] IN
    /\ s # None
    /\ s.expiresAt > now
    /\ ~Exhausted(s.rate)
    /\ prior # None => prior = [session |-> request[r].session, digest |-> request[r].digest]

AdmitsAnyDigest(r) ==
    LET s == session[request[r].session]
        prior == binding[request[r].submission] IN
    /\ s # None
    /\ s.expiresAt > now
    /\ ~Exhausted(s.rate)
    /\ s.active # None => s.active.until <= now
    /\ prior # None => prior.session = request[r].session

(* The checks of authorize() on what is stored. *)
Admits(r) ==
    LET s == session[request[r].session]
        prior == binding[request[r].submission] IN
    /\ s # None
    /\ s.expiresAt > now
    /\ ~Exhausted(s.rate)
    /\ s.active # None => s.active.until <= now
    /\ prior # None => prior = [session |-> request[r].session, digest |-> request[r].digest]

(* Mutant: the binding is stored, the charged session is not. *)
AuthorizeUnsaved(r) ==
    LET id == request[r].session IN
    /\ <<"authorize", r>> \in calls
    /\ calls' = calls \ {<<"authorize", r>>}
    /\ Admits(r)
    /\ binding' = IF binding[request[r].submission] = None
                  THEN [binding EXCEPT ![request[r].submission] =
                           [session |-> id, digest |-> request[r].digest]]
                  ELSE binding
    /\ chargedAt' = [chargedAt EXCEPT ![r] = now]
    /\ replies' = replies \cup {<<"leased", r>>}
    /\ UNCHANGED <<now, request, session, loginRate, signIn, worker, attemptedAt>>

(* /authorize: the lease's random token stands for the request that made   *)
(* the call, because each makes one.  A call may carry a wrong CSRF token, *)
(* and its reply may be lost.                                              *)
Authorize(r) ==
    LET id == request[r].session IN
    /\ <<"authorize", r>> \in calls
    /\ calls' = calls \ {<<"authorize", r>>}
    /\ \E csrf \in BOOLEAN :
       IF csrf /\ Admits(r)
       THEN /\ binding' = IF binding[request[r].submission] = None
                          THEN [binding EXCEPT ![request[r].submission] =
                                   [session |-> id, digest |-> request[r].digest]]
                          ELSE binding
            /\ session' = [session EXCEPT ![id] =
                   [expiresAt |-> @.expiresAt,
                    rate |-> Charge(@.rate),
                    active |-> [token |-> r, until |-> now + LEASE_MS]]]
            /\ chargedAt' = [chargedAt EXCEPT ![r] = now]
            /\ replies' \in {replies, replies \cup {<<"leased", r>>}}
       ELSE /\ replies' \in {replies, replies \cup {<<"refused", r>>}}
            /\ UNCHANGED <<binding, session, chargedAt>>
    /\ UNCHANGED <<now, request, loginRate, signIn, worker, attemptedAt>>

(* Mutant: finish releases whatever lease there is. *)
FinishAnyLease(r) ==
    LET id == request[r].session IN
    /\ <<"finish", r>> \in calls
    /\ calls' = calls \ {<<"finish", r>>}
    /\ session' = IF session[id] # None
                  THEN [session EXCEPT ![id].active = None]
                  ELSE session
    /\ UNCHANGED <<now, request, binding, loginRate, signIn, worker, replies, history>>

(* Mutant: finish forgets the binding with the lease. *)
FinishUnbinds(r) ==
    LET id == request[r].session IN
    /\ <<"finish", r>> \in calls
    /\ calls' = calls \ {<<"finish", r>>}
    /\ session' = IF session[id].active # None /\ session[id].active.token = r
                  THEN [session EXCEPT ![id].active = None]
                  ELSE session
    /\ binding' = [binding EXCEPT ![request[r].submission] = None]
    /\ UNCHANGED <<now, request, loginRate, signIn, worker, replies, history>>

(* /finish: a lease that was replaced in the meantime is left alone. *)
Finish(r) ==
    LET id == request[r].session IN
    /\ <<"finish", r>> \in calls
    /\ calls' = calls \ {<<"finish", r>>}
    /\ session' = IF /\ session[id] # None
                     /\ session[id].active # None
                     /\ session[id].active.token = r
                  THEN [session EXCEPT ![id] =
                           [expiresAt |-> @.expiresAt, rate |-> @.rate, active |-> None]]
                  ELSE session
    /\ UNCHANGED <<now, request, binding, loginRate, signIn, worker, replies, history>>
----------------------------------------------------------------------------
(* The Worker.                                                             *)

(* The reply is lost, or the password is wrong. *)
SignInFails(s) ==
    /\ signIn[s] = "allowed"
    /\ signIn' = [signIn EXCEPT ![s] = "over"]
    /\ UNCHANGED <<now, request, storage, worker, network, history>>

(* capability(): the timer is armed and the handler begins to read the body. *)
Start(r) ==
    /\ handler[r] = "idle"
    /\ answer[r] = None
    /\ now + DEADLINE_MS <= MaxTime
    /\ handler' = [handler EXCEPT ![r] = "reading"]
    /\ deadline' = [deadline EXCEPT ![r] = now + DEADLINE_MS]
    /\ UNCHANGED <<now, request, storage, signIn, callDue, lease, answer, network, history>>

(* The end of the body: the handler does not look at the signal before it  *)
(* calls the policy, and the policy calls the object.                      *)
BodyRead(r) ==
    /\ handler[r] = "reading"
    /\ handler' = [handler EXCEPT ![r] = "authorizing"]
    /\ callDue' = [callDue EXCEPT ![r] = now + CALL_MS]
    /\ calls' = calls \cup {<<"authorize", r>>}
    /\ UNCHANGED <<now, request, storage, signIn, deadline, lease, answer, replies, history>>

(* The finally blocks of capability(): a lease it knows of is finished. *)
AnswerWith(r, value, leased) ==
    /\ answer' = [answer EXCEPT ![r] = value]
    /\ deadline' = [deadline EXCEPT ![r] = None]
    /\ calls' = IF leased THEN calls \cup {<<"finish", r>>} ELSE calls

(* The handler returns; after the deadline nobody waits for it. *)
HandlerReturns(r, value, leased) ==
    /\ handler' = [handler EXCEPT ![r] = "done"]
    /\ callDue' = [callDue EXCEPT ![r] = None]
    /\ IF answer[r] = None
       THEN AnswerWith(r, value, leased)
       ELSE UNCHANGED <<answer, deadline, calls>>

BodyRejected(r) ==
    /\ handler[r] = "reading"
    /\ HandlerReturns(r, "denied", FALSE)
    /\ UNCHANGED <<now, request, storage, signIn, lease, replies, history>>

(* callState gives up: the policy refuses. *)
CallTimesOut(r) ==
    /\ handler[r] = "authorizing"
    /\ callDue[r] <= now
    /\ HandlerReturns(r, "denied", FALSE)
    /\ UNCHANGED <<now, request, storage, signIn, lease, replies, history>>

Refused(r) ==
    /\ handler[r] = "authorizing"
    /\ <<"refused", r>> \in replies
    /\ replies' = replies \ {<<"refused", r>>}
    /\ HandlerReturns(r, "denied", FALSE)
    /\ UNCHANGED <<now, request, storage, signIn, lease, history>>

(* Mutant: the handler does not look at the signal after the policy. *)
LeasedUnchecked(r) ==
    /\ handler[r] = "authorizing"
    /\ <<"leased", r>> \in replies
    /\ replies' = replies \ {<<"leased", r>>}
    /\ lease' = [lease EXCEPT ![r] = TRUE]
    /\ handler' = [handler EXCEPT ![r] = "exchanging"]
    /\ callDue' = [callDue EXCEPT ![r] = None]
    /\ UNCHANGED <<now, request, storage, signIn, deadline, answer, calls, history>>

(* The policy allows: the exchange with the issuer begins, unless the      *)
(* deadline has passed, and then nobody finishes the lease.                *)
Leased(r) ==
    /\ handler[r] = "authorizing"
    /\ <<"leased", r>> \in replies
    /\ replies' = replies \ {<<"leased", r>>}
    /\ lease' = [lease EXCEPT ![r] = TRUE]
    /\ IF answer[r] = None
       THEN /\ handler' = [handler EXCEPT ![r] = "exchanging"]
            /\ callDue' = [callDue EXCEPT ![r] = None]
            /\ UNCHANGED <<answer, deadline, calls>>
       ELSE HandlerReturns(r, "denied", TRUE)
    /\ UNCHANGED <<now, request, storage, signIn, history>>

(* The issuer's answer, a failure of it or the client's own time-out. *)
IssuerAnswers(r) ==
    /\ handler[r] = "exchanging"
    /\ \E value \in {"granted", "denied"} : HandlerReturns(r, value, TRUE)
    /\ UNCHANGED <<now, request, storage, signIn, lease, replies, history>>

(* Mutant: the timer only aborts the handler. *)
DeadlineOnlyAborts(r) ==
    /\ deadline[r] # None
    /\ deadline[r] <= now
    /\ deadline' = [deadline EXCEPT ![r] = None]
    /\ UNCHANGED <<now, request, storage, signIn, handler, callDue, lease, answer,
                   network, history>>

(* The 20 s timer: the abort ends an exchange with the issuer, but not the *)
(* reading of a body or a call to the object.                              *)
DeadlineFires(r) ==
    /\ deadline[r] # None
    /\ deadline[r] <= now
    /\ AnswerWith(r, "denied", lease[r])
    /\ handler' = [handler EXCEPT ![r] = IF @ = "exchanging" THEN "done" ELSE @]
    /\ UNCHANGED <<now, request, storage, signIn, callDue, lease, replies, history>>

(* The Worker dies with its timers and its exchange; its calls stay. *)
WorkerDies(r) ==
    /\ handler[r] \notin {"idle", "done"}
    /\ handler' = [handler EXCEPT ![r] = "done"]
    /\ deadline' = [deadline EXCEPT ![r] = None]
    /\ callDue' = [callDue EXCEPT ![r] = None]
    /\ answer' = [answer EXCEPT ![r] = IF @ = None THEN "lost" ELSE @]
    /\ UNCHANGED <<now, request, storage, signIn, lease, network, history>>

(* The network loses a call. *)
CallLost(call) ==
    /\ call \in calls
    /\ calls' = calls \ {call}
    /\ UNCHANGED <<now, request, storage, signIn, worker, replies, history>>

TimerDue(r) ==
    \/ deadline[r] # None /\ deadline[r] <= now
    \/ callDue[r] # None /\ callDue[r] <= now

Tick ==
    /\ now < MaxTime
    /\ \A r \in Requests : ~TimerDue(r)
    /\ now' = now + 1
    /\ UNCHANGED <<request, storage, signIn, worker, network, history>>
----------------------------------------------------------------------------
Capability(r) ==
    \/ Start(r) \/ BodyRead(r) \/ BodyRejected(r)
    \/ CallTimesOut(r) \/ Refused(r) \/ Leased(r)
    \/ IssuerAnswers(r) \/ DeadlineFires(r) \/ WorkerDies(r)

Next ==
    \/ \E s \in Sessions : SignInFails(s) \/ LoginAllow(s) \/ Create(s)
    \/ \E r \in Requests : Capability(r) \/ Authorize(r) \/ Finish(r)
    \/ \E call \in calls : CallLost(call)
    \/ Tick

Spec == Init /\ [][Next]_vars

(* Time passes and due timers fire; nothing else needs to happen. *)
Fairness ==
    /\ WF_vars(Tick)
    /\ \A r \in Requests : WF_vars(DeadlineFires(r)) /\ WF_vars(CallTimesOut(r))

FairSpec == Spec /\ Fairness
----------------------------------------------------------------------------
(* Properties.                                                             *)

(* "one active exchange per session" (hosted-fixture/README.md:29-30): no two *)
(* requests of a session talk to the issuer at once, although a lease may  *)
(* expire, its reply may be lost and its finish may come late.             *)
OneExchangePerSession ==
    \A q, r \in Requests :
        /\ handler[q] = "exchanging" /\ handler[r] = "exchanging"
        /\ request[q].session = request[r].session
        => q = r

(* What is exchanged with the issuer was charged, its submission is bound  *)
(* to this session and this content (README.md:26-28), and nobody has been *)
(* answered yet, although a lease may be granted late (capability.ts:65).  *)
ExchangeIsBound ==
    \A r \in Requests : handler[r] = "exchanging" =>
        /\ chargedAt[r] # None
        /\ binding[request[r].submission] =
               [session |-> request[r].session, digest |-> request[r].digest]
        /\ answer[r] = None

(* A binding, once stored, is never changed or removed (README.md:26-28). *)
BindingsAreFinal ==
    [][\A m \in Submissions : binding[m] # None => binding'[m] = binding[m]]_vars

(* What a request asks to be bound. *)
Asked(r) == <<request[r].submission,
              [session |-> request[r].session, digest |-> request[r].digest]>>

(* A charge is a confirmed write of the submission's register. *)
Register == INSTANCE BindingRegister WITH
    Keys <- Submissions,
    stored <- binding,
    lasting <- binding,
    anchored <- TRUE,
    confirmed <- {Asked(r) : r \in {q \in Requests : chargedAt[q] # None}},
    matched <- {}

(* The object's storage implements the register that README.md:26-29       *)
(* describes: however leases expire and calls come late, a request is      *)
(* charged only for the content its submission was first bound to.         *)
BindsOnce == Register!Spec

(* A lease that has not expired is taken from nobody: it goes only when    *)
(* its own request was answered, never by a late finish of another one     *)
(* (state.ts:134).                                                         *)
LeaseIsNotStolen ==
    [][\A s \in Sessions :
          session[s] # None /\ session[s].active # None =>
              LET held == session[s].active IN
              session'[s].active # held => held.until <= now \/ answer[held.token] # None]_vars

ChargedIn(s, t) ==
    {r \in Requests : /\ request[r].session = s
                      /\ chargedAt[r] \in t .. (t + RATE_WINDOW_MS - 1)}

AttemptedIn(t) == {s \in Sessions : attemptedAt[s] \in t .. (t + RATE_WINDOW_MS - 1)}

(* Windows are fixed, so a minute may see the end of one and the beginning *)
(* of the next, but never more than two budgets (state.ts:101-117).        *)
TwoBudgetsAtMost ==
    \A s \in Sessions, t \in 0 .. now : Cardinality(ChargedIn(s, t)) <= 2 * RATE_LIMIT

(* The sign-in attempts of the whole fixture share one window, which opens *)
(* with an attempt and not with a session: a minute may see all the others *)
(* of one window and the whole of the next (state.ts:38-51).  And          *)
(* a session exists only for an attempt that was admitted.                 *)
SignInsAreLimited ==
    /\ \A t \in 0 .. now : Cardinality(AttemptedIn(t)) <= 2 * RATE_LIMIT - 1
    /\ \A s \in Sessions : session[s] # None => attemptedAt[s] # None

(* "at most eight authorized requests per session per minute"              *)
(* (hosted-fixture/README.md:29).                                          *)
OneBudgetPerMinute ==
    \A s \in Sessions, t \in 0 .. now : Cardinality(ChargedIn(s, t)) <= RATE_LIMIT

(* "Operator sign-in is also limited to eight attempts per minute across   *)
(* this staging fixture" (hosted-fixture/README.md:33-34).                 *)
OneSignInBudgetPerMinute == \A t \in 0 .. now : Cardinality(AttemptedIn(t)) <= RATE_LIMIT

(* Every request whose Worker lives is answered, although the body, the    *)
(* object and the issuer need not settle.                                  *)
EveryRequestAnswered ==
    \A r \in Requests : handler[r] # "idle" ~> answer[r] # None
============================================================================
