# A verification development for the BugDrop SDK

The SDK lets a browser widget obtain a short-lived *submission capability* from
an issuer: a browser package loads the hosted widget and gives it a token
callback, a server package turns a browser's request into one exchange with the
issuer, and the examples wrap both with sessions, budgets and rate limits. This
directory models those parts in TLA+, checks the models with TLC and proves
what matters most with TLAPS. `src/` below is the repository.

## The system

| component | state | operations | what is hard |
|---|---|---|---|
| capability adapter (`packages/server/src/adapter*.ts`) | per invocation: an AbortController, a timer, the request body, the leased issuer body, one diagnostic | the handler: envelope, body, binding, policy, client, issuer, capability | a race of the exchange with a deadline and a disconnect; the loser keeps running after the answer |
| server client (`index.ts`, `api-key.ts`) | the caller's signal and the response body | `createSubmissionToken` | a body that is cut, an abort between awaits |
| browser loader (`packages/browser/src/loader.ts`, `opt-in.ts`) | module variables, a promise, a timer and a script element per load, hooks on `window`, spent reports | `init`, load and error events, time-out, token callback | reentry, late scripts, a shared global and a shared event, late callbacks |
| browser token provider (`token-provider.ts`, and `transport.ts` of two examples) | a controller, a timer and a reader per call | the provider callback | a time-out or the page's abort racing a late response; a cut body that reads as a whole one |
| Node wrapper (`node.ts`) | a controller and a reporter per request | request, disconnect, write of the answer | a disconnect at any step, a write that throws |
| opt-in exchange (`opt-in*.ts`, `examples/opt-in-backend/handler.ts`) | a cell with reader and chunks, a monotonic start, a timer | handler, request, exchange, confirmation | settlement after the seal, a late timer, verification that crosses the seal, a wall clock that is set |
| contract types (`packages/contracts`) | none | parsing, expiry window | boundaries of the window |
| hosted fixture (`examples/hosted-fixture`) | sessions, bindings, leases and rate windows in a Durable Object | login, authorize, finish | lost replies, expired leases, window boundaries |
| v1 backend (`examples/v1-backend`) | files of sessions and bindings, a lock file, a gate | issue, authorize, start, stop | crashes between write, rename and sync; concurrent authorizations; a stop beside one |
| staging tooling (`scripts/staging`) | the record of the SDK calls and the observer lease of each scenario; the safety bridge's `active` and `stopped`; a worker process | call, read, drain, close, start the next scenario | abandoned calls, requests admitted late, overlapping commands, closes that fail or come twice |
| small examples, integration scripts | none of their own | | |

The browser loader calls the customer's token callback; that callback (the
token provider, or the customer's own) reaches the customer's server; the Node
wrapper or the platform calls the adapter's handler; the handler calls the
customer's policy, the request authenticator and, through the client, the
issuer. Nothing but messages is shared between browser and server. Within the
browser the shared state is `window`; within the fixture it is the Durable
Object's storage; within the v1 backend it is a directory.

Correctness, per component: the adapter answers each invocation once, in time,
truthfully, with one final diagnostic, contacts the issuer only while it is
open, and leaves nobody reading a stream behind it; the loader has one live load, lets tokens
through it only and asks an opt-in report once; the fixture exchanges one
request of a session at a time, within its budgets; the fixture and the v1
backend allow a submission for one content; the token
provider hands on only a capability it has read whole, is answered by its
deadline and cancels what settles late; the opt-in exchange grants before its
seal only, grants what is honest, and releases everything at the seal; the Node
wrapper writes what was decided, once, to a response that is open; a staging run
passes only on evidence that is all there is.

## The modules

### `CapabilityAdapter`

One invocation of the handler. `pc` is the await at which `exchange()` is
suspended, and each action of `Exchange` is the code from that await to the
next, with the `catch` that every failure goes through (`Catch`).
`DeadlineFires` and `RequestAborts` are the two callers of `end()` (`End`).
`Settle` is the `finally` block behind `Promise.race`. `winner` is the race's
result and `answer` what the caller received. The request body is
`requestBody`. The `catch` cancels it unless it is locked (`adapter.ts:133`), and it
is locked without a reader when its declared length is refused
(`adapter-body.ts:49`), because the bounded request (`adapter.ts:82`) took it: such a
body stays "locked" for good, neither read nor cancelled, and
`NothingHeldAfterAnswer` says that this is the only one and that the policy, the
issuer and their bodies were not reached then. The issuer's body behind its lease is
`issuerBody`, which `IssuerBodyEnds` and `IssuerBodyBreaks` drive and `CloseLease`
closes. `Emit` is
the reporter's latch. Data are abstracted: a body is acceptable or not, a
status is ok or not. Validation of the handler's options at construction and
the building of URLs and headers are left out, because nothing that follows
depends on how they are done.

### `BoundedAnswer`

What an invocation promises, in seven actions: at most one contact, none after
closing; a grant only when open and contacted; every invocation is answered.
Four implementations are shown to keep it, each under its own refinement mapping:
the handler (`CapabilityAdapter!Promise`, in which an answer of a disabled handler
is a denial), the handler with its wrapper (`NodeAdapter!NodePromise`, in which a
request that the wrapper refuses is denied), a page's call
(`TokenProvider!Promise`) and, as to safety, a request to the opt-in backend
(`OptInExchange!Promise`, whose handler denies and answers in one step, and whose
transport may throw as it is called: `Refuse` and `ContactFails`). The opt-in
handler waits for its policy and for the request's body without a deadline, so
that it promises no answer.

### `BindingRegister`

What both example backends promise about a submission: a register that is written
once. `stored` is what a read finds and `lasting` what is there for good;
`Confirm` answers a client that its content is there for good, `Match` that it was
found there. `LoseSome` is a crash, which takes only what was not lasting;
`LoseStore` is a crash that takes everything, possible until the store that holds
the registers is `anchored`, as a crash that it survives leaves it.
`HostedFixture!BindsOnce` maps the first two variables to the object's bindings, whose
transactions are durable, takes the store for anchored, and maps a charge to
`Confirm`. `LoopbackPolicy!BindsOnce` maps them to what is visible in `bindings/` and
what was synced there: a rename is `Store`, a sync is `Confirm` (of everything in the
folder), a read that finds the request's own binding is `Match`, and a power loss is
`LoseSome`, or `LoseStore` when it takes the folder, which is anchored once a power
loss has left it.

### `NodeAdapter`

One HTTP request to the handler, on a fetch platform that calls it directly or
through the Node wrapper. `wrapper` is the await at which the wrapper is
suspended: `NodeDisabled`, `NodeRefuses` and `NodeInvokes` are the branches up to
the handler's call, `HandlerAnswers` is its return, `Write` and `WriteThrows` are
`write()` behind its own await and the `catch` block. `Disconnect` is `aborted` of
the request and `close` of the response, while the wrapper listens to them. The
wrapper has a latch of its own (`nodeDiagnostic`).

### `TokenProvider`

One call of a page's token provider, packaged or of an example: the v1 one has
the deadline but no page signal, the opt-in one has neither. `exchange()` and
`deadline` race as in the adapter; `Refuse` is everything before the transport,
`LateResponse`, `BadResponse` and `GoodResponse` are the code behind the fetch,
`BodyEnds` and `BodyFails` the reading loop and the check behind it.

### `CapabilityPath`

A page's call, the network, and the handler with its wrapper. The two sides
share no state; the path adds that the page's request has to be sent before it
is received, and that a status of 200 with a capability's headers comes from the
handler. A request or a response may be lost or late, a proxy may answer with a
failure, and a page that went away leaves the handler running.

### `OptInExchange`

One request to the opt-in backend: `RefuseEnvelope` to `Answer` are its handler,
`Send` is `request()` and the beginning of `exchange()`, and `Received`,
`ChunkArrives`, `BodyEnds`, `ReadFails`, `TransportFails` and `TimerFires` are the
callbacks of `lifecycle()` with its `finish`. `now` is the monotonic clock,
`now + offset` the server's wall clock, which `SetClock` may set at any time, while
the service stamps with `now`. A due timer may be late, and `BodyEnds` lets time
pass while the confirmation is verified. `Confirms` and `Usable` are the time
windows of `opt-in-protocol.ts` and of the contract; digests, signature and
grammar are the difference between this attempt's confirmation and anything
else. The model's service lets a capability live as long as it may, which puts
`Usable` at its upper end.

### `StagingRun`

A staging run: the worker and its parent, conformance scenarios in a row, and the
external runner's scenarios through the bridge. Per scenario, `attempts`,
`sealed` and `incomplete` are the record of `attempts.mjs` (each call with the fate
of its request), `busy`, `reply`, `previous`, `failed` and `closed` the observer
lease, `closing` the progress of `close()`. `log` is what the service admitted:
`Admit` may come at any time after a request was sent, also after its call
failed, timed out or was abandoned. `CallAnswered` includes a 403 that comes from
before the admission. `CloseService` closes the lease when the drain is over
(`Drained`) or has lasted two seconds (`DrainTimesOut`). The runner may call the
bridge in any order, close again (`CloseAgain`), and be killed with the worker
(`ChildEnds`). How a scenario's provider wires the lease to `evidence`,
`readExchangeCount` and `close` is external and follows the repository's test
double. Left out: a second close that overlaps the first, which the lease refuses,
so that it ends as failed and stops the bridge; the expiry of a lease, signatures, the report's contents, and a
scenario whose opening fails after its service started, where the close changes
nothing that is read again.

### `BrowserLoader`

All the loads of one page. `BeginInit`/`EndInit`/`InitThrows` are the call to
`initialize`, split because code called from inside it may run (the only
interleaving JavaScript allows in it). `ScriptRuns` is the script itself and
`ScriptLoaded` its load event, which is the browser's next task: between the two
only reactions run, and no other script (`NextEvent`; `executing` names the script
whose load event is next); that event, `ScriptErrors` and
`LoadTimesOut` are the ways a load ends, through `Finish` and `Fail`;
`Reset` is the reaction that `initialize` put on the promise. A removed script
still runs: a load stays in `fetching` when it fails. `DirectAdded` and
`DirectInstalls` are a widget installed without the SDK. `AskToken` and
`TokenAnswered` are the two halves of the token hook, with the spent reports of
the opt-in entrypoint. `MaxAsks` bounds the callbacks outstanding at one time.
Left out: option validation, and DOM methods that throw after the script's
source was assigned.

### `HostedFixture`

The Durable Object's transactions (`LoginAllow`, `Create`, `Authorize`, `Finish`)
and the Worker's capability route: `Start` arms the 20 s timer, `BodyRead` calls
the object, `Leased` begins the exchange with the issuer, and `AnswerWith` is
the pair of `finally` blocks, which finishes a lease only if the Worker knows of
it. `handler` is the await at which the handler of a request is; it goes on
after `DeadlineFires` answered. A session stands for one sign-in attempt. Calls
and replies are sets of messages: a call may be handled at any time after its
caller gave up (`CallTimesOut`), a call or a reply may be lost, and `WorkerDies`
ends a request with its timers but not its calls. Time is discrete, and a due
timer fires before `Tick`: a Worker that runs late by more than the second between
the deadline (20 s) and the lease's end (21 s) is outside the model. The CSRF token is
an input of `Authorize`. The lease's random token is the request that made the
call, as each makes one. `chargedAt` and `attemptedAt` record the past. Left
out: the pages, the look-up of a session, which changes nothing, and the cookie
of the self-service binding.

### `LoopbackPolicy`

All the instances of the loopback server on one directory; a restart is another
instance. `file` is what a read finds and `durable` what a power loss is sure to
leave in a folder that it leaves. `folder` says of `sessions/` and `bindings/` whether
the folder is absent, made, or on the disk for good: a start makes it (`MakeFolder`)
and nobody syncs its entry in the state directory (`loopback-policy.ts:51-52`), so a
power loss may take it with all it holds, synced or not; one that leaves it has shown
it to be on the disk. `lost` records the acknowledged jobs whose folder was taken.
`TakeLock`, `StartRefused`, `StartFails` and `Listen` are the start,
`BeginClose` and `Release` are `close()`, `Exit` is a kill or the exit after a
close, `OperatorUnlocks` is the manual step the README of the example asks for.
A job is a page that issues a session or a capability request. `gate` is the
chain of promises, as a queue. `WriteTemporary`, `Rename` and `SyncDirectory` are
`durableWrite`, and `OperationFails` is a failure of any file operation, after
which the turn passes on (`Leave`) and a renamed file stays. The clients in
`Impatient` may leave before the answer; their jobs go on. A request arrives with
a session that was handed out, because its name is 32 random bytes. An answer ends
its connection: the keep-alive of idle connections, which `close()` ends, is not
modelled. Left out: temporary files, which are random and never read, the exchange with the local
issuer stub, and the pages of the server.

## What TLC checks

| run | bounds | shows |
|---|---|---|
| `path` | one call of each provider, one invocation on each platform, one status of each class, both modes | capabilities are earned and whole, answers and diagnostics are true and final, what is written was decided, nothing is left open, and handler and page implement `BoundedAnswer` with its liveness |
| `loader` | three loads of one Application in both modes, two callbacks outstanding | one live load, tokens only through it, opt-in asks once; a load settles, a failed one frees the page |
| `loader_own_api` | two loads, two Applications | **violated**: a controller adopts an API its script did not install |
| `fixture_lease` | one session, three requests, two digests, budget 1, lease 2 > deadline 1, clock up to 3 | one exchange at a time, bound and unanswered; the bindings implement `BindingRegister`; an unexpired lease is not taken; two budgets at most |
| `fixture_answers` | four sign-ins, one request, budget 2, window 2, clock up to 2 | sign-ins keep to two budgets less one; a request is answered whatever does not settle |
| `fixture_minute` | two requests, clock up to 3 | **violated**: a minute sees more than one budget of a session's requests |
| `fixture_sign_ins` | four sign-ins, budget 2, window 2, clock up to 3 | **violated**: a minute sees more than one budget of sign-ins |
| `loopback` | two instances, a sign-in, two requests, two digests, two power losses | one instance decides, the directory implements `BindingRegister`, synced files survive as long as their folder does; an authorization is decided, a stop ends |
| `loopback_changed` | two instances, three requests, one power loss | **violated**: a submission is allowed for two contents, the first of which was lost with `bindings/` |
| `loopback_stray` | two instances, two requests whose clients may leave | **violated**: two instances decide at once |
| `opt_in` | seal 2, allowance 1, intent 4, lifetime 3, skew 2, offsets -2 to 2, clock up to 5 | a grant is confirmed and in time, the seal releases, an honest answer is granted, what was sent is answered |
| `staging` | one conformance and two safety scenarios, with 1, 2 and 0 calls and 1, 1 and 0 reads | evidence is whole, the next window is clean, a close ends |

The bounds are enough because an invocation shares nothing with another, and the
adapter distinguishes only ok and other statuses; and because the hazards of
the loader are between a load, its failed predecessor and a direct
installation: three loads give a failed one, a retry of it and a retry of the
retry. In the fixture a lease concerns its holder, its successor and a late
message of a third; with a budget of one, three charges are one more than the
two windows around a boundary allow; the sign-in window opens with an attempt, so
that a budget of two admits three around a boundary and a fourth is the first too
many. The request of `fixture_answers` is of one given session, because sessions are
interchangeable (`SameSessionInit`). The clock covers a lease, its successor's in the
next window, and the end of a session. Two sessions that compete for one submission are beyond these bounds and are covered by the proofs
`BoundExchange` and `RegisterRefinement`. In the loopback server two instances are a
holder and one that is refused, or takes over; one power loss takes a folder, or shows
that it stays, for the other; two requests are one that writes
a binding and one that reads it or competes; the three of `loopback_changed`
leave room for either way of the fourth finding, of which one needs a denied request. In the opt-in exchange the
offsets reach beyond the allowance on either side, and two units before the seal
allow a response, a late timer and a verification that crosses it. In the
staging run two calls are one that the evidence covers and one that is abandoned;
the scenario without calls is the one that must not start on a dirty window.
Deadlock checking is off: an answered invocation, a page without loads left, a
clock at its bound, stopped instances and a finished run really stop.

**Fairness.** The path: the call itself, the due timers and the reaction to a
decided race on both sides, the wrapper's write, and that some request arrives at
the handler; these are the event loops' work. The loader: `init` returns, its timer
fires, a script that ran has its load event, a queued reaction runs. The fixture:
time passes and the due timers of a living Worker fire. The loopback server: a
file operation ends, well or badly, a body is read or cut by the socket's timer, an
answer is written, and `close()` goes on when the connections have ended. The
opt-in exchange: time passes, a due timer fires (late, perhaps), and a settled
promise's reaction runs. The staging run: the drain's and the observer's timers of
two seconds. Nothing is assumed of a policy, a body, the authenticator, the
network, a widget, the admission service, the observer, the external runner or a
customer's callback: none of them needs to settle, and the properties hold although
they do not. The opt-in example's page transport has no deadline, so
`PageKeepsPromise` claims no answer for it.

**The findings.**

1. A test says the controller "captures only its own script API"
   (`test/browser-opt-in-lifecycle.test.ts:50`). `finish` (`loader.ts:192`) adopts
   whatever `window.BugDrop` is when the script's load event fires, and that event
   fires also for a script that threw before it installed anything, beside a
   direct installation or a removed script that ran late.
2. The fixture's README says a session has "at most eight authorized requests ...
   per minute" (`examples/hosted-fixture/README.md:29`). The window is fixed
   (`state.ts:101`): two budgets fit around its end. `TwoBudgetsAtMost` is the bound
   that holds.
3. It also says that operator sign-in "is also limited to eight attempts per minute
   across this staging fixture" (`examples/hosted-fixture/README.md:33-34`). That
   window is fixed, too, and opens with its first attempt (`state.ts:43`): seven more at
   its end and eight at the beginning of the next fit into one minute.
   `SignInsAreLimited`, two budgets less one, is the bound that holds.
4. The example's README says a binding is "a synced file" and that another
   content is rejected (`examples/v1-backend/README.md:88-90`). The file and `bindings/`
   are synced, but not the entry of `bindings/` itself (`loopback-policy.ts:52`): a
   power loss soon after the first start may take the folder with bindings that were
   acknowledged, and another content is allowed then. That is the run's trace. A
   binding that was renamed but not synced, because the sync failed or the program was
   killed, is another way: it allows the next request (`loopback-policy.ts:99`) and may
   be lost. Without a power loss the claim holds (`OneContentWhilePowered`, the
   theorem `OneContent`), and a binding acknowledged by its own sync is lost only with
   its folder (`InsertedSurvives`).
5. It also says the directory is "single-process locked" (line 90). `close()` waits for
   connections, not for policies (`loopback-server.ts:144`): a request whose client
   left may still decide when the next instance has the lock. It holds if clients
   wait for their answer.

## What is proved

`CapabilityAdapter_proofs` proves, for every set of statuses, the type invariant
and each safety property of the handler, and that every behaviour satisfies
`BoundedAnswer`'s safety part (`KeepsPromiseSafely`). The properties are not
inductive: they need to know where `exchange()` is. `IInv` adds `RaceInv` (the race
is decided exactly when the controller is aborted or `exchange()` has returned),
`ProgressInv` (what has been done at each await), `ReadingInv` (who may be reading a
body) and `DiagnosticInv` (a diagnostic exists exactly when a denial was decided,
and agrees with the issuer's state) and `LockedInv` (a body that stays locked was
diagnosed first, as a failure of the body). The assumptions are that the two classes of
statuses are disjoint and that `None` is neither a status, an outcome nor a
diagnostic.

`TokenProvider_proofs` proves of a single call, whichever its provider, that a grant
was read whole (`WholeGrants`), that a settled call holds nothing and that it keeps
`BoundedAnswer`'s safety part, from `Race` and `Reading`, the counterparts of
`RaceInv` and `ReadingInv`.

`CapabilityPath_proofs` composes them. A step of the path is a step of the handler or
a step of the call, or neither (`PathHasHandler`, `PageStep`), so both invariants
carry over; `WrapperInv` and `AnswerInv` say what the wrapper knows of the handler at
each of its awaits, and `ResponseInv` that a page reads only what was served. From
them follow the properties of the path: a page's capability was granted by the
handler after policy and issuer (`PathEarned`), what is written was decided and
reported (`WrittenAsDecided`), and the handler with its wrapper keeps the promise
(`NodeKeepsPromiseSafely`).

`OptInExchange_proofs` proves all three safety properties of the exchange and the
action property `HonestAnswerIsGranted`, for every length of the windows that
satisfies `TimeAssumption` (the intent outlives the seal by twice the allowance, a
capability outlives the seal, the skew exceeds the allowance: the code's 60 s, 8 s,
5 s, 5 min and 30 s do). The invariant orders the stamps (`sentAt`, `reservedAt`,
`admittedAt`, `now`) and ties the cell to the timer and the reader.
`KeepsPromiseSafely` shows that the request implements the safety part of
`BoundedAnswer`; `AnswerInv` adds what that needs: nothing is aborted before the
exchange failed, and while it is under way the handler waits for it.

`BrowserLoader_proofs` proves, for any number of loads, Applications and
submissions, that at most one load is live and is the active one, that an opt-in
report is asked once, that a load is ready only after its script ran, that a
settled load stays as it is, and that a token is handed only to the active
load's widget. The invariant is `LoaderInv`: an active controller is the only live
load or a failed one whose reaction is queued (`OneLoadInv`), a report's asks are
counted by `attempted` (`SpentInv`), and only a script that `init` requested runs
and asks for tokens, while a hook is active only for a live load or one whose
`init` threw (`HookInv`).

`HostedFixture_proofs` proves, for any number of sessions, requests and
submissions and all time limits with `DEADLINE_MS < LEASE_MS`, the type invariant,
that a session exchanges one request at a time, only what was charged and bound,
and nothing after its answer, that bindings are final, that an unexpired lease is
lost only after its own request was answered, and the safety core of
`EveryRequestAnswered`: a deadline is never passed unanswered and never moved
(`AnsweredInTime`). `FixtureInv` adds
`TimerInv` (an unanswered request has a timer that is not overdue), `CallInv` (one
`/authorize` per request, and a finish only after the answer), `ChargeInv` (an
unanswered charged request holds its session's lease, which outlives its
deadline) and `SignInInv` (a session is created once).

The two counts, of a session's charges and of all sign-ins, are proved there from
one invariant, `CountInv`, for any positive budget and window. That no minute sees
more than two budgets is not inductive: it needs that the open window's counter
covers every stamp since it opened, that the counter is within the budget, and that
the minute before the opening held one budget at most. A new window opens at least a
window's length after the last one, so the minute before it holds only what the last
counter covered (`ChargeCounted`); a minute that straddles the opening is then the
union of two sets of at most one budget (`AtMostBoth`). `TwoBudgets` follows. A
sign-in window opens with an attempt (`OpenedInv`), so that the minute before the next
window holds at most a budget less that attempt: `LimitedSignIns` has the sharper
bound, two budgets less one. A session's window also opens at its
creation, which is no charge, so that two whole budgets fit there.

`RegisterRefinement` shows that the bindings implement `BindingRegister`: a granted
`Authorize` is a `Confirm`, and every other step leaves the register alone.

`LoopbackPolicy_proofs` proves, for any number of instances, sessions, requests and
power losses, that the lock has one holder and that sessions handed out survive as
long as their folder does;
and, under the hypothesis that the clients of capability requests wait for their
answers, that one instance decides at a time, that synced bindings survive power
losses that leave their folder, and that a submission has one content until the first power loss. The
hypothesis is necessary: `loopback_stray` shows what happens without it.
`LoopbackInv` adds `FolderInv` (a folder that is absent holds no file, nobody
serves without it, and nothing is lost before the first power loss), `JobInv` (a job whose client waits belongs to an instance that
has not closed), `LockInv`, `GateInv` (who decides is at the head of the queue) and
`BindingInv` (a request about to write is still right that there is no binding),
so that with the lock and the gate a single request decides (`DecidesAlone`).
From it and `VerdictInv` (only a decided job has a verdict) follows, under the same
hypothesis, that the directory implements `BindingRegister` (`RegisterRefinement`):
the only request that decides renames where there is no binding, and what it synced
is its own. Without any hypothesis an answer is decided once (`FinalVerdicts`), and the
gate is never lost (`GateIsNeverLost`): `QueueInv` says that whoever is in an
instance's queue is at its gate, and there once, so that the first of them waits or
decides and the turn is never with a request that is gone. That is the safety core of
`EveryAuthorizationDecided`.

`StagingRun_proofs` proves, for any scenarios, calls and reads, that a scenario closed
well has seen all that was admitted, that a run passes only on evidence that is
whole (`WholeEvidence`), and that a safety scenario starts only after those before it
have come to rest (`CleanWindow`). A step belongs to one scenario and leaves the
others alone (`OthersSame`), so the invariant is one per scenario: `RecordInv` (a call
with a verdict left no request behind, and sealing a record over a pending call makes
it incomplete, so a complete record is quiet), `LeaseInv` (one command at a time,
none after the close), `AcceptedInv` (accepted evidence stays true) and `ClosingInv`
(the answer to the close is all that was admitted). `WorkerInv` adds that at most one
safety scenario is not closed well unless the bridge is stopped.

All modules assume that `None` is not one of the values it stands apart from;
`LoopbackPolicy` also that sessions are neither requests nor submissions, and
`HostedFixture` that the budget and the window are positive (8 and 60 000 ms in the
code).

Every invariant and every action property of the passing runs, and the safety part of
every refinement, is proved, in `LoopbackPolicy` for clients that wait. Only model-checked is what holds under fairness, which
TLAPS does not reach: the liveness properties (`EveryLoadSettles`,
`EveryRequestAnswered`, `EveryAuthorizationDecided`, `StoppingEnds`, `SentIsAnswered`,
`CloseEnds`) and the liveness parts of `KeepsPromise` and `PageKeepsPromise`. The safety
part of the promise of an opt-in request is proved only: no run lists it.

## Not modelled

The integration scripts and the two consumer examples keep no state. The parsers of
the contracts and of the opt-in protocol are pure functions of one message: they
appear as the choice between a fit and an unfit answer. `backend-binding.ts` keeps its
state in a cookie of the browser, encrypted, and the server none. Option validation
runs once, before anything the models describe.

## Plan

1. The cookie of the self-service binding (`backend-binding.ts`) with the Worker's
   routes that read and replace it.
2. A lease with one holder as an abstract specification of its own, which
   `HostedFixture` implements; so far its two parts are `OneExchangePerSession` and
   `LeaseIsNotStolen`.
3. The safety cores of the liveness properties that have none yet: `EveryLoadSettles`,
   `StoppingEnds` and `CloseEnds`.
