--------------------------- MODULE LoopbackPolicy ---------------------------
(***************************************************************************)
(* The loopback fixture of the V1 backend (examples/v1-backend):           *)
(* loopback-policy.ts, which keeps sessions and bindings as synced files   *)
(* of a directory locked by a file, and loopback-server.ts, which starts,  *)
(* serves and stops.  An instance is one call of startLoopback: a restart  *)
(* is another instance on the same directory.                              *)
(*                                                                         *)
(* A job is a page that issues a session or a capability request.  `file'  *)
(* is what a read of the directory finds, `durable' what a power loss is   *)
(* sure to leave in a folder that it leaves: a synced folder keeps its     *)
(* files, but nobody syncs the entry of the folder itself.  Temporary      *)
(* files have random names and are never read; they are left out.          *)
(***************************************************************************)
EXTENDS Naturals, Sequences

CONSTANTS
    None,
    Instances, Sessions, Requests, Submissions, Digests,
    Impatient,     \* the jobs whose connection may end before the answer
    MaxLosses      \* bound on power losses

Jobs == Sessions \cup Requests
Files == Sessions \cup Submissions
Folders == {"sessions", "bindings"}
Contents == [session : Sessions, digest : Digests \cup {None}]

ASSUME LoopbackAssumption ==
    /\ Impatient \subseteq Jobs
    /\ MaxLosses \in Nat
    /\ Sessions \cap Requests = {}
    /\ Sessions \cap Submissions = {}
    /\ None \notin Contents \cup Instances
    /\ None \notin {"denied", "matched", "inserted"}

VARIABLES
    request,     \* what each capability request carries
    file, durable,
    folder,      \* absent, made, or rooted: on the disk for good
    lock,        \* active.lock exists
    instance,    \* the state of each instance
    gate,        \* the requests that wait for their turn, the first one has it
    job,         \* the await at which each job is
    at,          \* the instance that serves it
    verdict,     \* how it was decided
    connected,   \* its client's connection is open
    losses,
    lost         \* the acknowledged jobs whose folder a power loss took

files == <<file, durable>>
disk == <<files, folder, lock>>
jobs == <<job, at, verdict, connected>>
vars == <<request, disk, instance, gate, jobs, losses, lost>>

Holding == {"starting", "serving", "closing"}
Deciding == {"reading", "writing", "renaming", "syncing"}
Active == {"identifying", "waiting"} \cup Deciding
Allowed == {"matched", "inserted"}

Target(j) == IF j \in Sessions THEN j ELSE request[j].submission

Content(j) ==
    IF j \in Sessions
    THEN [session |-> j, digest |-> None]
    ELSE [session |-> request[j].session, digest |-> request[j].digest]

(* The folder of a file or of a job's file. *)
Folder(x) == IF x \in Sessions THEN "sessions" ELSE "bindings"

TypeOK ==
    /\ request \in [Requests -> [session : Sessions, submission : Submissions,
                                 digest : Digests]]
    /\ file \in [Files -> Contents \cup {None}]
    /\ durable \in [Files -> Contents \cup {None}]
    /\ folder \in [Folders -> {"absent", "made", "rooted"}]
    /\ lock \in BOOLEAN
    /\ instance \in [Instances -> Holding \cup {"down", "released", "gone"}]
    /\ gate \in [Instances -> Seq(Requests)]
    /\ job \in [Jobs -> Active \cup {"idle", "decided", "dead"}]
    /\ at \in [Jobs -> Instances \cup {None}]
    /\ verdict \in [Jobs -> Allowed \cup {None, "denied"}]
    /\ connected \in [Jobs -> BOOLEAN]
    /\ losses \in 0 .. MaxLosses
    /\ lost \in SUBSET Jobs

Init ==
    /\ request \in [Requests -> [session : Sessions, submission : Submissions,
                                 digest : Digests]]
    /\ file = [f \in Files |-> None]
    /\ durable = file
    /\ folder = [d \in Folders |-> "absent"]
    /\ lock = FALSE
    /\ instance = [p \in Instances |-> "down"]
    /\ gate = [p \in Instances |-> <<>>]
    /\ job = [j \in Jobs |-> "idle"]
    /\ at = [j \in Jobs |-> None]
    /\ verdict = [j \in Jobs |-> None]
    /\ connected = [j \in Jobs |-> FALSE]
    /\ losses = 0
    /\ lost = {}
----------------------------------------------------------------------------
(* An instance.                                                            *)

Moves(p, from, to) ==
    /\ instance[p] = from
    /\ instance' = [instance EXCEPT ![p] = to]

(* active.lock is created exclusively. *)
TakeLock(p) ==
    /\ ~lock
    /\ lock' = TRUE
    /\ Moves(p, "down", "starting")
    /\ UNCHANGED <<request, files, folder, gate, jobs, losses, lost>>

(* It exists already: the start fails and leaves it. *)
StartRefused(p) ==
    /\ lock
    /\ Moves(p, "down", "gone")
    /\ UNCHANGED <<request, disk, gate, jobs, losses, lost>>

(* The directories cannot be made, or the server cannot listen. *)
StartFails(p) ==
    /\ Moves(p, "starting", "gone")
    /\ lock' = FALSE
    /\ UNCHANGED <<request, files, folder, gate, jobs, losses, lost>>

(* The folders are made, sessions/ first, unless they are there. *)
MakeFolder(p, d) ==
    /\ instance[p] = "starting"
    /\ folder[d] = "absent"
    /\ d = "bindings" => folder["sessions"] # "absent"
    /\ folder' = [folder EXCEPT ![d] = "made"]
    /\ UNCHANGED <<request, files, lock, instance, gate, jobs, losses, lost>>

Listen(p) ==
    /\ \A d \in Folders : folder[d] # "absent"
    /\ Moves(p, "starting", "serving")
    /\ UNCHANGED <<request, disk, gate, jobs, losses, lost>>

(* close(): the server accepts no more connections. *)
BeginClose(p) ==
    /\ Moves(p, "serving", "closing")
    /\ UNCHANGED <<request, disk, gate, jobs, losses, lost>>

(* Mutant: the lock is released before the connections have ended. *)
ReleaseEarly(p) ==
    /\ Moves(p, "closing", "released")
    /\ lock' = FALSE
    /\ UNCHANGED <<request, files, folder, gate, jobs, losses, lost>>

(* Its connections have ended: the lock is released.  A job whose client   *)
(* went away goes on, as long as the program does.                         *)
Release(p) ==
    /\ \A j \in Jobs : at[j] = p => ~connected[j]
    /\ Moves(p, "closing", "released")
    /\ lock' = FALSE
    /\ UNCHANGED <<request, files, folder, gate, jobs, losses, lost>>

(* The end of the instances in P, with all they were doing. *)
End(P) ==
    /\ instance' = [p \in Instances |-> IF p \in P THEN "gone" ELSE instance[p]]
    /\ gate' = [p \in Instances |-> IF p \in P THEN <<>> ELSE gate[p]]
    /\ job' = [j \in Jobs |-> IF at[j] \in P /\ job[j] \in Active THEN "dead" ELSE job[j]]
    /\ connected' = [j \in Jobs |-> connected[j] /\ at[j] \notin P]
    /\ UNCHANGED <<request, at, verdict>>

(* The program exits after close(), or is killed before. *)
Exit(p) ==
    /\ instance[p] \in Holding \cup {"released"}
    /\ End({p})
    /\ UNCHANGED <<disk, losses, lost>>

(* What was renamed but not synced may be lost, and so may the lock, and   *)
(* so may a folder whose entry nobody synced, with all that is in it.  A   *)
(* folder that is found afterwards is on the disk for good.                *)
PowerLoss ==
    /\ losses < MaxLosses
    /\ losses' = losses + 1
    /\ End({p \in Instances : instance[p] # "down"})
    /\ \E gone \in SUBSET {d \in Folders : folder[d] = "made"}, kept \in SUBSET Files :
          /\ file' = [f \in Files |-> IF Folder(f) \in gone THEN None
                                      ELSE IF f \in kept THEN file[f] ELSE durable[f]]
          /\ folder' = [d \in Folders |-> IF d \in gone \/ folder[d] = "absent"
                                          THEN "absent" ELSE "rooted"]
          /\ lost' = lost \cup {j \in Jobs : verdict[j] = "inserted" /\ Folder(j) \in gone}
    /\ durable' = file'
    /\ lock' \in {lock, FALSE}

(* The operator removes a stale lock, but only of a stopped fixture. *)
OperatorUnlocks ==
    /\ lock
    /\ \A p \in Instances : instance[p] \notin Holding \cup {"released"}
    /\ lock' = FALSE
    /\ UNCHANGED <<request, files, folder, instance, gate, jobs, losses, lost>>
----------------------------------------------------------------------------
(* A job.                                                                  *)

Goes(j, from, to) ==
    /\ job[j] = from
    /\ job' = [job EXCEPT ![j] = to]

(* The finally block of the policy, whose turn passes on. *)
Leave(j) ==
    gate' = IF j \in Requests THEN [gate EXCEPT ![at[j]] = Tail(@)] ELSE gate

Arrives(j, p, await) ==
    /\ instance[p] = "serving"
    /\ Goes(j, "idle", await)
    /\ at' = [at EXCEPT ![j] = p]
    /\ connected' = [connected EXCEPT ![j] = TRUE]
    /\ UNCHANGED <<request, disk, instance, gate, verdict, losses, lost>>

(* A page without a session: issue() makes one. *)
Issue(s, p) == Arrives(s, p, "writing")

(* A capability request, whose body and session are read first.  Nobody    *)
(* knows a session before it was handed out.                               *)
Arrive(r, p) ==
    /\ verdict[request[r].session] = "inserted"
    /\ Arrives(r, p, "identifying")

(* A bad body, no session or a wrong CSRF token. *)
Unidentified(r) ==
    /\ Goes(r, "identifying", "decided")
    /\ verdict' = [verdict EXCEPT ![r] = "denied"]
    /\ UNCHANGED <<request, disk, instance, gate, at, connected, losses, lost>>

(* The session's file was read: the request takes its place at the gate. *)
Identified(r) ==
    /\ file[request[r].session] # None
    /\ Goes(r, "identifying", "waiting")
    /\ gate' = [gate EXCEPT ![at[r]] = Append(@, r)]
    /\ UNCHANGED <<request, disk, instance, at, verdict, connected, losses, lost>>

(* Mutant: nobody waits. *)
EnterAtOnce(r) ==
    /\ Goes(r, "waiting", "reading")
    /\ UNCHANGED <<request, disk, instance, gate, at, verdict, connected, losses, lost>>

Enter(r) ==
    /\ Goes(r, "waiting", "reading")
    /\ Head(gate[at[r]]) = r
    /\ UNCHANGED <<request, disk, instance, gate, at, verdict, connected, losses, lost>>

Decide(j, value) ==
    /\ job' = [job EXCEPT ![j] = "decided"]
    /\ verdict' = [verdict EXCEPT ![j] = value]
    /\ Leave(j)

(* The submission's binding was read and compared. *)
ReadBinding(r) ==
    /\ job[r] = "reading"
    /\ file[Target(r)] # None
    /\ Decide(r, IF file[Target(r)] = Content(r) THEN "matched" ELSE "denied")
    /\ UNCHANGED <<request, disk, instance, at, connected, losses, lost>>

(* There is none. *)
NoBinding(r) ==
    /\ Goes(r, "reading", "writing")
    /\ file[Target(r)] = None
    /\ UNCHANGED <<request, disk, instance, gate, at, verdict, connected, losses, lost>>

(* durableWrite: the temporary file is written and synced, renamed, and    *)
(* then its directory is synced.                                           *)
WriteTemporary(j) ==
    /\ Goes(j, "writing", "renaming")
    /\ UNCHANGED <<request, disk, instance, gate, at, verdict, connected, losses, lost>>

(* Mutant: the record does not name its session. *)
RenameIncomplete(j) ==
    /\ Goes(j, "renaming", "syncing")
    /\ file' = [file EXCEPT ![Target(j)] = [digest |-> Content(j).digest]]
    /\ UNCHANGED <<request, durable, folder, lock, instance, gate, at, verdict, connected, losses, lost>>

Rename(j) ==
    /\ Goes(j, "renaming", "syncing")
    /\ file' = [file EXCEPT ![Target(j)] = Content(j)]
    /\ UNCHANGED <<request, durable, folder, lock, instance, gate, at, verdict, connected, losses, lost>>

(* Mutant: the directory is not synced. *)
SyncNothing(j) ==
    /\ job[j] = "syncing"
    /\ Decide(j, "inserted")
    /\ UNCHANGED <<request, disk, instance, at, connected, losses, lost>>

SyncDirectory(j) ==
    /\ job[j] = "syncing"
    /\ durable' = [f \in Files |-> IF Folder(f) = Folder(j) THEN file[f] ELSE durable[f]]
    /\ Decide(j, "inserted")
    /\ UNCHANGED <<request, file, folder, lock, instance, at, connected, losses, lost>>

(* Mutant: a failure does not pass the turn on. *)
OperationFailsHolding(j) ==
    /\ job[j] \in Deciding
    /\ job' = [job EXCEPT ![j] = "decided"]
    /\ verdict' = [verdict EXCEPT ![j] = "denied"]
    /\ UNCHANGED <<request, disk, instance, gate, at, connected, losses, lost>>

(* Any of these operations may fail; a file that was renamed stays. *)
OperationFails(j) ==
    /\ job[j] \in Deciding
    /\ Decide(j, "denied")
    /\ UNCHANGED <<request, disk, instance, at, connected, losses, lost>>

(* Mutant: a denial is not answered. *)
RespondAllowed(j) ==
    /\ verdict[j] \in Allowed
    /\ connected[j]
    /\ connected' = [connected EXCEPT ![j] = FALSE]
    /\ UNCHANGED <<request, disk, instance, gate, job, at, verdict, losses, lost>>

(* The answer ends the connection; an allowed request has got a local      *)
(* capability before.                                                      *)
Respond(j) ==
    /\ job[j] = "decided"
    /\ connected[j]
    /\ connected' = [connected EXCEPT ![j] = FALSE]
    /\ UNCHANGED <<request, disk, instance, gate, job, at, verdict, losses, lost>>

(* The client goes away, or the socket's 8 s timer destroys it. *)
Disconnect(j) ==
    /\ j \in Impatient
    /\ connected[j]
    /\ connected' = [connected EXCEPT ![j] = FALSE]
    /\ UNCHANGED <<request, disk, instance, gate, job, at, verdict, losses, lost>>
----------------------------------------------------------------------------
Run(p) ==
    \/ TakeLock(p) \/ StartRefused(p) \/ StartFails(p)
    \/ (\E d \in Folders : MakeFolder(p, d)) \/ Listen(p)
    \/ BeginClose(p) \/ Release(p) \/ Exit(p)

DurableWrite(j) == WriteTemporary(j) \/ Rename(j) \/ SyncDirectory(j)

Policy(r) ==
    \/ Unidentified(r) \/ Identified(r) \/ Enter(r) \/ ReadBinding(r) \/ NoBinding(r)

Next ==
    \/ \E p \in Instances : Run(p)
    \/ \E p \in Instances, s \in Sessions : Issue(s, p)
    \/ \E p \in Instances, r \in Requests : Arrive(r, p)
    \/ \E r \in Requests : Policy(r)
    \/ \E j \in Jobs : DurableWrite(j) \/ OperationFails(j) \/ Respond(j) \/ Disconnect(j)
    \/ PowerLoss
    \/ OperatorUnlocks

Spec == Init /\ [][Next]_vars

Step(j) ==
    \/ j \in Requests /\ Policy(j)
    \/ DurableWrite(j) \/ OperationFails(j) \/ Respond(j)

(* The file system's operations end, well or badly, a body is bounded by   *)
(* the socket's timer, and close() goes on when the connections ended.     *)
FairSpec ==
    /\ Spec
    /\ \A j \in Jobs : WF_vars(Step(j))
    /\ \A p \in Instances : WF_vars(Release(p))
----------------------------------------------------------------------------
(* Properties.                                                             *)

(* active.lock: two instances are never between its creation and its       *)
(* removal, whatever ends, loses power or is unlocked by the operator.     *)
OneHolder ==
    \A p, q \in Instances :
        instance[p] \in Holding /\ instance[q] \in Holding => p = q

(* "The directory is single-process locked" (README.md:90): the lock has   *)
(* one holder, and no two instances decide over the directory's bindings   *)
(* at once (loopback-policy.ts:47, 86-117).                                *)
SingleProcess ==
    /\ OneHolder
    /\ \A q, r \in Requests :
          job[q] \in Deciding /\ job[r] \in Deciding => at[q] = at[r]

(* "binds each submissionId to its payloadDigest and session ... and       *)
(* rejects a changed digest or a second session" (README.md:88-90).        *)
OneContentPerSubmission ==
    \A q, r \in Requests :
        /\ verdict[q] \in Allowed /\ verdict[r] \in Allowed
        /\ request[q].submission = request[r].submission
        => Content(q) = Content(r)

(* The same as long as the power does not fail: through kills, stops and   *)
(* restarts, and between requests that compete (loopback-policy.ts:86-117). *)
OneContentWhilePowered == losses = 0 => OneContentPerSubmission

Asked(value) == {<<Target(r), Content(r)>> : r \in {q \in Requests : verdict[q] = value}}

(* The bindings' files, in their folder; a request allowed after its own   *)
(* sync is confirmed.                                                      *)
Register == INSTANCE BindingRegister WITH
    Keys <- Submissions,
    stored <- [m \in Submissions |-> file[m]],
    lasting <- [m \in Submissions |-> durable[m]],
    anchored <- folder["bindings"] = "rooted",
    confirmed <- Asked("inserted"),
    matched <- Asked("matched")

(* The directory implements the register that README.md:88-90 describes:   *)
(* through kills, failures, power losses and competing requests, a binding *)
(* is written only where there is none, a request allowed for what it      *)
(* wrote has it on the disk (loopback-policy.ts:86-117), and only a folder *)
(* that never lasted takes such a binding with it (loopback-policy.ts:52). *)
BindsOnce == Register!Spec

(* A session that was handed to a browser stays valid, unless a power loss *)
(* took the whole folder of the sessions.                                  *)
IssuedSessionsSurvive ==
    \A s \in Sessions : verdict[s] = "inserted" /\ s \notin lost => file[s] # None

(* Through restarts and power losses: what a request was allowed for after *)
(* its own synced write is found by every later read, and an issued        *)
(* session stays valid (loopback-policy.ts:19-40, 77-83), unless a power   *)
(* loss took the folder, whose own entry is not synced (lines 51-52).      *)
InsertedSurvives ==
    /\ \A r \in Requests :
          verdict[r] = "inserted" /\ r \notin lost => file[Target(r)] = Content(r)
    /\ IssuedSessionsSurvive

(* Every authorization is decided, unless its program ends: no failure     *)
(* leaves the gate closed (loopback-policy.ts:114-116).                    *)
EveryAuthorizationDecided ==
    \A r \in Requests : job[r] \in Active ~> job[r] \in {"decided", "dead"}

(* close() comes to its end (loopback-server.ts:143-148). *)
StoppingEnds == \A p \in Instances : instance[p] = "closing" ~> instance[p] # "closing"
============================================================================
