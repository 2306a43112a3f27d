----------------------- MODULE LoopbackPolicy_proofs -----------------------
(***************************************************************************)
(* Theorems about LoopbackPolicy for every number of instances, sessions,  *)
(* requests and submissions.  Those about bindings assume that the client  *)
(* of a capability request waits for its answer: the runs show that they   *)
(* are false otherwise.                                                    *)
(***************************************************************************)
EXTENDS LoopbackPolicy, SequenceTheorems, TLAPS

(* A job in progress belongs to an instance that has not ended, and to one *)
(* that has not closed as long as its client waits.                        *)
JobInv ==
    \A j \in Jobs :
        /\ job[j] \in Active =>
              at[j] \in Instances /\ instance[at[j]] \in {"serving", "closing", "released"}
        /\ connected[j] =>
              at[j] \in Instances /\ instance[at[j]] \in {"serving", "closing"}
        /\ job[j] \in Active /\ j \notin Impatient => connected[j]

LockInv ==
    \A p, q \in Instances :
        instance[p] \in Holding => lock /\ (instance[q] \in Holding => p = q)

(* A request at the gate is in the queue, and has its turn while it is     *)
(* deciding.                                                               *)
GateInv ==
    \A r \in Requests :
        /\ job[r] \in {"waiting"} \cup Deciding =>
              \E i \in 1 .. Len(gate[at[r]]) : gate[at[r]][i] = r
        /\ job[r] \in Deciding => Head(gate[at[r]]) = r

Written(j) ==
    /\ job[j] = "syncing" => file[Target(j)] = Content(j)
    /\ verdict[j] = "inserted" /\ j \notin lost =>
          file[Target(j)] = Content(j) /\ durable[Target(j)] = Content(j)

(* A folder that is not there has no files, and nobody serves without it. *)
FolderInv ==
    /\ \A f \in Files : folder[Folder(f)] = "absent" => file[f] = None /\ durable[f] = None
    /\ \A p \in Instances, d \in Folders :
          instance[p] \in {"serving", "closing", "released"} => folder[d] # "absent"
    /\ losses = 0 => lost = {}

SessionInv == \A s \in Sessions : Written(s)

(* A request that found no binding is still right when it writes one. *)
BindingInv ==
    Impatient \cap Requests = {} =>
        \A r \in Requests :
            /\ Written(r)
            /\ job[r] \in {"writing", "renaming"} => file[Target(r)] = None
            /\ losses = 0 /\ verdict[r] = "matched" => file[Target(r)] = Content(r)

LoopbackInv == TypeOK /\ JobInv /\ LockInv /\ GateInv /\ FolderInv /\ SessionInv /\ BindingInv
-----------------------------------------------------------------------------
LEMMA JobFacts ==
  ASSUME TypeOK
  PROVE  /\ \A j \in Jobs : Target(j) \in Files /\ Content(j) \in Contents
         /\ \A s \in Sessions : s \in Jobs /\ s \notin Requests /\ Target(s) = s
         /\ \A r \in Requests : r \in Jobs /\ Target(r) \in Submissions /\ Target(r) \notin Sessions
         /\ \A r \in Requests : r \notin Sessions
  BY LoopbackAssumption DEF TypeOK, Target, Content, Contents, Files, Jobs

LEMMA ContentIsNotNone ==
  ASSUME TypeOK, NEW j \in Jobs
  PROVE  Content(j) # None
  BY JobFacts, LoopbackAssumption

(* The turn passes on: who is left in the queue stays in it. *)
LEMMA TailKeepsOthers ==
  ASSUME NEW S, NEW queue \in Seq(S), NEW x, NEW i \in 1 .. Len(queue), queue[i] = x,
         x # Head(queue)
  PROVE  \E k \in 1 .. Len(Tail(queue)) : Tail(queue)[k] = x
  <1>1. i # 1 /\ queue # <<>>
    OBVIOUS
  <1>2. i - 1 \in 1 .. Len(Tail(queue)) /\ Tail(queue)[i - 1] = x
    BY <1>1
  <1>3. QED
    BY <1>2

LEMMA AppendKeepsOthers ==
  ASSUME NEW S, NEW queue \in Seq(S), NEW x \in S
  PROVE  /\ Append(queue, x) \in Seq(S)
         /\ \E k \in 1 .. Len(Append(queue, x)) : Append(queue, x)[k] = x
         /\ \A i \in 1 .. Len(queue) : i \in 1 .. Len(Append(queue, x)) /\ Append(queue, x)[i] = queue[i]
         /\ queue # <<>> => Head(Append(queue, x)) = Head(queue)
  OBVIOUS

(* With the lock and the gate, one request at a time decides.              *)
LEMMA DecidesAlone ==
  ASSUME TypeOK, JobInv, LockInv, GateInv, Impatient \cap Requests = {},
         NEW q \in Requests, NEW r \in Requests, job[q] \in Deciding, job[r] \in Deciding
  PROVE  q = r /\ at[q] = at[r]
  <1>1. /\ at[q] \in Instances /\ at[r] \in Instances
        /\ instance[at[q]] \in Holding /\ instance[at[r]] \in Holding
    BY DEF JobInv, Jobs, Active, Holding
  <1>2. at[q] = at[r]
    BY <1>1 DEF LockInv
  <1>3. QED
    BY <1>2 DEF GateInv
-----------------------------------------------------------------------------
(* Initially nothing has happened. *)
LEMMA InitInv == Init => LoopbackInv
  <1> SUFFICES ASSUME Init PROVE LoopbackInv
    OBVIOUS
  <1>1. TypeOK
    <2>1. file \in [Files -> Contents \cup {None}] /\ durable \in [Files -> Contents \cup {None}]
      BY DEF Init
    <2>2. gate \in [Instances -> Seq(Requests)] /\ losses \in 0 .. MaxLosses
      BY LoopbackAssumption DEF Init
    <2>3. QED
      BY <2>1, <2>2 DEF Init, TypeOK
  <1>2. JobInv /\ LockInv /\ GateInv
    BY DEF Init, JobInv, LockInv, GateInv, Active, Deciding, Holding, Jobs
  <1>3. FolderInv /\ SessionInv /\ BindingInv
    BY LoopbackAssumption DEF Init, FolderInv, SessionInv, BindingInv, Written, Jobs
  <1>4. QED
    BY <1>1, <1>2, <1>3 DEF LoopbackInv

(* The turn of a request that decides can be passed on. *)
LEMMA LeaveTyped ==
  ASSUME TypeOK, JobInv, GateInv, NEW j \in Jobs, job[j] \in Deciding, Leave(j)
  PROVE  gate' \in [Instances -> Seq(Requests)]
  <1>1. CASE j \in Requests
    <2>1. at[j] \in Instances /\ gate[at[j]] \in Seq(Requests)
      BY DEF TypeOK, JobInv, Active
    <2>2. gate[at[j]] # <<>>
      BY <1>1, <2>1 DEF GateInv
    <2>3. Tail(gate[at[j]]) \in Seq(Requests)
      BY <2>1, <2>2
    <2>4. QED
      BY <1>1, <2>1, <2>3 DEF Leave, TypeOK
  <1>2. CASE j \notin Requests
    BY <1>2 DEF Leave, TypeOK
  <1>3. QED
    BY <1>1, <1>2

(* The folder of a file, and that of a job, which is the folder of its file. *)
LEMMA FolderFacts ==
  ASSUME TypeOK
  PROVE  /\ \A f \in Files : Folder(f) \in Folders
         /\ \A j \in Jobs : Folder(Target(j)) = Folder(j) /\ Folder(j) \in Folders
         /\ \A m \in Submissions : Folder(m) = "bindings"
         /\ \A r \in Requests : Folder(r) = "bindings"
         /\ \A s \in Sessions : Folder(s) = "sessions"
  BY JobFacts, LoopbackAssumption DEF Folder, Folders, Target, Jobs

(* A power loss takes a file away with its folder, takes it back to its    *)
(* synced state or leaves it.                                              *)
LEMMA PowerLossEffect ==
  ASSUME TypeOK, PowerLoss
  PROVE  \E gone \in SUBSET {d \in Folders : folder[d] = "made"} :
            /\ file' \in [Files -> Contents \cup {None}]
            /\ durable' = file'
            /\ \A f \in Files :
                  /\ Folder(f) \in gone => file'[f] = None
                  /\ Folder(f) \notin gone => file'[f] \in {file[f], durable[f]}
            /\ folder' \in [Folders -> {"absent", "made", "rooted"}]
            /\ \A d \in Folders :
                  folder'[d] = IF d \in gone \/ folder[d] = "absent" THEN "absent" ELSE "rooted"
            /\ lost' = lost \cup {j \in Jobs : verdict[j] = "inserted" /\ Folder(j) \in gone}
  <1>1. PICK gone \in SUBSET {d \in Folders : folder[d] = "made"}, kept \in SUBSET Files :
          /\ file' = [f \in Files |-> IF Folder(f) \in gone THEN None
                                      ELSE IF f \in kept THEN file[f] ELSE durable[f]]
          /\ folder' = [d \in Folders |-> IF d \in gone \/ folder[d] = "absent"
                                          THEN "absent" ELSE "rooted"]
          /\ lost' = lost \cup {j \in Jobs : verdict[j] = "inserted" /\ Folder(j) \in gone}
    BY DEF PowerLoss
  <1>2. \A f \in Files : /\ Folder(f) \in gone => file'[f] = None
                        /\ Folder(f) \notin gone => file'[f] \in {file[f], durable[f]}
                        /\ file'[f] \in Contents \cup {None}
    BY <1>1 DEF TypeOK
  <1>3. file' \in [Files -> Contents \cup {None}]
    BY <1>1, <1>2
  <1>4. folder' \in [Folders -> {"absent", "made", "rooted"}]
    BY <1>1
  <1>5. QED
    BY <1>1, <1>2, <1>3, <1>4 DEF PowerLoss

LEMMA TypeStep ==
  ASSUME LoopbackInv, [Next]_vars
  PROVE  TypeOK'
  <1> USE DEF disk, files, jobs
  <1>0. TypeOK /\ JobInv /\ GateInv
    BY DEF LoopbackInv
  <1>1. ASSUME NEW p \in Instances, Run(p)
        PROVE  TypeOK'
    <2>1. CASE Exit(p)
      <3>1. gate' \in [Instances -> Seq(Requests)]
        BY <1>0, <2>1 DEF TypeOK, Exit, End
      <3>2. QED
        BY <1>0, <2>1, <3>1 DEF TypeOK, Exit, End
    <2>2. CASE ~Exit(p)
      BY <1>0, <1>1, <2>2 DEF TypeOK, Run, TakeLock, StartRefused, StartFails, MakeFolder, Listen,
           BeginClose, Release, Moves, Holding
    <2>3. QED
      BY <2>1, <2>2
  <1>2. ASSUME NEW p \in Instances, NEW j \in Jobs, NEW await \in Active, Arrives(j, p, await)
        PROVE  TypeOK'
    BY <1>0, <1>2 DEF TypeOK, Arrives, Goes
  <1>3. ASSUME NEW r \in Requests, Policy(r)
        PROVE  TypeOK'
    <2>1. CASE Unidentified(r) \/ Enter(r) \/ NoBinding(r)
      BY <1>0, <2>1 DEF TypeOK, Unidentified, Enter, NoBinding, Goes, Jobs, Active, Deciding, Allowed
    <2>2. CASE Identified(r)
      <3>1. r \in Jobs /\ at[r] \in Instances /\ gate[at[r]] \in Seq(Requests)
        BY <1>0, <2>2 DEF Identified, Goes, TypeOK, JobInv, Jobs, Active
      <3>2. gate' \in [Instances -> Seq(Requests)]
        BY <1>0, <2>2, <3>1, AppendKeepsOthers DEF Identified, TypeOK
      <3>3. QED
        BY <1>0, <2>2, <3>1, <3>2 DEF Identified, TypeOK, Goes, Active
    <2>3. CASE ReadBinding(r)
      <3>1. r \in Jobs /\ gate' \in [Instances -> Seq(Requests)]
        BY <1>0, <2>3, LeaveTyped DEF ReadBinding, Decide, Jobs, Deciding
      <3>2. QED
        BY <1>0, <2>3, <3>1 DEF ReadBinding, Decide, TypeOK, Allowed
    <2>4. QED
      BY <1>3, <2>1, <2>2, <2>3 DEF Policy
  <1>4. ASSUME NEW j \in Jobs, DurableWrite(j) \/ OperationFails(j)
        PROVE  TypeOK'
    <2>1. CASE WriteTemporary(j)
      BY <1>0, <2>1 DEF TypeOK, WriteTemporary, Goes, Active, Deciding
    <2>2. CASE Rename(j)
      BY <1>0, <2>2, JobFacts DEF TypeOK, Rename, Goes, Active, Deciding
    <2>3. CASE SyncDirectory(j) \/ OperationFails(j)
      <3>1. gate' \in [Instances -> Seq(Requests)]
        BY <1>0, <2>3, LeaveTyped DEF SyncDirectory, OperationFails, Decide, Deciding
      <3>2. QED
        <4>1. CASE SyncDirectory(j)
          <5>1. durable' \in [Files -> Contents \cup {None}]
            BY <1>0, <4>1 DEF TypeOK, SyncDirectory
          <5>2. QED
            BY <1>0, <3>1, <4>1, <5>1 DEF TypeOK, SyncDirectory, Decide, Allowed
        <4>2. CASE OperationFails(j)
          BY <1>0, <3>1, <4>2 DEF TypeOK, OperationFails, Decide
        <4>3. QED
          BY <2>3, <4>1, <4>2
    <2>4. QED
      BY <1>4, <2>1, <2>2, <2>3 DEF DurableWrite
  <1>5. ASSUME NEW j \in Jobs, Respond(j) \/ Disconnect(j)
        PROVE  TypeOK'
    BY <1>0, <1>5 DEF TypeOK, Respond, Disconnect
  <1>6. CASE PowerLoss
    <2>1. /\ file' \in [Files -> Contents \cup {None}] /\ durable' = file'
          /\ folder' \in [Folders -> {"absent", "made", "rooted"}]
      BY <1>0, <1>6, PowerLossEffect, Zenon
    <2>4. lost' \in SUBSET Jobs
      <3>1. PICK gone : lost' = lost \cup {j \in Jobs : verdict[j] = "inserted" /\ Folder(j) \in gone}
        BY <1>6 DEF PowerLoss
      <3>2. QED
        BY <1>0, <3>1 DEF TypeOK
    <2>2. losses' \in 0 .. MaxLosses
      BY <1>0, <1>6, LoopbackAssumption DEF TypeOK, PowerLoss
    <2>3. lock' \in BOOLEAN
      BY <1>0, <1>6 DEF TypeOK, PowerLoss
    <2>5. QED
      BY <1>0, <1>6, <2>1, <2>2, <2>3, <2>4 DEF TypeOK, PowerLoss, End, Active
  <1>7. CASE OperatorUnlocks
    BY <1>0, <1>7 DEF TypeOK, OperatorUnlocks
  <1>8. CASE UNCHANGED vars
    BY <1>0, <1>8 DEF TypeOK, vars
  <1>9. QED
    BY <1>1, <1>2, <1>3, <1>4, <1>5, <1>6, <1>7, <1>8 DEF Next, Issue, Arrive, Jobs, Active, Deciding
-----------------------------------------------------------------------------
(* The steps of a job that keep its place, and those that end it. *)
LEMMA JobStep ==
  ASSUME LoopbackInv, [Next]_vars
  PROVE  JobInv'
  <1> USE DEF disk, files, jobs
  <1>0. TypeOK /\ JobInv
    BY DEF LoopbackInv
  <1>1. ASSUME NEW p \in Instances, Exit(p)
        PROVE  JobInv'
    BY <1>0, <1>1 DEF TypeOK, JobInv, Exit, End, Active, Deciding
  <1>2. ASSUME NEW p \in Instances,
               \/ TakeLock(p) \/ StartRefused(p) \/ StartFails(p)
               \/ (\E d \in Folders : MakeFolder(p, d)) \/ Listen(p) \/ BeginClose(p)
        PROVE  JobInv'
    BY <1>0, <1>2 DEF TypeOK, JobInv, TakeLock, StartRefused, StartFails, MakeFolder, Listen,
         BeginClose, Moves
  <1>3. ASSUME NEW p \in Instances, Release(p)
        PROVE  JobInv'
    BY <1>0, <1>3 DEF TypeOK, JobInv, Release, Moves
  <1>4. ASSUME NEW p \in Instances, NEW j \in Jobs, NEW await, Arrives(j, p, await)
        PROVE  JobInv'
    BY <1>0, <1>4 DEF TypeOK, JobInv, Arrives, Goes
  <1>5. ASSUME NEW r \in Requests, Policy(r)
        PROVE  JobInv'
    BY <1>0, <1>5 DEF TypeOK, JobInv, Policy, Unidentified, Identified, Enter, ReadBinding,
         NoBinding, Decide, Goes, Active, Deciding, Jobs
  <1>6. ASSUME NEW j \in Jobs, DurableWrite(j) \/ OperationFails(j)
        PROVE  JobInv'
    BY <1>0, <1>6 DEF TypeOK, JobInv, DurableWrite, WriteTemporary, Rename, SyncDirectory,
         OperationFails, Decide, Goes, Active, Deciding
  <1>7. ASSUME NEW j \in Jobs, Respond(j) \/ Disconnect(j)
        PROVE  JobInv'
    BY <1>0, <1>7 DEF TypeOK, JobInv, Respond, Disconnect, Active, Deciding
  <1>8. CASE PowerLoss
    BY <1>0, <1>8 DEF TypeOK, JobInv, PowerLoss, End, Active, Deciding
  <1>9. CASE OperatorUnlocks
    BY <1>0, <1>9 DEF JobInv, OperatorUnlocks
  <1>10. CASE UNCHANGED vars
    BY <1>0, <1>10 DEF JobInv, vars
  <1>11. QED
    BY <1>1, <1>2, <1>3, <1>4, <1>5, <1>6, <1>7, <1>8, <1>9, <1>10
       DEF Next, Run, Issue, Arrive, Jobs

LEMMA LockStep ==
  ASSUME LoopbackInv, [Next]_vars
  PROVE  LockInv'
  <1> USE DEF disk, files, jobs
  <1>0. TypeOK /\ LockInv
    BY DEF LoopbackInv
  <1>1. ASSUME NEW p \in Instances, Run(p)
        PROVE  LockInv'
    BY <1>0, <1>1 DEF TypeOK, LockInv, Run, TakeLock, StartRefused, StartFails, MakeFolder, Listen,
         BeginClose, Release, Exit, End, Moves, Holding
  <1>2. CASE PowerLoss
    BY <1>0, <1>2 DEF TypeOK, LockInv, PowerLoss, End, Holding
  <1>3. CASE OperatorUnlocks
    BY <1>0, <1>3 DEF LockInv, OperatorUnlocks
  <1>4. ASSUME ~(\E p \in Instances : Run(p)), ~PowerLoss, ~OperatorUnlocks
        PROVE  UNCHANGED <<lock, instance>>
    BY <1>4 DEF Next, vars, Issue, Arrive, Arrives, Policy, Unidentified, Identified, Enter,
         ReadBinding, NoBinding, DurableWrite, WriteTemporary, Rename, SyncDirectory,
         OperationFails, Respond, Disconnect
  <1>5. QED
    BY <1>0, <1>1, <1>2, <1>3, <1>4 DEF LockInv

LEMMA GateStep ==
  ASSUME LoopbackInv, [Next]_vars
  PROVE  GateInv'
  <1> USE DEF disk, files, jobs
  <1>0. TypeOK /\ JobInv /\ GateInv
    BY DEF LoopbackInv
  <1> DEFINE Queued(r) == \E i \in 1 .. Len(gate[at[r]]) : gate[at[r]][i] = r
  (* A step that leaves the queues alone moves nobody into them. *)
  <1>1. ASSUME UNCHANGED gate,
               \A r \in Requests :
                  job'[r] \in {"waiting"} \cup Deciding =>
                     /\ at'[r] = at[r]
                     /\ job[r] \in {"waiting"} \cup Deciding
                     /\ job'[r] \in Deciding => job[r] \in Deciding \/ Head(gate[at[r]]) = r
        PROVE  GateInv'
    BY <1>0, <1>1 DEF GateInv
  <1>2. ASSUME NEW p \in Instances, NEW j \in Jobs, Arrives(j, p, "identifying")
        PROVE  GateInv'
    BY <1>0, <1>1, <1>2 DEF TypeOK, Arrives, Goes, Jobs, Deciding
  <1>3. ASSUME NEW p \in Instances, NEW s \in Sessions, Issue(s, p)
        PROVE  GateInv'
    BY <1>0, <1>1, <1>3, JobFacts DEF TypeOK, Issue, Arrives, Goes, Jobs, Deciding
  <1>4. ASSUME NEW r \in Requests, Unidentified(r) \/ Enter(r) \/ NoBinding(r)
        PROVE  GateInv'
    BY <1>0, <1>1, <1>4 DEF TypeOK, Unidentified, Enter, NoBinding, Goes, Jobs, Deciding
  <1>5. ASSUME NEW r \in Requests, Identified(r)
        PROVE  GateInv'
    <2>1. r \in Jobs /\ at[r] \in Instances /\ gate[at[r]] \in Seq(Requests)
      BY <1>0, <1>5 DEF Identified, Goes, TypeOK, JobInv, Jobs, Active
    <2>2. /\ gate'[at[r]] = Append(gate[at[r]], r)
          /\ \A p \in Instances : p # at[r] => gate'[p] = gate[p]
          /\ at' = at
      BY <1>0, <1>5, <2>1 DEF Identified, TypeOK
    <2>3. ASSUME NEW q \in Requests, job'[q] \in {"waiting"} \cup Deciding
          PROVE  Queued(q)' /\ (job'[q] \in Deciding => Head(gate'[at'[q]]) = q)
      <3>1. q \in Jobs
        BY DEF Jobs
      <3>2. CASE q = r
        <4>1. job'[r] = "waiting"
          BY <1>0, <1>5, <2>1 DEF Identified, Goes, TypeOK
        <4>2. Queued(r)'
          BY <2>1, <2>2, AppendKeepsOthers
        <4>3. QED
          BY <3>2, <4>1, <4>2 DEF Deciding
      <3>3. CASE q # r
        <4>1. job'[q] = job[q]
          BY <1>0, <1>5, <2>1, <3>1, <3>3 DEF Identified, Goes, TypeOK
        <4>2. Queued(q) /\ (job[q] \in Deciding => Head(gate[at[q]]) = q)
          BY <1>0, <2>3, <4>1 DEF GateInv
        <4>3. at[q] \in Instances /\ gate[at[q]] \in Seq(Requests)
          BY <1>0, <2>3, <3>1, <4>1 DEF JobInv, TypeOK, Active
        <4>4. CASE at[q] = at[r]
          <5>1. gate'[at'[q]] = Append(gate[at[q]], r) /\ gate[at[q]] \in Seq(Requests)
            BY <2>1, <2>2, <4>4
          <5>2. PICK i \in 1 .. Len(gate[at[q]]) : gate[at[q]][i] = q
            BY <4>2
          <5>3. /\ i \in 1 .. Len(Append(gate[at[q]], r)) /\ Append(gate[at[q]], r)[i] = q
                /\ Head(Append(gate[at[q]], r)) = Head(gate[at[q]])
            BY <5>1, <5>2, AppendKeepsOthers
          <5>4. QED
            BY <4>1, <4>2, <5>1, <5>3
        <4>5. CASE at[q] # at[r]
          BY <2>2, <4>1, <4>2, <4>3, <4>5
        <4>6. QED
          BY <4>4, <4>5
      <3>4. QED
        BY <3>2, <3>3
    <2>4. QED
      BY <2>3 DEF GateInv
  <1>6. ASSUME NEW j \in Jobs, job[j] \in Deciding, Leave(j), UNCHANGED at,
               job' = [job EXCEPT ![j] = "decided"]
        PROVE  GateInv'
    <2>1. CASE j \notin Requests
      BY <1>0, <1>1, <1>6, <2>1 DEF Leave, TypeOK, Jobs, Deciding
    <2>2. CASE j \in Requests
      <3>1. at[j] \in Instances /\ gate[at[j]] \in Seq(Requests) /\ Head(gate[at[j]]) = j
        BY <1>0, <1>6, <2>2 DEF TypeOK, JobInv, GateInv, Active
      <3>2. /\ gate'[at[j]] = Tail(gate[at[j]])
            /\ \A p \in Instances : p # at[j] => gate'[p] = gate[p]
        BY <1>0, <1>6, <2>2, <3>1 DEF Leave, TypeOK
      <3>3. ASSUME NEW q \in Requests, job'[q] \in {"waiting"} \cup Deciding
            PROVE  Queued(q)' /\ (job'[q] \in Deciding => Head(gate'[at'[q]]) = q)
        <4>1. q \in Jobs /\ q # j /\ job'[q] = job[q]
          BY <1>0, <1>6, <3>3 DEF TypeOK, Jobs, Deciding
        <4>2. Queued(q) /\ (job[q] \in Deciding => Head(gate[at[q]]) = q)
          BY <1>0, <3>3, <4>1 DEF GateInv
        <4>3. at[q] \in Instances /\ gate[at[q]] \in Seq(Requests)
          BY <1>0, <3>3, <4>1 DEF JobInv, TypeOK, Active
        <4>4. CASE at[q] = at[j]
          <5>1. job[q] \notin Deciding
            BY <3>1, <4>1, <4>2, <4>4
          <5>2. \E k \in 1 .. Len(Tail(gate[at[j]])) : Tail(gate[at[j]])[k] = q
            <6>1. PICK i \in 1 .. Len(gate[at[j]]) : gate[at[j]][i] = q
              BY <4>2, <4>4
            <6>2. QED
              BY <3>1, <4>1, <6>1, TailKeepsOthers
          <5>3. QED
            BY <1>6, <3>2, <4>1, <4>4, <5>1, <5>2
        <4>5. CASE at[q] # at[j]
          BY <1>6, <3>2, <4>1, <4>2, <4>3, <4>5
        <4>6. QED
          BY <4>4, <4>5
      <3>4. QED
        BY <3>3 DEF GateInv
    <2>3. QED
      BY <2>1, <2>2
  <1>7. ASSUME NEW j \in Jobs, SyncDirectory(j) \/ OperationFails(j) \/ (j \in Requests /\ ReadBinding(j))
        PROVE  GateInv'
    BY <1>6, <1>7 DEF SyncDirectory, OperationFails, ReadBinding, Decide, Deciding
  <1>8. ASSUME NEW j \in Jobs, WriteTemporary(j) \/ Rename(j) \/ Respond(j) \/ Disconnect(j)
        PROVE  GateInv'
    BY <1>0, <1>1, <1>8 DEF TypeOK, WriteTemporary, Rename, Respond, Disconnect, Goes, Jobs, Deciding
  <1>9. ASSUME NEW P \in SUBSET Instances, End(P)
        PROVE  GateInv'
    <2>1. ASSUME NEW r \in Requests, job'[r] \in {"waiting"} \cup Deciding
          PROVE  /\ at[r] \in Instances /\ gate'[at[r]] = gate[at[r]]
                 /\ job'[r] = job[r] /\ at'[r] = at[r]
      BY <1>0, <1>9, <2>1 DEF TypeOK, JobInv, End, Jobs, Active, Deciding
    <2>2. QED
      BY <1>0, <2>1 DEF GateInv
  <1>10. ASSUME UNCHANGED <<gate, job, at>>
         PROVE  GateInv'
    BY <1>0, <1>10 DEF GateInv
  <1>11. ASSUME NEW p \in Instances, Run(p)
         PROVE  GateInv'
    BY <1>9, <1>10, <1>11 DEF Run, TakeLock, StartRefused, StartFails, MakeFolder, Listen, BeginClose,
         Release, Exit
  <1>12. CASE PowerLoss \/ OperatorUnlocks \/ UNCHANGED vars
    BY <1>9, <1>10, <1>12 DEF PowerLoss, OperatorUnlocks, vars
  <1>13. QED
    BY <1>2, <1>3, <1>4, <1>5, <1>7, <1>8, <1>11, <1>12
       DEF Next, Arrive, Policy, DurableWrite, Jobs
-----------------------------------------------------------------------------
(* What is written is known after a step that renames and syncs nothing,   *)
(* and loses no power.                                                     *)
LEMMA WrittenKept ==
  ASSUME UNCHANGED <<request, file, durable, lost>>, NEW j \in Jobs, Written(j),
         job'[j] = "syncing" => job[j] = "syncing",
         verdict'[j] = "inserted" => verdict[j] = "inserted"
  PROVE  Written(j)'
  BY DEF Written, Target, Content

(* The steps that leave the files alone. *)
LEMMA QuietStep ==
  ASSUME LoopbackInv, [Next]_vars, ~PowerLoss,
         ~(\E j \in Jobs : Rename(j) \/ SyncDirectory(j))
  PROVE  /\ UNCHANGED <<request, file, durable, losses, lost>>
         /\ \A j \in Jobs :
               /\ job'[j] = "syncing" => job[j] = "syncing"
               /\ job'[j] = "renaming" => job[j] \in {"writing", "renaming"}
               /\ job'[j] = "writing" /\ j \in Requests =>
                     job[j] = "writing" \/ file[Target(j)] = None
               /\ verdict'[j] = "inserted" => verdict[j] = "inserted"
               /\ verdict'[j] = "matched" /\ j \in Requests =>
                     verdict[j] = "matched" \/ file[Target(j)] = Content(j)
  <1> USE DEF disk, files, jobs
  <1>0. TypeOK
    BY DEF LoopbackInv
  <1>1. ASSUME NEW p \in Instances, Run(p)
        PROVE  /\ UNCHANGED <<losses, lost, request, file, durable, verdict>>
               /\ \A j \in Jobs : job'[j] \in {job[j], "dead"}
    BY <1>0, <1>1 DEF TypeOK, Run, TakeLock, StartRefused, StartFails, MakeFolder, Listen, BeginClose,
         Release, Exit, End, Moves
  <1>2. ASSUME NEW p \in Instances, NEW s \in Sessions, Issue(s, p)
        PROVE  /\ UNCHANGED <<losses, lost, request, file, durable, verdict>>
               /\ \A j \in Requests : job'[j] = job[j]
               /\ \A j \in Jobs : job'[j] \in {job[j], "writing"}
    BY <1>0, <1>2, JobFacts DEF TypeOK, Issue, Arrives, Goes, Jobs
  <1>3. ASSUME NEW p \in Instances, NEW r \in Requests, Arrive(r, p)
        PROVE  /\ UNCHANGED <<losses, lost, request, file, durable, verdict>>
               /\ \A j \in Jobs : job'[j] \in {job[j], "identifying"}
    BY <1>0, <1>3 DEF TypeOK, Arrive, Arrives, Goes, Jobs
  <1>4. ASSUME NEW r \in Requests, Unidentified(r) \/ Identified(r) \/ Enter(r)
        PROVE  /\ UNCHANGED <<losses, lost, request, file, durable>>
               /\ \A j \in Jobs : /\ job'[j] \in {job[j], "decided", "waiting", "reading"}
                                   /\ verdict'[j] \in {verdict[j], "denied"}
    BY <1>0, <1>4 DEF TypeOK, Unidentified, Identified, Enter, Goes, Jobs
  <1>5. ASSUME NEW r \in Requests, ReadBinding(r) \/ NoBinding(r)
        PROVE  /\ UNCHANGED <<losses, lost, request, file, durable>>
               /\ \A j \in Jobs :
                     /\ job'[j] \in {job[j], "decided", "writing"}
                     /\ job'[j] = "writing" => job[j] = "writing" \/ file[Target(j)] = None
                     /\ verdict'[j] \in {verdict[j], "denied", "matched"}
                     /\ verdict'[j] = "matched" => verdict[j] = "matched" \/ file[Target(j)] = Content(j)
    BY <1>0, <1>5 DEF TypeOK, ReadBinding, NoBinding, Decide, Goes, Jobs
  <1>6. ASSUME NEW i \in Jobs, WriteTemporary(i) \/ OperationFails(i) \/ Respond(i) \/ Disconnect(i)
        PROVE  /\ UNCHANGED <<losses, lost, request, file, durable>>
               /\ \A j \in Jobs :
                     /\ job'[j] \in {job[j], "decided", "renaming"}
                     /\ job'[j] = "renaming" => job[j] \in {"writing", "renaming"}
                     /\ verdict'[j] \in {verdict[j], "denied"}
    BY <1>0, <1>6 DEF TypeOK, WriteTemporary, OperationFails, Respond, Disconnect, Decide, Goes
  <1>7. CASE OperatorUnlocks \/ UNCHANGED vars
    BY <1>7 DEF OperatorUnlocks, vars
  <1>8. QED
    BY <1>1, <1>2, <1>3, <1>4, <1>5, <1>6, <1>7 DEF Next, Policy, DurableWrite, Jobs

(* A rename, when it is the page's own file or the only request's.         *)
LEMMA RenameEffect ==
  ASSUME LoopbackInv, NEW i \in Jobs, Rename(i)
  PROVE  /\ UNCHANGED <<request, durable, folder, verdict, losses, lost>>
         /\ file'[Target(i)] = Content(i)
         /\ \A f \in Files : f # Target(i) => file'[f] = file[f]
         /\ \A j \in Jobs : j # i => job'[j] = job[j]
         /\ job'[i] = "syncing" /\ job[i] = "renaming"
  BY JobFacts DEF LoopbackInv, TypeOK, Rename, Goes

LEMMA SyncEffect ==
  ASSUME LoopbackInv, NEW i \in Jobs, SyncDirectory(i)
  PROVE  /\ UNCHANGED <<request, file, folder, losses, lost>>
         /\ durable'[Target(i)] = file[Target(i)]
         /\ \A f \in Files : durable'[f] \in {file[f], durable[f]}
         /\ \A j \in Jobs : j # i => job'[j] = job[j] /\ verdict'[j] = verdict[j]
         /\ job'[i] = "decided" /\ job[i] = "syncing" /\ verdict'[i] = "inserted"
  BY JobFacts, FolderFacts DEF LoopbackInv, TypeOK, SyncDirectory, Decide, Jobs

LEMMA PowerEffect ==
  ASSUME LoopbackInv, PowerLoss
  PROVE  /\ UNCHANGED <<request, verdict>>
         /\ durable' = file'
         /\ \A f \in Files : file'[f] \in {file[f], durable[f], None}
         /\ \A j \in Jobs : verdict[j] = "inserted" /\ j \notin lost' =>
               j \notin lost /\ file'[Target(j)] \in {file[Target(j)], durable[Target(j)]}
         /\ \A j \in Jobs : job'[j] \notin Active
         /\ losses' # 0
  <1>1. TypeOK /\ JobInv
    BY DEF LoopbackInv
  <1>2. \A j \in Jobs : job'[j] \notin Active
    BY <1>1 DEF TypeOK, JobInv, PowerLoss, End, Active, Deciding
  <1>3. losses' # 0
    BY <1>1 DEF TypeOK, PowerLoss
  <1>4. PICK gone \in SUBSET {d \in Folders : folder[d] = "made"} :
            /\ durable' = file'
            /\ \A f \in Files :
                  /\ Folder(f) \in gone => file'[f] = None
                  /\ Folder(f) \notin gone => file'[f] \in {file[f], durable[f]}
            /\ lost' = lost \cup {j \in Jobs : verdict[j] = "inserted" /\ Folder(j) \in gone}
    BY <1>1, PowerLossEffect, Zenon
  <1>5. ASSUME NEW j \in Jobs, verdict[j] = "inserted", j \notin lost'
        PROVE  j \notin lost /\ file'[Target(j)] \in {file[Target(j)], durable[Target(j)]}
    <2>1. j \notin lost /\ Folder(j) \notin gone
      BY <1>4, <1>5
    <2>2. Target(j) \in Files /\ Folder(Target(j)) = Folder(j)
      BY <1>1, JobFacts, FolderFacts
    <2>3. QED
      BY <1>4, <2>1, <2>2
  <1>6. \A f \in Files : file'[f] \in {file[f], durable[f], None}
    BY <1>4
  <1>7. QED
    BY <1>2, <1>3, <1>4, <1>5, <1>6 DEF PowerLoss, End

LEMMA FolderStep ==
  ASSUME LoopbackInv, [Next]_vars
  PROVE  FolderInv'
  <1> USE DEF disk, files, jobs
  <1>0. TypeOK /\ JobInv /\ FolderInv
    BY DEF LoopbackInv
  (* A step that leaves the files, makes folders and lets nobody serve. *)
  <1>1. ASSUME UNCHANGED <<file, durable, losses, lost>>,
               \A d \in Folders : folder'[d] = "absent" => folder[d] = "absent",
               \A p \in Instances :
                  instance'[p] \in {"serving", "closing", "released"} =>
                     \/ instance[p] \in {"serving", "closing", "released"}
                     \/ \A d \in Folders : folder[d] # "absent"
        PROVE  FolderInv'
    BY <1>0, <1>1, FolderFacts DEF FolderInv
  <1>2. ASSUME NEW p \in Instances, Run(p)
        PROVE  FolderInv'
    <2>1. UNCHANGED <<file, durable, losses, lost>>
      BY <1>2 DEF Run, TakeLock, StartRefused, StartFails, MakeFolder, Listen, BeginClose,
           Release, Exit
    <2>2. \A d \in Folders : folder'[d] = "absent" => folder[d] = "absent"
      BY <1>0, <1>2 DEF TypeOK, Run, TakeLock, StartRefused, StartFails, MakeFolder, Listen,
           BeginClose, Release, Exit
    <2>3. \A q \in Instances :
                  instance'[q] \in {"serving", "closing", "released"} =>
                     \/ instance[q] \in {"serving", "closing", "released"}
                     \/ \A d \in Folders : folder[d] # "absent"
      BY <1>0, <1>2 DEF TypeOK, Run, TakeLock, StartRefused, StartFails, MakeFolder, Listen,
           BeginClose, Release, Exit, End, Moves
    <2>4. QED
      BY <1>1, <2>1, <2>2, <2>3
  <1>3. ASSUME NEW i \in Jobs, Rename(i) \/ SyncDirectory(i)
        PROVE  FolderInv'
    <2>1. UNCHANGED <<folder, instance, losses, lost>>
      BY <1>3 DEF Rename, SyncDirectory
    <2>2. folder[Folder(Target(i))] # "absent"
      <3>1. at[i] \in Instances /\ instance[at[i]] \in {"serving", "closing", "released"}
        BY <1>0, <1>3 DEF JobInv, Rename, SyncDirectory, Goes, Active, Deciding
      <3>2. QED
        BY <1>0, <3>1, FolderFacts DEF FolderInv
    <2>3. \A f \in Files : f # Target(i) => file'[f] = file[f] /\ durable'[f] \in {file[f], durable[f]}
      <3>1. CASE Rename(i)
        BY <3>1, RenameEffect
      <3>2. CASE SyncDirectory(i)
        BY <3>2, SyncEffect
      <3>3. QED
        BY <1>3, <3>1, <3>2
    <2>4. \A f \in Files : folder[Folder(f)] = "absent" => file'[f] = None /\ durable'[f] = None
      BY <1>0, <2>2, <2>3 DEF FolderInv
    <2>5. QED
      BY <1>0, <2>1, <2>4 DEF FolderInv
  <1>4. CASE PowerLoss
    <2>1. PICK gone \in SUBSET {d \in Folders : folder[d] = "made"} :
            /\ durable' = file'
            /\ \A f \in Files :
                  /\ Folder(f) \in gone => file'[f] = None
                  /\ Folder(f) \notin gone => file'[f] \in {file[f], durable[f]}
            /\ \A d \in Folders :
                  folder'[d] = IF d \in gone \/ folder[d] = "absent" THEN "absent" ELSE "rooted"
      BY <1>0, <1>4, PowerLossEffect, Zenon
    <2>2. \A f \in Files : folder'[Folder(f)] = "absent" => file'[f] = None /\ durable'[f] = None
      BY <1>0, <2>1, FolderFacts DEF FolderInv
    <2>3. \A p \in Instances : instance'[p] \notin {"serving", "closing", "released"}
      BY <1>4 DEF PowerLoss, End
    <2>4. losses' # 0
      BY <1>4, PowerEffect
    <2>5. QED
      BY <2>2, <2>3, <2>4 DEF FolderInv
  <1>5. CASE OperatorUnlocks \/ UNCHANGED vars
    BY <1>1, <1>5 DEF OperatorUnlocks, vars
  <1>6. ASSUME ~(\E p \in Instances : Run(p)), ~(\E i \in Jobs : Rename(i) \/ SyncDirectory(i)),
               ~PowerLoss, ~OperatorUnlocks
        PROVE  FolderInv'
    <2>1. UNCHANGED <<file, durable, folder, instance, losses, lost>>
      BY <1>6 DEF Next, vars, Issue, Arrive, Arrives, Policy, Unidentified, Identified, Enter,
           ReadBinding, NoBinding, DurableWrite, WriteTemporary, OperationFails, Respond, Disconnect
    <2>2. QED
      BY <1>1, <2>1
  <1>7. QED
    BY <1>2, <1>3, <1>4, <1>5, <1>6

LEMMA SessionStep ==
  ASSUME LoopbackInv, [Next]_vars
  PROVE  SessionInv'
  <1>0. TypeOK /\ SessionInv
    BY DEF LoopbackInv
  <1> SUFFICES ASSUME NEW s \in Sessions PROVE Written(s)'
    BY DEF SessionInv
  <1>1. Written(s) /\ s \in Jobs /\ s \in Files /\ Target(s) = s /\ Target(s)' = s
    BY <1>0 DEF SessionInv, Jobs, Files, Target
  <1>2. Content(s)' = Content(s)
    BY DEF Content
  <1>3. CASE ~PowerLoss /\ ~(\E j \in Jobs : Rename(j) \/ SyncDirectory(j))
    BY <1>1, <1>3, QuietStep, WrittenKept
  <1>4. ASSUME NEW i \in Jobs, Rename(i)
        PROVE  Written(s)'
    <2>1. i # s => Target(i) # s
      BY <1>0, JobFacts DEF Jobs
    <2>2. QED
      BY <1>1, <1>2, <1>4, <2>1, RenameEffect DEF Written
  <1>5. ASSUME NEW i \in Jobs, SyncDirectory(i)
        PROVE  Written(s)'
    BY <1>1, <1>2, <1>5, SyncEffect DEF Written
  <1>6. CASE PowerLoss
    BY <1>1, <1>2, <1>6, PowerEffect DEF Written, Active, Deciding
  <1>7. QED
    BY <1>3, <1>4, <1>5, <1>6

LEMMA BindingStep ==
  ASSUME LoopbackInv, [Next]_vars
  PROVE  BindingInv'
  <1> SUFFICES ASSUME Impatient \cap Requests = {}, NEW r \in Requests
               PROVE  /\ Written(r)'
                      /\ job'[r] \in {"writing", "renaming"} => file'[Target(r)'] = None
                      /\ losses' = 0 /\ verdict'[r] = "matched" => file'[Target(r)'] = Content(r)'
    BY DEF BindingInv
  <1>0. TypeOK /\ JobInv /\ LockInv /\ GateInv
    BY DEF LoopbackInv
  <1>1. /\ Written(r)
        /\ job[r] \in {"writing", "renaming"} => file[Target(r)] = None
        /\ losses = 0 /\ verdict[r] = "matched" => file[Target(r)] = Content(r)
    BY DEF LoopbackInv, BindingInv
  <1>2. r \in Jobs /\ Target(r) \in Files /\ Content(r) # None
    BY <1>0, JobFacts, ContentIsNotNone
  <1>3. ASSUME UNCHANGED request
        PROVE  Target(r)' = Target(r) /\ Content(r)' = Content(r)
    BY <1>3 DEF Target, Content
  <1>4. CASE ~PowerLoss /\ ~(\E j \in Jobs : Rename(j) \/ SyncDirectory(j))
    BY <1>1, <1>2, <1>3, <1>4, QuietStep, WrittenKept
  <1>5. ASSUME NEW i \in Jobs, Rename(i)
        PROVE  /\ Written(r)'
               /\ job'[r] \in {"writing", "renaming"} => file'[Target(r)'] = None
               /\ losses' = 0 /\ verdict'[r] = "matched" => file'[Target(r)'] = Content(r)'
    <2>1. CASE Target(i) # Target(r)
      BY <1>1, <1>2, <1>3, <1>5, <2>1, RenameEffect DEF Written
    <2>2. CASE i = r
      BY <1>1, <1>2, <1>3, <1>5, <2>2, RenameEffect DEF Written
    <2>3. CASE Target(i) = Target(r) /\ i # r
      <3>1. i \in Requests /\ file[Target(r)] = None
        BY <1>0, <1>5, <2>3, JobFacts, RenameEffect DEF LoopbackInv, BindingInv, Jobs
      <3>2. job[r] \notin Deciding
        BY <1>0, <1>5, <2>3, <3>1, DecidesAlone, RenameEffect DEF Deciding
      <3>3. (verdict[r] = "inserted" => r \in lost) /\ (losses = 0 => verdict[r] # "matched")
        BY <1>1, <1>2, <3>1 DEF Written
      <3>4. QED
        BY <1>2, <1>5, <2>3, <3>2, <3>3, RenameEffect DEF Written, Deciding
    <2>4. QED
      BY <2>1, <2>2, <2>3
  <1>6. ASSUME NEW i \in Jobs, SyncDirectory(i)
        PROVE  /\ Written(r)'
               /\ job'[r] \in {"writing", "renaming"} => file'[Target(r)'] = None
               /\ losses' = 0 /\ verdict'[r] = "matched" => file'[Target(r)'] = Content(r)'
    BY <1>1, <1>2, <1>3, <1>6, SyncEffect DEF Written
  <1>7. CASE PowerLoss
    BY <1>1, <1>2, <1>3, <1>7, PowerEffect DEF Written, Active, Deciding
  <1>8. QED
    BY <1>4, <1>5, <1>6, <1>7
-----------------------------------------------------------------------------
(* The inductive invariant holds in every reachable state of the instances. *)
THEOREM LoopbackInvariance == Spec => []LoopbackInv
  <1>1. LoopbackInv /\ [Next]_vars => LoopbackInv'
    BY TypeStep, JobStep, LockStep, GateStep, FolderStep, SessionStep, BindingStep DEF LoopbackInv
  <1>2. QED
    BY <1>1, InitInv, PTL DEF Spec

(* The directory, the instances and the jobs stay in their types; the turn *)
(* is never passed on by a request that does not have it.                  *)
THEOREM LoopbackTypes == Spec => []TypeOK
  <1>1. LoopbackInv => TypeOK
    BY DEF LoopbackInv
  <1>2. QED
    BY <1>1, LoopbackInvariance, PTL

(* active.lock has at most one holder, whatever is killed, loses power or  *)
(* is unlocked by the operator.                                            *)
THEOREM LockSafety == Spec => []OneHolder
  <1>1. LoopbackInv => OneHolder
    BY DEF LoopbackInv, LockInv, OneHolder
  <1>2. QED
    BY <1>1, LoopbackInvariance, PTL

(* A session that was handed out survives restarts and power losses, as    *)
(* long as the folder of the sessions does.                                *)
THEOREM LastingSessions == Spec => []IssuedSessionsSurvive
  <1>1. LoopbackInv => IssuedSessionsSurvive
    BY JobFacts, ContentIsNotNone DEF LoopbackInv, SessionInv, Written, IssuedSessionsSurvive
  <1>2. QED
    BY <1>1, LoopbackInvariance, PTL

(* If every client waits for its answer, one instance decides at a time.   *)
THEOREM DirectoryIsLocked == Impatient \cap Requests = {} => (Spec => []SingleProcess)
  <1> SUFFICES ASSUME Impatient \cap Requests = {} PROVE Spec => []SingleProcess
    OBVIOUS
  <1>1. LoopbackInv => SingleProcess
    BY DecidesAlone DEF LoopbackInv, LockInv, OneHolder, SingleProcess
  <1>2. QED
    BY <1>1, LoopbackInvariance, PTL

(* If every client waits, a binding that was synced is found ever after,   *)
(* through restarts and power losses, as long as its folder lasts.         *)
THEOREM LastingInsertions == Impatient \cap Requests = {} => (Spec => []InsertedSurvives)
  <1> SUFFICES ASSUME Impatient \cap Requests = {} PROVE Spec => []InsertedSurvives
    OBVIOUS
  <1>1. LoopbackInv =>
          \A r \in Requests : verdict[r] = "inserted" /\ r \notin lost => file[Target(r)] = Content(r)
    BY DEF LoopbackInv, BindingInv, Written
  <1>2. LoopbackInv /\ IssuedSessionsSurvive => InsertedSurvives
    BY <1>1 DEF InsertedSurvives
  <1>3. QED
    BY <1>2, LoopbackInvariance, LastingSessions, PTL

(* If every client waits, and until the power fails, a submission is       *)
(* allowed for one content only, through crashes and restarts.             *)
THEOREM OneContent == Impatient \cap Requests = {} => (Spec => []OneContentWhilePowered)
  <1> SUFFICES ASSUME Impatient \cap Requests = {}
               PROVE  Spec => []OneContentWhilePowered
    OBVIOUS
  <1>1. LoopbackInv => OneContentWhilePowered
    <2> SUFFICES ASSUME LoopbackInv, losses = 0, NEW q \in Requests, NEW r \in Requests,
                        verdict[q] \in Allowed, verdict[r] \in Allowed,
                        request[q].submission = request[r].submission
                 PROVE  Content(q) = Content(r)
      BY DEF OneContentPerSubmission, OneContentWhilePowered
    <2>1. file[Target(q)] = Content(q) /\ file[Target(r)] = Content(r)
      BY DEF LoopbackInv, FolderInv, BindingInv, Written, Allowed
    <2>2. Target(q) = Target(r)
      BY JobFacts DEF LoopbackInv, Target
    <2>3. QED
      BY <2>1, <2>2
  <1>2. QED
    BY <1>1, LoopbackInvariance, PTL
-----------------------------------------------------------------------------
(* A job has a verdict only when it was decided, and is decided once.      *)
VerdictInv == \A j \in Jobs : verdict[j] # None => job[j] = "decided"

(* The steps that decide one job, and those that decide none.              *)
LEMMA DecidingStep ==
  ASSUME TypeOK, [Next]_vars
  PROVE  \/ /\ UNCHANGED verdict
            /\ \A j \in Jobs : job[j] = "decided" => job'[j] = "decided"
         \/ \E j \in Jobs, value \in Allowed \cup {"denied"} :
               /\ job[j] \in Active
               /\ job' = [job EXCEPT ![j] = "decided"]
               /\ verdict' = [verdict EXCEPT ![j] = value]
  <1> USE DEF disk, files, jobs
  <1> DEFINE Quiet == /\ UNCHANGED verdict
                      /\ \A j \in Jobs : job[j] = "decided" => job'[j] = "decided"
             DecidesOne == \E j \in Jobs, value \in Allowed \cup {"denied"} :
                              /\ job[j] \in Active
                              /\ job' = [job EXCEPT ![j] = "decided"]
                              /\ verdict' = [verdict EXCEPT ![j] = value]
  <1> SUFFICES Quiet \/ DecidesOne
    OBVIOUS
  <1>1. ASSUME NEW p \in Instances, Run(p)
        PROVE  Quiet
    <2>1. CASE Exit(p)
      BY <2>1 DEF TypeOK, Exit, End, Active, Deciding
    <2>2. CASE ~Exit(p)
      BY <1>1, <2>2 DEF Run, TakeLock, StartRefused, StartFails, MakeFolder, Listen, BeginClose,
           Release
    <2>3. QED
      BY <2>1, <2>2
  <1>2. ASSUME NEW p \in Instances, NEW j \in Jobs, NEW await \in {"writing", "identifying"}, Arrives(j, p, await)
        PROVE  Quiet
    BY <1>2 DEF TypeOK, Arrives, Goes
  <1>3. ASSUME NEW r \in Requests, Policy(r)
        PROVE  Quiet \/ DecidesOne
    <2>0. r \in Jobs
      BY DEF Jobs
    <2>1. CASE Identified(r) \/ Enter(r) \/ NoBinding(r)
      BY <2>1 DEF TypeOK, Identified, Enter, NoBinding, Goes
    <2>2. CASE Unidentified(r)
      BY <2>0, <2>2 DEF Unidentified, Goes, Active
    <2>3. CASE ReadBinding(r)
      BY <2>0, <2>3 DEF ReadBinding, Decide, Active, Deciding, Allowed
    <2>4. QED
      BY <1>3, <2>1, <2>2, <2>3 DEF Policy
  <1>4. ASSUME NEW j \in Jobs, WriteTemporary(j) \/ Rename(j)
        PROVE  Quiet
    BY <1>4 DEF TypeOK, WriteTemporary, Rename, Goes
  <1>5. ASSUME NEW j \in Jobs, SyncDirectory(j) \/ OperationFails(j)
        PROVE  DecidesOne
    BY <1>5 DEF SyncDirectory, OperationFails, Decide, Active, Deciding, Allowed
  <1>6. ASSUME NEW j \in Jobs, Respond(j) \/ Disconnect(j)
        PROVE  Quiet
    BY <1>6 DEF Respond, Disconnect
  <1>7. CASE PowerLoss
    BY <1>7 DEF TypeOK, PowerLoss, End, Active, Deciding
  <1>8. CASE OperatorUnlocks \/ UNCHANGED vars
    BY <1>8 DEF OperatorUnlocks, vars
  <1> HIDE DEF Quiet, DecidesOne
  <1>9. QED
    BY <1>1, <1>2, <1>3, <1>4, <1>5, <1>6, <1>7, <1>8
       DEF Next, Issue, Arrive, DurableWrite, Jobs

LEMMA VerdictStep ==
  ASSUME TypeOK, VerdictInv, [Next]_vars
  PROVE  VerdictInv'
  <1>1. CASE /\ UNCHANGED verdict
             /\ \A j \in Jobs : job[j] = "decided" => job'[j] = "decided"
    BY <1>1 DEF VerdictInv
  <1>2. ASSUME NEW j \in Jobs, NEW value,
               job' = [job EXCEPT ![j] = "decided"], verdict' = [verdict EXCEPT ![j] = value]
        PROVE  VerdictInv'
    BY <1>2 DEF VerdictInv, TypeOK
  <1>3. QED
    BY <1>1, <1>2, DecidingStep

(* Only a job that has decided has a verdict. *)
THEOREM VerdictInvariance == Spec => []VerdictInv
  <1>1. Init => VerdictInv
    BY DEF Init, VerdictInv
  <1>2. TypeOK /\ VerdictInv /\ [Next]_vars => VerdictInv'
    BY VerdictStep
  <1>3. QED
    BY <1>1, <1>2, LoopbackTypes, PTL DEF Spec

(* An authorization, or a session, is decided once: no retry, failure,     *)
(* restart or power loss changes what was answered.                        *)
VerdictsAreFinal == [][\A j \in Jobs : verdict[j] # None => verdict'[j] = verdict[j]]_vars

(* The answer of a job is decided once. *)
THEOREM FinalVerdicts == Spec => VerdictsAreFinal
  <1>1. ASSUME TypeOK, VerdictInv, [Next]_vars, NEW j \in Jobs, verdict[j] # None
        PROVE  verdict'[j] = verdict[j]
    <2>1. ASSUME NEW i \in Jobs, NEW value, job[i] \in Active,
                 verdict' = [verdict EXCEPT ![i] = value]
          PROVE  verdict'[j] = verdict[j]
      <3>1. job[j] = "decided"
        BY <1>1 DEF VerdictInv
      <3>2. i # j
        BY <2>1, <3>1 DEF Active, Deciding
      <3>3. QED
        BY <1>1, <2>1, <3>2 DEF TypeOK
    <2>2. QED
      BY <1>1, <2>1, DecidingStep
  <1>2. TypeOK /\ VerdictInv /\ [Next]_vars
          => (\A j \in Jobs : verdict[j] # None => verdict'[j] = verdict[j])
    BY <1>1
  <1>3. QED
    BY <1>2, VerdictInvariance, LoopbackTypes, PTL DEF Spec, VerdictsAreFinal
-----------------------------------------------------------------------------
(* The refinement of the register, for clients that wait. *)
LEMMA SameAsked ==
  ASSUME NEW value, UNCHANGED request,
         \A q \in Requests : verdict'[q] = value <=> verdict[q] = value
  PROVE  Asked(value)' = Asked(value)
  <1>1. \A q \in Requests : Target(q)' = Target(q) /\ Content(q)' = Content(q)
    BY DEF Target, Content
  <1>2. QED
    BY <1>1 DEF Asked

LEMMA OneMoreAsked ==
  ASSUME NEW value, UNCHANGED request, NEW r \in Requests,
         \A q \in Requests : verdict'[q] = value <=> q = r \/ verdict[q] = value
  PROVE  Asked(value)' = Asked(value) \cup {<<Target(r), Content(r)>>}
  <1>1. \A q \in Requests : Target(q)' = Target(q) /\ Content(q)' = Content(q)
    BY DEF Target, Content
  <1>2. QED
    BY <1>1 DEF Asked

LEMMA SameRegister ==
  ASSUME UNCHANGED request, folder'["bindings"] = "rooted" <=> folder["bindings"] = "rooted",
         \A m \in Submissions : file'[m] = file[m] /\ durable'[m] = durable[m],
         \A q \in Requests : verdict'[q] = verdict[q] \/ (verdict[q] = None /\ verdict'[q] = "denied")
  PROVE  UNCHANGED Register!vars
  <1>1. \A q \in Requests : /\ verdict'[q] = "inserted" <=> verdict[q] = "inserted"
                            /\ verdict'[q] = "matched" <=> verdict[q] = "matched"
    BY LoopbackAssumption
  <1>2. Asked("inserted")' = Asked("inserted") /\ Asked("matched")' = Asked("matched")
    BY <1>1, SameAsked
  <1>3. QED
    BY <1>2 DEF Register!vars

LEMMA RequestEffect ==
  ASSUME TypeOK, VerdictInv, NEW r \in Requests, job[r] \in Active, NEW value \in Allowed \cup {"denied"},
         verdict' = [verdict EXCEPT ![r] = value]
  PROVE  /\ verdict[r] = None /\ verdict'[r] = value
         /\ \A q \in Requests : q # r => verdict'[q] = verdict[q]
  <1>1. r \in Jobs
    BY DEF Jobs
  <1>2. verdict[r] = None
    BY <1>1 DEF VerdictInv, Active, Deciding
  <1>3. QED
    BY <1>1, <1>2 DEF TypeOK, Jobs

(* Nothing but the reading of its own binding matches a request. *)
LEMMA MatchedOnlyByReading ==
  ASSUME TypeOK, [Next]_vars, NEW r \in Requests, verdict[r] = None, verdict'[r] = "matched"
  PROVE  ReadBinding(r) /\ file[Target(r)] = Content(r)
  <1> USE LoopbackAssumption DEF disk, files, jobs
  <1>0. r \in Jobs /\ r \notin Sessions
    BY DEF Jobs
  <1>1. ASSUME NEW q \in Requests, ReadBinding(q)
        PROVE  ReadBinding(r) /\ file[Target(r)] = Content(r)
    <2>1. verdict' = [verdict EXCEPT ![q] = IF file[Target(q)] = Content(q) THEN "matched" ELSE "denied"]
      BY <1>1 DEF ReadBinding, Decide
    <2>2. q = r
      BY <1>0, <2>1 DEF TypeOK
    <2>3. QED
      BY <1>0, <1>1, <2>1, <2>2 DEF TypeOK
  <1>2. ASSUME NEW q \in Requests, Unidentified(q)
        PROVE  FALSE
    BY <1>0, <1>2 DEF TypeOK, Unidentified
  <1>3. ASSUME NEW j \in Jobs, SyncDirectory(j) \/ OperationFails(j)
        PROVE  FALSE
    BY <1>0, <1>3 DEF TypeOK, SyncDirectory, OperationFails, Decide
  <1>4. ASSUME ~(\E q \in Requests : ReadBinding(q) \/ Unidentified(q)),
               ~(\E j \in Jobs : SyncDirectory(j) \/ OperationFails(j))
        PROVE  UNCHANGED verdict
    BY <1>4 DEF Next, vars, Run, TakeLock, StartRefused, StartFails, MakeFolder, Listen, BeginClose, Release,
         Exit, PowerLoss, End, OperatorUnlocks, Issue, Arrive, Arrives, Policy, Identified,
         Enter, NoBinding, DurableWrite, WriteTemporary, Rename, Respond, Disconnect
  <1>5. QED
    BY <1>1, <1>2, <1>3, <1>4

(* Only a power loss shows whether a folder is there for good. *)
LEMMA SameRoots ==
  ASSUME TypeOK, [Next]_vars, ~PowerLoss, NEW d \in Folders
  PROVE  folder'[d] = "rooted" <=> folder[d] = "rooted"
  <1> USE DEF disk, files
  <1>1. ASSUME NEW p \in Instances, NEW e \in Folders, MakeFolder(p, e)
        PROVE  folder'[d] = "rooted" <=> folder[d] = "rooted"
    BY <1>1 DEF TypeOK, MakeFolder
  <1>2. ASSUME ~(\E p \in Instances : \E e \in Folders : MakeFolder(p, e))
        PROVE  UNCHANGED folder
    BY <1>2 DEF Next, vars, Run, TakeLock, StartRefused, StartFails, Listen, BeginClose, Release,
         Exit, OperatorUnlocks, Issue, Arrive, Arrives, Policy, Unidentified, Identified,
         Enter, ReadBinding, NoBinding, DurableWrite, WriteTemporary, Rename, SyncDirectory,
         OperationFails, Respond, Disconnect
  <1>3. QED
    BY <1>1, <1>2

LEMMA RegisterStep ==
  ASSUME LoopbackInv, VerdictInv, Impatient \cap Requests = {}, [Next]_vars
  PROVE  [Register!Next]_Register!vars
  <1> USE DEF disk, files, jobs
  <1>0. TypeOK
    BY DEF LoopbackInv
  <1>1. \A r \in Requests : r \in Jobs /\ Target(r) \in Submissions /\ Content(r) \in Contents
    BY <1>0, JobFacts
  <1>2. \A m \in Submissions : m \in Files /\ m \notin Sessions
    BY LoopbackAssumption DEF Files
  <1>3. ASSUME NEW r \in Requests, ReadBinding(r), file[Target(r)] = Content(r)
        PROVE  Register!Next
    <2>1. /\ UNCHANGED <<request, file, durable, folder>> /\ job[r] \in Active
          /\ verdict' = [verdict EXCEPT ![r] = "matched"]
      BY <1>3 DEF ReadBinding, Decide, Active, Deciding
    <2>2. /\ verdict[r] = None /\ verdict'[r] = "matched"
          /\ \A q \in Requests : q # r => verdict'[q] = verdict[q]
      BY <1>0, <2>1, RequestEffect DEF Allowed
    <2>3. Asked("inserted")' = Asked("inserted")
      BY <2>1, <2>2, SameAsked, LoopbackAssumption
    <2>4. Asked("matched")' = Asked("matched") \cup {<<Target(r), Content(r)>>}
      BY <2>1, <2>2, OneMoreAsked
    <2>5. PICK k \in Submissions, x \in Contents : k = Target(r) /\ x = Content(r)
      BY <1>1
    <2>6. Register!Match(k, x)
      BY <1>3, <2>1, <2>3, <2>4, <2>5 DEF Register!Match
    <2>7. QED
      BY <2>6 DEF Register!Next
  <1>4. ASSUME NEW r \in Requests, Rename(r)
        PROVE  Register!Next
    <2>1. /\ UNCHANGED <<request, durable, folder, verdict>>
          /\ file' = [file EXCEPT ![Target(r)] = Content(r)]
      BY <1>4 DEF Rename
    <2>2. file[Target(r)] = None
      BY <1>4 DEF Rename, Goes, LoopbackInv, BindingInv
    <2>3. Asked("inserted")' = Asked("inserted") /\ Asked("matched")' = Asked("matched")
      BY <2>1, SameAsked
    <2>4. PICK k \in Submissions, x \in Contents : k = Target(r) /\ x = Content(r)
      BY <1>1
    <2>5. [m \in Submissions |-> file'[m]] = [[m \in Submissions |-> file[m]] EXCEPT ![k] = x]
      BY <1>0, <1>2, <2>1, <2>4 DEF TypeOK
    <2>6. Register!Store(k, x)
      BY <2>1, <2>2, <2>3, <2>4, <2>5 DEF Register!Store
    <2>7. QED
      BY <2>6 DEF Register!Next
  <1>5. ASSUME NEW r \in Requests, SyncDirectory(r)
        PROVE  Register!Next
    <2>1. /\ UNCHANGED <<request, file, folder>> /\ job[r] = "syncing" /\ job[r] \in Active
          /\ verdict' = [verdict EXCEPT ![r] = "inserted"]
          /\ durable' = [f \in Files |-> IF Folder(f) = Folder(r) THEN file[f] ELSE durable[f]]
      BY <1>5 DEF SyncDirectory, Decide, Active, Deciding
    <2>2. /\ verdict[r] = None /\ verdict'[r] = "inserted"
          /\ \A q \in Requests : q # r => verdict'[q] = verdict[q]
      BY <1>0, <2>1, RequestEffect DEF Allowed
    <2>3. Asked("matched")' = Asked("matched")
      BY <2>1, <2>2, SameAsked, LoopbackAssumption
    <2>4. Asked("inserted")' = Asked("inserted") \cup {<<Target(r), Content(r)>>}
      BY <2>1, <2>2, OneMoreAsked
    <2>5. file[Target(r)] = Content(r)
      BY <2>1 DEF LoopbackInv, BindingInv, Written
    <2>6. PICK k \in Submissions, x \in Contents : k = Target(r) /\ x = Content(r)
      BY <1>1
    <2>7. [m \in Submissions |-> file'[m]] = [[m \in Submissions |-> file[m]] EXCEPT ![k] = x]
      BY <2>1, <2>5, <2>6
    <2>8. \A m \in Submissions : durable'[m] = file[m]
      BY <1>0, <1>1, <1>2, <2>1, FolderFacts
    <2>9. [m \in Submissions |-> durable'[m]] =
            [l \in Submissions |-> IF l \in Submissions
                                   THEN [m \in Submissions |-> file'[m]][l]
                                   ELSE [m \in Submissions |-> durable[m]][l]]
      BY <2>1, <2>8
    <2>10. (folder["bindings"] = "rooted")' = (folder["bindings"] = "rooted")
      BY <2>1
    <2>11. /\ k \in Submissions
           /\ [m \in Submissions |-> file[m]][k] \in {None, x}
           /\ {<<k, x>>} = {<<Target(r), Content(r)>>}
      BY <2>5, <2>6
    <2>12. Register!Confirm(k, x)
      BY <2>3, <2>4, <2>7, <2>9, <2>10, <2>11 DEF Register!Confirm
    <2>13. QED
      BY <2>12 DEF Register!Next
  <1>6. CASE PowerLoss
    <2>1. PICK gone \in SUBSET {d \in Folders : folder[d] = "made"}, kept \in SUBSET Files :
          /\ file' = [f \in Files |-> IF Folder(f) \in gone THEN None
                                      ELSE IF f \in kept THEN file[f] ELSE durable[f]]
          /\ folder' = [d \in Folders |-> IF d \in gone \/ folder[d] = "absent"
                                          THEN "absent" ELSE "rooted"]
      BY <1>6 DEF PowerLoss
    <2>2. UNCHANGED <<request, verdict>> /\ durable' = file'
      BY <1>6 DEF PowerLoss, End
    <2>3. Asked("inserted")' = Asked("inserted") /\ Asked("matched")' = Asked("matched")
      BY <2>2, SameAsked
    <2>4. \A m \in Submissions : Folder(m) = "bindings" /\ "bindings" \in Folders
      BY <1>0, FolderFacts DEF Folders
    <2>5. CASE "bindings" \in gone \/ folder["bindings"] = "absent"
      <3>1. folder["bindings"] # "rooted" /\ folder'["bindings"] # "rooted"
        BY <2>1, <2>5 DEF Folders
      <3>2. \A m \in Submissions : file'[m] = None
        BY <1>2, <2>1, <2>4, <2>5 DEF LoopbackInv, FolderInv
      <3>3. [m \in Submissions |-> file'[m]] = [k \in Submissions |-> None]
        BY <3>2
      <3>4. Register!LoseStore
        BY <2>2, <2>3, <3>1, <3>3 DEF Register!LoseStore
      <3>5. QED
        BY <3>4 DEF Register!Next
    <2>6. CASE ~("bindings" \in gone \/ folder["bindings"] = "absent")
      <3>1. folder'["bindings"] = "rooted"
        BY <2>1, <2>6 DEF Folders
      <3>2. [m \in Submissions |-> file'[m]] =
              [k \in Submissions |-> IF k \in kept \cap Submissions
                                     THEN [m \in Submissions |-> file[m]][k]
                                     ELSE [m \in Submissions |-> durable[m]][k]]
        BY <1>2, <2>1, <2>4, <2>6
      <3>3. Register!LoseSome
        BY <2>2, <2>3, <3>1, <3>2 DEF Register!LoseSome
      <3>4. QED
        BY <3>3 DEF Register!Next
    <2>7. QED
      BY <2>5, <2>6
  <1>7. ASSUME NEW s \in Sessions, Rename(s) \/ SyncDirectory(s)
        PROVE  UNCHANGED Register!vars
    <2>1. Target(s) = s /\ Folder(s) = "sessions" /\ s \notin Requests
      BY <1>0, JobFacts, FolderFacts
    <2>2. UNCHANGED <<request, folder>> /\ \A q \in Requests : verdict'[q] = verdict[q]
      BY <1>0, <1>1, <1>7, <2>1 DEF Rename, SyncDirectory, Decide, TypeOK
    <2>3. \A m \in Submissions : file'[m] = file[m] /\ durable'[m] = durable[m]
      BY <1>0, <1>2, <1>7, <2>1, FolderFacts DEF Rename, SyncDirectory, TypeOK
    <2>4. QED
      BY <2>2, <2>3, SameRegister
  <1>8. ASSUME ~PowerLoss, ~(\E j \in Jobs : Rename(j) \/ SyncDirectory(j)),
               ~(\E r \in Requests : ReadBinding(r) /\ file[Target(r)] = Content(r))
        PROVE  UNCHANGED Register!vars
    <2>1. UNCHANGED <<request, file, durable>>
      BY <1>8, QuietStep
    <2>2. ASSUME NEW r \in Requests
          PROVE  verdict'[r] = verdict[r] \/ (verdict[r] = None /\ verdict'[r] = "denied")
      <3>1. CASE UNCHANGED verdict
        BY <3>1
      <3>2. ASSUME NEW j \in Jobs, NEW value \in Allowed \cup {"denied"}, job[j] \in Active,
                   verdict' = [verdict EXCEPT ![j] = value]
            PROVE  verdict'[r] = verdict[r] \/ (verdict[r] = None /\ verdict'[r] = "denied")
        <4>1. CASE j # r
          BY <1>0, <1>1, <3>2, <4>1 DEF TypeOK
        <4>2. CASE j = r
          <5>1. verdict[r] = None /\ verdict'[r] = value
            BY <1>0, <3>2, <4>2, RequestEffect
          <5>2. value # "inserted"
            <6>1. verdict'[r] = "inserted" => verdict[r] = "inserted"
              BY <1>1, <1>8, QuietStep
            <6>2. QED
              BY <5>1, <6>1, LoopbackAssumption
          <5>3. value # "matched"
            <6>1. verdict'[r] # "matched"
              BY <1>0, <1>1, <1>8, <2>1, <5>1, MatchedOnlyByReading
            <6>2. QED
              BY <5>1, <6>1
          <5>4. QED
            BY <5>1, <5>2, <5>3 DEF Allowed
        <4>3. QED
          BY <4>1, <4>2
      <3>3. QED
        BY <1>0, <3>1, <3>2, DecidingStep
    <2>3. folder'["bindings"] = "rooted" <=> folder["bindings"] = "rooted"
      BY <1>0, <1>8, SameRoots DEF Folders
    <2>4. QED
      BY <2>1, <2>2, <2>3, SameRegister
  <1>9. QED
    BY <1>3, <1>4, <1>5, <1>6, <1>7, <1>8 DEF Jobs

(* If every client waits, the directory implements the write-once register *)
(* through crashes, failures and power losses; the register is a store     *)
(* that a power loss may take until one has left it.                       *)
THEOREM RegisterRefinement == Impatient \cap Requests = {} => (Spec => BindsOnce)
  <1> SUFFICES ASSUME Impatient \cap Requests = {} PROVE Spec => BindsOnce
    OBVIOUS
  <1>1. Init => Register!Init
    <2> SUFFICES ASSUME Init PROVE Register!Init
      OBVIOUS
    <2>1. \A m \in Submissions : file[m] = None /\ durable[m] = None
      BY DEF Init, Files
    <2>2. \A r \in Requests : verdict[r] = None
      BY DEF Init, Jobs
    <2>3. Asked("inserted") = {} /\ Asked("matched") = {}
      BY <2>2, LoopbackAssumption DEF Asked
    <2>4. QED
      BY <2>1, <2>3 DEF Register!Init
  <1>2. LoopbackInv /\ VerdictInv /\ [Next]_vars => [Register!Next]_Register!vars
    BY RegisterStep
  <1>3. QED
    BY <1>1, <1>2, LoopbackInvariance, VerdictInvariance, PTL DEF Spec, BindsOnce, Register!Spec
-----------------------------------------------------------------------------
(* The safety core of EveryAuthorizationDecided.  The queue of an instance *)
(* holds each of its waiting and deciding requests once, and nothing else. *)
AtGate == {"waiting"} \cup Deciding

QueueOf(p) ==
    \A i \in 1 .. Len(gate[p]) :
        /\ at[gate[p][i]] = p /\ job[gate[p][i]] \in AtGate
        /\ \A k \in 1 .. Len(gate[p]) : gate[p][i] = gate[p][k] => i = k

QueueInv == \A p \in Instances : QueueOf(p)

LEMMA MembersOfQueue ==
  ASSUME TypeOK, NEW p \in Instances, NEW i \in 1 .. Len(gate[p])
  PROVE  gate[p][i] \in Requests /\ gate[p] \in Seq(Requests)
  BY DEF TypeOK

(* A queue whose members stay at the gate. *)
LEMMA SameQueue ==
  ASSUME TypeOK, NEW p \in Instances, QueueOf(p), gate'[p] = gate[p],
         \A q \in Requests : at[q] = p /\ job[q] \in AtGate => at'[q] = p /\ job'[q] \in AtGate
  PROVE  QueueOf(p)'
  <1>1. \A i \in 1 .. Len(gate[p]) : gate[p][i] \in Requests
    BY MembersOfQueue
  <1>2. QED
    BY <1>1 DEF QueueOf

(* A request that was not at the gate takes the last place. *)
LEMMA JoinsQueue ==
  ASSUME TypeOK, QueueInv, NEW r \in Requests, job[r] \notin AtGate,
         NEW p \in Instances, at[r] = p, UNCHANGED at,
         job' = [job EXCEPT ![r] = "waiting"],
         gate' = [gate EXCEPT ![p] = Append(gate[p], r)]
  PROVE  QueueInv'
  <1>1. gate \in [Instances -> Seq(Requests)] /\ job \in [Jobs -> Active \cup {"idle", "decided", "dead"}]
    BY DEF TypeOK
  <1>2. r \in Jobs /\ job'[r] = "waiting" /\ \A q \in Requests : q # r => job'[q] = job[q]
    BY <1>1 DEF Jobs
  <1>3. ASSUME NEW o \in Instances, o # p
        PROVE  QueueOf(o)'
    <2>1. gate'[o] = gate[o]
      BY <1>1, <1>3
    <2>2. \A q \in Requests : at[q] = o => job'[q] = job[q]
      BY <1>2, <1>3
    <2>3. QED
      BY <2>1, <2>2, SameQueue DEF QueueInv
  <1>4. QueueOf(p)'
    <2> DEFINE old == gate[p]
               new == Append(old, r)
    <2>1. gate'[p] = new /\ old \in Seq(Requests)
      BY <1>1
    <2>2. Len(new) = Len(old) + 1 /\ new[Len(old) + 1] = r /\ Len(old) \in Nat
      BY <2>1
    <2>3. \A i \in 1 .. Len(old) : new[i] = old[i] /\ old[i] \in Requests
      BY <2>1
    <2>4. \A i \in 1 .. Len(old) : at[old[i]] = p /\ job[old[i]] \in AtGate /\ old[i] # r
      BY DEF QueueInv, QueueOf
    <2>5. \A i \in 1 .. Len(old), k \in 1 .. Len(old) : old[i] = old[k] => i = k
      BY DEF QueueInv, QueueOf
    <2> HIDE DEF old, new
    <2>6. ASSUME NEW i \in 1 .. Len(new)
          PROVE  /\ at'[new[i]] = p /\ job'[new[i]] \in AtGate
                 /\ \A k \in 1 .. Len(new) : new[i] = new[k] => i = k
      <3>1. CASE i = Len(old) + 1
        <4>1. at'[r] = p /\ job'[r] \in AtGate
          BY <1>2 DEF AtGate
        <4>2. \A k \in 1 .. Len(new) : k # Len(old) + 1 => new[k] # r
          BY <2>2, <2>3, <2>4
        <4>3. QED
          BY <2>2, <3>1, <4>1, <4>2
      <3>2. CASE i # Len(old) + 1
        <4>1. i \in 1 .. Len(old) /\ new[i] = old[i]
          BY <2>2, <2>3, <3>2
        <4>2. at'[old[i]] = p /\ job'[old[i]] \in AtGate /\ old[i] # r
          BY <1>2, <2>3, <2>4, <4>1
        <4>3. \A k \in 1 .. Len(new) : old[i] = new[k] => i = k
          BY <2>2, <2>3, <2>5, <4>1, <4>2
        <4>4. QED
          BY <4>1, <4>2, <4>3
      <3>3. QED
        BY <3>1, <3>2
    <2>7. gate'[p] = new
      BY <2>1
    <2>8. QED
      BY ONLY <2>6, <2>7 DEF QueueOf
  <1>5. QED
    BY <1>3, <1>4 DEF QueueInv

(* QueueOf in the next state, by the name of the next queue. *)
LEMMA QueueIs ==
  ASSUME NEW p \in Instances, NEW queue, queue = gate'[p],
         \A i \in 1 .. Len(queue) : at'[queue[i]] = p /\ job'[queue[i]] \in AtGate,
         \A i \in 1 .. Len(queue) : \A k \in 1 .. Len(queue) : queue[i] = queue[k] => i = k
  PROVE  QueueOf(p)'
  BY DEF QueueOf

(* The tail of a sequence without repetitions loses its head only. *)
LEMMA TailOfDistinct ==
  ASSUME NEW S, NEW queue \in Seq(S), queue # <<>>,
         \A i, k \in 1 .. Len(queue) : queue[i] = queue[k] => i = k,
         NEW i \in 1 .. Len(Tail(queue))
  PROVE  /\ \E m \in 1 .. Len(queue) : Tail(queue)[i] = queue[m] /\ queue[m] # Head(queue)
         /\ \A k \in 1 .. Len(Tail(queue)) : Tail(queue)[i] = Tail(queue)[k] => i = k
  <1>1. /\ Len(queue) \in Nat /\ Len(Tail(queue)) = Len(queue) - 1 /\ Head(queue) = queue[1]
        /\ \A k \in 1 .. Len(Tail(queue)) : Tail(queue)[k] = queue[k + 1]
    OBVIOUS
  <1>2. \A k \in 1 .. Len(Tail(queue)) : k + 1 \in 1 .. Len(queue) /\ k + 1 # 1
    BY <1>1
  <1>3. queue[i + 1] # Head(queue)
    BY <1>1, <1>2
  <1>4. QED
    BY <1>1, <1>2, <1>3

(* A request that had its turn leaves the queue, and the next one has it.  *)
LEMMA LeavesQueue ==
  ASSUME TypeOK, QueueInv, NEW r \in Requests, NEW p \in Instances, at[r] = p,
         gate[p] # <<>>, Head(gate[p]) = r, UNCHANGED at,
         job' = [job EXCEPT ![r] = "decided"],
         gate' = [gate EXCEPT ![p] = Tail(gate[p])]
  PROVE  QueueInv'
  <1>1. gate \in [Instances -> Seq(Requests)] /\ job \in [Jobs -> Active \cup {"idle", "decided", "dead"}]
    BY DEF TypeOK
  <1>2. \A q \in Requests : q # r => job'[q] = job[q]
    BY <1>1 DEF Jobs
  <1>3. ASSUME NEW o \in Instances, o # p
        PROVE  QueueOf(o)'
    <2>1. gate'[o] = gate[o]
      BY <1>1, <1>3
    <2>2. \A q \in Requests : at[q] = o => job'[q] = job[q]
      BY <1>2, <1>3
    <2>3. QED
      BY <2>1, <2>2, SameQueue DEF QueueInv
  <1>4. QueueOf(p)'
    <2>1. gate'[p] = Tail(gate[p]) /\ gate[p] \in Seq(Requests)
      BY <1>1
    <2>2. /\ \A i \in 1 .. Len(gate[p]) :
                at[gate[p][i]] = p /\ job[gate[p][i]] \in AtGate /\ gate[p][i] \in Requests
          /\ \A i, k \in 1 .. Len(gate[p]) : gate[p][i] = gate[p][k] => i = k
      BY MembersOfQueue DEF QueueInv, QueueOf
    <2>3. PICK rest \in Seq(Requests) :
             /\ rest = gate'[p]
             /\ \A i \in 1 .. Len(rest) :
                   /\ \E m \in 1 .. Len(gate[p]) : rest[i] = gate[p][m] /\ gate[p][m] # r
                   /\ \A k \in 1 .. Len(rest) : rest[i] = rest[k] => i = k
      <3>1. Tail(gate[p]) \in Seq(Requests)
        BY <2>1
      <3>2. \A i \in 1 .. Len(Tail(gate[p])) :
               /\ \E m \in 1 .. Len(gate[p]) : Tail(gate[p])[i] = gate[p][m] /\ gate[p][m] # r
               /\ \A k \in 1 .. Len(Tail(gate[p])) : Tail(gate[p])[i] = Tail(gate[p])[k] => i = k
        BY <2>1, <2>2, TailOfDistinct
      <3>3. \E rest \in Seq(Requests) : rest = Tail(gate[p])
        BY <3>1
      <3>4. QED
        BY <2>1, <3>2, <3>3, Zenon
    <2>4. \A i \in 1 .. Len(rest) : at'[rest[i]] = p /\ job'[rest[i]] \in AtGate
      BY <1>2, <2>2, <2>3
    <2>5. rest = gate'[p]
      BY <2>3, Zenon
    <2>6. \A i \in 1 .. Len(rest) : \A k \in 1 .. Len(rest) : rest[i] = rest[k] => i = k
      BY <2>3, Zenon
    <2>7. QED
      BY ONLY <2>4, <2>5, <2>6, QueueIs
  <1>5. QED
    BY <1>3, <1>4 DEF QueueInv

(* The steps that leave every queue to those who are in it. *)
LEMMA QuietQueue ==
  ASSUME TypeOK, QueueInv, UNCHANGED gate,
         \A q \in Requests : job[q] \in AtGate => at'[q] = at[q] /\ job'[q] \in AtGate
  PROVE  QueueInv'
  BY SameQueue DEF QueueInv

LEMMA QueueStep ==
  ASSUME LoopbackInv, QueueInv, [Next]_vars
  PROVE  QueueInv'
  <1> USE DEF disk, files, jobs
  <1>0. TypeOK /\ JobInv /\ GateInv
    BY DEF LoopbackInv
  <1>1. \A q \in Requests : q \in Jobs /\ q \notin Sessions
    BY LoopbackAssumption DEF Jobs
  <1>2. ASSUME NEW p \in Instances, NEW j \in Jobs, NEW await \in {"writing", "identifying"},
               Arrives(j, p, await)
        PROVE  QueueInv'
    <2>1. \A q \in Requests : job[q] \in AtGate => at'[q] = at[q] /\ job'[q] \in AtGate
      BY <1>0, <1>1, <1>2 DEF TypeOK, Arrives, Goes, AtGate, Deciding
    <2>2. QED
      BY <1>0, <1>2, <2>1, QuietQueue DEF Arrives
  <1>3. ASSUME NEW r \in Requests, Unidentified(r) \/ Enter(r) \/ NoBinding(r)
        PROVE  QueueInv'
    <2>1. \A q \in Requests : job[q] \in AtGate => at'[q] = at[q] /\ job'[q] \in AtGate
      BY <1>0, <1>1, <1>3 DEF TypeOK, Unidentified, Enter, NoBinding, Goes, AtGate, Deciding
    <2>2. QED
      BY <1>0, <1>3, <2>1, QuietQueue DEF Unidentified, Enter, NoBinding
  <1>4. ASSUME NEW r \in Requests, Identified(r)
        PROVE  QueueInv'
    <2>1. at[r] \in Instances /\ job[r] \notin AtGate
      BY <1>0, <1>1, <1>4 DEF JobInv, Identified, Goes, AtGate, Active, Deciding
    <2>2. /\ gate' = [gate EXCEPT ![at[r]] = Append(gate[at[r]], r)]
          /\ job' = [job EXCEPT ![r] = "waiting"] /\ UNCHANGED at
      BY <1>4 DEF Identified, Goes
    <2>3. QED
      BY <1>0, <2>1, <2>2, JoinsQueue
  <1>5. ASSUME NEW j \in Jobs, job[j] \in Deciding, Leave(j), UNCHANGED at,
               job' = [job EXCEPT ![j] = "decided"]
        PROVE  QueueInv'
    <2>1. CASE j \in Requests
      <3>1. at[j] \in Instances /\ Head(gate[at[j]]) = j
        BY <1>0, <1>5, <2>1 DEF JobInv, GateInv, Active
      <3>2. gate[at[j]] # <<>>
        <4>1. PICK i \in 1 .. Len(gate[at[j]]) : gate[at[j]][i] = j
          BY <1>0, <1>5, <2>1 DEF GateInv
        <4>2. QED
          BY <4>1
      <3>3. gate' = [gate EXCEPT ![at[j]] = Tail(gate[at[j]])]
        BY <1>5, <2>1 DEF Leave
      <3>4. QED
        BY <1>0, <1>5, <2>1, <3>1, <3>2, <3>3, LeavesQueue
    <2>2. CASE j \notin Requests
      <3>1. UNCHANGED gate /\ \A q \in Requests : job'[q] = job[q]
        BY <1>0, <1>1, <1>5, <2>2 DEF Leave, TypeOK
      <3>2. QED
        BY <1>0, <1>5, <3>1, QuietQueue
    <2>3. QED
      BY <2>1, <2>2
  <1>6. ASSUME NEW j \in Jobs, SyncDirectory(j) \/ OperationFails(j) \/ (j \in Requests /\ ReadBinding(j))
        PROVE  QueueInv'
    BY <1>5, <1>6 DEF SyncDirectory, OperationFails, ReadBinding, Decide, Deciding
  <1>7. ASSUME NEW j \in Jobs, WriteTemporary(j) \/ Rename(j)
        PROVE  QueueInv'
    <2>1. \A q \in Requests : job[q] \in AtGate => at'[q] = at[q] /\ job'[q] \in AtGate
      BY <1>0, <1>1, <1>7 DEF TypeOK, WriteTemporary, Rename, Goes, AtGate, Deciding
    <2>2. QED
      BY <1>0, <1>7, <2>1, QuietQueue DEF WriteTemporary, Rename
  <1>8. ASSUME NEW P \in SUBSET Instances, End(P)
        PROVE  QueueInv'
    <2>1. ASSUME NEW p \in Instances, p \in P
          PROVE  QueueOf(p)'
      <3>1. gate'[p] = <<>>
        BY <1>8, <2>1 DEF End
      <3>2. Len(gate'[p]) = 0
        BY <3>1
      <3>3. QED
        BY <3>2 DEF QueueOf
    <2>2. ASSUME NEW p \in Instances, p \notin P
          PROVE  QueueOf(p)'
      <3>1. gate'[p] = gate[p]
        BY <1>8, <2>2 DEF End
      <3>2. \A q \in Requests : at[q] = p => at'[q] = p /\ job'[q] = job[q]
        BY <1>1, <1>8, <2>2 DEF End
      <3>3. QED
        BY <1>0, <3>1, <3>2, SameQueue DEF QueueInv
    <2>3. QED
      BY <2>1, <2>2 DEF QueueInv
  <1>9. ASSUME UNCHANGED <<gate, job, at>>
        PROVE  QueueInv'
    BY <1>0, <1>9, QuietQueue
  <1>10. ASSUME NEW p \in Instances, Run(p)
         PROVE  QueueInv'
    BY <1>8, <1>9, <1>10 DEF Run, TakeLock, StartRefused, StartFails, MakeFolder, Listen, BeginClose,
         Release, Exit
  <1>11. CASE PowerLoss \/ OperatorUnlocks \/ UNCHANGED vars
    BY <1>8, <1>9, <1>11 DEF PowerLoss, OperatorUnlocks, vars
  <1>12. ASSUME NEW j \in Jobs, Respond(j) \/ Disconnect(j)
         PROVE  QueueInv'
    BY <1>9, <1>12 DEF Respond, Disconnect
  <1>13. QED
    BY <1>2, <1>3, <1>4, <1>6, <1>7, <1>10, <1>11, <1>12
       DEF Next, Issue, Arrive, Policy, DurableWrite, Jobs

(* Whoever is in the queue of an instance is at its gate, and there once.  *)
THEOREM QueueInvariance == Spec => []QueueInv
  <1>1. Init => QueueInv
    BY DEF Init, QueueInv, QueueOf
  <1>2. LoopbackInv /\ QueueInv /\ [Next]_vars => QueueInv'
    BY QueueStep
  <1>3. QED
    BY <1>1, <1>2, LoopbackInvariance, PTL DEF Spec

(* While a request waits, the one that has the turn waits or decides at    *)
(* the same instance: no failure, answer or lost client leaves the gate    *)
(* to a request that will not pass it on (loopback-policy.ts:114-116).     *)
TurnIsTaken ==
    \A r \in Requests : job[r] = "waiting" =>
        LET first == Head(gate[at[r]]) IN
        first \in Requests /\ at[first] = at[r] /\ job[first] \in AtGate

(* TurnIsTaken holds of every instance, whatever fails or is killed. *)
THEOREM GateIsNeverLost == Spec => []TurnIsTaken
  <1>1. LoopbackInv /\ QueueInv => TurnIsTaken
    <2> SUFFICES ASSUME LoopbackInv, QueueInv, NEW r \in Requests, job[r] = "waiting"
                 PROVE  LET first == Head(gate[at[r]]) IN
                        first \in Requests /\ at[first] = at[r] /\ job[first] \in AtGate
      BY DEF TurnIsTaken
    <2>1. at[r] \in Instances /\ gate[at[r]] \in Seq(Requests)
      BY DEF LoopbackInv, TypeOK, JobInv, Jobs, Active
    <2>2. PICK i \in 1 .. Len(gate[at[r]]) : gate[at[r]][i] = r
      BY DEF LoopbackInv, GateInv
    <2>3. 1 \in 1 .. Len(gate[at[r]]) /\ Head(gate[at[r]]) = gate[at[r]][1]
      BY <2>1, <2>2
    <2>4. QED
      BY <2>1, <2>3 DEF QueueInv, QueueOf
  <1>2. QED
    BY <1>1, LoopbackInvariance, QueueInvariance, PTL
=============================================================================
