---------------------- MODULE SkillMaterializationProofs ----------------------
(***************************************************************************)
(* What is proved of SkillMaterialization for every value of the           *)
(* constants: its typing, and the safety properties that follow from the   *)
(* invariants of SkillMaterializationInvariants.                           *)
(***************************************************************************)
EXTENDS SkillMaterializationInvariants, TLAPS

-------------------------------------------------------------------------------
(* The operators on rows return rows.                                      *)

\* The hash of any binding rows is a hash.
LEMMA HashOfType ==
    ASSUME NEW sk \in [Skills -> SkillRow],
           NEW fresh \in SUBSET Skills, NEW leftover \in SUBSET Skills
    PROVE  HashOf(sk, fresh, leftover) \in Hash
BY DEF HashOf, Hash, Rows, SkillRow

\* update_thread_materialization_state and the three finalizers keep a row a row.
LEMMA RowUpdates ==
    ASSUME NEW row \in StateRow, NEW hash \in Hash
    PROVE  /\ WithDesired(row, hash) \in StateRow
           /\ WithSuccess(row, hash) \in StateRow
           /\ WithFailure(row) \in StateRow
           /\ WithDirtyIfNeeded(row) \in StateRow
<1>1. NoHash \in Hash
  BY DEF NoHash, Hash
<1>2. WithDesired(row, hash) \in StateRow
  BY <1>1 DEF WithDesired, StateRow, Status
<1>3. WithSuccess(row, hash) \in StateRow
  BY DEF WithSuccess, StateRow, Status
<1>4. WithFailure(row) \in StateRow
  BY DEF WithFailure, StateRow, Status
<1>5. WithDirtyIfNeeded(row) \in StateRow
  BY DEF WithDirtyIfNeeded, StateRow, Status
<1>. QED  BY <1>2, <1>3, <1>4, <1>5

\* Writing only the changed columns keeps a row a row.
LEMMA MergeType ==
    /\ \A a, b, c \in StateRow : MergeState(a, b, c) \in StateRow
    /\ \A a, b, c \in SkillRow : MergeSkill(a, b, c) \in SkillRow
BY DEF MergeState, MergeSkill, Column, StateRow, SkillRow

LEMMA NoStateRowType == NoStateRow \in StateRow
BY DEF NoStateRow, StateRow, Status, NoHash, Hash

LEMMA TouchType ==
    ASSUME NEW o \in SUBSET (Threads \X Threads), NEW ts \in SUBSET Threads
    PROVE  Touch(o, ts) \in SUBSET (Threads \X Threads)
BY DEF Touch

-------------------------------------------------------------------------------
(* Type correctness.                                                       *)

ThreadStatus == {"unborn", "live", "deleted"}

\* Every open request is one of the two kinds.
LEMMA RequestKinds ==
    ASSUME RequestsTypeOK, NEW r \in Requests, req[r].op # "none"
    PROVE  /\ req[r] \in SkillRequest \cup ThreadRequest
           /\ req[r].snap \in Snapshot
           /\ req[r].overtaken \in SUBSET Threads
           /\ req[r].op = "skill" => req[r] \in SkillRequest
           /\ req[r].op # "skill" => req[r] \in ThreadRequest /\ req[r].thread \in Threads
BY DEF RequestsTypeOK, Closed, SkillRequest, ThreadRequest

\* Opening a request with a well-typed record.
LEMMA OpenType ==
    ASSUME RequestsTypeOK, NEW r \in Requests,
           NEW q \in SkillRequest \cup ThreadRequest, Open(r, q)
    PROVE  /\ req' \in [Requests -> {Closed} \cup SkillRequest \cup ThreadRequest]
           /\ made' \in 0..MaxRequests
<1>. USE RequestAssumption
<1>1. made' \in 0..MaxRequests
  BY DEF Open, RequestsTypeOK
<1>2. req' \in [Requests -> {Closed} \cup SkillRequest \cup ThreadRequest]
  BY DEF Open, RequestsTypeOK
<1>. QED  BY <1>1, <1>2

LEMMA DatabaseType ==
    ASSUME RequestsTypeOK
    PROVE  Database \in Snapshot
BY DEF RequestsTypeOK, Database, Snapshot

LEMMA OpenSkillType ==
    ASSUME RequestsTypeOK, NEW r \in Requests, NEW s \in Skills, NEW row \in SkillRow,
           OpenSkill(r, s, row)
    PROVE  RequestsTypeOK'
<1>. DEFINE q == [op |-> "skill", skill |-> s, row |-> row, snap |-> Database, overtaken |-> {}]
<1>1. q \in SkillRequest
  BY DatabaseType DEF SkillRequest
<1>2. Open(r, q)
  BY DEF OpenSkill
<1>3. /\ req' \in [Requests -> {Closed} \cup SkillRequest \cup ThreadRequest]
      /\ made' \in 0..MaxRequests
  <2>. HIDE DEF q
  <2>. QED  BY <1>1, <1>2, OpenType
<1>. QED  BY <1>3 DEF OpenSkill, RequestsTypeOK

LEMMA OpenRequestType ==
    ASSUME RequestsTypeOK, NEW r \in Requests, OpenRequest(r)
    PROVE  RequestsTypeOK'
<1>. skill \in [Skills -> SkillRow]
  BY DEF RequestsTypeOK
<1>1. CASE CreateSkill(r)
  <2>1. PICK s \in Skills, on \in BOOLEAN :
            OpenSkill(r, s, [state |-> "live", enabled |-> on, version |-> FirstVersion])
    BY <1>1 DEF CreateSkill
  <2>2. [state |-> "live", enabled |-> on, version |-> FirstVersion] \in SkillRow
    BY VersionAssumption DEF SkillRow
  <2>. QED  BY <2>1, <2>2, OpenSkillType
<1>2. CASE UpdateSkill(r)
  <2>1. PICK s \in Skills, on \in BOOLEAN : OpenSkill(r, s, [skill[s] EXCEPT !.enabled = on])
    BY <1>2 DEF UpdateSkill
  <2>2. [skill[s] EXCEPT !.enabled = on] \in SkillRow
    BY DEF SkillRow
  <2>. QED  BY <2>1, <2>2, OpenSkillType
<1>3. CASE WriteFiles(r)
  <2>1. PICK s \in Skills, v \in Versions : OpenSkill(r, s, [skill[s] EXCEPT !.version = v])
    BY <1>3 DEF WriteFiles
  <2>2. [skill[s] EXCEPT !.version = v] \in SkillRow
    BY DEF SkillRow
  <2>. QED  BY <2>1, <2>2, OpenSkillType
<1>4. CASE DeleteSkill(r)
  <2>1. PICK s \in Skills : OpenSkill(r, s, [skill[s] EXCEPT !.state = "deleted"])
    BY <1>4 DEF DeleteSkill
  <2>2. [skill[s] EXCEPT !.state = "deleted"] \in SkillRow
    BY DEF SkillRow
  <2>. QED  BY <2>1, <2>2, OpenSkillType
<1>5. CASE CreateThread(r)
  <2>1. PICK t \in Threads :
            /\ thread' = [thread EXCEPT ![t] = "live"]
            /\ Open(r, [ op |-> "createThread", thread |-> t, overtaken |-> {},
                         snap |-> [Database EXCEPT !.thread[t] = "live"] ])
            /\ UNCHANGED <<skill, bound, mat, order, sandbox, lost>>
    BY <1>5 DEF CreateThread
  <2>. DEFINE q == [ op |-> "createThread", thread |-> t, overtaken |-> {},
                     snap |-> [Database EXCEPT !.thread[t] = "live"] ]
  <2>2. thread' \in [Threads -> ThreadStatus]
    BY <2>1 DEF RequestsTypeOK, ThreadStatus
  <2>3. [Database EXCEPT !.thread[t] = "live"] \in Snapshot
    BY DatabaseType DEF Snapshot
  <2>4. q \in ThreadRequest
    BY <2>3 DEF ThreadRequest
  <2>5. /\ req' \in [Requests -> {Closed} \cup SkillRequest \cup ThreadRequest]
        /\ made' \in 0..MaxRequests
    <3>1. Open(r, q)
      BY <2>1
    <3>. HIDE DEF q
    <3>. QED  BY <2>4, <3>1, OpenType
  <2>. QED  BY <2>1, <2>2, <2>5 DEF RequestsTypeOK, ThreadStatus
<1>6. CASE DeleteThread(r)
  <2>1. PICK t \in Threads :
            /\ Open(r, [ op |-> "deleteThread", thread |-> t, snap |-> Database,
                         overtaken |-> {} ])
            /\ UNCHANGED <<skill, thread, bound, mat, order, sandbox, lost>>
    BY <1>6 DEF DeleteThread
  <2>. DEFINE q == [ op |-> "deleteThread", thread |-> t, snap |-> Database, overtaken |-> {} ]
  <2>2. q \in ThreadRequest
    BY DatabaseType DEF ThreadRequest
  <2>3. /\ req' \in [Requests -> {Closed} \cup SkillRequest \cup ThreadRequest]
        /\ made' \in 0..MaxRequests
    <3>1. Open(r, q)
      BY <2>1
    <3>. HIDE DEF q
    <3>. QED  BY <2>2, <3>1, OpenType
  <2>. QED  BY <2>1, <2>3 DEF RequestsTypeOK
<1>. QED  BY <1>1, <1>2, <1>3, <1>4, <1>5, <1>6 DEF OpenRequest

\* A request is of no other kind, and closing one or marking one as overtaken keeps it so.
LEMMA CloseType ==
    ASSUME RequestsTypeOK, NEW r \in Requests, NEW ts \in SUBSET Threads
    PROVE  /\ [req EXCEPT ![r] = Closed]
                  \in [Requests -> {Closed} \cup SkillRequest \cup ThreadRequest]
           /\ [p \in Requests |->
                   IF p = r THEN Closed
                   ELSE IF req[p].op = "none" THEN req[p]
                   ELSE [req[p] EXCEPT !.overtaken = @ \cup ts]]
                  \in [Requests -> {Closed} \cup SkillRequest \cup ThreadRequest]
<1>1. ASSUME NEW p \in Requests, req[p].op # "none"
      PROVE  [req[p] EXCEPT !.overtaken = @ \cup ts] \in SkillRequest \cup ThreadRequest
  <2>1. CASE req[p].op = "skill"
    <3>1. req[p] \in SkillRequest
      BY <1>1, <2>1, RequestKinds
    <3>. QED  BY <3>1 DEF SkillRequest
  <2>2. CASE req[p].op # "skill"
    <3>1. req[p] \in ThreadRequest
      BY <1>1, <2>2, RequestKinds
    <3>. QED  BY <3>1 DEF ThreadRequest
  <2>. QED  BY <2>1, <2>2
<1>2. ASSUME NEW p \in Requests
      PROVE  req[p] \in {Closed} \cup SkillRequest \cup ThreadRequest
  BY DEF RequestsTypeOK
<1>3. req = [p \in Requests |-> req[p]]
  BY DEF RequestsTypeOK
<1>. QED  BY <1>1, <1>2, <1>3

LEMMA ViewType ==
    ASSUME RequestsTypeOK, NEW r \in Requests, req[r].op # "none"
    PROVE  /\ View(req[r]) \in [Skills -> SkillRow]
           /\ Targets(req[r]) \in SUBSET Threads
           /\ \A t \in Threads : NewDesired(req[r], t) \in Hash
           /\ EnabledIn(View(req[r])) \in SUBSET Skills
<1>1. View(req[r]) \in [Skills -> SkillRow]
  BY RequestKinds DEF View, SkillRequest, Snapshot
<1>2. EnabledIn(View(req[r])) \in SUBSET Skills
  BY DEF EnabledIn
<1>3. Targets(req[r]) \in SUBSET Threads
  BY RequestKinds DEF Targets
<1>4. ASSUME NEW t \in Threads
      PROVE  NewDesired(req[r], t) \in Hash
  <2>. DEFINE leftover == IF t \in req[r].overtaken
                          THEN req[r].snap.bound[t] \cap EnabledIn(View(req[r])) ELSE {}
  <2>1. leftover \in SUBSET Skills
    BY <1>2
  <2>. HIDE DEF leftover
  <2>2. HashOf(View(req[r]), EnabledIn(View(req[r])), leftover) \in Hash
    BY <1>1, <1>2, <2>1, HashOfType
  <2>. QED  BY <2>2 DEF NewDesired, leftover
<1>. QED  BY <1>1, <1>2, <1>3, <1>4

\* The marks stay on threads.
LEMMA LostType ==
    ASSUME RequestsTypeOK, NEW ts \in SUBSET Threads, NEW right
    PROVE  LostUpdates(ts, right) \in SUBSET Threads
BY DEF LostUpdates, RequestsTypeOK

\* sync_user_skill_bindings.
LEMMA SyncType ==
    ASSUME RequestsTypeOK, NEW r \in Requests, req[r].op # "none", Sync(r, req[r])
    PROVE  /\ bound' \in [Threads -> SUBSET Skills]
           /\ mat' \in [Threads -> StateRow]
           /\ order' \in SUBSET (Threads \X Threads)
           /\ req' \in [Requests -> {Closed} \cup SkillRequest \cup ThreadRequest]
           /\ lost' \in SUBSET Threads
<1>1. bound' \in [Threads -> SUBSET Skills]
  BY ViewType DEF Sync, RequestsTypeOK
<1>2. mat' \in [Threads -> StateRow]
  <2>1. ASSUME NEW t \in Threads
        PROVE  MergeState(mat[t], req[r].snap.mat[t],
                   WithDesired(req[r].snap.mat[t], NewDesired(req[r], t))) \in StateRow
    <3>1. mat[t] \in StateRow /\ req[r].snap.mat[t] \in StateRow
      BY RequestKinds DEF RequestsTypeOK, Snapshot
    <3>2. WithDesired(req[r].snap.mat[t], NewDesired(req[r], t)) \in StateRow
      BY <3>1, ViewType, RowUpdates
    <3>. QED  BY <3>1, <3>2, MergeType
  <2>. QED  BY <2>1 DEF Sync, RequestsTypeOK
<1>3. order' \in SUBSET (Threads \X Threads)
  BY ViewType, TouchType DEF Sync, RequestsTypeOK
<1>4. req' \in [Requests -> {Closed} \cup SkillRequest \cup ThreadRequest]
  BY ViewType, CloseType DEF Sync
<1>5. lost' \in SUBSET Threads
  BY ViewType, LostType DEF Sync
<1>. QED  BY <1>1, <1>2, <1>3, <1>4, <1>5

LEMMA DropRowType ==
    ASSUME RequestsTypeOK, NEW r \in Requests, NEW t \in Threads, DropRow(r, t)
    PROVE  /\ thread' \in [Threads -> ThreadStatus]
           /\ bound' \in [Threads -> SUBSET Skills]
           /\ mat' \in [Threads -> StateRow]
           /\ req' \in [Requests -> {Closed} \cup SkillRequest \cup ThreadRequest]
           /\ lost' \in SUBSET Threads
<1>1. req' \in [Requests -> {Closed} \cup SkillRequest \cup ThreadRequest]
  BY CloseType DEF DropRow
<1>2. mat' \in [Threads -> StateRow]
  BY NoStateRowType DEF DropRow, RequestsTypeOK
<1>. QED  BY <1>1, <1>2 DEF DropRow, RequestsTypeOK, ThreadStatus

LEMMA RequestStepType ==
    ASSUME RequestsTypeOK, NEW r \in Requests, RequestStep(r)
    PROVE  RequestsTypeOK'
<1>1. CASE Provision(r)
  BY <1>1 DEF Provision, RequestsTypeOK
<1>2. CASE RemoveSandbox(r)
  BY <1>2 DEF RemoveSandbox, RequestsTypeOK
<1>3. CASE CommitSkill(r)
  <2>1. req[r] \in SkillRequest
    BY <1>3, RequestKinds DEF CommitSkill
  <2>2. skill' \in [Skills -> SkillRow]
    <3>1. /\ skill[req[r].skill] \in SkillRow
          /\ req[r].snap.skill[req[r].skill] \in SkillRow
          /\ req[r].row \in SkillRow
      BY <2>1 DEF SkillRequest, Snapshot, RequestsTypeOK
    <3>2. MergeSkill(skill[req[r].skill], req[r].snap.skill[req[r].skill], req[r].row) \in SkillRow
      BY <3>1, MergeType
    <3>. QED  BY <1>3, <3>2 DEF CommitSkill, RequestsTypeOK
  <2>. QED  BY <1>3, <2>2, SyncType DEF CommitSkill, RequestsTypeOK
<1>4. CASE CommitThread(r)
  BY <1>4, SyncType DEF CommitThread, RequestsTypeOK
<1>5. CASE CommitDeleteThread(r)
  BY <1>5, RequestKinds, DropRowType DEF CommitDeleteThread, RequestsTypeOK, ThreadStatus
<1>6. CASE UndoProvision(r)
  BY <1>6, RequestKinds, DropRowType DEF UndoProvision, RequestsTypeOK, ThreadStatus
<1>7. CASE UndoCreate(r)
  BY <1>7, RequestKinds, DropRowType DEF UndoCreate, RequestsTypeOK, ThreadStatus
<1>8. CASE Abort(r)
  <2>1. req' \in [Requests -> {Closed} \cup SkillRequest \cup ThreadRequest]
    BY <1>8, CloseType DEF Abort
  <2>. QED  BY <1>8, <2>1 DEF Abort, RequestsTypeOK
<1>. QED  BY <1>1, <1>2, <1>3, <1>4, <1>5, <1>6, <1>7, <1>8 DEF RequestStep, CloseRequest

LEMMA InitType == Init => TypeOK
<1>. SUFFICES ASSUME Init PROVE TypeOK
  OBVIOUS
<1>. USE RequestAssumption, WorkerAssumption, VersionAssumption
<1>1. skill \in [Skills -> SkillRow]
  BY DEF Init, RequestsInit, SkillRow
<1>2. mat \in [Threads -> StateRow]
  <2>1. HashOf(skill, InitialSkills, {}) \in Hash
    BY <1>1, HashOfType
  <2>2. WithDesired(NoStateRow, HashOf(skill, InitialSkills, {})) \in StateRow
    BY <2>1, NoStateRowType, RowUpdates
  <2>. QED  BY <2>2, NoStateRowType DEF Init, RequestsInit
<1>3. thread \in [Threads -> ThreadStatus]
  BY DEF Init, RequestsInit, ThreadStatus
<1>4. req \in [Requests -> {Closed} \cup SkillRequest \cup ThreadRequest]
  BY DEF Init, RequestsInit
<1>5. /\ bound \in [Threads -> SUBSET Skills]
      /\ order \in SUBSET (Threads \X Threads)
      /\ sandbox \in [Threads -> BOOLEAN]
      /\ made \in 0..MaxRequests
      /\ lost \in SUBSET Threads
  BY DEF Init, RequestsInit
<1>6. /\ worker \in [Workers -> {Idle} \cup Job \cup Finalizer]
      /\ files \in [Threads -> SUBSET (Hash \X Rows)]
      /\ crashes \in 0..MaxCrashes
      /\ orphans \in SUBSET Threads
  BY DEF Init
<1>. QED  BY <1>1, <1>2, <1>3, <1>4, <1>5, <1>6 DEF TypeOK, RequestsTypeOK, ThreadStatus

\* A busy worker has a job or is finalizing one.
LEMMA WorkerKinds ==
    ASSUME TypeOK, NEW w \in Workers, worker[w].pc # "idle"
    PROVE  /\ worker[w] \in Job \cup Finalizer
           /\ worker[w].thread \in Threads
           /\ worker[w].hash \in Hash
           /\ worker[w].pc = "finalizing" => worker[w] \in Finalizer
           /\ worker[w].pc # "finalizing" => worker[w] \in Job
<1>1. worker[w] \in {Idle} \cup Job \cup Finalizer
  BY DEF TypeOK
<1>2. worker[w] # Idle
  BY DEF Idle
<1>. QED  BY <1>1, <1>2 DEF Job, Finalizer

LEMMA CurrentHashType ==
    ASSUME RequestsTypeOK, NEW t \in Threads
    PROVE  CurrentHash(t) \in Hash
<1>1. bound[t] \cap EnabledIn(skill) \in SUBSET Skills
  BY DEF RequestsTypeOK
<1>. QED  BY <1>1, HashOfType DEF CurrentHash, RequestsTypeOK

\* The outcome written back is a row.
LEMMA FinalizedType ==
    ASSUME NEW f \in Finalizer
    PROVE  Finalized(f) \in StateRow
<1>1. f.seen \in StateRow /\ f.hash \in Hash /\ f.outcome \in {"uploaded", "outdated", "failed"}
  BY DEF Finalizer
<1>. QED  BY <1>1, RowUpdates DEF Finalized

LEMMA WorkerStepType ==
    ASSUME TypeOK, NEW w \in Workers, WorkerStep(w)
    PROVE  TypeOK'
<1>1. CASE Claim(w)
  <2>1. PICK t \in Claimable :
            /\ mat' = [mat EXCEPT ![t].status = "syncing"]
            /\ order' = Touch(order, {t})
            /\ worker' = [worker EXCEPT ![w] = [ pc |-> "claimed", thread |-> t,
                                                 hash |-> mat[t].desired, payload |-> NoHash ]]
    BY <1>1 DEF Claim
  <2>2. t \in Threads /\ mat[t] \in StateRow
    BY DEF Claimable, TypeOK, RequestsTypeOK
  <2>3. mat' \in [Threads -> StateRow]
    BY <2>1, <2>2 DEF TypeOK, RequestsTypeOK, StateRow, Status
  <2>4. order' \in SUBSET (Threads \X Threads)
    BY <2>1, <2>2, TouchType DEF TypeOK, RequestsTypeOK
  <2>5. [pc |-> "claimed", thread |-> t, hash |-> mat[t].desired, payload |-> NoHash] \in Job
    BY <2>2 DEF Job, StateRow, NoHash, Hash
  <2>6. worker' \in [Workers -> {Idle} \cup Job \cup Finalizer]
    BY <2>1, <2>5 DEF TypeOK
  <2>. QED  BY <1>1, <2>3, <2>4, <2>6 DEF Claim, apiVars, TypeOK, RequestsTypeOK
<1>2. CASE Build(w)
  <2>1. worker[w] \in Job
    BY <1>2, WorkerKinds DEF Build
  <2>2. CurrentHash(worker[w].thread) \in Hash
    BY <2>1, CurrentHashType DEF Job, TypeOK
  <2>3. /\ [worker[w] EXCEPT !.pc = "built", !.payload = CurrentHash(worker[w].thread)] \in Job
        /\ [worker[w] EXCEPT !.pc = "outdated"] \in Job
    BY <2>1, <2>2 DEF Job
  <2>4. worker' \in [Workers -> {Idle} \cup Job \cup Finalizer]
    BY <1>2, <2>3 DEF Build, TypeOK
  <2>. QED  BY <1>2, <2>4 DEF Build, apiVars, TypeOK, RequestsTypeOK
<1>3. CASE UploadAll(w)
  <2>1. worker[w] \in Job
    BY <1>3, WorkerKinds DEF UploadAll
  <2>2. [worker[w] EXCEPT !.pc = "uploaded"] \in Job
    BY <2>1 DEF Job
  <2>3. worker' \in [Workers -> {Idle} \cup Job \cup Finalizer]
    BY <1>3, <2>2 DEF UploadAll, TypeOK
  <2>4. {worker[w].hash} \X worker[w].payload \subseteq Hash \X Rows
    BY <2>1 DEF Job, Hash
  <2>5. files' \in [Threads -> SUBSET (Hash \X Rows)]
    BY <1>3, <2>4 DEF UploadAll, TypeOK
  <2>. QED  BY <1>3, <2>3, <2>5 DEF UploadAll, apiVars, TypeOK, RequestsTypeOK
<1>4. CASE UploadFails(w)
  <2>1. worker[w] \in Job
    BY <1>4, WorkerKinds DEF UploadFails
  <2>2. PICK error \in {"failed", "outdated"} : worker' = [worker EXCEPT ![w].pc = error]
    BY <1>4 DEF UploadFails
  <2>3. [worker[w] EXCEPT !.pc = error] \in Job
    BY <2>1 DEF Job
  <2>4. worker' \in [Workers -> {Idle} \cup Job \cup Finalizer]
    BY <2>2, <2>3 DEF TypeOK
  <2>5. PICK part \in SUBSET worker[w].payload :
            files' = [files EXCEPT ![worker[w].thread] = @ \cup ({worker[w].hash} \X part)]
    BY <1>4 DEF UploadFails
  <2>6. {worker[w].hash} \X part \subseteq Hash \X Rows
    BY <2>1 DEF Job, Hash
  <2>7. files' \in [Threads -> SUBSET (Hash \X Rows)]
    BY <2>5, <2>6 DEF TypeOK
  <2>. QED  BY <1>4, <2>4, <2>7 DEF UploadFails, apiVars, TypeOK, RequestsTypeOK
<1>5. CASE FinalizeRead(w)
  <2>1. worker[w] \in Job
    BY <1>5, WorkerKinds DEF FinalizeRead
  <2>2. [ pc |-> "finalizing", outcome |-> worker[w].pc, thread |-> worker[w].thread,
          hash |-> worker[w].hash, seen |-> mat[worker[w].thread] ] \in Finalizer
    BY <1>5, <2>1 DEF FinalizeRead, Job, Finalizer, TypeOK, RequestsTypeOK
  <2>3. worker' \in [Workers -> {Idle} \cup Job \cup Finalizer]
    BY <1>5, <2>2 DEF FinalizeRead, TypeOK
  <2>. QED  BY <1>5, <2>3 DEF FinalizeRead, apiVars, TypeOK, RequestsTypeOK
<1>6. CASE FinalizeWrite(w)
  <2>1. worker[w] \in Finalizer
    BY <1>6, WorkerKinds DEF FinalizeWrite
  <2>2. worker[w].thread \in Threads /\ worker[w].seen \in StateRow
    BY <2>1 DEF Finalizer
  <2>3. MergeState(mat[worker[w].thread], worker[w].seen, Finalized(worker[w])) \in StateRow
    BY <2>1, <2>2, FinalizedType, MergeType DEF TypeOK, RequestsTypeOK
  <2>4. mat' \in [Threads -> StateRow]
    BY <1>6, <2>3 DEF FinalizeWrite, TypeOK, RequestsTypeOK
  <2>5. order' \in SUBSET (Threads \X Threads)
    BY <1>6, <2>2, TouchType DEF FinalizeWrite, TypeOK, RequestsTypeOK
  <2>6. worker' \in [Workers -> {Idle} \cup Job \cup Finalizer]
    BY <1>6 DEF FinalizeWrite, TypeOK
  <2>7. lost' \in SUBSET Threads
    BY <1>6, <2>2, LostType DEF FinalizeWrite, TypeOK, RequestsTypeOK
  <2>8. orphans' \in SUBSET Threads
    BY <1>6 DEF FinalizeWrite, StillOrphaned, TypeOK
  <2>. QED  BY <1>6, <2>4, <2>5, <2>6, <2>7, <2>8 DEF FinalizeWrite, apiVars, TypeOK, RequestsTypeOK
<1>. QED  BY <1>1, <1>2, <1>3, <1>4, <1>5, <1>6 DEF WorkerStep

LEMMA CrashType ==
    ASSUME TypeOK, NEW w \in Workers, Crash(w)
    PROVE  TypeOK'
<1>1. worker' \in [Workers -> {Idle} \cup Job \cup Finalizer]
  BY DEF Crash, TypeOK
<1>2. crashes' \in 0..MaxCrashes
  BY WorkerAssumption DEF Crash, TypeOK
<1>3. orphans' \in SUBSET Threads
  BY DEF Crash, TypeOK
<1>. QED  BY <1>1, <1>2, <1>3 DEF Crash, apiVars, TypeOK, RequestsTypeOK

LEMMA NextType == TypeOK /\ [Next]_vars => TypeOK'
<1>. SUFFICES ASSUME TypeOK, [Next]_vars PROVE TypeOK'
  OBVIOUS
<1>1. ASSUME NEW r \in Requests, ApiStep(r) PROVE TypeOK'
  <2>1. RequestsTypeOK'
    BY <1>1, OpenRequestType, RequestStepType DEF ApiStep, TypeOK
  <2>. QED  BY <1>1, <2>1 DEF ApiStep, WorkersKeep, StillOrphaned, TypeOK
<1>2. CASE UNCHANGED vars
  BY <1>2 DEF vars, TypeOK, RequestsTypeOK
<1>. QED  BY <1>1, <1>2, WorkerStepType, CrashType DEF Next

(***************************************************************************)
(* Every reachable state is a state of the tables, requests and workers.   *)
(***************************************************************************)
THEOREM TypeCorrect == Spec => []TypeOK
BY InitType, NextType, PTL DEF Spec

-------------------------------------------------------------------------------
(* ServedRootIsComplete, with any overlap of the transactions.             *)

\* A request never invents a materialized hash: it keeps the one stored or clears it.
LEMMA RequestsKeepHave ==
    ASSUME TypeOK, NEW r \in Requests, OpenRequest(r) \/ RequestStep(r)
    PROVE  \A t \in Threads : mat'[t].have \in {mat[t].have, NoHash}
<1>1. CASE OpenRequest(r)
  BY <1>1 DEF OpenRequest, CreateSkill, UpdateSkill, WriteFiles, DeleteSkill, OpenSkill,
              CreateThread, DeleteThread
<1>2. CASE Provision(r) \/ RemoveSandbox(r) \/ Abort(r)
  BY <1>2 DEF Provision, RemoveSandbox, Abort
<1>3. CASE CommitSkill(r) \/ CommitThread(r)
  <2>1. Sync(r, req[r])
    BY <1>3 DEF CommitSkill, CommitThread
  <2>2. ASSUME NEW t \in Threads
        PROVE  MergeState(mat[t], req[r].snap.mat[t],
                   WithDesired(req[r].snap.mat[t], NewDesired(req[r], t))).have
                      \in {mat[t].have, NoHash}
    BY DEF MergeState, Column, WithDesired
  <2>. QED  BY <2>1, <2>2 DEF Sync, TypeOK, RequestsTypeOK
<1>4. CASE CommitDeleteThread(r) \/ UndoProvision(r) \/ UndoCreate(r)
  <2>1. DropRow(r, req[r].thread)
    BY <1>4 DEF CommitDeleteThread, UndoProvision, UndoCreate
  <2>. QED  BY <2>1 DEF DropRow, NoStateRow, TypeOK, RequestsTypeOK
<1>. QED  BY <1>1, <1>2, <1>3, <1>4 DEF RequestStep, CloseRequest

\* Files only appear, and a materialized hash is cleared or stays.
LEMMA UploadInvKept ==
    ASSUME TypeOK, UploadInv, UNCHANGED <<worker, files>>,
           \A t \in Threads : mat'[t].have \in {mat[t].have, NoHash}
    PROVE  UploadInv'
BY DEF UploadInv, NoForeignFile, HaveIsUploaded, PayloadIsHash, SuccessIsUploaded, Uploaded, NoHash

LEMMA UploadInvInit == Init => UploadInv
<1>. SUFFICES ASSUME Init PROVE UploadInv
  OBVIOUS
<1>1. ASSUME NEW t \in Threads PROVE mat[t].have = NoHash
  BY DEF Init, RequestsInit, WithDesired, NoStateRow
<1>. QED
  BY <1>1 DEF Init, Idle, UploadInv, NoForeignFile, HaveIsUploaded, PayloadIsHash,
              SuccessIsUploaded, Uploaded, NoHash

\* The hash a finalizer records is its own or the one stored.
LEMMA FinalizedHave ==
    ASSUME NEW f \in Finalizer, NEW row \in StateRow
    PROVE  MergeState(row, f.seen, Finalized(f)).have
              \in {row.have} \cup (IF f.outcome = "uploaded" THEN {f.hash} ELSE {})
<1>. f.seen \in StateRow /\ f.outcome \in {"uploaded", "outdated", "failed"}
  BY DEF Finalizer
<1>1. CASE f.outcome = "uploaded"
  <2>1. Finalized(f).have = f.hash
    BY <1>1 DEF Finalized, WithSuccess, StateRow
  <2>. QED  BY <1>1, <2>1 DEF MergeState, Column
<1>2. CASE f.outcome # "uploaded"
  <2>1. Finalized(f).have = f.seen.have
    BY <1>2 DEF Finalized, WithFailure, WithDirtyIfNeeded, StateRow
  <2>. QED  BY <1>2, <2>1 DEF MergeState, Column
<1>. QED  BY <1>1, <1>2

LEMMA UploadInvNext == TypeOK /\ UploadInv /\ [Next]_vars => UploadInv'
<1>. SUFFICES ASSUME TypeOK, UploadInv, [Next]_vars PROVE UploadInv'
  OBVIOUS
<1>. USE DEF UploadInv, NoForeignFile, HaveIsUploaded, PayloadIsHash, SuccessIsUploaded, Uploaded
<1>1. ASSUME NEW r \in Requests, ApiStep(r) PROVE UploadInv'
  BY <1>1, RequestsKeepHave, UploadInvKept DEF ApiStep, WorkersKeep
<1>2. ASSUME NEW w \in Workers, Claim(w) PROVE UploadInv'
  <2>1. PICK t \in Threads :
            /\ mat' = [mat EXCEPT ![t].status = "syncing"]
            /\ worker' = [worker EXCEPT ![w] = [ pc |-> "claimed", thread |-> t,
                                                 hash |-> mat[t].desired, payload |-> NoHash ]]
    BY <1>2 DEF Claim, Claimable
  <2>2. \A u \in Threads : mat'[u].have = mat[u].have
    BY <2>1 DEF TypeOK, RequestsTypeOK, StateRow
  <2>. QED  BY <1>2, <2>1, <2>2 DEF Claim, TypeOK
<1>3. ASSUME NEW w \in Workers, Build(w) PROVE UploadInv'
  <2>1. worker[w] \in Job
    BY <1>3, WorkerKinds DEF Build
  <2>2. worker'[w].pc = "built" => worker'[w].payload = worker'[w].hash
    BY <1>3, <2>1 DEF Build, Job, TypeOK
  <2>3. worker'[w].pc \in {"built", "outdated"}
    BY <1>3, <2>1 DEF Build, Job, TypeOK
  <2>4. \A v \in Workers \ {w} : worker'[v] = worker[v]
    BY <1>3 DEF Build, TypeOK
  <2>. QED  BY <1>3, <2>2, <2>3, <2>4 DEF Build
<1>4. ASSUME NEW w \in Workers, UploadAll(w) PROVE UploadInv'
  <2>1. worker[w] \in Job /\ worker[w].payload = worker[w].hash
    BY <1>4, WorkerKinds DEF UploadAll
  <2>. DEFINE t == worker[w].thread
              hash == worker[w].hash
  <2>2. /\ t \in Threads
        /\ files'[t] = files[t] \cup ({hash} \X hash)
        /\ \A u \in Threads \ {t} : files'[u] = files[u]
    BY <1>4, <2>1 DEF UploadAll, Job, TypeOK
  <2>3. /\ worker'[w].pc = "uploaded" /\ worker'[w].thread = t /\ worker'[w].hash = hash
        /\ \A v \in Workers \ {w} : worker'[v] = worker[v]
    BY <1>4, <2>1 DEF UploadAll, Job, TypeOK
  <2>4. mat' = mat
    BY <1>4 DEF UploadAll
  <2>. HIDE DEF t, hash
  <2>5. NoForeignFile'
    BY <2>2
  <2>6. HaveIsUploaded'
    BY <2>2, <2>4
  <2>7. PayloadIsHash'
    BY <2>3
  <2>8. SuccessIsUploaded'
    <3>1. {hash} \X hash \subseteq files'[t]
      BY <2>2
    <3>2. \A u \in Threads : files[u] \subseteq files'[u]
      BY <2>2
    <3>3. \A v \in Workers : worker[v].pc # "idle" => worker[v].thread \in Threads
      BY WorkerKinds
    <3>. QED  BY <2>2, <2>3, <3>2, <3>3
  <2>. QED  BY <2>5, <2>6, <2>7, <2>8
<1>5. ASSUME NEW w \in Workers, UploadFails(w) PROVE UploadInv'
  <2>1. worker[w] \in Job /\ worker[w].payload = worker[w].hash
    BY <1>5, WorkerKinds DEF UploadFails
  <2>. DEFINE t == worker[w].thread
              hash == worker[w].hash
  <2>2. PICK part \in SUBSET hash : files' = [files EXCEPT ![t] = @ \cup ({hash} \X part)]
    BY <1>5, <2>1 DEF UploadFails
  <2>3. /\ t \in Threads
        /\ files'[t] = files[t] \cup ({hash} \X part)
        /\ \A u \in Threads \ {t} : files'[u] = files[u]
    BY <2>1, <2>2 DEF Job, TypeOK
  <2>4. /\ worker'[w].pc \in {"failed", "outdated"}
        /\ \A v \in Workers \ {w} : worker'[v] = worker[v]
    BY <1>5, <2>1 DEF UploadFails, Job, TypeOK
  <2>5. mat' = mat
    BY <1>5 DEF UploadFails
  <2>. HIDE DEF t, hash
  <2>6. NoForeignFile'
    BY <2>3
  <2>7. \A u \in Threads : files[u] \subseteq files'[u]
    BY <2>3
  <2>8. \A v \in Workers : worker[v].pc # "idle" => worker[v].thread \in Threads
    BY WorkerKinds
  <2>9. HaveIsUploaded'
    BY <2>5, <2>7
  <2>10. PayloadIsHash'
    BY <2>4
  <2>11. SuccessIsUploaded'
    BY <2>4, <2>7, <2>8
  <2>. QED  BY <2>6, <2>9, <2>10, <2>11
<1>6. ASSUME NEW w \in Workers, FinalizeRead(w) PROVE UploadInv'
  <2>1. \/ worker'[w] = Idle
        \/ /\ worker'[w].pc = "finalizing" /\ worker'[w].outcome = worker[w].pc
           /\ worker'[w].thread = worker[w].thread /\ worker'[w].hash = worker[w].hash
    BY <1>6 DEF FinalizeRead, TypeOK
  <2>2. \A v \in Workers \ {w} : worker'[v] = worker[v]
    BY <1>6 DEF FinalizeRead, TypeOK
  <2>. QED  BY <1>6, <2>1, <2>2 DEF FinalizeRead, Idle
<1>7. ASSUME NEW w \in Workers, FinalizeWrite(w) PROVE UploadInv'
  <2>1. worker[w] \in Finalizer
    BY <1>7, WorkerKinds DEF FinalizeWrite
  <2>. DEFINE t == worker[w].thread
              row == MergeState(mat[t], worker[w].seen, Finalized(worker[w]))
  <2>2. /\ t \in Threads
        /\ mat' = mat \/ mat' = [mat EXCEPT ![t] = row]
    BY <1>7, <2>1 DEF FinalizeWrite, Finalizer
  <2>3. row.have \in {mat[t].have} \cup (IF worker[w].outcome = "uploaded" THEN {worker[w].hash} ELSE {})
    BY <2>1, <2>2, FinalizedHave DEF TypeOK, RequestsTypeOK
  <2>. HIDE DEF row
  <2>4. HaveIsUploaded'
    <3>1. Uploaded(t, row.have)
      BY <1>7, <2>2, <2>3 DEF FinalizeWrite
    <3>. HIDE DEF t
    <3>2. files' = files
      BY <1>7 DEF FinalizeWrite
    <3>. QED  BY <2>2, <3>1, <3>2 DEF TypeOK, RequestsTypeOK
  <2>5. worker'[w] = Idle /\ \A v \in Workers \ {w} : worker'[v] = worker[v]
    BY <1>7 DEF FinalizeWrite, TypeOK
  <2>. QED  BY <1>7, <2>4, <2>5 DEF FinalizeWrite, Idle
<1>8. ASSUME NEW w \in Workers, Crash(w) PROVE UploadInv'
  <2>1. worker'[w] = Idle /\ \A v \in Workers \ {w} : worker'[v] = worker[v]
    BY <1>8 DEF Crash, TypeOK
  <2>. QED  BY <1>8, <2>1 DEF Crash, Idle
<1>9. CASE UNCHANGED vars
  BY <1>9 DEF vars
<1>. QED  BY <1>1, <1>2, <1>3, <1>4, <1>5, <1>6, <1>7, <1>8, <1>9 DEF Next, WorkerStep

LEMMA UploadInvServes == UploadInv => ServedRootIsComplete
<1>. SUFFICES ASSUME UploadInv, NEW t \in Threads
              PROVE  {f[2] : f \in {g \in files[t] : g[1] = mat[t].have}} = mat[t].have
  BY DEF ServedRootIsComplete, ServedRoot
<1>. DEFINE root == mat[t].have
<1>1. \A f \in files[t] : f[2] \in f[1]
  BY DEF UploadInv, NoForeignFile
<1>2. {root} \X root \subseteq files[t]
  BY DEF UploadInv, HaveIsUploaded, Uploaded
<1>. HIDE DEF root
<1>3. ASSUME NEW row \in root
      PROVE  row \in {f[2] : f \in {g \in files[t] : g[1] = root}}
  <2>1. <<root, row>> \in files[t]
    BY <1>2
  <2>2. <<root, row>>[1] = root /\ <<root, row>>[2] = row
    OBVIOUS
  <2>. QED  BY <2>1, <2>2
<1>4. {f[2] : f \in {g \in files[t] : g[1] = root}} = root
  BY <1>1, <1>3
<1>. QED  BY <1>4 DEF root

(***************************************************************************)
(* Whatever transactions overlap, uploads fail or workers die, the root    *)
(* the agent reads its skills from holds the skill set it is named after.  *)
(***************************************************************************)
THEOREM ServedRootCorrect == Spec => []ServedRootIsComplete
<1>1. Init => TypeOK /\ UploadInv
  BY InitType, UploadInvInit
<1>2. TypeOK /\ UploadInv /\ [Next]_vars => (TypeOK /\ UploadInv)'
  BY NextType, UploadInvNext
<1>3. TypeOK /\ UploadInv => ServedRootIsComplete
  BY UploadInvServes
<1>. QED  BY <1>1, <1>2, <1>3, PTL DEF Spec

(***************************************************************************)
(* The same holds of an upload under way: a payload is what its hash names *)
(* from build_materialization_file_payload to the finalizer.               *)
(***************************************************************************)
THEOREM UploadCorrect == Spec => []UploadInv
<1>1. Init => TypeOK /\ UploadInv
  BY InitType, UploadInvInit
<1>2. TypeOK /\ UploadInv /\ [Next]_vars => (TypeOK /\ UploadInv)'
  BY NextType, UploadInvNext
<1>. QED  BY <1>1, <1>2, PTL DEF Spec

-------------------------------------------------------------------------------
(***************************************************************************)
(* What the materialization state of a thread says is true: proved for any *)
(* overlap of requests and workers and any crash, of every row that is not *)
(* lost (ReadyMeansServed, SyncingIsHeld); and for one request at a time,  *)
(* whatever the workers do, of the desired hash (DesiredDescribesBindings  *)
(* and the action properties), which TLC refutes for two.                  *)
(***************************************************************************)

-------------------------------------------------------------------------------
(* Rows.                                                                   *)

\* The status of a row agrees with its two hashes.
Truthful(row) ==
    /\ row.status = "ready" => row.have = row.desired
    /\ Pending(row) => row.status \in {"dirty", "syncing"}
    /\ row.status = "syncing" \/ (row.status = "dirty" /\ row.desired # NoHash) => Pending(row)

\* The functions of skills_service.py return truthful rows.
LEMMA TruthfulUpdates ==
    ASSUME NEW row \in StateRow, NEW hash \in Hash
    PROVE  /\ Truthful(WithDesired(row, hash))
           /\ Truthful(WithSuccess(row, hash))
           /\ Truthful(WithFailure(row))
           /\ Truthful(row) => Truthful(WithDirtyIfNeeded(row))
           /\ Truthful(NoStateRow)
<1>. USE DEF Truthful, Pending
<1>1. Truthful(WithDesired(row, hash))
  BY DEF WithDesired
<1>2. Truthful(WithSuccess(row, hash))
  BY DEF WithSuccess, StateRow
<1>3. Truthful(WithFailure(row))
  BY DEF WithFailure, StateRow
<1>4. Truthful(row) => Truthful(WithDirtyIfNeeded(row))
  BY DEF WithDirtyIfNeeded, StateRow
<1>5. Truthful(NoStateRow)
  BY DEF NoStateRow
<1>. QED  BY <1>1, <1>2, <1>3, <1>4, <1>5

\* An UPDATE writes the whole row when nobody wrote it since it was read.
LEMMA MergeSame ==
    /\ \A x, y \in StateRow : MergeState(x, x, y) = y
    /\ \A x, y \in SkillRow : MergeSkill(x, x, y) = y
BY DEF MergeState, MergeSkill, Column, StateRow, SkillRow

LEMMA RowsAreTruthful ==
    ClaimableIsPending /\ ReadyMeansServed <=> \A t \in Threads \ lost : Truthful(mat[t])
BY DEF ClaimableIsPending, ReadyMeansServed, Truthful

-------------------------------------------------------------------------------
(* Opening and closing a request.                                          *)

\* A request opens on a snapshot of the tables.
LEMMA OpenedOnSnapshot ==
    ASSUME TypeOK, NEW r \in Requests, OpenRequest(r)
    PROVE  /\ UNCHANGED <<skill, bound, mat, sandbox>>
           /\ \A t \in Threads : thread[t] = "live" => thread'[t] = "live"
           /\ \A p \in Requests \ {r} : req'[p] = req[p]
           /\ req'[r].op # "none" /\ req'[r].overtaken = {}
           /\ req'[r].snap = [skill |-> skill, thread |-> thread', bound |-> bound, mat |-> mat]
<1>1. ASSUME NEW s \in Skills, NEW row, OpenSkill(r, s, row)
      PROVE  /\ UNCHANGED <<skill, bound, mat, sandbox, thread>>
             /\ \A p \in Requests \ {r} : req'[p] = req[p]
             /\ req'[r].op # "none" /\ req'[r].overtaken = {} /\ req'[r].snap = Database
  BY <1>1 DEF OpenSkill, Open, TypeOK, RequestsTypeOK
<1>2. CASE CreateSkill(r) \/ UpdateSkill(r) \/ WriteFiles(r) \/ DeleteSkill(r)
  BY <1>1, <1>2 DEF CreateSkill, UpdateSkill, WriteFiles, DeleteSkill, Database
<1>3. CASE CreateThread(r)
  <2>1. PICK t \in Threads :
            /\ thread[t] = "unborn"
            /\ thread' = [thread EXCEPT ![t] = "live"]
            /\ Open(r, [ op |-> "createThread", thread |-> t, overtaken |-> {},
                         snap |-> [Database EXCEPT !.thread[t] = "live"] ])
            /\ UNCHANGED <<skill, bound, mat, order, sandbox, lost>>
    BY <1>3 DEF CreateThread
  <2>2. [Database EXCEPT !.thread[t] = "live"]
            = [skill |-> skill, thread |-> thread', bound |-> bound, mat |-> mat]
    BY <2>1 DEF Database
  <2>. QED  BY <2>1, <2>2 DEF Open, TypeOK, RequestsTypeOK
<1>4. CASE DeleteThread(r)
  BY <1>4 DEF DeleteThread, Open, Database, TypeOK, RequestsTypeOK
<1>. QED  BY <1>2, <1>3, <1>4 DEF OpenRequest

LEMMA ClosedRequest ==
    ASSUME TypeOK, NEW r \in Requests, CloseRequest(r)
    PROVE  /\ req[r].op # "none"
           /\ req'[r].op = "none"
           /\ \A p \in Requests : req[p].op = "none" => req'[p].op = "none"
<1>1. CASE CommitSkill(r) \/ CommitThread(r)
  BY <1>1 DEF CommitSkill, CommitThread, Sync, Closed, TypeOK, RequestsTypeOK
<1>2. CASE CommitDeleteThread(r) \/ UndoProvision(r) \/ UndoCreate(r) \/ Abort(r)
  BY <1>2 DEF CommitDeleteThread, UndoProvision, UndoCreate, Abort, DropRow, Closed,
              TypeOK, RequestsTypeOK
<1>. QED  BY <1>1, <1>2 DEF CloseRequest

\* What closing a request does to a state row.
LEMMA ClosedRows ==
    ASSUME TypeOK, NEW r \in Requests, CloseRequest(r), NEW t \in Threads
    PROVE  \/ mat'[t] = mat[t]
           \/ mat'[t] = NoStateRow
           \/ /\ Sync(r, req[r])
              /\ mat'[t] = MergeState(mat[t], req[r].snap.mat[t],
                               WithDesired(req[r].snap.mat[t], NewDesired(req[r], t)))
<1>1. CASE CommitSkill(r) \/ CommitThread(r)
  BY <1>1 DEF CommitSkill, CommitThread, Sync
<1>2. CASE CommitDeleteThread(r) \/ UndoProvision(r) \/ UndoCreate(r) \/ Abort(r)
  BY <1>2 DEF CommitDeleteThread, UndoProvision, UndoCreate, Abort, DropRow, TypeOK, RequestsTypeOK
<1>. QED  BY <1>1, <1>2 DEF CloseRequest

-------------------------------------------------------------------------------
(* Sessions that overlap in any way, and crashes at any point.             *)

LEMMA StatusInvInit == Init => StatusInv
<1>. SUFFICES ASSUME Init PROVE StatusInv
  OBVIOUS
<1>1. TypeOK
  BY InitType
<1>2. ASSUME NEW t \in Threads PROVE Truthful(mat[t])
  <2>1. HashOf(skill, InitialSkills, {}) \in Hash
    BY <1>1, RequestAssumption, HashOfType DEF TypeOK, RequestsTypeOK
  <2>2. mat[t] = WithDesired(NoStateRow, HashOf(skill, InitialSkills, {})) \/ mat[t] = NoStateRow
    BY DEF Init, RequestsInit
  <2>. QED  BY <2>1, <2>2, NoStateRowType, TruthfulUpdates
<1>. QED  BY <1>2, RowsAreTruthful DEF StatusInv

\* A row that is not marked after a request was kept, dropped, or decided as it was.
LEMMA RequestMarks ==
    ASSUME TypeOK, NEW r \in Requests, OpenRequest(r) \/ RequestStep(r),
           NEW t \in Threads, t \notin lost'
    PROVE  \/ mat'[t] = mat[t] /\ t \notin lost
           \/ mat'[t] = NoStateRow
           \/ \E hash \in Hash :
                 /\ mat'[t] = WithDesired(mat[t], hash)
                 /\ mat'[t].status = "syncing" => t \notin lost
<1>1. CASE OpenRequest(r)
  BY <1>1 DEF OpenRequest, CreateSkill, UpdateSkill, WriteFiles, DeleteSkill, OpenSkill,
              CreateThread, DeleteThread
<1>2. CASE Provision(r) \/ RemoveSandbox(r) \/ Abort(r)
  BY <1>2 DEF Provision, RemoveSandbox, Abort
<1>3. CASE CommitSkill(r) \/ CommitThread(r)
  <2>. DEFINE q == req[r]
              right == [u \in Targets(q) |-> WithDesired(mat[u], NewDesired(q, u))]
  <2>1. q.op # "none" /\ lost' = LostUpdates(Targets(q), right)
        /\ \A u \in Threads \ Targets(q) : mat'[u] = mat[u]
    BY <1>3 DEF CommitSkill, CommitThread, Sync
  <2>2. t \notin lost \/ (mat'[t] # mat[t] /\ mat'[t].status # "syncing")
    BY <2>1 DEF LostUpdates
  <2>3. CASE t \in Targets(q)
    <3>1. mat'[t] = right[t]
      BY <2>1, <2>3 DEF LostUpdates
    <3>2. NewDesired(q, t) \in Hash
      BY <2>1, ViewType DEF TypeOK
    <3>. QED  BY <2>2, <2>3, <3>1, <3>2
  <2>. QED  BY <2>1, <2>2, <2>3
<1>4. CASE CommitDeleteThread(r) \/ UndoProvision(r) \/ UndoCreate(r)
  <2>1. DropRow(r, req[r].thread)
    BY <1>4 DEF CommitDeleteThread, UndoProvision, UndoCreate
  <2>. QED  BY <2>1 DEF DropRow, TypeOK, RequestsTypeOK
<1>. QED  BY <1>1, <1>2, <1>3, <1>4 DEF RequestStep, CloseRequest

\* So its status is true, and "syncing" only if it was so before.
LEMMA RequestStatus ==
    ASSUME TypeOK, StatusInv, NEW r \in Requests, OpenRequest(r) \/ RequestStep(r),
           NEW t \in Threads, t \notin lost'
    PROVE  /\ Truthful(mat'[t])
           /\ mat'[t].status = "syncing" => mat[t].status = "syncing" /\ t \notin lost
<1>1. mat[t] \in StateRow /\ (t \notin lost => Truthful(mat[t]))
  BY RowsAreTruthful DEF StatusInv, TypeOK, RequestsTypeOK
<1>2. CASE mat'[t] = mat[t] /\ t \notin lost
  BY <1>1, <1>2
<1>3. CASE mat'[t] = NoStateRow
  BY <1>3 DEF NoStateRow, Truthful, Pending
<1>4. ASSUME NEW hash \in Hash,
             mat'[t] = WithDesired(mat[t], hash),
             mat'[t].status = "syncing" => t \notin lost
      PROVE  /\ Truthful(mat'[t])
             /\ mat'[t].status = "syncing" => mat[t].status = "syncing" /\ t \notin lost
  <2>1. Truthful(mat'[t])
    BY <1>1, <1>4, TruthfulUpdates
  <2>. QED  BY <1>4, <2>1 DEF WithDesired
<1>. QED  BY <1>2, <1>3, <1>4, RequestMarks

\* A row that is not marked after a finalizer has a true status, and the finalizer's own
\* row is not left in "syncing".
LEMMA FinalizerStatus ==
    ASSUME TypeOK, StatusInv, NEW w \in Workers, FinalizeWrite(w),
           NEW t \in Threads, t \notin lost'
    PROVE  /\ Truthful(mat'[t])
           /\ t = worker[w].thread => mat'[t].status # "syncing"
           /\ t # worker[w].thread => mat'[t] = mat[t] /\ t \notin lost
<1>. DEFINE f == worker[w]
            right == [u \in {f.thread} |-> Finalized([f EXCEPT !.seen = mat[u]])]
<1>1. f \in Finalizer
  BY WorkerKinds DEF FinalizeWrite
<1>2. f.hash \in Hash /\ f.outcome \in {"uploaded", "outdated", "failed"} /\ f.thread \in Threads
  BY <1>1 DEF Finalizer
<1>3. mat[t] \in StateRow /\ (t \notin lost => Truthful(mat[t]))
  BY RowsAreTruthful DEF StatusInv, TypeOK, RequestsTypeOK
<1>4. \A u \in Threads \ {f.thread} : mat'[u] = mat[u]
  BY DEF FinalizeWrite, TypeOK, RequestsTypeOK
<1>5. CASE mat[f.thread].status = "absent"
  <2>1. mat' = mat /\ lost' = lost
    BY <1>5 DEF FinalizeWrite
  <2>. QED  BY <1>3, <1>5, <2>1
<1>6. CASE mat[f.thread].status # "absent"
  <2>1. lost' = LostUpdates({f.thread}, right)
    BY <1>6 DEF FinalizeWrite
  <2>2. t \notin lost \/ (mat'[t] # mat[t] /\ mat'[t].status # "syncing")
    BY <2>1 DEF LostUpdates
  <2>3. CASE t = f.thread
    <3>. DEFINE g == [f EXCEPT !.seen = mat[t]]
    <3>1. mat'[t] = Finalized(g)
      BY <2>1, <2>3 DEF LostUpdates
    <3>2. g.seen = mat[t] /\ g.outcome = f.outcome /\ g.hash = f.hash
      BY <1>1 DEF Finalizer
    <3>. HIDE DEF g
    <3>3. CASE f.outcome = "uploaded"
      <4>1. mat'[t] = WithSuccess(mat[t], f.hash)
        BY <3>1, <3>2, <3>3 DEF Finalized
      <4>2. Truthful(WithSuccess(mat[t], f.hash))
        BY <1>2, <1>3, TruthfulUpdates
      <4>. QED  BY <1>3, <2>3, <4>1, <4>2 DEF WithSuccess, StateRow
    <3>4. CASE f.outcome = "failed"
      <4>1. mat'[t] = WithFailure(mat[t])
        BY <3>1, <3>2, <3>4 DEF Finalized
      <4>2. Truthful(WithFailure(mat[t]))
        BY <1>2, <1>3, TruthfulUpdates
      <4>. QED  BY <1>3, <2>3, <4>1, <4>2 DEF WithFailure, StateRow
    <3>5. CASE f.outcome = "outdated"
      <4>1. mat'[t] = WithDirtyIfNeeded(mat[t])
        BY <3>1, <3>2, <3>5 DEF Finalized
      <4>2. CASE Pending(mat[t])
        <5>1. mat'[t] = [mat[t] EXCEPT !.status = "dirty"]
          BY <4>1, <4>2 DEF WithDirtyIfNeeded
        <5>. QED  BY <1>3, <2>3, <4>2, <5>1 DEF Truthful, Pending, StateRow
      <4>3. CASE ~Pending(mat[t])
        <5>1. mat'[t] = mat[t]
          BY <4>1, <4>3 DEF WithDirtyIfNeeded
        <5>2. Truthful(mat[t])
          BY <1>3, <2>2, <5>1
        <5>. QED  BY <2>3, <4>3, <5>1, <5>2 DEF Truthful
      <4>. QED  BY <4>2, <4>3
    <3>. QED  BY <1>2, <3>3, <3>4, <3>5
  <2>4. CASE t # f.thread
    BY <1>3, <1>4, <2>2, <2>4
  <2>. QED  BY <2>3, <2>4
<1>. QED  BY <1>5, <1>6

LEMMA StatusInvNext ==
    ASSUME TypeOK, StatusInv, [Next]_vars
    PROVE  StatusInv'
<1>. SUFFICES ASSUME NEW t \in Threads, t \notin lost' PROVE Truthful(mat'[t])
  BY DEF StatusInv, ClaimableIsPending, ReadyMeansServed, Truthful, Pending
<1>1. t \notin lost => Truthful(mat[t])
  BY RowsAreTruthful DEF StatusInv
<1>2. ASSUME NEW r \in Requests, ApiStep(r) PROVE Truthful(mat'[t])
  BY <1>2, RequestStatus DEF ApiStep
<1>3. ASSUME NEW w \in Workers, Claim(w) PROVE Truthful(mat'[t])
  <2>1. PICK u \in Claimable : mat' = [mat EXCEPT ![u].status = "syncing"]
    BY <1>3 DEF Claim
  <2>2. t \notin lost /\ Truthful(mat[t]) /\ mat[t] \in StateRow
    BY <1>1, <1>3 DEF Claim, TypeOK, RequestsTypeOK
  <2>3. CASE u = t
    <3>1. mat'[t] = [mat[t] EXCEPT !.status = "syncing"] /\ Pending(mat[t])
      BY <2>1, <2>2, <2>3 DEF Claimable, Truthful, TypeOK, RequestsTypeOK
    <3>. QED  BY <2>2, <3>1 DEF Truthful, Pending, StateRow
  <2>4. CASE u # t
    BY <2>1, <2>2, <2>4 DEF TypeOK, RequestsTypeOK
  <2>. QED  BY <2>3, <2>4
<1>4. ASSUME NEW w \in Workers,
             Build(w) \/ UploadAll(w) \/ UploadFails(w) \/ FinalizeRead(w) \/ Crash(w)
      PROVE  Truthful(mat'[t])
  BY <1>1, <1>4 DEF Build, UploadAll, UploadFails, FinalizeRead, Crash
<1>5. ASSUME NEW w \in Workers, FinalizeWrite(w) PROVE Truthful(mat'[t])
  BY <1>5, FinalizerStatus
<1>6. CASE UNCHANGED vars
  BY <1>1, <1>6 DEF vars
<1>. QED  BY <1>2, <1>3, <1>4, <1>5, <1>6 DEF Next, WorkerStep

(***************************************************************************)
(* "ready" means that the agent is served the desired skills, and skills   *)
(* still to be uploaded are visible to the workers, however requests and   *)
(* workers overlap and whenever they crash, for every thread whose row no  *)
(* lost update has spoilt; and for that one again as soon as a transaction *)
(* has decided on the row that is there.                                   *)
(***************************************************************************)
THEOREM ReadyCorrect == Spec => []ReadyMeansServed
<1>1. Init => TypeOK /\ StatusInv
  BY InitType, StatusInvInit
<1>2. TypeOK /\ StatusInv /\ [Next]_vars => (TypeOK /\ StatusInv)'
  BY NextType, StatusInvNext
<1>3. StatusInv => ReadyMeansServed
  BY DEF StatusInv
<1>. QED  BY <1>1, <1>2, <1>3, PTL DEF Spec

LEMMA HeldNext ==
    ASSUME TypeOK, StatusInv, SyncingIsHeld, [Next]_vars
    PROVE  SyncingIsHeld'
<1>. USE DEF SyncingIsHeld
<1>1. ASSUME NEW r \in Requests, ApiStep(r) PROVE SyncingIsHeld'
  <2>1. \A t \in Threads \ lost' :
            mat'[t].status = "syncing" => mat[t].status = "syncing" /\ t \notin lost
    BY <1>1, RequestStatus DEF ApiStep
  <2>2. \A t \in Threads \ orphans' : mat'[t].status = "syncing" => t \notin orphans
    BY <1>1 DEF ApiStep, WorkersKeep, StillOrphaned
  <2>. QED  BY <1>1, <2>1, <2>2 DEF ApiStep, WorkersKeep
<1>2. ASSUME NEW w \in Workers, Claim(w) PROVE SyncingIsHeld'
  <2>1. PICK t \in Claimable :
            /\ mat' = [mat EXCEPT ![t].status = "syncing"]
            /\ worker' = [worker EXCEPT ![w] = [ pc |-> "claimed", thread |-> t,
                                                 hash |-> mat[t].desired, payload |-> NoHash ]]
    BY <1>2 DEF Claim
  <2>2. worker'[w].pc = "claimed" /\ worker'[w].thread = t
    BY <2>1 DEF TypeOK
  <2>3. \A v \in Workers \ {w} : worker'[v] = worker[v]
    BY <2>1 DEF TypeOK
  <2>4. \A u \in Threads \ {t} : mat'[u] = mat[u]
    BY <2>1 DEF TypeOK, RequestsTypeOK
  <2>5. worker[w].pc = "idle" /\ lost' = lost /\ orphans' = orphans
    BY <1>2 DEF Claim
  <2>. QED  BY <2>2, <2>3, <2>4, <2>5
<1>3. ASSUME NEW w \in Workers, Build(w) \/ UploadAll(w) \/ UploadFails(w) PROVE SyncingIsHeld'
  <2>1. worker[w] \in Job
    BY <1>3, WorkerKinds DEF Build, UploadAll, UploadFails
  <2>2. /\ worker'[w].pc # "idle" /\ worker'[w].thread = worker[w].thread
        /\ \A v \in Workers \ {w} : worker'[v] = worker[v]
    <3>1. CASE Build(w)
      BY <2>1, <3>1 DEF Build, Job, TypeOK
    <3>2. CASE UploadAll(w)
      BY <2>1, <3>2 DEF UploadAll, Job, TypeOK
    <3>3. CASE UploadFails(w)
      BY <2>1, <3>3 DEF UploadFails, Job, TypeOK
    <3>. QED  BY <1>3, <3>1, <3>2, <3>3
  <2>. QED  BY <1>3, <2>2 DEF Build, UploadAll, UploadFails
<1>4. ASSUME NEW w \in Workers, FinalizeRead(w) PROVE SyncingIsHeld'
  <2>1. \/ mat[worker[w].thread].status = "absent"
        \/ worker'[w].pc = "finalizing" /\ worker'[w].thread = worker[w].thread
    BY <1>4 DEF FinalizeRead, TypeOK
  <2>2. \A v \in Workers \ {w} : worker'[v] = worker[v]
    BY <1>4 DEF FinalizeRead, TypeOK
  <2>. QED  BY <1>4, <2>1, <2>2 DEF FinalizeRead
<1>5. ASSUME NEW w \in Workers, FinalizeWrite(w) PROVE SyncingIsHeld'
  <2>1. \A v \in Workers \ {w} : worker'[v] = worker[v]
    BY <1>5 DEF FinalizeWrite, TypeOK
  <2>2. \A t \in Threads \ lost' : mat'[t].status = "syncing" =>
            t # worker[w].thread /\ mat'[t] = mat[t] /\ t \notin lost
    BY <1>5, FinalizerStatus
  <2>3. \A t \in Threads \ orphans' : mat'[t].status = "syncing" => t \notin orphans
    BY <1>5 DEF FinalizeWrite, StillOrphaned
  <2>. QED  BY <2>1, <2>2, <2>3
<1>6. ASSUME NEW w \in Workers, Crash(w) PROVE SyncingIsHeld'
  <2>1. \A v \in Workers \ {w} : worker'[v] = worker[v]
    BY <1>6 DEF Crash, TypeOK
  <2>2. mat' = mat /\ lost' = lost
    BY <1>6 DEF Crash
  <2>3. \A t \in Threads \ orphans' :
            t \notin orphans /\ (mat[t].status = "syncing" => t # worker[w].thread)
    BY <1>6 DEF Crash
  <2>. QED  BY <2>1, <2>2, <2>3
<1>7. CASE UNCHANGED vars
  BY <1>7 DEF vars
<1>. QED  BY <1>1, <1>2, <1>3, <1>4, <1>5, <1>6, <1>7 DEF Next, WorkerStep

(***************************************************************************)
(* However requests and workers overlap, no thread is left in "syncing"    *)
(* with no worker to finish it, but by a crash of that worker or by a lost *)
(* update.                                                                 *)
(***************************************************************************)
THEOREM HeldCorrect == Spec => []SyncingIsHeld
<1>1. Init => SyncingIsHeld
  BY DEF Init, RequestsInit, WithDesired, NoStateRow, SyncingIsHeld
<1>2. Init => TypeOK /\ StatusInv
  BY InitType, StatusInvInit
<1>3. TypeOK /\ StatusInv /\ [Next]_vars => (TypeOK /\ StatusInv)'
  BY NextType, StatusInvNext
<1>4. TypeOK /\ StatusInv /\ SyncingIsHeld /\ [Next]_vars => SyncingIsHeld'
  BY HeldNext
<1>. QED  BY <1>1, <1>2, <1>3, <1>4, PTL DEF Spec

-------------------------------------------------------------------------------
(* One request at a time.                                                  *)

OneEditor == \A p, r \in Requests : p = r

LEMMA EditorInvInit == Init => EditorInv
<1>. SUFFICES ASSUME Init PROVE EditorInv
  OBVIOUS
<1>1. RequestIsCurrent /\ WorkersHoldHashes
  BY DEF Init, RequestsInit, Closed, Idle, RequestIsCurrent, WorkersHoldHashes, Finalizing
<1>2. RowsOfLiveThreads
  BY DEF Init, RequestsInit, NoStateRow, WithDesired, RowsOfLiveThreads
<1>3. EnabledIn(skill) = InitialSkills
  BY RequestAssumption DEF Init, RequestsInit, EnabledIn
<1>4. ASSUME NEW t \in Threads, mat[t].status # "absent"
      PROVE  mat[t].desired = CurrentHash(t)
  <2>1. t \in InitialThreads
    BY <1>4 DEF Init, RequestsInit, NoStateRow
  <2>2. mat[t].desired = HashOf(skill, InitialSkills, {})
    BY <2>1 DEF Init, RequestsInit, WithDesired
  <2>3. bound[t] = InitialSkills
    BY <2>1 DEF Init, RequestsInit
  <2>. QED  BY <1>3, <2>2, <2>3 DEF CurrentHash
<1>. QED  BY <1>1, <1>2, <1>4 DEF EditorInv, DesiredDescribesBindings

\* The skills a lone request commits are the ones it saw.
LEMMA CommittedView ==
    ASSUME TypeOK, EditorInv, NEW r \in Requests, CommitSkill(r)
    PROVE  skill' = View(req[r])
<1>1. req[r] \in SkillRequest /\ req[r].snap.skill = skill
  BY RequestKinds DEF CommitSkill, TypeOK, EditorInv, RequestIsCurrent
<1>2. MergeSkill(skill[req[r].skill], req[r].snap.skill[req[r].skill], req[r].row) = req[r].row
  BY <1>1, MergeSame DEF SkillRequest, TypeOK, RequestsTypeOK
<1>. QED  BY <1>1, <1>2 DEF CommitSkill, View

\* The sync of a lone request stores the hash of the bindings it stores.
LEMMA SyncedAlone ==
    ASSUME TypeOK, EditorInv, NEW r \in Requests, req[r].op # "none", Sync(r, req[r]),
           skill' = View(req[r]), NEW t \in Targets(req[r])
    PROVE  /\ mat'[t].desired = CurrentHash(t)'
           /\ mat'[t].status # "absent"
           /\ mat[t].have # NoHash /\ mat'[t].have = NoHash => mat'[t].desired = NoHash
<1>. DEFINE q == req[r]
            hash == HashOf(View(q), EnabledIn(View(q)), {})
            row == WithDesired(q.snap.mat[t], hash)
<1>1. q.overtaken = {} /\ t \in Threads
  BY RequestKinds DEF EditorInv, RequestIsCurrent, Targets, TypeOK
<1>2. /\ mat[t] \in StateRow /\ q.snap.mat[t] \in StateRow
      /\ q.snap.mat[t].desired = mat[t].desired
      /\ q.snap.mat[t].status = "absent" <=> mat[t].status = "absent"
  BY <1>1, RequestKinds DEF EditorInv, RequestIsCurrent, TypeOK, RequestsTypeOK, Snapshot
<1>3. mat'[t] = MergeState(mat[t], q.snap.mat[t], row)
  <2>1. NewDesired(q, t) = hash
    BY <1>1 DEF NewDesired
  <2>. HIDE DEF hash
  <2>. QED  BY <1>1, <2>1 DEF Sync
<1>4. CurrentHash(t)' = hash
  BY <1>1 DEF Sync, CurrentHash
<1>. HIDE DEF q, hash
<1>5. row.desired = hash /\ row.status # "absent"
  BY DEF WithDesired
<1>6. mat'[t].desired = hash /\ mat'[t].status # "absent"
  BY <1>2, <1>3, <1>5 DEF MergeState, Column
<1>7. mat[t].have # NoHash /\ mat'[t].have = NoHash => mat'[t].desired = NoHash
  BY <1>3, <1>6 DEF MergeState, Column, WithDesired
<1>. QED  BY <1>4, <1>6, <1>7

\* A finalizer changes neither the desired hash of a row nor whether there is one.
LEMMA FinalizedRows ==
    ASSUME TypeOK, EditorInv, NEW w \in Workers, FinalizeWrite(w), NEW t \in Threads
    PROVE  /\ mat'[t].desired = mat[t].desired
           /\ mat'[t].status = "absent" <=> mat[t].status = "absent"
           /\ mat[t].have # NoHash => mat'[t].have # NoHash
<1>. DEFINE f == worker[w]
<1>1. /\ f \in Finalizer /\ f.seen \in StateRow /\ f.seen.status # "absent" /\ f.hash # NoHash
      /\ f.outcome \in {"uploaded", "outdated", "failed"}
  BY WorkerKinds DEF FinalizeWrite, Finalizing, Finalizer, EditorInv, WorkersHoldHashes
<1>2. /\ Finalized(f).desired = f.seen.desired
      /\ Finalized(f).status # "absent"
      /\ Finalized(f).have \in {f.seen.have, f.hash}
  BY <1>1 DEF Finalized, WithSuccess, WithFailure, WithDirtyIfNeeded, StateRow
<1>. DEFINE row == MergeState(mat[t], f.seen, Finalized(f))
<1>3. mat'[t] = mat[t] \/ (mat'[t] = row /\ mat[t].status # "absent")
  BY DEF FinalizeWrite, TypeOK, RequestsTypeOK
<1>4. /\ row.desired = mat[t].desired
      /\ mat[t].status # "absent" => row.status # "absent"
      /\ mat[t].have # NoHash => row.have # NoHash
  BY <1>1, <1>2 DEF MergeState, Column
<1>. HIDE DEF row
<1>. QED  BY <1>3, <1>4

\* What any step does to the state rows, the bindings and the skills.
RowsFollow ==
    \A t \in Threads :
        /\ mat'[t].status # "absent" => thread'[t] = "live" /\ mat'[t].desired = CurrentHash(t)'
        /\ mat'[t].status = "absent" => mat'[t].desired = NoHash
        /\ mat[t].have # NoHash /\ mat'[t].have = NoHash => mat'[t].desired = NoHash

LEMMA RequestRows ==
    ASSUME TypeOK, EditorInv, NEW r \in Requests, OpenRequest(r) \/ RequestStep(r)
    PROVE  RowsFollow
<1>. USE DEF RowsFollow
<1>1. /\ \A t \in Threads : mat[t].status # "absent" => thread[t] = "live"
      /\ \A t \in Threads : mat[t].status # "absent" => mat[t].desired = CurrentHash(t)
      /\ \A t \in Threads : mat[t].status = "absent" => mat[t].desired = NoHash
  BY DEF EditorInv, RowsOfLiveThreads, DesiredDescribesBindings
<1>2. CASE OpenRequest(r)
  BY <1>1, <1>2, OpenedOnSnapshot DEF CurrentHash
<1>3. CASE Provision(r) \/ RemoveSandbox(r) \/ Abort(r)
  BY <1>1, <1>3 DEF Provision, RemoveSandbox, Abort, CurrentHash
<1>4. CASE CommitSkill(r)
  <2>1. req[r].op = "skill" /\ Sync(r, req[r]) /\ skill' = View(req[r]) /\ thread' = thread
    BY <1>4, CommittedView DEF CommitSkill
  <2>2. Targets(req[r]) = {t \in Threads : thread[t] = "live"}
    BY <2>1 DEF Targets, EditorInv, RequestIsCurrent
  <2>3. \A t \in Threads \ Targets(req[r]) : mat'[t] = mat[t]
    BY <2>1 DEF Sync
  <2>4. \A t \in Threads \ Targets(req[r]) : mat[t].status = "absent"
    BY <1>1, <2>2
  <2>5. \A t \in Targets(req[r]) :
            /\ mat'[t].desired = CurrentHash(t)' /\ mat'[t].status # "absent"
            /\ mat[t].have # NoHash /\ mat'[t].have = NoHash => mat'[t].desired = NoHash
    BY <2>1, SyncedAlone
  <2>. QED  BY <1>1, <2>1, <2>2, <2>3, <2>4, <2>5
<1>5. CASE CommitThread(r)
  <2>1. req[r].op = "createThread" /\ Sync(r, req[r]) /\ UNCHANGED <<skill, thread>>
    BY <1>5 DEF CommitThread
  <2>2. skill' = View(req[r])
    BY <2>1 DEF View, EditorInv, RequestIsCurrent
  <2>3. Targets(req[r]) = {req[r].thread} /\ thread[req[r].thread] = "live"
    BY <1>5, <2>1 DEF Targets, CommitThread, NotDeletedMeanwhile
  <2>4. \A t \in Threads \ Targets(req[r]) : mat'[t] = mat[t] /\ bound'[t] = bound[t]
    BY <2>1 DEF Sync
  <2>5. \A t \in Threads \ Targets(req[r]) : CurrentHash(t)' = CurrentHash(t)
    BY <2>1, <2>4 DEF CurrentHash
  <2>6. \A t \in Targets(req[r]) :
            /\ mat'[t].desired = CurrentHash(t)' /\ mat'[t].status # "absent"
            /\ mat[t].have # NoHash /\ mat'[t].have = NoHash => mat'[t].desired = NoHash
    BY <2>1, <2>2, SyncedAlone
  <2>. QED  BY <1>1, <2>1, <2>3, <2>4, <2>5, <2>6
<1>6. CASE CommitDeleteThread(r) \/ UndoProvision(r) \/ UndoCreate(r)
  <2>1. DropRow(r, req[r].thread) /\ skill' = skill
    BY <1>6 DEF CommitDeleteThread, UndoProvision, UndoCreate
  <2>2. \A t \in Threads \ {req[r].thread} :
            mat'[t] = mat[t] /\ thread'[t] = thread[t] /\ CurrentHash(t)' = CurrentHash(t)
    BY <2>1 DEF DropRow, CurrentHash, TypeOK, RequestsTypeOK
  <2>3. req[r].thread \in Threads => mat'[req[r].thread] = NoStateRow
    BY <2>1 DEF DropRow, TypeOK, RequestsTypeOK
  <2>. QED  BY <1>1, <2>2, <2>3 DEF NoStateRow
<1>. QED  BY <1>2, <1>3, <1>4, <1>5, <1>6 DEF RequestStep, CloseRequest

LEMMA WorkerRows ==
    ASSUME TypeOK, EditorInv, NEW w \in Workers, WorkerStep(w) \/ Crash(w)
    PROVE  /\ RowsFollow
           /\ UNCHANGED <<skill, thread, req>>
           /\ \A t \in Threads : /\ mat'[t].desired = mat[t].desired
                                 /\ mat'[t].status = "absent" <=> mat[t].status = "absent"
<1>1. UNCHANGED <<skill, thread, bound, req>>
  BY DEF WorkerStep, Claim, Build, UploadAll, UploadFails, FinalizeRead, FinalizeWrite, Crash,
         apiVars
<1>2. ASSUME NEW t \in Threads
      PROVE  /\ mat'[t].desired = mat[t].desired
             /\ mat'[t].status = "absent" <=> mat[t].status = "absent"
             /\ mat[t].have # NoHash => mat'[t].have # NoHash
  <2>1. CASE Claim(w)
    BY <2>1 DEF Claim, Claimable, TypeOK, RequestsTypeOK, StateRow
  <2>2. CASE Build(w) \/ UploadAll(w) \/ UploadFails(w) \/ FinalizeRead(w) \/ Crash(w)
    BY <2>2 DEF Build, UploadAll, UploadFails, FinalizeRead, Crash
  <2>3. CASE FinalizeWrite(w)
    BY <2>3, FinalizedRows
  <2>. QED  BY <2>1, <2>2, <2>3 DEF WorkerStep
<1>3. RowsFollow
  BY <1>1, <1>2 DEF RowsFollow, CurrentHash, EditorInv, RowsOfLiveThreads, DesiredDescribesBindings
<1>. QED  BY <1>1, <1>2, <1>3

LEMMA WorkersHoldHashesNext ==
    ASSUME TypeOK, WorkersHoldHashes, NEW w \in Workers, WorkerStep(w) \/ Crash(w)
    PROVE  WorkersHoldHashes'
<1>. USE DEF WorkersHoldHashes, Finalizing
<1>1. CASE Claim(w)
  <2>1. PICK t \in Claimable :
            worker' = [worker EXCEPT ![w] = [ pc |-> "claimed", thread |-> t,
                                              hash |-> mat[t].desired, payload |-> NoHash ]]
    BY <1>1 DEF Claim
  <2>. QED  BY <2>1 DEF Claimable, TypeOK
<1>2. CASE Build(w)
  <2>1. worker[w] \in Job
    BY <1>2, WorkerKinds DEF Build
  <2>. QED  BY <1>2, <2>1 DEF Build, Job, TypeOK
<1>3. CASE UploadAll(w)
  <2>1. worker[w] \in Job
    BY <1>3, WorkerKinds DEF UploadAll
  <2>. QED  BY <1>3, <2>1 DEF UploadAll, Job, TypeOK
<1>4. CASE UploadFails(w)
  <2>1. worker[w] \in Job
    BY <1>4, WorkerKinds DEF UploadFails
  <2>. QED  BY <1>4, <2>1 DEF UploadFails, Job, TypeOK
<1>5. CASE FinalizeRead(w)
  BY <1>5 DEF FinalizeRead, Idle, TypeOK
<1>6. CASE FinalizeWrite(w) \/ Crash(w)
  BY <1>6 DEF FinalizeWrite, Crash, Idle, TypeOK
<1>. QED  BY <1>1, <1>2, <1>3, <1>4, <1>5, <1>6 DEF WorkerStep

LEMMA EditorInvNext ==
    ASSUME OneEditor, TypeOK, EditorInv, [Next]_vars
    PROVE  EditorInv' /\ (RowsFollow \/ UNCHANGED vars)
<1>1. RowsFollow => RowsOfLiveThreads' /\ DesiredDescribesBindings'
  BY DEF RowsFollow, RowsOfLiveThreads, DesiredDescribesBindings
<1>2. RequestIsCurrent /\ WorkersHoldHashes
  BY DEF EditorInv
<1>3. ASSUME NEW r \in Requests, ApiStep(r)
      PROVE  EditorInv' /\ RowsFollow
  <2>1. RowsFollow
    BY <1>3, RequestRows DEF ApiStep
  <2>2. WorkersHoldHashes'
    BY <1>2, <1>3 DEF ApiStep, WorkersKeep, WorkersHoldHashes, Finalizing
  <2>3. RequestIsCurrent'
    <3>. SUFFICES req'[r].op # "none" =>
                    /\ req'[r].overtaken = {}
                    /\ req'[r].snap.skill = skill'
                    /\ req'[r].snap.thread = thread'
                    /\ \A t \in Threads :
                          /\ req'[r].snap.mat[t].desired = mat'[t].desired
                          /\ req'[r].snap.mat[t].status = "absent" <=> mat'[t].status = "absent"
      BY DEF OneEditor, RequestIsCurrent
    <3>1. CASE OpenRequest(r)
      BY <3>1, OpenedOnSnapshot
    <3>2. CASE Provision(r) \/ RemoveSandbox(r)
      BY <1>2, <3>2 DEF Provision, RemoveSandbox, RequestIsCurrent
    <3>3. CASE CloseRequest(r)
      BY <3>3, ClosedRequest
    <3>. QED  BY <1>3, <3>1, <3>2, <3>3 DEF ApiStep, RequestStep
  <2>. QED  BY <1>1, <2>1, <2>2, <2>3 DEF EditorInv
<1>4. ASSUME NEW w \in Workers, WorkerStep(w) \/ Crash(w)
      PROVE  EditorInv' /\ RowsFollow
  <2>1. RequestIsCurrent'
    BY <1>2, <1>4, WorkerRows DEF RequestIsCurrent
  <2>. QED  BY <1>1, <1>2, <1>4, <2>1, WorkerRows, WorkersHoldHashesNext DEF EditorInv
<1>5. CASE UNCHANGED vars
  <2>1. EditorInv' = EditorInv
    BY <1>5 DEF vars, EditorInv, RequestIsCurrent, RowsOfLiveThreads, WorkersHoldHashes,
                Finalizing, DesiredDescribesBindings, CurrentHash
  <2>. QED  BY <1>5, <2>1
<1>. QED  BY <1>3, <1>4, <1>5 DEF Next

(***************************************************************************)
(* With one request at a time, however many workers run meanwhile, the     *)
(* desired hash of every thread is the hash of its stored bindings.        *)
(***************************************************************************)
THEOREM DesiredCorrect ==
    ASSUME OneEditor
    PROVE  Spec => []DesiredDescribesBindings
<1>1. Init => TypeOK /\ EditorInv
  BY InitType, EditorInvInit
<1>2. TypeOK /\ EditorInv /\ [Next]_vars => (TypeOK /\ EditorInv)'
  BY NextType, EditorInvNext
<1>3. EditorInv => DesiredDescribesBindings
  BY DEF EditorInv
<1>. QED  BY <1>1, <1>2, <1>3, PTL DEF Spec

(***************************************************************************)
(* With one request at a time the agent keeps its skills until a request   *)
(* leaves the thread none.                                                 *)
(***************************************************************************)
THEOREM RootKept ==
    ASSUME OneEditor
    PROVE  Spec => RootKeptUntilReplaced
<1>1. Init => TypeOK /\ EditorInv
  BY InitType, EditorInvInit
<1>2. TypeOK /\ EditorInv /\ [Next]_vars => (TypeOK /\ EditorInv)'
  BY NextType, EditorInvNext
<1>3. TypeOK /\ EditorInv /\ [Next]_vars =>
          [ \A t \in Threads :
                mat[t].have # NoHash /\ mat'[t].have = NoHash => mat'[t].desired = NoHash ]_vars
  BY EditorInvNext DEF RowsFollow
<1>. QED  BY <1>1, <1>2, <1>3, PTL DEF Spec, RootKeptUntilReplaced

(***************************************************************************)
(* With one request at a time a worker gives a claim up before the upload  *)
(* only when the thread desires another hash by then.                      *)
(***************************************************************************)
THEOREM OutdatedCorrect ==
    ASSUME OneEditor
    PROVE  Spec => OutdatedMeansChanged
<1>1. Init => TypeOK /\ EditorInv
  BY InitType, EditorInvInit
<1>2. TypeOK /\ EditorInv /\ [Next]_vars => (TypeOK /\ EditorInv)'
  BY NextType, EditorInvNext
<1>. DEFINE Changed == \A w \in Workers :
                worker[w].pc = "claimed" /\ worker'[w].pc = "outdated"
                    => mat[worker[w].thread].desired # worker[w].hash
<1>3. TypeOK /\ EditorInv /\ [Next]_vars => [Changed]_vars
  <2>. SUFFICES ASSUME TypeOK, EditorInv, [Next]_vars, NEW w \in Workers,
                       worker[w].pc = "claimed", worker'[w].pc = "outdated"
                PROVE  mat[worker[w].thread].desired # worker[w].hash
    OBVIOUS
  <2>1. Build(w)
    <3>1. ASSUME NEW v \in Workers \ {w}, WorkerStep(v) \/ Crash(v)
          PROVE  worker'[w] = worker[w]
      BY <3>1 DEF WorkerStep, Claim, Build, UploadAll, UploadFails, FinalizeRead, FinalizeWrite,
                  Crash, TypeOK
    <3>2. ~(Claim(w) \/ UploadAll(w) \/ UploadFails(w) \/ FinalizeRead(w) \/ FinalizeWrite(w))
      BY DEF Claim, UploadAll, UploadFails, FinalizeRead, FinalizeWrite
    <3>3. ~Crash(w)
      BY DEF Crash, Idle, TypeOK
    <3>. QED  BY <3>1, <3>2, <3>3 DEF Next, ApiStep, WorkersKeep, WorkerStep, vars
  <2>2. worker[w].thread \in Threads /\ worker[w].hash # NoHash
    BY WorkerKinds DEF EditorInv, WorkersHoldHashes
  <2>3. CurrentHash(worker[w].thread) # worker[w].hash
    BY <2>1, <2>2 DEF Build, TypeOK
  <2>. QED
    BY <2>2, <2>3 DEF EditorInv, RowsOfLiveThreads, DesiredDescribesBindings
<1>. QED  BY <1>1, <1>2, <1>3, PTL DEF Spec, OutdatedMeansChanged

(***************************************************************************)
(* What a worker may claim, or has claimed, has something to upload, with  *)
(* any overlap and any crash: a decision on the row that is there never    *)
(* leaves a thread waiting for nothing. Lost rows excepted.                *)
(***************************************************************************)
THEOREM StatusCorrect == Spec => []StatusInv
<1>1. Init => TypeOK /\ StatusInv
  BY InitType, StatusInvInit
<1>2. TypeOK /\ StatusInv /\ [Next]_vars => (TypeOK /\ StatusInv)'
  BY NextType, StatusInvNext
<1>. QED  BY <1>1, <1>2, PTL DEF Spec

(***************************************************************************)
(* With one request at a time, what it has read stays so but for the two   *)
(* columns of the workers, and a job belongs to a thread with a hash.      *)
(***************************************************************************)
THEOREM EditorCorrect ==
    ASSUME OneEditor
    PROVE  Spec => []EditorInv
<1>1. Init => TypeOK /\ EditorInv
  BY InitType, EditorInvInit
<1>2. TypeOK /\ EditorInv /\ [Next]_vars => (TypeOK /\ EditorInv)'
  BY NextType, EditorInvNext
<1>. QED  BY <1>1, <1>2, PTL DEF Spec
===============================================================================
