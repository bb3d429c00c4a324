------------------------- MODULE SkillMaterialization -------------------------
(***************************************************************************)
(* server/app/skill_materialization_worker.py on top of the requests: each *)
(* server process runs one worker that claims a dirty thread, builds the   *)
(* payload, uploads it to the thread's sandbox outside any transaction and *)
(* records the outcome. The module is the whole skill delivery system.     *)
(***************************************************************************)
EXTENDS SkillRequests

CONSTANTS
    Workers,      \* one per server process
    MaxCrashes,   \* bound on worker crashes
    Overlap,      \* whether the database sessions may be open at the same time
    Reachable     \* threads whose sandbox accepts an upload now and then

ASSUME WorkerAssumption ==
    /\ MaxCrashes \in Nat
    /\ Overlap \in BOOLEAN
    /\ Reachable \subseteq Threads

VARIABLES
    worker,    \* what each worker is doing
    files,     \* files in a thread's sandbox: <<root, row whose files they are>>
    crashes,
    \* Not in the program, for the properties:
    orphans    \* threads whose worker crashed while they were "syncing"

vars == <<skill, thread, bound, mat, order, sandbox, req, made, lost,
          worker, files, crashes, orphans>>

Idle == [pc |-> "idle"]

\* payload: the rows whose files build_materialization_file_payload returned.
Job == [ pc : {"claimed", "built", "uploaded", "outdated", "failed"},
         thread : Threads, hash : Hash, payload : Hash ]

\* A finalizer that has loaded the state row and will now write it.
Finalizer == [ pc : {"finalizing"}, outcome : {"uploaded", "outdated", "failed"},
               thread : Threads, hash : Hash, seen : StateRow ]

TypeOK ==
    /\ RequestsTypeOK
    /\ worker \in [Workers -> {Idle} \cup Job \cup Finalizer]
    /\ files \in [Threads -> SUBSET (Hash \X Rows)]
    /\ crashes \in 0..MaxCrashes
    /\ orphans \in SUBSET Threads

Init ==
    /\ RequestsInit
    /\ worker = [w \in Workers |-> Idle]
    /\ files = [t \in Threads |-> {}]
    /\ crashes = 0
    /\ orphans = {}

-------------------------------------------------------------------------------

\* Without Overlap a transaction that spans several steps runs alone.
NoOpenSession ==
    /\ \A r \in Requests : req[r].op = "none"
    /\ \A w \in Workers : worker[w].pc # "finalizing"

MayOpen == Overlap \/ NoOpenSession

\* claim_next_dirty_thread: SELECT ... ORDER BY updated_at FOR UPDATE SKIP LOCKED.
Claimable == {t \in Threads : mat[t].status = "dirty" /\ mat[t].desired # NoHash}

Claim(w) ==
    /\ worker[w].pc = "idle"
    /\ \E t \in Claimable :
        /\ \A u \in Claimable : <<u, t>> \notin order
        /\ mat' = [mat EXCEPT ![t].status = "syncing"]
        /\ order' = Touch(order, {t})
        /\ worker' = [worker EXCEPT ![w] = [ pc |-> "claimed", thread |-> t,
                                             hash |-> mat[t].desired, payload |-> NoHash ]]
    /\ UNCHANGED <<apiVars, lost, files, crashes, orphans>>

\* The hash of what the tables say now.
CurrentHash(t) == HashOf(skill, bound[t] \cap EnabledIn(skill), {})

\* Mutant: the payload is built from whatever the tables say by now.
BuildUnchecked(w) ==
    LET j == worker[w] IN
    /\ j.pc = "claimed"
    /\ worker' = [worker EXCEPT ![w] = [j EXCEPT !.pc = "built", !.payload = CurrentHash(j.thread)]]
    /\ UNCHANGED <<apiVars, mat, order, lost, files, crashes, orphans>>

\* build_materialization_file_payload: a ValueError unless the hash is still the claimed one.
Build(w) ==
    LET j == worker[w] IN
    /\ j.pc = "claimed"
    /\ worker' = [worker EXCEPT ![w] =
           IF CurrentHash(j.thread) = j.hash /\ j.hash # NoHash
           THEN [j EXCEPT !.pc = "built", !.payload = CurrentHash(j.thread)]
           ELSE [j EXCEPT !.pc = "outdated"]]
    /\ UNCHANGED <<apiVars, mat, order, lost, files, crashes, orphans>>

\* materialize_thread_skills, outside any transaction.
UploadAll(w) ==
    LET j == worker[w] IN
    /\ j.pc = "built"
    /\ sandbox[j.thread]
    /\ files' = [files EXCEPT ![j.thread] = @ \cup ({j.hash} \X j.payload)]
    /\ worker' = [worker EXCEPT ![w].pc = "uploaded"]
    /\ UNCHANGED <<apiVars, mat, order, lost, crashes, orphans>>

\* It raises after some files, or none when the sandbox is gone: a RuntimeError, or a
\* ValueError of the Daytona client, which the worker takes for an outdated claim.
UploadFails(w) ==
    LET j == worker[w] IN
    /\ j.pc = "built"
    /\ \E part \in SUBSET j.payload :
        /\ part # {} => sandbox[j.thread]
        /\ files' = [files EXCEPT ![j.thread] = @ \cup ({j.hash} \X part)]
    /\ \E error \in {"failed", "outdated"} : worker' = [worker EXCEPT ![w].pc = error]
    /\ UNCHANGED <<apiVars, mat, order, lost, crashes, orphans>>

\* db.get in finalize_* and mark_materialization_dirty_if_needed; no row, nothing to do.
FinalizeRead(w) ==
    LET j == worker[w] IN
    /\ j.pc \in {"uploaded", "outdated", "failed"}
    /\ worker' = [worker EXCEPT ![w] =
           IF mat[j.thread].status = "absent" THEN Idle
           ELSE [ pc |-> "finalizing", outcome |-> j.pc, thread |-> j.thread,
                  hash |-> j.hash, seen |-> mat[j.thread] ]]
    /\ UNCHANGED <<apiVars, mat, order, lost, files, crashes, orphans>>

\* Mutant: a failed upload only records its error.
FinalizedKeepingFailure(f) ==
    CASE f.outcome = "uploaded" -> WithSuccess(f.seen, f.hash)
      [] f.outcome = "failed"   -> f.seen
      [] f.outcome = "outdated" -> WithDirtyIfNeeded(f.seen)

Finalized(f) ==
    CASE f.outcome = "uploaded" -> WithSuccess(f.seen, f.hash)
      [] f.outcome = "failed"   -> WithFailure(f.seen)
      [] f.outcome = "outdated" -> WithDirtyIfNeeded(f.seen)

\* A row that leaves "syncing" is no orphan any more.
StillOrphaned == {t \in orphans : mat'[t].status = "syncing"}

\* The UPDATE at commit; it finds no row when the thread was deleted in between.
FinalizeWrite(w) ==
    LET f == worker[w]
        updates == mat[f.thread].status # "absent" /\ (f.outcome = "outdated" => Pending(f.seen))
    IN
    /\ f.pc = "finalizing"
    /\ mat' = IF updates
              THEN [mat EXCEPT ![f.thread] = MergeState(@, f.seen, Finalized(f))]
              ELSE mat
    /\ lost' = IF mat[f.thread].status # "absent"
               THEN LostUpdates({f.thread},
                        [t \in {f.thread} |-> Finalized([f EXCEPT !.seen = mat[t]])])
               ELSE lost
    /\ order' = IF updates THEN Touch(order, {f.thread}) ELSE order
    /\ worker' = [worker EXCEPT ![w] = Idle]
    /\ orphans' = StillOrphaned
    /\ UNCHANGED <<apiVars, files, crashes>>

\* The process dies, or the finalizing transaction raises and _run only logs it.
Crash(w) ==
    /\ worker[w].pc # "idle"
    /\ crashes < MaxCrashes
    /\ crashes' = crashes + 1
    /\ orphans' = orphans \cup {t \in Threads : t = worker[w].thread /\ mat[t].status = "syncing"}
    /\ worker' = [worker EXCEPT ![w] = Idle]
    /\ UNCHANGED <<apiVars, mat, order, lost, files>>

-------------------------------------------------------------------------------

WorkersKeep ==
    /\ orphans' = StillOrphaned
    /\ UNCHANGED <<worker, files, crashes>>

ApiStep(r) ==
    /\ (MayOpen /\ OpenRequest(r)) \/ RequestStep(r)
    /\ WorkersKeep

WorkerStep(w) ==
    \/ MayOpen /\ (Claim(w) \/ Build(w) \/ FinalizeRead(w))
    \/ UploadAll(w) \/ UploadFails(w) \/ FinalizeWrite(w)

Next ==
    \/ \E r \in Requests : ApiStep(r)
    \/ \E w \in Workers : WorkerStep(w) \/ Crash(w)

Spec == Init /\ [][Next]_vars

(***************************************************************************)
(* A request ends, by its own doing or by an error. The worker's loop goes *)
(* on for as long as the process runs; strong fairness, because without    *)
(* Overlap its next transaction waits for the ones of other sessions. The  *)
(* upload to a reachable sandbox does not fail every time. Nobody has to   *)
(* make a request or to crash.                                             *)
(***************************************************************************)
Fairness ==
    /\ \A r \in Requests : WF_vars(CloseRequest(r) /\ WorkersKeep)
    /\ \A w \in Workers : SF_vars(WorkerStep(w))
    /\ \A t \in Reachable, w \in Workers : SF_vars(UploadAll(w) /\ worker[w].thread = t)

FairSpec == Spec /\ Fairness

-------------------------------------------------------------------------------
(* Properties.                                                             *)

(***************************************************************************)
(* The directory get_runtime_skill_paths gives to the agent holds all the  *)
(* files of the skill set it is named after and no other file, whatever    *)
(* transactions overlap, uploads fail half way or workers die.             *)
(***************************************************************************)
ServedRootIsComplete ==
    \A t \in Threads :
        LET root == ServedRoot(mat[t]) IN
        root # NoHash /\ sandbox[t] => {f[2] : f \in {g \in files[t] : g[1] = root}} = root

(***************************************************************************)
(* The desired hash of a thread is the hash of the binding rows and skill  *)
(* files stored with it, so that build_materialization_file_payload can    *)
(* succeed.                                                                *)
(***************************************************************************)
DesiredDescribesBindings ==
    \A t \in Threads : mat[t].status # "absent" => mat[t].desired = CurrentHash(t)

(***************************************************************************)
(* Status "ready" means the agent is served exactly the desired skills; a  *)
(* thread whose skills are still to be uploaded is "dirty" or "syncing",   *)
(* never "ready" or "failed", which no worker looks at. Requests, workers  *)
(* and crashes may overlap in any way: the only rows it does not hold of   *)
(* are the `lost' ones, which a transaction wrote by columns over a row    *)
(* that had changed since it read it.                                      *)
(***************************************************************************)
ReadyMeansServed ==
    \A t \in Threads \ lost :
        /\ mat[t].status = "ready" => mat[t].have = mat[t].desired
        /\ Pending(mat[t]) => mat[t].status \in {"dirty", "syncing"}

(***************************************************************************)
(* A thread in "syncing", which no worker claims, is in the hands of one.  *)
(* Nothing else takes a row out of that status, so it does not hold after  *)
(* the worker crashed (`orphans') or an update was `lost'; but of every    *)
(* other thread, and of these again once they have left "syncing".         *)
(***************************************************************************)
SyncingIsHeld ==
    \A t \in Threads \ (lost \cup orphans) : mat[t].status = "syncing" =>
        \E w \in Workers : worker[w].pc # "idle" /\ worker[w].thread = t

(***************************************************************************)
(* While new skills are being prepared the agent keeps the previous ones:  *)
(* a thread loses its root only by a request that leaves it no skill.      *)
(***************************************************************************)
RootKeptUntilReplaced ==
    [][ \A t \in Threads :
            mat[t].have # NoHash /\ mat'[t].have = NoHash
                => mat'[t].desired = NoHash ]_vars

(***************************************************************************)
(* Skills that are to be uploaded to a reachable sandbox get there, also   *)
(* when the uploads of other threads always fail.                          *)
(***************************************************************************)
SkillsDelivered ==
    \A t \in Reachable : Pending(mat[t]) /\ sandbox[t] ~> ~(Pending(mat[t]) /\ sandbox[t])

(***************************************************************************)
(* test_sync_user_skills_rebuilds_all_thread_bindings_and_states: once all *)
(* skills are disabled the state is "ready" with no desired hash.          *)
(***************************************************************************)
NoSkillsIsReady ==
    \A t \in Threads :
        mat[t].status # "absent" /\ mat[t].desired = NoHash => mat[t].status = "ready"

(***************************************************************************)
(* "Desired hash changed during materialization": a worker gives up its    *)
(* claim before the upload only if the thread now desires another hash.    *)
(***************************************************************************)
OutdatedMeansChanged ==
    [][ \A w \in Workers :
            worker[w].pc = "claimed" /\ worker'[w].pc = "outdated"
                => mat[worker[w].thread].desired # worker[w].hash ]_vars

===============================================================================
