-------------------- MODULE SkillMaterializationInvariants --------------------
(***************************************************************************)
(* Inductive strengthenings of the safety properties of                    *)
(* SkillMaterialization. Each is checked by TLC and carries a proof in     *)
(* SkillMaterializationProofs.                                             *)
(***************************************************************************)
EXTENDS SkillMaterialization

-------------------------------------------------------------------------------
(* For ServedRootIsComplete, with any overlap.                             *)

\* A file lies in the directory of a skill set it belongs to.
NoForeignFile == \A t \in Threads : \A f \in files[t] : f[2] \in f[1]

Uploaded(t, hash) == {hash} \X hash \subseteq files[t]

HaveIsUploaded == \A t \in Threads : Uploaded(t, mat[t].have)

PayloadIsHash == \A w \in Workers : worker[w].pc = "built" => worker[w].payload = worker[w].hash

SuccessIsUploaded ==
    \A w \in Workers :
        \/ worker[w].pc = "uploaded"
        \/ worker[w].pc = "finalizing" /\ worker[w].outcome = "uploaded"
        => Uploaded(worker[w].thread, worker[w].hash)

(***************************************************************************)
(* What build_materialization_file_payload returns is what the claimed     *)
(* hash names, so whatever a worker is about to record, or has recorded,   *)
(* in materialized_root lies complete in the sandbox.                      *)
(***************************************************************************)
UploadInv == NoForeignFile /\ HaveIsUploaded /\ PayloadIsHash /\ SuccessIsUploaded

-------------------------------------------------------------------------------
(* For ReadyMeansServed and SyncingIsHeld, with any overlap and crashes.   *)

\* A row a worker may claim, or has claimed, has something to upload.
ClaimableIsPending ==
    \A t \in Threads \ lost :
        \/ mat[t].status = "syncing"
        \/ mat[t].status = "dirty" /\ mat[t].desired # NoHash
        => Pending(mat[t])

(***************************************************************************)
(* What a transaction decides on the row that is there agrees with its two *)
(* hashes: every row but the lost ones says what is still to be uploaded,  *)
(* and nothing else is ever claimed.                                       *)
(***************************************************************************)
StatusInv == ClaimableIsPending /\ ReadyMeansServed

-------------------------------------------------------------------------------
(* For DesiredDescribesBindings and the action properties, with one        *)
(* request at a time, whatever the workers do meanwhile.                   *)

\* What a request has read is still so, but for the workers' two columns.
RequestIsCurrent ==
    \A r \in Requests : req[r].op # "none" =>
        /\ req[r].overtaken = {}
        /\ req[r].snap.skill = skill
        /\ req[r].snap.thread = thread
        /\ \A t \in Threads :
              /\ req[r].snap.mat[t].desired = mat[t].desired
              /\ req[r].snap.mat[t].status = "absent" <=> mat[t].status = "absent"

RowsOfLiveThreads ==
    \A t \in Threads :
        /\ mat[t].status # "absent" => thread[t] = "live"
        /\ mat[t].status = "absent" => mat[t].desired = NoHash

Finalizing(w) == worker[w].pc = "finalizing"

WorkersHoldHashes ==
    \A w \in Workers :
        /\ worker[w].pc # "idle" => worker[w].hash # NoHash
        /\ Finalizing(w) => worker[w].seen.status # "absent"

(***************************************************************************)
(* A request that runs without another one writes a desired hash for the   *)
(* rows that are there when it commits.                                    *)
(***************************************************************************)
EditorInv ==
    RequestIsCurrent /\ RowsOfLiveThreads /\ WorkersHoldHashes /\ DesiredDescribesBindings

===============================================================================
