------------------------------ MODULE SkillStore ------------------------------
(***************************************************************************)
(* The tables that skill delivery works on, and the pure functions of      *)
(* server/app/skills_service.py over their rows.                           *)
(*                                                                         *)
(*  - skills and skill_files are one row per skill here: `version' names   *)
(*    the contents of all its files together (their checksums);            *)
(*  - a desired hash is the sha256 of the binding rows a transaction       *)
(*    reads, so a Hash is that set of rows, and the hash of no rows is     *)
(*    None (NoHash);                                                       *)
(*  - materialized_hash and materialized_root are always written together  *)
(*    and the root is a function of thread and hash: `have' is both.       *)
(***************************************************************************)
EXTENDS FiniteSets, Naturals

CONSTANTS
    Skills,        \* skill ids
    Threads,       \* thread ids; all of one user
    Versions,      \* contents the files of a skill can have
    FirstVersion   \* the default SKILL.md of a new skill

ASSUME VersionAssumption == FirstVersion \in Versions

(***************************************************************************)
(* A binding row as a SELECT returns it, joined with its skill. InnoDB     *)
(* runs at REPEATABLE READ: a row that another transaction deleted after   *)
(* the reader's snapshot is still returned, next to the reader's own new   *)
(* row for the same skill. Such a leftover is marked "old".                *)
(***************************************************************************)
Rows == Skills \X Versions \X {"new", "old"}

Hash == SUBSET Rows

NoHash == {}

SkillRow == [state : {"unborn", "live", "deleted"}, enabled : BOOLEAN, version : Versions]

Status == {"ready", "dirty", "syncing", "failed"}

\* A row of thread_skill_materialization_state; "absent" when there is none.
StateRow == [status : Status \cup {"absent"}, desired : Hash, have : Hash]

NoStateRow == [status |-> "absent", desired |-> NoHash, have |-> NoHash]

EnabledIn(skills) == {s \in Skills : skills[s].state = "live" /\ skills[s].enabled}

\* _build_desired_hash over binding rows of `fresh' skills and left over ones.
HashOf(skills, fresh, leftover) ==
    {<<s, skills[s].version, "new">> : s \in fresh}
        \cup {<<s, skills[s].version, "old">> : s \in leftover}

Pending(row) == row.desired # NoHash /\ row.have # row.desired

\* Mutant: the old root is given up as soon as another hash is desired.
WithDesiredDroppingRoot(row, hash) ==
    [ desired |-> hash,
      have    |-> IF row.have = hash THEN hash ELSE NoHash,
      status  |-> IF hash = NoHash \/ row.have = hash THEN "ready"
                  ELSE IF row.status = "syncing" THEN "syncing" ELSE "dirty" ]

\* Mutant: a worker at work keeps the status even if its work is no longer needed.
WithDesiredStillSyncing(row, hash) ==
    [ desired |-> hash,
      have    |-> IF hash = NoHash THEN NoHash ELSE row.have,
      status  |-> IF row.status = "syncing" THEN "syncing"
                  ELSE IF hash = NoHash \/ row.have = hash THEN "ready" ELSE "dirty" ]

\* update_thread_materialization_state, on the row as the session read it.
WithDesired(row, hash) ==
    [ desired |-> hash,
      have    |-> IF hash = NoHash THEN NoHash ELSE row.have,
      status  |-> IF hash = NoHash \/ row.have = hash THEN "ready"
                  ELSE IF row.status = "syncing" THEN "syncing" ELSE "dirty" ]

\* Mutant: a misspelt status.
WithSuccessMisspelt(row, hash) ==
    [row EXCEPT !.have = hash, !.status = IF row.desired = hash THEN "synced" ELSE "dirty"]

\* Mutant: the desired hash is not compared again after the upload.
WithSuccessUncompared(row, hash) == [row EXCEPT !.have = hash, !.status = "ready"]

\* finalize_materialization_success
WithSuccess(row, hash) ==
    [ row EXCEPT !.have = hash,
                 !.status = IF row.desired = hash THEN "ready" ELSE "dirty" ]

\* finalize_materialization_failure
WithFailure(row) == [row EXCEPT !.status = IF Pending(row) THEN "dirty" ELSE "failed"]

\* mark_materialization_dirty_if_needed
WithDirtyIfNeeded(row) == IF Pending(row) THEN [row EXCEPT !.status = "dirty"] ELSE row

\* get_runtime_skill_paths: the directory handed to the agent, whatever the status.
ServedRoot(row) == row.have

(***************************************************************************)
(* SQLAlchemy's UPDATE names only the columns whose value differs from the *)
(* one the session loaded; the others keep what is in the table by then.   *)
(***************************************************************************)
Column(stored, loaded, assigned) == IF assigned # loaded THEN assigned ELSE stored

MergeState(stored, loaded, assigned) ==
    [ status  |-> Column(stored.status, loaded.status, assigned.status),
      desired |-> Column(stored.desired, loaded.desired, assigned.desired),
      have    |-> Column(stored.have, loaded.have, assigned.have) ]

MergeSkill(stored, loaded, assigned) ==
    [ state   |-> Column(stored.state, loaded.state, assigned.state),
      enabled |-> Column(stored.enabled, loaded.enabled, assigned.enabled),
      version |-> Column(stored.version, loaded.version, assigned.version) ]

\* Mutant: updated_at is not written.
TouchNothing(order, ts) == order

(***************************************************************************)
(* updated_at of the state rows, as the relation "was written before".     *)
(* Rows written by one transaction tie.                                    *)
(***************************************************************************)
Touch(order, ts) ==
    {p \in order : p[1] \notin ts /\ p[2] \notin ts} \cup ((Threads \ ts) \X ts)

===============================================================================
