----------------------------- MODULE SkillRequests -----------------------------
(***************************************************************************)
(* The HTTP handlers that write skills, their bindings to threads and the  *)
(* materialization state: server/app/api/skills.py and the create and      *)
(* delete handlers of server/app/api/threads.py. The endpoints are plain   *)
(* functions run in a thread pool of several server processes, so their    *)
(* transactions overlap.                                                   *)
(*                                                                         *)
(* A request is one transaction. It opens when get_current_user reads the  *)
(* user row, which fixes its snapshot; everything it reads later comes     *)
(* from the snapshot and from its own writes. Its first DELETE or UPDATE   *)
(* takes the row locks that make its writes appear all at once, at commit. *)
(***************************************************************************)
EXTENDS SkillStore

CONSTANTS
    Requests,        \* request slots: how many transactions overlap at most
    MaxRequests,     \* bound on the requests made in a behaviour
    InitialSkills,   \* skills that exist, enabled, at the start
    InitialThreads   \* threads created after them

ASSUME RequestAssumption ==
    /\ MaxRequests \in Nat
    /\ InitialSkills \subseteq Skills
    /\ InitialThreads \subseteq Threads

VARIABLES
    skill,     \* rows of skills and skill_files
    thread,    \* whether the row of threads exists
    bound,     \* rows of thread_skill_bindings: the skills bound to a thread
    mat,       \* rows of thread_skill_materialization_state
    order,     \* their updated_at order
    sandbox,   \* whether the thread's Daytona sandbox exists
    req,       \* the open request of a slot
    made,      \* requests made so far
    \* Not in the program, for the properties:
    lost       \* threads whose state row a lost update has left as nobody decided it

apiVars == <<skill, thread, bound, sandbox, req, made>>
requestVars == <<skill, thread, bound, mat, order, sandbox, req, made, lost>>

Closed == [op |-> "none"]

Snapshot == [ skill : [Skills -> SkillRow], thread : [Threads -> {"unborn", "live", "deleted"}],
              bound : [Threads -> SUBSET Skills], mat : [Threads -> StateRow] ]

\* overtaken: threads whose bindings another transaction replaced since the snapshot.
SkillRequest == [ op : {"skill"}, skill : Skills, row : SkillRow,
                  snap : Snapshot, overtaken : SUBSET Threads ]

ThreadRequest == [ op : {"createThread", "deleteThread"}, thread : Threads,
                   snap : Snapshot, overtaken : SUBSET Threads ]

RequestsTypeOK ==
    /\ skill \in [Skills -> SkillRow]
    /\ thread \in [Threads -> {"unborn", "live", "deleted"}]
    /\ bound \in [Threads -> SUBSET Skills]
    /\ mat \in [Threads -> StateRow]
    /\ order \in SUBSET (Threads \X Threads)
    /\ sandbox \in [Threads -> BOOLEAN]
    /\ req \in [Requests -> {Closed} \cup SkillRequest \cup ThreadRequest]
    /\ made \in 0..MaxRequests
    /\ lost \in SUBSET Threads

RequestsInit ==
    /\ skill = [s \in Skills |-> [ state   |-> IF s \in InitialSkills THEN "live" ELSE "unborn",
                                   enabled |-> s \in InitialSkills,
                                   version |-> FirstVersion ]]
    /\ thread = [t \in Threads |-> IF t \in InitialThreads THEN "live" ELSE "unborn"]
    /\ bound = [t \in Threads |-> IF t \in InitialThreads THEN InitialSkills ELSE {}]
    /\ mat = [t \in Threads |->
                 IF t \in InitialThreads
                 THEN WithDesired(NoStateRow, HashOf(skill, InitialSkills, {}))
                 ELSE NoStateRow]
    /\ order = {}
    /\ sandbox = [t \in Threads |-> t \in InitialThreads]
    /\ req = [r \in Requests |-> Closed]
    /\ made = 0
    /\ lost = {}

-------------------------------------------------------------------------------
(* Opening a request.                                                      *)

Database == [skill |-> skill, thread |-> thread, bound |-> bound, mat |-> mat]

Open(r, q) ==
    /\ req[r].op = "none"
    /\ made < MaxRequests
    /\ made' = made + 1
    /\ req' = [req EXCEPT ![r] = q]

OpenSkill(r, s, row) ==
    /\ Open(r, [op |-> "skill", skill |-> s, row |-> row, snap |-> Database, overtaken |-> {}])
    /\ UNCHANGED <<skill, thread, bound, mat, order, sandbox, lost>>

\* create_skill: a new id, the default SKILL.md.
CreateSkill(r) ==
    \E s \in Skills, on \in BOOLEAN :
        /\ skill[s].state = "unborn"
        /\ \A p \in Requests : req[p].op = "skill" => req[p].skill # s
        /\ OpenSkill(r, s, [state |-> "live", enabled |-> on, version |-> FirstVersion])

\* update_skill: a new name or description keeps `enabled' but syncs all the same.
UpdateSkill(r) ==
    \E s \in Skills, on \in BOOLEAN :
        /\ skill[s].state = "live"
        /\ OpenSkill(r, s, [skill[s] EXCEPT !.enabled = on])

\* upsert_skill_file and delete_skill_file: other contents, possibly ones it had before.
WriteFiles(r) ==
    \E s \in Skills, v \in Versions :
        /\ skill[s].state = "live"
        /\ OpenSkill(r, s, [skill[s] EXCEPT !.version = v])

DeleteSkill(r) ==
    \E s \in Skills :
        /\ skill[s].state = "live"
        /\ OpenSkill(r, s, [skill[s] EXCEPT !.state = "deleted"])

\* create_thread up to db.refresh: the row is committed, then the snapshot is taken.
CreateThread(r) ==
    \E t \in Threads :
        /\ thread[t] = "unborn"
        /\ thread' = [thread EXCEPT ![t] = "live"]
        /\ Open(r, [ op |-> "createThread", thread |-> t, overtaken |-> {},
                     snap |-> [Database EXCEPT !.thread[t] = "live"] ])
        /\ UNCHANGED <<skill, bound, mat, order, sandbox, lost>>

DeleteThread(r) ==
    \E t \in Threads :
        /\ thread[t] = "live"
        /\ Open(r, [op |-> "deleteThread", thread |-> t, snap |-> Database, overtaken |-> {}])
        /\ UNCHANGED <<skill, thread, bound, mat, order, sandbox, lost>>

OpenRequest(r) ==
    \/ CreateSkill(r) \/ UpdateSkill(r) \/ WriteFiles(r) \/ DeleteSkill(r)
    \/ CreateThread(r) \/ DeleteThread(r)

-------------------------------------------------------------------------------
(* sync_user_skill_bindings and commit.                                    *)

\* The skills as the session sees them, its own edit included.
View(q) == IF q.op = "skill" THEN [q.snap.skill EXCEPT ![q.skill] = q.row] ELSE q.snap.skill

\* _resolve_user_thread_ids
Targets(q) ==
    IF q.op = "skill" THEN {t \in Threads : q.snap.thread[t] = "live"} ELSE {q.thread}

\* Mutant: no flush between writing the bindings and reading them.
NewDesiredWithoutFlush(q, t) ==
    HashOf(View(q), q.snap.bound[t] \cap EnabledIn(View(q)), {})

\* _enabled_bindings_with_valid_skills after the session's own DELETE and INSERTs.
NewDesired(q, t) ==
    HashOf(View(q), EnabledIn(View(q)),
           IF t \in q.overtaken THEN q.snap.bound[t] \cap EnabledIn(View(q)) ELSE {})

(***************************************************************************)
(* When the statements of the sync go through: the rows it updates are     *)
(* still there, the state row it inserts is not, the rows its bindings     *)
(* refer to exist, and no binding it has not seen refers to a skill it     *)
(* deletes.                                                                *)
(***************************************************************************)
NotDeletedMeanwhile(q) ==
    /\ \A s \in EnabledIn(View(q)) :
           skill[s].state = "live" \/ (skill[s].state = "unborn" /\ q.op = "skill" /\ s = q.skill)
    /\ \A t \in Targets(q) :
           /\ thread[t] = "live"
           /\ (mat[t].status = "absent") = (q.snap.mat[t].status = "absent")

EditApplies(q) ==
    /\ q.row.state = "live" => skill[q.skill].state = q.snap.skill[q.skill].state
    /\ q.row.state = "deleted" => \A t \in q.overtaken : q.skill \notin bound[t]

(***************************************************************************)
(* A row of `ts' is lost when the transaction leaves in it another status  *)
(* or hash than `right', what its function makes of the row that is there. *)
(* The next decision that comes out as meant takes the mark away; but not  *)
(* while it leaves the row in "syncing", a status it only passes on.       *)
(***************************************************************************)
LostUpdates(ts, right) ==
    {t \in lost : mat'[t] = mat[t] \/ mat'[t].status = "syncing"}
        \cup {t \in ts : mat'[t] # right[t]}

Sync(r, q) ==
    /\ bound' = [t \in Threads |-> IF t \in Targets(q) THEN EnabledIn(View(q)) ELSE bound[t]]
    /\ mat' = [t \in Threads |->
                  IF t \in Targets(q)
                  THEN MergeState(mat[t], q.snap.mat[t], WithDesired(q.snap.mat[t], NewDesired(q, t)))
                  ELSE mat[t]]
    /\ lost' = LostUpdates(Targets(q), [t \in Targets(q) |-> WithDesired(mat[t], NewDesired(q, t))])
    /\ order' = Touch(order, Targets(q))
    /\ req' = [p \in Requests |->
                  IF p = r THEN Closed
                  ELSE IF req[p].op = "none" THEN req[p]
                  ELSE [req[p] EXCEPT !.overtaken = @ \cup Targets(q)]]

\* Mutant: a handler that does not sync the threads.
CommitSkillWithoutSync(r) ==
    LET q == req[r] IN
    /\ q.op = "skill"
    /\ EditApplies(q)
    /\ skill' = [skill EXCEPT ![q.skill] = MergeSkill(@, q.snap.skill[q.skill], q.row)]
    /\ req' = [req EXCEPT ![r] = Closed]
    /\ UNCHANGED <<thread, bound, mat, order, sandbox, made, lost>>

CommitSkill(r) ==
    LET q == req[r] IN
    /\ q.op = "skill"
    /\ NotDeletedMeanwhile(q)
    /\ EditApplies(q)
    /\ skill' = [skill EXCEPT ![q.skill] = MergeSkill(@, q.snap.skill[q.skill], q.row)]
    /\ Sync(r, q)
    /\ UNCHANGED <<thread, sandbox, made>>

\* ensure_daytona_thread_environment: it may take minutes, the snapshot stays open.
Provision(r) ==
    /\ req[r].op = "createThread"
    /\ ~sandbox[req[r].thread]
    /\ sandbox' = [sandbox EXCEPT ![req[r].thread] = TRUE]
    /\ UNCHANGED <<skill, thread, bound, mat, order, req, made, lost>>

CommitThread(r) ==
    /\ req[r].op = "createThread"
    /\ sandbox[req[r].thread]
    /\ NotDeletedMeanwhile(req[r])
    /\ Sync(r, req[r])
    /\ UNCHANGED <<skill, thread, sandbox, made>>

-------------------------------------------------------------------------------
(* Deleting a thread, from its own handler or to undo a failed creation.   *)

\* db.delete(thread): the session removes the child rows it knows of, then the thread.
ChildrenKnown(q) ==
    /\ q.thread \in q.overtaken => bound[q.thread] = {}
    /\ q.snap.mat[q.thread].status = "absent" => mat[q.thread].status = "absent"

DropRow(r, t) ==
    /\ thread' = [thread EXCEPT ![t] = "deleted"]
    /\ bound' = [bound EXCEPT ![t] = {}]
    /\ mat' = [mat EXCEPT ![t] = NoStateRow]
    /\ lost' = lost \ {t}
    /\ req' = [req EXCEPT ![r] = Closed]

\* The sandbox is removed first; a failure of that is logged and ignored.
RemoveSandbox(r) ==
    /\ req[r].op = "deleteThread"
    /\ sandbox[req[r].thread]
    /\ sandbox' = [sandbox EXCEPT ![req[r].thread] = FALSE]
    /\ UNCHANGED <<skill, thread, bound, mat, order, req, made, lost>>

CommitDeleteThread(r) ==
    /\ req[r].op = "deleteThread"
    /\ ChildrenKnown(req[r])
    /\ DropRow(r, req[r].thread)
    /\ UNCHANGED <<skill, order, sandbox, made>>

\* Provisioning failed: the session still has the snapshot it opened with.
UndoProvision(r) ==
    /\ req[r].op = "createThread"
    /\ ~sandbox[req[r].thread]
    /\ ChildrenKnown(req[r])
    /\ DropRow(r, req[r].thread)
    /\ UNCHANGED <<skill, order, sandbox, made>>

\* The sync failed: rollback, a fresh snapshot, and the thread goes with its children.
UndoCreate(r) ==
    /\ req[r].op = "createThread"
    /\ sandbox[req[r].thread]
    /\ \E kept \in BOOLEAN : sandbox' = [sandbox EXCEPT ![req[r].thread] = kept]
    /\ DropRow(r, req[r].thread)
    /\ UNCHANGED <<skill, order, made>>

\* A constraint or a lock made a statement fail, or the process died: nothing is written.
Abort(r) ==
    /\ req[r].op # "none"
    /\ req' = [req EXCEPT ![r] = Closed]
    /\ UNCHANGED <<skill, thread, bound, mat, order, sandbox, made, lost>>

CloseRequest(r) ==
    \/ CommitSkill(r) \/ CommitThread(r) \/ CommitDeleteThread(r)
    \/ UndoProvision(r) \/ UndoCreate(r) \/ Abort(r)

RequestStep(r) == Provision(r) \/ RemoveSandbox(r) \/ CloseRequest(r)

===============================================================================
