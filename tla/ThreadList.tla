------------------------------- MODULE ThreadList -------------------------------
(***************************************************************************)
(* The list of threads in the sidebar: the store (web/src/lib/store.ts),   *)
(* App (web/src/App.tsx) and ThreadSidebar, with the board's cards, against*)
(* the rows of the server. A call may be refused or fail, and its answer   *)
(* may be lost after it took effect. A creation is long: its row is there  *)
(* before the sandbox is, and goes again when the sandbox cannot be made.  *)
(***************************************************************************)
EXTENDS ClientCalls, FiniteSets, SeqFilter

CONSTANTS
    MaxThreads,  \* bound on the threads ever created
    ListBound    \* bounds on calls and clicks

ASSUME ListAssumption ==
    MaxThreads \in Nat \ {0} /\ Nothing \notin 1..MaxThreads /\ ListBound \in Bounds

VARIABLES
    rows,      \* the server's threads, latest update first
    created,   \* ids given out
    threads,   \* AppState.threads
    current,   \* currentThreadId
    view,      \* "kanban" for showKanbanView, "skills" for showSkillsView
    creation,  \* threadCreation.status
    deleting,  \* deletingThreadId
    phase,     \* isLoading and authRequired of App
    behind,    \* auxiliary: the list need not be the server's
    vanished   \* auxiliary: gone from the server, but the client was told otherwise

listVars == <<rows, created, threads, current, view, creation, deleting, phase,
              behind, vanished>>

Ids(s) == {s[i].id : i \in DOMAIN s}

Without(s, id) == Keeping(s, {t \in ToSet(s) : t.id # id})

TitleOf(s, id) == s[CHOOSE i \in DOMAIN s : s[i].id = id].title

ListRequest == Request("list", Nothing, Nothing)

Busy == creation = "creating" \/ deleting # Nothing

ListInit ==
    /\ rows \in {<<>>, <<[id |-> 1, title |-> "Thread"]>>}
    /\ created = Len(rows)
    /\ threads = <<>> /\ current = Nothing /\ view = "thread"
    /\ creation = "idle" /\ deleting = Nothing
    /\ phase = "loading" /\ behind = TRUE /\ vanished = {}

\* init: the first list is asked for when App is mounted.
FirstRequests == {ListRequest}

-----------------------------------------------------------------------------
\* The server.

ServeList ==
    /\ ListRequest \in DOMAIN asked
    /\ \E ok \in BOOLEAN : Reply(ListRequest, ok, TRUE, IF ok THEN rows ELSE <<>>)
    /\ UNCHANGED listVars

\* create_thread commits the row first.
InsertThread(r) ==
    /\ r \in DOMAIN asked /\ r.kind = "create" /\ created < MaxThreads
    /\ created' = created + 1
    /\ rows' = <<[id |-> created', title |-> "Thread"]>> \o rows
    /\ Reply(r, TRUE, FALSE, <<[id |-> created', title |-> "Thread"]>>)
    /\ UNCHANGED <<threads, current, view, creation, deleting, phase, behind, vanished>>

\* ... and the answer follows when the sandbox is up.
ThreadReady(i) ==
    /\ ~answers[i].done
    /\ answers' = [answers EXCEPT ![i].done = TRUE]
    /\ UNCHANGED <<asked, clicks, listVars>>

\* The compensation removes the row; a list that was read meanwhile shows it.
SandboxFails(i) ==
    LET id == answers[i].is[1].id
    IN  /\ ~answers[i].done
        /\ rows' = Without(rows, id)
        /\ answers' = [j \in DOMAIN answers |->
                          IF j = i THEN [answers[i] EXCEPT !.done = TRUE, !.ok = FALSE]
                          ELSE [answers[j] EXCEPT !.overtaken =
                                   @ \/ (answers[j].to = ListRequest /\ id \in Ids(answers[j].is))]]
        /\ vanished' = vanished \cup {id}
        /\ UNCHANGED <<asked, clicks, created, threads, current, view, creation, deleting, phase,
                       behind>>

ServeDelete(r) ==
    /\ r \in DOMAIN asked /\ r.kind = "delete" /\ r.id \in Ids(rows)
    /\ rows' = Without(rows, r.id)
    /\ Reply(r, TRUE, TRUE, <<>>)
    /\ UNCHANGED <<created, threads, current, view, creation, deleting, phase, behind, vanished>>

\* update_thread sets updated_at: the row is the first from now on.
ServeRename(r) ==
    LET row == [id |-> r.id, title |-> r.arg]
    IN  /\ r \in DOMAIN asked /\ r.kind \in {"rename", "retitle"} /\ r.id \in Ids(rows)
        /\ rows' = <<row>> \o Without(rows, r.id)
        /\ Reply(r, TRUE, TRUE, <<row>>)
        /\ UNCHANGED <<created, threads, current, view, creation, deleting, phase, behind,
                       vanished>>

ServeName(r) ==
    /\ r \in DOMAIN asked /\ r.kind = "name"
    /\ Reply(r, TRUE, TRUE, <<>>)
    /\ UNCHANGED listVars

\* The thread is gone, the sandbox service is down, the network fails...
Refuse(r) ==
    /\ r \in DOMAIN asked /\ r # ListRequest
    /\ Reply(r, FALSE, TRUE, <<>>)
    /\ UNCHANGED listVars

-----------------------------------------------------------------------------
\* Answers. ok is FALSE too when a good answer is lost on the way.

\* A list with an older snapshot than what is shown may lack or show anything.
ListCame(i) ==
    LET list == answers[i].is
        first == phase = "loading"
    IN  /\ answers[i].to = ListRequest /\ answers[i].ok
        /\ threads' = list
        /\ behind' = answers[i].overtaken
        /\ vanished' = IF answers[i].overtaken THEN vanished \cup (Ids(list) \ Ids(rows))
                       ELSE vanished
        /\ IF current = Nothing /\ list # <<>>
           THEN current' = list[1].id /\ view' = "thread"
           ELSE UNCHANGED <<current, view>>
        /\ IF first /\ list = <<>>
           THEN creation' = "creating" /\ UNCHANGED phase
                /\ Receive(ListBound, i, {Request("create", Nothing, Nothing)})
           ELSE phase' = (IF first THEN "ready" ELSE phase) /\ UNCHANGED creation
                /\ Receive(ListBound, i, {})
        /\ UNCHANGED <<rows, created, deleting>>

ListFailed(i) ==
    /\ ~answers[i].ok /\ answers[i].to = ListRequest
    /\ phase' \in IF phase = "loading" THEN {"ready", "login"} ELSE {phase}
    /\ Receive(ListBound, i, {})
    /\ UNCHANGED <<rows, created, threads, current, view, creation, deleting, behind,
                   vanished>>

\* createThread puts the thread in front of whatever list it finds: when a list
\* that has it already came first, it is there twice.
CreateCame(i) ==
    /\ answers[i].to.kind = "create" /\ answers[i].ok
    /\ threads' = answers[i].is \o threads
    /\ current' = answers[i].is[1].id
    /\ view' = "thread" /\ creation' = "idle"
    /\ phase' = "ready"
    /\ behind' = (behind \/ answers[i].overtaken)
    /\ Receive(ListBound, i, {})
    /\ UNCHANGED <<rows, created, deleting, vanished>>

\* The creation of init may be refused for want of a login.
CreateFailed(i) ==
    /\ answers[i].to.kind = "create"
    /\ creation' = "failed"
    /\ phase' \in {"ready"} \cup (IF phase = "loading" /\ ~answers[i].ok /\ answers[i].is = <<>>
                                 THEN {"login"} ELSE {})
    /\ behind' = (behind \/ answers[i].ok \/ answers[i].overtaken)
    /\ Receive(ListBound, i, {})
    /\ UNCHANGED <<rows, created, threads, current, view, deleting, vanished>>

DeleteCame(i) ==
    LET left == Without(threads, answers[i].to.id)
    IN  /\ answers[i].to.kind = "delete" /\ answers[i].ok
        /\ threads' = left
        /\ current' = IF current # answers[i].to.id THEN current
                      ELSE IF left = <<>> THEN Nothing ELSE left[1].id
        /\ deleting' = Nothing
        /\ Receive(ListBound, i, {})
        /\ UNCHANGED <<rows, created, view, creation, phase, behind, vanished>>

\* Mutant: the thread leaves the list although the server has kept it.
DeleteFailedButHidden(i) ==
    /\ answers[i].to.kind = "delete"
    /\ deleting' = Nothing
    /\ threads' = Without(threads, answers[i].to.id)
    /\ behind' = (behind \/ answers[i].ok)
    /\ vanished' = IF answers[i].ok THEN vanished \cup {answers[i].to.id} ELSE vanished
    /\ Receive(ListBound, i, {})
    /\ UNCHANGED <<rows, created, current, view, creation, phase>>

\* deleteThread swallows the error.
DeleteFailed(i) ==
    /\ answers[i].to.kind = "delete"
    /\ deleting' = Nothing
    /\ behind' = (behind \/ answers[i].ok)
    /\ vanished' = IF answers[i].ok THEN vanished \cup {answers[i].to.id} ELSE vanished
    /\ Receive(ListBound, i, {})
    /\ UNCHANGED <<rows, created, threads, current, view, creation, phase>>

\* updateThread replaces the thread.
RenameCame(i) ==
    LET a == answers[i]
    IN  /\ a.to.kind \in {"rename", "retitle"} /\ a.ok
        /\ threads' = [k \in DOMAIN threads |->
                          IF threads[k].id = a.to.id THEN a.is[1] ELSE threads[k]]
        /\ behind' = (behind \/ a.overtaken)
        /\ Receive(ListBound, i, {})
        /\ UNCHANGED <<rows, created, current, view, creation, deleting, phase, vanished>>

RenameFailed(i) ==
    /\ answers[i].to.kind \in {"rename", "retitle"}
    /\ behind' = (behind \/ answers[i].ok)
    /\ Receive(ListBound, i, {})
    /\ UNCHANGED <<rows, created, threads, current, view, creation, deleting, phase,
                   vanished>>

\* Mutant: what is saved as the title need not be one.
NameCameUntitled(i) ==
    /\ answers[i].to.kind = "name" /\ answers[i].ok
    /\ Receive(ListBound, i, {Request("retitle", answers[i].to.id, Nothing)})
    /\ UNCHANGED listVars

\* generateTitleForFirstMessage saves the title, over one the user has given.
NameCame(i) ==
    /\ answers[i].to.kind = "name" /\ answers[i].ok
    /\ Receive(ListBound, i, {Request("retitle", answers[i].to.id, "generated")})
    /\ UNCHANGED listVars

NameFailed(i) ==
    /\ answers[i].to.kind = "name"
    /\ Receive(ListBound, i, {})
    /\ UNCHANGED listVars

-----------------------------------------------------------------------------
\* The user.

Login ==
    /\ phase = "login" /\ phase' = "ready"
    /\ Ask(ListBound, {ListRequest})
    /\ UNCHANGED <<rows, created, threads, current, view, creation, deleting, behind,
                   vanished>>

\* "New Thread", or "Retry", which is not disabled during a deletion.
NewThread ==
    /\ phase = "ready" /\ (~Busy \/ creation = "failed")
    /\ creation' = "creating"
    /\ Ask(ListBound, {Request("create", Nothing, Nothing)})
    /\ UNCHANGED <<rows, created, threads, current, view, deleting, phase, behind, vanished>>

\* A row of the sidebar, or a card of the board, which is not disabled.
SelectListed(t) ==
    /\ phase = "ready" /\ t \in Ids(threads)
    /\ view = "kanban" \/ ~Busy
    /\ current' = t /\ view' = "thread"
    /\ UNCHANGED <<rows, created, threads, creation, deleting, phase, behind, vanished,
                   callVars>>

DeleteThread(t) ==
    /\ phase = "ready" /\ ~Busy /\ t \in Ids(threads)
    /\ deleting' = t
    /\ Ask(ListBound, {Request("delete", t, Nothing)})
    /\ UNCHANGED <<rows, created, threads, current, view, creation, phase, behind, vanished>>

\* Rename in the context menu, then Enter or leaving the field. The field stays
\* while the sidebar is busy, and until the answer: one may save twice.
SaveTitle(t) ==
    /\ phase = "ready" /\ t \in Ids(threads)
    /\ Ask(ListBound, {Request("rename", t, "given")})
    /\ UNCHANGED listVars

ShowKanban ==
    /\ phase = "ready" /\ view' = "kanban" /\ current' = Nothing
    /\ UNCHANGED <<rows, created, threads, creation, deleting, phase, behind, vanished,
                   callVars>>

ShowSkills ==
    /\ phase = "ready" /\ view' = "skills"
    /\ UNCHANGED <<rows, created, threads, current, creation, deleting, phase, behind, vanished,
                   callVars>>

ChatShown == phase = "ready" /\ view = "thread" /\ creation # "creating" /\ current # Nothing

\* The first message of a thread that still has its default title.
FirstMessage ==
    /\ ChatShown /\ current \in Ids(threads) /\ TitleOf(threads, current) = "Thread"
    /\ ~\E r \in Requests : r.kind \in {"name", "retitle"} /\ r.id = current
    /\ Ask(ListBound, {Request("name", current, Nothing)})
    /\ UNCHANGED listVars

\* ChatContainer reloads the list when the stream on the screen ends.
StreamEnded ==
    /\ ChatShown
    /\ Ask(ListBound, {ListRequest})
    /\ UNCHANGED listVars

ListNext ==
    \/ ServeList
    \/ \E r \in DOMAIN asked : \/ InsertThread(r) \/ ServeDelete(r) \/ ServeRename(r)
                               \/ ServeName(r) \/ Refuse(r)
    \/ \E i \in DOMAIN answers : \/ ThreadReady(i) \/ SandboxFails(i) \/ ListCame(i) \/ ListFailed(i)
                                 \/ CreateCame(i) \/ CreateFailed(i) \/ DeleteCame(i)
                                 \/ DeleteFailed(i) \/ RenameCame(i) \/ RenameFailed(i)
                                 \/ NameCame(i) \/ NameFailed(i)
    \/ Login \/ NewThread \/ ShowKanban \/ ShowSkills \/ FirstMessage \/ StreamEnded
    \/ \E t \in 1..MaxThreads : SelectListed(t) \/ DeleteThread(t) \/ SaveTitle(t)

-----------------------------------------------------------------------------
Rows == [id : 1..MaxThreads, title : {"Thread", "given", "generated"}]

ListTypeOK ==
    /\ rows \in Seq(Rows) /\ threads \in Seq(Rows) /\ created \in 0..MaxThreads
    /\ {current, deleting} \subseteq 1..MaxThreads \cup {Nothing}
    /\ view \in {"thread", "kanban", "skills"}
    /\ creation \in {"idle", "creating", "failed"}
    /\ phase \in {"loading", "login", "ready"}
    /\ behind \in BOOLEAN /\ vanished \subseteq 1..MaxThreads

\* Whatever is clicked while whatever is under way, the sidebar is busy exactly
\* while its own creation or deletion is under way, and never for a thread that
\* cannot be freed; and once nothing is under way it lists each thread of the
\* server once, with its title, and the thread on the screen is one of them:
\* unless an answer was lost after it took effect, or was overtaken by a later
\* one and no list has been loaded since.
ThreadsAreTheServers ==
    /\ creation = "creating" <=> InFlight("create")
    /\ \A t \in 1..MaxThreads : deleting = t <=> \E r \in Requests : r.kind = "delete" /\ r.id = t
    /\ (Quiet /\ phase = "ready" /\ ~behind) =>
        /\ ToSet(threads) = ToSet(rows) /\ Len(threads) = Len(rows)
        /\ current \in {Nothing} \cup vanished \cup Ids(threads)
=============================================================================
