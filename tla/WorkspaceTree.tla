----------------------------- MODULE WorkspaceTree -----------------------------
(***************************************************************************)
(* The file tree of the right panel: FilesContent and FileTree of          *)
(* web/src/components/panels/RightPanel.tsx with the loads that fill the   *)
(* same list from elsewhere: loadThreadHistory and the "workspace" event   *)
(* of web/src/lib/thread-context.tsx and WorkspacePicker.tsx. The panel    *)
(* clears the list and merges two levels at a time, history and picker     *)
(* replace it.                                                             *)
(*                                                                         *)
(* The panel is not mounted anew when the user goes to another thread: its *)
(* refs of loaded and loading directories serve one thread after the       *)
(* other, and answers to the earlier one's requests still change them. The *)
(* sandbox's files do not change here, and a workspace's path is only      *)
(* whether there is one.                                                   *)
(***************************************************************************)
EXTENDS Naturals, FiniteSets

CONSTANTS
    FirstViewed,  \* the thread selected at the start
    TreeThreads,  \* the user's threads
    Root,         \* the directory "/"
    Dirs,         \* the directories below it
    Files,        \* the files
    Parent,       \* the directory of each of them
    MaxLoads,     \* bound on the requests in flight
    MaxMoves      \* bound on how often the user changes what is on the screen

Entries == Dirs \cup Files

ASSUME TreeAssumption ==
    /\ FirstViewed \in TreeThreads
    /\ Root \notin Entries /\ Dirs \cap Files = {}
    /\ Parent \in [Entries -> Dirs \cup {Root}] /\ MaxLoads \in Nat /\ MaxMoves \in Nat

VARIABLES
    viewed,       \* currentThreadId
    creating,     \* threadCreation.status = "creating"
    chat,         \* is the thread's active tab the agent's?
    mounted,      \* is the FILES section open?
    workspaceFiles,  \* per thread
    initialized,  \* initializedThreadsRef
    loadedDirs,   \* loadedDirsRef
    loadingDirs,  \* loadingDirsRef
    refreshing,   \* the spinner of the panel's root load
    expanded,     \* the open directories of the FileTree on the screen
    loads,        \* requests not yet answered
    failed,       \* auxiliary: the last root load of the panel failed or found no workspace
    overtaken,    \* auxiliary: see PanelTellsTheTruth
    moves

treeVars == <<viewed, creating, chat, mounted, workspaceFiles, initialized, loadedDirs,
              loadingDirs, refreshing, expanded, loads, failed, overtaken, moves>>

-----------------------------------------------------------------------------
\* Mutant: the directory itself is listed too.
ListingWithRoot(d) == Entries \cup {d}

\* _list_workspace_tree with depth 2.
Listing(d) == {e \in Entries : Parent[e] = d \/ (Parent[e] # Root /\ Parent[Parent[e]] = d)}

\* The directories above an entry; buildFileTree adds those that are not listed.
Above[e \in Entries] == IF Parent[e] = Root THEN {} ELSE {Parent[e]} \cup Above[Parent[e]]

buildFileTree(files) == files \cup UNION {Above[e] : e \in files}

ChatShown == chat /\ ~creating

\* A node is drawn below expanded directories only, and takes clicks while the
\* panel has a tree and the node's own listing is not under way.
Clickable(d) ==
    /\ mounted /\ ~creating
    /\ d \in buildFileTree(workspaceFiles[viewed]) /\ Above[d] \subseteq expanded
    /\ d \notin loadingDirs

\* A request of one of the three loaders: for the workspace's path first, then
\* for a directory. For those of the panel: does it still reach the panel's refs
\* (live), is no later root load begun (fresh), and does its answer expand the
\* directory in the tree that was clicked (click)?
Load(from, step, t, d, click) ==
    [from |-> from, step |-> step, thread |-> t, dir |-> d,
     live |-> TRUE, fresh |-> TRUE, click |-> click]

\* The picker of a chat, the first part of loadThreadHistory, and the panel
\* begin with the path.
PickerLoad(t) == Load("picker", "path", t, Root, FALSE)
HistoryLoad(t) == Load("history", "path", t, Root, FALSE)
PanelLoad(t) == Load("panel", "path", t, Root, FALSE)

\* The list after an answer: the panel merges, the others replace.
Merged(l) ==
    IF l.from = "panel" THEN workspaceFiles[l.thread] \cup Listing(l.dir) ELSE Listing(Root)

\* The FileTree is there while the panel has files to show; another one starts
\* with every directory closed, and a click on an earlier one expands nothing.
Tree(t, busy, open, files, exp, requests) ==
    LET shown == open /\ ~busy /\ files[t] # {}
    IN  /\ Cardinality(requests) <= MaxLoads
        /\ workspaceFiles' = files
        /\ expanded' = IF shown THEN exp ELSE {}
        /\ loads' = IF shown THEN requests ELSE {[l EXCEPT !.click = FALSE] : l \in requests}

Outdated(requests) == {[l EXCEPT !.fresh = l.from # "panel"] : l \in requests}

\* Mutant: the directories loaded before still count as loaded.
BeginRootLoadKeepingDirs ==
    /\ loadingDirs' = {} /\ UNCHANGED loadedDirs
    /\ refreshing' = TRUE
    /\ failed' = FALSE /\ overtaken' = FALSE

\* loadWorkspace and handleRefresh up to their first await.
BeginRootLoad ==
    /\ loadedDirs' = {} /\ loadingDirs' = {}
    /\ refreshing' = TRUE
    /\ failed' = FALSE /\ overtaken' = FALSE

Move == moves < MaxMoves /\ moves' = moves + 1

KeepPanel == UNCHANGED <<loadedDirs, loadingDirs, refreshing, failed, overtaken>>

-----------------------------------------------------------------------------
TreeInit ==
    /\ viewed = FirstViewed /\ creating = FALSE /\ chat = TRUE /\ mounted = TRUE
    /\ workspaceFiles = [t \in TreeThreads |-> {}]
    /\ initialized = {viewed}
    /\ loadedDirs = {} /\ loadingDirs = {} /\ refreshing = TRUE /\ expanded = {}
    /\ loads = {PanelLoad(viewed), PickerLoad(viewed), HistoryLoad(viewed)}
    /\ failed = FALSE /\ overtaken = FALSE /\ moves = 0

\* Another thread, another tab or the creation of a thread comes to the screen.
\* useCurrentThread loads the history of a thread seen for the first time; a
\* chat that is mounted or given another thread reloads it (the same load twice
\* counts once here) and its picker loads the root; the panel starts over when
\* the thread is another one.
Show(t, tab, busy) ==
    LET mountsChat == tab /\ ~busy /\ ~(ChatShown /\ t = viewed)
        startsOver == mounted /\ t # viewed
        history == IF mountsChat \/ t \notin initialized THEN {HistoryLoad(t)} ELSE {}
        picker == IF mountsChat THEN {PickerLoad(t)} ELSE {}
        panel == IF startsOver THEN {PanelLoad(t)} ELSE {}
    IN  /\ viewed' = t /\ chat' = tab /\ creating' = busy
        /\ initialized' = initialized \cup {t}
        /\ IF startsOver THEN BeginRootLoad ELSE KeepPanel
        /\ Tree(t, busy, mounted,
                IF startsOver THEN [workspaceFiles EXCEPT ![t] = {}] ELSE workspaceFiles,
                expanded,
                (IF startsOver THEN Outdated(loads) ELSE loads) \cup history \cup picker \cup panel)
        /\ UNCHANGED mounted

SelectThread(t) == t # viewed /\ Move /\ \E tab \in BOOLEAN : Show(t, tab, creating)

SelectTabKind == ~creating /\ Move /\ Show(viewed, ~chat, FALSE)

StartCreating == ~creating /\ Move /\ Show(viewed, chat, TRUE)

\* The new thread is selected, or none when its creation failed.
EndCreating(t) == creating /\ Show(t, chat \/ t # viewed, FALSE) /\ UNCHANGED moves

\* The FILES section, with FilesContent in it, is closed or opened.
ToggleFiles ==
    /\ Move
    /\ mounted' = ~mounted
    /\ IF mounted
       THEN /\ loadedDirs' = {} /\ loadingDirs' = {} /\ refreshing' = FALSE
            /\ failed' = FALSE /\ overtaken' = FALSE
            /\ Tree(viewed, creating, FALSE, workspaceFiles, {},
                    {[l EXCEPT !.live = l.from # "panel"] : l \in loads})
       ELSE /\ BeginRootLoad
            /\ Tree(viewed, creating, TRUE, [workspaceFiles EXCEPT ![viewed] = {}], {},
                    Outdated(loads) \cup {PanelLoad(viewed)})
    /\ UNCHANGED <<viewed, creating, chat, initialized>>

\* handleRefresh: the button is disabled while it spins.
Refresh ==
    /\ Move
    /\ mounted /\ ~refreshing /\ ~creating
    /\ BeginRootLoad
    /\ Tree(viewed, creating, mounted, [workspaceFiles EXCEPT ![viewed] = {}], expanded,
            Outdated(loads) \cup {PanelLoad(viewed)})
    /\ UNCHANGED <<viewed, creating, chat, mounted, initialized>>

\* A click on a directory on the screen (handleNodeClick, fetchDirectoryTree):
\* close it, open it when it counts as loaded, else load it first.
ClickDir(d) ==
    /\ Clickable(d)
    /\ LET loadsIt == d \notin expanded \cup loadedDirs
           exp == IF d \in expanded THEN expanded \ {d}
                  ELSE IF loadsIt THEN expanded ELSE expanded \cup {d}
           requests == IF loadsIt THEN {Load("panel", "tree", viewed, d, TRUE)} ELSE {}
       IN  /\ Tree(viewed, creating, mounted, workspaceFiles, exp, loads \cup requests)
           /\ loadingDirs' = IF loadsIt THEN loadingDirs \cup {d} ELSE loadingDirs
    /\ UNCHANGED <<viewed, creating, chat, mounted, initialized, loadedDirs, refreshing, failed, overtaken, moves>>

\* The answer to the request for the path: there is a workspace, or there is
\* none or the request failed (ok FALSE). The panel skips the root when its refs say that
\* somebody is loading it.
PathAnswer(l, ok) ==
    LET mine == l.from = "panel" /\ l.live
        goesOn == ok /\ ~(mine /\ Root \in loadingDirs)
    IN  /\ l \in loads /\ l.step = "path"
        /\ Tree(viewed, creating, mounted, workspaceFiles, expanded,
                (loads \ {l}) \cup IF goesOn THEN {[l EXCEPT !.step = "tree"]} ELSE {})
        /\ loadingDirs' = IF mine /\ goesOn THEN loadingDirs \cup {Root} ELSE loadingDirs
        /\ refreshing' = (refreshing /\ (mine => goesOn))
        /\ failed' = (failed \/ (mine /\ l.fresh /\ ~ok))
        /\ overtaken' = (overtaken \/ (mine /\ ~l.fresh))
        /\ UNCHANGED <<viewed, creating, chat, mounted, initialized, loadedDirs, moves>>

\* A listing comes, or the request for it fails: fetchDirectoryTree merges it
\* into the list of the thread it was asked for, history and picker replace
\* that list.
TreeAnswer(l, ok) ==
    LET mine == l.from = "panel" /\ l.live
        replacesMore == ok /\ l.from # "panel" /\ l.thread = viewed /\ ~(loadedDirs \subseteq {Root})
    IN  /\ l \in loads /\ l.step = "tree"
        /\ Tree(viewed, creating, mounted,
                IF ok THEN [workspaceFiles EXCEPT ![l.thread] = Merged(l)] ELSE workspaceFiles,
                IF l.click THEN expanded \cup {l.dir} ELSE expanded,
                loads \ {l})
        /\ loadedDirs' = IF mine /\ ok THEN loadedDirs \cup {l.dir} ELSE loadedDirs
        /\ loadingDirs' = IF mine THEN loadingDirs \ {l.dir} ELSE loadingDirs
        /\ refreshing' = (refreshing /\ ~(mine /\ l.dir = Root))
        /\ failed' = (failed \/ (mine /\ l.fresh /\ l.dir = Root /\ ~ok))
        /\ overtaken' = (overtaken \/ (mine /\ ~l.fresh) \/ replacesMore)
        /\ UNCHANGED <<viewed, creating, chat, mounted, initialized, moves>>

\* The "workspace" event of a stream names a file the agent has touched.
StreamFile(t, f) ==
    /\ f \notin workspaceFiles[t]
    /\ Tree(viewed, creating, mounted, [workspaceFiles EXCEPT ![t] = @ \cup {f}], expanded, loads)
    /\ KeepPanel
    /\ UNCHANGED <<viewed, creating, chat, mounted, initialized, moves>>

TreeNext ==
    \/ \E t \in TreeThreads : SelectThread(t) \/ EndCreating(t)
    \/ SelectTabKind
    \/ StartCreating
    \/ ToggleFiles
    \/ Refresh
    \/ \E d \in Dirs : ClickDir(d)
    \/ \E l \in loads, ok \in BOOLEAN : PathAnswer(l, ok) \/ TreeAnswer(l, ok)
    \/ \E t \in TreeThreads, f \in Files : StreamFile(t, f)

TreeSpec == TreeInit /\ [][TreeNext]_treeVars

-----------------------------------------------------------------------------
TreeTypeOK ==
    /\ viewed \in TreeThreads /\ initialized \subseteq TreeThreads
    /\ {creating, chat, mounted, refreshing, failed, overtaken} \subseteq BOOLEAN
    /\ workspaceFiles \in [TreeThreads -> SUBSET Entries]
    /\ loadedDirs \subseteq Dirs \cup {Root} /\ loadingDirs \subseteq Dirs \cup {Root}
    /\ expanded \subseteq Dirs /\ moves \in 0..MaxMoves
    /\ loads \subseteq [from : {"panel", "picker", "history"}, step : {"path", "tree"},
                        thread : TreeThreads, dir : Dirs \cup {Root},
                        live : BOOLEAN, fresh : BOOLEAN, click : BOOLEAN]

\* What the panel believes about directories is true of the thread on the
\* screen: a directory counts as loaded only with its listing in the list, as
\* loading only while its request is under way, the spinner turns exactly during
\* the root load, and a root load that ended well has loaded the root. Only an
\* answer to a request from before the last root load, or a history or picker
\* load that replaced a list with further directories, may have broken this
\* (overtaken); the next root load repairs it.
PanelTellsTheTruth ==
    (mounted /\ ~overtaken) =>
        LET asked == {l \in loads : l.from = "panel" /\ l.live /\ l.fresh}
        IN  /\ \A d \in loadedDirs : Listing(d) \subseteq workspaceFiles[viewed]
            /\ loadingDirs = {l.dir : l \in {m \in asked : m.step = "tree"}}
            /\ refreshing <=> \E l \in asked : l.dir = Root
            /\ ~refreshing /\ ~failed => Root \in loadedDirs
=============================================================================
