------------------------------- MODULE FileTabs -------------------------------
(***************************************************************************)
(* The tabs over the chat and the file viewer under them: openFiles,       *)
(* activeTab and fileContents of a thread (web/src/lib/thread-context.tsx),*)
(* TabBar, TabbedPanel and FileViewer (web/src/components/tabs).           *)
(*                                                                         *)
(* React keeps a FileViewer alive as long as it is rendered at the same    *)
(* place with the same key, and the key is the path alone: switching to a  *)
(* thread that shows the same path keeps the viewer with what it has read. *)
(* An action below is a click or an answer together with the renders and   *)
(* effects it causes. A file's content is named by the thread whose        *)
(* sandbox it was read from.                                               *)
(***************************************************************************)
EXTENDS Naturals, FiniteSets, SequencesExt

CONSTANTS
    TabThreads,  \* the user's threads
    FirstShown,  \* the one on the screen at the start
    Paths,       \* file paths, the same in every sandbox
    Ext,         \* the class of a path's extension, a function on Paths
    EmptyPaths,  \* the files without content
    Agent,       \* the tab "agent"
    None,        \* nothing
    MaxReads     \* bound on the reads in flight

ASSUME TabsAssumption ==
    /\ FirstShown \in TabThreads /\ Agent \notin Paths /\ None \notin TabThreads \cup Paths
    /\ Ext \in [Paths -> {"", "image", "video", "audio", "pdf", "code", "markdown", "text", "other"}]
    /\ EmptyPaths \subseteq Paths /\ MaxReads \in Nat

VARIABLES
    shownThread,  \* currentThreadId
    openFiles,    \* per thread, in the order of the tabs
    activeTab,    \* per thread
    contents,     \* per thread: the paths in fileContents
    viewer,       \* the FileViewer on the screen
    reads,        \* readFile and readBinaryFile calls not yet answered
    late          \* auxiliary: <<thread, path>> whose content came after the tab was closed

tabsVars == <<shownThread, openFiles, activeTab, contents, viewer, reads, late>>

-----------------------------------------------------------------------------
\* getFileType: a name without extension is text; unknown extensions are binary.
FileType(p) ==
    CASE Ext[p] \in {"", "text"} -> "text"
      [] Ext[p] \in {"code", "markdown"} -> "code"
      [] Ext[p] = "other" -> "binary"
      [] OTHER -> Ext[p]

Media == {"image", "video", "audio", "pdf"}

IsBinaryFile(p) == FileType(p) \in Media \cup {"binary"}

NoViewer == [path |-> None, loading |-> FALSE, error |-> FALSE, binary |-> None, carried |-> FALSE]

\* What the viewer of path p shows when it has text (of the file in that
\* thread, None without) and bytes.
Shows(v, text) ==
    LET kind == FileType(v.path)
    IN  CASE v.loading -> "Loading file..."
          [] ~v.loading /\ v.error -> "Failed to load file"
          [] ~v.loading /\ ~v.error /\ text = None /\ v.binary = None -> "No content"
          [] OTHER ->
               IF kind \in Media /\ v.binary # None /\ v.path \notin EmptyPaths THEN kind
               ELSE IF kind = "binary" THEN "binary"
               ELSE IF text = None THEN "nothing"
               ELSE IF Ext[v.path] = "markdown" THEN "markdown" ELSE "code"

\* TabbedPanel: the path in the viewer, None in the chat (or in the fallback).
ActiveFile(t, files, tab) == IF tab[t] \in ToSet(files[t]) THEN tab[t] ELSE None

\* The thread whose text the viewer of the thread on the screen has.
TextOf(t, p) == IF p \in contents[t] THEN t ELSE None

\* Mutant: the viewer is rendered without a key.
KeptWithoutKey(p, remount) == p # None /\ viewer.path # None /\ ~remount

\* React keeps the viewer when it is rendered again with the same key.
Kept(p, remount) == p # None /\ viewer.path = p /\ ~remount

FreshRead == CHOOSE n \in 1..MaxReads : \A r \in reads : r.n # n

\* Rendering thread t with these tabs: a viewer with another key (or a panel
\* that had left the screen) is mounted anew, and reads of the old one reach no
\* viewer any more. The load effect of a new viewer, or of one whose thread has
\* changed, reads the file when neither the thread's text nor bytes from before
\* are there.
Rendered(t, files, tab, remount) ==
    LET p == ActiveFile(t, files, tab)
        kept == Kept(p, remount)
        old == IF kept THEN viewer ELSE [NoViewer EXCEPT !.path = p]
        left == IF kept THEN reads ELSE {[r EXCEPT !.live = FALSE] : r \in reads}
        runs == p # None /\ (kept => t # shownThread)
        load == runs /\ p \notin contents[t] /\ old.binary = None
    IN  /\ load => Cardinality(reads) < MaxReads
        /\ viewer' = [old EXCEPT !.loading = load \/ @, !.error = ~load /\ @,
                                 !.carried = kept /\ (t # shownThread \/ @)]
        /\ reads' = IF load
                    THEN left \cup {[n |-> FreshRead, thread |-> t, path |-> p, live |-> TRUE]}
                    ELSE left

-----------------------------------------------------------------------------
TabsInit ==
    /\ shownThread = FirstShown
    /\ openFiles = [t \in TabThreads |-> <<>>]
    /\ activeTab = [t \in TabThreads |-> Agent]
    /\ contents = [t \in TabThreads |-> {}]
    /\ viewer = NoViewer
    /\ reads = {}
    /\ late = {}

\* A click on a file in the tree.
OpenFile(p) ==
    LET t == shownThread
        files == IF p \in ToSet(openFiles[t]) THEN openFiles
                 ELSE [openFiles EXCEPT ![t] = Append(@, p)]
        tab == [activeTab EXCEPT ![t] = p]
    IN  /\ openFiles' = files /\ activeTab' = tab
        /\ Rendered(t, files, tab, FALSE)
        /\ UNCHANGED <<shownThread, contents, late>>

\* Its tab: a file has one at most (TabsConsistent), and closing it removes that.
TabIndex(t, p) == CHOOSE i \in DOMAIN openFiles[t] : openFiles[t][i] = p

Remaining(t, p) == RemoveAt(openFiles[t], TabIndex(t, p))

\* Mutant: a tab that is closed stays active.
NewActiveUnchanged(t, p) == activeTab[t]

\* closeFile: the neighbour on the left becomes active, or the first one.
NewActive(t, p) ==
    LET index == TabIndex(t, p)
    IN  IF activeTab[t] # p THEN activeTab[t]
        ELSE IF Remaining(t, p) = <<>> THEN Agent
        ELSE IF index > 1 THEN Remaining(t, p)[index - 1] ELSE Remaining(t, p)[1]

\* The cross of a tab, or a middle click on it.
CloseFile(p) ==
    LET t == shownThread
        files == [openFiles EXCEPT ![t] = Remaining(t, p)]
        tab == [activeTab EXCEPT ![t] = NewActive(t, p)]
    IN  /\ p \in ToSet(openFiles[t])
        /\ openFiles' = files /\ activeTab' = tab
        /\ contents' = [contents EXCEPT ![t] = @ \ {p}]
        /\ late' = late \ {<<t, p>>}
        /\ Rendered(t, files, tab, FALSE)
        /\ UNCHANGED shownThread

\* A click on a tab.
SelectTab(x) ==
    LET tab == [activeTab EXCEPT ![shownThread] = x]
    IN  /\ x \in {Agent} \cup ToSet(openFiles[shownThread])
        /\ activeTab' = tab
        /\ Rendered(shownThread, openFiles, tab, FALSE)
        /\ UNCHANGED <<shownThread, openFiles, contents, late>>

ShowThread(t) ==
    /\ t # shownThread
    /\ shownThread' = t
    /\ Rendered(t, openFiles, activeTab, FALSE)
    /\ UNCHANGED <<openFiles, activeTab, contents, late>>

\* Back from the board, the skills page or "Preparing thread...", each of which
\* App renders in place of the tabbed panel.
Return ==
    /\ Rendered(shownThread, openFiles, activeTab, TRUE)
    /\ UNCHANGED <<shownThread, openFiles, activeTab, contents, late>>

\* A text comes: setFileContents stores it for the thread it was read in,
\* whether or not the file is still open there.
TextRead(r) ==
    /\ r \in reads /\ ~IsBinaryFile(r.path)
    /\ reads' = reads \ {r}
    /\ contents' = [contents EXCEPT ![r.thread] = @ \cup {r.path}]
    /\ late' = IF r.path \in ToSet(openFiles[r.thread]) THEN late
               ELSE late \cup {<<r.thread, r.path>>}
    /\ viewer' = IF r.live THEN [viewer EXCEPT !.loading = FALSE] ELSE viewer
    /\ UNCHANGED <<shownThread, openFiles, activeTab>>

\* Bytes come: they stay in the viewer that asked for them.
BytesRead(r) ==
    /\ r \in reads /\ IsBinaryFile(r.path)
    /\ reads' = reads \ {r}
    /\ viewer' = IF r.live THEN [viewer EXCEPT !.binary = r.thread, !.loading = FALSE] ELSE viewer
    /\ UNCHANGED <<shownThread, openFiles, activeTab, contents, late>>

ReadFails(r) ==
    /\ r \in reads
    /\ reads' = reads \ {r}
    /\ viewer' = IF r.live THEN [viewer EXCEPT !.error = TRUE, !.loading = FALSE] ELSE viewer
    /\ UNCHANGED <<shownThread, openFiles, activeTab, contents, late>>

TabsNext ==
    \/ \E p \in Paths : OpenFile(p) \/ CloseFile(p)
    \/ \E x \in Paths \cup {Agent} : SelectTab(x)
    \/ \E t \in TabThreads : ShowThread(t)
    \/ Return
    \/ \E r \in reads : TextRead(r) \/ BytesRead(r) \/ ReadFails(r)

TabsSpec == TabsInit /\ [][TabsNext]_tabsVars

-----------------------------------------------------------------------------
TabsTypeOK ==
    /\ shownThread \in TabThreads
    /\ openFiles \in [TabThreads -> Seq(Paths)]
    /\ activeTab \in [TabThreads -> Paths \cup {Agent}]
    /\ contents \in [TabThreads -> SUBSET Paths]
    /\ viewer \in [path : Paths \cup {None}, loading : BOOLEAN, error : BOOLEAN,
                   binary : TabThreads \cup {None}, carried : BOOLEAN]
    /\ reads \subseteq [n : 1..MaxReads, thread : TabThreads, path : Paths, live : BOOLEAN]
    /\ late \subseteq TabThreads \X Paths

\* TabbedPanel's "Fallback - shouldn't happen": whatever is opened, closed,
\* selected and answered in whatever thread, the active tab is the agent's or
\* that of an open file, no file has two tabs, the viewer on the screen is the
\* active tab's, and a thread keeps contents only of open files, except of one
\* whose content came after it was closed.
TabsConsistent ==
    /\ \A t \in TabThreads :
        /\ activeTab[t] \in {Agent} \cup ToSet(openFiles[t])
        /\ \A i, j \in DOMAIN openFiles[t] : openFiles[t][i] = openFiles[t][j] => i = j
        /\ \A p \in contents[t] : p \in ToSet(openFiles[t]) \/ <<t, p>> \in late
    /\ viewer.path = ActiveFile(shownThread, openFiles, activeTab)

\* "Use key to force remount when file changes, ensuring fresh state": a viewer
\* not carried over from another thread spins exactly while its read is under
\* way, holds bytes only of the thread on the screen, and otherwise shows the
\* file or the error, never "No content", and nothing at all only of empty media.
ViewerShowsItsFile ==
    (viewer.path # None /\ ~viewer.carried) =>
        LET shown == Shows(viewer, TextOf(shownThread, viewer.path))
        IN  /\ viewer.binary \in {None, shownThread}
            /\ viewer.loading <=> \E r \in reads : r.live
            /\ \A r \in reads : r.live => r.thread = shownThread /\ r.path = viewer.path
            /\ shown # "No content"
            /\ shown = "nothing" => viewer.path \in EmptyPaths /\ FileType(viewer.path) \in Media
=============================================================================
