------------------------------ MODULE PanelLayout ------------------------------
(***************************************************************************)
(* The three sections of the right panel and the handles between them:     *)
(* RightPanel, SectionHeader and ResizeHandle of                           *)
(* web/src/components/panels/RightPanel.tsx, in pixels (halves and thirds  *)
(* rounded down).                                                          *)
(*                                                                         *)
(* A drag keeps calling the onDrag of the render in which the mouse went   *)
(* down: it computes with the sections and heights of that moment, while   *)
(* todos and subagents may open and close sections meanwhile. An action is *)
(* an event together with the renders and effects it causes.               *)
(***************************************************************************)
EXTENDS Integers, FiniteSets, FiniteSetsExt

CONSTANTS
    HEADER_HEIGHT, HANDLE_HEIGHT, MIN_CONTENT_HEIGHT, COLLAPSE_THRESHOLD,
    Containers,  \* heights the panel may have
    Deltas,      \* how far a drag moves
    MaxDrags,    \* bound on the drags
    EqualShare   \* null: the section takes its equal share

ASSUME LayoutAssumption ==
    /\ {HEADER_HEIGHT, HANDLE_HEIGHT, MIN_CONTENT_HEIGHT, COLLAPSE_THRESHOLD} \cup Containers \subseteq Nat
    /\ \E c \in Containers : \A d \in Containers : d <= c
    /\ Deltas \subseteq Int /\ MaxDrags \in Nat /\ EqualShare \notin Int

Sections == {"files", "tasks", "agents"}

VARIABLES
    container,  \* clientHeight of the panel
    open,       \* tasksOpen, filesOpen, agentsOpen
    height,     \* tasksHeight, filesHeight, agentsHeight
    shown,      \* the state heights, which the style of each section uses
    needs,      \* previousNeedsRef: the sections with something to show
    drag,       \* the drag under way: its handle, the render it belongs to, dragStartHeights
                \* and (auxiliary) whether a section has opened or closed since
    outdated,   \* auxiliary: the heights were computed for another container or other sections
    drags

layoutVars == <<container, open, height, shown, needs, drag, outdated, drags>>

-----------------------------------------------------------------------------
Opened(o) == {s \in Sections : o[s]}

getAvailableContentHeight(o) ==
    LET used == 3 * HEADER_HEIGHT
                + (IF o["files"] /\ (o["tasks"] \/ o["agents"]) THEN HANDLE_HEIGHT ELSE 0)
                + (IF o["tasks"] /\ o["agents"] THEN HANDLE_HEIGHT ELSE 0)
    IN  IF container > used THEN container - used ELSE 0

getContentHeights(o, h) ==
    [s \in Sections |->
        IF ~o[s] THEN 0
        ELSE IF h[s] # EqualShare THEN h[s]
        ELSE getAvailableContentHeight(o) \div Cardinality(Opened(o))]

AtLeastMin(x) == IF x < MIN_CONTENT_HEIGHT THEN MIN_CONTENT_HEIGHT ELSE x

\* Two neighbours that started with heights a and b, dragged by delta: neither
\* below the minimum if there is room, then cut to what the two may have, the
\* one that the drag pushes first.
Resized(a, b, delta, max) ==
    LET a1 == IF a + delta < MIN_CONTENT_HEIGHT THEN MIN_CONTENT_HEIGHT ELSE a + delta
        b1 == IF a + delta < MIN_CONTENT_HEIGHT THEN b + (a - MIN_CONTENT_HEIGHT) ELSE b - delta
        a2 == IF b1 < MIN_CONTENT_HEIGHT THEN a + (b - MIN_CONTENT_HEIGHT) ELSE a1
        b2 == AtLeastMin(b1)
        excess == a2 + b2 - max
    IN  IF excess <= 0 THEN <<a2, b2>>
        ELSE IF delta > 0 THEN <<a2, AtLeastMin(b2 - excess)>>
        ELSE <<AtLeastMin(a2 - excess), b2>>

AllEqual == [s \in Sections |-> EqualShare]

\* Mutant: heights set by a drag survive the opening of a section.
RenderKeepingHeights(o, h) ==
    open' = o /\ height' = h /\ shown' = getContentHeights(o, h)

\* The renders after a change: the heights are forgotten when a section has
\* opened or closed, and computed again when they or the sections have changed.
Render(o, h) ==
    LET h1 == IF o # open THEN AllEqual ELSE h
    IN  /\ open' = o /\ height' = h1
        /\ shown' = IF o # open \/ h1 # height THEN getContentHeights(o, h1) ELSE shown

NoDrag == [handle |-> "none", open |-> [s \in Sections |-> FALSE], height |-> AllEqual,
           start |-> [s \in Sections |-> 0], moved |-> FALSE, stale |-> FALSE]

-----------------------------------------------------------------------------
LayoutInit ==
    /\ container = Max(Containers)
    /\ open = [s \in Sections |-> s = "files"]
    /\ height = AllEqual
    /\ shown = getContentHeights(open, height)
    /\ needs = {}
    /\ drag = NoDrag
    /\ outdated = FALSE /\ drags = 0

\* A click on a section's header; the mouse is free.
ToggleSection(s) ==
    /\ drag = NoDrag
    /\ Render([open EXCEPT ![s] = ~@], height)
    /\ outdated' = FALSE
    /\ UNCHANGED <<container, needs, drag, drags>>

\* Todos or subagents come or go (also with another thread): a section opens
\* when it gets something to show, and closes, even one the user has opened, at
\* every change while it has nothing.
NeedsChange(n) ==
    LET next(s) == IF s \in n /\ s \notin needs THEN TRUE ELSE IF s \notin n THEN FALSE ELSE open[s]
        o == [open EXCEPT !["tasks"] = next("tasks"), !["agents"] = next("agents")]
    IN  /\ n # {} \/ needs # {}
        /\ needs' = n
        /\ Render(o, height)
        /\ outdated' = (outdated /\ o = open)
        /\ drag' = [drag EXCEPT !.stale = @ \/ (drag # NoDrag /\ o # open)]
        /\ UNCHANGED <<container, drags>>

\* The window changes: nothing computes the heights again.
WindowResize(c) ==
    /\ c # container
    /\ container' = c
    /\ outdated' = TRUE
    /\ UNCHANGED <<open, height, shown, needs, drag, drags>>

\* A handle is drawn between two open sections.
HandleShown(handle) ==
    \/ handle = "below files" /\ open["files"] /\ (open["tasks"] \/ open["agents"])
    \/ handle = "below tasks" /\ open["tasks"] /\ open["agents"]

MouseDown(handle) ==
    /\ drag = NoDrag /\ drags < MaxDrags
    /\ drags' = drags + 1
    /\ HandleShown(handle)
    /\ drag' = [NoDrag EXCEPT !.handle = handle, !.open = open, !.height = height]
    /\ UNCHANGED <<container, open, height, shown, needs, outdated>>

\* What onDrag of the render r makes of its drag: the two sections it resizes,
\* the other one, and what is left for the two.
Upper(r) == IF r.handle = "below files" THEN "files" ELSE "tasks"
Lower(r) == IF r.handle = "below files" /\ r.open["tasks"] THEN "tasks" ELSE "agents"

RoomForTwo(r) ==
    LET third == CHOOSE s \in Sections \ {Upper(r), Lower(r)} : TRUE
        available == getAvailableContentHeight(r.open)
    IN  IF ~r.open[third] THEN available
        ELSE IF r.height[third] = EqualShare THEN available - available \div 3
        ELSE available - r.height[third]

\* handleFilesTopResize and handleTasksAgentsResize.
MouseMove(delta) ==
    /\ drag # NoDrag
    /\ LET start == IF drag.moved THEN drag.start ELSE getContentHeights(drag.open, drag.height)
           up == Upper(drag)
           low == Lower(drag)
           new == Resized(start[up], start[low], delta, RoomForTwo(drag))
           o == [open EXCEPT ![up] = @ /\ new[1] >= COLLAPSE_THRESHOLD,
                             ![low] = @ /\ new[2] >= COLLAPSE_THRESHOLD]
       IN  /\ drag' = [drag EXCEPT !.start = start, !.moved = TRUE,
                                   !.stale = @ \/ o # open]
           /\ Render(o, [height EXCEPT ![up] = new[1], ![low] = new[2]])
           /\ outdated' = (o = open /\ (outdated \/ drag.stale))
    /\ UNCHANGED <<container, needs, drags>>

MouseUp ==
    /\ drag # NoDrag
    /\ drag' = NoDrag
    /\ UNCHANGED <<container, open, height, shown, needs, outdated, drags>>

LayoutNext ==
    \/ \E s \in Sections : ToggleSection(s)
    \/ \E n \in SUBSET {"tasks", "agents"} : NeedsChange(n)
    \/ \E c \in Containers : WindowResize(c)
    \/ \E handle \in {"below files", "below tasks"} : MouseDown(handle)
    \/ \E delta \in Deltas : MouseMove(delta)
    \/ MouseUp

LayoutSpec == LayoutInit /\ [][LayoutNext]_layoutVars

-----------------------------------------------------------------------------
LayoutTypeOK ==
    /\ container \in Containers /\ outdated \in BOOLEAN /\ drags \in 0..MaxDrags
    /\ open \in [Sections -> BOOLEAN] /\ needs \subseteq {"tasks", "agents"}
    /\ height \in [Sections -> Int \cup {EqualShare}] /\ shown \in [Sections -> Int]
    /\ drag \in [handle : {"none", "below files", "below tasks"}, open : [Sections -> BOOLEAN],
                 height : [Sections -> Int \cup {EqualShare}], start : [Sections -> Int],
                 moved : BOOLEAN, stale : BOOLEAN]

\* "Ensure total doesn't exceed available" and "clamp both to min height": when
\* the panel has room for the open sections at their minimum, they fill no more
\* than the panel and none is below the minimum, after any number of drags,
\* toggles and changes of the data. Only a window resized, or a drag that goes
\* on over sections that opened or closed meanwhile, leaves heights for another
\* layout (outdated), until a section opens or closes again.
HeightsFit ==
    LET available == getAvailableContentHeight(open)
    IN  (~outdated /\ available >= MIN_CONTENT_HEIGHT * Cardinality(Opened(open))) =>
            /\ shown["files"] + shown["tasks"] + shown["agents"] <= available
            /\ \A s \in Opened(open) : shown[s] >= MIN_CONTENT_HEIGHT
            /\ \A s \in Sections \ Opened(open) : shown[s] = 0
=============================================================================
