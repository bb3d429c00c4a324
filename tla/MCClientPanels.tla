---------------------------- MODULE MCClientPanels ----------------------------
(***************************************************************************)
(* The tabs with their viewer, the file tree and the layout of the right   *)
(* panel, checked side by side: they share nothing but the thread on the   *)
(* screen, which each changes on its own, so each behaviour exercises one  *)
(* of the three and leaves the others as they start.                       *)
(***************************************************************************)
EXTENDS FileTabs, WorkspaceTree, PanelLayout

VARIABLE part

PanelsInit ==
    /\ part \in {"tabs", "tree", "layout"}
    /\ TabsInit /\ TreeInit /\ LayoutInit

PanelsNext ==
    /\ UNCHANGED part
    /\ \/ part = "tabs" /\ TabsNext /\ UNCHANGED <<treeVars, layoutVars>>
       \/ part = "tree" /\ TreeNext /\ UNCHANGED <<tabsVars, layoutVars>>
       \/ part = "layout" /\ LayoutNext /\ UNCHANGED <<tabsVars, treeVars>>

PanelsSpec == PanelsInit /\ [][PanelsNext]_<<part, tabsVars, treeVars, layoutVars>>

\* Every variable of the three components has its type.
PanelsTypeOK == TabsTypeOK /\ TreeTypeOK /\ LayoutTypeOK

-----------------------------------------------------------------------------
\* A picture (an empty one) and a text.
MCExt == [p \in Paths |-> IF p = "blank" THEN "image" ELSE "markdown"]

\* /src/lib/main: the file is out of the root listing's two levels.
MCParent == [e \in Entries |-> CASE e = "src" -> Root [] e = "lib" -> "src" [] OTHER -> "lib"]

MCDeltas == {-120, 60, 300}
=============================================================================
