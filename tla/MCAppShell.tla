------------------------------- MODULE MCAppShell -------------------------------
(***************************************************************************)
(* The thread list, the model switcher, the skills page and the MCP page,  *)
(* checked side by side: they share no state at the client, so each        *)
(* behaviour exercises one of them, with the calls to itself.              *)
(***************************************************************************)
EXTENDS ThreadList, ModelChoice, SkillEditor, McpEditor, TLC

VARIABLE part

shellVars == <<listVars, modelVars, editorVars, mcpVars>>

\* The parts that are not exercised start in one way.
ShellInit ==
    /\ ListInit /\ ModelInit /\ EditorInit /\ McpInit
    /\ \/ part = "list" /\ CallsInit(FirstRequests)
       \/ part = "models" /\ CallsInit(ModelRequests)
       \/ part = "skills" /\ CallsInit(EditorRequests)
       \/ part = "mcps" /\ CallsInit(McpRequests)
    /\ part # "list" => rows = <<>>
    /\ part # "models" => saved = Nothing /\ keys = {}
    /\ part # "skills" => skillRows = {}
    /\ part # "mcps" => mcpRows = {}

ShellNext ==
    /\ UNCHANGED part
    /\ \/ part = "list" /\ ListNext /\ UNCHANGED <<modelVars, editorVars, mcpVars>>
       \/ part = "models" /\ ModelNext /\ UNCHANGED <<listVars, editorVars, mcpVars>>
       \/ part = "skills" /\ EditorNext /\ UNCHANGED <<listVars, modelVars, mcpVars>>
       \/ part = "mcps" /\ McpNext /\ UNCHANGED <<listVars, modelVars, editorVars>>

ShellSpec == ShellInit /\ [][ShellNext]_<<part, callVars, shellVars>>

\* Every variable of the four components has its type.
ShellTypeOK == ListTypeOK /\ ModelTypeOK /\ EditorTypeOK /\ McpTypeOK

\* What the sidebar shows is the server's once nothing is under way, unless an
\* answer was lost after it took effect, or was overtaken by a later one, and no
\* list has been loaded since (behind; vanished are threads that are gone while
\* the client was told otherwise); and it is busy exactly while its own calls
\* are, without exception (store.ts, App.tsx, ThreadSidebar.tsx).
SidebarShowsTheServer == part = "list" => ThreadsAreTheServers

\* The model, the providers and the models that are offered are the server's once
\* nothing is under way, but for those (unsure) whose last call failed or was
\* overtaken by a later one, and a model that was chosen while another choice or
\* the thread's details were under way; and the dialog is busy exactly while its
\* own calls are, without exception (ModelSwitcher.tsx, ApiKeyDialog.tsx,
\* store.ts, thread-context.tsx).
SwitcherShowsTheServer == part = "models" => ModelIsTheServers

\* The MCP page writes to a server only what was meant for it, and its buttons
\* are disabled exactly while its calls are under way, without exception; it ends
\* up listing the server's rows unless an answer was overtaken or lost and none
\* listed since (behindList), and shows a test's result under its own server
\* unless another was chosen during the test (strayed). The skills page writes to
\* a skill only what was meant for it, but for files saved while files were being
\* loaded or after another skill was chosen under such a load (mixed), and at
\* rest shows the server's, unless files were loaded for another skill than the
\* selected one (moved) or a listing was overtaken (outdated) (SkillsPage.tsx,
\* McpManager.tsx).
EditorsKeepToTheirOwn ==
    /\ part = "skills" => SkillEditorKeeps
    /\ part = "mcps" => McpEditorKeeps

-----------------------------------------------------------------------------
MCProviderOf == [m \in Models |-> "anthropic"]

MCFirstSkills == {{}, SkillIds}

MCListBound == [calls |-> 3, clicks |-> 4]

MCPageBound == [calls |-> 3, clicks |-> 2]

\* Skills are interchangeable, and so are MCP servers.
MCSymmetry == Permutations(SkillIds) \cup Permutations(McpIds)
=============================================================================
