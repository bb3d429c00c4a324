------------------------------- MODULE McpEditor -------------------------------
(***************************************************************************)
(* The page of the MCP servers (web/src/components/skills/McpManager.tsx)  *)
(* against the server's own (api/mcps.py).                                 *)
(*                                                                         *)
(* As on the skills page the list is loaded whenever the selection or the  *)
(* new key changes, and each list, making the selected server another      *)
(* object, refills the form and clears the result of the test. Other than  *)
(* there, changes exclude one another. A configuration or a secret is      *)
(* named by the MCP server it was typed for; one that does not parse is    *)
(* refused before anything happens and is left out.                        *)
(***************************************************************************)
EXTENDS ClientCalls, FiniteSets

CONSTANTS
    McpIds,    \* MCP servers that exist or are yet to be installed
    McpBound   \* bounds on calls and clicks

ASSUME McpEditorAssumption == Nothing \notin McpIds /\ McpBound \in Bounds

VARIABLES
    mcpRows,      \* the user's MCP servers
    uninstalled,  \* ids not given out yet
    mcps,         \* as mcpRows
    selectedMcp,  \* selectedMcpId
    form,         \* editConfigDraft and editSecretDraft
    keyToDerive,  \* newMcpKey is empty
    mcpSaving,    \* saving
    testing,
    testResult,   \* the MCP server whose result is shown
    behindList,   \* auxiliary: mcps need not be the server's
    strayed       \* auxiliary: another MCP server was selected during the test

mcpVars == <<mcpRows, uninstalled, mcps, selectedMcp, form, keyToDerive, mcpSaving, testing,
             testResult, behindList, strayed>>

pageVars == <<mcps, selectedMcp, form, keyToDerive, mcpSaving, testing, testResult, behindList,
              strayed>>

\* The list, in the order of the last updates, which is left open.
McpRow(id, on, config, secret) == [id |-> id, on |-> on, config |-> config, secret |-> secret]

McpIdsOf(list) == {m.id : m \in list}

Empty == [config |-> Nothing, secret |-> Nothing]

\* handler: the one that awaits this load, "effect" otherwise.
ListMcps(handler, id, blank, new) ==
    Request("list", handler, [selected |-> id, blank |-> blank, then |-> new])

McpRequests == {ListMcps("effect", Nothing, TRUE, Nothing)}

McpInit ==
    /\ \E installed \in SUBSET McpIds : mcpRows = {McpRow(m, TRUE, m, Nothing) : m \in installed}
    /\ uninstalled = McpIds \ McpIdsOf(mcpRows)
    /\ mcps = {} /\ selectedMcp = Nothing /\ form = Empty /\ keyToDerive = TRUE
    /\ mcpSaving = FALSE /\ testing = FALSE /\ testResult = Nothing
    /\ behindList = TRUE /\ strayed = FALSE

-----------------------------------------------------------------------------
\* The server.

ServeMcpRead(r) ==
    /\ r \in DOMAIN asked
    /\ \/ r.kind = "list" /\ Reply(r, TRUE, TRUE, mcpRows)
       \/ r.kind = "test" /\ r.id \in McpIdsOf(mcpRows) /\ Reply(r, TRUE, TRUE, r.id)
    /\ UNCHANGED mcpVars

ServeCreateMcp(r) ==
    /\ r \in DOMAIN asked /\ r.kind = "create"
    /\ \E m \in uninstalled :
        /\ uninstalled' = uninstalled \ {m}
        /\ \E secret \in {m, Nothing} : mcpRows' = mcpRows \cup {McpRow(m, TRUE, m, secret)}
        /\ Reply(r, TRUE, TRUE, m)
    /\ UNCHANGED pageVars

\* What the request leaves out stays as it is.
ServeUpdateMcp(r) ==
    /\ r \in DOMAIN asked /\ r.kind = "update"
    /\ \E old \in mcpRows :
        LET new == McpRow(r.id, r.arg.on,
                          IF r.arg.config = Nothing THEN old.config ELSE r.arg.config,
                          IF r.arg.secret = Nothing THEN old.secret ELSE r.arg.secret)
        IN  /\ old.id = r.id
            /\ mcpRows' = (mcpRows \ {old}) \cup {new}
            /\ Reply(r, TRUE, TRUE, new)
    /\ UNCHANGED <<uninstalled, pageVars>>

ServeDeleteMcp(r) ==
    /\ r \in DOMAIN asked /\ r.kind = "delete" /\ r.id \in McpIdsOf(mcpRows)
    /\ mcpRows' = {m \in mcpRows : m.id # r.id}
    /\ Reply(r, TRUE, TRUE, Nothing)
    /\ UNCHANGED <<uninstalled, pageVars>>

RefuseMcp(r) ==
    /\ r \in DOMAIN asked
    /\ Reply(r, FALSE, TRUE, Nothing)
    /\ UNCHANGED mcpVars

-----------------------------------------------------------------------------
\* Rendering with this list and selection, and the effects. again: the selected
\* MCP server is another object, newKey: the new key has changed; i: the answer
\* that came back, 0 for a click.

\* Mutant: the form is not filled again when another MCP server is selected.
FormOfFirst(list, id, again) ==
    IF ~again \/ form # Empty THEN form
    ELSE IF id \notin McpIdsOf(list) THEN Empty
    ELSE [config |-> (CHOOSE m \in list : m.id = id).config, secret |-> Nothing]

Refilled(list, id, again) ==
    IF ~again THEN form
    ELSE IF id \notin McpIdsOf(list) THEN Empty
    ELSE [config |-> (CHOOSE m \in list : m.id = id).config, secret |-> Nothing]

McpRendered(i, list, id, another, newKey) ==
    LET again == another \/ id # selectedMcp
        rs == IF id # selectedMcp \/ newKey
              THEN {ListMcps("effect", id, keyToDerive /\ ~newKey, Nothing)} ELSE {}
    IN  /\ mcps' = list /\ selectedMcp' = id
        /\ form' = Refilled(list, id, again)
        /\ testResult' = IF again THEN Nothing ELSE testResult
        /\ strayed' = (strayed \/ (id # selectedMcp /\ testing))
        /\ IF i = 0 THEN Ask(McpBound, rs) ELSE Receive(McpBound, i, rs)

\* loadMcps decides by the selection and the key of the render it was called in;
\* handleCreateMcp then selects the new one and derives the next key.
McpsCame(i) ==
    LET a == answers[i]
        old == a.to.arg
    IN  /\ a.ok /\ a.to.kind = "list"
        /\ \E id \in SelectedAfter(old, McpIdsOf(a.is), selectedMcp),
              newKey \in Renewed(old, keyToDerive) :
             McpRendered(i, a.is, id, TRUE, newKey)
        /\ keyToDerive' = (keyToDerive /\ Renewed(old, keyToDerive) = {FALSE})
        /\ mcpSaving' = (mcpSaving /\ a.to.id = "effect")
        /\ behindList' = a.overtaken
        /\ UNCHANGED <<mcpRows, uninstalled, testing>>

McpsFailed(i) ==
    LET a == answers[i]
        new == a.to.arg.then
    IN  /\ ~a.ok /\ a.to.kind = "list"
        /\ McpRendered(i, mcps, IF new = Nothing THEN selectedMcp ELSE new, FALSE, new # Nothing)
        /\ keyToDerive' = (keyToDerive /\ new = Nothing)
        /\ mcpSaving' = (mcpSaving /\ a.to.id = "effect")
        /\ behindList' = TRUE
        /\ UNCHANGED <<mcpRows, uninstalled, testing>>

\* The list is loaded as in the render of the click.
McpChanged(i) ==
    LET a == answers[i]
    IN  /\ a.ok /\ a.to.kind \in {"create", "delete"}
        /\ Receive(McpBound, i,
                   {Request("list", a.to.kind, [a.to.arg EXCEPT !.then = a.is])})
        /\ UNCHANGED mcpVars

McpUpdated(i) ==
    LET a == answers[i]
        old == {m \in mcps : m.id = a.to.id}
    IN  /\ a.ok /\ a.to.kind = "update"
        /\ McpRendered(i, IF old = {} THEN mcps ELSE (mcps \ old) \cup {a.is}, selectedMcp,
                       old # {} /\ a.to.id = selectedMcp, FALSE)
        /\ mcpSaving' = FALSE
        /\ behindList' = (behindList \/ a.overtaken)
        /\ UNCHANGED <<mcpRows, uninstalled, keyToDerive, testing>>

\* Refused, or the answer was lost.
McpChangeFailed(i) ==
    /\ answers[i].to.kind \in Changes
    /\ Receive(McpBound, i, {})
    /\ mcpSaving' = FALSE
    /\ behindList' = (behindList \/ answers[i].ok)
    /\ UNCHANGED <<mcpRows, uninstalled, mcps, selectedMcp, form, keyToDerive, testing, testResult,
                   strayed>>

\* The result is shown whichever MCP server is selected by now.
Tested(i) ==
    /\ answers[i].to.kind = "test"
    /\ Receive(McpBound, i, {})
    /\ testing' = FALSE
    /\ testResult' \in IF answers[i].ok THEN {answers[i].is, testResult} ELSE {testResult}
    /\ UNCHANGED <<mcpRows, uninstalled, mcps, selectedMcp, form, keyToDerive, mcpSaving, behindList,
                   strayed>>

-----------------------------------------------------------------------------
\* The user.

McpShown == selectedMcp \in McpIdsOf(mcps)

SelectMcp(m) ==
    /\ m \in McpIdsOf(mcps) \ {selectedMcp}
    /\ McpRendered(0, mcps, m, FALSE, FALSE)
    /\ UNCHANGED <<mcpRows, uninstalled, keyToDerive, mcpSaving, testing, behindList>>

\* A keystroke in the new key; Refresh is this without a change.
TypeMcpKey(blank) ==
    /\ Ask(McpBound, {ListMcps("effect", selectedMcp, blank, Nothing)})
    /\ keyToDerive' = blank
    /\ UNCHANGED <<mcpRows, uninstalled, mcps, selectedMcp, form, mcpSaving, testing, testResult,
                   behindList, strayed>>

TypeSecret ==
    /\ McpShown
    /\ form' = [form EXCEPT !.secret = selectedMcp]
    /\ UNCHANGED <<mcpRows, uninstalled, mcps, selectedMcp, keyToDerive, mcpSaving, testing,
                   testResult, behindList, strayed, callVars>>

\* The handlers of Install, Save, Enable, Disable and Uninstall.
Change(r) ==
    /\ ~mcpSaving /\ mcpSaving' = TRUE
    /\ Ask(McpBound, {r})
    /\ UNCHANGED <<mcpRows, uninstalled, mcps, selectedMcp, form, keyToDerive, testing, testResult,
                   behindList, strayed>>

InstallMcp ==
    ~keyToDerive /\ Change(Request("create", Nothing, ListMcps("create", selectedMcp, FALSE, Nothing).arg))

\* The flag sent is the list's.
SaveMcp ==
    /\ McpShown
    /\ \E m \in mcps :
        /\ m.id = selectedMcp
        /\ Change(Request("update", m.id, [on |-> m.on, config |-> form.config, secret |-> form.secret]))

ToggleMcp ==
    /\ McpShown
    /\ \E m \in mcps :
        /\ m.id = selectedMcp
        /\ Change(Request("update", m.id, [on |-> ~m.on, config |-> Nothing, secret |-> Nothing]))

UninstallMcp ==
    McpShown /\ Change(Request("delete", selectedMcp,
                               ListMcps("delete", selectedMcp, keyToDerive, Nothing).arg))

TestMcp ==
    /\ McpShown /\ ~testing
    /\ testing' = TRUE /\ testResult' = Nothing /\ strayed' = FALSE
    /\ Ask(McpBound, {Request("test", selectedMcp, Nothing)})
    /\ UNCHANGED <<mcpRows, uninstalled, mcps, selectedMcp, form, keyToDerive, mcpSaving, behindList>>

McpNext ==
    \/ \E r \in DOMAIN asked : \/ ServeMcpRead(r) \/ ServeCreateMcp(r) \/ ServeUpdateMcp(r)
                               \/ ServeDeleteMcp(r) \/ RefuseMcp(r)
    \/ \E i \in DOMAIN answers : \/ McpsCame(i) \/ McpsFailed(i) \/ McpChanged(i) \/ McpUpdated(i)
                                 \/ McpChangeFailed(i) \/ Tested(i)
    \/ \E m \in McpIds : SelectMcp(m)
    \/ \E b \in BOOLEAN : TypeMcpKey(b)
    \/ TypeSecret \/ InstallMcp \/ SaveMcp \/ ToggleMcp \/ UninstallMcp \/ TestMcp

-----------------------------------------------------------------------------
McpRowType ==
    [id : McpIds, on : BOOLEAN, config : McpIds, secret : McpIds \cup {Nothing}]

McpTypeOK ==
    /\ mcpRows \subseteq McpRowType /\ mcps \subseteq McpRowType
    /\ {selectedMcp, testResult} \subseteq McpIds \cup {Nothing}
    /\ form \in [config : McpIds \cup {Nothing}, secret : McpIds \cup {Nothing}]
    /\ {keyToDerive, mcpSaving, testing, behindList, strayed} \subseteq BOOLEAN

\* A configuration or a secret typed for one MCP server reaches no other, although
\* the selection moves on its own after loads and deletions; what the form and the
\* test result show is of the selected one, unless another was selected during the
\* test; the buttons are disabled exactly while a change, or the load behind it, or
\* a test is under way. Once nothing is under way the page lists the server's,
\* unless an answer was lost or overtaken, or the load failed.
McpEditorKeeps ==
    /\ \A m \in mcpRows : m.config = m.id /\ m.secret \in {m.id, Nothing}
    /\ McpShown => form.config = selectedMcp /\ form.secret \in {selectedMcp, Nothing}
    /\ McpShown /\ ~strayed => testResult \in {selectedMcp, Nothing}
    /\ mcpSaving <=> \E r \in Requests : r.kind \in Changes \/ (r.kind = "list" /\ r.id # "effect")
    /\ testing <=> InFlight("test")
    /\ Quiet /\ ~behindList => mcps = mcpRows
=============================================================================
