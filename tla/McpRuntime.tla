------------------------------ MODULE McpRuntime ------------------------------
(***************************************************************************)
(* MCP servers of a user: the requests that edit them                      *)
(* (server/app/api/mcps.py), the bindings and runtime state these rewrite  *)
(* for every thread (server/app/mcp_service.py), the runs that load the    *)
(* servers' tools (_load_thread_mcp_tools of                               *)
(* server/app/deep_agent_runtime.py) and the gateways they start in the    *)
(* thread's sandbox.                                                       *)
(*                                                                         *)
(* Up to the first get_tools a load never awaits: it blocks the event loop *)
(* of its process, but neither the other processes nor the edits, which    *)
(* run in a thread pool. A server's settings are a version. Edits are made *)
(* one at a time; how edits overlap is SkillRequests' subject.             *)
(***************************************************************************)
EXTENDS Naturals, FiniteSets

CONSTANTS
    Servers,      \* MCP servers the user may have
    Stdio,        \* the ones that run in the sandbox behind a gateway
    Versions,     \* of a server's settings
    Threads,      \* the user's threads, all of them created
    Processes,    \* server processes
    Loads,        \* run slots: how many runs overlap at most
    Ports,        \* ports of a sandbox
    Port,         \* _derive_daytona_mcp_port: a server's port (in every thread)
    Cooldown,     \* MCP_FAILURE_COOLDOWN_SECONDS in ticks
    InitialServers,  \* servers that exist, enabled, at the start
    FirstVersion,    \* of their settings
    MaxEdits,     \* bound on the edits made in a behaviour
    MaxTests,     \* bound on the connection tests
    Nobody        \* no server on a port, and no run behind what was done to one

ASSUME McpAssumption ==
    /\ Stdio \subseteq Servers /\ InitialServers \subseteq Servers
    /\ FirstVersion \in Versions /\ Nobody \notin Servers \cup Processes
    /\ Port \in [Servers -> Ports]
    /\ Cooldown \in Nat \ {0} /\ MaxEdits \in Nat /\ MaxTests \in Nat

VARIABLES
    server,     \* rows of mcp_servers
    bound,      \* rows of thread_mcp_bindings
    state,      \* rows of thread_mcp_runtime_state
    edit,       \* the edit under way
    load,       \* what each run is doing
    gateway,    \* what runs on the ports of a thread's sandbox
    test,       \* the connection test under way
    edits, tests

store == <<server, bound>>
vars == <<server, bound, state, edit, load, gateway, test, edits, tests>>

ServerRow == [exists : BOOLEAN, enabled : BOOLEAN, version : Versions]

\* The enabled servers a set of bindings gives a run, with their settings.
ConfigOf(rows, bindings) ==
    {<<s, rows[s].version>> : s \in {b \in bindings : rows[b].exists /\ rows[b].enabled}}

\* get_runtime_thread_mcp_servers
Config(t) == ConfigOf(server, bound[t])

ServersOf(config) == {c[1] : c \in config}

(***************************************************************************)
(* status and the time since updated_at; config and raced are not in the   *)
(* table: whose failure the row records, and whether an edit was under way *)
(* during that load.                                                       *)
(***************************************************************************)
StateRow == [ status : {"dirty", "connecting", "ready", "failed"}, age : 0..Cooldown,
              config : SUBSET (Servers \X Versions), raced : BOOLEAN ]

Wrote(status) == [status |-> status, age |-> 0, config |-> {}, raced |-> FALSE]

FailureOf(config, raced) ==
    [status |-> "failed", age |-> 0, config |-> config, raced |-> raced]

NoEdit == [open |-> FALSE]
Edit == [open : {TRUE}, server : Servers, row : ServerRow, seen : [Threads -> StateRow]]

Idle == [pc |-> "idle"]

(***************************************************************************)
(* pc: "read" and "building" block the process, "connecting" awaits        *)
(* get_tools, "running" is the agent with the tools. todo: servers still   *)
(* to be built or asked for tools; entries: the ones that could be built.  *)
(***************************************************************************)
Load == [ pc : {"read", "building", "connecting", "running"}, process : Processes,
          thread : Threads, config : SUBSET (Servers \X Versions), todo : SUBSET Servers,
          entries : SUBSET Servers, errors : BOOLEAN, tools : BOOLEAN,
          stopped : BOOLEAN, raced : BOOLEAN ]

(***************************************************************************)
(* by is not in the program: the process whose run killed or started what  *)
(* is on the port last, Nobody for a connection test.                      *)
(***************************************************************************)
Gateway == [server : Servers \cup {Nobody}, version : Versions, by : Processes \cup {Nobody}]

Runs(s, v, by) == [server |-> s, version |-> v, by |-> by]

Killed(by) == Runs(Nobody, FirstVersion, by)

NoTest == [open |-> FALSE]
Test == [open : {TRUE}, thread : Threads, server : Servers, version : Versions]

TypeOK ==
    /\ server \in [Servers -> ServerRow]
    /\ bound \in [Threads -> SUBSET Servers]
    /\ state \in [Threads -> StateRow]
    /\ edit \in {NoEdit} \cup Edit
    /\ load \in [Loads -> {Idle} \cup Load]
    /\ gateway \in [Threads -> [Ports -> Gateway]]
    /\ test \in {NoTest} \cup Test
    /\ edits \in 0..MaxEdits /\ tests \in 0..MaxTests

\* The user's servers, bound to all threads, before the first run.
Init ==
    /\ server = [s \in Servers |-> [ exists  |-> s \in InitialServers,
                                     enabled |-> s \in InitialServers,
                                     version |-> FirstVersion ]]
    /\ bound = [t \in Threads |-> InitialServers]
    /\ state = [t \in Threads |-> Wrote(IF InitialServers = {} THEN "ready" ELSE "dirty")]
    /\ edit = NoEdit
    /\ load = [l \in Loads |-> Idle]
    /\ gateway = [t \in Threads |-> [p \in Ports |-> Killed(Nobody)]]
    /\ test = NoTest
    /\ edits = 0 /\ tests = 0

-------------------------------------------------------------------------------
(* Edits.                                                                  *)

Loading(l) == load[l].pc \in {"read", "building", "connecting"}

\* An edit and a load that meet, whichever came first.
Raced(loads) == [l \in Loads |-> IF Loading(l) THEN [loads[l] EXCEPT !.raced = TRUE] ELSE loads[l]]

\* The request's snapshot is fixed and its new row decided.
OpenEdit(s, row) ==
    /\ ~edit.open
    /\ edits < MaxEdits /\ edits' = edits + 1
    /\ edit' = [open |-> TRUE, server |-> s, row |-> row, seen |-> state]
    /\ load' = Raced(load)
    /\ UNCHANGED <<store, state, gateway, test, tests>>

CreateServer ==
    \E s \in Servers, on \in BOOLEAN, v \in Versions :
        /\ ~server[s].exists
        /\ OpenEdit(s, [exists |-> TRUE, enabled |-> on, version |-> v])

\* update_mcp; a new name or description alone touches nothing else.
UpdateServer ==
    \E s \in Servers, on \in BOOLEAN, v \in Versions :
        /\ server[s].exists
        /\ OpenEdit(s, [server[s] EXCEPT !.enabled = on, !.version = v])

DeleteServer ==
    \E s \in Servers :
        /\ server[s].exists
        /\ OpenEdit(s, [server[s] EXCEPT !.exists = FALSE, !.enabled = FALSE])

\* refresh_thread_mcp_runtime_state: a status the session has seen already is not written.
Refreshed(row, seen, config) ==
    LET status == IF config # {} THEN "dirty" ELSE "ready" IN
    IF seen.status # status THEN Wrote(status) ELSE [row EXCEPT !.age = 0]

\* Mutant: the state keeps the failure of the former settings.
CommitEditKeepingFailure ==
    LET rows == [server EXCEPT ![edit.server] = edit.row]
        enabled == {s \in Servers : rows[s].enabled}
    IN
    /\ edit.open
    /\ server' = rows
    /\ bound' = [t \in Threads |-> enabled]
    /\ edit' = NoEdit
    /\ UNCHANGED <<state, load, gateway, test, edits, tests>>

\* sync_user_mcp_bindings and commit.
CommitEdit ==
    LET rows == [server EXCEPT ![edit.server] = edit.row]
        enabled == {s \in Servers : rows[s].enabled}
    IN
    /\ edit.open
    /\ server' = rows
    /\ bound' = [t \in Threads |-> enabled]
    /\ state' = [t \in Threads |->
                    Refreshed(state[t], edit.seen[t], ConfigOf(rows, enabled))]
    /\ edit' = NoEdit
    /\ UNCHANGED <<load, gateway, test, edits, tests>>

\* A key that exists already, a lock, a dead process.
AbortEdit ==
    /\ edit.open
    /\ edit' = NoEdit
    /\ UNCHANGED <<store, state, load, gateway, test, edits, tests>>

-------------------------------------------------------------------------------
(* Runs.                                                                   *)

\* Mutant: a load awaits between its steps.
NeverBlocked(p) == FALSE

\* The event loop of the process is busy with a load that does not await.
Blocked(p) ==
    \E l \in Loads :
        /\ load[l].pc # "idle" /\ load[l].process = p
        /\ load[l].pc \in {"read", "building"} \/ (load[l].pc = "connecting" /\ load[l].todo = {})

\* Mutant: the thread's earlier run is left alone.
StopNobody(p, t) == load

\* _register_active_stream_task: the thread's earlier run in this process is cancelled.
StopOthers(p, t) ==
    [l \in Loads |->
        IF load[l].pc # "idle" /\ load[l].process = p /\ load[l].thread = t
        THEN [load[l] EXCEPT !.stopped = TRUE] ELSE load[l]]

NewLoad(p, t) ==
    [ pc |-> "read", process |-> p, thread |-> t, config |-> Config(t), todo |-> {},
      entries |-> {}, errors |-> FALSE, tools |-> FALSE, stopped |-> FALSE,
      raced |-> edit.open ]

\* create_runtime as far as the servers are read.
BeginLoad(l, t) ==
    /\ load[l].pc = "idle"
    /\ \E p \in Processes :
        /\ ~Blocked(p)
        /\ load' = [StopOthers(p, t) EXCEPT ![l] = NewLoad(p, t)]
    /\ UNCHANGED <<store, state, edit, gateway, test, edits, tests>>

\* _update_thread_mcp_state by a load.
Records(l, status) ==
    state' = [state EXCEPT ![load[l].thread] =
                 IF status = "failed"
                 THEN FailureOf(load[l].config, load[l].raced) ELSE Wrote(status)]

Without(l) == load' = [load EXCEPT ![l] = Idle]

NoServers(l) ==
    /\ load[l].pc = "read" /\ load[l].config = {}
    /\ Records(l, "ready")
    /\ Without(l)
    /\ UNCHANGED <<store, edit, gateway, test, edits, tests>>

\* Mutant: the cooldown lasts a tick too long.
CoolingDownLonger(t) == state[t].status = "failed" /\ state[t].age <= Cooldown

\* _get_mcp_cooldown_reason
CoolingDown(t) == state[t].status = "failed" /\ state[t].age < Cooldown

\* Mutant: a load that is skipped renews the failure.
SkipRenewing(l) ==
    /\ load[l].pc = "read" /\ load[l].config # {}
    /\ CoolingDown(load[l].thread)
    /\ state' = [state EXCEPT ![load[l].thread].age = 0]
    /\ Without(l)
    /\ UNCHANGED <<store, edit, gateway, test, edits, tests>>

\* The agent runs without MCP tools, degraded.
SkipInCooldown(l) ==
    /\ load[l].pc = "read" /\ load[l].config # {}
    /\ CoolingDown(load[l].thread)
    /\ Without(l)
    /\ UNCHANGED <<store, state, edit, gateway, test, edits, tests>>

TryServers(l) ==
    /\ load[l].pc = "read" /\ load[l].config # {}
    /\ ~CoolingDown(load[l].thread)
    /\ load' = [load EXCEPT ![l].pc = "building", ![l].todo = ServersOf(load[l].config)]
    /\ UNCHANGED <<store, state, edit, gateway, test, edits, tests>>

(***************************************************************************)
(* _ensure_daytona_mcp_gateway: whatever listens on the port is killed and *)
(* the gateway started. When it fails it may have done nothing, only the   *)
(* killing, or both (the bridge does not get ready).                       *)
(***************************************************************************)
GatewayRestarted(t, s, v, by) ==
    gateway' = [gateway EXCEPT ![t][Port[s]] = Runs(s, v, by)]

GatewayFails(t, s, v, by) ==
    \/ UNCHANGED gateway
    \/ gateway' = [gateway EXCEPT ![t][Port[s]] = Killed(by)]
    \/ GatewayRestarted(t, s, v, by)

\* build_mcp_client_entry
BuildEntry(l, s) ==
    LET t == load[l].thread
        v == CHOOSE w \in Versions : <<s, w>> \in load[l].config
    IN
    /\ load[l].pc = "building" /\ s \in load[l].todo
    /\ \/ /\ load' = [load EXCEPT ![l].todo = @ \ {s}, ![l].entries = @ \cup {s}]
          /\ IF s \in Stdio THEN GatewayRestarted(t, s, v, load[l].process) ELSE UNCHANGED gateway
       \/ /\ load' = [load EXCEPT ![l].todo = @ \ {s}, ![l].errors = TRUE]
          /\ IF s \in Stdio THEN GatewayFails(t, s, v, load[l].process) ELSE UNCHANGED gateway
    /\ UNCHANGED <<store, state, edit, test, edits, tests>>

NothingBuilt(l) ==
    /\ load[l].pc = "building" /\ load[l].todo = {} /\ load[l].entries = {}
    /\ Records(l, "failed")
    /\ Without(l)
    /\ UNCHANGED <<store, edit, gateway, test, edits, tests>>

Connect(l) ==
    /\ load[l].pc = "building" /\ load[l].todo = {} /\ load[l].entries # {}
    /\ Records(l, "connecting")
    /\ load' = [load EXCEPT ![l].pc = "connecting", ![l].todo = load[l].entries]
    /\ UNCHANGED <<store, edit, gateway, test, edits, tests>>

\* get_tools of one server: tools, no tools, or an error or timeout.
GetTools(l, s) ==
    /\ load[l].pc = "connecting" /\ s \in load[l].todo /\ ~Blocked(load[l].process)
    /\ \E tools, errors \in BOOLEAN :
        /\ ~(tools /\ errors)
        /\ load' = [load EXCEPT ![l].todo = @ \ {s}, ![l].tools = @ \/ tools,
                                ![l].errors = @ \/ errors]
    /\ UNCHANGED <<store, state, edit, gateway, test, edits, tests>>

FinishLoad(l) ==
    /\ load[l].pc = "connecting" /\ load[l].todo = {}
    /\ IF ~load[l].tools /\ load[l].errors
       THEN Records(l, "failed") /\ Without(l)
       ELSE /\ Records(l, "ready")
            /\ load' = [load EXCEPT ![l] = [@ EXCEPT !.pc = "running", !.errors = FALSE,
                                                     !.tools = FALSE, !.raced = FALSE]]
    /\ UNCHANGED <<store, edit, gateway, test, edits, tests>>

\* The user's stop or a disconnect.
Stop(l) ==
    /\ load[l].pc # "idle" /\ ~load[l].stopped
    /\ load' = [load EXCEPT ![l].stopped = TRUE]
    /\ UNCHANGED <<store, state, edit, gateway, test, edits, tests>>

\* CancelledError at an await (not an Exception): the state row stays as it is.
EndStopped(l) ==
    /\ load[l].pc # "idle" /\ load[l].stopped
    /\ load[l].pc = "running" \/ (load[l].pc = "connecting" /\ load[l].todo # {})
    /\ ~Blocked(load[l].process)
    /\ Without(l)
    /\ UNCHANGED <<store, state, edit, gateway, test, edits, tests>>

\* The agent's answer is complete.
EndRun(l) ==
    /\ load[l].pc = "running" /\ ~Blocked(load[l].process)
    /\ Without(l)
    /\ UNCHANGED <<store, state, edit, gateway, test, edits, tests>>

-------------------------------------------------------------------------------

\* test_mcp_connection: its snapshot is older than its handler.
OpenTest(t, s) ==
    /\ ~test.open /\ server[s].exists
    /\ tests < MaxTests /\ tests' = tests + 1
    /\ test' = [open |-> TRUE, thread |-> t, server |-> s, version |-> server[s].version]
    /\ UNCHANGED <<store, state, edit, load, gateway, edits>>

RunTest ==
    /\ test.open
    /\ \E p \in Processes : ~Blocked(p)
    /\ IF test.server \in Stdio
       THEN \/ GatewayRestarted(test.thread, test.server, test.version, Nobody)
            \/ GatewayFails(test.thread, test.server, test.version, Nobody)
       ELSE UNCHANGED gateway
    /\ test' = NoTest
    /\ UNCHANGED <<store, state, edit, load, edits, tests>>

Tick(t) ==
    /\ CoolingDown(t)
    /\ state' = [state EXCEPT ![t].age = @ + 1]
    /\ UNCHANGED <<store, edit, load, gateway, test, edits, tests>>

-------------------------------------------------------------------------------

LoadStep(l) ==
    \/ NoServers(l) \/ SkipInCooldown(l) \/ TryServers(l)
    \/ \E s \in Servers : BuildEntry(l, s) \/ GetTools(l, s)
    \/ NothingBuilt(l) \/ Connect(l) \/ FinishLoad(l) \/ EndStopped(l)

EditStep == CreateServer \/ UpdateServer \/ DeleteServer \/ CommitEdit \/ AbortEdit

Next ==
    \/ EditStep
    \/ \E l \in Loads : LoadStep(l) \/ Stop(l) \/ EndRun(l)
    \/ \E l \in Loads, t \in Threads : BeginLoad(l, t)
    \/ \E t \in Threads, s \in Servers : OpenTest(t, s)
    \/ RunTest
    \/ \E t \in Threads : Tick(t)

Spec == Init /\ [][Next]_vars

(***************************************************************************)
(* Time passes, requests end, a load's steps and a cancellation are        *)
(* carried out (get_tools has a timeout), and the user keeps asking in     *)
(* every thread. An answer need not end, nobody has to edit or to test.    *)
(***************************************************************************)
Fairness ==
    /\ WF_vars(CommitEdit \/ AbortEdit)
    /\ \A l \in Loads : SF_vars(LoadStep(l))
    /\ \A t \in Threads : SF_vars(\E l \in Loads : BeginLoad(l, t)) /\ WF_vars(Tick(t))

FairSpec == Spec /\ Fairness

-------------------------------------------------------------------------------

(***************************************************************************)
(* A cooldown is earned: the failure it rests on is one of the settings    *)
(* the thread has now, since an edit clears the state of every thread. Two *)
(* exceptions: the load that failed was under way when the edit began, or  *)
(* began before it ended.                                                  *)
(***************************************************************************)
CooldownIsEarned ==
    \A t \in Threads :
        state[t].status = "failed" => state[t].config = Config(t) \/ state[t].raced

\* Another server of a run's own that has the same port in the sandbox.
SharesPort(config, s) ==
    \E u \in ServersOf(config) \cap Stdio : u # s /\ Port[u] = Port[s]

(***************************************************************************)
(* Behind the address a run that goes on has for a server in its sandbox   *)
(* runs this server with the settings the run has read, not the gateway    *)
(* of another run of its process, however many loads overlap. What may     *)
(* replace it is what nothing in the code excludes: a connection test, a   *)
(* run of another server process, and another server of the run itself     *)
(* whose hashed port is the same.                                          *)
(***************************************************************************)
RunsOwnGateways ==
    \A l \in Loads : load[l].pc # "idle" =>
        \A s \in load[l].entries \cap Stdio :
            LET g == gateway[load[l].thread][Port[s]] IN
            \/ load[l].stopped
            \/ g.by # load[l].process
            \/ SharesPort(load[l].config, s)
            \/ g.server = s /\ <<s, g.version>> \in load[l].config

\* A load gives each of its servers one version, handles no others and each once.
LoadsAreClosed ==
    \A l \in Loads : load[l].pc # "idle" =>
        /\ \A c, d \in load[l].config : c[1] = d[1] => c = d
        /\ load[l].todo \cup load[l].entries \subseteq ServersOf(load[l].config)
        /\ load[l].pc = "read" => load[l].entries = {}
        /\ load[l].pc = "building" => load[l].todo \cap load[l].entries = {}

\* While one run of a thread builds its gateways every other of its process is stopped.
OthersAreStopped ==
    \A l, m \in Loads :
        /\ l # m /\ load[l].pc # "idle" /\ load[m].pc # "idle"
        /\ load[l].thread = load[m].thread /\ load[l].process = load[m].process
        /\ load[l].pc \in {"read", "building"}
        => load[m].stopped

\* A load that met no edit has read the settings there are.
LoadsAreCurrent ==
    \A l \in Loads : Loading(l) /\ ~load[l].raced =>
        ~edit.open /\ load[l].config = Config(load[l].thread)

\* An edit has seen the failure it is to clear.
FailuresAreSeen ==
    edit.open => \A t \in Threads :
        state[t].status = "failed" /\ ~state[t].raced => edit.seen[t].status = "failed"

(***************************************************************************)
(* With CooldownIsEarned and RunsOwnGateways an inductive invariant: what  *)
(* runs and edits have read is current, or they know who overtook them.    *)
(***************************************************************************)
McpInv == LoadsAreClosed /\ OthersAreStopped /\ LoadsAreCurrent /\ FailuresAreSeen

(***************************************************************************)
(* Settings that are not edited again are tried in the end, whatever       *)
(* failed before: loads that are skipped do not prolong a cooldown.        *)
(***************************************************************************)
SettingsAreTried ==
    \A t \in Threads :
        Config(t) # {} ~> \/ edit.open
                         \/ \E l \in Loads : /\ load[l].pc = "building" /\ load[l].thread = t
                                             /\ load[l].config = Config(t)

===============================================================================
