--------------------------- MODULE McpRuntimeProofs ---------------------------
(***************************************************************************)
(* Proofs about McpRuntime, for any servers, threads and loads and         *)
(* whatever the bounds on edits and tests are.                             *)
(***************************************************************************)
EXTENDS McpRuntime, TLAPS

-------------------------------------------------------------------------------
(* What is read.                                                           *)

LEMMA ActiveIsLoad ==
    ASSUME TypeOK, NEW l \in Loads, load[l].pc # "idle"
    PROVE  load[l] \in Load
BY DEF TypeOK, Idle

LEMMA OpenIsEdit ==
    ASSUME TypeOK, edit.open
    PROVE  edit \in Edit
BY DEF TypeOK, NoEdit

\* The settings a run reads name a server once.
LEMMA ConfigTyped ==
    ASSUME TypeOK, NEW t \in Threads
    PROVE  /\ Config(t) \in SUBSET (Servers \X Versions)
           /\ \A c, d \in Config(t) : c[1] = d[1] => c = d
<1>1. bound[t] \subseteq Servers
    BY DEF TypeOK
<1>2. \A s \in bound[t] : server[s].version \in Versions
    BY <1>1 DEF TypeOK, ServerRow
<1> QED BY <1>1, <1>2 DEF Config, ConfigOf

\* The version a load builds a server with is the one it has read.
LEMMA VersionIsRead ==
    ASSUME NEW r \in Load, NEW s \in Servers, s \in ServersOf(r.config),
           NEW v, v = CHOOSE w \in Versions : <<s, w>> \in r.config
    PROVE  v \in Versions /\ <<s, v>> \in r.config
<1>1. PICK c \in r.config : c[1] = s
    BY DEF ServersOf
<1>2. c \in Servers \X Versions
    BY <1>1 DEF Load
<1>3. c[2] \in Versions /\ <<s, c[2]>> \in r.config
    BY <1>1, <1>2
<1> QED BY <1>3

-------------------------------------------------------------------------------
(* What the steps do.                                                      *)

\* What a step of a load keeps of its record, unless the load ends.
Kept(old, new) ==
    /\ new.thread = old.thread /\ new.process = old.process /\ new.config = old.config
    /\ new.todo \cup new.entries \subseteq ServersOf(old.config)
    /\ new.pc = "read" => old.pc = "read" /\ new.entries = {}
    /\ new.pc = "building" => /\ old.pc \in {"read", "building"}
                              /\ new.todo \cap new.entries = {}
    /\ new.pc \in {"read", "building", "connecting"} =>
            /\ old.pc \in {"read", "building", "connecting"}
            /\ new.raced = old.raced
    /\ old.stopped => new.stopped

\* A step of load l: its record changes as above, or it ends.
Advances(l) ==
    \E r \in {Idle} \cup Load :
        /\ load' = [load EXCEPT ![l] = r]
        /\ r.pc # "idle" => Kept(load[l], r)

LEMMA IdleIsIdle == Idle \in {Idle} \cup Load /\ Idle.pc = "idle"
BY DEF Idle

LEMMA LoadShape ==
    ASSUME TypeOK, LoadsAreClosed, NEW l \in Loads, LoadStep(l) \/ Stop(l) \/ EndRun(l)
    PROVE  load[l].pc # "idle" /\ load[l] \in Load /\ Advances(l)
<1> DEFINE r == load[l]
<1>1. r.pc # "idle"
    BY DEF LoadStep, NoServers, SkipInCooldown, TryServers, BuildEntry, NothingBuilt, Connect,
        GetTools, FinishLoad, EndStopped, Stop, EndRun
<1>2. r \in Load
    BY <1>1, ActiveIsLoad
<1>3. /\ r.todo \cup r.entries \subseteq ServersOf(r.config)
      /\ r.pc = "read" => r.entries = {}
      /\ r.pc = "building" => r.todo \cap r.entries = {}
    BY <1>1 DEF LoadsAreClosed
<1>4. ASSUME Without(l) PROVE Advances(l)
    BY <1>4, IdleIsIdle DEF Without, Advances
<1>5. CASE NoServers(l) \/ SkipInCooldown(l) \/ NothingBuilt(l) \/ EndStopped(l) \/ EndRun(l)
    BY <1>1, <1>2, <1>4, <1>5 DEF NoServers, SkipInCooldown, NothingBuilt, EndStopped, EndRun
<1>6. CASE TryServers(l)
    <2> DEFINE n == [r EXCEPT !.pc = "building", !.todo = ServersOf(r.config)]
    <2>1. load' = [load EXCEPT ![l] = n]
        BY <1>6 DEF TryServers
    <2>2. ServersOf(r.config) \subseteq Servers
        BY <1>2 DEF ServersOf, Load
    <2>3. n \in Load
        BY <1>2, <2>2 DEF Load
    <2>4. Kept(r, n)
        BY <1>2, <1>3, <1>6 DEF Kept, Load, TryServers
    <2> QED BY <1>1, <1>2, <2>1, <2>3, <2>4 DEF Advances
<1>7. ASSUME NEW s \in Servers, BuildEntry(l, s) PROVE Advances(l)
    <2> DEFINE n1 == [r EXCEPT !.todo = @ \ {s}, !.entries = @ \cup {s}]
               n2 == [r EXCEPT !.todo = @ \ {s}, !.errors = TRUE]
    <2>1. load' = [load EXCEPT ![l] = n1] \/ load' = [load EXCEPT ![l] = n2]
        BY <1>7 DEF BuildEntry
    <2>2. n1 \in Load /\ n2 \in Load
        BY <1>2 DEF Load
    <2>3. r.pc = "building" /\ s \in r.todo
        BY <1>7 DEF BuildEntry
    <2>4. Kept(r, n1) /\ Kept(r, n2)
        BY <1>2, <1>3, <2>3 DEF Kept, Load
    <2> QED BY <2>1, <2>2, <2>4 DEF Advances
<1>8. CASE Connect(l)
    <2> DEFINE n == [r EXCEPT !.pc = "connecting", !.todo = r.entries]
    <2>1. load' = [load EXCEPT ![l] = n] /\ r.pc = "building"
        BY <1>8 DEF Connect
    <2>2. n \in Load /\ Kept(r, n)
        BY <1>2, <1>3, <2>1 DEF Kept, Load
    <2> QED BY <1>1, <1>2, <2>1, <2>2 DEF Advances
<1>9. ASSUME NEW s \in Servers, GetTools(l, s) PROVE Advances(l)
    <2>1. PICK tools, errors \in BOOLEAN :
            load' = [load EXCEPT ![l].todo = @ \ {s}, ![l].tools = @ \/ tools,
                                 ![l].errors = @ \/ errors]
        BY <1>9 DEF GetTools
    <2> DEFINE n == [r EXCEPT !.todo = @ \ {s}, !.tools = @ \/ tools, !.errors = @ \/ errors]
    <2>2. load' = [load EXCEPT ![l] = n] /\ r.pc = "connecting"
        BY <1>9, <2>1 DEF GetTools, TypeOK
    <2>3. n \in Load /\ Kept(r, n)
        BY <1>2, <1>3, <2>2 DEF Kept, Load
    <2> QED BY <2>2, <2>3 DEF Advances
<1>10. CASE FinishLoad(l)
    <2> DEFINE n == [r EXCEPT !.pc = "running", !.errors = FALSE, !.tools = FALSE,
                              !.raced = FALSE]
    <2>1. Without(l) \/ load' = [load EXCEPT ![l] = n]
        BY <1>10 DEF FinishLoad
    <2>2. n \in Load /\ Kept(r, n)
        BY <1>2, <1>3 DEF Kept, Load
    <2> QED BY <1>1, <1>2, <1>4, <2>1, <2>2 DEF Advances
<1>11. CASE Stop(l)
    <2> DEFINE n == [r EXCEPT !.stopped = TRUE]
    <2>1. load' = [load EXCEPT ![l] = n]
        BY <1>11 DEF Stop
    <2>2. n \in Load /\ Kept(r, n)
        BY <1>2, <1>3 DEF Kept, Load
    <2> QED BY <1>1, <1>2, <2>1, <2>2 DEF Advances
<1> QED BY <1>1, <1>2, <1>5, <1>6, <1>7, <1>8, <1>9, <1>10, <1>11 DEF LoadStep


\* Marking a load, as an edit or a newer run does, leaves the rest of it.
LEMMA RacedShape ==
    ASSUME TypeOK
    PROVE  /\ Raced(load) \in [Loads -> {Idle} \cup Load]
           /\ \A l \in Loads :
                \/ ~Loading(l) /\ Raced(load)[l] = load[l]
                \/ /\ Loading(l) /\ load[l] \in Load
                   /\ Raced(load)[l] = [load[l] EXCEPT !.raced = TRUE]
<1>1. \A l \in Loads : Loading(l) => load[l] \in Load
    BY ActiveIsLoad DEF Loading
<1>2. \A r \in Load : [r EXCEPT !.raced = TRUE] \in Load
    BY DEF Load
<1> QED BY <1>1, <1>2 DEF Raced, TypeOK

LEMMA StopOthersShape ==
    ASSUME TypeOK, NEW p \in Processes, NEW t \in Threads
    PROVE  /\ StopOthers(p, t) \in [Loads -> {Idle} \cup Load]
           /\ \A l \in Loads :
                \/ /\ load[l].pc = "idle" \/ load[l].process # p \/ load[l].thread # t
                   /\ StopOthers(p, t)[l] = load[l]
                \/ /\ load[l].pc # "idle" /\ load[l].process = p /\ load[l].thread = t
                   /\ load[l] \in Load
                   /\ StopOthers(p, t)[l] = [load[l] EXCEPT !.stopped = TRUE]
<1>1. \A l \in Loads : load[l].pc # "idle" => load[l] \in Load
    BY ActiveIsLoad
<1>2. \A r \in Load : [r EXCEPT !.stopped = TRUE] \in Load
    BY DEF Load
<1> QED BY <1>1, <1>2 DEF StopOthers, TypeOK

\* A new run is a load of the settings there are.
LEMMA NewLoadIsLoad ==
    ASSUME TypeOK, NEW p \in Processes, NEW t \in Threads
    PROVE  NewLoad(p, t) \in Load
<1>1. edit.open \in BOOLEAN
    <2>1. edit = NoEdit => edit.open = FALSE
        BY DEF NoEdit
    <2>2. edit \in Edit => edit.open = TRUE
        BY DEF Edit
    <2> QED BY <2>1, <2>2 DEF TypeOK
<1>2. Config(t) \in SUBSET (Servers \X Versions)
    BY ConfigTyped
<1>3. ASSUME NEW config \in SUBSET (Servers \X Versions), NEW raced \in BOOLEAN
      PROVE  [ pc |-> "read", process |-> p, thread |-> t, config |-> config, todo |-> {},
               entries |-> {}, errors |-> FALSE, tools |-> FALSE, stopped |-> FALSE,
               raced |-> raced ] \in Load
    BY DEF Load
<1> QED BY <1>1, <1>2, <1>3 DEF NewLoad

LEMMA WroteIsRow ==
    /\ \A status \in {"dirty", "connecting", "ready", "failed"} :
            /\ Wrote(status) \in StateRow
            /\ Wrote(status).status = status
    /\ \A config \in SUBSET (Servers \X Versions), raced \in BOOLEAN :
            FailureOf(config, raced) \in StateRow
<1>1. 0 \in 0..Cooldown
    BY McpAssumption
<1>2. ASSUME NEW status \in {"dirty", "connecting", "ready", "failed"},
             NEW config \in SUBSET (Servers \X Versions), NEW raced \in BOOLEAN
      PROVE  [status |-> status, age |-> 0, config |-> config, raced |-> raced] \in StateRow
    BY <1>1 DEF StateRow
<1>3. {} \in SUBSET (Servers \X Versions)
    OBVIOUS
<1> QED BY <1>2, <1>3 DEF Wrote, FailureOf

\* What a load records: its own failure, or a row that is none.
Recorded(l) ==
    /\ state' \in [Threads -> StateRow]
    /\ \A t \in Threads :
        \/ state'[t] = state[t]
        \/ state'[t].status # "failed"
        \/ /\ t = load[l].thread /\ Loading(l)
           /\ state'[t].config = load[l].config /\ state'[t].raced = load[l].raced

LEMMA RecordsShape ==
    ASSUME TypeOK, NEW l \in Loads, Loading(l), load[l] \in Load,
           NEW status \in {"connecting", "ready", "failed"}, Records(l, status)
    PROVE  Recorded(l)
<1>1. load[l].config \in SUBSET (Servers \X Versions) /\ load[l].raced \in BOOLEAN
    BY DEF Load
<1>2. CASE status = "failed"
    <2> DEFINE row == FailureOf(load[l].config, load[l].raced)
    <2>1. state' = [state EXCEPT ![load[l].thread] = row]
        BY <1>2 DEF Records
    <2>2. row \in StateRow /\ row.config = load[l].config /\ row.raced = load[l].raced
        BY <1>1, WroteIsRow DEF FailureOf
    <2> QED BY <2>1, <2>2 DEF Recorded, TypeOK
<1>3. CASE status # "failed"
    <2>1. state' = [state EXCEPT ![load[l].thread] = Wrote(status)]
        BY <1>3 DEF Records
    <2>2. Wrote(status) \in StateRow /\ Wrote(status).status = status
        BY WroteIsRow
    <2> QED BY <1>3, <2>1, <2>2 DEF Recorded, TypeOK
<1> QED BY <1>2, <1>3

\* The state row after a step of a load.
LEMMA LoadRecords ==
    ASSUME TypeOK, LoadsAreClosed, NEW l \in Loads, LoadStep(l) \/ Stop(l) \/ EndRun(l)
    PROVE  Recorded(l)
<1>1. load[l] \in Load
    BY LoadShape
<1>2. CASE UNCHANGED state
    BY <1>2 DEF Recorded, TypeOK
<1>3. CASE NoServers(l)
    BY <1>1, <1>3, RecordsShape DEF NoServers, Loading
<1>4. CASE NothingBuilt(l)
    BY <1>1, <1>4, RecordsShape DEF NothingBuilt, Loading
<1>5. CASE Connect(l)
    BY <1>1, <1>5, RecordsShape DEF Connect, Loading
<1>6. CASE FinishLoad(l)
    BY <1>1, <1>6, RecordsShape DEF FinishLoad, Loading
<1> QED BY <1>2, <1>3, <1>4, <1>5, <1>6 DEF LoadStep, SkipInCooldown, TryServers, BuildEntry,
        GetTools, EndStopped, Stop, EndRun

LEMMA GatewayIsTyped ==
    ASSUME TypeOK, NEW t \in Threads, NEW s \in Servers, NEW v \in Versions,
           NEW by \in Processes \cup {Nobody},
           GatewayRestarted(t, s, v, by) \/ GatewayFails(t, s, v, by)
    PROVE  gateway' \in [Threads -> [Ports -> Gateway]]
<1>1. Runs(s, v, by) \in Gateway /\ Killed(by) \in Gateway
    BY McpAssumption DEF Runs, Killed, Gateway
<1>2. Port[s] \in Ports
    BY McpAssumption
<1>3. ASSUME NEW g \in Gateway, gateway' = [gateway EXCEPT ![t][Port[s]] = g]
      PROVE  gateway' \in [Threads -> [Ports -> Gateway]]
    <2>1. gateway[t] \in [Ports -> Gateway]
        BY DEF TypeOK
    <2>2. [gateway[t] EXCEPT ![Port[s]] = g] \in [Ports -> Gateway]
        BY <1>2, <2>1
    <2> QED BY <1>3, <2>2 DEF TypeOK
<1>4. CASE UNCHANGED gateway
    BY <1>4 DEF TypeOK
<1> QED BY <1>1, <1>3, <1>4 DEF GatewayRestarted, GatewayFails

-------------------------------------------------------------------------------
(* Typing, and that a load handles the servers it has read.                *)

LEMMA ClosedStep ==
    ASSUME TypeOK, LoadsAreClosed, [Next]_vars
    PROVE  LoadsAreClosed'
<1> DEFINE Closed(r) ==
        r.pc # "idle" =>
            /\ \A c, d \in r.config : c[1] = d[1] => c = d
            /\ r.todo \cup r.entries \subseteq ServersOf(r.config)
            /\ r.pc = "read" => r.entries = {}
            /\ r.pc = "building" => r.todo \cap r.entries = {}
<1>1. \A l \in Loads : Closed(load[l])
    BY DEF LoadsAreClosed
<1>2. ASSUME \A l \in Loads : Closed(load'[l]) PROVE LoadsAreClosed'
    BY <1>2 DEF LoadsAreClosed
<1>3. CASE UNCHANGED load
    BY <1>1, <1>2, <1>3
<1>4. CASE load' = Raced(load)
    <2>1. ASSUME NEW l \in Loads PROVE Closed(load'[l])
        <3>1. CASE load'[l] = load[l]
            BY <1>1, <3>1
        <3>2. CASE load[l] \in Load /\ load'[l] = [load[l] EXCEPT !.raced = TRUE]
            <4>1. /\ load'[l].pc = load[l].pc /\ load'[l].config = load[l].config
                  /\ load'[l].todo = load[l].todo /\ load'[l].entries = load[l].entries
                BY <3>2 DEF Load
            <4> QED BY <1>1, <4>1
        <3> QED BY <1>4, <3>1, <3>2, RacedShape
    <2> QED BY <1>2, <2>1
<1>5. ASSUME NEW l \in Loads, NEW t \in Threads, BeginLoad(l, t) PROVE LoadsAreClosed'
    <2>1. PICK p \in Processes : load' = [StopOthers(p, t) EXCEPT ![l] = NewLoad(p, t)]
        BY <1>5 DEF BeginLoad
    <2>2. Closed(NewLoad(p, t))
        BY ConfigTyped DEF NewLoad
    <2>3. ASSUME NEW m \in Loads, m # l PROVE Closed(load'[m])
        <3>1. load'[m] = StopOthers(p, t)[m]
            BY <2>1, <2>3, StopOthersShape
        <3>2. CASE load'[m] = load[m]
            BY <1>1, <3>2
        <3>3. CASE load[m] \in Load /\ load'[m] = [load[m] EXCEPT !.stopped = TRUE]
            <4>1. /\ load'[m].pc = load[m].pc /\ load'[m].config = load[m].config
                  /\ load'[m].todo = load[m].todo /\ load'[m].entries = load[m].entries
                BY <3>3 DEF Load
            <4> QED BY <1>1, <4>1
        <3> QED BY <3>1, <3>2, <3>3, StopOthersShape
    <2>4. load'[l] = NewLoad(p, t)
        BY <2>1, StopOthersShape
    <2> QED BY <1>2, <2>2, <2>3, <2>4
<1>6. ASSUME NEW l \in Loads, LoadStep(l) \/ Stop(l) \/ EndRun(l) PROVE LoadsAreClosed'
    <2>1. load[l].pc # "idle" /\ load[l] \in Load /\ Advances(l)
        BY <1>6, LoadShape
    <2>2. PICK r \in {Idle} \cup Load :
            load' = [load EXCEPT ![l] = r] /\ (r.pc # "idle" => Kept(load[l], r))
        BY <2>1 DEF Advances
    <2>3. load'[l] = r /\ \A m \in Loads : m # l => load'[m] = load[m]
        BY <2>2 DEF TypeOK
    <2>4. Closed(r)
        BY <1>1, <2>1, <2>2 DEF Kept
    <2> QED BY <1>1, <1>2, <2>3, <2>4
<1> QED BY <1>3, <1>4, <1>5, <1>6 DEF Next, vars, EditStep, CreateServer, UpdateServer,
        DeleteServer, OpenEdit, CommitEdit, AbortEdit, OpenTest, RunTest, Tick

\* The rows an edit writes.
LEMMA EditTyped ==
    ASSUME TypeOK, CommitEdit
    PROVE  /\ server' \in [Servers -> ServerRow]
           /\ bound' \in [Threads -> SUBSET Servers]
           /\ state' \in [Threads -> StateRow]
           /\ edit' = NoEdit
<1>1. edit.row \in ServerRow /\ edit.server \in Servers
    BY OpenIsEdit DEF CommitEdit, Edit
<1>2. ASSUME NEW row \in StateRow, NEW seen \in StateRow, NEW config
      PROVE  Refreshed(row, seen, config) \in StateRow
    <2>1. [row EXCEPT !.age = 0] \in StateRow
        BY McpAssumption DEF StateRow
    <2> QED BY <2>1, WroteIsRow DEF Refreshed
<1>3. \A t \in Threads : state[t] \in StateRow /\ edit.seen[t] \in StateRow
    BY OpenIsEdit DEF CommitEdit, Edit, TypeOK
<1>4. state' \in [Threads -> StateRow]
    BY <1>2, <1>3 DEF CommitEdit
<1> QED BY <1>1, <1>4 DEF CommitEdit, TypeOK

LEMMA TypeStep ==
    ASSUME TypeOK, LoadsAreClosed, [Next]_vars
    PROVE  TypeOK'
<1>1. CASE UNCHANGED vars
    BY <1>1 DEF TypeOK, vars, store
<1>2. ASSUME NEW s \in Servers, NEW row \in ServerRow, OpenEdit(s, row) PROVE TypeOK'
    <2>1. edit' \in Edit
        BY <1>2 DEF OpenEdit, Edit, TypeOK
    <2>2. load' \in [Loads -> {Idle} \cup Load]
        BY <1>2, RacedShape DEF OpenEdit
    <2>3. edits' \in 0..MaxEdits
        BY <1>2, McpAssumption DEF OpenEdit, TypeOK
    <2> QED BY <1>2, <2>1, <2>2, <2>3 DEF OpenEdit, TypeOK, store
<1>3. CASE CreateServer \/ UpdateServer \/ DeleteServer
    <2>1. \E s \in Servers, row \in ServerRow : OpenEdit(s, row)
        <3>1. ASSUME NEW s \in Servers, NEW on \in BOOLEAN, NEW v \in Versions
              PROVE  /\ [exists |-> TRUE, enabled |-> on, version |-> v] \in ServerRow
                     /\ [server[s] EXCEPT !.enabled = on, !.version = v] \in ServerRow
                     /\ [server[s] EXCEPT !.exists = FALSE, !.enabled = FALSE] \in ServerRow
            BY DEF TypeOK, ServerRow
        <3> QED BY <1>3, <3>1, McpAssumption DEF CreateServer, UpdateServer, DeleteServer
    <2> QED BY <1>2, <2>1
<1>4. CASE CommitEdit
    BY <1>4, EditTyped DEF CommitEdit, TypeOK
<1>5. CASE AbortEdit
    BY <1>5 DEF AbortEdit, TypeOK, store
<1>6. ASSUME NEW l \in Loads, LoadStep(l) \/ Stop(l) \/ EndRun(l) PROVE TypeOK'
    <2>1. load[l] \in Load /\ Advances(l) /\ Recorded(l)
        BY <1>6, LoadShape, LoadRecords
    <2>2. load' \in [Loads -> {Idle} \cup Load]
        BY <2>1 DEF Advances, TypeOK
    <2>3. state' \in [Threads -> StateRow]
        BY <2>1 DEF Recorded
    <2>4. gateway' \in [Threads -> [Ports -> Gateway]]
        <3>1. CASE UNCHANGED gateway
            BY <3>1 DEF TypeOK
        <3>2. ASSUME NEW s \in Servers, BuildEntry(l, s) PROVE gateway' \in [Threads -> [Ports -> Gateway]]
            <4> DEFINE v == CHOOSE w \in Versions : <<s, w>> \in load[l].config
            <4>1. \/ GatewayRestarted(load[l].thread, s, v, load[l].process)
                  \/ GatewayFails(load[l].thread, s, v, load[l].process)
                  \/ UNCHANGED gateway
                BY <3>2 DEF BuildEntry
            <4>2. s \in ServersOf(load[l].config)
                BY <3>2 DEF BuildEntry, LoadsAreClosed
            <4>3. v \in Versions /\ load[l].thread \in Threads /\ load[l].process \in Processes
                BY <2>1, <4>2, VersionIsRead DEF Load
            <4> QED BY <3>1, <4>1, <4>3, GatewayIsTyped
        <3> QED BY <1>6, <3>1, <3>2 DEF LoadStep, NoServers, SkipInCooldown, TryServers,
                NothingBuilt, Connect, GetTools, FinishLoad, EndStopped, Stop, EndRun
    <2>5. UNCHANGED <<store, edit, test, edits, tests>>
        BY <1>6 DEF LoadStep, NoServers, SkipInCooldown, TryServers, BuildEntry, NothingBuilt,
            Connect, GetTools, FinishLoad, EndStopped, Stop, EndRun
    <2> QED BY <2>2, <2>3, <2>4, <2>5 DEF TypeOK, store
<1>7. ASSUME NEW l \in Loads, NEW t \in Threads, BeginLoad(l, t) PROVE TypeOK'
    <2>1. load' \in [Loads -> {Idle} \cup Load]
        BY <1>7, StopOthersShape, NewLoadIsLoad DEF BeginLoad
    <2> QED BY <1>7, <2>1 DEF BeginLoad, TypeOK, store
<1>8. ASSUME NEW t \in Threads, NEW s \in Servers, OpenTest(t, s) PROVE TypeOK'
    <2>1. test' \in Test
        BY <1>8 DEF OpenTest, Test, TypeOK, ServerRow
    <2>2. tests' \in 0..MaxTests
        BY <1>8, McpAssumption DEF OpenTest, TypeOK
    <2> QED BY <1>8, <2>1, <2>2 DEF OpenTest, TypeOK, store
<1>9. CASE RunTest
    <2>1. test \in Test
        BY <1>9 DEF RunTest, TypeOK, NoTest
    <2>2. test.thread \in Threads /\ test.server \in Servers /\ test.version \in Versions
        BY <2>1 DEF Test
    <2>3. gateway' \in [Threads -> [Ports -> Gateway]]
        BY <1>9, <2>2, GatewayIsTyped DEF RunTest, TypeOK
    <2> QED BY <1>9, <2>3 DEF RunTest, TypeOK, store
<1>10. ASSUME NEW t \in Threads, Tick(t) PROVE TypeOK'
    <2>1. state[t] \in StateRow /\ state[t].age < Cooldown
        BY <1>10 DEF Tick, CoolingDown, TypeOK
    <2>2. state[t].age + 1 \in 0..Cooldown
        BY <2>1, McpAssumption DEF StateRow
    <2>3. [state[t] EXCEPT !.age = state[t].age + 1] \in StateRow
        BY <2>1, <2>2 DEF StateRow
    <2>4. state' = [state EXCEPT ![t] = [state[t] EXCEPT !.age = state[t].age + 1]]
        BY <1>10 DEF Tick
    <2>5. state' \in [Threads -> StateRow]
        BY <2>3, <2>4 DEF TypeOK
    <2> QED BY <1>10, <2>5 DEF Tick, TypeOK, store
<1> QED BY <1>1, <1>3, <1>4, <1>5, <1>6, <1>7, <1>8, <1>9, <1>10 DEF Next, EditStep

-------------------------------------------------------------------------------
(* Cooldowns: what a load or an edit has read is current, or they raced.   *)

\* An edit that begins marks every load under way.
LEMMA OpenMarks ==
    ASSUME TypeOK, NEW s, NEW row, OpenEdit(s, row)
    PROVE  \A l \in Loads : Loading(l)' => load'[l].raced
<1>1. load' = Raced(load)
    BY DEF OpenEdit
<1>2. ASSUME NEW l \in Loads, Loading(l)' PROVE load'[l].raced
    <2>1. CASE load'[l] = load[l] /\ ~Loading(l)
        BY <1>2, <2>1 DEF Loading
    <2>2. CASE load[l] \in Load /\ load'[l] = [load[l] EXCEPT !.raced = TRUE]
        BY <2>2 DEF Load
    <2> QED BY <1>1, <2>1, <2>2, RacedShape
<1> QED BY <1>2

LEMMA CurrentStep ==
    ASSUME TypeOK, LoadsAreClosed, LoadsAreCurrent, [Next]_vars
    PROVE  LoadsAreCurrent'
<1>1. CASE UNCHANGED <<server, bound, edit, load>>
    BY <1>1 DEF LoadsAreCurrent, Loading, Config
<1>2. CASE CreateServer \/ UpdateServer \/ DeleteServer
    <2>1. PICK s, row : OpenEdit(s, row)
        BY <1>2 DEF CreateServer, UpdateServer, DeleteServer
    <2> QED BY <2>1, OpenMarks DEF LoadsAreCurrent
<1>3. CASE CommitEdit
    <2>1. edit.open /\ UNCHANGED load
        BY <1>3 DEF CommitEdit
    <2> QED BY <2>1 DEF LoadsAreCurrent, Loading
<1>4. CASE AbortEdit
    <2>1. edit.open /\ UNCHANGED load
        BY <1>4 DEF AbortEdit
    <2> QED BY <2>1 DEF LoadsAreCurrent, Loading
<1>5. ASSUME NEW l \in Loads, NEW t \in Threads, BeginLoad(l, t) PROVE LoadsAreCurrent'
    <2>1. PICK p \in Processes : load' = [StopOthers(p, t) EXCEPT ![l] = NewLoad(p, t)]
        BY <1>5 DEF BeginLoad
    <2>2. UNCHANGED <<server, bound, edit>>
        BY <1>5 DEF BeginLoad, store
    <2>3. load'[l] = NewLoad(p, t) /\ \A m \in Loads : m # l => load'[m] = StopOthers(p, t)[m]
        BY <2>1, StopOthersShape
    <2>4. ASSUME NEW m \in Loads, m # l, Loading(m)', ~load'[m].raced
          PROVE  Loading(m) /\ ~load[m].raced /\ load'[m].config = load[m].config
                 /\ load'[m].thread = load[m].thread
        <3>1. CASE load'[m] = load[m]
            BY <2>4, <3>1 DEF Loading
        <3>2. CASE load[m] \in Load /\ load'[m] = [load[m] EXCEPT !.stopped = TRUE]
            BY <2>4, <3>2 DEF Loading, Load
        <3> QED BY <2>3, <2>4, <3>1, <3>2, StopOthersShape
    <2>5. ~load'[l].raced => ~edit.open /\ load'[l].config = Config(load'[l].thread)
        BY <2>3 DEF NewLoad
    <2> QED BY <2>2, <2>4, <2>5 DEF LoadsAreCurrent, Config
<1>6. ASSUME NEW l \in Loads, LoadStep(l) \/ Stop(l) \/ EndRun(l) PROVE LoadsAreCurrent'
    <2>1. load[l] \in Load /\ Advances(l)
        BY <1>6, LoadShape
    <2>2. PICK r \in {Idle} \cup Load :
            load' = [load EXCEPT ![l] = r] /\ (r.pc # "idle" => Kept(load[l], r))
        BY <2>1 DEF Advances
    <2>3. load'[l] = r /\ \A m \in Loads : m # l => load'[m] = load[m]
        BY <2>2 DEF TypeOK
    <2>4. ASSUME NEW m \in Loads, Loading(m)', ~load'[m].raced
          PROVE  Loading(m) /\ ~load[m].raced /\ load'[m].config = load[m].config
                 /\ load'[m].thread = load[m].thread
        BY <2>2, <2>3, <2>4 DEF Loading, Kept
    <2>5. UNCHANGED <<server, bound, edit>>
        BY <1>6 DEF LoadStep, NoServers, SkipInCooldown, TryServers, BuildEntry, NothingBuilt,
            Connect, GetTools, FinishLoad, EndStopped, Stop, EndRun, store
    <2> QED BY <2>4, <2>5 DEF LoadsAreCurrent, Config
<1> QED BY <1>1, <1>2, <1>3, <1>4, <1>5, <1>6 DEF Next, vars, EditStep, OpenTest, RunTest,
        Tick, store

\* What the steps of a load record: a failure that is current, or one that raced.
LEMMA RecordsCurrent ==
    ASSUME TypeOK, LoadsAreClosed, LoadsAreCurrent, NEW l \in Loads, NEW t \in Threads,
           LoadStep(l) \/ Stop(l) \/ EndRun(l), state'[t] # state[t], state'[t].status = "failed"
    PROVE  \/ state'[t].raced
           \/ ~edit.open /\ state'[t].config = Config(t)
<1>1. Loading(l) /\ t = load[l].thread
        /\ state'[t].config = load[l].config /\ state'[t].raced = load[l].raced
    BY LoadRecords DEF Recorded
<1> QED BY <1>1 DEF LoadsAreCurrent

\* A failure that an edit leaves is one it has not seen.
LEMMA CommitClears ==
    ASSUME TypeOK, FailuresAreSeen, CommitEdit, NEW t \in Threads, state'[t].status = "failed"
    PROVE  state'[t].raced
<1> DEFINE row == state[t]
           seen == edit.seen[t]
<1>1. PICK config : state'[t] = Refreshed(row, seen, config)
    BY DEF CommitEdit
<1>2. row \in StateRow
    BY DEF TypeOK
<1>3. PICK status \in {"dirty", "ready"} :
        state'[t] = IF seen.status # status THEN Wrote(status) ELSE [row EXCEPT !.age = 0]
    BY <1>1 DEF Refreshed
<1>4. seen.status = status
    BY <1>3, WroteIsRow
<1>5. state'[t] = [row EXCEPT !.age = 0]
    BY <1>3, <1>4
<1>6. row.status = "failed" /\ state'[t].raced = row.raced
    BY <1>2, <1>5 DEF StateRow
<1>7. row.raced
    BY <1>4, <1>6 DEF FailuresAreSeen, CommitEdit
<1> QED BY <1>6, <1>7

LEMMA SeenStep ==
    ASSUME TypeOK, LoadsAreClosed, LoadsAreCurrent, FailuresAreSeen, [Next]_vars
    PROVE  FailuresAreSeen'
<1>1. CASE UNCHANGED <<state, edit>>
    BY <1>1 DEF FailuresAreSeen
<1>2. CASE CreateServer \/ UpdateServer \/ DeleteServer
    <2>1. PICK s, row : OpenEdit(s, row)
        BY <1>2 DEF CreateServer, UpdateServer, DeleteServer
    <2>2. edit'.seen = state /\ UNCHANGED state
        BY <2>1 DEF OpenEdit
    <2> QED BY <2>2 DEF FailuresAreSeen
<1>3. CASE CommitEdit \/ AbortEdit
    BY <1>3 DEF CommitEdit, AbortEdit, NoEdit, FailuresAreSeen
<1>4. ASSUME NEW l \in Loads, LoadStep(l) \/ Stop(l) \/ EndRun(l) PROVE FailuresAreSeen'
    <2>1. UNCHANGED edit
        BY <1>4 DEF LoadStep, NoServers, SkipInCooldown, TryServers, BuildEntry, NothingBuilt,
            Connect, GetTools, FinishLoad, EndStopped, Stop, EndRun
    <2>2. ASSUME edit.open, NEW t \in Threads, state'[t].status = "failed", ~state'[t].raced
          PROVE  edit.seen[t].status = "failed"
        <3>1. state'[t] = state[t]
            BY <1>4, <2>2, RecordsCurrent
        <3> QED BY <2>2, <3>1 DEF FailuresAreSeen
    <2> QED BY <2>1, <2>2 DEF FailuresAreSeen
<1>5. ASSUME NEW u \in Threads, Tick(u) PROVE FailuresAreSeen'
    <2>1. UNCHANGED edit
        BY <1>5 DEF Tick
    <2>2. \A t \in Threads : state'[t].status = state[t].status /\ state'[t].raced = state[t].raced
        BY <1>5 DEF Tick, TypeOK, StateRow
    <2> QED BY <2>1, <2>2 DEF FailuresAreSeen
<1> QED BY <1>1, <1>2, <1>3, <1>4, <1>5 DEF Next, vars, EditStep, BeginLoad, OpenTest, RunTest

LEMMA EarnedStep ==
    ASSUME TypeOK, LoadsAreClosed, LoadsAreCurrent, FailuresAreSeen, CooldownIsEarned, [Next]_vars
    PROVE  CooldownIsEarned'
<1>1. CASE UNCHANGED <<server, bound, state>>
    BY <1>1 DEF CooldownIsEarned, Config
<1>2. CASE CommitEdit
    BY <1>2, CommitClears DEF CooldownIsEarned
<1>3. ASSUME NEW l \in Loads, LoadStep(l) \/ Stop(l) \/ EndRun(l) PROVE CooldownIsEarned'
    <2>1. UNCHANGED <<server, bound>>
        BY <1>3 DEF LoadStep, NoServers, SkipInCooldown, TryServers, BuildEntry, NothingBuilt,
            Connect, GetTools, FinishLoad, EndStopped, Stop, EndRun, store
    <2>2. ASSUME NEW t \in Threads, state'[t].status = "failed"
          PROVE  state'[t].config = Config(t) \/ state'[t].raced
        <3>1. CASE state'[t] = state[t]
            BY <2>2, <3>1 DEF CooldownIsEarned
        <3>2. CASE state'[t] # state[t]
            BY <1>3, <2>2, <3>2, RecordsCurrent
        <3> QED BY <3>1, <3>2
    <2> QED BY <2>1, <2>2 DEF CooldownIsEarned, Config
<1>4. ASSUME NEW u \in Threads, Tick(u) PROVE CooldownIsEarned'
    <2>1. UNCHANGED <<server, bound>>
        BY <1>4 DEF Tick, store
    <2>2. \A t \in Threads : /\ state'[t].status = state[t].status
                             /\ state'[t].config = state[t].config
                             /\ state'[t].raced = state[t].raced
        BY <1>4 DEF Tick, TypeOK, StateRow
    <2> QED BY <2>1, <2>2 DEF CooldownIsEarned, Config
<1> QED BY <1>1, <1>2, <1>3, <1>4 DEF Next, vars, store, EditStep, CreateServer, UpdateServer,
        DeleteServer, OpenEdit, AbortEdit, BeginLoad, OpenTest, RunTest

-------------------------------------------------------------------------------
(* Gateways, in any processes and with any ports.                          *)

\* Where a run begins or builds, the others of its thread and process are stopped.
LEMMA StoppedStep ==
    ASSUME TypeOK, LoadsAreClosed, OthersAreStopped, [Next]_vars
    PROVE  OthersAreStopped'
<1>1. CASE UNCHANGED load
    BY <1>1 DEF OthersAreStopped
<1>2. ASSUME NEW l \in Loads, NEW t \in Threads, BeginLoad(l, t) PROVE OthersAreStopped'
    <2>1. PICK p \in Processes :
            ~Blocked(p) /\ load' = [StopOthers(p, t) EXCEPT ![l] = NewLoad(p, t)]
        BY <1>2 DEF BeginLoad
    <2>2. load'[l] = NewLoad(p, t) /\ \A m \in Loads : m # l => load'[m] = StopOthers(p, t)[m]
        BY <2>1, StopOthersShape
    <2>3. \A m \in Loads : load[m].pc # "idle" /\ load[m].process = p =>
                                load[m].pc \notin {"read", "building"}
        BY <2>1 DEF Blocked
    <2>4. ASSUME NEW m \in Loads, m # l, load'[m].pc # "idle"
          PROVE  /\ load[m].pc # "idle" /\ load'[m].pc = load[m].pc
                 /\ load'[m].process = load[m].process /\ load'[m].thread = load[m].thread
                 /\ load[m].stopped => load'[m].stopped
                 /\ load[m].process = p /\ load[m].thread = t => load'[m].stopped
        <3>1. CASE load[m].pc # "idle" /\ load[m].process = p /\ load[m].thread = t
            <4>1. load[m] \in Load /\ load'[m] = [load[m] EXCEPT !.stopped = TRUE]
                BY <2>2, <2>4, <3>1, StopOthersShape
            <4> QED BY <3>1, <4>1 DEF Load
        <3>2. CASE ~(load[m].pc # "idle" /\ load[m].process = p /\ load[m].thread = t)
            <4>1. StopOthers(p, t)[m] = load[m]
                BY <2>4, <3>2, Zenon DEF StopOthers
            <4>2. load'[m] = load[m]
                BY <2>2, <2>4, <4>1
            <4> QED BY <2>4, <3>2, <4>2
        <3> QED BY <3>1, <3>2
    <2>5. load'[l].thread = t /\ load'[l].process = p
        BY <2>2 DEF NewLoad
    <2>6. ASSUME NEW k \in Loads, NEW m \in Loads, k # m,
                 load'[k].pc # "idle", load'[m].pc # "idle",
                 load'[k].thread = load'[m].thread, load'[k].process = load'[m].process,
                 load'[k].pc \in {"read", "building"}
          PROVE  load'[m].stopped
        <3>1. CASE k = l
            BY <2>4, <2>5, <2>6, <3>1
        <3>2. CASE k # l /\ m = l
            BY <2>3, <2>4, <2>5, <2>6, <3>2
        <3>3. CASE k # l /\ m # l
            BY <2>4, <2>6, <3>3 DEF OthersAreStopped
        <3> QED BY <3>1, <3>2, <3>3
    <2> QED BY <2>6 DEF OthersAreStopped
<1>3. CASE load' = Raced(load)
    <2>1. ASSUME NEW m \in Loads, load'[m].pc # "idle"
          PROVE  /\ load'[m].pc = load[m].pc /\ load'[m].thread = load[m].thread
                 /\ load'[m].process = load[m].process
                 /\ load[m].stopped => load'[m].stopped
        <3>1. CASE load'[m] = load[m]
            BY <3>1
        <3>2. CASE load[m] \in Load /\ load'[m] = [load[m] EXCEPT !.raced = TRUE]
            BY <3>2 DEF Load
        <3> QED BY <1>3, <3>1, <3>2, RacedShape
    <2> QED BY <2>1 DEF OthersAreStopped
<1>4. ASSUME NEW l \in Loads, LoadStep(l) \/ Stop(l) \/ EndRun(l) PROVE OthersAreStopped'
    <2>1. load[l].pc # "idle" /\ Advances(l)
        BY <1>4, LoadShape
    <2>2. PICK r \in {Idle} \cup Load :
            load' = [load EXCEPT ![l] = r] /\ (r.pc # "idle" => Kept(load[l], r))
        BY <2>1 DEF Advances
    <2>3. load'[l] = r /\ \A m \in Loads : m # l => load'[m] = load[m]
        BY <2>2 DEF TypeOK
    <2>4. ASSUME NEW m \in Loads, load'[m].pc # "idle"
          PROVE  /\ load[m].pc # "idle" /\ load'[m].thread = load[m].thread
                 /\ load'[m].process = load[m].process
                 /\ load'[m].pc \in {"read", "building"} => load[m].pc \in {"read", "building"}
                 /\ load[m].stopped => load'[m].stopped
        BY <2>1, <2>2, <2>3, <2>4 DEF Kept
    <2> QED BY <2>4 DEF OthersAreStopped
<1> QED BY <1>1, <1>2, <1>3, <1>4 DEF Next, vars, EditStep, CreateServer, UpdateServer,
        DeleteServer, OpenEdit, CommitEdit, AbortEdit, OpenTest, RunTest, Tick

\* What lies behind the address run r has for its server s.
Serves(r, s, gateways) ==
    LET g == gateways[r.thread][Port[s]] IN
    \/ r.stopped \/ g.by # r.process \/ SharesPort(r.config, s)
    \/ g.server = s /\ <<s, g.version>> \in r.config

\* A gateway that is replaced is the only one that changes.
LEMMA OneGateway ==
    ASSUME TypeOK, NEW t \in Threads, NEW s \in Servers, NEW v \in Versions,
           NEW by \in Processes \cup {Nobody},
           GatewayRestarted(t, s, v, by) \/ GatewayFails(t, s, v, by)
    PROVE  /\ \A u \in Threads, q \in Ports :
                u # t \/ q # Port[s] => gateway'[u][q] = gateway[u][q]
           /\ \/ UNCHANGED gateway
              \/ gateway'[t][Port[s]] = Killed(by)
              \/ gateway'[t][Port[s]] = Runs(s, v, by)
           /\ GatewayRestarted(t, s, v, by) => gateway'[t][Port[s]] = Runs(s, v, by)
<1>1. gateway \in [Threads -> [Ports -> Gateway]] /\ gateway[t] \in [Ports -> Gateway]
    BY DEF TypeOK
<1>2. Port[s] \in Ports
    BY McpAssumption
<1>3. ASSUME NEW g, gateway' = [gateway EXCEPT ![t][Port[s]] = g]
      PROVE  /\ \A u \in Threads, q \in Ports :
                    u # t \/ q # Port[s] => gateway'[u][q] = gateway[u][q]
             /\ gateway'[t][Port[s]] = g
    BY <1>1, <1>2, <1>3
<1> QED BY <1>3 DEF GatewayRestarted, GatewayFails

LEMMA GatewaysStep ==
    ASSUME TypeOK, LoadsAreClosed, OthersAreStopped, RunsOwnGateways, [Next]_vars
    PROVE  RunsOwnGateways'
<1> DEFINE Own(r) == r.pc # "idle" => \A s \in r.entries \cap Stdio : Serves(r, s, gateway')
<1>1. ASSUME \A l \in Loads : Own(load'[l]) PROVE RunsOwnGateways'
    BY <1>1 DEF RunsOwnGateways, Serves
<1>2. \A l \in Loads : load[l].pc # "idle" =>
        \A s \in load[l].entries \cap Stdio : Serves(load[l], s, gateway)
    BY DEF RunsOwnGateways, Serves
<1>3. ASSUME UNCHANGED gateway,
             \A l \in Loads : load'[l].pc # "idle" =>
                \/ load'[l].entries = {}
                \/ /\ load[l].pc # "idle" /\ load'[l].thread = load[l].thread
                   /\ load'[l].process = load[l].process
                   /\ load'[l].entries = load[l].entries /\ load'[l].config = load[l].config
                   /\ load[l].stopped => load'[l].stopped
      PROVE  RunsOwnGateways'
    BY <1>1, <1>2, <1>3 DEF Serves
<1>4. CASE UNCHANGED <<load, gateway>>
    BY <1>3, <1>4
<1>5. CASE load' = Raced(load) /\ UNCHANGED gateway
    <2>1. ASSUME NEW m \in Loads, load'[m].pc # "idle"
          PROVE  /\ load[m].pc # "idle" /\ load'[m].thread = load[m].thread
                 /\ load'[m].process = load[m].process
                 /\ load'[m].entries = load[m].entries /\ load'[m].config = load[m].config
                 /\ load[m].stopped => load'[m].stopped
        <3>1. CASE load'[m] = load[m]
            BY <2>1, <3>1
        <3>2. CASE load[m] \in Load /\ load'[m] = [load[m] EXCEPT !.raced = TRUE]
            BY <2>1, <3>2 DEF Load
        <3> QED BY <1>5, <3>1, <3>2, RacedShape
    <2> QED BY <1>3, <1>5, <2>1
<1>6. ASSUME NEW l \in Loads, NEW t \in Threads, BeginLoad(l, t) PROVE RunsOwnGateways'
    <2>1. PICK p \in Processes : load' = [StopOthers(p, t) EXCEPT ![l] = NewLoad(p, t)]
        BY <1>6 DEF BeginLoad
    <2>2. load'[l] = NewLoad(p, t) /\ \A m \in Loads : m # l => load'[m] = StopOthers(p, t)[m]
        BY <2>1, StopOthersShape
    <2>3. ASSUME NEW m \in Loads, m # l, load'[m].pc # "idle"
          PROVE  /\ load[m].pc # "idle" /\ load'[m].thread = load[m].thread
                 /\ load'[m].process = load[m].process
                 /\ load'[m].entries = load[m].entries /\ load'[m].config = load[m].config
                 /\ load[m].stopped => load'[m].stopped
        <3>1. CASE load'[m] = load[m]
            BY <2>3, <3>1
        <3>2. CASE load[m] \in Load /\ load'[m] = [load[m] EXCEPT !.stopped = TRUE]
            BY <2>3, <3>2 DEF Load
        <3> QED BY <2>2, <2>3, <3>1, <3>2, StopOthersShape
    <2>4. load'[l].entries = {} /\ UNCHANGED gateway
        BY <1>6, <2>2 DEF BeginLoad, NewLoad
    <2> QED BY <1>3, <2>3, <2>4
<1>7. ASSUME NEW l \in Loads, NEW s \in Servers, BuildEntry(l, s) PROVE RunsOwnGateways'
    <2> DEFINE r == load[l]
               t == r.thread
               v == CHOOSE w \in Versions : <<s, w>> \in r.config
               built == [r EXCEPT !.todo = @ \ {s}, !.entries = @ \cup {s}]
               failed == [r EXCEPT !.todo = @ \ {s}, !.errors = TRUE]
    <2>1. r.pc = "building" /\ s \in r.todo
        BY <1>7 DEF BuildEntry
    <2>2. r \in Load /\ t \in Threads /\ r.process \in Processes
        BY <2>1, ActiveIsLoad DEF Load
    <2>3. s \in ServersOf(r.config) /\ s \notin r.entries
        BY <2>1 DEF LoadsAreClosed
    <2>4. v \in Versions /\ <<s, v>> \in r.config
        BY <2>2, <2>3, VersionIsRead
    <2>5. \/ /\ load' = [load EXCEPT ![l] = built]
             /\ IF s \in Stdio THEN GatewayRestarted(t, s, v, r.process) ELSE UNCHANGED gateway
          \/ /\ load' = [load EXCEPT ![l] = failed]
             /\ IF s \in Stdio THEN GatewayFails(t, s, v, r.process) ELSE UNCHANGED gateway
        BY <1>7 DEF BuildEntry
    <2>6. \A u \in Threads, q \in Ports : u # t \/ q # Port[s] => gateway'[u][q] = gateway[u][q]
        BY <2>2, <2>4, <2>5, OneGateway
    <2>6a. \/ UNCHANGED gateway
           \/ s \in Stdio /\ gateway'[t][Port[s]].by = r.process
        <3> HIDE DEF v
        <3>1. \/ UNCHANGED gateway
              \/ /\ s \in Stdio
                 /\ \/ gateway'[t][Port[s]] = Killed(r.process)
                    \/ gateway'[t][Port[s]] = Runs(s, v, r.process)
            BY <2>2, <2>4, <2>5, OneGateway
        <3> QED BY <3>1 DEF Killed, Runs
    <2>7. ASSUME NEW x \in r.entries \cap Stdio PROVE Serves(r, x, gateway')
        <3>1. x # s /\ x \in Servers /\ Port[x] \in Ports
            BY <2>2, <2>3, McpAssumption DEF Load
        <3>2. Serves(r, x, gateway)
            BY <1>2, <2>1
        <3>3. CASE gateway'[t][Port[x]] = gateway[t][Port[x]]
            BY <3>2, <3>3 DEF Serves
        <3>4. CASE Port[x] = Port[s] /\ s \in Stdio
            BY <2>3, <3>1, <3>4 DEF Serves, SharesPort
        <3> QED BY <2>2, <2>6, <2>6a, <3>1, <3>3, <3>4
    <2>8. ASSUME load' = [load EXCEPT ![l] = built],
                 IF s \in Stdio THEN GatewayRestarted(t, s, v, r.process) ELSE UNCHANGED gateway
          PROVE  Own(load'[l])
        <3>1. load'[l] = built
            BY <2>8 DEF TypeOK
        <3>2. /\ built.entries = r.entries \cup {s} /\ built.thread = t
              /\ built.config = r.config /\ built.stopped = r.stopped
              /\ built.process = r.process
            BY <2>2 DEF Load
        <3>3. ASSUME s \in Stdio PROVE Serves(r, s, gateway')
            <4> HIDE DEF v
            <4>1. GatewayRestarted(t, s, v, r.process)
                BY <2>8, <3>3
            <4>2. gateway'[t][Port[s]] = Runs(s, v, r.process)
                BY <2>2, <2>4, <4>1, OneGateway
            <4> QED BY <2>4, <4>2 DEF Serves, Runs
        <3> HIDE DEF built
        <3>4. \A x \in built.entries \cap Stdio : Serves(r, x, gateway')
            BY <2>7, <3>2, <3>3
        <3>5. \A x : Serves(r, x, gateway') => Serves(built, x, gateway')
            BY <3>2 DEF Serves
        <3> QED BY <3>1, <3>4, <3>5
    <2>9. ASSUME load' = [load EXCEPT ![l] = failed] PROVE Own(load'[l])
        <3>1. load'[l] = failed
            BY <2>9 DEF TypeOK
        <3>2. /\ failed.entries = r.entries /\ failed.thread = t
              /\ failed.config = r.config /\ failed.stopped = r.stopped
              /\ failed.process = r.process
            BY <2>2 DEF Load
        <3> HIDE DEF failed
        <3>3. \A x : Serves(r, x, gateway') => Serves(failed, x, gateway')
            BY <3>2 DEF Serves
        <3> QED BY <2>7, <3>1, <3>2, <3>3
    <2>10. ASSUME NEW m \in Loads, m # l PROVE Own(load'[m])
        <3>1. load'[m] = load[m]
            BY <2>5, <2>10 DEF TypeOK
        <3>2. ASSUME load[m].pc # "idle", NEW x \in load[m].entries \cap Stdio
              PROVE  Serves(load[m], x, gateway')
            <4>1. load[m].thread \in Threads /\ Port[x] \in Ports
                BY <3>2, ActiveIsLoad, McpAssumption DEF Load
            <4>2. CASE gateway'[load[m].thread][Port[x]] = gateway[load[m].thread][Port[x]]
                BY <1>2, <3>2, <4>2 DEF Serves
            <4>3. CASE load[m].thread = t /\ gateway'[t][Port[x]].by = r.process
                <5>1. CASE load[m].process = r.process
                    <6>1. load[m].stopped
                        BY <2>1, <2>10, <3>2, <4>3, <5>1 DEF OthersAreStopped
                    <6> QED BY <6>1 DEF Serves
                <5>2. CASE load[m].process # r.process
                    BY <4>3, <5>2 DEF Serves
                <5> QED BY <5>1, <5>2
            <4> QED BY <2>6, <2>6a, <4>1, <4>2, <4>3
        <3> QED BY <3>1, <3>2
    <2>11. Own(load'[l])
        <3> HIDE DEF built, failed, v, Own
        <3> QED BY <2>5, <2>8, <2>9
    <2> QED BY <1>1, <2>10, <2>11
<1>8. ASSUME NEW l \in Loads, LoadStep(l) \/ Stop(l) \/ EndRun(l),
             ~\E s \in Servers : BuildEntry(l, s)
      PROVE  RunsOwnGateways'
    <2>1. UNCHANGED gateway
        BY <1>8 DEF LoadStep, NoServers, SkipInCooldown, TryServers, NothingBuilt, Connect,
            GetTools, FinishLoad, EndStopped, Stop, EndRun
    <2>2. load[l] \in Load /\ load[l].pc # "idle"
        BY <1>8, LoadShape
    <2>3. \A m \in Loads : m # l => load'[m] = load[m]
        BY <1>8 DEF LoadStep, NoServers, SkipInCooldown, TryServers, NothingBuilt, Connect,
            GetTools, FinishLoad, EndStopped, Stop, EndRun, Without, TypeOK
    <2>4. \/ load'[l].pc = "idle"
          \/ /\ load'[l].thread = load[l].thread /\ load'[l].entries = load[l].entries
             /\ load'[l].config = load[l].config
             /\ load'[l].process = load[l].process
             /\ load[l].stopped => load'[l].stopped
        <3>1. CASE Without(l)
            BY <3>1 DEF Without, Idle, TypeOK
        <3>2. CASE TryServers(l)
            BY <2>2, <3>2 DEF TryServers, TypeOK, Load
        <3>3. CASE Connect(l)
            BY <2>2, <3>3 DEF Connect, TypeOK, Load
        <3>4. ASSUME NEW s \in Servers, GetTools(l, s) PROVE <2>4!2
            BY <2>2, <3>4 DEF GetTools, TypeOK, Load
        <3>5. CASE FinishLoad(l)
            <4> DEFINE n == [load[l] EXCEPT !.pc = "running", !.errors = FALSE,
                                            !.tools = FALSE, !.raced = FALSE]
            <4>1. Without(l) \/ load' = [load EXCEPT ![l] = n]
                BY <3>5 DEF FinishLoad
            <4>2. /\ n.thread = load[l].thread /\ n.entries = load[l].entries
                  /\ n.config = load[l].config /\ n.stopped = load[l].stopped
                  /\ n.process = load[l].process
                BY <2>2 DEF Load
            <4> HIDE DEF n
            <4>3. load' = [load EXCEPT ![l] = n] => load'[l] = n
                BY DEF TypeOK
            <4> QED BY <3>1, <4>1, <4>2, <4>3
        <3>6. CASE Stop(l)
            BY <2>2, <3>6 DEF Stop, TypeOK, Load
        <3> QED BY <1>8, <3>1, <3>2, <3>3, <3>4, <3>5, <3>6 DEF LoadStep, NoServers,
                SkipInCooldown, NothingBuilt, EndStopped, EndRun
    <2> QED BY <1>3, <2>1, <2>2, <2>3, <2>4
<1>9. CASE RunTest
    <2>1. test \in Test
        BY <1>9 DEF RunTest, TypeOK, NoTest
    <2>2. test.thread \in Threads /\ test.server \in Servers /\ test.version \in Versions
        BY <2>1 DEF Test
    <2>3. UNCHANGED load
        BY <1>9 DEF RunTest
    <2>4. CASE UNCHANGED gateway
        BY <1>4, <2>3, <2>4
    <2>5. CASE gateway' # gateway
        <3>1. \/ GatewayRestarted(test.thread, test.server, test.version, Nobody)
              \/ GatewayFails(test.thread, test.server, test.version, Nobody)
            BY <1>9, <2>5 DEF RunTest
        <3>2. \A u \in Threads, q \in Ports : u # test.thread \/ q # Port[test.server] =>
                gateway'[u][q] = gateway[u][q]
            BY <2>2, <3>1, OneGateway
        <3>3. gateway'[test.thread][Port[test.server]].by = Nobody
            <4>1. \/ gateway'[test.thread][Port[test.server]] = Killed(Nobody)
                  \/ gateway'[test.thread][Port[test.server]]
                        = Runs(test.server, test.version, Nobody)
                BY <2>2, <2>5, <3>1, OneGateway
            <4>2. /\ Killed(Nobody).by = Nobody
                  /\ Runs(test.server, test.version, Nobody).by = Nobody
                BY DEF Killed, Runs
            <4> QED BY <4>1, <4>2
        <3>4. ASSUME NEW m \in Loads, load[m].pc # "idle", NEW x \in load[m].entries \cap Stdio
              PROVE  Serves(load[m], x, gateway')
            <4>1. load[m].thread \in Threads /\ Port[x] \in Ports /\ load[m].process # Nobody
                BY <3>4, ActiveIsLoad, McpAssumption DEF Load
            <4> QED BY <1>2, <3>2, <3>3, <3>4, <4>1 DEF Serves
        <3> QED BY <1>1, <2>3, <3>4
    <2> QED BY <2>4, <2>5
<1> QED BY <1>4, <1>5, <1>6, <1>7, <1>8, <1>9 DEF Next, vars, EditStep, CreateServer,
        UpdateServer, DeleteServer, OpenEdit, CommitEdit, AbortEdit, OpenTest, Tick

-------------------------------------------------------------------------------
(* The theorems.                                                           *)

CooldownInv == TypeOK /\ LoadsAreClosed /\ LoadsAreCurrent /\ FailuresAreSeen /\ CooldownIsEarned

GatewayInv == TypeOK /\ LoadsAreClosed /\ OthersAreStopped /\ RunsOwnGateways

LEMMA McpInit == Init => CooldownInv /\ OthersAreStopped /\ RunsOwnGateways
<1> SUFFICES ASSUME Init PROVE CooldownInv /\ OthersAreStopped /\ RunsOwnGateways
    OBVIOUS
<1>1. \A l \in Loads : load[l] = Idle /\ load[l].pc = "idle"
    BY DEF Init, Idle
<1>2. TypeOK
    <2>1. ASSUME NEW s \in Servers PROVE server[s] \in ServerRow
        <3>1. server[s] = [ exists  |-> s \in InitialServers,
                            enabled |-> s \in InitialServers,
                            version |-> FirstVersion ]
            BY DEF Init
        <3>2. (s \in InitialServers) \in BOOLEAN
            OBVIOUS
        <3> QED BY <3>1, <3>2, McpAssumption DEF ServerRow
    <2>2. server \in [Servers -> ServerRow]
        BY <2>1 DEF Init
    <2>3. \A status \in {"ready", "dirty"} : Wrote(status) \in StateRow
        BY WroteIsRow
    <2>4. state \in [Threads -> StateRow]
        BY <2>3 DEF Init
    <2>5. Killed(Nobody) \in Gateway
        BY McpAssumption DEF Killed, Runs, Gateway
    <2>6. gateway \in [Threads -> [Ports -> Gateway]]
        BY <2>5 DEF Init
    <2>7. load \in [Loads -> {Idle} \cup Load]
        BY DEF Init
    <2>8. edits \in 0..MaxEdits /\ tests \in 0..MaxTests
        BY McpAssumption DEF Init
    <2> QED BY <2>2, <2>4, <2>6, <2>7, <2>8, McpAssumption DEF Init, TypeOK
<1>3. LoadsAreClosed /\ LoadsAreCurrent /\ OthersAreStopped /\ RunsOwnGateways
    BY <1>1 DEF LoadsAreClosed, LoadsAreCurrent, Loading, OthersAreStopped, RunsOwnGateways
<1>4. FailuresAreSeen
    BY DEF Init, NoEdit, FailuresAreSeen
<1>5. \A t \in Threads : state[t].status # "failed"
    BY DEF Init, Wrote
<1> QED BY <1>2, <1>3, <1>4, <1>5 DEF CooldownInv, CooldownIsEarned

(***************************************************************************)
(* Every reachable state of the MCP loading of a user is well typed.       *)
(***************************************************************************)
THEOREM McpTypeCorrect == Spec => []TypeOK
<1>1. Init => CooldownInv
    BY McpInit
<1>2. CooldownInv /\ [Next]_vars => CooldownInv'
    BY TypeStep, ClosedStep, CurrentStep, SeenStep, EarnedStep DEF CooldownInv
<1>3. CooldownInv => TypeOK
    BY DEF CooldownInv
<1> QED BY <1>1, <1>2, <1>3, PTL DEF Spec

(***************************************************************************)
(* However many loads, processes and edits there are, a cooldown a thread  *)
(* waits for is earned by the settings it has, or load and edit raced      *)
(* (_load_thread_mcp_tools against refresh_thread_mcp_runtime_state).      *)
(***************************************************************************)
THEOREM CooldownEarned == Spec => []CooldownIsEarned
<1>1. Init => CooldownInv
    BY McpInit
<1>2. CooldownInv /\ [Next]_vars => CooldownInv'
    BY TypeStep, ClosedStep, CurrentStep, SeenStep, EarnedStep DEF CooldownInv
<1>3. CooldownInv => CooldownIsEarned
    BY DEF CooldownInv
<1> QED BY <1>1, <1>2, <1>3, PTL DEF Spec

(***************************************************************************)
(* In any number of processes and with any ports, a run that goes on talks *)
(* to the gateways it has started itself, with the settings it has read    *)
(* (_ensure_daytona_mcp_gateway), unless a connection test, a run of       *)
(* another process or a server of its own on the same port replaced one.   *)
(***************************************************************************)
THEOREM OwnGateways == Spec => []RunsOwnGateways
<1>1. Init => GatewayInv
    BY McpInit DEF CooldownInv, GatewayInv
<1>2. GatewayInv /\ [Next]_vars => GatewayInv'
    BY TypeStep, ClosedStep, StoppedStep, GatewaysStep DEF GatewayInv
<1>3. GatewayInv => RunsOwnGateways
    BY DEF GatewayInv
<1> QED BY <1>1, <1>2, <1>3, PTL DEF Spec

(***************************************************************************)
(* In any number of processes, all others of a thread in the process where *)
(* a run builds are stopped (_register_active_stream_task), and what runs  *)
(* and edits have read is current or known to be overtaken.                *)
(***************************************************************************)
THEOREM McpInvCorrect == Spec => []McpInv
<1> DEFINE Both == CooldownInv /\ OthersAreStopped
<1>1. Init => Both
    BY McpInit
<1>2. Both /\ [Next]_vars => Both'
    BY TypeStep, ClosedStep, CurrentStep, SeenStep, EarnedStep, StoppedStep DEF CooldownInv
<1>3. Both => McpInv
    BY DEF CooldownInv, McpInv
<1> QED BY <1>1, <1>2, <1>3, PTL DEF Spec

===============================================================================
