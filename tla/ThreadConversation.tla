-------------------------- MODULE ThreadConversation --------------------------
(***************************************************************************)
(* One thread's conversation as the user sees it: the messages, approval   *)
(* and subagents of web/src/lib/thread-context.tsx, the conversion of      *)
(* server events in web/src/lib/window-api-transport.ts, and the chat of   *)
(* web/src/components/chat/ChatContainer.tsx with its MessageBubbles.      *)
(*                                                                         *)
(* A message is shown from two places: the thread's own list, which the    *)
(* user's input, the saved history and the end of a stream fill, and the   *)
(* stream's, where the server's events arrive. The agent (LangGraph) and   *)
(* the stream manager (useStream of the LangGraph SDK) are external and    *)
(* modelled as this code uses them. A message n of the user or the agent   *)
(* has the id <<n, 0>>, the user's own copy of it <<n, -1>> (a random id   *)
(* in the code), its i-th tool call and that call's result <<n, i>>.       *)
(* Contents, todos, errors, notices and the token count are left out: the  *)
(* handlers write them, and nothing modelled here reads them.              *)
(***************************************************************************)
EXTENDS Integers, SequencesExt, SeqFilter

CONSTANTS
    Plans,        \* the sequences of tools an answer may call
    None,         \* no decision, no approval
    Unmatched,    \* what an approval restored from a history is for: a random id, no call's
    MaxMessages,  \* bound on the messages of the user and the agent
    MaxWire,      \* from how many unprocessed events on the agent waits
    MaxMoves      \* bound on leaving, returning, stopping and reloading

Decisions == {"approve", "reject"}

ASSUME ConversationAssumption ==
    /\ Plans \subseteq Seq({"execute", "task"})
    /\ {None, Unmatched} \cap (Decisions \cup (Nat \X Int)) = {} /\ Unmatched # None
    /\ {MaxMessages, MaxWire, MaxMoves} \subseteq Nat

VARIABLES
    saved,      \* the messages in the thread's latest checkpoint
    asks,       \* the calls of the interrupt in it
    run,        \* what the agent does for the thread
    writing,    \* messages it has streamed, or received, but not saved
    decision,   \* what a resumed run was told
    made,       \* number of messages so far
    wire,       \* events sent to the client and not yet processed
    loading,    \* isLoading: the client's stream is open
    streamed,   \* stream.messages
    local,      \* messages of the thread's state
    pending,    \* pendingApproval: its tool call, None, or Unmatched
    tracked,    \* the last of completedToolCallsByName("execute"), or None
    active,     \* activeSubagents of the transport: calls with their status
    subagents,  \* subagents of the thread's state
    queued,     \* a decision that waits in the stream manager for the stream to end
    mounted,    \* is the chat of this thread on the screen?
    loads,      \* runs of loadThreadHistory: "asked", or the number of messages read
    doubt,      \* auxiliary: what a stop, an error, a reload of the page or a history
                \* may have left behind the server, among Aspects
    moves

server == <<saved, asks, run, writing, decision, made>>
stream == <<wire, loading, streamed, tracked, active, queued>>
thread == <<local, pending, subagents>>
Aspects == {"messages", "approval", "subagents"}

vars == <<server, stream, thread, mounted, loads, doubt, moves>>

-----------------------------------------------------------------------------
Message(id, role, calls) == [id |-> id, role |-> role, calls |-> calls]

Ids(s) == {s[i].id : i \in DOMAIN s}

CallsOf(m, name) == {<<m.id[1], i>> : i \in {j \in DOMAIN m.calls : m.calls[j] = name}}

\* Mutant: the place of the last call counted from zero.
LastCallFromZero(m) == <<m.id[1], Len(m.calls) - 1>>

\* The last call of execute among a message's calls.
LastCall(m) == CHOOSE c \in CallsOf(m, "execute") : \A d \in CallsOf(m, "execute") : d[2] <= c[2]

CallsIn(s, name) == UNION {CallsOf(s[i], name) : i \in DOMAIN s}

Unanswered(s) == (CallsIn(s, "execute") \cup CallsIn(s, "task")) \ Ids(s)

ToolResult(call) == Message(call, "tool", <<>>)

\* appendMessage: a message with a known id replaces the older one.
appendMessage(s, m) ==
    IF m.id \in Ids(s) THEN [i \in DOMAIN s |-> IF s[i].id = m.id THEN m ELSE s[i]]
    ELSE Append(s, m)

AppendAll(s, t) ==
    LET joined[n \in 0..Len(t)] == IF n = 0 THEN s ELSE appendMessage(joined[n - 1], t[n])
    IN  joined[Len(t)]

\* Mutant: messages that the thread has already are shown again.
DisplayedTwice(own, fromStream) == own \o fromStream

\* displayMessages: the thread's messages, then those only the stream has.
Displayed(own, fromStream) ==
    own \o Keeping(fromStream, {m \in ToSet(fromStream) : m.id \notin Ids(own)})

displayMessages == Displayed(local, streamed)

Event(kind, msgs) == [kind |-> kind, msgs |-> msgs]

\* The agent has nothing to ask any more, and this client will hear of the next.
Asked == doubt' = IF loading THEN doubt \ {"approval"} ELSE doubt

\* The agent's output reaches a client only while the stream is open, and waits
\* for a client that lags behind.
Send(events) ==
    /\ Len(wire) < MaxWire
    /\ wire' = IF loading THEN wire \o events ELSE wire

-----------------------------------------------------------------------------
\* The agent. It saves the user's message with results for calls that a stop or
\* a message instead of a decision has left without one.
Begin ==
    /\ run = "begin"
    /\ saved' = saved \o SetToSeq({ToolResult(c) : c \in Unanswered(saved)}) \o writing
    /\ writing' = <<>> /\ asks' = {} /\ run' = "model"
    /\ Send(<<Event("values", saved')>>)
    /\ Asked
    /\ UNCHANGED <<decision, made, loading, streamed, tracked, active, queued, thread, mounted,
                   loads, moves>>

\* An answer is streamed ("messages" mode) before it is saved.
Answer(plan) ==
    LET m == Message(<<made + 1, 0>>, "assistant", plan)
    IN  /\ run = "model" /\ writing = <<>> /\ made < MaxMessages
        /\ made' = made + 1 /\ writing' = <<m>>
        /\ Send(<<Event("messages", <<m>>)>>)
        /\ UNCHANGED <<saved, asks, run, decision, loading, streamed, tracked, active, queued,
                       thread, mounted, loads, doubt, moves>>

\* The answer is saved; a call of execute interrupts the run (interrupt_on).
SaveAnswer ==
    /\ run = "model" /\ writing # <<>>
    /\ saved' = saved \o writing /\ writing' = <<>>
    /\ asks' = CallsIn(writing, "execute")
    /\ run' = IF asks' # {} \/ Unanswered(saved') = {} THEN "end" ELSE "tools"
    /\ Send(<<Event("values", saved')>> \o
            (IF asks' # {} THEN <<Event("interrupt", <<>>)>> ELSE <<>>))
    /\ UNCHANGED <<decision, made, loading, streamed, tracked, active, queued, thread, mounted,
                   loads, doubt, moves>>

RunTool(c) ==
    /\ run = "tools" /\ c \in Unanswered(saved \o writing)
    /\ writing' = Append(writing, ToolResult(c))
    /\ Send(<<Event("messages", <<ToolResult(c)>>)>>)
    /\ UNCHANGED <<saved, asks, run, decision, made, loading, streamed, tracked, active, queued,
                   thread, mounted, loads, doubt, moves>>

SaveResults ==
    /\ run = "tools" /\ Unanswered(saved \o writing) = {}
    /\ saved' = saved \o writing /\ writing' = <<>> /\ run' = "model"
    /\ Send(<<Event("values", saved')>>)
    /\ UNCHANGED <<asks, decision, made, loading, streamed, tracked, active, queued, thread,
                   mounted, loads, doubt, moves>>

\* A resumed run needs as many decisions as there are calls; the client sends one.
Resume ==
    /\ run = "resume" /\ Cardinality(asks) = 1
    /\ asks' = {} /\ run' = "tools" /\ decision' = None
    /\ LET results == IF decision = "reject" THEN SetToSeq({ToolResult(c) : c \in asks}) ELSE <<>>
       IN  /\ writing' = results
           /\ Send(IF results = <<>> THEN <<>> ELSE <<Event("messages", results)>>)
    /\ Asked
    /\ UNCHANGED <<saved, made, loading, streamed, tracked, active, queued, thread, mounted,
                   loads, moves>>

End ==
    /\ run = "end"
    /\ run' = "none"
    /\ Send(<<Event("done", <<>>)>>)
    /\ UNCHANGED <<saved, asks, writing, decision, made, loading, streamed, tracked, active,
                   queued, thread, mounted, loads, doubt, moves>>

\* The run fails, or is cancelled after its client has stopped it. A resumed run
\* fails when it was given one decision for two calls.
Fail ==
    /\ run \notin {"none", "end"}
    /\ run' = "none" /\ writing' = <<>> /\ decision' = None
    /\ Send(<<Event("error", <<>>)>>)
    /\ doubt' = doubt \cup {"subagents"} \cup (IF asks # {} THEN {"approval"} ELSE {})
                     \cup (IF writing # <<>> THEN {"messages"} ELSE {})
    /\ UNCHANGED <<saved, asks, made, loading, streamed, tracked, active, queued, thread,
                   mounted, loads, moves>>

-----------------------------------------------------------------------------
\* The client processes an event.
Incoming(kind) == loading /\ wire # <<>> /\ Head(wire).kind = kind

\* "messages": an answer (with its calls) or a tool's result joins the stream's
\* messages. The calls are tracked for approvals; a task becomes a running
\* subagent, its result completes it (processCompletedToolCalls,
\* processToolMessage).
MessageEvent ==
    LET msgs == Head(wire).msgs
        m == Head(msgs)
        started == {c \in CallsOf(m, "task") : \A s \in {"running", "completed"} : <<c, s>> \notin active}
        finished == {c \in Ids(msgs) : m.role = "tool" /\ <<c, "running">> \in active}
        now == ({p \in active : p[1] \notin finished} \cup {<<c, "running">> : c \in started})
                   \cup {<<c, "completed">> : c \in finished}
    IN  /\ Incoming("messages")
        /\ wire' = Tail(wire)
        /\ streamed' = AppendAll(streamed, msgs)
        /\ tracked' = IF CallsOf(m, "execute") = {} THEN tracked ELSE LastCall(m)
        /\ active' = now
        /\ subagents' = IF started \cup finished = {} THEN subagents ELSE now
        /\ UNCHANGED <<server, loading, queued, local, pending, mounted, loads, doubt, moves>>

\* Mutant: the user's messages are not filtered out.
transformedMessagesOfAll(msgs) == msgs

transformedMessages(msgs) == Keeping(msgs, {m \in ToSet(msgs) : m.role # "user"})

\* "values": all but the user's messages replace the stream's; tasks and their
\* results are found in them.
ValuesEvent ==
    LET all == Head(wire).msgs
        transformed == transformedMessages(all)
        known == {p[1] : p \in active} \cup CallsIn(all, "task")
        now == {<<c, IF c \in Ids(all) \/ <<c, "completed">> \in active THEN "completed" ELSE "running">>
                    : c \in known}
    IN  /\ Incoming("values")
        /\ wire' = Tail(wire)
        /\ streamed' = IF transformed = <<>> THEN streamed ELSE transformed
        /\ active' = now
        /\ subagents' = IF now = {} THEN subagents ELSE now
        /\ doubt' = doubt \ {"subagents"}
        /\ UNCHANGED <<server, loading, tracked, queued, local, pending, mounted, loads, moves>>

\* An interrupt asks about the last tracked call of the tool's name.
InterruptEvent ==
    /\ Incoming("interrupt")
    /\ wire' = Tail(wire)
    /\ pending' = tracked
    /\ UNCHANGED <<server, loading, streamed, tracked, active, queued, local, subagents, mounted,
                   loads, doubt, moves>>

\* A submit opens a stream: the transport forgets what it has tracked, and the
\* server replaces whatever still runs for the thread.
Open(what, told, msgs) ==
    /\ loading' = TRUE /\ wire' = <<>> /\ tracked' = None /\ active' = {}
    /\ run' = what /\ decision' = told /\ writing' = msgs

\* The stream is over: a chat on the screen copies its messages into the
\* thread's. A queued decision opens the next one at once, and the chat may
\* not have seen the pause.
StreamEnds ==
    /\ \E seen \in BOOLEAN :
        /\ mounted /\ queued = None => seen
        /\ ~mounted => ~seen
        /\ local' = IF seen THEN AppendAll(local, streamed) ELSE local
    /\ queued' = None
    /\ IF queued # None THEN Open("resume", queued, <<>>)
       ELSE /\ loading' = FALSE /\ wire' = <<>>
            /\ UNCHANGED <<tracked, active, run, decision, writing>>

DoneOrError ==
    /\ Incoming("done") \/ Incoming("error")
    /\ StreamEnds
    /\ UNCHANGED <<saved, asks, made, streamed, pending, subagents, mounted, loads, doubt, moves>>

-----------------------------------------------------------------------------
\* The user sends, decides, stops, goes to another thread and comes back.
Move == moves < MaxMoves /\ moves' = moves + 1

\* Mutant: the approval stays on the screen.
ApprovalNotCleared == UNCHANGED pending

\* A message sent instead of a decision, and a decision, remove the buttons.
ApprovalCleared == pending' = None

\* handleSubmit.
Submit ==
    LET n == made + 1
    IN  /\ mounted /\ ~loading /\ made < MaxMessages
        /\ made' = n
        /\ ApprovalCleared
        /\ local' = Append(local, Message(<<n, -1>>, "user", <<>>))
        /\ Open("begin", None, <<Message(<<n, 0>>, "user", <<>>)>>)
        /\ doubt' = IF Ids(streamed) \subseteq Ids(local) THEN doubt ELSE doubt \cup {"messages"}
        /\ UNCHANGED <<saved, asks, streamed, queued, subagents, mounted, loads, moves>>

\* The call the user may decide about: a restored approval has none.
Offered == IF pending = Unmatched THEN None ELSE pending

\* The buttons of a call: the calls with the approval's id. (The code falls back
\* on the name for an approval without an id, but every approval has one.)
NeedsApproval(call) == Offered # None /\ Offered = call

OfferedOnScreen == {c \in CallsIn(displayMessages, "execute") : NeedsApproval(c)}

\* handleApprovalDecision; with a stream still open, useStream waits for its end.
Decide(d) ==
    /\ mounted /\ OfferedOnScreen # {}
    /\ ApprovalCleared
    /\ IF loading
       THEN queued' = d /\ UNCHANGED <<server, wire, loading, tracked, active>>
       ELSE /\ Open("resume", d, <<>>)
            /\ UNCHANGED <<saved, asks, made, queued>>
    /\ UNCHANGED <<streamed, local, subagents, mounted, loads, doubt, moves>>

\* handleCancel: what is on the wire is lost, and the run goes on for a while.
Stop ==
    LET cut == run # "none" \/ \E i \in DOMAIN wire : wire[i].kind # "done"
    IN  /\ mounted /\ loading /\ Move
        /\ StreamEnds
        /\ doubt' = IF cut THEN Aspects ELSE doubt
        /\ UNCHANGED <<saved, asks, made, streamed, pending, subagents, mounted, loads>>

Leave ==
    /\ mounted /\ Move
    /\ mounted' = FALSE
    /\ UNCHANGED <<server, stream, thread, loads, doubt>>

\* The chat comes back and reloads the history. A ChatContainer that showed
\* another thread meanwhile may take that thread's loading for this one's.
Return ==
    /\ ~mounted /\ Move
    /\ mounted' = TRUE
    /\ Len(loads) < 2 /\ loads' = Append(loads, -1)
    /\ \E carried \in BOOLEAN :
        local' = IF carried /\ ~loading THEN AppendAll(local, streamed) ELSE local
    /\ UNCHANGED <<server, stream, pending, subagents, doubt>>

\* The page is loaded anew; the first chat loads the history twice
\* (useCurrentThread and reloadThread).
Reload ==
    /\ Move
    /\ loading' = FALSE /\ wire' = <<>> /\ streamed' = <<>> /\ tracked' = None
    /\ active' = {} /\ queued' = None
    /\ local' = <<>> /\ pending' = None /\ subagents' = {}
    /\ mounted' = TRUE /\ loads' = <<-1, -1>>
    /\ doubt' = Aspects
    /\ UNCHANGED server

\* loadThreadHistory: the request reads the latest checkpoint.
ReadHistory(i) ==
    /\ loads[i] = -1
    /\ loads' = [loads EXCEPT ![i] = Len(saved)]
    /\ UNCHANGED <<server, stream, thread, mounted, doubt, moves>>

\* The checkpoint of n messages ends with calls that interrupted the run.
Interrupted(n) == n > 0 /\ CallsOf(saved[n], "execute") # {}

\* Its answer replaces the thread's messages. It leaves the display behind when
\* messages saved since then will not come from the stream: the user's own, and
\* all of a run this client does not read. A complete answer repairs it. An
\* interrupt in the checkpoint restores an approval, under a random id and in
\* place of the one there is; whether LangGraph leaves the interrupt among the
\* channel values the code looks at is not this code's.
HistoryAnswer(i) ==
    LET n == loads[i]
        brought == Ids(streamed) \cup UNION {Ids(wire[k].msgs) : k \in DOMAIN wire}
        missed == {k \in n+1..Len(saved) :
                      saved[k].role = "user" \/ saved[k].id \notin brought}
        complete == /\ n = Len(saved) /\ writing = <<>> /\ (run = "none" \/ loading)
                    /\ brought \subseteq Ids(saved)
                    /\ n > 0 \/ displayMessages = <<>>
        behind == IF complete THEN doubt \ {"messages"}
                  ELSE IF n > 0 /\ (missed # {} \/ \E k \in DOMAIN writing : writing[k].role = "user")
                  THEN doubt \cup {"messages"} ELSE doubt
    IN  /\ n # -1
        /\ loads' = RemoveAt(loads, i)
        /\ local' = IF n > 0 THEN SubSeq(saved, 1, n) ELSE local
        /\ pending' = pending \/ (Interrupted(n) /\ pending' = Unmatched)
        /\ doubt' = behind \cup (IF Offered' = Offered THEN {} ELSE {"approval"})
        /\ UNCHANGED <<server, stream, subagents, mounted, moves>>

HistoryFails(i) ==
    /\ loads' = RemoveAt(loads, i)
    /\ UNCHANGED <<server, stream, thread, mounted, doubt, moves>>

Init ==
    /\ saved = <<>> /\ asks = {} /\ run = "none" /\ writing = <<>> /\ decision = None /\ made = 0
    /\ wire = <<>> /\ loading = FALSE /\ streamed = <<>> /\ tracked = None /\ active = {}
    /\ queued = None
    /\ local = <<>> /\ pending = None /\ subagents = {}
    /\ mounted = TRUE /\ loads = <<-1, -1>> /\ doubt = {} /\ moves = 0

Next ==
    \/ Begin \/ SaveAnswer \/ SaveResults \/ Resume \/ End \/ Fail
    \/ \E plan \in Plans : Answer(plan)
    \/ \E c \in CallsIn(saved, "execute") \cup CallsIn(saved, "task") : RunTool(c)
    \/ MessageEvent \/ ValuesEvent \/ InterruptEvent \/ DoneOrError
    \/ Submit \/ \E d \in Decisions : Decide(d)
    \/ Stop \/ Leave \/ Return \/ Reload
    \/ \E i \in DOMAIN loads : ReadHistory(i) \/ HistoryAnswer(i) \/ HistoryFails(i)

Spec == Init /\ [][Next]_vars

-----------------------------------------------------------------------------
MessageIds == (1..MaxMessages) \X Int

Messages(roles) == [id : MessageIds, role : roles, calls : Plans \cup {<<>>}]

TypeOK ==
    /\ {saved, writing, local} \subseteq Seq(Messages({"user", "assistant", "tool"}))
    /\ streamed \in Seq(Messages({"assistant", "tool"}))
    /\ asks \subseteq MessageIds /\ tracked \in MessageIds \cup {None}
    /\ pending \in MessageIds \cup {None, Unmatched}
    /\ run \in {"none", "begin", "model", "tools", "resume", "end"}
    /\ {decision, queued} \subseteq Decisions \cup {None}
    /\ made \in 0..MaxMessages /\ moves \in 0..MaxMoves
    /\ \A i \in DOMAIN wire : wire[i].kind \in {"messages", "values", "interrupt", "done", "error"}
    /\ {loading, mounted} \subseteq BOOLEAN /\ doubt \subseteq Aspects
    /\ active \cup subagents \subseteq MessageIds \X {"running", "completed"}
    /\ loads \in Seq(Nat \cup {-1})

\* What the user sees of messages: whose turn it is; results are shown with their calls.
Seen(s) == LET shown == Keeping(s, {m \in ToSet(s) : m.role # "tool"})
           IN  [i \in DOMAIN shown |-> <<shown[i].id[1], shown[i].role>>]

Results(s) == {s[i].id : i \in {j \in DOMAIN s : s[j].role = "tool"}}

\* The chat shows the agent's conversation: never anything else than a beginning
\* of what was written, in its order, each message once; when the agent rests all
\* of it, with every result, and no subagent running that has a result. This is
\* so whatever history loads answer late, whether or not the chat was on the
\* screen; only a message left half-written, a reloaded page, a message sent
\* before the chat has caught up, or a history older than the user's last message
\* leaves it in doubt, until a complete history is loaded.
ConversationIsShown ==
    LET written == saved \o writing
    IN  /\ "messages" \notin doubt =>
            /\ IsPrefix(Seen(displayMessages), Seen(written))
            /\ Results(displayMessages) \subseteq Results(written)
            /\ ~loading /\ run = "none" =>
                Seen(displayMessages) = Seen(written) /\ Results(displayMessages) = Results(written)
        /\ "subagents" \notin doubt /\ ~loading /\ run = "none" =>
                \A c \in Results(saved) : <<c, "running">> \notin subagents

\* Nobody waits for ever: when the agent waits for a decision and the stream is
\* over, the user sees the buttons of a call it waits for, whatever was loaded,
\* left and returned to meanwhile. Only a stop, an error, a reloaded page or an
\* approval restored in place of theirs may have taken them away.
ApprovalIsOffered ==
    (asks # {} /\ ~loading /\ run = "none" /\ "approval" \notin doubt) => OfferedOnScreen # {}

\* Human in the loop: see ApprovalProtocol.
Approval == INSTANCE ApprovalProtocol WITH
    Calls <- MessageIds,
    offered <- Offered,
    answer <- IF queued # None THEN queued ELSE decision

ApprovalIsKept == Approval!Spec
=============================================================================
