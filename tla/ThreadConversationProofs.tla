----------------------- MODULE ThreadConversationProofs -----------------------
(***************************************************************************)
(* Proofs about ThreadConversation, for any plans and any bounds: the      *)
(* approval the user sees implements ApprovalProtocol, and no question is  *)
(* lost between the agent and the client.                                  *)
(*                                                                         *)
(* First the way of a question: the run that asks, the wire, the calls     *)
(* that the transport tracks, the approval and the answer. Then what the   *)
(* chat shows (displayMessages), which filters and folds over sequences    *)
(* make of the messages: the types of all messages; that the message with  *)
(* the call of a pending approval is displayed; the order of the           *)
(* conversation, which the stream and the thread's own list follow;        *)
(* subagents; and so that the chat shows the conversation.                 *)
(***************************************************************************)
EXTENDS ThreadConversation, SeqFilterProofs, FiniteSetTheorems, SequenceTheorems,
        NaturalsInduction, WellFoundedInduction, TLAPS

\* An answer with a call of execute: it changes what the transport tracks.
TracksCall(e) == e.kind = "messages" /\ CallsOf(Head(e.msgs), "execute") # {}

AnswerOf(e) == LastCall(Head(e.msgs))

Tracking == {i \in DOMAIN wire : TracksCall(wire[i])}

Interrupts == {i \in DOMAIN wire : wire[i].kind = "interrupt"}

IsSequence(s) == s \in Seq({s[i] : i \in DOMAIN s})

ProtocolTypes ==
    /\ IsSequence(wire) /\ loading \in BOOLEAN
    /\ run \in {"none", "begin", "model", "tools", "resume", "end"}
    /\ decision \in Decisions \cup {None} /\ queued \in Decisions \cup {None}
    /\ made \in Nat /\ asks \subseteq MessageIds /\ IsFiniteSet(asks)

\* Nothing is under way between a client without a stream and the server.
ClosedIsQuiet == ~loading => wire = <<>> /\ queued = None

\* A decision is with the server exactly while a run waits to resume with it.
DecisionIsResumed == decision # None <=> run = "resume"

\* A run that has not begun has sent nothing, and no question is open.
RunStartsQuiet == run \in {"begin", "resume"} => wire = <<>> /\ Offered = None /\ queued = None

\* A run that writes asks nothing.
WriterDoesNotAsk == run \in {"model", "tools"} => asks = {}

\* An approval on the screen, or a decision about it that waits, is that of a
\* run that has ended, and no other question is on its way.
OneQuestion ==
    /\ Offered # None => Offered \in asks
    /\ Offered # None \/ queued # None => run \in {"end", "none"} /\ Interrupts = {}
    /\ Offered = None \/ queued = None

\* What the model has streamed is one answer.
OneAnswer ==
    run = "model" /\ writing # <<>> =>
        \E plan \in Plans, n \in 1..MaxMessages : writing = <<Message(<<n, 0>>, "assistant", plan)>>

\* Only the answer being written can be about to change the tracked call, and
\* when it asks for approval, its last call is tracked or about to be.
AnswerIsTracked ==
    /\ run \in {"begin", "resume", "tools"} \/ (run = "model" /\ writing = <<>>) => Tracking = {}
    /\ run = "model" /\ writing # <<>> /\ loading =>
        /\ \A i \in Tracking : AnswerOf(wire[i]) \in CallsIn(writing, "execute")
        /\ CallsIn(writing, "execute") # {} =>
              tracked \in CallsIn(writing, "execute") \/ Tracking # {}

\* An interrupt on the wire comes alone, from a run that has ended, and after
\* the answer it is about: when it is processed, the tracked call is asked for.
InterruptIsTracked ==
    /\ Interrupts # {} => run \in {"end", "none"}
    /\ \A k \in Interrupts :
        /\ Interrupts = {k}
        /\ \A i \in Tracking : i < k => AnswerOf(wire[i]) \in asks
        /\ tracked \in asks \/ \E i \in Tracking : i < k

\* The inductive invariant of the protocol.
ProtocolInv ==
    /\ ProtocolTypes /\ ClosedIsQuiet /\ DecisionIsResumed /\ RunStartsQuiet /\ WriterDoesNotAsk
    /\ OneQuestion /\ OneAnswer /\ AnswerIsTracked /\ InterruptIsTracked

-----------------------------------------------------------------------------
\* An agent that runs on without this client, or whose stream has lost the end,
\* is in doubt; the end of a stream comes last.
EndComesLast ==
    /\ ~loading /\ run # "none" => "approval" \in doubt
    /\ \A i \in DOMAIN wire : wire[i].kind \in {"done", "error"} => run = "none" /\ i = Len(wire)

\* Where a question that is not in doubt is: on the screen, answered, about to
\* be given up, or on the wire.
QuestionIsSomewhere ==
    asks # {} /\ "approval" \notin doubt =>
        \/ Offered \in asks
        \/ queued # None
        \/ run \in {"begin", "resume"}
        \/ Interrupts # {}

\* When the agent waits for a decision and the stream is over, the approval is
\* offered, unless a stop, an error, a reloaded page or a restored approval may
\* have taken it away.
ApprovalIsPending ==
    (asks # {} /\ ~loading /\ run = "none" /\ "approval" \notin doubt) => Offered \in asks

QuestionInv == ProtocolInv /\ EndComesLast /\ QuestionIsSomewhere

-----------------------------------------------------------------------------
\* Sequences.
LEMMA Singleton ==
    ASSUME NEW e
    PROVE  IsSequence(<<e>>) /\ Len(<<e>>) = 1 /\ DOMAIN <<e>> = {1} /\ <<e>>[1] = e /\ Head(<<e>>) = e
BY DEF IsSequence

LEMMA Empty == IsSequence(<<>>) /\ Len(<<>>) = 0 /\ DOMAIN <<>> = {}
BY DEF IsSequence

LEMMA IsSequenceOf ==
    ASSUME NEW S, NEW s \in Seq(S)
    PROVE  IsSequence(s) /\ DOMAIN s = 1..Len(s) /\ Len(s) \in Nat
<1>1. Len(s) \in Nat /\ DOMAIN s = 1..Len(s)
    OBVIOUS
<1> DEFINE T == {s[i] : i \in DOMAIN s}
<1>2. \A i \in 1..Len(s) : s[i] \in T
    BY <1>1
<1> HIDE DEF T
<1>3. s \in Seq(T)
    BY <1>1, <1>2
<1> QED BY <1>1, <1>3 DEF T, IsSequence

LEMMA SequenceDomain ==
    ASSUME NEW s, IsSequence(s)
    PROVE  DOMAIN s = 1..Len(s) /\ Len(s) \in Nat
BY DEF IsSequence

LEMMA Concatenation ==
    ASSUME NEW s, NEW t, IsSequence(s), IsSequence(t)
    PROVE  /\ IsSequence(s \o t) /\ Len(s \o t) = Len(s) + Len(t)
           /\ DOMAIN (s \o t) = 1..Len(s) + Len(t)
           /\ \A i \in 1..Len(s) : (s \o t)[i] = s[i]
           /\ \A i \in 1..Len(t) : (s \o t)[Len(s) + i] = t[i]
           /\ \A i \in DOMAIN (s \o t) : i \in 1..Len(s) \/ i - Len(s) \in 1..Len(t)
<1> DEFINE S == {s[i] : i \in DOMAIN s}
           T == {t[i] : i \in DOMAIN t}
           U == S \cup T
<1>1. s \in Seq(S) /\ t \in Seq(T)
    BY DEF IsSequence
<1>2. S \subseteq U /\ T \subseteq U
    OBVIOUS
<1> HIDE DEF S, T, U
<1>3. s \in Seq(U) /\ t \in Seq(U)
    BY <1>1, <1>2
<1>4. s \o t \in Seq(U)
    BY <1>3
<1>5. /\ Len(s \o t) = Len(s) + Len(t) /\ Len(s) \in Nat /\ Len(t) \in Nat
      /\ \A i \in 1..Len(s) : (s \o t)[i] = s[i]
      /\ \A i \in 1..Len(t) : (s \o t)[Len(s) + i] = t[i]
    BY <1>3
<1>6. IsSequence(s \o t) /\ DOMAIN (s \o t) = 1..Len(s) + Len(t)
    BY <1>4, <1>5, IsSequenceOf
<1>7. \A i \in 1..Len(s) + Len(t) : i \in 1..Len(s) \/ i - Len(s) \in 1..Len(t)
    BY <1>5
<1> QED BY <1>5, <1>6, <1>7

LEMMA RestOf ==
    ASSUME NEW s, IsSequence(s), s # <<>>
    PROVE  /\ IsSequence(Tail(s)) /\ Len(s) \in Nat \ {0} /\ Len(Tail(s)) = Len(s) - 1
           /\ DOMAIN s = 1..Len(s) /\ DOMAIN Tail(s) = 1..Len(s) - 1
           /\ Head(s) = s[1] /\ \A i \in 1..Len(s) - 1 : Tail(s)[i] = s[i + 1]
<1> DEFINE S == {s[i] : i \in DOMAIN s}
<1>1. s \in Seq(S)
    BY DEF IsSequence
<1> HIDE DEF S
<1>2. /\ Tail(s) \in Seq(S) /\ Len(s) \in Nat \ {0} /\ Len(Tail(s)) = Len(s) - 1
      /\ Head(s) = s[1] /\ \A i \in 1..Len(s) - 1 : Tail(s)[i] = s[i + 1]
    BY <1>1
<1>3. IsSequence(Tail(s)) /\ DOMAIN Tail(s) = 1..Len(s) - 1 /\ DOMAIN s = 1..Len(s)
    BY <1>1, <1>2, IsSequenceOf
<1> QED BY <1>2, <1>3

-----------------------------------------------------------------------------
\* The wire.
TypedWire == IsSequence(wire) /\ loading \in BOOLEAN /\ (~loading => wire = <<>>)

\* Events that neither ask nor are tracked leave the ones that do where they are.
LEMMA QuietSend ==
    ASSUME TypedWire, NEW events, IsSequence(events), Send(events), UNCHANGED loading,
           \A i \in DOMAIN events : events[i].kind # "interrupt" /\ ~TracksCall(events[i])
    PROVE  /\ TypedWire' /\ Tracking' = Tracking /\ Interrupts' = Interrupts
           /\ \A i \in Tracking : wire'[i] = wire[i]
<1>1. CASE loading
    <2>1. wire' = wire \o events
        BY <1>1 DEF Send
    <2>2. TypedWire'
        BY <2>1, <1>1, Concatenation DEF TypedWire
    <2>3. /\ DOMAIN wire = 1..Len(wire) /\ Len(wire) \in Nat
          /\ DOMAIN events = 1..Len(events) /\ Len(events) \in Nat
        BY SequenceDomain DEF TypedWire
    <2>4. /\ DOMAIN wire' = 1..Len(wire) + Len(events)
          /\ \A i \in 1..Len(wire) : wire'[i] = wire[i]
          /\ \A i \in 1..Len(events) : wire'[Len(wire) + i] = events[i]
        BY <2>1, Concatenation DEF TypedWire
    <2>5. \A i \in DOMAIN wire' : i \in DOMAIN wire
                \/ (wire'[i].kind # "interrupt" /\ ~TracksCall(wire'[i]))
        <3> SUFFICES ASSUME NEW i \in DOMAIN wire', i \notin DOMAIN wire
                     PROVE  wire'[i].kind # "interrupt" /\ ~TracksCall(wire'[i])
            OBVIOUS
        <3>1. i - Len(wire) \in 1..Len(events) /\ i = Len(wire) + (i - Len(wire))
            BY <2>3, <2>4
        <3>2. wire'[i] = events[i - Len(wire)]
            BY <3>1, <2>4
        <3> QED BY <3>1, <3>2, <2>3
    <2>6. DOMAIN wire \subseteq DOMAIN wire' /\ \A i \in DOMAIN wire : wire'[i] = wire[i]
        BY <2>3, <2>4
    <2> QED BY <2>2, <2>5, <2>6 DEF Tracking, Interrupts
<1>2. CASE ~loading
    <2>1. wire' = wire
        BY <1>2 DEF Send
    <2> QED BY <2>1 DEF TypedWire, Tracking, Interrupts
<1> QED BY <1>1, <1>2

\* The first event is processed.
LEMMA Processing ==
    ASSUME TypedWire, loading, wire # <<>>, wire' = Tail(wire), loading' = loading
    PROVE  /\ TypedWire' /\ 1 \in DOMAIN wire /\ Head(wire) = wire[1]
           /\ \A i \in Tracking' : i \in Nat /\ i + 1 \in Tracking /\ wire'[i] = wire[i + 1]
           /\ \A i \in Tracking : i \in Nat /\ (i = 1 \/ i - 1 \in Tracking')
           /\ \A i \in Interrupts' : i \in Nat \ {0} /\ i + 1 \in Interrupts
           /\ \A i \in Interrupts : i \in Nat /\ (i = 1 \/ i - 1 \in Interrupts')
<1>1. /\ IsSequence(wire') /\ Len(wire) \in Nat \ {0} /\ Head(wire) = wire[1]
      /\ DOMAIN wire = 1..Len(wire) /\ DOMAIN wire' = 1..Len(wire) - 1
      /\ \A i \in 1..Len(wire) - 1 : wire'[i] = wire[i + 1]
    BY RestOf DEF TypedWire
<1>2. TypedWire'
    BY <1>1 DEF TypedWire
<1>3. \A i \in DOMAIN wire' : i \in Nat \ {0} /\ i + 1 \in DOMAIN wire /\ wire'[i] = wire[i + 1]
    BY <1>1
<1>4. \A i \in DOMAIN wire : i \in Nat /\ (i = 1 \/ (i - 1 \in DOMAIN wire' /\ wire'[i - 1] = wire[i]))
    <2> SUFFICES ASSUME NEW i \in DOMAIN wire, i # 1
                 PROVE  i \in Nat /\ i - 1 \in DOMAIN wire' /\ wire'[i - 1] = wire[i]
        BY <1>1
    <2>1. i \in Nat /\ i - 1 \in 1..Len(wire) - 1 /\ (i - 1) + 1 = i
        BY <1>1
    <2> QED BY <2>1, <1>1
<1>5. 1 \in DOMAIN wire
    BY <1>1
<1> QED BY <1>1, <1>2, <1>3, <1>4, <1>5 DEF Tracking, Interrupts

LEMMA NothingOnWire == wire = <<>> => Tracking = {} /\ Interrupts = {}
BY Empty DEF Tracking, Interrupts

-----------------------------------------------------------------------------
\* The agent's steps.
LEMMA TypedWireHolds == ProtocolTypes /\ ClosedIsQuiet => TypedWire
BY DEF ProtocolTypes, ClosedIsQuiet, TypedWire

LEMMA ValuesAreQuiet ==
    ASSUME NEW msgs
    PROVE  /\ IsSequence(<<Event("values", msgs)>>)
           /\ \A i \in DOMAIN <<Event("values", msgs)>> :
                /\ <<Event("values", msgs)>>[i].kind = "values"
                /\ ~TracksCall(<<Event("values", msgs)>>[i])
<1> DEFINE e == Event("values", msgs)
<1>1. e.kind = "values"
    BY DEF Event
<1> HIDE DEF e
<1>2. ~TracksCall(e)
    BY <1>1 DEF TracksCall
<1> QED BY <1>1, <1>2, Singleton DEF e

LEMMA ResultsAreQuiet ==
    ASSUME NEW call
    PROVE  ~TracksCall(Event("messages", <<ToolResult(call)>>))
<1>1. CallsOf(ToolResult(call), "execute") = {}
    BY DEF ToolResult, Message, CallsOf
<1>2. Head(Event("messages", <<ToolResult(call)>>).msgs) = ToolResult(call)
    BY Singleton DEF Event
<1> QED BY <1>1, <1>2 DEF TracksCall

LEMMA BeginKeeps ==
    ASSUME ProtocolInv, Begin
    PROVE  ProtocolInv'
<1>1. TypedWire
    BY TypedWireHolds DEF ProtocolInv
<1>2. /\ TypedWire' /\ Tracking' = Tracking /\ Interrupts' = Interrupts
      /\ \A i \in Tracking : wire'[i] = wire[i]
    BY <1>1, ValuesAreQuiet, QuietSend DEF Begin
<1>3. Tracking = {} /\ Interrupts = {}
    BY NothingOnWire DEF ProtocolInv, RunStartsQuiet, Begin
<1>4. ProtocolTypes' /\ ClosedIsQuiet'
    BY <1>2, FS_EmptySet DEF ProtocolInv, ProtocolTypes, ClosedIsQuiet, TypedWire, Begin, MessageIds
<1>5. DecisionIsResumed' /\ RunStartsQuiet' /\ WriterDoesNotAsk' /\ OneQuestion' /\ OneAnswer'
    BY <1>2, <1>3 DEF ProtocolInv, DecisionIsResumed, RunStartsQuiet, WriterDoesNotAsk, OneQuestion,
           OneAnswer, Begin, thread, Offered
<1>6. AnswerIsTracked' /\ InterruptIsTracked'
    BY <1>2, <1>3 DEF AnswerIsTracked, InterruptIsTracked, Begin
<1> QED BY <1>4, <1>5, <1>6 DEF ProtocolInv

\* The last call of an answer is one of its calls.
LEMMA LastCallIsACall ==
    ASSUME NEW plan \in Plans, NEW id, NEW role,
           CallsOf(Message(id, role, plan), "execute") # {}
    PROVE  LastCall(Message(id, role, plan)) \in CallsOf(Message(id, role, plan), "execute")
<1> DEFINE J == {j \in DOMAIN plan : plan[j] = "execute"}
           C == CallsOf(Message(id, role, plan), "execute")
           S == {Len(plan) - j : j \in J}
<1>1. plan \in Seq({"execute", "task"})
    BY ConversationAssumption
<1>2. Len(plan) \in Nat /\ DOMAIN plan = 1..Len(plan)
    BY <1>1
<1>3. C = {<<id[1], j>> : j \in J}
    BY DEF CallsOf, Message
<1>4. J # {} /\ J \subseteq 1..Len(plan)
    BY <1>2, <1>3
<1> HIDE DEF J, C
<1>5. \A j \in J : j \in Nat /\ Len(plan) - j \in Nat
    BY <1>2, <1>4
<1>6. S \in SUBSET Nat /\ S # {}
    BY <1>4, <1>5
<1>7. PICK k \in J : \A n \in S : Len(plan) - k <= n
    <2> HIDE DEF S
    <2>1. PICK m \in S : \A n \in S : m <= n
        BY <1>6, LeastNumber
    <2> QED BY <2>1 DEF S
<1>8. \A j \in J : j <= k
    <2> SUFFICES ASSUME NEW j \in J PROVE j <= k
        OBVIOUS
    <2>1. Len(plan) - k <= Len(plan) - j
        BY <1>7
    <2> QED BY <2>1, <1>2, <1>5
<1>9. <<id[1], k>> \in C /\ \A d \in C : d[2] <= <<id[1], k>>[2]
    BY <1>3, <1>7, <1>8
<1> QED BY <1>9 DEF LastCall, C

LEMMA AnswerKeeps ==
    ASSUME ProtocolInv, NEW plan \in Plans, Answer(plan)
    PROVE  ProtocolInv'
<1> DEFINE m == Message(<<made + 1, 0>>, "assistant", plan)
           e == Event("messages", <<m>>)
           n == Len(wire) + 1
<1>1. TypedWire
    BY TypedWireHolds DEF ProtocolInv
<1>2. /\ run = "model" /\ writing = <<>> /\ writing' = <<m>> /\ Send(<<e>>)
      /\ UNCHANGED <<run, asks, decision, loading, tracked, queued, Offered>>
      /\ made' = made + 1 /\ made < MaxMessages /\ made \in Nat
    BY DEF Answer, thread, ProtocolInv, ProtocolTypes, Offered
<1>3. Head(e.msgs) = m /\ e.kind = "messages"
    BY Singleton DEF Event
<1>4. CallsIn(writing', "execute") = CallsOf(m, "execute")
    <2>1. DOMAIN <<m>> = {1} /\ <<m>>[1] = m
        BY Singleton
    <2> HIDE DEF m
    <2> QED BY <1>2, <2>1 DEF CallsIn
<1>5. TracksCall(e) => AnswerOf(e) \in CallsIn(writing', "execute")
    BY <1>3, <1>4, LastCallIsACall DEF TracksCall, AnswerOf
<1>6. CallsIn(writing', "execute") # {} => TracksCall(e)
    BY <1>3, <1>4 DEF TracksCall
<1>7. writing' # <<>> /\ \E p \in Plans, k \in 1..MaxMessages : writing' = <<Message(<<k, 0>>, "assistant", p)>>
    <2>1. made + 1 \in 1..MaxMessages
        BY <1>2, ConversationAssumption
    <2> QED BY <1>2, <2>1
<1> HIDE DEF m, e
<1>8. Tracking = {} /\ Interrupts = {}
    BY <1>2 DEF ProtocolInv, AnswerIsTracked, InterruptIsTracked
<1>9. CASE loading
    <2>1. wire' = wire \o <<e>>
        BY <1>2, <1>9 DEF Send
    <2>2. /\ IsSequence(wire') /\ Len(wire) \in Nat /\ DOMAIN wire = 1..Len(wire) /\ DOMAIN wire' = 1..n
          /\ \A i \in 1..Len(wire) : wire'[i] = wire[i]
          /\ wire'[n] = e
        BY <1>1, <2>1, Concatenation, Singleton, SequenceDomain DEF TypedWire
    <2>3. Tracking' \subseteq {n} /\ wire'[n] = e /\ (TracksCall(e) => n \in Tracking')
        BY <2>2, <1>8 DEF Tracking
    <2>4. Interrupts' = {}
        BY <2>2, <1>8, <1>3 DEF Interrupts
    <2>5. TypedWire'
        BY <1>1, <1>2, <1>9, <2>2 DEF TypedWire
    <2>6. \A i \in Tracking' : AnswerOf(wire'[i]) \in CallsIn(writing', "execute")
        BY <2>3, <1>5 DEF Tracking
    <2>7. CallsIn(writing', "execute") # {} => Tracking' # {}
        BY <2>3, <1>6
    <2> QED BY <2>4, <2>5, <2>6, <2>7, <1>2, <1>7
            DEF ProtocolInv, ProtocolTypes, ClosedIsQuiet, TypedWire, DecisionIsResumed, RunStartsQuiet,
                WriterDoesNotAsk, OneQuestion, OneAnswer, AnswerIsTracked, InterruptIsTracked
<1>10. CASE ~loading
    <2>1. wire' = wire
        BY <1>2, <1>10 DEF Send
    <2>2. Tracking' = {} /\ Interrupts' = {}
        BY <1>8, <2>1 DEF Tracking, Interrupts
    <2> QED BY <2>1, <2>2, <1>2, <1>7, <1>10
            DEF ProtocolInv, ProtocolTypes, ClosedIsQuiet, TypedWire, DecisionIsResumed, RunStartsQuiet,
                WriterDoesNotAsk, OneQuestion, OneAnswer, AnswerIsTracked, InterruptIsTracked
<1> QED BY <1>9, <1>10

\* What an answer asks for is a finite set of calls.
LEMMA AsksOfAnswer ==
    ASSUME OneAnswer, run = "model", writing # <<>>
    PROVE  CallsIn(writing, "execute") \subseteq MessageIds /\ IsFiniteSet(CallsIn(writing, "execute"))
<1>1. PICK plan \in Plans, n \in 1..MaxMessages : writing = <<Message(<<n, 0>>, "assistant", plan)>>
    BY DEF OneAnswer
<1> DEFINE m == Message(<<n, 0>>, "assistant", plan)
<1>2. DOMAIN writing = {1} /\ writing[1] = m
    BY <1>1, Singleton
<1>3. CallsIn(writing, "execute") = CallsOf(m, "execute")
    <2> HIDE DEF m
    <2> QED BY <1>2 DEF CallsIn
<1>4. plan \in Seq({"execute", "task"})
    BY ConversationAssumption
<1>5. DOMAIN m.calls \subseteq Int /\ m.id[1] = n
    BY <1>4 DEF Message
<1>6. CallsOf(m, "execute") \subseteq MessageIds
    BY <1>5 DEF CallsOf, MessageIds
<1>7. IsFiniteSet(CallsOf(m, "execute"))
    <2> DEFINE J == {j \in DOMAIN plan : plan[j] = "execute"}
               f == [j \in J |-> <<n, j>>]
    <2>1. J \subseteq 1..Len(plan) /\ Len(plan) \in Nat
        BY <1>4
    <2>2. IsFiniteSet(J)
        BY <2>1, FS_Interval, FS_Subset
    <2>3. CallsOf(m, "execute") = {<<n, j>> : j \in J}
        BY DEF CallsOf, Message
    <2> HIDE DEF J, m
    <2>4. f \in Surjection(J, CallsOf(m, "execute"))
        BY <2>3 DEF Surjection
    <2> QED BY <2>2, <2>4, FS_Surjection
<1> QED BY <1>3, <1>6, <1>7

LEMMA SaveAnswerKeeps ==
    ASSUME ProtocolInv, SaveAnswer
    PROVE  ProtocolInv'
<1> DEFINE v == Event("values", saved')
           q == Event("interrupt", <<>>)
           n == Len(wire) + 2
<1>1. TypedWire
    BY TypedWireHolds DEF ProtocolInv
<1>2. /\ run = "model" /\ writing # <<>> /\ writing' = <<>> /\ asks' = CallsIn(writing, "execute")
      /\ UNCHANGED <<decision, loading, tracked, queued, Offered, made>>
      /\ run' \in {"end", "tools"} /\ (asks' # {} => run' = "end")
    BY DEF SaveAnswer, thread, Offered
<1>3. asks' \subseteq MessageIds /\ IsFiniteSet(asks')
    BY <1>2, AsksOfAnswer DEF ProtocolInv
<1>4. Interrupts = {} /\ asks = {} /\ Offered = None /\ queued = None /\ decision = None
    BY <1>2 DEF ProtocolInv, InterruptIsTracked, WriterDoesNotAsk, OneQuestion, DecisionIsResumed
<1>5. /\ loading => \A i \in Tracking : AnswerOf(wire[i]) \in asks'
      /\ loading /\ asks' # {} => tracked \in asks' \/ Tracking # {}
      /\ ~loading => Tracking = {}
    BY <1>1, <1>2, NothingOnWire DEF ProtocolInv, AnswerIsTracked, TypedWire
<1>6. q.kind = "interrupt" /\ v.kind = "values" /\ ~TracksCall(v) /\ ~TracksCall(q)
    BY DEF Event, TracksCall
<1>7. CASE asks' = {} \/ ~loading
    <2>1. asks' = {} => Send(<<v>>)
        <3>1. <<v>> \o <<>> = <<v>>
            OBVIOUS
        <3> QED BY <3>1 DEF SaveAnswer
    <2>2. ~loading => UNCHANGED wire
        BY DEF SaveAnswer, Send
    <2>3. /\ TypedWire' /\ Tracking' = Tracking /\ Interrupts' = Interrupts
          /\ \A i \in Tracking : wire'[i] = wire[i]
        <3>1. CASE asks' = {}
            BY <3>1, <1>1, <1>2, <2>1, ValuesAreQuiet, QuietSend
        <3>2. CASE ~loading
            BY <3>2, <1>1, <1>2, <2>2 DEF TypedWire, Tracking, Interrupts
        <3> QED BY <1>7, <3>1, <3>2
    <2>4. asks' = {} => Tracking' = {}
        BY <2>3, <1>5
    <2> QED BY <1>2, <1>3, <1>4, <1>5, <1>7, <2>3, <2>4
            DEF ProtocolInv, ProtocolTypes, ClosedIsQuiet, TypedWire, DecisionIsResumed, RunStartsQuiet,
                WriterDoesNotAsk, OneQuestion, OneAnswer, AnswerIsTracked, InterruptIsTracked
<1>8. CASE asks' # {} /\ loading
    <2>1. wire' = wire \o (<<v>> \o <<q>>)
        BY <1>8 DEF SaveAnswer, Send
    <2> HIDE DEF v, q
    <2>2. IsSequence(<<v>> \o <<q>>) /\ Len(<<v>> \o <<q>>) = 2 /\ (<<v>> \o <<q>>)[1] = v /\ (<<v>> \o <<q>>)[2] = q
        <3>1. IsSequence(<<v>>) /\ Len(<<v>>) = 1 /\ <<v>>[1] = v /\ IsSequence(<<q>>) /\ Len(<<q>>) = 1 /\ <<q>>[1] = q
            BY Singleton
        <3>2. /\ IsSequence(<<v>> \o <<q>>) /\ Len(<<v>> \o <<q>>) = 1 + 1
              /\ \A i \in 1..1 : (<<v>> \o <<q>>)[i] = <<v>>[i]
              /\ \A i \in 1..1 : (<<v>> \o <<q>>)[1 + i] = <<q>>[i]
            BY <3>1, Concatenation
        <3> QED BY <3>1, <3>2
    <2>3. /\ IsSequence(wire') /\ Len(wire) \in Nat /\ DOMAIN wire = 1..Len(wire) /\ DOMAIN wire' = 1..n
          /\ \A i \in 1..Len(wire) : wire'[i] = wire[i]
          /\ wire'[n - 1] = v /\ wire'[n] = q
        <3>1. /\ IsSequence(wire') /\ Len(wire) \in Nat /\ DOMAIN wire = 1..Len(wire) /\ DOMAIN wire' = 1..n
              /\ \A i \in 1..Len(wire) : wire'[i] = wire[i]
              /\ \A i \in 1..2 : wire'[Len(wire) + i] = (<<v>> \o <<q>>)[i]
            BY <1>1, <2>1, <2>2, Concatenation, SequenceDomain DEF TypedWire
        <3>2. wire'[Len(wire) + 1] = v /\ wire'[Len(wire) + 2] = q
            BY <3>1, <2>2
        <3>3. n - 1 = Len(wire) + 1 /\ n = Len(wire) + 2
            BY <3>1
        <3> QED BY <3>1, <3>2, <3>3
    <2>4. \A i \in DOMAIN wire' : i \in DOMAIN wire \/ i = n - 1 \/ i = n
        BY <2>3
    <2>5. \A i \in DOMAIN wire : i < n /\ i # n - 1 /\ i # n /\ i \in DOMAIN wire' /\ wire'[i] = wire[i]
        BY <2>3
    <2>6. n \in DOMAIN wire' /\ n - 1 \in DOMAIN wire' /\ n \in Nat /\ n - 1 # n
        BY <2>3
    <2>7. Tracking' = Tracking /\ \A i \in Tracking : i < n /\ wire'[i] = wire[i]
        BY <2>3, <2>4, <2>5, <1>6 DEF Tracking
    <2>8. Interrupts' = {n}
        BY <2>3, <2>4, <2>5, <2>6, <1>4, <1>6 DEF Interrupts
    <2>9. InterruptIsTracked'
        BY <2>7, <2>8, <1>2, <1>5, <1>8 DEF InterruptIsTracked
    <2>10. run' = "end"
        BY <1>2, <1>8
    <2> QED BY <1>2, <1>3, <1>4, <1>8, <2>3, <2>9, <2>10
            DEF ProtocolInv, ProtocolTypes, ClosedIsQuiet, DecisionIsResumed, RunStartsQuiet,
                WriterDoesNotAsk, OneQuestion, OneAnswer, AnswerIsTracked
<1> QED BY <1>7, <1>8

LEMMA RunToolKeeps ==
    ASSUME ProtocolInv, NEW c, RunTool(c)
    PROVE  ProtocolInv'
<1> DEFINE e == Event("messages", <<ToolResult(c)>>)
<1>1. TypedWire
    BY TypedWireHolds DEF ProtocolInv
<1>2. /\ run = "tools" /\ Send(<<e>>)
      /\ UNCHANGED <<run, asks, decision, made, loading, tracked, queued, Offered>>
    BY DEF RunTool, thread, Offered
<1>3. e.kind # "interrupt" /\ ~TracksCall(e)
    BY ResultsAreQuiet DEF Event
<1> HIDE DEF e
<1>4. /\ TypedWire' /\ Tracking' = Tracking /\ Interrupts' = Interrupts
      /\ \A i \in Tracking : wire'[i] = wire[i]
    <2>1. IsSequence(<<e>>) /\ \A i \in DOMAIN <<e>> : <<e>>[i].kind # "interrupt" /\ ~TracksCall(<<e>>[i])
        BY <1>3, Singleton
    <2> QED BY <1>1, <1>2, <2>1, QuietSend
<1> QED BY <1>2, <1>4
        DEF ProtocolInv, ProtocolTypes, ClosedIsQuiet, TypedWire, DecisionIsResumed, RunStartsQuiet,
            WriterDoesNotAsk, OneQuestion, OneAnswer, AnswerIsTracked, InterruptIsTracked

LEMMA SaveResultsKeeps ==
    ASSUME ProtocolInv, SaveResults
    PROVE  ProtocolInv'
<1>1. TypedWire
    BY TypedWireHolds DEF ProtocolInv
<1>2. /\ run = "tools" /\ run' = "model" /\ writing' = <<>> /\ Send(<<Event("values", saved')>>)
      /\ UNCHANGED <<asks, decision, made, loading, tracked, queued, Offered>>
    BY DEF SaveResults, thread, Offered
<1>3. /\ TypedWire' /\ Tracking' = Tracking /\ Interrupts' = Interrupts
      /\ \A i \in Tracking : wire'[i] = wire[i]
    BY <1>1, <1>2, ValuesAreQuiet, QuietSend
<1> QED BY <1>2, <1>3
        DEF ProtocolInv, ProtocolTypes, ClosedIsQuiet, TypedWire, DecisionIsResumed, RunStartsQuiet,
            WriterDoesNotAsk, OneQuestion, OneAnswer, AnswerIsTracked, InterruptIsTracked

LEMMA SetToSeqOfOne ==
    ASSUME NEW x
    PROVE  Head(SetToSeq({x})) = x
<1>1. Cardinality({x}) = 1
    BY FS_Singleton
<1>2. <<x>> \in [1..1 -> {x}] /\ IsInjective(<<x>>)
    BY DEF IsInjective
<1>3. SetToSeq({x}) \in [1..1 -> {x}]
    <2>1. \E f \in [1..1 -> {x}] : IsInjective(f)
        BY <1>2
    <2> QED BY <1>1, <2>1 DEF SetToSeq
<1> DEFINE f == SetToSeq({x})
<1> HIDE DEF f
<1>4. f \in Seq({x}) /\ f[1] = x
    <2>1. f \in [1..1 -> {x}]
        BY <1>3 DEF f
    <2>2. f[1] = x
        BY <2>1
    <2>3. \E n \in Nat : f \in [1..n -> {x}]
        BY <2>1
    <2> QED BY <2>2, <2>3, SeqDef
<1>5. Head(f) = f[1]
    BY <1>4
<1> QED BY <1>4, <1>5 DEF f

LEMMA ResumeKeeps ==
    ASSUME ProtocolInv, Resume
    PROVE  ProtocolInv'
<1> DEFINE results == IF decision = "reject" THEN SetToSeq({ToolResult(c) : c \in asks}) ELSE <<>>
           events == IF results = <<>> THEN <<>> ELSE <<Event("messages", results)>>
           e == Event("messages", results)
<1>1. TypedWire
    BY TypedWireHolds DEF ProtocolInv
<1>2. /\ run = "resume" /\ Cardinality(asks) = 1 /\ asks' = {} /\ run' = "tools" /\ decision' = None
      /\ UNCHANGED <<made, loading, tracked, queued, Offered>>
      /\ Send(events)
    BY DEF Resume, thread, Offered
<1>3. results # <<>> => e.kind # "interrupt" /\ ~TracksCall(e)
    <2> SUFFICES ASSUME results # <<>> PROVE ~TracksCall(e)
        BY DEF Event
    <2>1. results = SetToSeq({ToolResult(c) : c \in asks})
        OBVIOUS
    <2>2. PICK c : asks = {c}
        <3>1. IsFiniteSet(asks)
            BY DEF ProtocolInv, ProtocolTypes
        <3> QED BY <3>1, <1>2, FS_Singleton
    <2>3. {ToolResult(d) : d \in asks} = {ToolResult(c)}
        BY <2>2
    <2>4. Head(results) = ToolResult(c)
        BY <2>1, <2>3, SetToSeqOfOne
    <2>5. CallsOf(ToolResult(c), "execute") = {}
        BY DEF ToolResult, Message, CallsOf
    <2> HIDE DEF results
    <2> QED BY <2>4, <2>5 DEF TracksCall, Event
<1> HIDE DEF results, e
<1>4. IsSequence(events) /\ \A i \in DOMAIN events : events[i].kind # "interrupt" /\ ~TracksCall(events[i])
    <2>1. CASE results = <<>>
        BY <2>1, Empty
    <2>2. CASE results # <<>>
        BY <2>2, <1>3, Singleton DEF e
    <2> QED BY <2>1, <2>2
<1> HIDE DEF events
<1>5. /\ TypedWire' /\ Tracking' = Tracking /\ Interrupts' = Interrupts
      /\ \A i \in Tracking : wire'[i] = wire[i]
    BY <1>1, <1>2, <1>4, QuietSend
<1>6. Offered = None /\ queued = None /\ Interrupts = {} /\ Tracking = {}
    BY <1>2 DEF ProtocolInv, RunStartsQuiet, InterruptIsTracked, AnswerIsTracked
<1> QED BY <1>2, <1>5, <1>6, FS_EmptySet
        DEF ProtocolInv, ProtocolTypes, ClosedIsQuiet, TypedWire, DecisionIsResumed, RunStartsQuiet,
            WriterDoesNotAsk, OneQuestion, OneAnswer, AnswerIsTracked, InterruptIsTracked

LEMMA EndFailKeeps ==
    ASSUME ProtocolInv, End \/ Fail
    PROVE  ProtocolInv'
<1>1. TypedWire
    BY TypedWireHolds DEF ProtocolInv
<1>2. PICK e : e.kind \in {"done", "error"} /\ Send(<<e>>)
    BY DEF End, Fail, Event
<1>3. /\ run # "none" /\ run' = "none"
      /\ UNCHANGED <<asks, made, loading, tracked, queued, Offered>>
      /\ decision' = None \/ (run = "end" /\ decision' = decision)
    BY DEF End, Fail, thread, Offered
<1>4. ~TracksCall(e)
    BY <1>2 DEF TracksCall
<1>5. /\ TypedWire' /\ Tracking' = Tracking /\ Interrupts' = Interrupts
      /\ \A i \in Tracking : wire'[i] = wire[i]
    <2>1. IsSequence(<<e>>) /\ \A i \in DOMAIN <<e>> : <<e>>[i].kind # "interrupt" /\ ~TracksCall(<<e>>[i])
        BY <1>2, <1>4, Singleton
    <2> QED BY <1>1, <1>2, <1>3, <2>1, QuietSend
<1> QED BY <1>3, <1>5
        DEF ProtocolInv, ProtocolTypes, ClosedIsQuiet, TypedWire, DecisionIsResumed, RunStartsQuiet,
            WriterDoesNotAsk, OneQuestion, OneAnswer, AnswerIsTracked, InterruptIsTracked

-----------------------------------------------------------------------------
\* The client's steps.
LEMMA MessageEventKeeps ==
    ASSUME ProtocolInv, MessageEvent
    PROVE  ProtocolInv'
<1> DEFINE e == wire[1]
<1>1. /\ loading /\ wire # <<>> /\ wire' = Tail(wire) /\ Head(wire).kind = "messages"
      /\ tracked' = IF CallsOf(Head(Head(wire).msgs), "execute") = {} THEN tracked
                    ELSE LastCall(Head(Head(wire).msgs))
      /\ UNCHANGED <<saved, asks, run, writing, decision, made, loading, queued, Offered>>
    BY DEF MessageEvent, Incoming, server, Offered
<1>2. TypedWire
    BY TypedWireHolds DEF ProtocolInv
<1>3. /\ TypedWire' /\ 1 \in DOMAIN wire /\ Head(wire) = wire[1]
      /\ \A i \in Tracking' : i \in Nat /\ i + 1 \in Tracking /\ wire'[i] = wire[i + 1]
      /\ \A i \in Tracking : i \in Nat /\ (i = 1 \/ i - 1 \in Tracking')
      /\ \A i \in Interrupts' : i \in Nat \ {0} /\ i + 1 \in Interrupts
      /\ \A i \in Interrupts : i \in Nat /\ (i = 1 \/ i - 1 \in Interrupts')
    BY <1>1, <1>2, Processing
<1>4. e.kind = "messages" /\ 1 \notin Interrupts
    BY <1>1, <1>3 DEF Interrupts
<1>5. IF 1 \in Tracking THEN tracked' = AnswerOf(e) ELSE UNCHANGED tracked
    BY <1>1, <1>3 DEF Tracking, TracksCall, AnswerOf
<1>6. AnswerIsTracked'
    <2>1. Tracking = {} => Tracking' = {}
        BY <1>3
    <2>2. ASSUME run = "model", writing # <<>>
          PROVE  /\ \A i \in Tracking' : AnswerOf(wire'[i]) \in CallsIn(writing, "execute")
                 /\ CallsIn(writing, "execute") # {} =>
                       tracked' \in CallsIn(writing, "execute") \/ Tracking' # {}
        <3>1. /\ \A i \in Tracking : AnswerOf(wire[i]) \in CallsIn(writing, "execute")
              /\ CallsIn(writing, "execute") # {} =>
                    tracked \in CallsIn(writing, "execute") \/ Tracking # {}
            BY <2>2, <1>1 DEF ProtocolInv, AnswerIsTracked
        <3>2. \A i \in Tracking' : AnswerOf(wire'[i]) \in CallsIn(writing, "execute")
            BY <3>1, <1>3
        <3>3. CASE 1 \in Tracking
            BY <3>1, <3>2, <3>3, <1>5
        <3>4. CASE 1 \notin Tracking
            BY <3>1, <3>2, <3>4, <1>3, <1>5
        <3> QED BY <3>3, <3>4
    <2> QED BY <2>1, <2>2, <1>1 DEF ProtocolInv, AnswerIsTracked
<1>7. InterruptIsTracked'
    <2>1. Interrupts' # {} => Interrupts # {}
        BY <1>3
    <2>2. ASSUME NEW k \in Interrupts'
          PROVE  /\ Interrupts' = {k}
                 /\ \A i \in Tracking' : i < k => AnswerOf(wire'[i]) \in asks
                 /\ tracked' \in asks \/ \E i \in Tracking' : i < k
        <3>1. k \in Nat /\ k + 1 \in Interrupts
            BY <1>3
        <3>2. /\ Interrupts = {k + 1}
              /\ \A i \in Tracking : i < k + 1 => AnswerOf(wire[i]) \in asks
              /\ tracked \in asks \/ \E i \in Tracking : i < k + 1
            BY <3>1 DEF ProtocolInv, InterruptIsTracked
        <3>3. Interrupts' = {k}
            <4>1. ASSUME NEW j \in Interrupts' PROVE j = k
                <5>1. j \in Nat /\ j + 1 = k + 1
                    BY <1>3, <3>2
                <5> QED BY <5>1, <3>1
            <4> QED BY <4>1
        <3>4. \A i \in Tracking' : i < k => AnswerOf(wire'[i]) \in asks
            BY <3>1, <3>2, <1>3
        <3>5. CASE 1 \in Tracking
            <4>1. 1 < k + 1
                <5>1. k + 1 # 1
                    BY <3>1, <1>4
                <5> QED BY <5>1, <3>1
            <4> QED BY <4>1, <3>2, <3>3, <3>4, <3>5, <1>5
        <3>6. CASE 1 \notin Tracking
            <4>1. CASE tracked \in asks
                BY <4>1, <3>3, <3>4, <3>6, <1>5
            <4>2. CASE \E i \in Tracking : i < k + 1
                <5>1. PICK i \in Tracking : i < k + 1
                    BY <4>2
                <5>2. i - 1 \in Tracking' /\ i \in Nat
                    BY <1>3, <3>6
                <5>3. i - 1 < k
                    BY <5>1, <5>2, <3>1
                <5> QED BY <5>2, <5>3, <3>3, <3>4
            <4> QED BY <4>1, <4>2, <3>2
        <3> QED BY <3>5, <3>6
    <2> QED BY <2>1, <2>2, <1>1 DEF ProtocolInv, InterruptIsTracked
<1>8. OneQuestion'
    BY <1>1, <1>3 DEF ProtocolInv, OneQuestion
<1>9. ProtocolTypes' /\ ClosedIsQuiet'
    BY <1>1, <1>3 DEF ProtocolInv, ProtocolTypes, ClosedIsQuiet, TypedWire
<1> QED BY <1>1, <1>6, <1>7, <1>8, <1>9
        DEF ProtocolInv, DecisionIsResumed, RunStartsQuiet, WriterDoesNotAsk, OneAnswer

LEMMA ValuesEventKeeps ==
    ASSUME ProtocolInv, ValuesEvent
    PROVE  ProtocolInv'
<1>1. /\ loading /\ wire # <<>> /\ wire' = Tail(wire) /\ Head(wire).kind = "values"
      /\ UNCHANGED <<saved, asks, run, writing, decision, made, loading, queued, Offered, tracked>>
    BY DEF ValuesEvent, Incoming, server, Offered
<1>2. TypedWire
    BY TypedWireHolds DEF ProtocolInv
<1>3. /\ TypedWire' /\ 1 \in DOMAIN wire /\ Head(wire) = wire[1]
      /\ \A i \in Tracking' : i \in Nat /\ i + 1 \in Tracking /\ wire'[i] = wire[i + 1]
      /\ \A i \in Tracking : i \in Nat /\ (i = 1 \/ i - 1 \in Tracking')
      /\ \A i \in Interrupts' : i \in Nat \ {0} /\ i + 1 \in Interrupts
      /\ \A i \in Interrupts : i \in Nat /\ (i = 1 \/ i - 1 \in Interrupts')
    BY <1>1, <1>2, Processing
<1>4. 1 \notin Interrupts /\ 1 \notin Tracking
    BY <1>1, <1>3 DEF Interrupts, Tracking, TracksCall
<1>5. /\ \A i \in Tracking : i - 1 \in Tracking'
      /\ Tracking = {} <=> Tracking' = {}
      /\ Interrupts = {} <=> Interrupts' = {}
    BY <1>3, <1>4
<1>6. AnswerIsTracked'
    BY <1>1, <1>3, <1>5 DEF ProtocolInv, AnswerIsTracked
<1>7. InterruptIsTracked'
    <2>1. ASSUME NEW k \in Interrupts'
          PROVE  /\ Interrupts' = {k}
                 /\ \A i \in Tracking' : i < k => AnswerOf(wire'[i]) \in asks
                 /\ tracked \in asks \/ \E i \in Tracking' : i < k
        <3>1. k \in Nat /\ k + 1 \in Interrupts
            BY <1>3
        <3>2. /\ Interrupts = {k + 1}
              /\ \A i \in Tracking : i < k + 1 => AnswerOf(wire[i]) \in asks
              /\ tracked \in asks \/ \E i \in Tracking : i < k + 1
            BY <3>1 DEF ProtocolInv, InterruptIsTracked
        <3>3. Interrupts' = {k}
            <4>1. ASSUME NEW j \in Interrupts' PROVE j = k
                <5>1. j \in Nat /\ j + 1 = k + 1
                    BY <1>3, <3>2
                <5> QED BY <5>1, <3>1
            <4> QED BY <4>1
        <3>4. \A i \in Tracking' : i < k => AnswerOf(wire'[i]) \in asks
            BY <3>1, <3>2, <1>3
        <3>5. ASSUME NEW i \in Tracking, i < k + 1
              PROVE  \E j \in Tracking' : j < k
            <4>1. i - 1 \in Tracking' /\ i \in Nat
                BY <1>3, <1>5
            <4> QED BY <4>1, <3>5, <3>1
        <3> QED BY <3>2, <3>3, <3>4, <3>5
    <2> QED BY <2>1, <1>1, <1>5 DEF ProtocolInv, InterruptIsTracked
<1>8. OneQuestion'
    BY <1>1, <1>5 DEF ProtocolInv, OneQuestion
<1>9. ProtocolTypes' /\ ClosedIsQuiet'
    BY <1>1, <1>3 DEF ProtocolInv, ProtocolTypes, ClosedIsQuiet, TypedWire
<1> QED BY <1>1, <1>6, <1>7, <1>8, <1>9
        DEF ProtocolInv, DecisionIsResumed, RunStartsQuiet, WriterDoesNotAsk, OneAnswer

\* When an interrupt is processed, no answer that changes the tracked call is
\* before it: the tracked call is asked for.
LEMMA InterruptAsks ==
    ASSUME ProtocolInv, InterruptEvent
    PROVE  /\ Offered' \in asks /\ queued = None /\ decision = None
           /\ run \in {"end", "none"} /\ Interrupts' = {} /\ TypedWire' /\ asks # {}
           /\ UNCHANGED <<saved, asks, run, writing, decision, made, loading, queued, tracked>>
<1>1. /\ loading /\ wire # <<>> /\ wire' = Tail(wire) /\ Head(wire).kind = "interrupt"
      /\ pending' = tracked
      /\ UNCHANGED <<saved, asks, run, writing, decision, made, loading, queued, tracked>>
    BY DEF InterruptEvent, Incoming, server
<1>2. TypedWire
    BY TypedWireHolds DEF ProtocolInv
<1>3. /\ TypedWire' /\ 1 \in DOMAIN wire /\ Head(wire) = wire[1]
      /\ \A i \in Tracking : i \in Nat /\ (i = 1 \/ i - 1 \in Tracking')
      /\ \A i \in Interrupts' : i \in Nat \ {0} /\ i + 1 \in Interrupts
    BY <1>1, <1>2, Processing
<1>4. 1 \in Interrupts
    BY <1>1, <1>3 DEF Interrupts
<1>5. Interrupts = {1} /\ (tracked \in asks \/ \E i \in Tracking : i < 1) /\ run \in {"end", "none"}
    BY <1>4 DEF ProtocolInv, InterruptIsTracked
<1>6. Tracking \subseteq Nat /\ 0 \notin Tracking
    BY <1>2, <1>3, SequenceDomain DEF Tracking, TypedWire
<1>7. tracked \in asks
    BY <1>5, <1>6
<1>8. Interrupts' = {}
    <2>1. ASSUME NEW i \in Interrupts' PROVE FALSE
        <3>1. i \in Nat \ {0} /\ i + 1 = 1
            BY <1>3, <1>5
        <3> QED BY <3>1
    <2> QED BY <2>1
<1>9. Offered' \in asks
    <2>1. tracked # Unmatched
        BY <1>7, ConversationAssumption DEF ProtocolInv, ProtocolTypes, MessageIds
    <2> QED BY <1>1, <1>7, <2>1 DEF Offered
<1> QED BY <1>1, <1>3, <1>4, <1>5, <1>8, <1>9 DEF ProtocolInv, DecisionIsResumed, OneQuestion

LEMMA InterruptEventKeeps ==
    ASSUME ProtocolInv, InterruptEvent
    PROVE  ProtocolInv'
BY InterruptAsks
   DEF ProtocolInv, ProtocolTypes, ClosedIsQuiet, TypedWire, DecisionIsResumed, RunStartsQuiet,
       WriterDoesNotAsk, OneQuestion, OneAnswer, AnswerIsTracked, InterruptIsTracked

LEMMA StreamEndsKeeps ==
    ASSUME ProtocolInv, StreamEnds, UNCHANGED <<asks, made, Offered>>
    PROVE  ProtocolInv'
<1>1. wire' = <<>> /\ queued' = None /\ loading' \in BOOLEAN /\ Tracking' = {} /\ Interrupts' = {}
    BY Empty DEF StreamEnds, Open, Tracking, Interrupts
<1>2. TypedWire'
    BY <1>1, Empty DEF TypedWire
<1> USE DEF ProtocolInv, ProtocolTypes, ClosedIsQuiet, TypedWire, DecisionIsResumed, RunStartsQuiet,
            WriterDoesNotAsk, OneQuestion, OneAnswer, AnswerIsTracked, InterruptIsTracked
<1>3. CASE queued = None
    BY <1>1, <1>2, <1>3 DEF StreamEnds
<1>4. CASE queued # None
    BY <1>1, <1>2, <1>4 DEF StreamEnds, Open
<1> QED BY <1>3, <1>4

LEMMA SubmitKeeps ==
    ASSUME ProtocolInv, Submit
    PROVE  ProtocolInv'
<1>1. /\ ~loading /\ made' = made + 1 /\ Offered' = None
      /\ loading' = TRUE /\ wire' = <<>> /\ run' = "begin" /\ decision' = None
      /\ UNCHANGED <<asks, queued>>
    BY DEF Submit, Open, ApprovalCleared, Offered
<1>2. Tracking' = {} /\ Interrupts' = {} /\ TypedWire'
    BY <1>1, Empty DEF TypedWire, Tracking, Interrupts
<1> QED BY <1>1, <1>2
        DEF ProtocolInv, ProtocolTypes, ClosedIsQuiet, TypedWire, DecisionIsResumed, RunStartsQuiet,
            WriterDoesNotAsk, OneQuestion, OneAnswer, AnswerIsTracked, InterruptIsTracked

LEMMA DecideKeeps ==
    ASSUME ProtocolInv, NEW d \in Decisions, Decide(d)
    PROVE  ProtocolInv'
<1>1. Offered # None /\ Offered' = None /\ d # None
    BY ConversationAssumption DEF Decide, OfferedOnScreen, NeedsApproval, ApprovalCleared, Offered
<1> USE DEF ProtocolInv, ProtocolTypes, ClosedIsQuiet, TypedWire, DecisionIsResumed, RunStartsQuiet,
            WriterDoesNotAsk, OneQuestion, OneAnswer, AnswerIsTracked, InterruptIsTracked
<1>2. CASE loading
    <2>1. queued' = d /\ UNCHANGED <<saved, asks, run, writing, decision, made, wire, loading, tracked>>
        BY <1>2 DEF Decide, server
    <2>2. Tracking' = Tracking /\ Interrupts' = Interrupts
        BY <2>1 DEF Tracking, Interrupts
    <2> QED BY <1>1, <1>2, <2>1, <2>2
<1>3. CASE ~loading
    <2>1. /\ loading' = TRUE /\ wire' = <<>> /\ run' = "resume" /\ decision' = d
          /\ UNCHANGED <<asks, made, queued>>
        BY <1>3 DEF Decide, Open
    <2>2. Tracking' = {} /\ Interrupts' = {} /\ TypedWire'
        BY <2>1, Empty DEF Tracking, Interrupts
    <2> QED BY <1>1, <1>3, <2>1, <2>2
<1> QED BY <1>2, <1>3

LEMMA ReloadKeeps ==
    ASSUME ProtocolInv, Reload
    PROVE  ProtocolInv'
<1>1. /\ loading' = FALSE /\ wire' = <<>> /\ queued' = None /\ Offered' = None
      /\ UNCHANGED <<asks, run, writing, decision, made>>
    BY DEF Reload, server, Offered
<1>2. Tracking' = {} /\ Interrupts' = {} /\ TypedWire'
    BY <1>1, Empty DEF TypedWire, Tracking, Interrupts
<1> QED BY <1>1, <1>2
        DEF ProtocolInv, ProtocolTypes, ClosedIsQuiet, TypedWire, DecisionIsResumed, RunStartsQuiet,
            WriterDoesNotAsk, OneQuestion, OneAnswer, AnswerIsTracked, InterruptIsTracked

\* Leaving, returning and loading the history change nothing of the protocol,
\* except that a restored approval may take the place of the one on the screen.
LEMMA OthersKeep ==
    ASSUME ProtocolInv,
           UNCHANGED <<asks, run, writing, decision, made, wire, loading, tracked, queued>>,
           Offered' \in {Offered, None}
    PROVE  ProtocolInv'
<1>1. Tracking' = Tracking /\ Interrupts' = Interrupts
    BY DEF Tracking, Interrupts
<1> QED BY <1>1
        DEF ProtocolInv, ProtocolTypes, ClosedIsQuiet, TypedWire, DecisionIsResumed, RunStartsQuiet,
            WriterDoesNotAsk, OneQuestion, OneAnswer, AnswerIsTracked, InterruptIsTracked

\* A step that changes nothing else of the protocol.
Aside ==
    /\ UNCHANGED <<asks, run, writing, decision, made, wire, loading, tracked, queued>>
    /\ Offered' \in {Offered, None}

LEMMA AsideSteps ==
    /\ Leave \/ Return => Aside
    /\ \A i \in DOMAIN loads : ReadHistory(i) \/ HistoryAnswer(i) \/ HistoryFails(i) => Aside
    /\ UNCHANGED vars => Aside
<1>1. Leave \/ Return => Aside
    BY DEF Leave, Return, Aside, server, stream, thread, Offered
<1>2. \A i \in DOMAIN loads : ReadHistory(i) => Aside
    BY DEF ReadHistory, Aside, server, stream, thread, Offered
<1>3. \A i \in DOMAIN loads : HistoryAnswer(i) => Aside
    BY DEF HistoryAnswer, Aside, server, stream, Offered
<1>4. \A i \in DOMAIN loads : HistoryFails(i) => Aside
    BY DEF HistoryFails, Aside, server, stream, thread, Offered
<1>5. UNCHANGED vars => Aside
    BY DEF vars, Aside, server, stream, thread, Offered
<1> QED BY <1>1, <1>2, <1>3, <1>4, <1>5

LEMMA StreamEndSteps ==
    DoneOrError \/ Stop => loading /\ StreamEnds /\ UNCHANGED <<asks, made, Offered>>
BY DEF DoneOrError, Stop, Incoming, Offered

LEMMA ProtocolInit == Init => ProtocolInv
<1> SUFFICES ASSUME Init PROVE ProtocolInv
    OBVIOUS
<1>1. /\ asks = {} /\ run = "none" /\ writing = <<>> /\ decision = None /\ made = 0 /\ wire = <<>>
      /\ loading = FALSE /\ queued = None /\ Offered = None
    BY DEF Init, Offered
<1>2. Tracking = {} /\ Interrupts = {} /\ IsSequence(wire)
    BY <1>1, Empty, NothingOnWire
<1> QED BY <1>1, <1>2, FS_EmptySet
        DEF ProtocolInv, ProtocolTypes, ClosedIsQuiet, DecisionIsResumed, RunStartsQuiet,
            WriterDoesNotAsk, OneQuestion, OneAnswer, AnswerIsTracked, InterruptIsTracked

LEMMA ProtocolNext == ProtocolInv /\ [Next]_vars => ProtocolInv'
<1> SUFFICES ASSUME ProtocolInv, [Next]_vars PROVE ProtocolInv'
    OBVIOUS
<1>1. CASE Begin
    BY <1>1, BeginKeeps
<1>2. CASE SaveAnswer
    BY <1>2, SaveAnswerKeeps
<1>3. CASE SaveResults
    BY <1>3, SaveResultsKeeps
<1>4. CASE Resume
    BY <1>4, ResumeKeeps
<1>5. CASE End \/ Fail
    BY <1>5, EndFailKeeps
<1>6. ASSUME NEW plan \in Plans, Answer(plan) PROVE ProtocolInv'
    BY <1>6, AnswerKeeps
<1>7. ASSUME NEW c \in CallsIn(saved, "execute") \cup CallsIn(saved, "task"), RunTool(c)
      PROVE  ProtocolInv'
    BY <1>7, RunToolKeeps
<1>8. CASE MessageEvent
    BY <1>8, MessageEventKeeps
<1>9. CASE ValuesEvent
    BY <1>9, ValuesEventKeeps
<1>10. CASE InterruptEvent
    BY <1>10, InterruptEventKeeps
<1>11. CASE DoneOrError \/ Stop
    BY <1>11, StreamEndSteps, StreamEndsKeeps
<1>12. CASE Submit
    BY <1>12, SubmitKeeps
<1>13. ASSUME NEW d \in Decisions, Decide(d) PROVE ProtocolInv'
    BY <1>13, DecideKeeps
<1>14. CASE Reload
    BY <1>14, ReloadKeeps
<1>15. CASE Aside
    BY <1>15, OthersKeep DEF Aside
<1> QED BY <1>1, <1>2, <1>3, <1>4, <1>5, <1>6, <1>7, <1>8, <1>9, <1>10, <1>11, <1>12, <1>13, <1>14,
           <1>15, AsideSteps DEF Next

\* The invariant of the approval protocol holds in every reachable state.
THEOREM ProtocolHolds == Spec => []ProtocolInv
BY ProtocolInit, ProtocolNext, PTL DEF Spec

-----------------------------------------------------------------------------
\* The refinement. Every step maps to a step of ApprovalProtocol or a stutter.
LEMMA StepImplements ==
    ASSUME ProtocolInv, [Next]_vars
    PROVE  [Approval!Next]_(Approval!vars)
<1> USE DEF Approval!Next, Approval!vars
<1> DEFINE Stutter == UNCHANGED <<asks, Offered, queued, decision>>
<1>1. Stutter => UNCHANGED Approval!vars
    OBVIOUS
<1>2. CASE Begin
    <2>1. asks' = {} /\ UNCHANGED <<Offered, queued, decision>> /\ run = "begin"
        BY <1>2 DEF Begin, thread, Offered
    <2>2. Offered = None /\ queued = None /\ decision = None
        BY <2>1 DEF ProtocolInv, RunStartsQuiet, DecisionIsResumed
    <2>3. Approval!Withdraw
        BY <2>1, <2>2 DEF Approval!Withdraw
    <2> QED BY <2>3
<1>3. CASE SaveAnswer
    <2>1. /\ run = "model" /\ writing # <<>> /\ asks' = CallsIn(writing, "execute")
          /\ UNCHANGED <<Offered, queued, decision>>
        BY <1>3 DEF SaveAnswer, thread, Offered
    <2>2. asks = {} /\ Offered = None /\ queued = None /\ decision = None
        BY <2>1 DEF ProtocolInv, OneQuestion, WriterDoesNotAsk, DecisionIsResumed
    <2>3. asks' \subseteq MessageIds
        BY <2>1, AsksOfAnswer DEF ProtocolInv
    <2>4. CASE asks' # {}
        BY <2>1, <2>2, <2>3, <2>4 DEF Approval!Ask
    <2>5. CASE asks' = {}
        BY <2>1, <2>2, <2>5, <1>1
    <2> QED BY <2>4, <2>5
<1>4. CASE Resume
    <2>1. /\ run = "resume" /\ Cardinality(asks) = 1 /\ asks' = {} /\ decision' = None
          /\ UNCHANGED <<Offered, queued>>
        BY <1>4 DEF Resume, thread, Offered
    <2>2. decision # None /\ queued = None /\ asks # {}
        BY <2>1, FS_EmptySet DEF ProtocolInv, RunStartsQuiet, DecisionIsResumed
    <2>3. Approval!Obey
        BY <2>1, <2>2 DEF Approval!Obey
    <2> QED BY <2>3
<1>5. CASE Fail
    <2>1. run # "none" /\ run # "end" /\ decision' = None /\ UNCHANGED <<asks, Offered, queued>>
        BY <1>5 DEF Fail, thread, Offered
    <2>2. Approval!Lose
        BY <2>1 DEF Approval!Lose, ProtocolInv, OneQuestion
    <2> QED BY <2>2
<1>6. CASE \/ End \/ SaveResults \/ MessageEvent \/ ValuesEvent
           \/ (\E plan \in Plans : Answer(plan))
           \/ (\E c \in CallsIn(saved, "execute") \cup CallsIn(saved, "task") : RunTool(c))
    <2>1. Stutter
        BY <1>6 DEF End, SaveResults, MessageEvent, ValuesEvent, Answer, RunTool, thread, server, Offered
    <2> QED BY <2>1, <1>1
<1>7. CASE InterruptEvent
    <2>1. Offered' \in asks /\ queued = None /\ decision = None /\ UNCHANGED <<asks, queued, decision>>
        BY <1>7, InterruptAsks
    <2>2. Approval!Offer
        BY <2>1 DEF Approval!Offer
    <2> QED BY <2>2
<1>8. CASE DoneOrError \/ Stop
    <2>1. StreamEnds /\ UNCHANGED <<asks, Offered>>
        BY <1>8, StreamEndSteps
    <2>2. queued' = None /\ decision' = IF queued # None THEN queued ELSE decision
        BY <2>1 DEF StreamEnds, Open
    <2> QED BY <2>1, <2>2
<1>9. CASE Submit
    <2>1. ~loading /\ Offered' = None /\ decision' = None /\ UNCHANGED <<asks, queued>>
        BY <1>9 DEF Submit, Open, ApprovalCleared, Offered
    <2>2. queued = None
        BY <2>1 DEF ProtocolInv, ClosedIsQuiet
    <2>3. Approval!Lose
        BY <2>1, <2>2 DEF Approval!Lose
    <2> QED BY <2>3
<1>10. ASSUME NEW d \in Decisions, Decide(d)
       PROVE  Approval!Next
    <2>1. Offered # None /\ Offered' = None /\ d # None /\ UNCHANGED asks
        BY <1>10, ConversationAssumption
        DEF Decide, OfferedOnScreen, NeedsApproval, ApprovalCleared, server, Offered
    <2>2. CASE loading
        <3>1. queued' = d
            BY <1>10, <2>2 DEF Decide
        <3> QED BY <2>1, <3>1 DEF Approval!Decide
    <2>3. CASE ~loading
        <3>1. decision' = d /\ UNCHANGED queued /\ queued = None
            BY <1>10, <2>3 DEF Decide, Open, ProtocolInv, ClosedIsQuiet
        <3> QED BY <2>1, <3>1 DEF Approval!Decide
    <2> QED BY <2>2, <2>3
<1>11. CASE Reload
    <2>1. Offered' = None /\ queued' = None /\ UNCHANGED <<asks, decision>>
        BY <1>11 DEF Reload, server, Offered
    <2>2. queued # None => decision = None
        BY DEF ProtocolInv, OneQuestion, DecisionIsResumed
    <2>3. Approval!Lose
        BY <2>1, <2>2 DEF Approval!Lose
    <2> QED BY <2>3
<1>12. CASE Aside
    BY <1>12 DEF Aside, Approval!Lose
<1> HIDE DEF Approval!Next, Approval!vars
<1> QED BY <1>2, <1>3, <1>4, <1>5, <1>6, <1>7, <1>8, <1>9, <1>10, <1>11, <1>12, AsideSteps DEF Next

\* Human in the loop (ApprovalProtocol): whatever is left, reloaded, stopped and
\* answered late, the user is asked only about a call the agent waits for, a
\* question is answered once and its answer resumes that question, and a
\* question still on the screen is never given up.
THEOREM ApprovalKept == Spec => ApprovalIsKept
<1>1. Init => Approval!Init
    BY DEF Init, Approval!Init, Offered
<1>2. ProtocolInv /\ [Next]_vars => [Approval!Next]_(Approval!vars)
    BY StepImplements
<1> QED BY <1>1, <1>2, ProtocolHolds, PTL DEF Spec, ApprovalIsKept, Approval!Spec

-----------------------------------------------------------------------------
\* No question is lost on its way.
Endings == {i \in DOMAIN wire : wire[i].kind \in {"done", "error"}}

\* A run that goes on has not ended the stream yet.
LEMMA NoEndingYet == EndComesLast /\ run # "none" => Endings = {}
BY DEF EndComesLast, Endings

\* A step of a run that goes on, which ends no stream.
LEMMA RunGoesOn ==
    ASSUME TypedWire, EndComesLast, run # "none", NEW events, IsSequence(events), Send(events),
           UNCHANGED loading, \A i \in DOMAIN events : events[i].kind \notin {"done", "error"},
           ~loading => doubt \ {"subagents", "messages"} \subseteq doubt'
    PROVE  EndComesLast'
<1>1. Endings' = {}
    <2>1. CASE ~loading
        BY <2>1, NoEndingYet DEF Send, Endings
    <2>2. CASE loading
        <3>1. wire' = wire \o events
            BY <2>2 DEF Send
        <3>2. /\ DOMAIN events = 1..Len(events)
              /\ \A i \in 1..Len(wire) : wire'[i] = wire[i]
              /\ \A i \in 1..Len(events) : wire'[Len(wire) + i] = events[i]
              /\ \A i \in DOMAIN wire' : i \in 1..Len(wire) \/ i - Len(wire) \in 1..Len(events)
              /\ DOMAIN wire = 1..Len(wire) /\ Len(wire) \in Nat /\ Len(events) \in Nat
              /\ DOMAIN wire' = 1..Len(wire) + Len(events)
            BY <3>1, Concatenation, SequenceDomain DEF TypedWire
        <3>3. ASSUME NEW i \in DOMAIN wire' PROVE wire'[i].kind \notin {"done", "error"}
            <4>1. CASE i \in 1..Len(wire)
                BY <4>1, <3>2, NoEndingYet DEF Endings
            <4>2. CASE i - Len(wire) \in 1..Len(events)
                <5>1. i = Len(wire) + (i - Len(wire))
                    BY <3>2
                <5>2. wire'[i] = events[i - Len(wire)]
                    BY <4>2, <5>1, <3>2
                <5> QED BY <4>2, <5>2, <3>2
            <4> QED BY <4>1, <4>2, <3>2
        <3> QED BY <3>3 DEF Endings
    <2> QED BY <2>1, <2>2 DEF TypedWire
<1> QED BY <1>1 DEF EndComesLast, Endings, TypedWire

\* Processing an event leaves an ending last.
LEMMA EndStaysLast ==
    ASSUME TypedWire, EndComesLast, loading, wire # <<>>, wire' = Tail(wire), UNCHANGED <<loading, run>>,
           Head(wire).kind \notin {"done", "error"}
    PROVE  EndComesLast'
<1>1. /\ Len(wire) \in Nat \ {0} /\ Len(wire') = Len(wire) - 1
      /\ DOMAIN wire = 1..Len(wire) /\ DOMAIN wire' = 1..Len(wire) - 1
      /\ \A i \in 1..Len(wire) - 1 : wire'[i] = wire[i + 1]
    BY RestOf DEF TypedWire
<1>2. ASSUME NEW i \in DOMAIN wire', wire'[i].kind \in {"done", "error"}
      PROVE  run = "none" /\ i = Len(wire')
    <2>1. i + 1 \in DOMAIN wire /\ wire[i + 1].kind \in {"done", "error"}
        BY <1>1, <1>2
    <2>2. run = "none" /\ i + 1 = Len(wire)
        BY <2>1 DEF EndComesLast
    <2> QED BY <2>2, <1>1
<1> QED BY <1>2 DEF EndComesLast

LEMMA AgentKeepsQuestion ==
    ASSUME QuestionInv,
           \/ Begin \/ SaveResults \/ Resume
           \/ \E plan \in Plans : Answer(plan)
           \/ \E c \in CallsIn(saved, "execute") \cup CallsIn(saved, "task") : RunTool(c)
    PROVE  EndComesLast' /\ QuestionIsSomewhere'
<1>1. TypedWire /\ EndComesLast
    BY TypedWireHolds DEF QuestionInv, ProtocolInv
<1>2. asks' = {}
    BY DEF QuestionInv, ProtocolInv, WriterDoesNotAsk, Begin, SaveResults, Resume, Answer, RunTool
<1>3. PICK events : /\ IsSequence(events) /\ Send(events)
                    /\ \A i \in DOMAIN events : events[i].kind \notin {"done", "error"}
    <2>1. \A e : IsSequence(<<e>>) /\ DOMAIN <<e>> = {1} /\ <<e>>[1] = e
        BY Singleton
    <2>2. ASSUME NEW e, Send(<<e>>), e.kind \notin {"done", "error"}
          PROVE  \E events : /\ IsSequence(events) /\ Send(events)
                             /\ \A i \in DOMAIN events : events[i].kind \notin {"done", "error"}
        BY <2>1, <2>2
    <2>3. CASE Begin \/ SaveResults
        <3>1. Send(<<Event("values", saved')>>) /\ Event("values", saved').kind = "values"
            BY <2>3 DEF Begin, SaveResults, Event
        <3> QED BY <3>1, <2>2
    <2>4. CASE Resume
        <3>1. PICK results : Send(IF results = <<>> THEN <<>> ELSE <<Event("messages", results)>>)
            BY <2>4 DEF Resume
        <3>2. Event("messages", results).kind = "messages"
            BY DEF Event
        <3>3. CASE results = <<>>
            BY <3>1, <3>3, Empty
        <3>4. CASE results # <<>>
            BY <3>1, <3>2, <3>4, <2>2
        <3> QED BY <3>3, <3>4
    <2>5. ASSUME NEW plan \in Plans, Answer(plan)
          PROVE  \E msgs : Send(<<Event("messages", msgs)>>)
        BY <2>5 DEF Answer
    <2>6. ASSUME NEW c, RunTool(c)
          PROVE  \E msgs : Send(<<Event("messages", msgs)>>)
        BY <2>6 DEF RunTool
    <2>7. ASSUME NEW msgs, Send(<<Event("messages", msgs)>>)
          PROVE  \E events : /\ IsSequence(events) /\ Send(events)
                             /\ \A i \in DOMAIN events : events[i].kind \notin {"done", "error"}
        <3>1. Event("messages", msgs).kind = "messages"
            BY DEF Event
        <3> QED BY <3>1, <2>2, <2>7
    <2> QED BY <2>3, <2>4, <2>5, <2>6, <2>7
<1>4. UNCHANGED loading /\ run # "none" /\ (~loading => UNCHANGED doubt)
    BY DEF Begin, SaveResults, Resume, Answer, RunTool, Asked
<1>5. EndComesLast'
    BY <1>1, <1>3, <1>4, RunGoesOn
<1> QED BY <1>2, <1>5 DEF QuestionIsSomewhere

LEMMA SaveAnswerKeepsQuestion ==
    ASSUME QuestionInv, SaveAnswer
    PROVE  EndComesLast' /\ QuestionIsSomewhere'
<1> DEFINE v == Event("values", saved')
           q == Event("interrupt", <<>>)
           tail == IF asks' # {} THEN <<q>> ELSE <<>>
<1>1. TypedWire /\ EndComesLast
    BY TypedWireHolds DEF QuestionInv, ProtocolInv
<1>2. run = "model" /\ Send(<<v>> \o tail) /\ UNCHANGED <<loading, doubt>>
    BY DEF SaveAnswer
<1>3. q.kind = "interrupt" /\ v.kind = "values"
    BY DEF Event
<1> HIDE DEF v, q
<1>4. IsSequence(<<v>>) /\ Len(<<v>>) = 1 /\ <<v>>[1] = v /\ IsSequence(<<q>>) /\ Len(<<q>>) = 1 /\ <<q>>[1] = q
    BY Singleton
<1>5. IsSequence(tail) /\ Len(tail) \in 0..1 /\ (asks' # {} => Len(tail) = 1) /\ \A i \in 1..Len(tail) : tail[i] = q
    BY <1>4, Empty
<1> HIDE DEF tail
<1>6. /\ IsSequence(<<v>> \o tail) /\ Len(<<v>> \o tail) = 1 + Len(tail)
      /\ \A i \in 1..1 : (<<v>> \o tail)[i] = <<v>>[i]
      /\ \A i \in 1..Len(tail) : (<<v>> \o tail)[1 + i] = tail[i]
      /\ \A i \in DOMAIN (<<v>> \o tail) : i \in 1..1 \/ i - 1 \in 1..Len(tail)
      /\ DOMAIN (<<v>> \o tail) = 1..1 + Len(tail)
    BY <1>4, <1>5, Concatenation
<1>7. ASSUME NEW i \in DOMAIN (<<v>> \o tail)
      PROVE  (<<v>> \o tail)[i].kind \notin {"done", "error"}
    <2>1. CASE i = 1
        BY <2>1, <1>3, <1>4, <1>6
    <2>2. CASE i - 1 \in 1..Len(tail)
        <3>1. i = 1 + (i - 1)
            BY <1>5, <1>6
        <3>2. (<<v>> \o tail)[i] = tail[i - 1]
            BY <2>2, <3>1, <1>6
        <3> QED BY <2>2, <3>2, <1>3, <1>5
    <2> QED BY <2>1, <2>2, <1>6
<1>8. EndComesLast'
    BY <1>1, <1>2, <1>6, <1>7, RunGoesOn
<1>9. ASSUME asks' # {}, loading
      PROVE  Interrupts' # {}
    <2>1. wire' = wire \o (<<v>> \o tail)
        BY <1>2, <1>9 DEF Send
    <2>2. 2 \in 1..Len(<<v>> \o tail) /\ (<<v>> \o tail)[2] = q
        <3>1. 1 \in 1..Len(tail)
            BY <1>5, <1>9
        <3>2. (<<v>> \o tail)[1 + 1] = tail[1]
            BY <1>6, <3>1
        <3>3. tail[1] = q /\ Len(<<v>> \o tail) = 2
            BY <1>5, <1>6, <1>9, <3>1
        <3> QED BY <3>2, <3>3
    <2>3. /\ wire'[Len(wire) + 2] = q /\ DOMAIN wire' = 1..Len(wire) + Len(<<v>> \o tail)
          /\ Len(wire) \in Nat
        BY <2>1, <2>2, <1>1, <1>6, Concatenation, SequenceDomain DEF TypedWire
    <2>4. Len(wire) + 2 \in DOMAIN wire'
        BY <2>2, <2>3, <1>5, <1>6
    <2> QED BY <2>3, <2>4, <1>3 DEF Interrupts
<1>10. ~loading => "approval" \in doubt'
    BY <1>1, <1>2 DEF EndComesLast
<1> QED BY <1>8, <1>9, <1>10 DEF QuestionIsSomewhere

LEMMA EndFailKeepsQuestion ==
    ASSUME QuestionInv, End \/ Fail
    PROVE  EndComesLast' /\ QuestionIsSomewhere'
<1>1. TypedWire /\ EndComesLast
    BY TypedWireHolds DEF QuestionInv, ProtocolInv
<1>2. PICK e : e.kind \in {"done", "error"} /\ Send(<<e>>)
    BY DEF End, Fail, Event
<1>3. /\ run # "none" /\ run' = "none" /\ UNCHANGED <<asks, loading, queued, Offered>>
      /\ (run = "end" /\ UNCHANGED doubt) \/ (asks # {} => "approval" \in doubt')
    BY DEF End, Fail, thread, Offered
<1>4. ~TracksCall(e)
    BY <1>2 DEF TracksCall
<1>5. Interrupts' = Interrupts
    <2>1. IsSequence(<<e>>) /\ \A i \in DOMAIN <<e>> : <<e>>[i].kind # "interrupt" /\ ~TracksCall(<<e>>[i])
        BY <1>2, <1>4, Singleton
    <2> QED BY <1>1, <1>2, <1>3, <2>1, QuietSend
<1>6. QuestionIsSomewhere'
    BY <1>3, <1>5 DEF QuestionInv, QuestionIsSomewhere
<1>7. Endings = {}
    BY <1>1, <1>3, NoEndingYet
<1>8. ASSUME NEW i \in Endings'
      PROVE  i = Len(wire')
    <2>1. CASE loading
        <3>1. wire' = wire \o <<e>> /\ Len(<<e>>) = 1
            BY <1>2, <2>1, Singleton DEF Send
        <3>2. /\ Len(wire') = Len(wire) + 1
              /\ \A j \in 1..Len(wire) : wire'[j] = wire[j]
              /\ DOMAIN wire' = 1..Len(wire) + 1 /\ DOMAIN wire = 1..Len(wire) /\ Len(wire) \in Nat
            BY <3>1, <1>1, Concatenation, Singleton, SequenceDomain DEF TypedWire
        <3>3. i \in 1..Len(wire) => wire[i].kind \in {"done", "error"}
            BY <3>2 DEF Endings
        <3>4. i \notin 1..Len(wire)
            BY <3>2, <3>3, <1>7 DEF Endings
        <3>5. i \in 1..Len(wire) + 1
            BY <3>2 DEF Endings
        <3> QED BY <3>2, <3>4, <3>5
    <2>2. CASE ~loading
        BY <1>2, <1>7, <2>2 DEF Send, Endings
    <2> QED BY <2>1, <2>2 DEF TypedWire
<1>9. EndComesLast'
    BY <1>3, <1>8 DEF EndComesLast, Endings
<1> QED BY <1>6, <1>9

LEMMA EventKeepsQuestion ==
    ASSUME QuestionInv, MessageEvent \/ ValuesEvent
    PROVE  EndComesLast' /\ QuestionIsSomewhere'
<1>1. TypedWire /\ EndComesLast
    BY TypedWireHolds DEF QuestionInv, ProtocolInv
<1>2. /\ loading /\ wire # <<>> /\ wire' = Tail(wire) /\ Head(wire).kind \in {"messages", "values"}
      /\ UNCHANGED <<asks, run, loading, queued, Offered>>
      /\ doubt' \in {doubt, doubt \ {"subagents"}}
    BY DEF MessageEvent, ValuesEvent, Incoming, server, Offered
<1>3. EndComesLast'
    BY <1>1, <1>2, EndStaysLast
<1>4. Interrupts # {} => Interrupts' # {}
    <2>1. /\ 1 \in DOMAIN wire /\ Head(wire) = wire[1]
          /\ \A i \in Interrupts : i \in Nat /\ (i = 1 \/ i - 1 \in Interrupts')
        BY <1>1, <1>2, Processing
    <2>2. 1 \notin Interrupts
        BY <1>2, <2>1 DEF Interrupts
    <2> QED BY <2>1, <2>2
<1> QED BY <1>2, <1>3, <1>4 DEF QuestionInv, QuestionIsSomewhere

LEMMA InterruptKeepsQuestion ==
    ASSUME QuestionInv, InterruptEvent
    PROVE  EndComesLast' /\ QuestionIsSomewhere'
<1>1. TypedWire /\ EndComesLast
    BY TypedWireHolds DEF QuestionInv, ProtocolInv
<1>2. /\ loading /\ wire # <<>> /\ wire' = Tail(wire) /\ Head(wire).kind = "interrupt"
      /\ UNCHANGED <<asks, run, loading>>
    BY DEF InterruptEvent, Incoming, server
<1>3. EndComesLast'
    BY <1>1, <1>2, EndStaysLast
<1>4. Offered' \in asks'
    BY <1>2, InterruptAsks DEF QuestionInv
<1> QED BY <1>3, <1>4 DEF QuestionIsSomewhere

LEMMA StreamEndKeepsQuestion ==
    ASSUME QuestionInv, DoneOrError \/ Stop
    PROVE  EndComesLast' /\ QuestionIsSomewhere'
<1>1. TypedWire /\ EndComesLast
    BY TypedWireHolds DEF QuestionInv, ProtocolInv
<1>2. loading /\ StreamEnds /\ UNCHANGED <<asks, Offered>>
    BY StreamEndSteps
<1>3. doubt' = Aspects \/ (run = "none" /\ Interrupts = {} /\ UNCHANGED doubt)
    <2>1. CASE Stop
        BY <2>1 DEF Stop, Interrupts
    <2>2. CASE DoneOrError
        <3>1. wire # <<>> /\ Head(wire).kind \in {"done", "error"} /\ UNCHANGED doubt
            BY <2>2 DEF DoneOrError, Incoming
        <3>2. DOMAIN wire = 1..Len(wire) /\ Head(wire) = wire[1] /\ 1 \in DOMAIN wire
            BY <1>1, <3>1, RestOf DEF TypedWire
        <3>3. run = "none" /\ Len(wire) = 1
            BY <1>1, <3>1, <3>2 DEF EndComesLast
        <3>4. Interrupts = {}
            BY <3>1, <3>2, <3>3 DEF Interrupts
        <3> QED BY <3>1, <3>3, <3>4
    <2> QED BY <2>1, <2>2
<1>4. wire' = <<>> /\ DOMAIN wire' = {}
    BY <1>2, Empty DEF StreamEnds, Open
<1>5. CASE queued # None
    <2>1. loading' = TRUE /\ run' = "resume"
        BY <1>2, <1>5 DEF StreamEnds, Open
    <2> QED BY <2>1, <1>4 DEF EndComesLast, QuestionIsSomewhere
<1>6. CASE queued = None
    <2>1. run' = run
        BY <1>2, <1>6 DEF StreamEnds
    <2>2. EndComesLast'
        BY <1>3, <1>4, <2>1 DEF EndComesLast, Aspects
    <2>3. QuestionIsSomewhere'
        BY <1>2, <1>3, <1>6, <2>1 DEF QuestionInv, QuestionIsSomewhere, Aspects
    <2> QED BY <2>2, <2>3
<1> QED BY <1>5, <1>6

LEMMA OpenKeepsQuestion ==
    ASSUME QuestionInv, Submit \/ (\E d \in Decisions : Decide(d)) \/ Reload
    PROVE  EndComesLast' /\ QuestionIsSomewhere'
<1>1. CASE Submit
    <2>1. loading' = TRUE /\ wire' = <<>> /\ run' = "begin"
        BY <1>1 DEF Submit, Open
    <2> QED BY <2>1, Empty DEF EndComesLast, QuestionIsSomewhere
<1>2. ASSUME NEW d \in Decisions, Decide(d)
      PROVE  EndComesLast' /\ QuestionIsSomewhere'
    <2>1. CASE loading
        <3>1. queued' = d /\ UNCHANGED <<run, wire, loading, doubt>>
            BY <1>2, <2>1 DEF Decide, server
        <3>2. d # None
            BY ConversationAssumption
        <3> QED BY <3>1, <3>2 DEF QuestionInv, EndComesLast, QuestionIsSomewhere
    <2>2. CASE ~loading
        <3>1. loading' = TRUE /\ wire' = <<>> /\ run' = "resume"
            BY <1>2, <2>2 DEF Decide, Open
        <3> QED BY <3>1, Empty DEF EndComesLast, QuestionIsSomewhere
    <2> QED BY <2>1, <2>2
<1>3. CASE Reload
    <2>1. wire' = <<>> /\ doubt' = Aspects
        BY <1>3 DEF Reload
    <2> QED BY <2>1, Empty DEF EndComesLast, QuestionIsSomewhere, Aspects
<1> QED BY <1>1, <1>2, <1>3

LEMMA AsideKeepsQuestion ==
    ASSUME QuestionInv,
           \/ Leave \/ Return
           \/ \E i \in DOMAIN loads : ReadHistory(i) \/ HistoryAnswer(i) \/ HistoryFails(i)
           \/ UNCHANGED vars
    PROVE  EndComesLast' /\ QuestionIsSomewhere'
<1>1. Aside
    BY AsideSteps
<1>2. /\ "approval" \in doubt => "approval" \in doubt'
      /\ Offered' = Offered \/ "approval" \in doubt'
    <2>1. CASE UNCHANGED <<doubt, pending>>
        BY <2>1 DEF Offered
    <2>2. ASSUME NEW i \in DOMAIN loads, HistoryAnswer(i) PROVE <1>2
        BY <2>2 DEF HistoryAnswer
    <2> QED BY <2>1, <2>2 DEF Leave, Return, ReadHistory, HistoryFails, vars, thread
<1>3. Interrupts' = Interrupts
    BY <1>1 DEF Aside, Interrupts
<1> QED BY <1>1, <1>2, <1>3 DEF QuestionInv, EndComesLast, QuestionIsSomewhere, Aside

LEMMA QuestionInit == Init => QuestionInv
BY ProtocolInit, Empty DEF QuestionInv, EndComesLast, QuestionIsSomewhere, Init

LEMMA QuestionNext == QuestionInv /\ [Next]_vars => QuestionInv'
<1> SUFFICES ASSUME QuestionInv, [Next]_vars PROVE QuestionInv'
    OBVIOUS
<1>1. ProtocolInv'
    BY ProtocolNext DEF QuestionInv
<1>2. EndComesLast' /\ QuestionIsSomewhere'
    BY AgentKeepsQuestion, SaveAnswerKeepsQuestion, EndFailKeepsQuestion, EventKeepsQuestion,
       InterruptKeepsQuestion, StreamEndKeepsQuestion, OpenKeepsQuestion, AsideKeepsQuestion
    DEF Next
<1> QED BY <1>1, <1>2 DEF QuestionInv

\* No question gets lost between the agent that asks it and the approval in the
\* thread's state: with the stream over, the approval there is for one of the
\* calls the agent waits for, in whatever order answers, interrupts, decisions,
\* history loads and switches of the thread have come, unless a stop, an error,
\* a reloaded page or a restored approval put it in doubt. QuestionIsOffered adds that the message
\* with the call is displayed.
THEOREM QuestionReachesApproval == Spec => []ApprovalIsPending
<1>1. QuestionInv => ApprovalIsPending
    BY DEF QuestionInv, ProtocolInv, ClosedIsQuiet, QuestionIsSomewhere, ApprovalIsPending, Interrupts
<1> QED BY <1>1, QuestionInit, QuestionNext, PTL DEF Spec

\* Every message is of a user, an answer, or a tool's result; n have been made.
Written(n) ==
    [id : (1..n) \X {0, -1}, role : {"user"}, calls : {<<>>}]
    \cup [id : (1..n) \X {0}, role : {"assistant"}, calls : Plans]
    \cup [id : (1..n) \X (Nat \ {0}), role : {"tool"}, calls : {<<>>}]

Text == Messages({"user", "assistant", "tool"})

SentOn(w) == UNION {ToSet(w[i].msgs) : i \in DOMAIN w}

Everywhere == ToSet(saved) \cup ToSet(writing) \cup ToSet(local) \cup ToSet(streamed) \cup SentOn(wire)

\* The messages: sequences of written ones.
MessagesTyped ==
    /\ saved \in Seq(Text) /\ writing \in Seq(Text) /\ local \in Seq(Text)
    /\ streamed \in Seq(Messages({"assistant", "tool"}))
    /\ made \in 0..MaxMessages /\ Everywhere \subseteq Written(made)

\* Only what this code sends is on the wire: one message, or a beginning of what is saved.
EventTyped(e, all) ==
    /\ e.kind \in {"messages", "values", "interrupt", "done", "error"}
    /\ e.kind = "messages" => \E m \in Messages({"assistant", "tool"}) : e.msgs = <<m>>
    /\ e.kind = "values" => \E n \in 0..Len(all) : e.msgs = SubSeq(all, 1, n)
    /\ e.kind \notin {"messages", "values"} => e.msgs = <<>>

EventsTyped(w, all) == \A i \in DOMAIN w : EventTyped(w[i], all)

WireTyped == EventsTyped(wire, saved)

\* Which messages a run has not saved yet.
WritingIs ==
    /\ run \in {"none", "end", "resume"} => writing = <<>>
    /\ run = "begin" => \E n \in 1..made : writing = <<Message(<<n, 0>>, "user", <<>>)>>
    /\ run = "tools" => \A m \in ToSet(writing) : m.role = "tool"

\* A message is the same wherever it is.
Agreement == \A m, n \in Everywhere : m.id = n.id => m = n

\* The rest of the variables; the approval is about calls in the checkpoint.
StateTyped ==
    /\ asks \subseteq CallsIn(saved, "execute")
    /\ tracked \in MessageIds \cup {None} /\ pending \in MessageIds \cup {None, Unmatched}
    /\ active \cup subagents \subseteq ((1..made) \X Int) \X {"running", "completed"}
    /\ loads \in Seq(Nat \cup {-1}) /\ \A i \in DOMAIN loads : loads[i] <= Len(saved)
    /\ moves \in 0..MaxMoves /\ mounted \in BOOLEAN /\ doubt \subseteq Aspects

TypesInv == MessagesTyped /\ WireTyped /\ WritingIs /\ Agreement /\ StateTyped

-----------------------------------------------------------------------------
\* The entries of a sequence.
LEMMA EntriesOfEmpty == ToSet(<<>>) = {}
BY Empty DEF ToSet

LEMMA EntriesOfOne ==
    ASSUME NEW e
    PROVE  ToSet(<<e>>) = {e}
BY Singleton DEF ToSet

LEMMA EntriesOfBoth ==
    ASSUME NEW T, NEW s \in Seq(T), NEW t \in Seq(T)
    PROVE  ToSet(s \o t) = ToSet(s) \cup ToSet(t) /\ s \o t \in Seq(T)
<1>1. IsSequence(s) /\ IsSequence(t) /\ DOMAIN s = 1..Len(s) /\ DOMAIN t = 1..Len(t)
      /\ Len(s) \in Nat /\ Len(t) \in Nat
    BY IsSequenceOf
<1>2. /\ DOMAIN (s \o t) = 1..Len(s) + Len(t)
      /\ \A i \in 1..Len(s) : (s \o t)[i] = s[i]
      /\ \A i \in 1..Len(t) : (s \o t)[Len(s) + i] = t[i]
      /\ \A i \in DOMAIN (s \o t) : i \in 1..Len(s) \/ i - Len(s) \in 1..Len(t)
    BY <1>1, Concatenation
<1>3. ASSUME NEW i \in DOMAIN (s \o t)
      PROVE  (s \o t)[i] \in ToSet(s) \cup ToSet(t)
    <2>1. CASE i \in 1..Len(s)
        BY <2>1, <1>1, <1>2 DEF ToSet
    <2>2. CASE i - Len(s) \in 1..Len(t)
        <3>1. i = Len(s) + (i - Len(s))
            BY <1>1, <1>2
        <3>2. (s \o t)[i] = t[i - Len(s)]
            BY <2>2, <3>1, <1>2
        <3> QED BY <2>2, <3>2, <1>1 DEF ToSet
    <2> QED BY <2>1, <2>2, <1>2
<1>4. ASSUME NEW i \in DOMAIN s
      PROVE  s[i] \in ToSet(s \o t)
    <2>1. i \in DOMAIN (s \o t) /\ (s \o t)[i] = s[i]
        BY <1>1, <1>2
    <2> QED BY <2>1 DEF ToSet
<1>5. ASSUME NEW i \in DOMAIN t
      PROVE  t[i] \in ToSet(s \o t)
    <2>1. Len(s) + i \in DOMAIN (s \o t) /\ (s \o t)[Len(s) + i] = t[i]
        BY <1>1, <1>2
    <2> QED BY <2>1 DEF ToSet
<1>6. s \o t \in Seq(T)
    OBVIOUS
<1> QED BY <1>3, <1>4, <1>5, <1>6 DEF ToSet

LEMMA EntriesOfAppend ==
    ASSUME NEW T, NEW s \in Seq(T), NEW e \in T
    PROVE  ToSet(Append(s, e)) = ToSet(s) \cup {e} /\ Append(s, e) \in Seq(T)
<1>1. Append(s, e) = s \o <<e>> /\ <<e>> \in Seq(T)
    BY AppendIsConcat
<1> DEFINE t == <<e>>
<1>2. ToSet(t) = {e}
    BY EntriesOfOne
<1>3. t \in Seq(T) /\ Append(s, e) = s \o t
    BY <1>1
<1> HIDE DEF t
<1>4. ToSet(s \o t) = ToSet(s) \cup ToSet(t) /\ s \o t \in Seq(T)
    BY <1>3, EntriesOfBoth
<1> QED BY <1>2, <1>3, <1>4

\* The first n of s.
LEMMA EntriesOfFirst ==
    ASSUME NEW T, NEW s \in Seq(T), NEW n \in 0..Len(s)
    PROVE  /\ SubSeq(s, 1, n) \in Seq(T) /\ ToSet(SubSeq(s, 1, n)) \subseteq ToSet(s)
           /\ Len(SubSeq(s, 1, n)) = n /\ DOMAIN SubSeq(s, 1, n) = 1..n
           /\ \A i \in 1..n : SubSeq(s, 1, n)[i] = s[i] /\ i \in DOMAIN s
<1>1. Len(s) \in Nat /\ DOMAIN s = 1..Len(s) /\ n \in Nat
    OBVIOUS
<1>2. SubSeq(s, 1, n) \in Seq(T) /\ Len(SubSeq(s, 1, n)) = n
      /\ \A i \in 1..n : SubSeq(s, 1, n)[i] = s[i]
    <2>1. \A i \in 1..n : s[i] \in T
        BY <1>1
    <2>2. /\ SubSeq(s, 1, n) \in Seq(T)
          /\ Len(SubSeq(s, 1, n)) = IF 1 <= n THEN n - 1 + 1 ELSE 0
          /\ \A i \in 1..(n - 1 + 1) : SubSeq(s, 1, n)[i] = s[1 + i - 1]
        BY <1>1, <2>1, SubSeqProperties
    <2>3. n - 1 + 1 = n /\ \A i \in 1..n : 1 + i - 1 = i
        BY <1>1
    <2> QED BY <1>1, <2>2, <2>3
<1>3. DOMAIN SubSeq(s, 1, n) = 1..n
    BY <1>2
<1> QED BY <1>1, <1>2, <1>3 DEF ToSet

LEMMA EntriesTyped ==
    ASSUME NEW T, NEW s \in Seq(T)
    PROVE  ToSet(s) \subseteq T
BY DEF ToSet

LEMMA EntriesTyping ==
    ASSUME NEW T, NEW U, NEW s \in Seq(T), ToSet(s) \subseteq U
    PROVE  s \in Seq(U)
<1>1. Len(s) \in Nat /\ DOMAIN s = 1..Len(s)
    OBVIOUS
<1>2. \A i \in 1..Len(s) : s[i] \in U
    BY <1>1 DEF ToSet
<1> QED BY <1>1, <1>2

LEMMA FirstEntry ==
    ASSUME NEW T, NEW s \in Seq(T), s # <<>>
    PROVE  /\ Tail(s) \in Seq(T) /\ Head(s) \in ToSet(s)
           /\ ToSet(Tail(s)) \subseteq ToSet(s) /\ ToSet(s) = {Head(s)} \cup ToSet(Tail(s))
<1>1. IsSequence(s)
    BY IsSequenceOf
<1>2. /\ Len(s) \in Nat \ {0} /\ Len(Tail(s)) = Len(s) - 1
      /\ DOMAIN s = 1..Len(s) /\ DOMAIN Tail(s) = 1..Len(s) - 1
      /\ Head(s) = s[1] /\ \A i \in 1..Len(s) - 1 : Tail(s)[i] = s[i + 1]
    BY <1>1, RestOf
<1>3. \A i \in DOMAIN s : i = 1 \/ (i - 1 \in DOMAIN Tail(s) /\ Tail(s)[i - 1] = s[i])
    <2> SUFFICES ASSUME NEW i \in DOMAIN s, i # 1
                 PROVE  i - 1 \in DOMAIN Tail(s) /\ Tail(s)[i - 1] = s[i]
        OBVIOUS
    <2>1. i - 1 \in 1..Len(s) - 1 /\ (i - 1) + 1 = i
        BY <1>2
    <2> QED BY <2>1, <1>2
<1>4. \A i \in DOMAIN Tail(s) : i + 1 \in DOMAIN s /\ Tail(s)[i] = s[i + 1]
    BY <1>2
<1>5. Tail(s) \in Seq(T) /\ 1 \in DOMAIN s
    BY <1>2
<1>6. Head(s) \in ToSet(s)
    BY <1>2, <1>5 DEF ToSet
<1>7. ToSet(Tail(s)) \subseteq ToSet(s)
    BY <1>4 DEF ToSet
<1>8. \A e \in ToSet(s) : e = Head(s) \/ e \in ToSet(Tail(s))
    BY <1>2, <1>3 DEF ToSet
<1> QED BY <1>5, <1>6, <1>7, <1>8

\* A finite set as a sequence.
LEMMA EntriesOfSet ==
    ASSUME NEW S, IsFiniteSet(S)
    PROVE  SetToSeq(S) \in Seq(S) /\ ToSet(SetToSeq(S)) = S
           /\ \A i, j \in DOMAIN SetToSeq(S) : SetToSeq(S)[i] = SetToSeq(S)[j] => i = j
<1> DEFINE n == Cardinality(S)
           f == SetToSeq(S)
<1>1. n \in Nat /\ ExistsBijection(1..n, S)
    BY FS_CardinalityType
<1>2. PICK g \in Bijection(1..n, S) : TRUE
    BY <1>1 DEF ExistsBijection
<1>3. g \in [1..n -> S] /\ IsInjective(g)
    BY <1>2 DEF Bijection, Injection, IsInjective
<1>4. f \in [1..n -> S] /\ IsInjective(f)
    BY <1>3 DEF SetToSeq
<1>5. f \in Injection(1..n, S)
    BY <1>4 DEF Injection, IsInjective
<1>6. f \in Surjection(1..n, S)
    <2>1. IsFiniteSet(1..n) /\ Cardinality(1..n) = n
        BY <1>1, FS_Interval
    <2> HIDE DEF f
    <2> QED BY <1>5, <2>1, FS_Injection
<1> HIDE DEF f
<1>7. ToSet(f) = S
    BY <1>4, <1>6 DEF Surjection, ToSet
<1>8. \A i, j \in DOMAIN f : f[i] = f[j] => i = j
    BY <1>4 DEF IsInjective
<1>9. f \in Seq(S)
    BY <1>1, <1>4, SeqDef
<1> QED BY <1>7, <1>8, <1>9 DEF f

-----------------------------------------------------------------------------
\* Messages and their calls.
LEMMA WrittenIs ==
    ASSUME NEW n, n \in 0..MaxMessages, NEW m, m \in Written(n)
    PROVE  /\ m \in Text /\ m.id[1] \in 1..n /\ m.id[2] \in Int /\ m.id = <<m.id[1], m.id[2]>>
           /\ m.role \in {"user", "assistant", "tool"}
           /\ m.role # "user" => m \in Messages({"assistant", "tool"})
           /\ m.role = "user" => m.id[2] \in {0, -1} /\ m.calls = <<>>
           /\ m.role = "assistant" => m.id[2] = 0 /\ m.calls \in Plans
           /\ m.role = "tool" => m.id[2] \in Nat \ {0} /\ m = ToolResult(m.id)
           /\ m.id[2] \in Nat \ {0} => m.role = "tool"
<1>1. MaxMessages \in Nat /\ 1..n \subseteq 1..MaxMessages
    BY ConversationAssumption
<1>2. CASE m \in [id : (1..n) \X {0, -1}, role : {"user"}, calls : {<<>>}]
    BY <1>1, <1>2 DEF Text, Messages, MessageIds
<1>3. CASE m \in [id : (1..n) \X {0}, role : {"assistant"}, calls : Plans]
    BY <1>1, <1>3 DEF Text, Messages, MessageIds
<1>4. CASE m \in [id : (1..n) \X (Nat \ {0}), role : {"tool"}, calls : {<<>>}]
    BY <1>1, <1>4 DEF Text, Messages, MessageIds, ToolResult, Message
<1> QED BY <1>2, <1>3, <1>4 DEF Written

LEMMA WrittenGrows ==
    ASSUME NEW n, NEW k, n \in Nat, k \in Nat, n <= k
    PROVE  Written(n) \subseteq Written(k)
<1>1. 1..n \subseteq 1..k
    OBVIOUS
<1> QED BY <1>1 DEF Written

LEMMA CallsOfWritten ==
    ASSUME NEW n, n \in 0..MaxMessages, NEW m, m \in Written(n), NEW name
    PROVE  /\ CallsOf(m, name) \subseteq {m.id[1]} \X (Nat \ {0}) /\ IsFiniteSet(CallsOf(m, name))
           /\ CallsOf(m, name) # {} => m.role = "assistant"
<1> DEFINE J == {j \in DOMAIN m.calls : m.calls[j] = name}
           C == CallsOf(m, name)
           f == [j \in J |-> <<m.id[1], j>>]
<1>1. m.calls \in Seq({"execute", "task"}) /\ (m.role # "assistant" => m.calls = <<>>)
    <2>1. m.role \in {"user", "assistant", "tool"} /\ (m.role = "tool" => m.calls = <<>>)
        BY WrittenIs DEF ToolResult, Message
    <2>2. m.role # "assistant" => m.calls = <<>>
        BY <2>1, WrittenIs
    <2>3. m.role = "assistant" => m.calls \in Plans
        BY WrittenIs
    <2>4. <<>> \in Seq({"execute", "task"})
        OBVIOUS
    <2> QED BY <2>2, <2>3, <2>4, ConversationAssumption
<1>2. Len(m.calls) \in Nat /\ DOMAIN m.calls = 1..Len(m.calls)
    BY <1>1
<1>3. C = {<<m.id[1], j>> : j \in J}
    BY DEF CallsOf
<1>4. J \subseteq 1..Len(m.calls)
    BY <1>2
<1>5. IsFiniteSet(J)
    <2> DEFINE I == 1..Len(m.calls)
    <2>1. IsFiniteSet(I)
        BY <1>2, FS_Interval
    <2>2. J \in SUBSET I
        BY <1>4
    <2> HIDE DEF I, J
    <2> QED BY <2>1, <2>2, FS_Subset
<1>6. m.role # "assistant" => J = {}
    <2> SUFFICES ASSUME m.role # "assistant" PROVE J = {}
        OBVIOUS
    <2>1. m.calls = <<>>
        BY <1>1
    <2>2. DOMAIN m.calls = {}
        BY <2>1, Empty
    <2> QED BY <2>2
<1> HIDE DEF J, C
<1>7. f \in Surjection(J, C)
    BY <1>3 DEF Surjection
<1>8. IsFiniteSet(C)
    <2> HIDE DEF f
    <2> QED BY <1>5, <1>7, FS_Surjection
<1>9. C \subseteq {m.id[1]} \X (Nat \ {0})
    <2>1. J \subseteq Nat \ {0}
        BY <1>2, <1>4
    <2> QED BY <1>3, <2>1
<1> QED BY <1>3, <1>6, <1>8, <1>9 DEF C

LEMMA CallsInEntries ==
    ASSUME NEW s, NEW name, NEW c
    PROVE  c \in CallsIn(s, name) <=> \E m \in ToSet(s) : c \in CallsOf(m, name)
BY DEF CallsIn, ToSet

LEMMA IdsOfEntries ==
    ASSUME NEW s, NEW x
    PROVE  x \in Ids(s) <=> \E m \in ToSet(s) : x = m.id
BY DEF Ids, ToSet

LEMMA CallsAreFinite ==
    ASSUME NEW n, n \in 0..MaxMessages, NEW T, NEW s \in Seq(T), ToSet(s) \subseteq Written(n), NEW name
    PROVE  IsFiniteSet(CallsIn(s, name)) /\ CallsIn(s, name) \subseteq (1..n) \X (Nat \ {0})
<1> DEFINE I == 1..Len(s)
           P == {CallsOf(s[i], name) : i \in I}
           f == [i \in I |-> CallsOf(s[i], name)]
<1>1. Len(s) \in Nat /\ DOMAIN s = I
    OBVIOUS
<1>2. IsFiniteSet(I)
    BY <1>1, FS_Interval
<1>3. CallsIn(s, name) = UNION P
    BY <1>1 DEF CallsIn
<1>4. \A i \in I : s[i] \in Written(n)
    BY <1>1 DEF ToSet
<1>5. \A i \in I : IsFiniteSet(CallsOf(s[i], name))
    BY <1>4, CallsOfWritten
<1>6. \A i \in I : CallsOf(s[i], name) \subseteq (1..n) \X (Nat \ {0})
    <2> SUFFICES ASSUME NEW i \in I PROVE CallsOf(s[i], name) \subseteq (1..n) \X (Nat \ {0})
        OBVIOUS
    <2> DEFINE m == s[i]
    <2>1. m \in Written(n)
        BY <1>4
    <2> HIDE DEF m
    <2>2. CallsOf(m, name) \subseteq {m.id[1]} \X (Nat \ {0}) /\ m.id[1] \in 1..n
        BY <2>1, CallsOfWritten, WrittenIs
    <2>3. CallsOf(m, name) \subseteq (1..n) \X (Nat \ {0})
        BY <2>2
    <2> QED BY <2>3 DEF m
<1>7. f \in Surjection(I, P)
    BY DEF Surjection
<1> HIDE DEF I
<1>8. \A C \in P : IsFiniteSet(C)
    BY <1>5
<1> HIDE DEF P, f
<1>9. IsFiniteSet(P)
    BY <1>2, <1>7, FS_Surjection
<1>10. IsFiniteSet(UNION P)
    BY <1>8, <1>9, FS_UNION
<1>11. UNION P \subseteq (1..n) \X (Nat \ {0})
    BY <1>6 DEF P
<1> QED BY <1>3, <1>10, <1>11

LEMMA UnansweredIsFinite ==
    ASSUME NEW n, n \in 0..MaxMessages, NEW T, NEW s \in Seq(T), ToSet(s) \subseteq Written(n)
    PROVE  IsFiniteSet(Unanswered(s)) /\ Unanswered(s) \subseteq (1..n) \X (Nat \ {0})
<1> DEFINE C == CallsIn(s, "execute")
           U == CallsIn(s, "task")
<1>1. IsFiniteSet(C) /\ C \subseteq (1..n) \X (Nat \ {0})
    BY CallsAreFinite
<1>2. IsFiniteSet(U) /\ U \subseteq (1..n) \X (Nat \ {0})
    BY CallsAreFinite
<1>3. Unanswered(s) = (C \cup U) \ Ids(s)
    BY DEF Unanswered
<1> HIDE DEF C, U
<1>4. IsFiniteSet(C \cup U)
    BY <1>1, <1>2, FS_Union
<1> QED BY <1>1, <1>2, <1>3, <1>4, FS_Subset

LEMMA ResultIsWritten ==
    ASSUME NEW n, n \in Nat, NEW c, c \in (1..n) \X (Nat \ {0})
    PROVE  ToolResult(c) \in Written(n) /\ ToolResult(c).id = c /\ ToolResult(c).role = "tool"
BY DEF ToolResult, Message, Written

\* Results for a finite set of calls.
LEMMA ResultsOf ==
    ASSUME NEW n, n \in 0..MaxMessages, NEW C, IsFiniteSet(C), C \subseteq (1..n) \X (Nat \ {0}),
           NEW r, r = SetToSeq({ToolResult(c) : c \in C})
    PROVE  /\ r \in Seq(Text) /\ ToSet(r) = {ToolResult(c) : c \in C} /\ ToSet(r) \subseteq Written(n)
           /\ \A m \in ToSet(r) : m.role = "tool" /\ m.id \in C
<1> DEFINE R == {ToolResult(c) : c \in C}
           f == [c \in C |-> ToolResult(c)]
<1>0. f \in Surjection(C, R)
    BY DEF Surjection
<1>1. IsFiniteSet(R)
    <2> HIDE DEF f, R
    <2> QED BY <1>0, FS_Surjection
<1>2. n \in Nat
    BY ConversationAssumption
<1>3. \A c \in C : ToolResult(c) \in Written(n) /\ ToolResult(c).id = c /\ ToolResult(c).role = "tool"
    BY <1>2, ResultIsWritten
<1>4. R \subseteq Written(n) /\ \A m \in R : m.role = "tool" /\ m.id \in C
    BY <1>3
<1> HIDE DEF R, f
<1>5. r \in Seq(R) /\ ToSet(r) = R
    BY <1>1, EntriesOfSet DEF R
<1>6. ToSet(r) \subseteq Text
    BY <1>4, <1>5, WrittenIs
<1>7. r \in Seq(Text)
    BY <1>5, <1>6, EntriesTyping
<1> QED BY <1>4, <1>5, <1>7 DEF R

\* d is s and then those entries of t, in their order, that s does not have:
\* h says where they were.
Joined(d, s, t, n, u, h) ==
    /\ d = s \o u /\ h \in [1..Len(u) -> 1..n]
    /\ \A i \in 1..Len(u) : u[i] = t[h[i]] /\ u[i] \notin ToSet(s)
    /\ \A i, j \in 1..Len(u) : i < j => h[i] < h[j]
    /\ \A p \in 1..n : t[p] \in ToSet(s) \cup ToSet(u)

IsJoined(f, s, t, m) ==
    f = [n \in 0..m |-> IF n = 0 THEN s ELSE appendMessage(f[n - 1], t[n])]

LEMMA SomethingIsJoined ==
    ASSUME NEW s, NEW t, NEW m \in Nat
    PROVE  \E f : IsJoined(f, s, t, m)
<1> DEFINE B == {n \in 0..m : \E f : IsJoined(f, s, t, n)}
<1>1. 0 \in B
    <2>1. IsJoined([n \in 0..0 |-> s], s, t, 0)
        BY DEF IsJoined
    <2> QED BY <2>1
<1>2. ASSUME NEW k \in 1..m, k - 1 \in B
      PROVE  k \in B
    <2>1. PICK f : IsJoined(f, s, t, k - 1)
        BY <1>2
    <2> DEFINE x == appendMessage(f[k - 1], t[k])
               g == [n \in 0..k |-> IF n = k THEN x ELSE f[n]]
    <2>2. \A n \in 0..(k - 1) : g[n] = f[n]
        OBVIOUS
    <2>3. \A n \in 0..(k - 1) : f[n] = IF n = 0 THEN s ELSE appendMessage(f[n - 1], t[n])
        BY <2>1 DEF IsJoined
    <2>4. \A n \in 0..k : g[n] = IF n = 0 THEN s ELSE appendMessage(g[n - 1], t[n])
        <3> SUFFICES ASSUME NEW n \in 0..k
                     PROVE  g[n] = IF n = 0 THEN s ELSE appendMessage(g[n - 1], t[n])
            OBVIOUS
        <3>1. CASE n = k
            <4>1. g[k] = x /\ g[k - 1] = f[k - 1] /\ k # 0
                BY <2>2
            <4> QED BY <3>1, <4>1
        <3>2. CASE n # k
            <4>1. n \in 0..(k - 1) /\ (n # 0 => n - 1 \in 0..(k - 1))
                BY <3>2
            <4> QED BY <2>2, <2>3, <4>1
        <3> QED BY <3>1, <3>2
    <2>5. IsJoined(g, s, t, k)
        <3>1. g = [n \in 0..k |-> g[n]]
            OBVIOUS
        <3> HIDE DEF g
        <3> QED BY <2>4, <3>1 DEF IsJoined
    <2> QED BY <2>5
<1> HIDE DEF B
<1>3. 0..m \subseteq B
    BY <1>1, <1>2, Upwards
<1> QED BY <1>3 DEF B

LEMMA AppendAllSteps ==
    ASSUME NEW s, NEW t, Len(t) \in Nat
    PROVE  \E f : /\ f[0] = s /\ AppendAll(s, t) = f[Len(t)]
                  /\ \A n \in 1..Len(t) : f[n] = appendMessage(f[n - 1], t[n])
<1> DEFINE f == CHOOSE f : IsJoined(f, s, t, Len(t))
<1>1. AppendAll(s, t) = f[Len(t)]
    BY DEF AppendAll, IsJoined
<1>2. IsJoined(f, s, t, Len(t))
    BY SomethingIsJoined
<1> HIDE DEF f
<1>3. \A n \in 0..Len(t) : f[n] = IF n = 0 THEN s ELSE appendMessage(f[n - 1], t[n])
    BY <1>2 DEF IsJoined
<1>4. \A n \in 1..Len(t) : n \in 0..Len(t) /\ n # 0
    OBVIOUS
<1> QED BY <1>1, <1>3, <1>4

\* With messages that agree, appending replaces none by another.
LEMMA AppendMessageIs ==
    ASSUME NEW T, NEW s \in Seq(T), NEW m \in T, \A a \in ToSet(s) : a.id = m.id => a = m
    PROVE  appendMessage(s, m) = IF m \in ToSet(s) THEN s ELSE Append(s, m)
<1>1. Len(s) \in Nat /\ DOMAIN s = 1..Len(s)
    OBVIOUS
<1>2. m.id \in Ids(s) <=> m \in ToSet(s)
    BY IdsOfEntries
<1>3. CASE m \in ToSet(s)
    <2> DEFINE r == [i \in DOMAIN s |-> IF s[i].id = m.id THEN m ELSE s[i]]
    <2>1. \A i \in DOMAIN s : r[i] = s[i]
        BY DEF ToSet
    <2>2. s = [i \in DOMAIN s |-> s[i]]
        BY <1>1
    <2>3. r = s
        BY <2>1, <2>2
    <2> QED BY <1>2, <1>3, <2>3 DEF appendMessage
<1>4. CASE m \notin ToSet(s)
    BY <1>2, <1>4 DEF appendMessage
<1> QED BY <1>3, <1>4

LEMMA JoinedOneMore ==
    ASSUME NEW T, NEW s \in Seq(T), NEW t \in Seq(T), NEW n \in 1..Len(t), NEW u \in Seq(T), NEW h,
           NEW d, Joined(d, s, t, n - 1, u, h)
    PROVE  IF t[n] \in ToSet(d) THEN Joined(d, s, t, n, u, h)
           ELSE \E v, g : v \in Seq(T) /\ Joined(Append(d, t[n]), s, t, n, v, g)
<1> DEFINE k == Len(u)
           m == t[n]
<1>1. k \in Nat /\ n \in Nat /\ 1..(n - 1) \subseteq 1..n /\ n \in 1..n /\ m \in T
    OBVIOUS
<1>2. d \in Seq(T) /\ ToSet(d) = ToSet(s) \cup ToSet(u)
    BY EntriesOfBoth DEF Joined
<1>3. \A p \in 1..n : p = n \/ p \in 1..(n - 1)
    BY <1>1
<1>4. CASE m \in ToSet(d)
    <2>1. h \in [1..Len(u) -> 1..n]
        BY <1>1 DEF Joined
    <2>2. \A p \in 1..n : t[p] \in ToSet(s) \cup ToSet(u)
        BY <1>2, <1>3, <1>4 DEF Joined
    <2> QED BY <1>4, <2>1, <2>2 DEF Joined
<1>5. CASE m \notin ToSet(d)
    <2> DEFINE v == Append(u, m)
               g == [i \in 1..(k + 1) |-> IF i = k + 1 THEN n ELSE h[i]]
    <2>1. Len(v) = k + 1 /\ v[k + 1] = m /\ v \in Seq(T) /\ \A i \in 1..k : v[i] = u[i]
        BY <1>1
    <2>2. g[k + 1] = n /\ \A i \in 1..k : g[i] = h[i]
        BY <1>1
    <2>3. \A i \in 1..(k + 1) : i = k + 1 \/ i \in 1..k
        BY <1>1
    <2>4. \A i \in 1..k : h[i] \in 1..(n - 1)
        BY DEF Joined
    <2>5. g \in [1..(k + 1) -> 1..n]
        BY <1>1, <2>4
    <2>6. Append(d, m) = s \o v
        <3>0. d = s \o u
            BY DEF Joined
        <3>1. Append(s \o u, m) = s \o Append(u, m)
            <4> DEFINE o == <<m>>
            <4>1. o \in Seq(T) /\ s \o u \in Seq(T)
                BY <1>1
            <4>2. Append(u, m) = u \o o /\ Append(s \o u, m) = (s \o u) \o o
                BY <1>1, <4>1, AppendIsConcat
            <4> HIDE DEF o
            <4>3. (s \o u) \o o = s \o (u \o o)
                BY <4>1, ConcatAssociative
            <4> QED BY <4>2, <4>3
        <3> QED BY <3>0, <3>1
    <2>7. ToSet(v) = ToSet(u) \cup {m}
        BY <1>1, EntriesOfAppend
    <2>8. k = Len(u) /\ m = t[n]
        OBVIOUS
    <2> HIDE DEF v, g, k, m
    <2>9. \A i \in 1..Len(v) : v[i] = t[g[i]] /\ v[i] \notin ToSet(s)
        BY <1>2, <1>5, <2>1, <2>2, <2>3, <2>8 DEF Joined
    <2>10. ASSUME NEW i \in 1..Len(v), NEW j \in 1..Len(v), i < j PROVE g[i] < g[j]
        <3>1. i \in 1..k /\ (j = k + 1 \/ j \in 1..k)
            BY <1>1, <2>1, <2>10
        <3> QED BY <1>1, <2>2, <2>4, <2>8, <2>10, <3>1 DEF Joined
    <2>11. \A p \in 1..n : t[p] \in ToSet(s) \cup ToSet(v)
        BY <1>3, <2>7, <2>8 DEF Joined
    <2>12. Joined(Append(d, m), s, t, n, v, g)
        BY <2>1, <2>5, <2>6, <2>9, <2>10, <2>11 DEF Joined
    <2> QED BY <1>5, <2>1, <2>8, <2>12
<1> QED BY <1>4, <1>5

LEMMA AppendAllJoins ==
    ASSUME NEW T, NEW s \in Seq(T), NEW t \in Seq(T),
           \A a, b \in ToSet(s) \cup ToSet(t) : a.id = b.id => a = b
    PROVE  \E u, h : u \in Seq(T) /\ Joined(AppendAll(s, t), s, t, Len(t), u, h)
<1>0. Len(t) \in Nat /\ DOMAIN t = 1..Len(t)
    OBVIOUS
<1>1. PICK f : /\ f[0] = s /\ AppendAll(s, t) = f[Len(t)]
               /\ \A n \in 1..Len(t) : f[n] = appendMessage(f[n - 1], t[n])
    BY <1>0, AppendAllSteps
<1> DEFINE B == {n \in 0..Len(t) : \E u, h : u \in Seq(T) /\ Joined(f[n], s, t, n, u, h)}
<1>2. 0 \in B
    <2> DEFINE none == [i \in 1..0 |-> 0]
    <2>1. Len(<<>>) = 0 /\ <<>> \in Seq(T) /\ 1..0 = {} /\ s \o <<>> = s
        OBVIOUS
    <2>2. none \in [1..0 -> 1..0]
        BY <2>1
    <2> HIDE DEF none
    <2>3. Joined(f[0], s, t, 0, <<>>, none)
        BY <1>1, <2>1, <2>2 DEF Joined
    <2>4. \E u, h : u \in Seq(T) /\ Joined(f[0], s, t, 0, u, h)
        BY <2>1, <2>3
    <2> QED BY <1>0, <2>4
<1>3. ASSUME NEW n \in 1..Len(t), n - 1 \in B
      PROVE  n \in B
    <2> DEFINE d == f[n - 1]
               m == t[n]
    <2>1. PICK u, h : u \in Seq(T) /\ Joined(d, s, t, n - 1, u, h)
        BY <1>3
    <2>2. d \in Seq(T) /\ ToSet(d) = ToSet(s) \cup ToSet(u) /\ m \in T
        BY <1>0, <2>1, EntriesOfBoth DEF Joined
    <2>3. ToSet(u) \subseteq ToSet(t)
        <3>1. DOMAIN u = 1..Len(u)
            OBVIOUS
        <3>2. \A i \in 1..Len(u) : h[i] \in 1..(n - 1) /\ u[i] = t[h[i]]
            BY <2>1 DEF Joined
        <3>3. \A p \in 1..(n - 1) : p \in 1..Len(t)
            OBVIOUS
        <3> QED BY <1>0, <3>1, <3>2, <3>3 DEF ToSet
    <2>4. m \in ToSet(t)
        BY <1>0 DEF ToSet
    <2>5. f[n] = appendMessage(d, m)
        BY <1>1
    <2>6. m = t[n]
        OBVIOUS
    <2> HIDE DEF d, m
    <2>7. \A a \in ToSet(d) : a.id = m.id => a = m
        BY <2>2, <2>3, <2>4
    <2>8. f[n] = IF m \in ToSet(d) THEN d ELSE Append(d, m)
        BY <2>2, <2>5, <2>7, AppendMessageIs
    <2>9. IF t[n] \in ToSet(d) THEN Joined(d, s, t, n, u, h)
          ELSE \E v, g : v \in Seq(T) /\ Joined(Append(d, t[n]), s, t, n, v, g)
        BY <2>1, JoinedOneMore
    <2>10. \E v, g : v \in Seq(T) /\ Joined(f[n], s, t, n, v, g)
        BY <2>1, <2>6, <2>8, <2>9
    <2> QED BY <1>0, <2>10
<1> HIDE DEF B
<1>4. 0..Len(t) \subseteq B
    BY <1>0, <1>2, <1>3, Upwards
<1>5. Len(t) \in B
    BY <1>0, <1>4
<1> QED BY <1>1, <1>5 DEF B

LEMMA DisplayedJoins ==
    ASSUME NEW T, NEW s \in Seq(T), NEW t \in Seq(T),
           \A a, b \in ToSet(s) \cup ToSet(t) : a.id = b.id => a = b
    PROVE  \E u, h : u \in Seq(T) /\ Joined(Displayed(s, t), s, t, Len(t), u, h)
<1> DEFINE K == {m \in ToSet(t) : m.id \notin Ids(s)}
           u == Keeping(t, K)
<1>1. u \in Seq(T)
    BY KeepingPicks
<1>2. PICK h : Picks(u, t, K, Len(t), h)
    BY KeepingPicks
<1>3. Displayed(s, t) = s \o u
    BY DEF Displayed
<1>4. DOMAIN t = 1..Len(t) /\ DOMAIN u = 1..Len(u)
    BY <1>1
<1>5. \A m \in ToSet(t) : m \in K <=> m \notin ToSet(s)
    BY IdsOfEntries
<1> HIDE DEF K, u
<1>6. \A i \in 1..Len(u) : u[i] = t[h[i]] /\ u[i] \notin ToSet(s)
    <2> SUFFICES ASSUME NEW i \in 1..Len(u) PROVE u[i] = t[h[i]] /\ u[i] \notin ToSet(s)
        OBVIOUS
    <2>1. u[i] = t[h[i]] /\ t[h[i]] \in K /\ h[i] \in 1..Len(t)
        BY <1>2 DEF Picks
    <2>2. t[h[i]] \in ToSet(t)
        BY <1>4, <2>1 DEF ToSet
    <2> QED BY <1>5, <2>1, <2>2
<1>7. \A p \in 1..Len(t) : t[p] \in ToSet(s) \cup ToSet(u)
    <2> SUFFICES ASSUME NEW p \in 1..Len(t), t[p] \notin ToSet(s) PROVE t[p] \in ToSet(u)
        OBVIOUS
    <2>1. t[p] \in K
        BY <1>4, <1>5 DEF ToSet
    <2>2. PICK i \in 1..Len(u) : h[i] = p
        BY <1>2, <2>1 DEF Picks
    <2>3. u[i] = t[p]
        BY <1>2, <2>2 DEF Picks
    <2> QED BY <1>4, <2>3 DEF ToSet
<1>8. Joined(Displayed(s, t), s, t, Len(t), u, h)
    BY <1>2, <1>3, <1>6, <1>7 DEF Joined, Picks
<1> QED BY <1>1, <1>8

\* What is joined: the entries of both.
LEMMA JoinedEntries ==
    ASSUME NEW T, NEW s \in Seq(T), NEW t \in Seq(T), NEW d, NEW u \in Seq(T), NEW h,
           Joined(d, s, t, Len(t), u, h)
    PROVE  d \in Seq(T) /\ ToSet(d) = ToSet(s) \cup ToSet(t)
<1>1. DOMAIN t = 1..Len(t) /\ DOMAIN u = 1..Len(u)
    OBVIOUS
<1>2. d \in Seq(T) /\ ToSet(d) = ToSet(s) \cup ToSet(u)
    BY EntriesOfBoth DEF Joined
<1>3. \A i \in 1..Len(u) : h[i] \in 1..Len(t) /\ u[i] = t[h[i]]
    BY DEF Joined
<1>4. ToSet(u) \subseteq ToSet(t)
    BY <1>1, <1>3 DEF ToSet
<1>5. ToSet(t) \subseteq ToSet(s) \cup ToSet(u)
    BY <1>1 DEF Joined, ToSet
<1> QED BY <1>2, <1>4, <1>5

LEMMA EntriesAppended ==
    ASSUME NEW T, NEW s \in Seq(T), NEW t \in Seq(T),
           \A a, b \in ToSet(s) \cup ToSet(t) : a.id = b.id => a = b
    PROVE  AppendAll(s, t) \in Seq(T) /\ ToSet(AppendAll(s, t)) = ToSet(s) \cup ToSet(t)
<1> DEFINE d == AppendAll(s, t)
<1>1. PICK u, h : u \in Seq(T) /\ Joined(d, s, t, Len(t), u, h)
    BY AppendAllJoins
<1> HIDE DEF d
<1>2. d \in Seq(T) /\ ToSet(d) = ToSet(s) \cup ToSet(t)
    BY <1>1, JoinedEntries
<1> QED BY <1>2 DEF d

LEMMA EntriesDisplayed ==
    ASSUME NEW T, NEW s \in Seq(T), NEW t \in Seq(T),
           \A a, b \in ToSet(s) \cup ToSet(t) : a.id = b.id => a = b
    PROVE  Displayed(s, t) \in Seq(T) /\ ToSet(Displayed(s, t)) = ToSet(s) \cup ToSet(t)
<1> DEFINE d == Displayed(s, t)
<1>1. PICK u, h : u \in Seq(T) /\ Joined(d, s, t, Len(t), u, h)
    BY DisplayedJoins
<1> HIDE DEF d
<1>2. d \in Seq(T) /\ ToSet(d) = ToSet(s) \cup ToSet(t)
    BY <1>1, JoinedEntries
<1> QED BY <1>2 DEF d

\* What is kept, as entries.
LEMMA EntriesKept ==
    ASSUME NEW T, NEW s \in Seq(T), NEW S
    PROVE  Keeping(s, S) \in Seq(T) /\ ToSet(Keeping(s, S)) = ToSet(s) \cap S
<1> DEFINE k == Keeping(s, S)
<1>0. k = Keeping(s, S)
    OBVIOUS
<1> HIDE DEF k
<1>1. /\ k \in Seq(T)
      /\ \A i \in DOMAIN k : \E p \in DOMAIN s : k[i] = s[p] /\ s[p] \in S
      /\ \A p \in DOMAIN s : s[p] \in S => \E i \in DOMAIN k : k[i] = s[p]
    BY <1>0, KeepingKeeps
<1>2. ToSet(k) \subseteq ToSet(s) \cap S
    BY <1>1 DEF ToSet
<1>3. ToSet(s) \cap S \subseteq ToSet(k)
    BY <1>1 DEF ToSet
<1> QED BY <1>1, <1>2, <1>3 DEF k

\* Events one after the other.
LEMMA EventsOfBoth ==
    ASSUME NEW w, IsSequence(w), NEW v, IsSequence(v)
    PROVE  /\ SentOn(w \o v) = SentOn(w) \cup SentOn(v)
           /\ \A all : EventsTyped(w, all) /\ EventsTyped(v, all) => EventsTyped(w \o v, all)
<1>1. /\ DOMAIN w = 1..Len(w) /\ Len(w) \in Nat /\ DOMAIN v = 1..Len(v) /\ Len(v) \in Nat
    BY SequenceDomain
<1> DEFINE z == w \o v
<1>2. /\ DOMAIN z = 1..Len(w) + Len(v)
      /\ \A i \in 1..Len(w) : z[i] = w[i]
      /\ \A i \in 1..Len(v) : z[Len(w) + i] = v[i]
      /\ \A i \in DOMAIN z : i \in 1..Len(w) \/ i - Len(w) \in 1..Len(v)
    BY Concatenation
<1> HIDE DEF z
<1>3. \A i \in DOMAIN z : (i \in DOMAIN w /\ z[i] = w[i]) \/ \E j \in DOMAIN v : z[i] = v[j]
    <2> SUFFICES ASSUME NEW i \in DOMAIN z, i \notin 1..Len(w) PROVE \E j \in DOMAIN v : z[i] = v[j]
        BY <1>1, <1>2
    <2>1. i = Len(w) + (i - Len(w)) /\ i - Len(w) \in 1..Len(v)
        BY <1>1, <1>2
    <2>2. z[i] = v[i - Len(w)]
        BY <1>2, <2>1
    <2> QED BY <2>1, <2>2, <1>1
<1>4. \A i \in DOMAIN w : i \in DOMAIN z /\ z[i] = w[i]
    BY <1>1, <1>2
<1>5. \A j \in DOMAIN v : \E i \in DOMAIN z : z[i] = v[j]
    <2> SUFFICES ASSUME NEW j \in DOMAIN v PROVE Len(w) + j \in DOMAIN z /\ z[Len(w) + j] = v[j]
        OBVIOUS
    <2> QED BY <1>1, <1>2
<1>6. SentOn(z) \subseteq SentOn(w) \cup SentOn(v)
    BY <1>3 DEF SentOn
<1>7. SentOn(w) \subseteq SentOn(z)
    BY <1>4 DEF SentOn
<1>8. SentOn(v) \subseteq SentOn(z)
    BY <1>5 DEF SentOn
<1>9. ASSUME NEW all, EventsTyped(w, all), EventsTyped(v, all) PROVE EventsTyped(z, all)
    BY <1>3, <1>9 DEF EventsTyped
<1> QED BY <1>6, <1>7, <1>8, <1>9 DEF z

LEMMA EventsOfOne ==
    ASSUME NEW e
    PROVE  SentOn(<<e>>) = ToSet(e.msgs) /\ \A all : EventsTyped(<<e>>, all) <=> EventTyped(e, all)
<1>1. DOMAIN <<e>> = {1} /\ <<e>>[1] = e
    BY Singleton
<1> DEFINE w == <<e>>
<1>2. DOMAIN w = {1} /\ w[1] = e
    BY <1>1
<1> HIDE DEF w
<1> QED BY <1>2 DEF SentOn, EventsTyped, w

LEMMA NoEvents == SentOn(<<>>) = {} /\ \A all : EventsTyped(<<>>, all)
BY Empty DEF SentOn, EventsTyped

LEMMA EventsOfRest ==
    ASSUME NEW w, IsSequence(w), w # <<>>
    PROVE  /\ SentOn(w) = ToSet(Head(w).msgs) \cup SentOn(Tail(w))
           /\ \A all : EventsTyped(w, all) => EventTyped(Head(w), all) /\ EventsTyped(Tail(w), all)
<1>1. /\ Len(w) \in Nat \ {0} /\ DOMAIN w = 1..Len(w) /\ DOMAIN Tail(w) = 1..Len(w) - 1
      /\ Head(w) = w[1] /\ \A i \in 1..Len(w) - 1 : Tail(w)[i] = w[i + 1]
    BY RestOf
<1> DEFINE v == Tail(w)
           e == Head(w)
<1>2. 1 \in DOMAIN w /\ w[1] = e
    BY <1>1
<1>3. \A i \in DOMAIN v : \E j \in DOMAIN w : v[i] = w[j]
    BY <1>1
<1>4. \A i \in DOMAIN w : w[i] = e \/ \E j \in DOMAIN v : w[i] = v[j]
    <2> SUFFICES ASSUME NEW i \in DOMAIN w, i # 1 PROVE i - 1 \in DOMAIN v /\ w[i] = v[i - 1]
        BY <1>2
    <2>1. i - 1 \in 1..Len(w) - 1 /\ (i - 1) + 1 = i
        BY <1>1
    <2> QED BY <1>1, <2>1
<1> HIDE DEF v, e
<1>5. SentOn(w) \subseteq ToSet(e.msgs) \cup SentOn(v)
    BY <1>4 DEF SentOn
<1>6. ToSet(e.msgs) \subseteq SentOn(w)
    BY <1>2 DEF SentOn
<1>7. SentOn(v) \subseteq SentOn(w)
    BY <1>3 DEF SentOn
<1>8. ASSUME NEW all, EventsTyped(w, all) PROVE EventTyped(e, all) /\ EventsTyped(v, all)
    <2>1. EventTyped(e, all)
        BY <1>2, <1>8 DEF EventsTyped
    <2>2. EventsTyped(v, all)
        BY <1>3, <1>8 DEF EventsTyped
    <2> QED BY <2>1, <2>2
<1> QED BY <1>5, <1>6, <1>7, <1>8 DEF v, e

\* A beginning of what is saved stays one.
LEMMA EventsStayTyped ==
    ASSUME NEW T, NEW s \in Seq(T), NEW t \in Seq(T), NEW w, EventsTyped(w, s)
    PROVE  EventsTyped(w, s \o t)
<1> DEFINE z == s \o t
<1>1. /\ Len(z) = Len(s) + Len(t) /\ Len(s) \in Nat /\ Len(t) \in Nat
      /\ \A i \in 1..Len(s) : z[i] = s[i]
    OBVIOUS
<1>2. ASSUME NEW n \in 0..Len(s) PROVE n \in 0..Len(z) /\ SubSeq(s, 1, n) = SubSeq(z, 1, n)
    <2>1. n \in 0..Len(z) /\ n \in Nat /\ \A i \in 1..n : s[i] = z[i]
        BY <1>1
    <2> HIDE DEF z
    <2>2. SubSeq(s, 1, n) = [i \in 1..n |-> s[i]] /\ SubSeq(z, 1, n) = [i \in 1..n |-> z[i]]
        OBVIOUS
    <2> QED BY <2>1, <2>2
<1> HIDE DEF z
<1>3. ASSUME NEW e, EventTyped(e, s) PROVE EventTyped(e, z)
    BY <1>2, <1>3 DEF EventTyped
<1>4. EventsTyped(w, z)
    BY <1>3 DEF EventsTyped
<1> QED BY <1>4 DEF z

LEMMA ValuesTyped ==
    ASSUME NEW T, NEW s \in Seq(T)
    PROVE  EventTyped(Event("values", s), s)
<1>1. s = SubSeq(s, 1, Len(s)) /\ Len(s) \in 0..Len(s)
    OBVIOUS
<1> QED BY <1>1 DEF EventTyped, Event

LEMMA MessageTyped ==
    ASSUME NEW m \in Messages({"assistant", "tool"}), NEW s
    PROVE  EventTyped(Event("messages", <<m>>), s)
BY DEF EventTyped, Event

LEMMA SignalTyped ==
    ASSUME NEW kind \in {"interrupt", "done", "error"}, NEW s
    PROVE  EventTyped(Event(kind, <<>>), s) /\ Event(kind, <<>>).msgs = <<>>
BY DEF EventTyped, Event

\* Sending adds what is sent, if a client listens.
LEMMA Sending ==
    ASSUME IsSequence(wire), NEW events, IsSequence(events), Send(events)
    PROVE  /\ SentOn(wire') \subseteq SentOn(wire) \cup SentOn(events)
           /\ \A all : EventsTyped(wire, all) /\ EventsTyped(events, all) => EventsTyped(wire', all)
<1>1. CASE loading
    <2>1. wire' = wire \o events
        BY <1>1 DEF Send
    <2> DEFINE z == wire \o events
    <2>2. SentOn(z) = SentOn(wire) \cup SentOn(events)
        BY EventsOfBoth
    <2>3. \A all : EventsTyped(wire, all) /\ EventsTyped(events, all) => EventsTyped(z, all)
        BY EventsOfBoth
    <2> HIDE DEF z
    <2>4. wire' = z
        BY <2>1 DEF z
    <2> QED BY <2>2, <2>3, <2>4
<1>2. CASE ~loading
    <2>1. wire' = wire
        BY <1>2 DEF Send
    <2> QED BY <2>1
<1> QED BY <1>1, <1>2

LEMMA SendingOne ==
    ASSUME IsSequence(wire), NEW e, Send(<<e>>)
    PROVE  /\ SentOn(wire') \subseteq SentOn(wire) \cup ToSet(e.msgs)
           /\ \A all : EventsTyped(wire, all) /\ EventTyped(e, all) => EventsTyped(wire', all)
<1> DEFINE o == <<e>>
<1>1. IsSequence(o) /\ SentOn(o) = ToSet(e.msgs) /\ \A all : EventsTyped(o, all) <=> EventTyped(e, all)
    BY Singleton, EventsOfOne
<1>2. Send(o)
    OBVIOUS
<1> HIDE DEF o
<1> QED BY <1>1, <1>2, Sending

\* Messages that are new agree with the others.
LEMMA ResultsAgree ==
    ASSUME Everywhere \subseteq Written(made), made \in 0..MaxMessages, Agreement, UNCHANGED made,
           NEW X, X \subseteq Written(made), \A m \in X : m.role = "tool",
           Everywhere' \subseteq Everywhere \cup X
    PROVE  Everywhere' \subseteq Written(made') /\ Agreement'
<1>1. \A m \in Written(made) : m.role = "tool" => m.id[2] \in Nat \ {0} /\ m = ToolResult(m.id)
    BY WrittenIs
<1>2. \A m \in Written(made) : m.id[2] \in Nat \ {0} => m.role = "tool"
    BY WrittenIs
<1>3. ASSUME NEW m \in Everywhere', NEW n \in Everywhere', m.id = n.id
      PROVE  m = n
    <2>1. m \in Written(made) /\ n \in Written(made)
        OBVIOUS
    <2>2. CASE m \in X \/ n \in X
        BY <2>1, <2>2, <1>1, <1>2, <1>3
    <2>3. CASE m \in Everywhere /\ n \in Everywhere
        BY <2>3, <1>3 DEF Agreement
    <2> QED BY <2>2, <2>3
<1>4. Agreement'
    BY <1>3 DEF Agreement
<1> QED BY <1>4

LEMMA NewOnesAgree ==
    ASSUME Everywhere \subseteq Written(made), made \in 0..MaxMessages, Agreement, made' = made + 1,
           NEW X, X \subseteq Written(made + 1), \A m \in X : m.id[1] = made + 1,
           \A m, n \in X : m.id = n.id => m = n,
           Everywhere' \subseteq Everywhere \cup X
    PROVE  Everywhere' \subseteq Written(made') /\ Agreement'
<1>1. \A m \in Everywhere : m.id[1] \in 1..made
    BY WrittenIs
<1>2. made \in Nat
    BY ConversationAssumption
<1>3. ASSUME NEW m \in Everywhere', NEW n \in Everywhere', m.id = n.id
      PROVE  m = n
    <2>1. CASE m \in X /\ n \in X
        BY <2>1, <1>3
    <2>2. CASE m \in Everywhere /\ n \in Everywhere
        BY <2>2, <1>3 DEF Agreement
    <2>3. CASE (m \in X /\ n \in Everywhere) \/ (n \in X /\ m \in Everywhere)
        BY <2>3, <1>1, <1>2, <1>3
    <2> QED BY <2>1, <2>2, <2>3
<1>4. Agreement'
    BY <1>3 DEF Agreement
<1>5. Written(made) \subseteq Written(made + 1)
    BY <1>2, WrittenGrows
<1> QED BY <1>4, <1>5

LEMMA OldOnesAgree ==
    ASSUME Everywhere \subseteq Written(made), Agreement, UNCHANGED made, Everywhere' \subseteq Everywhere
    PROVE  Everywhere' \subseteq Written(made') /\ Agreement'
BY DEF Agreement

LEMMA WireIsSequence == ProtocolInv => IsSequence(wire)
BY DEF ProtocolInv, ProtocolTypes

\* The parts of Everywhere.
LEMMA EverywhereParts ==
    /\ ToSet(saved) \subseteq Everywhere /\ ToSet(writing) \subseteq Everywhere
    /\ ToSet(local) \subseteq Everywhere /\ ToSet(streamed) \subseteq Everywhere
    /\ SentOn(wire) \subseteq Everywhere
BY DEF Everywhere

\* Begin saves what the run starts with.
LEMMA BeginSaves ==
    ASSUME ProtocolInv, TypesInv, Begin
    PROVE  \E r \in Seq(Text) :
              /\ saved' = (saved \o r) \o writing /\ saved' \in Seq(Text)
              /\ ToSet(saved') = ToSet(saved) \cup ToSet(r) \cup ToSet(writing)
              /\ ToSet(r) = {ToolResult(c) : c \in Unanswered(saved)} /\ ToSet(r) \subseteq Written(made)
              /\ \A m \in ToSet(r) : m.role = "tool" /\ m.id \in Unanswered(saved)
              /\ \A i, j \in DOMAIN r : r[i] = r[j] => i = j
<1>1. saved \in Seq(Text) /\ writing \in Seq(Text) /\ made \in 0..MaxMessages
      /\ ToSet(saved) \subseteq Written(made)
    BY EverywhereParts DEF TypesInv, MessagesTyped
<1> DEFINE C == Unanswered(saved)
           r == SetToSeq({ToolResult(c) : c \in C})
<1>2. IsFiniteSet(C) /\ C \subseteq (1..made) \X (Nat \ {0})
    BY <1>1, UnansweredIsFinite
<1>3. saved' = (saved \o r) \o writing
    BY DEF Begin
<1>4. r = SetToSeq({ToolResult(c) : c \in C})
    OBVIOUS
<1>5. \A i, j \in DOMAIN r : r[i] = r[j] => i = j
    <2> DEFINE R == {ToolResult(c) : c \in C}
               f == [c \in C |-> ToolResult(c)]
    <2>0. f \in Surjection(C, R)
        BY DEF Surjection
    <2>1. IsFiniteSet(R)
        <3> HIDE DEF f, R, C
        <3> QED BY <1>2, <2>0, FS_Surjection
    <2> HIDE DEF R, C
    <2>2. \A i, j \in DOMAIN SetToSeq(R) : SetToSeq(R)[i] = SetToSeq(R)[j] => i = j
        BY <2>1, EntriesOfSet
    <2> QED BY <2>2 DEF R
<1> HIDE DEF r
<1>6. /\ r \in Seq(Text) /\ ToSet(r) = {ToolResult(c) : c \in C} /\ ToSet(r) \subseteq Written(made)
      /\ \A m \in ToSet(r) : m.role = "tool" /\ m.id \in C
    <2> HIDE DEF C
    <2> QED BY <1>1, <1>2, <1>4, ResultsOf
<1>7. saved \o r \in Seq(Text) /\ ToSet(saved \o r) = ToSet(saved) \cup ToSet(r)
    BY <1>1, <1>6, EntriesOfBoth
<1> DEFINE s == saved \o r
<1>8. s \in Seq(Text) /\ ToSet(s) = ToSet(saved) \cup ToSet(r) /\ saved' = s \o writing
    BY <1>3, <1>7
<1> HIDE DEF s
<1>9. saved' \in Seq(Text) /\ ToSet(saved') = ToSet(s) \cup ToSet(writing)
    BY <1>1, <1>8, EntriesOfBoth
<1> QED BY <1>3, <1>5, <1>6, <1>8, <1>9 DEF C

\* The calls in more messages are more.
LEMMA CallsInMore ==
    ASSUME NEW s, NEW t, ToSet(s) \subseteq ToSet(t), NEW name
    PROVE  CallsIn(s, name) \subseteq CallsIn(t, name)
BY CallsInEntries

\* Nothing that is typed besides the messages changes, but that more is saved.
LEMMA StateStaysTyped ==
    ASSUME StateTyped, made \in Nat, made' \in {made, made + 1}, asks' \subseteq CallsIn(saved', "execute"),
           Len(saved) \in Nat, Len(saved') \in Nat, Len(saved) <= Len(saved'),
           UNCHANGED <<tracked, active, loads, moves, mounted, pending, subagents>>, doubt' \subseteq Aspects
    PROVE  StateTyped'
<1>1. ((1..made) \X Int) \X {"running", "completed"} \subseteq ((1..made') \X Int) \X {"running", "completed"}
    OBVIOUS
<1>2. loads \in Seq(Nat \cup {-1}) /\ DOMAIN loads = 1..Len(loads) /\ \A i \in DOMAIN loads : loads[i] \in Int
    <2>1. loads \in Seq(Nat \cup {-1})
        BY DEF StateTyped
    <2> QED BY <2>1
<1>3. \A i \in DOMAIN loads : loads[i] <= Len(saved')
    BY <1>2 DEF StateTyped
<1> QED BY <1>1, <1>2, <1>3 DEF StateTyped

LEMMA SavedGrows ==
    ASSUME NEW T, NEW s \in Seq(T), NEW t \in Seq(T)
    PROVE  Len(s) \in Nat /\ Len(s \o t) \in Nat /\ Len(s) <= Len(s \o t)
OBVIOUS

LEMMA BeginKeepsTypes ==
    ASSUME ProtocolInv, TypesInv, Begin
    PROVE  TypesInv'
<1>1. PICK r \in Seq(Text) :
              /\ saved' = (saved \o r) \o writing /\ saved' \in Seq(Text)
              /\ ToSet(saved') = ToSet(saved) \cup ToSet(r) \cup ToSet(writing)
              /\ ToSet(r) \subseteq Written(made)
              /\ \A m \in ToSet(r) : m.role = "tool"
    BY BeginSaves
<1>2. /\ writing' = <<>> /\ asks' = {} /\ run' = "model" /\ Send(<<Event("values", saved')>>)
      /\ UNCHANGED <<made, streamed, tracked, active, local, pending, subagents, mounted, loads, moves>>
      /\ doubt' \subseteq doubt
    BY DEF Begin, Asked, thread
<1>3. /\ MessagesTyped /\ WireTyped /\ Agreement /\ StateTyped /\ IsSequence(wire)
      /\ saved \in Seq(Text) /\ writing \in Seq(Text) /\ made \in 0..MaxMessages /\ made \in Nat
      /\ Everywhere \subseteq Written(made)
    BY WireIsSequence, ConversationAssumption DEF TypesInv, MessagesTyped
<1> DEFINE e == Event("values", saved')
<1>4. EventTyped(e, saved') /\ e.msgs = saved'
    BY <1>1, ValuesTyped DEF Event
<1>5. EventsTyped(wire, saved')
    <2> DEFINE s == saved \o r
    <2>1. s \in Seq(Text) /\ EventsTyped(wire, s)
        BY <1>3, EventsStayTyped DEF WireTyped
    <2> HIDE DEF s
    <2>2. EventsTyped(wire, s \o writing)
        BY <1>3, <2>1, EventsStayTyped
    <2> QED BY <1>1, <2>2 DEF s
<1> HIDE DEF e
<1>6. /\ SentOn(wire') \subseteq SentOn(wire) \cup ToSet(e.msgs)
      /\ \A all : EventsTyped(wire, all) /\ EventTyped(e, all) => EventsTyped(wire', all)
    BY <1>2, <1>3, SendingOne DEF e
<1>7. WireTyped'
    BY <1>4, <1>5, <1>6 DEF WireTyped
<1>8. Everywhere' \subseteq Everywhere \cup ToSet(r)
    BY <1>1, <1>2, <1>4, <1>6, EntriesOfEmpty DEF Everywhere
<1>9. Everywhere' \subseteq Written(made') /\ Agreement'
    <2> DEFINE X == ToSet(r)
    <2>1. X \subseteq Written(made) /\ (\A m \in X : m.role = "tool") /\ Everywhere' \subseteq Everywhere \cup X
        BY <1>1, <1>8
    <2> HIDE DEF X
    <2> QED BY <1>2, <1>3, <2>1, ResultsAgree
<1>10. MessagesTyped'
    <2>1. <<>> \in Seq(Text)
        OBVIOUS
    <2> QED BY <1>1, <1>2, <1>3, <1>9, <2>1 DEF MessagesTyped
<1>11. Len(saved) \in Nat /\ Len(saved') \in Nat /\ Len(saved) <= Len(saved')
    <2> DEFINE s == saved \o r
    <2>1. s \in Seq(Text) /\ Len(saved) \in Nat /\ Len(s) \in Nat /\ Len(saved) <= Len(s)
        BY <1>3, SavedGrows
    <2>2. saved' = s \o writing
        BY <1>1
    <2> HIDE DEF s
    <2>3. Len(saved') \in Nat /\ Len(s) <= Len(saved')
        BY <1>3, <2>1, <2>2, SavedGrows
    <2> QED BY <2>1, <2>3
<1>12. StateTyped'
    BY <1>2, <1>3, <1>11, StateStaysTyped DEF StateTyped
<1>13. WritingIs'
    BY <1>2 DEF WritingIs
<1> QED BY <1>7, <1>9, <1>10, <1>12, <1>13 DEF TypesInv

LEMMA AnswerKeepsTypes ==
    ASSUME ProtocolInv, TypesInv, NEW plan \in Plans, Answer(plan)
    PROVE  TypesInv'
<1> DEFINE m == Message(<<made + 1, 0>>, "assistant", plan)
           e == Event("messages", <<m>>)
<1>1. /\ run = "model" /\ made < MaxMessages /\ made' = made + 1 /\ writing' = <<m>> /\ Send(<<e>>)
      /\ UNCHANGED <<saved, asks, run, streamed, tracked, active, local, pending, subagents, mounted,
                     loads, doubt, moves>>
    BY DEF Answer, thread
<1>2. /\ MessagesTyped /\ WireTyped /\ Agreement /\ StateTyped /\ IsSequence(wire)
      /\ saved \in Seq(Text) /\ made \in 0..MaxMessages /\ made \in Nat /\ MaxMessages \in Nat
      /\ Everywhere \subseteq Written(made)
    BY WireIsSequence, ConversationAssumption DEF TypesInv, MessagesTyped
<1>3. m \in Written(made + 1) /\ m \in Messages({"assistant", "tool"}) /\ m \in Text /\ m.id[1] = made + 1
    <2>1. made + 1 \in 1..MaxMessages /\ made + 1 \in 1..made + 1
        BY <1>1, <1>2
    <2>2. m = [id |-> <<made + 1, 0>>, role |-> "assistant", calls |-> plan]
        BY DEF Message
    <2> QED BY <2>1, <2>2 DEF Written, Messages, MessageIds, Text
<1> HIDE DEF m
<1>4. EventTyped(e, saved) /\ ToSet(e.msgs) = {m}
    BY <1>3, MessageTyped, EntriesOfOne DEF Event
<1> HIDE DEF e
<1>5. /\ SentOn(wire') \subseteq SentOn(wire) \cup ToSet(e.msgs)
      /\ \A all : EventsTyped(wire, all) /\ EventTyped(e, all) => EventsTyped(wire', all)
    BY <1>1, <1>2, SendingOne
<1>6. WireTyped'
    BY <1>1, <1>2, <1>4, <1>5 DEF WireTyped
<1>7. ToSet(writing') = {m} /\ writing' \in Seq(Text)
    BY <1>1, <1>3, EntriesOfOne
<1>8. Everywhere' \subseteq Everywhere \cup {m}
    BY <1>1, <1>4, <1>5, <1>7 DEF Everywhere
<1>9. Everywhere' \subseteq Written(made') /\ Agreement'
    <2> DEFINE X == {m}
    <2>1. X \subseteq Written(made + 1) /\ (\A a \in X : a.id[1] = made + 1) /\ (\A a, b \in X : a.id = b.id => a = b)
          /\ Everywhere' \subseteq Everywhere \cup X
        BY <1>3, <1>8
    <2> HIDE DEF X
    <2> QED BY <1>1, <1>2, <2>1, NewOnesAgree
<1>10. MessagesTyped'
    BY <1>1, <1>2, <1>7, <1>9 DEF MessagesTyped
<1>11. StateTyped'
    <2>1. Len(saved) \in Nat
        BY <1>2
    <2> QED BY <1>1, <1>2, <2>1, StateStaysTyped DEF StateTyped
<1>12. WritingIs'
    BY <1>1 DEF WritingIs
<1> QED BY <1>6, <1>9, <1>10, <1>11, <1>12 DEF TypesInv

LEMMA SaveAnswerKeepsTypes ==
    ASSUME ProtocolInv, TypesInv, SaveAnswer
    PROVE  TypesInv'
<1> DEFINE v == Event("values", saved')
           q == Event("interrupt", <<>>)
           tail == IF asks' # {} THEN <<q>> ELSE <<>>
<1>1. /\ saved' = saved \o writing /\ writing' = <<>> /\ asks' = CallsIn(writing, "execute")
      /\ run' \in {"end", "tools"} /\ Send(<<v>> \o tail)
      /\ UNCHANGED <<made, streamed, tracked, active, local, pending, subagents, mounted, loads, doubt, moves>>
    BY DEF SaveAnswer, thread
<1>2. /\ MessagesTyped /\ WireTyped /\ Agreement /\ StateTyped /\ IsSequence(wire)
      /\ saved \in Seq(Text) /\ writing \in Seq(Text) /\ made \in 0..MaxMessages /\ made \in Nat
      /\ Everywhere \subseteq Written(made)
    BY WireIsSequence, ConversationAssumption DEF TypesInv, MessagesTyped
<1>3. saved' \in Seq(Text) /\ ToSet(saved') = ToSet(saved) \cup ToSet(writing)
    BY <1>1, <1>2, EntriesOfBoth
<1>4. EventTyped(v, saved') /\ v.msgs = saved' /\ EventTyped(q, saved') /\ q.msgs = <<>>
    BY <1>3, ValuesTyped, SignalTyped DEF Event
<1> HIDE DEF v, q
<1>5. /\ IsSequence(<<v>>) /\ SentOn(<<v>>) = ToSet(v.msgs) /\ EventsTyped(<<v>>, saved')
      /\ IsSequence(<<q>>) /\ SentOn(<<q>>) = ToSet(q.msgs) /\ EventsTyped(<<q>>, saved')
    BY <1>4, Singleton, EventsOfOne
<1>6. IsSequence(tail) /\ SentOn(tail) = {} /\ EventsTyped(tail, saved')
    BY <1>4, <1>5, EntriesOfEmpty, Empty, NoEvents
<1> DEFINE events == <<v>> \o tail
<1> HIDE DEF tail
<1>7. IsSequence(events) /\ SentOn(events) = ToSet(saved') /\ EventsTyped(events, saved')
    <2> DEFINE one == <<v>>
    <2>1. IsSequence(one) /\ SentOn(one) = ToSet(saved') /\ EventsTyped(one, saved')
        BY <1>4, <1>5
    <2> HIDE DEF one
    <2>2. IsSequence(one \o tail) /\ SentOn(one \o tail) = SentOn(one) \cup SentOn(tail)
          /\ EventsTyped(one \o tail, saved')
        BY <1>6, <2>1, Concatenation, EventsOfBoth
    <2>3. events = one \o tail
        BY DEF one
    <2> QED BY <1>6, <2>1, <2>2, <2>3
<1> HIDE DEF events
<1>8. EventsTyped(wire, saved')
    BY <1>1, <1>2, EventsStayTyped DEF WireTyped
<1>9. SentOn(wire') \subseteq SentOn(wire) \cup ToSet(saved') /\ EventsTyped(wire', saved')
    <2>1. Send(events)
        BY <1>1 DEF events
    <2> QED BY <1>2, <1>7, <1>8, <2>1, Sending
<1>10. WireTyped'
    BY <1>9 DEF WireTyped
<1>11. Everywhere' \subseteq Everywhere
    BY <1>1, <1>3, <1>9, EntriesOfEmpty DEF Everywhere
<1>12. Everywhere' \subseteq Written(made') /\ Agreement'
    BY <1>1, <1>2, <1>11, OldOnesAgree
<1>13. MessagesTyped'
    <2>1. <<>> \in Seq(Text)
        OBVIOUS
    <2> QED BY <1>1, <1>2, <1>3, <1>12, <2>1 DEF MessagesTyped
<1>14. StateTyped'
    <2>1. Len(saved) \in Nat /\ Len(saved') \in Nat /\ Len(saved) <= Len(saved')
        BY <1>1, <1>2, SavedGrows
    <2>2. asks' \subseteq CallsIn(saved', "execute")
        BY <1>1, <1>3, CallsInMore
    <2> QED BY <1>1, <1>2, <2>1, <2>2, StateStaysTyped DEF StateTyped
<1>15. WritingIs'
    BY <1>1, EntriesOfEmpty DEF WritingIs
<1> QED BY <1>10, <1>12, <1>13, <1>14, <1>15 DEF TypesInv

\* The facts every step starts from.
LEMMA TypesGive ==
    ASSUME ProtocolInv, TypesInv
    PROVE  /\ MessagesTyped /\ WireTyped /\ Agreement /\ StateTyped /\ WritingIs /\ IsSequence(wire)
           /\ saved \in Seq(Text) /\ writing \in Seq(Text) /\ local \in Seq(Text)
           /\ streamed \in Seq(Messages({"assistant", "tool"}))
           /\ made \in 0..MaxMessages /\ made \in Nat /\ MaxMessages \in Nat
           /\ Everywhere \subseteq Written(made) /\ EventsTyped(wire, saved)
BY WireIsSequence, ConversationAssumption DEF TypesInv, MessagesTyped, WireTyped

\* A step by which no messages, or only results, are added.
LEMMA ResultsKeepMessages ==
    ASSUME ProtocolInv, TypesInv, UNCHANGED made,
           saved' \in Seq(Text), writing' \in Seq(Text), local' \in Seq(Text),
           streamed' \in Seq(Messages({"assistant", "tool"})),
           NEW X, X \subseteq Written(made), \A m \in X : m.role = "tool",
           Everywhere' \subseteq Everywhere \cup X
    PROVE  MessagesTyped' /\ Agreement'
<1>1. Everywhere' \subseteq Written(made') /\ Agreement'
    BY TypesGive, ResultsAgree
<1> QED BY <1>1, TypesGive DEF MessagesTyped

LEMMA OldOnesKeepMessages ==
    ASSUME ProtocolInv, TypesInv, UNCHANGED made,
           saved' \in Seq(Text), writing' \in Seq(Text), local' \in Seq(Text),
           streamed' \in Seq(Messages({"assistant", "tool"})),
           Everywhere' \subseteq Everywhere
    PROVE  MessagesTyped' /\ Agreement'
<1>1. Everywhere' \subseteq Written(made') /\ Agreement'
    BY TypesGive, OldOnesAgree
<1> QED BY <1>1, TypesGive DEF MessagesTyped

LEMMA ResultTyped ==
    ASSUME NEW n, n \in 0..MaxMessages, NEW c, c \in (1..n) \X (Nat \ {0})
    PROVE  /\ ToolResult(c) \in Written(n) /\ ToolResult(c) \in Text /\ ToolResult(c).role = "tool"
           /\ ToolResult(c) \in Messages({"assistant", "tool"})
<1>1. n \in Nat
    BY ConversationAssumption
<1> DEFINE m == ToolResult(c)
<1>2. m \in Written(n) /\ m.role = "tool"
    BY <1>1, ResultIsWritten
<1> HIDE DEF m
<1>3. m \in Text /\ m \in Messages({"assistant", "tool"})
    BY <1>2, WrittenIs
<1> QED BY <1>2, <1>3 DEF m

LEMMA RunToolKeepsTypes ==
    ASSUME ProtocolInv, TypesInv, NEW c, RunTool(c)
    PROVE  TypesInv'
<1> DEFINE m == ToolResult(c)
           e == Event("messages", <<m>>)
<1>1. /\ run = "tools" /\ c \in Unanswered(saved \o writing) /\ writing' = Append(writing, m) /\ Send(<<e>>)
      /\ UNCHANGED <<saved, asks, run, made, streamed, tracked, active, local, pending, subagents, mounted,
                     loads, doubt, moves>>
    BY DEF RunTool, thread
<1>2. c \in (1..made) \X (Nat \ {0})
    <2> DEFINE s == saved \o writing
    <2>1. s \in Seq(Text) /\ ToSet(s) = ToSet(saved) \cup ToSet(writing)
        BY TypesGive, EntriesOfBoth
    <2>2. ToSet(s) \subseteq Written(made)
        BY <2>1, TypesGive, EverywhereParts
    <2> HIDE DEF s
    <2>3. Unanswered(s) \subseteq (1..made) \X (Nat \ {0})
        BY <2>1, <2>2, TypesGive, UnansweredIsFinite
    <2> QED BY <1>1, <2>3 DEF s
<1>3. m \in Written(made) /\ m \in Text /\ m.role = "tool" /\ m \in Messages({"assistant", "tool"})
    BY <1>2, TypesGive, ResultTyped
<1> HIDE DEF m
<1>4. EventTyped(e, saved) /\ ToSet(e.msgs) = {m}
    BY <1>3, MessageTyped, EntriesOfOne DEF Event
<1> HIDE DEF e
<1>5. SentOn(wire') \subseteq SentOn(wire) \cup ToSet(e.msgs) /\ EventsTyped(wire', saved)
    BY <1>1, <1>4, TypesGive, SendingOne
<1>6. WireTyped'
    BY <1>1, <1>5 DEF WireTyped
<1>7. ToSet(writing') = ToSet(writing) \cup {m} /\ writing' \in Seq(Text)
    BY <1>1, <1>3, TypesGive, EntriesOfAppend
<1>8. MessagesTyped' /\ Agreement'
    <2> DEFINE X == {m}
    <2>1. X \subseteq Written(made) /\ \A a \in X : a.role = "tool"
        BY <1>3
    <2>2. Everywhere' \subseteq Everywhere \cup X
        BY <1>1, <1>4, <1>5, <1>7 DEF Everywhere
    <2> HIDE DEF X
    <2> QED BY <1>1, <1>7, <2>1, <2>2, TypesGive, ResultsKeepMessages
<1>9. StateTyped'
    <2>1. Len(saved) \in Nat
        BY TypesGive
    <2> QED BY <1>1, <2>1, TypesGive, StateStaysTyped DEF StateTyped
<1>10. WritingIs'
    BY <1>1, <1>3, <1>7, TypesGive DEF WritingIs
<1> QED BY <1>6, <1>8, <1>9, <1>10 DEF TypesInv

LEMMA SaveResultsKeepsTypes ==
    ASSUME ProtocolInv, TypesInv, SaveResults
    PROVE  TypesInv'
<1> DEFINE e == Event("values", saved')
<1>1. /\ saved' = saved \o writing /\ writing' = <<>> /\ run' = "model" /\ Send(<<e>>)
      /\ UNCHANGED <<asks, made, streamed, tracked, active, local, pending, subagents, mounted, loads, doubt, moves>>
    BY DEF SaveResults, thread
<1>2. saved' \in Seq(Text) /\ ToSet(saved') = ToSet(saved) \cup ToSet(writing)
    BY <1>1, TypesGive, EntriesOfBoth
<1>3. EventTyped(e, saved') /\ e.msgs = saved'
    BY <1>2, ValuesTyped DEF Event
<1> HIDE DEF e
<1>4. EventsTyped(wire, saved')
    BY <1>1, TypesGive, EventsStayTyped
<1>5. SentOn(wire') \subseteq SentOn(wire) \cup ToSet(e.msgs) /\ EventsTyped(wire', saved')
    BY <1>1, <1>3, <1>4, TypesGive, SendingOne
<1>6. WireTyped'
    BY <1>5 DEF WireTyped
<1>7. Everywhere' \subseteq Everywhere
    BY <1>1, <1>2, <1>3, <1>5, EntriesOfEmpty DEF Everywhere
<1>8. MessagesTyped' /\ Agreement'
    <2>1. <<>> \in Seq(Text)
        OBVIOUS
    <2> QED BY <1>1, <1>2, <1>7, <2>1, TypesGive, OldOnesKeepMessages
<1>9. StateTyped'
    <2>1. Len(saved) \in Nat /\ Len(saved') \in Nat /\ Len(saved) <= Len(saved')
        BY <1>1, TypesGive, SavedGrows
    <2>2. CallsIn(saved, "execute") \subseteq CallsIn(saved', "execute")
        BY <1>2, CallsInMore
    <2>3. asks' \subseteq CallsIn(saved', "execute")
        BY <1>1, <2>2, TypesGive DEF StateTyped
    <2> QED BY <1>1, <2>1, <2>3, TypesGive, StateStaysTyped DEF StateTyped
<1>10. WritingIs'
    BY <1>1 DEF WritingIs
<1> QED BY <1>6, <1>8, <1>9, <1>10 DEF TypesInv

\* A rejected call gets its result at once.
LEMMA ResumeWrites ==
    ASSUME ProtocolInv, TypesInv, Resume
    PROVE  \E c \in asks :
              /\ asks = {c} /\ ToolResult(c) \in Written(made) /\ ToolResult(c).role = "tool"
              /\ ToolResult(c) \in Messages({"assistant", "tool"})
              /\ \/ writing' = <<>> /\ Send(<<>>)
                 \/ writing' = <<ToolResult(c)>> /\ Send(<<Event("messages", <<ToolResult(c)>>)>>)
<1>1. IsFiniteSet(asks) /\ Cardinality(asks) = 1
    BY DEF Resume, ProtocolInv, ProtocolTypes
<1>2. PICK c : asks = {c}
    BY <1>1, FS_Singleton
<1>3. c \in (1..made) \X (Nat \ {0})
    <2>1. CallsIn(saved, "execute") \subseteq (1..made) \X (Nat \ {0})
        BY TypesGive, EverywhereParts, CallsAreFinite
    <2> QED BY <1>2, <2>1, TypesGive DEF StateTyped
<1>4. /\ ToolResult(c) \in Written(made) /\ ToolResult(c).role = "tool" /\ ToolResult(c) \in Text
      /\ ToolResult(c) \in Messages({"assistant", "tool"})
    BY <1>3, TypesGive, ResultTyped
<1> DEFINE m == ToolResult(c)
           r == SetToSeq({m})
<1>5. r = <<m>>
    <2>1. IsFiniteSet({m}) /\ Cardinality({m}) = 1
        BY FS_Singleton
    <2>2. <<m>> \in [1..1 -> {m}] /\ IsInjective(<<m>>)
        BY DEF IsInjective
    <2>3. r \in [1..1 -> {m}]
        <3>1. \E f \in [1..1 -> {m}] : IsInjective(f)
            BY <2>2
        <3> HIDE DEF m
        <3> QED BY <2>1, <3>1 DEF SetToSeq
    <2> HIDE DEF r, m
    <2>4. r[1] = m /\ r = [i \in 1..1 |-> r[i]]
        BY <2>3
    <2>5. r \in Seq({m}) /\ Len(r) = 1
        BY <2>3, SeqDef
    <2> QED BY <2>4, <2>5
<1>6. {ToolResult(d) : d \in asks} = {m}
    BY <1>2
<1>7. LET results == IF decision = "reject" THEN r ELSE <<>>
      IN  /\ writing' = results
          /\ Send(IF results = <<>> THEN <<>> ELSE <<Event("messages", results)>>)
    BY <1>6 DEF Resume
<1>8. <<m>> # <<>>
    OBVIOUS
<1>9. \/ writing' = <<>> /\ Send(<<>>)
      \/ writing' = <<m>> /\ Send(<<Event("messages", <<m>>)>>)
    <2> HIDE DEF r, m
    <2> QED BY <1>5, <1>7, <1>8
<1> QED BY <1>2, <1>4, <1>9

LEMMA ResumeKeepsTypes ==
    ASSUME ProtocolInv, TypesInv, Resume
    PROVE  TypesInv'
<1>1. /\ asks' = {} /\ run' = "tools" /\ doubt' \subseteq doubt
      /\ UNCHANGED <<saved, made, streamed, tracked, active, local, pending, subagents, mounted, loads, moves>>
    BY DEF Resume, Asked, thread
<1>2. PICK c \in asks :
              /\ ToolResult(c) \in Written(made) /\ ToolResult(c).role = "tool"
              /\ ToolResult(c) \in Messages({"assistant", "tool"})
              /\ \/ writing' = <<>> /\ Send(<<>>)
                 \/ writing' = <<ToolResult(c)>> /\ Send(<<Event("messages", <<ToolResult(c)>>)>>)
    BY ResumeWrites
<1> DEFINE m == ToolResult(c)
           e == Event("messages", <<m>>)
<1>3. /\ m \in Written(made) /\ m.role = "tool" /\ m \in Messages({"assistant", "tool"})
      /\ (writing' = <<>> /\ Send(<<>>)) \/ (writing' = <<m>> /\ Send(<<e>>))
    BY <1>2
<1> HIDE DEF m
<1>4. EventTyped(e, saved) /\ ToSet(e.msgs) = {m}
    BY <1>3, MessageTyped, EntriesOfOne DEF Event
<1> HIDE DEF e
<1>5. SentOn(wire') \subseteq SentOn(wire) \cup {m} /\ EventsTyped(wire', saved)
    <2>1. CASE Send(<<e>>)
        BY <1>4, <2>1, TypesGive, SendingOne
    <2>2. CASE Send(<<>>)
        <3> DEFINE none == <<>>
        <3>1. IsSequence(none) /\ SentOn(none) = {} /\ EventsTyped(none, saved) /\ Send(none)
            BY <2>2, Empty, NoEvents
        <3> HIDE DEF none
        <3> QED BY <3>1, TypesGive, Sending
    <2> QED BY <1>3, <2>1, <2>2
<1>6. WireTyped'
    BY <1>1, <1>5 DEF WireTyped
<1>7. writing' \in Seq(Text) /\ ToSet(writing') \subseteq {m}
    <2>1. m \in Text
        BY <1>3, TypesGive, WrittenIs
    <2>2. <<>> \in Seq(Text) /\ <<m>> \in Seq(Text)
        BY <2>1
    <2> QED BY <1>3, <2>2, EntriesOfOne, EntriesOfEmpty
<1>8. MessagesTyped' /\ Agreement'
    <2> DEFINE X == {m}
    <2>1. X \subseteq Written(made) /\ \A a \in X : a.role = "tool"
        BY <1>3
    <2>2. Everywhere' \subseteq Everywhere \cup X
        BY <1>1, <1>5, <1>7 DEF Everywhere
    <2> HIDE DEF X
    <2> QED BY <1>1, <1>7, <2>1, <2>2, TypesGive, ResultsKeepMessages
<1>9. StateTyped'
    <2>1. Len(saved) \in Nat
        BY TypesGive
    <2> QED BY <1>1, <2>1, TypesGive, StateStaysTyped DEF StateTyped
<1>10. WritingIs'
    BY <1>1, <1>3, <1>7 DEF WritingIs
<1> QED BY <1>6, <1>8, <1>9, <1>10 DEF TypesInv

LEMMA EndFailKeepsTypes ==
    ASSUME ProtocolInv, TypesInv, End \/ Fail
    PROVE  TypesInv'
<1>1. PICK kind \in {"done", "error"} : Send(<<Event(kind, <<>>)>>)
    BY DEF End, Fail
<1>2. /\ run' = "none" /\ writing' = <<>> /\ doubt' \subseteq doubt \cup Aspects
      /\ UNCHANGED <<saved, asks, made, streamed, tracked, active, local, pending, subagents, mounted, loads, moves>>
    <2>1. End => writing = <<>>
        BY TypesGive DEF End, WritingIs
    <2> QED BY <2>1 DEF End, Fail, thread, Aspects
<1> DEFINE e == Event(kind, <<>>)
<1>3. EventTyped(e, saved) /\ ToSet(e.msgs) = {}
    BY SignalTyped, EntriesOfEmpty
<1> HIDE DEF e
<1>4. SentOn(wire') \subseteq SentOn(wire) /\ EventsTyped(wire', saved)
    <2>1. Send(<<e>>)
        BY <1>1 DEF e
    <2>2. SentOn(wire') \subseteq SentOn(wire) \cup ToSet(e.msgs) /\ EventsTyped(wire', saved)
        BY <1>3, <2>1, TypesGive, SendingOne
    <2> QED BY <1>3, <2>2
<1>5. WireTyped'
    BY <1>2, <1>4 DEF WireTyped
<1>6. Everywhere' \subseteq Everywhere
    BY <1>2, <1>4, EntriesOfEmpty DEF Everywhere
<1>7. MessagesTyped' /\ Agreement'
    <2>1. <<>> \in Seq(Text)
        OBVIOUS
    <2> QED BY <1>2, <1>6, <2>1, TypesGive, OldOnesKeepMessages
<1>8. StateTyped'
    <2>1. Len(saved) \in Nat
        BY TypesGive
    <2> QED BY <1>2, <2>1, TypesGive, StateStaysTyped DEF StateTyped
<1>9. WritingIs'
    BY <1>2 DEF WritingIs
<1> QED BY <1>5, <1>7, <1>8, <1>9 DEF TypesInv

\* A message of the stream arrives.
LEMMA MessageArrives ==
    ASSUME ProtocolInv, TypesInv, MessageEvent
    PROVE  \E m \in Messages({"assistant", "tool"}) :
              /\ Head(wire).kind = "messages" /\ Head(wire).msgs = <<m>> /\ m \in Written(made)
              /\ m.role # "user"
              /\ streamed' = AppendAll(streamed, <<m>>)
              /\ streamed' \in Seq(Messages({"assistant", "tool"}))
              /\ ToSet(streamed') = ToSet(streamed) \cup {m}
              /\ SentOn(wire) = {m} \cup SentOn(wire')
<1>1. /\ loading /\ wire # <<>> /\ wire' = Tail(wire) /\ Head(wire).kind = "messages"
      /\ streamed' = AppendAll(streamed, Head(wire).msgs)
    BY DEF MessageEvent, Incoming
<1>2. EventTyped(Head(wire), saved) /\ SentOn(wire) = ToSet(Head(wire).msgs) \cup SentOn(Tail(wire))
    BY <1>1, TypesGive, EventsOfRest
<1>3. PICK m \in Messages({"assistant", "tool"}) : Head(wire).msgs = <<m>>
    BY <1>1, <1>2 DEF EventTyped
<1>4. ToSet(Head(wire).msgs) = {m}
    BY <1>3, EntriesOfOne
<1>5. m \in Everywhere /\ m \in Written(made)
    BY <1>2, <1>4, TypesGive, EverywhereParts
<1>6. m.role # "user"
    BY DEF Messages
<1> DEFINE T == Messages({"assistant", "tool"})
           t == <<m>>
<1>7. t \in Seq(T) /\ streamed \in Seq(T) /\ ToSet(t) = {m} /\ streamed' = AppendAll(streamed, t)
    <2>1. m \in T /\ streamed \in Seq(T)
        BY TypesGive
    <2>2. ToSet(t) = {m}
        BY EntriesOfOne
    <2>3. streamed' = AppendAll(streamed, t)
        BY <1>1, <1>3
    <2> HIDE DEF T
    <2>4. t \in Seq(T)
        BY <2>1
    <2> QED BY <2>1, <2>2, <2>3, <2>4
<1>8. \A a, b \in ToSet(streamed) \cup ToSet(t) : a.id = b.id => a = b
    BY <1>5, <1>7, TypesGive, EverywhereParts DEF Agreement
<1> HIDE DEF T, t
<1>9. AppendAll(streamed, t) \in Seq(T) /\ ToSet(AppendAll(streamed, t)) = ToSet(streamed) \cup ToSet(t)
    BY <1>7, <1>8, EntriesAppended
<1> QED BY <1>1, <1>2, <1>3, <1>4, <1>5, <1>6, <1>7, <1>9 DEF T, t

\* Saved messages arrive; all but the user's become the stream's.
LEMMA ValuesArrive ==
    ASSUME ProtocolInv, TypesInv, ValuesEvent
    PROVE  \E n \in 0..Len(saved), all \in Seq(Text), agents \in Seq(Messages({"assistant", "tool"})) :
              /\ Head(wire).kind = "values" /\ Head(wire).msgs = all /\ all = SubSeq(saved, 1, n)
              /\ agents = Keeping(all, {m \in ToSet(all) : m.role # "user"})
              /\ ToSet(agents) = {m \in ToSet(all) : m.role # "user"}
              /\ ToSet(all) \subseteq ToSet(saved) /\ ToSet(all) \subseteq Everywhere
              /\ streamed' = IF agents = <<>> THEN streamed ELSE agents
              /\ SentOn(wire) = ToSet(all) \cup SentOn(wire')
<1>1. /\ loading /\ wire # <<>> /\ wire' = Tail(wire) /\ Head(wire).kind = "values"
      /\ streamed' = IF transformedMessages(Head(wire).msgs) = <<>> THEN streamed
                     ELSE transformedMessages(Head(wire).msgs)
    BY DEF ValuesEvent, Incoming
<1>2. EventTyped(Head(wire), saved) /\ SentOn(wire) = ToSet(Head(wire).msgs) \cup SentOn(Tail(wire))
    BY <1>1, TypesGive, EventsOfRest
<1>3. PICK n \in 0..Len(saved) : Head(wire).msgs = SubSeq(saved, 1, n)
    BY <1>1, <1>2 DEF EventTyped
<1> DEFINE all == SubSeq(saved, 1, n)
           K == {m \in ToSet(all) : m.role # "user"}
           agents == Keeping(all, K)
<1>4. all \in Seq(Text) /\ ToSet(all) \subseteq ToSet(saved)
    BY TypesGive, EntriesOfFirst
<1>5. ToSet(all) \subseteq Everywhere
    BY <1>4, EverywhereParts
<1>6. streamed' = IF agents = <<>> THEN streamed ELSE agents
    BY <1>1, <1>3 DEF transformedMessages
<1>7. all = SubSeq(saved, 1, n) /\ agents = Keeping(all, {m \in ToSet(all) : m.role # "user"})
      /\ K = {m \in ToSet(all) : m.role # "user"}
    OBVIOUS
<1> HIDE DEF all
<1>8. agents \in Seq(Text) /\ ToSet(agents) = ToSet(all) \cap K
    <2> HIDE DEF K
    <2> QED BY <1>4, EntriesKept
<1> HIDE DEF agents, K
<1>9. ToSet(agents) = {m \in ToSet(all) : m.role # "user"}
    BY <1>7, <1>8
<1>10. \A m \in ToSet(agents) : m \in Messages({"assistant", "tool"})
    <2> SUFFICES ASSUME NEW m \in ToSet(agents) PROVE m \in Messages({"assistant", "tool"})
        OBVIOUS
    <2>1. m \in Written(made) /\ m.role # "user"
        BY <1>5, <1>9, TypesGive
    <2> QED BY <2>1, TypesGive, WrittenIs
<1>11. agents \in Seq(Messages({"assistant", "tool"}))
    <2> DEFINE U == Messages({"assistant", "tool"})
    <2>1. ToSet(agents) \subseteq U
        BY <1>10
    <2> HIDE DEF U
    <2>2. agents \in Seq(U)
        BY <1>8, <2>1, EntriesTyping
    <2> QED BY <2>2 DEF U
<1> QED BY <1>1, <1>2, <1>3, <1>4, <1>5, <1>6, <1>7, <1>9, <1>11

LEMMA CallsOfMade ==
    ASSUME ProtocolInv, TypesInv, NEW m \in Everywhere, NEW name
    PROVE  /\ CallsOf(m, name) \subseteq (1..made) \X Int
           /\ m.id \in (1..made) \X Int
<1>1. m \in Written(made) /\ made \in 0..MaxMessages
    BY TypesGive
<1>2. CallsOf(m, name) \subseteq {m.id[1]} \X (Nat \ {0})
    BY <1>1, CallsOfWritten
<1>3. m.id[1] \in 1..made /\ m.id[2] \in Int /\ m.id = <<m.id[1], m.id[2]>>
    BY <1>1, WrittenIs
<1> QED BY <1>2, <1>3

LEMMA CallsInMade ==
    ASSUME ProtocolInv, TypesInv, NEW s, ToSet(s) \subseteq Everywhere, NEW name
    PROVE  CallsIn(s, name) \subseteq (1..made) \X Int
<1> SUFFICES ASSUME NEW c \in CallsIn(s, name) PROVE c \in (1..made) \X Int
    OBVIOUS
<1>1. PICK m \in ToSet(s) : c \in CallsOf(m, name)
    BY CallsInEntries
<1>2. m \in Everywhere
    OBVIOUS
<1> QED BY <1>1, <1>2, CallsOfMade

LEMMA MessageEventKeepsTypes ==
    ASSUME ProtocolInv, TypesInv, MessageEvent
    PROVE  TypesInv'
<1>1. /\ wire # <<>> /\ wire' = Tail(wire)
      /\ UNCHANGED <<saved, asks, run, writing, made, local, pending, mounted, loads, doubt, moves>>
    BY DEF MessageEvent, Incoming, server
<1>2. PICK m \in Messages({"assistant", "tool"}) :
              /\ Head(wire).msgs = <<m>> /\ m \in Written(made)
              /\ streamed' \in Seq(Messages({"assistant", "tool"}))
              /\ ToSet(streamed') = ToSet(streamed) \cup {m}
              /\ SentOn(wire) = {m} \cup SentOn(wire')
    BY MessageArrives
<1>3. WireTyped'
    <2>1. EventsTyped(Tail(wire), saved)
        BY <1>1, TypesGive, EventsOfRest
    <2> QED BY <1>1, <2>1 DEF WireTyped
<1>4. Everywhere' \subseteq Everywhere
    BY <1>1, <1>2 DEF Everywhere
<1>5. MessagesTyped' /\ Agreement'
    BY <1>1, <1>2, <1>4, TypesGive, OldOnesKeepMessages
<1>6. m \in Everywhere
    BY <1>2, EverywhereParts
<1> DEFINE P == ((1..made) \X Int) \X {"running", "completed"}
           started == {c \in CallsOf(m, "task") : \A s \in {"running", "completed"} : <<c, s>> \notin active}
           finished == {c \in Ids(<<m>>) : m.role = "tool" /\ <<c, "running">> \in active}
           now == ({p \in active : p[1] \notin finished} \cup {<<c, "running">> : c \in started})
                   \cup {<<c, "completed">> : c \in finished}
<1>7. /\ tracked' = IF CallsOf(m, "execute") = {} THEN tracked ELSE LastCall(m)
      /\ active' = now /\ (subagents' = subagents \/ subagents' = now)
    <2>1. Head(Head(wire).msgs) = m
        BY <1>2, Singleton
    <2> QED BY <1>2, <2>1 DEF MessageEvent
<1>8. tracked' \in MessageIds \cup {None}
    <2>1. CASE CallsOf(m, "execute") = {}
        BY <1>7, <2>1, TypesGive DEF StateTyped
    <2>2. CASE CallsOf(m, "execute") # {}
        <3>1. m.role = "assistant" /\ CallsOf(m, "execute") \subseteq (1..made) \X Int
            BY <1>2, <1>6, <2>2, TypesGive, CallsOfWritten, CallsOfMade
        <3>2. m.calls \in Plans
            BY <1>2, <3>1, TypesGive, WrittenIs
        <3>3. m = Message(m.id, m.role, m.calls)
            BY DEF Messages, Message
        <3> DEFINE plan == m.calls
                   id == m.id
                   role == m.role
                   x == Message(id, role, plan)
        <3>4. plan \in Plans /\ m = x
            BY <3>2, <3>3
        <3> HIDE DEF plan, id, role
        <3>5. CallsOf(x, "execute") # {} => LastCall(x) \in CallsOf(x, "execute")
            BY <3>4, LastCallIsACall
        <3> HIDE DEF x
        <3>6. LastCall(m) \in CallsOf(m, "execute")
            BY <2>2, <3>4, <3>5
        <3>7. (1..made) \X Int \subseteq MessageIds
            BY TypesGive DEF MessageIds
        <3> QED BY <1>7, <2>2, <3>1, <3>6, <3>7
    <2> QED BY <2>1, <2>2
<1>9. now \subseteq P
    <2>1. CallsOf(m, "task") \subseteq (1..made) \X Int /\ m.id \in (1..made) \X Int
        BY <1>6, CallsOfMade
    <2>2. \A c \in Ids(<<m>>) : c = m.id
        BY EntriesOfOne, IdsOfEntries
    <2>3. active \subseteq P
        BY TypesGive DEF StateTyped
    <2> SUFFICES ASSUME NEW p \in now PROVE p \in P
        OBVIOUS
    <2>4. CASE p \in active
        BY <2>3, <2>4
    <2>5. ASSUME NEW c \in started, p = <<c, "running">> PROVE p \in P
        BY <2>1, <2>5
    <2>6. ASSUME NEW c \in finished, p = <<c, "completed">> PROVE p \in P
        <3>1. c \in (1..made) \X Int
            BY <2>1, <2>2
        <3> QED BY <2>6, <3>1
    <2> QED BY <2>4, <2>5, <2>6
<1>10. active' \cup subagents' \subseteq P
    <2> HIDE DEF now
    <2> QED BY <1>7, <1>9, TypesGive DEF StateTyped
<1>11. StateTyped'
    <2> HIDE DEF now
    <2> QED BY <1>1, <1>8, <1>10, TypesGive DEF StateTyped
<1>12. WritingIs'
    BY <1>1, TypesGive DEF WritingIs
<1> QED BY <1>3, <1>5, <1>11, <1>12 DEF TypesInv

LEMMA ValuesEventKeepsTypes ==
    ASSUME ProtocolInv, TypesInv, ValuesEvent
    PROVE  TypesInv'
<1>1. /\ wire # <<>> /\ wire' = Tail(wire) /\ doubt' \subseteq doubt
      /\ UNCHANGED <<saved, asks, run, writing, made, tracked, local, pending, mounted, loads, moves>>
    BY DEF ValuesEvent, Incoming, server
<1>2. PICK n \in 0..Len(saved), all \in Seq(Text), agents \in Seq(Messages({"assistant", "tool"})) :
              /\ Head(wire).msgs = all
              /\ ToSet(agents) = {m \in ToSet(all) : m.role # "user"}
              /\ ToSet(all) \subseteq Everywhere
              /\ streamed' = IF agents = <<>> THEN streamed ELSE agents
              /\ SentOn(wire) = ToSet(all) \cup SentOn(wire')
    BY ValuesArrive
<1>3. WireTyped'
    <2>1. EventsTyped(Tail(wire), saved)
        BY <1>1, TypesGive, EventsOfRest
    <2> QED BY <1>1, <2>1 DEF WireTyped
<1>4. streamed' \in Seq(Messages({"assistant", "tool"})) /\ ToSet(streamed') \subseteq Everywhere
    BY <1>2, TypesGive, EverywhereParts
<1>5. Everywhere' \subseteq Everywhere
    BY <1>1, <1>2, <1>4 DEF Everywhere
<1>6. MessagesTyped' /\ Agreement'
    BY <1>1, <1>4, <1>5, TypesGive, OldOnesKeepMessages
<1> DEFINE P == ((1..made) \X Int) \X {"running", "completed"}
           known == {p[1] : p \in active} \cup CallsIn(all, "task")
           now == {<<c, IF c \in Ids(all) \/ <<c, "completed">> \in active THEN "completed" ELSE "running">>
                      : c \in known}
<1>7. active' = now /\ (subagents' = subagents \/ subagents' = now)
    BY <1>2 DEF ValuesEvent
<1>8. now \subseteq P
    <2>1. CallsIn(all, "task") \subseteq (1..made) \X Int
        BY <1>2, CallsInMade
    <2>2. active \subseteq P
        BY TypesGive DEF StateTyped
    <2>3. known \subseteq (1..made) \X Int
        BY <2>1, <2>2
    <2> HIDE DEF known
    <2> SUFFICES ASSUME NEW p \in now PROVE p \in P
        OBVIOUS
    <2>4. PICK c \in known : p = <<c, IF c \in Ids(all) \/ <<c, "completed">> \in active THEN "completed" ELSE "running">>
        OBVIOUS
    <2>5. p = <<c, "completed">> \/ p = <<c, "running">>
        BY <2>4
    <2>6. c \in (1..made) \X Int
        BY <2>3
    <2> QED BY <2>5, <2>6
<1>9. active' \cup subagents' \subseteq P
    <2> HIDE DEF now
    <2> QED BY <1>7, <1>8, TypesGive DEF StateTyped
<1>10. StateTyped'
    <2> HIDE DEF now
    <2> QED BY <1>1, <1>9, TypesGive DEF StateTyped
<1>11. WritingIs'
    BY <1>1, TypesGive DEF WritingIs
<1> QED BY <1>3, <1>6, <1>10, <1>11 DEF TypesInv

LEMMA InterruptEventKeepsTypes ==
    ASSUME ProtocolInv, TypesInv, InterruptEvent
    PROVE  TypesInv'
<1>1. /\ wire # <<>> /\ wire' = Tail(wire) /\ pending' = tracked
      /\ UNCHANGED <<saved, asks, run, writing, made, tracked, local, streamed, active, subagents, mounted,
                     loads, doubt, moves>>
    BY DEF InterruptEvent, Incoming, server
<1>2. SentOn(wire') \subseteq SentOn(wire) /\ EventsTyped(wire', saved)
    <2>1. SentOn(wire) = ToSet(Head(wire).msgs) \cup SentOn(Tail(wire)) /\ EventsTyped(Tail(wire), saved)
        BY <1>1, TypesGive, EventsOfRest
    <2> QED BY <1>1, <2>1
<1>3. WireTyped'
    BY <1>1, <1>2 DEF WireTyped
<1>4. Everywhere' \subseteq Everywhere
    BY <1>1, <1>2 DEF Everywhere
<1>5. MessagesTyped' /\ Agreement'
    BY <1>1, <1>4, TypesGive, OldOnesKeepMessages
<1>6. StateTyped'
    BY <1>1, TypesGive DEF StateTyped
<1>7. WritingIs'
    BY <1>1, TypesGive DEF WritingIs
<1> QED BY <1>3, <1>5, <1>6, <1>7 DEF TypesInv

LEMMA AgentsAreText == streamed \in Seq(Messages({"assistant", "tool"})) => streamed \in Seq(Text)
<1>1. Messages({"assistant", "tool"}) \subseteq Text
    BY DEF Messages, Text
<1> DEFINE A == Messages({"assistant", "tool"})
<1>2. A \subseteq Text
    BY <1>1
<1> HIDE DEF A
<1>3. streamed \in Seq(A) => streamed \in Seq(Text)
    BY <1>2
<1> QED BY <1>3 DEF A

\* What a chat copies from the stream, and what it shows.
LEMMA LocalJoins ==
    ASSUME ProtocolInv, TypesInv
    PROVE  /\ AppendAll(local, streamed) \in Seq(Text)
           /\ ToSet(AppendAll(local, streamed)) = ToSet(local) \cup ToSet(streamed)
           /\ displayMessages \in Seq(Text)
           /\ ToSet(displayMessages) = ToSet(local) \cup ToSet(streamed)
<1>1. local \in Seq(Text) /\ streamed \in Seq(Text)
    BY TypesGive, AgentsAreText
<1>2. \A a, b \in ToSet(local) \cup ToSet(streamed) : a.id = b.id => a = b
    BY TypesGive, EverywhereParts DEF Agreement
<1> QED BY <1>1, <1>2, EntriesAppended, EntriesDisplayed DEF displayMessages

LEMMA StreamEndsKeepsTypes ==
    ASSUME ProtocolInv, TypesInv, StreamEnds, doubt' \subseteq Aspects, moves' \in 0..MaxMoves,
           UNCHANGED <<saved, asks, made, streamed, pending, subagents, mounted, loads>>
    PROVE  TypesInv'
<1>1. /\ wire' = <<>> /\ (local' = local \/ local' = AppendAll(local, streamed))
      /\ tracked' \in {tracked, None} /\ active' \in {active, {}}
      /\ (writing' = <<>> /\ run' = "resume") \/ UNCHANGED <<writing, run>>
    BY DEF StreamEnds, Open
<1>2. local' \in Seq(Text) /\ ToSet(local') \subseteq ToSet(local) \cup ToSet(streamed)
    BY <1>1, LocalJoins, TypesGive
<1>3. WireTyped'
    BY <1>1, NoEvents DEF WireTyped
<1>4. writing' \in Seq(Text) /\ ToSet(writing') \subseteq ToSet(writing)
    <2>1. <<>> \in Seq(Text)
        OBVIOUS
    <2> QED BY <1>1, <2>1, TypesGive, EntriesOfEmpty
<1>5. Everywhere' \subseteq Everywhere
    BY <1>1, <1>2, <1>4, NoEvents DEF Everywhere
<1>6. MessagesTyped' /\ Agreement'
    BY <1>2, <1>4, <1>5, TypesGive, OldOnesKeepMessages
<1>7. StateTyped'
    BY <1>1, TypesGive DEF StateTyped
<1>8. WritingIs'
    BY <1>1, TypesGive DEF WritingIs
<1> QED BY <1>3, <1>6, <1>7, <1>8 DEF TypesInv

LEMMA MoveMoves == StateTyped /\ Move => moves' \in 0..MaxMoves
BY ConversationAssumption DEF StateTyped, Move

LEMMA StreamEndKeepsTypes ==
    ASSUME ProtocolInv, TypesInv, DoneOrError \/ Stop
    PROVE  TypesInv'
<1>1. /\ StreamEnds /\ UNCHANGED <<saved, asks, made, streamed, pending, subagents, mounted, loads>>
      /\ doubt' \in {doubt, Aspects} /\ (moves' = moves \/ Move)
    BY DEF DoneOrError, Stop
<1>2. doubt' \subseteq Aspects /\ moves' \in 0..MaxMoves
    BY <1>1, TypesGive, MoveMoves DEF StateTyped
<1> QED BY <1>1, <1>2, StreamEndsKeepsTypes

LEMMA SubmitKeepsTypes ==
    ASSUME ProtocolInv, TypesInv, Submit
    PROVE  TypesInv'
<1> DEFINE n == made + 1
           shown == Message(<<n, -1>>, "user", <<>>)
           sent == Message(<<n, 0>>, "user", <<>>)
<1>1. /\ made < MaxMessages /\ made' = n /\ pending' = None /\ local' = Append(local, shown)
      /\ wire' = <<>> /\ tracked' = None /\ active' = {} /\ run' = "begin" /\ writing' = <<sent>>
      /\ doubt' \subseteq doubt \cup Aspects
      /\ UNCHANGED <<saved, asks, streamed, subagents, mounted, loads, moves>>
    BY DEF Submit, Open, ApprovalCleared, Aspects
<1>2. n \in 1..MaxMessages /\ n \in 1..n /\ n = made + 1 /\ made' \in 0..MaxMessages /\ n \in Nat
    BY <1>1, TypesGive
<1>3. /\ shown \in Written(n) /\ sent \in Written(n) /\ shown \in Text /\ sent \in Text
      /\ shown.id = <<n, -1>> /\ sent.id = <<n, 0>>
    <2>1. /\ shown = [id |-> <<n, -1>>, role |-> "user", calls |-> <<>>]
          /\ sent = [id |-> <<n, 0>>, role |-> "user", calls |-> <<>>]
        BY DEF Message
    <2> HIDE DEF n
    <2> QED BY <1>2, <2>1 DEF Written, Text, Messages, MessageIds
<1> DEFINE X == {shown, sent}
<1>4. WritingIs'
    BY <1>1, <1>2 DEF WritingIs
<1> HIDE DEF shown, sent
<1>5. /\ local' \in Seq(Text) /\ ToSet(local') = ToSet(local) \cup {shown}
      /\ writing' \in Seq(Text) /\ ToSet(writing') = {sent}
    BY <1>1, <1>3, TypesGive, EntriesOfAppend, EntriesOfOne
<1>6. WireTyped'
    BY <1>1, NoEvents DEF WireTyped
<1>7. Everywhere' \subseteq Everywhere \cup X
    BY <1>1, <1>5, NoEvents DEF Everywhere
<1>8. /\ X \subseteq Written(made + 1) /\ \A m \in X : m.id[1] = made + 1
      /\ \A a, b \in X : a.id = b.id => a = b
    BY <1>3
<1>9. Everywhere' \subseteq Written(made') /\ Agreement'
    <2> HIDE DEF X
    <2> QED BY <1>1, <1>7, <1>8, TypesGive, NewOnesAgree
<1>10. MessagesTyped'
    BY <1>1, <1>2, <1>5, <1>9, TypesGive DEF MessagesTyped
<1>11. ((1..made) \X Int) \X {"running", "completed"} \subseteq ((1..made') \X Int) \X {"running", "completed"}
    BY <1>1, TypesGive
<1>12. StateTyped'
    BY <1>1, <1>11, TypesGive DEF StateTyped
<1> QED BY <1>4, <1>6, <1>9, <1>10, <1>12 DEF TypesInv

LEMMA DecideKeepsTypes ==
    ASSUME ProtocolInv, TypesInv, NEW d \in Decisions, Decide(d)
    PROVE  TypesInv'
<1>1. /\ pending' = None /\ UNCHANGED <<saved, asks, made, streamed, local, subagents, mounted, loads, doubt, moves>>
      /\ \/ UNCHANGED <<run, writing, wire, tracked, active>>
         \/ wire' = <<>> /\ tracked' = None /\ active' = {} /\ run' = "resume" /\ writing' = <<>>
    BY DEF Decide, Open, server, ApprovalCleared
<1>2. WireTyped' /\ SentOn(wire') \subseteq SentOn(wire)
    BY <1>1, TypesGive, NoEvents DEF WireTyped
<1>3. writing' \in Seq(Text) /\ ToSet(writing') \subseteq ToSet(writing)
    <2>1. <<>> \in Seq(Text)
        OBVIOUS
    <2> QED BY <1>1, <2>1, TypesGive, EntriesOfEmpty
<1>4. Everywhere' \subseteq Everywhere
    BY <1>1, <1>2, <1>3 DEF Everywhere
<1>5. MessagesTyped' /\ Agreement'
    BY <1>1, <1>3, <1>4, TypesGive, OldOnesKeepMessages
<1>6. StateTyped'
    BY <1>1, TypesGive DEF StateTyped
<1>7. WritingIs'
    BY <1>1, TypesGive DEF WritingIs
<1> QED BY <1>2, <1>5, <1>6, <1>7 DEF TypesInv

\* A list without one of its entries.
LEMMA WithoutOne ==
    ASSUME NEW T, NEW s \in Seq(T), NEW i \in DOMAIN s
    PROVE  RemoveAt(s, i) \in Seq(T) /\ ToSet(RemoveAt(s, i)) \subseteq ToSet(s)
<1>1. Len(s) \in Nat /\ DOMAIN s = 1..Len(s) /\ i \in 1..Len(s)
    OBVIOUS
<1> DEFINE a == SubSeq(s, 1, i - 1)
           b == SubSeq(s, i + 1, Len(s))
           U == ToSet(s)
<1>2. U \subseteq T /\ \A k \in 1..Len(s) : s[k] \in U
    BY <1>1 DEF ToSet
<1>3. a \in Seq(U)
    <2>1. \A k \in 1..i - 1 : s[k] \in U
        BY <1>1, <1>2
    <2> HIDE DEF U
    <2> QED BY <1>1, <2>1, SubSeqProperties
<1>4. b \in Seq(U)
    <2>1. \A k \in i + 1..Len(s) : s[k] \in U
        BY <1>1, <1>2
    <2> HIDE DEF U
    <2> QED BY <1>1, <2>1, SubSeqProperties
<1>5. RemoveAt(s, i) = a \o b
    BY DEF RemoveAt
<1> HIDE DEF a, b, U
<1>6. a \o b \in Seq(U) /\ ToSet(a \o b) \subseteq U
    BY <1>3, <1>4, EntriesOfBoth, EntriesTyped
<1> QED BY <1>2, <1>5, <1>6, EntriesTyping DEF U

\* Loads that typed ones leave behind are typed.
LEMMA LoadsStayTyped ==
    ASSUME StateTyped, NEW i \in DOMAIN loads, loads' = RemoveAt(loads, i), UNCHANGED saved
    PROVE  loads' \in Seq(Nat \cup {-1}) /\ \A k \in DOMAIN loads' : loads'[k] <= Len(saved')
<1>1. loads \in Seq(Nat \cup {-1}) /\ \A l \in ToSet(loads) : l <= Len(saved)
    BY DEF StateTyped, ToSet
<1>2. RemoveAt(loads, i) \in Seq(Nat \cup {-1}) /\ ToSet(RemoveAt(loads, i)) \subseteq ToSet(loads)
    BY <1>1, WithoutOne
<1>3. \A l \in ToSet(loads') : l <= Len(saved)
    BY <1>1, <1>2
<1> QED BY <1>2, <1>3 DEF ToSet

LEMMA HistoryAnswerKeepsTypes ==
    ASSUME ProtocolInv, TypesInv, NEW i \in DOMAIN loads, HistoryAnswer(i)
    PROVE  TypesInv'
<1>1. /\ loads[i] # -1 /\ loads' = RemoveAt(loads, i)
      /\ local' = IF loads[i] > 0 THEN SubSeq(saved, 1, loads[i]) ELSE local
      /\ doubt' \subseteq doubt \cup {"messages", "approval"} /\ pending' \in {pending, Unmatched}
      /\ UNCHANGED <<saved, asks, run, writing, made, wire, streamed, tracked, active, subagents, mounted, moves>>
    BY DEF HistoryAnswer, server, stream
<1>2. loads[i] \in 0..Len(saved)
    <2>1. loads[i] \in Nat \cup {-1}
        <3>1. loads \in Seq(Nat \cup {-1})
            BY TypesGive DEF StateTyped
        <3> QED BY <3>1
    <2>2. loads[i] <= Len(saved) /\ Len(saved) \in Nat
        BY TypesGive DEF StateTyped
    <2> QED BY <1>1, <2>1, <2>2
<1>3. local' \in Seq(Text) /\ ToSet(local') \subseteq ToSet(local) \cup ToSet(saved)
    <2>1. SubSeq(saved, 1, loads[i]) \in Seq(Text) /\ ToSet(SubSeq(saved, 1, loads[i])) \subseteq ToSet(saved)
        BY <1>2, TypesGive, EntriesOfFirst
    <2> QED BY <1>1, <2>1, TypesGive
<1>4. Everywhere' \subseteq Everywhere
    BY <1>1, <1>3 DEF Everywhere
<1>5. MessagesTyped' /\ Agreement'
    BY <1>1, <1>3, <1>4, TypesGive, OldOnesKeepMessages
<1>6. WireTyped'
    BY <1>1, TypesGive DEF WireTyped
<1>7. StateTyped'
    <2>1. loads' \in Seq(Nat \cup {-1}) /\ \A k \in DOMAIN loads' : loads'[k] <= Len(saved')
        BY <1>1, TypesGive, LoadsStayTyped
    <2>2. doubt' \subseteq Aspects
        BY <1>1, TypesGive DEF StateTyped, Aspects
    <2> QED BY <1>1, <2>1, <2>2, TypesGive DEF StateTyped
<1>8. WritingIs'
    BY <1>1, TypesGive DEF WritingIs
<1> QED BY <1>5, <1>6, <1>7, <1>8 DEF TypesInv

LEMMA AsideKeepsTypes ==
    ASSUME ProtocolInv, TypesInv,
           \/ Leave \/ (\E i \in DOMAIN loads : ReadHistory(i) \/ HistoryFails(i)) \/ UNCHANGED vars
    PROVE  TypesInv'
<1>1. UNCHANGED <<saved, asks, run, writing, made, wire, streamed, tracked, active, local, pending, subagents, doubt>>
    BY DEF Leave, ReadHistory, HistoryFails, vars, server, stream, thread
<1>2. Everywhere' \subseteq Everywhere
    BY <1>1 DEF Everywhere
<1>3. MessagesTyped' /\ Agreement'
    BY <1>1, <1>2, TypesGive, OldOnesKeepMessages
<1>4. WireTyped' /\ WritingIs'
    BY <1>1, TypesGive DEF WireTyped, WritingIs
<1>5. mounted' \in BOOLEAN /\ moves' \in 0..MaxMoves
    BY TypesGive, MoveMoves DEF StateTyped, Leave, ReadHistory, HistoryFails, vars
<1>6. loads' \in Seq(Nat \cup {-1}) /\ \A k \in DOMAIN loads' : loads'[k] <= Len(saved')
    <2>1. loads \in Seq(Nat \cup {-1}) /\ (\A k \in DOMAIN loads : loads[k] <= Len(saved)) /\ Len(saved) \in Nat
        BY TypesGive DEF StateTyped
    <2>2. CASE UNCHANGED loads
        BY <1>1, <2>1, <2>2
    <2>3. ASSUME NEW i \in DOMAIN loads, HistoryFails(i)
          PROVE  loads' \in Seq(Nat \cup {-1}) /\ \A k \in DOMAIN loads' : loads'[k] <= Len(saved')
        BY <1>1, <2>3, TypesGive, LoadsStayTyped DEF HistoryFails
    <2>4. ASSUME NEW i \in DOMAIN loads, ReadHistory(i)
          PROVE  loads' \in Seq(Nat \cup {-1}) /\ \A k \in DOMAIN loads' : loads'[k] <= Len(saved')
        <3>1. loads' = [loads EXCEPT ![i] = Len(saved)]
            BY <2>4 DEF ReadHistory
        <3>2. loads' \in Seq(Nat \cup {-1}) /\ \A k \in DOMAIN loads' : k \in DOMAIN loads /\ loads'[k] = IF k = i THEN Len(saved) ELSE loads[k]
            BY <2>1, <3>1
        <3> QED BY <1>1, <2>1, <3>2
    <2> QED BY <2>2, <2>3, <2>4 DEF Leave, vars
<1>7. StateTyped'
    BY <1>1, <1>5, <1>6, TypesGive DEF StateTyped
<1> QED BY <1>3, <1>4, <1>7 DEF TypesInv

LEMMA ReturnKeepsTypes ==
    ASSUME ProtocolInv, TypesInv, Return
    PROVE  TypesInv'
<1>1. /\ mounted' = TRUE /\ loads' = Append(loads, -1) /\ Move
      /\ local' = local \/ local' = AppendAll(local, streamed)
      /\ UNCHANGED <<saved, asks, run, writing, made, wire, streamed, tracked, active, pending, subagents, doubt>>
    BY DEF Return, server, stream
<1>2. local' \in Seq(Text) /\ ToSet(local') \subseteq ToSet(local) \cup ToSet(streamed)
    BY <1>1, LocalJoins, TypesGive
<1>3. Everywhere' \subseteq Everywhere
    BY <1>1, <1>2 DEF Everywhere
<1>4. MessagesTyped' /\ Agreement'
    BY <1>1, <1>2, <1>3, TypesGive, OldOnesKeepMessages
<1>5. WireTyped' /\ WritingIs'
    BY <1>1, TypesGive DEF WireTyped, WritingIs
<1>6. loads' \in Seq(Nat \cup {-1}) /\ \A k \in DOMAIN loads' : loads'[k] <= Len(saved')
    <2>1. loads \in Seq(Nat \cup {-1}) /\ (\A k \in DOMAIN loads : loads[k] <= Len(saved)) /\ Len(saved) \in Nat
        BY TypesGive DEF StateTyped
    <2>2. loads' \in Seq(Nat \cup {-1}) /\ ToSet(loads') = ToSet(loads) \cup {-1}
        BY <1>1, <2>1, EntriesOfAppend
    <2>3. \A l \in ToSet(loads') : l <= Len(saved)
        <3>1. \A l \in ToSet(loads) : l <= Len(saved)
            BY <2>1 DEF ToSet
        <3>2. -1 <= Len(saved)
            BY <2>1
        <3> QED BY <2>2, <3>1, <3>2
    <2> QED BY <1>1, <2>2, <2>3 DEF ToSet
<1>7. StateTyped'
    BY <1>1, <1>6, TypesGive, MoveMoves DEF StateTyped
<1> QED BY <1>4, <1>5, <1>7 DEF TypesInv

LEMMA TwoLoads == <<-1, -1>> \in Seq(Nat \cup {-1}) /\ \A k \in DOMAIN <<-1, -1>> : <<-1, -1>>[k] = -1
OBVIOUS

LEMMA ReloadKeepsTypes ==
    ASSUME ProtocolInv, TypesInv, Reload
    PROVE  TypesInv'
<1>1. /\ wire' = <<>> /\ streamed' = <<>> /\ local' = <<>> /\ tracked' = None /\ pending' = None /\ active' = {}
      /\ subagents' = {} /\ mounted' = TRUE /\ loads' = <<-1, -1>> /\ doubt' = Aspects /\ Move
      /\ UNCHANGED <<saved, asks, run, writing, made>>
    BY DEF Reload, server
<1>2. WireTyped'
    BY <1>1, NoEvents DEF WireTyped
<1>3. Everywhere' \subseteq Everywhere
    BY <1>1, NoEvents, EntriesOfEmpty DEF Everywhere
<1>4. MessagesTyped' /\ Agreement'
    <2>1. <<>> \in Seq(Text) /\ <<>> \in Seq(Messages({"assistant", "tool"}))
        OBVIOUS
    <2> QED BY <1>1, <1>3, <2>1, TypesGive, OldOnesKeepMessages
<1>5. StateTyped'
    <2>1. Len(saved) \in Nat
        BY TypesGive
    <2>2. \A k \in DOMAIN loads' : loads'[k] <= Len(saved')
        BY <1>1, <2>1, TwoLoads
    <2>3. moves' \in 0..MaxMoves
        BY <1>1, TypesGive, MoveMoves
    <2> QED BY <1>1, <2>2, <2>3, TypesGive, TwoLoads DEF StateTyped
<1>6. WritingIs'
    BY <1>1, TypesGive DEF WritingIs
<1> QED BY <1>2, <1>4, <1>5, <1>6 DEF TypesInv

LEMMA TypesInit == Init => TypesInv
<1> SUFFICES ASSUME Init PROVE TypesInv
    OBVIOUS
<1>1. /\ saved = <<>> /\ asks = {} /\ run = "none" /\ writing = <<>> /\ made = 0 /\ wire = <<>> /\ streamed = <<>>
      /\ tracked = None /\ active = {} /\ local = <<>> /\ pending = None /\ subagents = {} /\ mounted = TRUE
      /\ loads = <<-1, -1>> /\ doubt = {} /\ moves = 0
    BY DEF Init
<1>2. Everywhere = {}
    BY <1>1, NoEvents, EntriesOfEmpty DEF Everywhere
<1>3. MaxMessages \in Nat /\ MaxMoves \in Nat
    BY ConversationAssumption
<1>4. MessagesTyped /\ Agreement
    <2>1. <<>> \in Seq(Text) /\ <<>> \in Seq(Messages({"assistant", "tool"}))
        OBVIOUS
    <2> QED BY <1>1, <1>2, <1>3, <2>1 DEF MessagesTyped, Agreement
<1>5. WireTyped /\ WritingIs
    BY <1>1, NoEvents DEF WireTyped, WritingIs
<1>6. StateTyped
    <2>1. \A k \in DOMAIN loads : loads[k] <= Len(saved)
        BY <1>1, Empty, TwoLoads
    <2> QED BY <1>1, <1>3, <2>1, TwoLoads DEF StateTyped
<1> QED BY <1>4, <1>5, <1>6 DEF TypesInv

LEMMA TypesNext == ProtocolInv /\ TypesInv /\ [Next]_vars => TypesInv'
<1> SUFFICES ASSUME ProtocolInv, TypesInv, [Next]_vars PROVE TypesInv'
    OBVIOUS
<1>1. CASE Begin \/ SaveAnswer \/ SaveResults \/ Resume \/ End \/ Fail
    BY <1>1, BeginKeepsTypes, SaveAnswerKeepsTypes, SaveResultsKeepsTypes, ResumeKeepsTypes, EndFailKeepsTypes
<1>2. ASSUME NEW plan \in Plans, Answer(plan) PROVE TypesInv'
    BY <1>2, AnswerKeepsTypes
<1>3. ASSUME NEW c, RunTool(c) PROVE TypesInv'
    BY <1>3, RunToolKeepsTypes
<1>4. CASE MessageEvent \/ ValuesEvent \/ InterruptEvent \/ DoneOrError \/ Stop
    BY <1>4, MessageEventKeepsTypes, ValuesEventKeepsTypes, InterruptEventKeepsTypes, StreamEndKeepsTypes
<1>5. ASSUME NEW d \in Decisions, Decide(d) PROVE TypesInv'
    BY <1>5, DecideKeepsTypes
<1>6. CASE Submit \/ Return \/ Reload
    BY <1>6, SubmitKeepsTypes, ReturnKeepsTypes, ReloadKeepsTypes
<1>7. ASSUME NEW i \in DOMAIN loads, HistoryAnswer(i) PROVE TypesInv'
    BY <1>7, HistoryAnswerKeepsTypes
<1>8. CASE Leave \/ (\E i \in DOMAIN loads : ReadHistory(i) \/ HistoryFails(i)) \/ UNCHANGED vars
    BY <1>8, AsideKeepsTypes
<1> QED BY <1>1, <1>2, <1>3, <1>4, <1>5, <1>6, <1>7, <1>8 DEF Next

\* Every message, on either side and on the wire, is a user's, an answer or a
\* result of its form, the stream's never a user's; the other variables have
\* their types. Messages with the same id being the same (Agreement) is part of
\* what makes this inductive: appendMessage replaces by id.
THEOREM ConversationTyped == Spec => []TypeOK
<1>1. ProtocolInv /\ TypesInv => TypeOK
    <2> SUFFICES ASSUME ProtocolInv, TypesInv PROVE TypeOK
        OBVIOUS
    <2>1. {saved, writing, local} \subseteq Seq(Messages({"user", "assistant", "tool"}))
          /\ streamed \in Seq(Messages({"assistant", "tool"}))
        BY TypesGive DEF Text
    <2>2. \A m \in 1..made : m \in 1..MaxMessages
        BY TypesGive
    <2>3. asks \subseteq MessageIds /\ run \in {"none", "begin", "model", "tools", "resume", "end"}
          /\ {decision, queued} \subseteq Decisions \cup {None} /\ loading \in BOOLEAN
        BY DEF ProtocolInv, ProtocolTypes
    <2>4. \A i \in DOMAIN wire : wire[i].kind \in {"messages", "values", "interrupt", "done", "error"}
        BY TypesGive DEF EventsTyped, EventTyped
    <2>5. active \cup subagents \subseteq MessageIds \X {"running", "completed"}
        BY <2>2, TypesGive DEF StateTyped, MessageIds
    <2> QED BY <2>1, <2>3, <2>4, <2>5, TypesGive DEF StateTyped, TypeOK
<1>2. Init => ProtocolInv /\ TypesInv
    BY ProtocolInit, TypesInit
<1>3. ProtocolInv /\ TypesInv /\ [Next]_vars => (ProtocolInv /\ TypesInv)'
    BY ProtocolNext, TypesNext
<1> QED BY <1>1, <1>2, <1>3, PTL DEF Spec

\* z is w and then e, the n-th, and perhaps an interrupt.
Grown(w, z, n, e) ==
    /\ n \in Nat \ {0} /\ DOMAIN w = 1..n - 1 /\ n \in DOMAIN z /\ z[n] = e
    /\ \A i \in 1..n - 1 : i \in DOMAIN z /\ z[i] = w[i]
    /\ \A i \in DOMAIN z : i \in 1..n \/ (i = n + 1 /\ z[i] = Event("interrupt", <<>>))

\* z is w without its first event.
Shrunk(w, z) ==
    /\ 1 \in DOMAIN w /\ Head(w) = w[1]
    /\ \A i \in DOMAIN z : i \in Nat \ {0} /\ i + 1 \in DOMAIN w /\ z[i] = w[i + 1]
    /\ \A i \in DOMAIN w : i \in Nat \ {0} /\ (i = 1 \/ (i - 1 \in DOMAIN z /\ z[i - 1] = w[i]))

LEMMA GrownWith ==
    ASSUME NEW w, NEW o, IsSequence(w), IsSequence(o), Len(o) \in {1, 2},
           Len(o) = 2 => o[2] = Event("interrupt", <<>>)
    PROVE  Grown(w, w \o o, Len(w) + 1, o[1]) /\ DOMAIN (w \o o) = 1..Len(w) + Len(o)
<1> DEFINE z == w \o o
           n == Len(w) + 1
<1>1. DOMAIN w = 1..Len(w) /\ Len(w) \in Nat
    BY SequenceDomain
<1>2. /\ DOMAIN z = 1..Len(w) + Len(o)
      /\ \A i \in 1..Len(w) : z[i] = w[i]
      /\ \A i \in 1..Len(o) : z[Len(w) + i] = o[i]
    BY Concatenation
<1> HIDE DEF z
<1>3. n \in DOMAIN z /\ z[n] = o[1]
    BY <1>1, <1>2
<1>4. \A i \in DOMAIN z : i \in 1..n \/ (i = n + 1 /\ z[i] = Event("interrupt", <<>>))
    <2> SUFFICES ASSUME NEW i \in DOMAIN z, i \notin 1..n PROVE i = n + 1 /\ z[i] = Event("interrupt", <<>>)
        OBVIOUS
    <2>1. Len(o) = 2 /\ i = Len(w) + 2
        BY <1>1, <1>2
    <2>2. z[Len(w) + 2] = o[2]
        BY <1>2, <2>1
    <2> QED BY <1>1, <2>1, <2>2
<1>5. n \in Nat \ {0} /\ DOMAIN w = 1..n - 1 /\ \A i \in 1..n - 1 : i \in DOMAIN z /\ z[i] = w[i]
    BY <1>1, <1>2
<1>6. Grown(w, z, n, o[1])
    BY <1>3, <1>4, <1>5 DEF Grown
<1> QED BY <1>2, <1>6 DEF z

LEMMA GrownByOne ==
    ASSUME IsSequence(wire), loading, NEW e, Send(<<e>>)
    PROVE  \E n : Grown(wire, wire', n, e) /\ DOMAIN wire' = 1..n
<1> DEFINE o == <<e>>
           n == Len(wire) + 1
<1>1. IsSequence(o) /\ Len(o) = 1 /\ o[1] = e
    BY Singleton
<1>2. wire' = wire \o o
    BY DEF Send
<1> HIDE DEF o, n
<1>3. Len(o) \in {1, 2} /\ (Len(o) = 2 => o[2] = Event("interrupt", <<>>))
    BY <1>1
<1>4. Grown(wire, wire \o o, Len(wire) + 1, o[1]) /\ DOMAIN (wire \o o) = 1..Len(wire) + Len(o)
    BY <1>1, <1>3, GrownWith
<1>5. Grown(wire, wire', Len(wire) + 1, e) /\ DOMAIN wire' = 1..Len(wire) + 1
    BY <1>1, <1>2, <1>4
<1> QED BY <1>5

LEMMA TwoEvents ==
    ASSUME NEW a, NEW b
    PROVE  LET o == <<a>> \o <<b>> IN IsSequence(o) /\ Len(o) = 2 /\ o[1] = a /\ o[2] = b
<1> DEFINE p == <<a>>
           q == <<b>>
           o == p \o q
<1>1. IsSequence(p) /\ Len(p) = 1 /\ p[1] = a /\ IsSequence(q) /\ Len(q) = 1 /\ q[1] = b
    BY Singleton
<1> HIDE DEF p, q
<1>2. IsSequence(o) /\ Len(o) = Len(p) + Len(q)
    BY <1>1, Concatenation
<1>3. \A i \in 1..Len(p) : o[i] = p[i]
    BY <1>1, Concatenation
<1>4. \A i \in 1..Len(q) : o[Len(p) + i] = q[i]
    BY <1>1, Concatenation
<1> HIDE DEF o
<1>5. IsSequence(o) /\ Len(o) = 2 /\ o[1] = a /\ o[2] = b
    BY <1>1, <1>2, <1>3, <1>4
<1> QED BY <1>5 DEF o, p, q

LEMMA GrownBySave ==
    ASSUME ProtocolInv, loading, SaveAnswer
    PROVE  \E n : /\ Grown(wire, wire', n, Event("values", saved'))
                  /\ DOMAIN wire' = IF asks' # {} THEN 1..n + 1 ELSE 1..n
<1> DEFINE v == Event("values", saved')
           q == Event("interrupt", <<>>)
           n == Len(wire) + 1
<1>1. IsSequence(wire) /\ Len(wire) \in Nat
    BY WireIsSequence, SequenceDomain
<1>2. CASE asks' = {}
    <2>1. <<v>> \o <<>> = <<v>>
        OBVIOUS
    <2>2. Send(<<v>>)
        BY <1>2, <2>1 DEF SaveAnswer
    <2> HIDE DEF v
    <2> QED BY <1>1, <1>2, <2>2, GrownByOne DEF v
<1>3. CASE asks' # {}
    <2>1. Send(<<v>> \o <<q>>)
        BY <1>3 DEF SaveAnswer
    <2> DEFINE o == <<v>> \o <<q>>
    <2>3. IsSequence(o) /\ Len(o) = 2 /\ o[1] = v /\ o[2] = q
        BY TwoEvents
    <2>4. wire' = wire \o o
        BY <2>1 DEF Send
    <2>a. Len(o) \in {1, 2} /\ (Len(o) = 2 => o[2] = Event("interrupt", <<>>))
        BY <2>3
    <2> HIDE DEF o, v, n
    <2>5. Grown(wire, wire \o o, Len(wire) + 1, o[1]) /\ DOMAIN (wire \o o) = 1..Len(wire) + Len(o)
        BY <1>1, <2>3, <2>a, GrownWith
    <2>6. Grown(wire, wire', Len(wire) + 1, v) /\ DOMAIN wire' = 1..Len(wire) + 2
        BY <2>3, <2>4, <2>5
    <2>7. DOMAIN wire' = 1..n + 1
        BY <1>1, <2>6 DEF n
    <2> QED BY <1>3, <2>6, <2>7 DEF v, n
<1> QED BY <1>2, <1>3

LEMMA ShrunkByOne ==
    ASSUME IsSequence(wire), wire # <<>>, wire' = Tail(wire)
    PROVE  Shrunk(wire, wire')
<1>1. /\ Len(wire) \in Nat \ {0} /\ DOMAIN wire = 1..Len(wire) /\ DOMAIN wire' = 1..Len(wire) - 1
      /\ Head(wire) = wire[1] /\ \A i \in 1..Len(wire) - 1 : wire'[i] = wire[i + 1]
    BY RestOf
<1>2. 1 \in DOMAIN wire /\ Head(wire) = wire[1]
    BY <1>1
<1>3. \A i \in DOMAIN wire' : i \in Nat \ {0} /\ i + 1 \in DOMAIN wire /\ wire'[i] = wire[i + 1]
    BY <1>1
<1>4. ASSUME NEW i \in DOMAIN wire
      PROVE  i \in Nat \ {0} /\ (i = 1 \/ (i - 1 \in DOMAIN wire' /\ wire'[i - 1] = wire[i]))
    <2>1. i \in Nat \ {0}
        BY <1>1
    <2>2. i # 1 => i - 1 \in 1..Len(wire) - 1 /\ (i - 1) + 1 = i
        BY <1>1
    <2> QED BY <1>1, <2>1, <2>2
<1> QED BY <1>2, <1>3, <1>4 DEF Shrunk

\* What an agent that runs does to the wire.
LEMMA AgentSends ==
    ASSUME ProtocolInv, NEW e, Send(<<e>>)
    PROVE  /\ ~loading => UNCHANGED wire /\ wire = <<>> /\ DOMAIN wire = {}
           /\ loading => \E n : Grown(wire, wire', n, e) /\ DOMAIN wire' = 1..n
<1>1. CASE loading
    BY <1>1, WireIsSequence, GrownByOne
<1>2. CASE ~loading
    <2>1. UNCHANGED wire /\ wire = <<>>
        BY <1>2 DEF Send, ProtocolInv, ClosedIsQuiet
    <2> QED BY <1>2, <2>1, Empty
<1>3. loading \in BOOLEAN
    BY DEF ProtocolInv, ProtocolTypes
<1> QED BY <1>1, <1>2, <1>3

-----------------------------------------------------------------------------
AgentsOf(s) == {m \in ToSet(s) : m.role # "user"}

\* Behind an interrupt comes only the end.
InterruptLast ==
    \A k, i \in DOMAIN wire :
        wire[k].kind = "interrupt" /\ wire[i].kind \in {"messages", "values"} => i < k

\* While a question is on the screen or a decision waits, only the end can come.
QuestionIsQuiet ==
    Offered # None \/ queued # None => \A i \in DOMAIN wire : wire[i].kind \in {"done", "error"}

\* The last saved messages on the wire are all that are saved.
LastOfValues(w, all) ==
    \A j \in DOMAIN w : w[j].kind = "values" /\ (\A i \in DOMAIN w : w[i].kind = "values" => i <= j)
        => w[j].msgs = all

\* Saved messages are on their way.
HasValues(w) == \E i \in DOMAIN w : w[i].kind = "values"

\* The client that is asked has all of the agent's messages, or they are on the wire.
AskedIsStreamed ==
    /\ Offered # None \/ queued # None => AgentsOf(saved) \subseteq ToSet(streamed)
    /\ Interrupts # {} => AgentsOf(saved) \subseteq ToSet(streamed) \/ HasValues(wire)

\* What a question that is on its way or on the screen needs: nothing follows it,
\* and the message with its call is, or will be, with the client.
AskedInv == InterruptLast /\ QuestionIsQuiet /\ LastOfValues(wire, saved) /\ AskedIsStreamed

LEMMA LastOfGrown ==
    ASSUME NEW w, NEW z, NEW n, NEW e, Grown(w, z, n, e), NEW s, NEW t,
           LastOfValues(w, s), e.kind = "values" => e.msgs = t, e.kind # "values" => s = t
    PROVE  LastOfValues(z, t)
<1> SUFFICES ASSUME NEW j \in DOMAIN z, z[j].kind = "values", \A i \in DOMAIN z : z[i].kind = "values" => i <= j
             PROVE  z[j].msgs = t
    BY DEF LastOfValues
<1>1. j \in 1..n
    BY DEF Grown, Event
<1>2. CASE j = n
    BY <1>2 DEF Grown
<1>3. CASE j # n
    <2>1. j \in DOMAIN w /\ z[j] = w[j]
        BY <1>1, <1>3 DEF Grown
    <2>2. ASSUME NEW i \in DOMAIN w, w[i].kind = "values" PROVE i <= j
        BY <2>2 DEF Grown
    <2>3. w[j].msgs = s
        BY <2>1, <2>2 DEF LastOfValues
    <2>4. e.kind # "values"
        <3>1. n \in DOMAIN z /\ z[n] = e /\ n \in Nat
            BY DEF Grown
        <3>2. ~(n <= j)
            BY <1>1, <1>3, <3>1
        <3> QED BY <3>1, <3>2
    <2> QED BY <2>1, <2>3, <2>4
<1> QED BY <1>2, <1>3

LEMMA LastOfShrunk ==
    ASSUME NEW w, NEW z, Shrunk(w, z), NEW s, LastOfValues(w, s)
    PROVE  LastOfValues(z, s)
<1> SUFFICES ASSUME NEW j \in DOMAIN z, z[j].kind = "values", \A i \in DOMAIN z : z[i].kind = "values" => i <= j
             PROVE  z[j].msgs = s
    BY DEF LastOfValues
<1>1. j \in Nat \ {0} /\ j + 1 \in DOMAIN w /\ z[j] = w[j + 1]
    BY DEF Shrunk
<1>2. ASSUME NEW i \in DOMAIN w, w[i].kind = "values" PROVE i <= j + 1
    <2>1. i \in Nat /\ (i = 1 \/ (i - 1 \in DOMAIN z /\ z[i - 1] = w[i]))
        BY DEF Shrunk
    <2>2. CASE i = 1
        BY <1>1, <2>2
    <2>3. CASE i - 1 \in DOMAIN z /\ z[i - 1] = w[i]
        <3>1. i - 1 <= j
            BY <1>2, <2>3
        <3> QED BY <1>1, <2>1, <3>1
    <2> QED BY <2>1, <2>2, <2>3
<1> QED BY <1>1, <1>2 DEF LastOfValues

\* The first of the events, and the last of the saved messages, or others follow.
LEMMA FirstOfValues ==
    ASSUME NEW w, NEW z, Shrunk(w, z), NEW s, LastOfValues(w, s), w[1].kind = "values"
    PROVE  w[1].msgs = s \/ HasValues(z)
<1> SUFFICES ASSUME w[1].msgs # s PROVE HasValues(z)
    OBVIOUS
<1>1. 1 \in DOMAIN w
    BY DEF Shrunk
<1>2. PICK i \in DOMAIN w : w[i].kind = "values" /\ ~(i <= 1)
    BY <1>1 DEF LastOfValues
<1>3. i - 1 \in DOMAIN z /\ z[i - 1] = w[i]
    <2>1. i \in Nat /\ (i = 1 \/ (i - 1 \in DOMAIN z /\ z[i - 1] = w[i]))
        BY DEF Shrunk
    <2> QED BY <1>2, <2>1
<1> QED BY <1>2, <1>3 DEF HasValues

\* The agent sends something while it has asked nothing.
LEMMA AgentKeepsAsked ==
    ASSUME ProtocolInv, AskedInv, run \notin {"end", "none"}, UNCHANGED <<Offered, queued, streamed>>,
           NEW e, Send(<<e>>), e.kind \in {"messages", "values"},
           e.kind = "values" => e.msgs = saved', e.kind # "values" => UNCHANGED saved
    PROVE  AskedInv'
<1>1. Interrupts = {} /\ Offered = None /\ queued = None
    BY DEF ProtocolInv, OneQuestion, InterruptIsTracked
<1>2. Offered' = None /\ queued' = None
    BY <1>1
<1>3. CASE ~loading
    <2>1. wire' = wire /\ DOMAIN wire = {}
        BY <1>3, AgentSends
    <2> QED BY <1>1, <1>2, <2>1 DEF AskedInv, InterruptLast, QuestionIsQuiet, LastOfValues, AskedIsStreamed, Interrupts
<1>4. CASE loading
    <2>1. PICK n : Grown(wire, wire', n, e) /\ DOMAIN wire' = 1..n
        BY <1>4, AgentSends
    <2>2. LastOfValues(wire', saved')
        BY <2>1, LastOfGrown DEF AskedInv
    <2>3. ASSUME NEW i \in DOMAIN wire' PROVE wire'[i].kind # "interrupt"
        <3>1. CASE i = n
            BY <2>1, <3>1 DEF Grown
        <3>2. CASE i # n
            <4>1. i \in DOMAIN wire /\ wire'[i] = wire[i]
                BY <2>1, <3>2 DEF Grown
            <4> QED BY <1>1, <4>1 DEF Interrupts
        <3> QED BY <3>1, <3>2
    <2>4. Interrupts' = {}
        BY <2>3 DEF Interrupts
    <2> QED BY <1>1, <1>2, <2>2, <2>3, <2>4 DEF AskedInv, InterruptLast, QuestionIsQuiet, AskedIsStreamed
<1>5. loading \in BOOLEAN
    BY DEF ProtocolInv, ProtocolTypes
<1> QED BY <1>3, <1>4, <1>5

LEMMA SaveAnswerKeepsAsked ==
    ASSUME ProtocolInv, AskedInv, SaveAnswer
    PROVE  AskedInv'
<1>0. run = "model" /\ UNCHANGED <<Offered, queued, streamed, loading>>
    BY DEF SaveAnswer, thread, Offered
<1>1. Interrupts = {} /\ Offered = None /\ queued = None
    BY <1>0 DEF ProtocolInv, OneQuestion, InterruptIsTracked
<1>2. Offered' = None /\ queued' = None
    BY <1>0, <1>1
<1>3. CASE ~loading
    <2>1. wire' = wire /\ DOMAIN wire = {}
        BY <1>3, Empty DEF SaveAnswer, Send, ProtocolInv, ClosedIsQuiet
    <2> QED BY <1>1, <1>2, <2>1 DEF AskedInv, InterruptLast, QuestionIsQuiet, LastOfValues, AskedIsStreamed, Interrupts
<1>4. CASE loading
    <2> DEFINE v == Event("values", saved')
    <2>1. PICK n : Grown(wire, wire', n, v) /\ DOMAIN wire' = IF asks' # {} THEN 1..n + 1 ELSE 1..n
        BY <1>4, GrownBySave
    <2>2. v.kind = "values" /\ v.msgs = saved'
        BY DEF Event
    <2> HIDE DEF v
    <2>3. LastOfValues(wire', saved')
        BY <2>1, <2>2, LastOfGrown DEF AskedInv
    <2>4. n \in DOMAIN wire' /\ wire'[n] = v /\ n \in Nat
        BY <2>1 DEF Grown
    <2>5. HasValues(wire')
        BY <2>2, <2>4 DEF HasValues
    <2>6. ASSUME NEW i \in DOMAIN wire' PROVE IF i = n + 1 THEN wire'[i].kind = "interrupt"
                                              ELSE i \in 1..n /\ wire'[i].kind # "interrupt"
        <3>1. CASE i = n + 1
            <4>1. wire'[i] = Event("interrupt", <<>>)
                BY <2>1, <3>1 DEF Grown
            <4> QED BY <3>1, <4>1 DEF Event
        <3>2. CASE i = n
            BY <2>1, <2>2, <2>4, <3>2 DEF Grown
        <3>3. CASE i \notin {n, n + 1}
            <4>1. i \in 1..n /\ i \in DOMAIN wire /\ wire'[i] = wire[i]
                BY <2>1, <3>3 DEF Grown
            <4> QED BY <1>1, <3>3, <4>1 DEF Interrupts
        <3> QED BY <3>1, <3>2, <3>3
    <2>7. InterruptLast'
        <3> SUFFICES ASSUME NEW k \in DOMAIN wire', NEW i \in DOMAIN wire',
                            wire'[k].kind = "interrupt", wire'[i].kind \in {"messages", "values"}
                     PROVE  i < k
            BY DEF InterruptLast
        <3>1. k = n + 1
            BY <2>6
        <3>2. i \in 1..n
            BY <2>6
        <3> QED BY <2>4, <3>1, <3>2
    <2> QED BY <1>2, <2>3, <2>5, <2>7 DEF AskedInv, QuestionIsQuiet, AskedIsStreamed
<1>5. loading \in BOOLEAN
    BY DEF ProtocolInv, ProtocolTypes
<1> QED BY <1>3, <1>4, <1>5

LEMMA EndFailKeepsAsked ==
    ASSUME ProtocolInv, AskedInv, End \/ Fail
    PROVE  AskedInv'
<1>1. UNCHANGED <<Offered, queued, streamed, saved, loading>>
    BY DEF End, Fail, thread, Offered
<1>2. PICK e : Send(<<e>>) /\ e.kind \in {"done", "error"}
    BY DEF End, Fail, Event
<1>3. CASE ~loading
    <2>1. wire' = wire
        BY <1>2, <1>3, AgentSends
    <2> QED BY <1>1, <2>1 DEF AskedInv, InterruptLast, QuestionIsQuiet, LastOfValues, AskedIsStreamed, Interrupts, HasValues
<1>4. CASE loading
    <2>1. PICK n : Grown(wire, wire', n, e) /\ DOMAIN wire' = 1..n
        BY <1>2, <1>4, AgentSends
    <2>2. LastOfValues(wire', saved')
        BY <1>1, <1>2, <2>1, LastOfGrown DEF AskedInv
    <2>3. ASSUME NEW i \in DOMAIN wire', i # n PROVE i \in DOMAIN wire /\ wire'[i] = wire[i]
        BY <2>1, <2>3 DEF Grown
    <2>4. ASSUME NEW i \in DOMAIN wire PROVE i \in DOMAIN wire' /\ wire'[i] = wire[i]
        BY <2>1 DEF Grown
    <2>5. wire'[n] = e
        BY <2>1 DEF Grown
    <2>6. InterruptLast'
        BY <1>2, <2>3, <2>5 DEF AskedInv, InterruptLast
    <2>7. QuestionIsQuiet'
        BY <1>1, <1>2, <2>3, <2>5 DEF AskedInv, QuestionIsQuiet
    <2>8. (Interrupts # {})' => Interrupts # {}
        BY <1>2, <2>3, <2>5 DEF Interrupts
    <2>9. HasValues(wire) => HasValues(wire')
        BY <2>4 DEF HasValues
    <2> QED BY <1>1, <2>2, <2>6, <2>7, <2>8, <2>9 DEF AskedInv, AskedIsStreamed
<1>5. loading \in BOOLEAN
    BY DEF ProtocolInv, ProtocolTypes
<1> QED BY <1>3, <1>4, <1>5

\* The first event leaves the wire.
LEMMA FirstLeaves ==
    ASSUME ProtocolInv, AskedInv, wire # <<>>, wire' = Tail(wire), UNCHANGED saved
    PROVE  /\ Shrunk(wire, wire') /\ LastOfValues(wire', saved') /\ InterruptLast'
           /\ (Interrupts # {})' => Interrupts # {}
           /\ HasValues(wire) /\ wire[1].kind # "values" => HasValues(wire')
           /\ Head(wire) = wire[1] /\ 1 \in DOMAIN wire
<1>1. Shrunk(wire, wire')
    BY WireIsSequence, ShrunkByOne
<1>2. LastOfValues(wire', saved')
    BY <1>1, LastOfShrunk DEF AskedInv
<1>3. \A i \in DOMAIN wire' : i \in Nat \ {0} /\ i + 1 \in DOMAIN wire /\ wire'[i] = wire[i + 1]
    BY <1>1 DEF Shrunk
<1>4. InterruptLast'
    <2> SUFFICES ASSUME NEW k \in DOMAIN wire', NEW i \in DOMAIN wire',
                        wire'[k].kind = "interrupt", wire'[i].kind \in {"messages", "values"}
                 PROVE  i < k
        BY DEF InterruptLast
    <2>1. i + 1 < k + 1
        BY <1>3 DEF AskedInv, InterruptLast
    <2> QED BY <1>3, <2>1
<1>5. (Interrupts # {})' => Interrupts # {}
    BY <1>3 DEF Interrupts
<1>6. ASSUME HasValues(wire), wire[1].kind # "values" PROVE HasValues(wire')
    <2>1. PICK i \in DOMAIN wire : wire[i].kind = "values"
        BY <1>6 DEF HasValues
    <2>2. i - 1 \in DOMAIN wire' /\ wire'[i - 1] = wire[i]
        BY <1>1, <1>6, <2>1 DEF Shrunk
    <2> QED BY <2>1, <2>2 DEF HasValues
<1>7. Head(wire) = wire[1] /\ 1 \in DOMAIN wire
    BY <1>1 DEF Shrunk
<1> QED BY <1>1, <1>2, <1>4, <1>5, <1>6, <1>7

LEMMA MessageEventKeepsAsked ==
    ASSUME ProtocolInv, TypesInv, AskedInv, MessageEvent
    PROVE  AskedInv'
<1>1. /\ wire # <<>> /\ wire' = Tail(wire) /\ Head(wire).kind = "messages"
      /\ UNCHANGED <<saved, Offered, queued>>
    BY DEF MessageEvent, Incoming, server, Offered
<1>2. ToSet(streamed) \subseteq ToSet(streamed')
    BY MessageArrives
<1>3. Offered = None /\ queued = None
    BY <1>1, FirstLeaves DEF AskedInv, QuestionIsQuiet
<1> QED BY <1>1, <1>2, <1>3, FirstLeaves DEF AskedInv, QuestionIsQuiet, AskedIsStreamed

LEMMA ValuesEventKeepsAsked ==
    ASSUME ProtocolInv, TypesInv, AskedInv, ValuesEvent
    PROVE  AskedInv'
<1>1. /\ wire # <<>> /\ wire' = Tail(wire) /\ Head(wire).kind = "values"
      /\ UNCHANGED <<saved, Offered, queued>>
    BY DEF ValuesEvent, Incoming, server, Offered
<1>2. Offered = None /\ queued = None
    BY <1>1, FirstLeaves DEF AskedInv, QuestionIsQuiet
<1>3. wire[1].msgs = saved \/ HasValues(wire')
    BY <1>1, FirstLeaves, FirstOfValues DEF AskedInv
<1>4. wire[1].msgs = saved => AgentsOf(saved) \subseteq ToSet(streamed')
    <2> SUFFICES ASSUME wire[1].msgs = saved PROVE AgentsOf(saved) \subseteq ToSet(streamed')
        OBVIOUS
    <2>1. PICK all, agents :
              /\ Head(wire).msgs = all /\ ToSet(agents) = {m \in ToSet(all) : m.role # "user"}
              /\ streamed' = IF agents = <<>> THEN streamed ELSE agents
        BY ValuesArrive
    <2>2. all = saved
        BY <1>1, <2>1, FirstLeaves
    <2>3. ToSet(agents) = AgentsOf(saved)
        BY <2>1, <2>2 DEF AgentsOf
    <2>4. CASE agents = <<>>
        BY <2>3, <2>4, EntriesOfEmpty
    <2>5. CASE agents # <<>>
        BY <2>1, <2>3, <2>5
    <2> QED BY <2>4, <2>5
<1> QED BY <1>1, <1>2, <1>3, <1>4, FirstLeaves DEF AskedInv, QuestionIsQuiet, AskedIsStreamed

LEMMA InterruptEventKeepsAsked ==
    ASSUME ProtocolInv, TypesInv, AskedInv, InterruptEvent
    PROVE  AskedInv'
<1>1. /\ wire # <<>> /\ wire' = Tail(wire) /\ Head(wire).kind = "interrupt"
      /\ UNCHANGED <<saved, streamed>>
    BY DEF InterruptEvent, Incoming, server
<1>2. 1 \in DOMAIN wire /\ wire[1].kind = "interrupt" /\ 1 \in Interrupts
    BY <1>1, FirstLeaves DEF Interrupts
<1>3. Interrupts = {1}
    BY <1>2 DEF ProtocolInv, InterruptIsTracked
<1>4. \A i \in DOMAIN wire : i \in Nat \ {0}
    BY <1>1, FirstLeaves DEF Shrunk
<1>5. ASSUME NEW i \in DOMAIN wire PROVE wire[i].kind \notin {"messages", "values"}
    <2> SUFFICES ASSUME wire[i].kind \in {"messages", "values"} PROVE FALSE
        OBVIOUS
    <2>1. i < 1
        BY <1>2 DEF AskedInv, InterruptLast
    <2> QED BY <1>4, <2>1
<1>6. ASSUME NEW i \in DOMAIN wire' PROVE wire'[i].kind \in {"done", "error"}
    <2>1. i \in Nat \ {0} /\ i + 1 \in DOMAIN wire /\ wire'[i] = wire[i + 1]
        BY <1>1, FirstLeaves DEF Shrunk
    <2>2. wire[i + 1].kind \in {"messages", "values", "interrupt", "done", "error"}
        BY <2>1 DEF TypesInv, WireTyped, EventsTyped, EventTyped
    <2>3. i + 1 # 1
        BY <2>1
    <2>4. wire[i + 1].kind # "interrupt"
        BY <1>3, <2>1, <2>3 DEF Interrupts
    <2> QED BY <1>5, <2>1, <2>2, <2>4
<1>7. QuestionIsQuiet' /\ Interrupts' = {}
    BY <1>6 DEF QuestionIsQuiet, Interrupts
<1>8. AgentsOf(saved) \subseteq ToSet(streamed)
    BY <1>2, <1>5 DEF AskedInv, AskedIsStreamed, HasValues
<1> QED BY <1>1, <1>7, <1>8, FirstLeaves DEF AskedInv, AskedIsStreamed

\* The wire is dropped, or left alone.
LEMMA QuietKeepsAsked ==
    ASSUME AskedInv, wire' = <<>> \/ wire' = wire,
           Offered' # None \/ queued' # None => Offered # None \/ queued # None,
           UNCHANGED <<saved, streamed>> \/ (wire' = <<>> /\ Offered' = None /\ queued' = None)
    PROVE  AskedInv'
<1>1. CASE wire' = <<>>
    <2>1. DOMAIN wire' = {}
        BY <1>1, Empty
    <2>2. InterruptLast' /\ QuestionIsQuiet' /\ LastOfValues(wire', saved') /\ Interrupts' = {}
        BY <2>1 DEF InterruptLast, QuestionIsQuiet, LastOfValues, Interrupts
    <2> QED BY <2>2 DEF AskedInv, AskedIsStreamed
<1>2. CASE wire' = wire /\ UNCHANGED <<saved, streamed>>
    <2>1. InterruptLast' /\ QuestionIsQuiet' /\ LastOfValues(wire', saved') /\ Interrupts' = Interrupts
        BY <1>2 DEF AskedInv, InterruptLast, QuestionIsQuiet, Interrupts
    <2> QED BY <1>2, <2>1 DEF AskedInv, AskedIsStreamed
<1> QED BY <1>1, <1>2

LEMMA AskedInit == Init => AskedInv
BY Empty DEF Init, AskedInv, InterruptLast, QuestionIsQuiet, LastOfValues, AskedIsStreamed, Interrupts, Offered

LEMMA AskedNext == ProtocolInv /\ TypesInv /\ AskedInv /\ [Next]_vars => AskedInv'
<1> SUFFICES ASSUME ProtocolInv, TypesInv, AskedInv, [Next]_vars PROVE AskedInv'
    OBVIOUS
<1>1. CASE Begin \/ SaveResults
    <2> DEFINE e == Event("values", saved')
    <2>1. e.kind = "values" /\ e.msgs = saved'
        BY DEF Event
    <2>2. Send(<<e>>) /\ run \notin {"end", "none"} /\ UNCHANGED <<Offered, queued, streamed>>
        BY <1>1 DEF Begin, SaveResults, thread, Offered
    <2> HIDE DEF e
    <2> QED BY <2>1, <2>2, AgentKeepsAsked
<1>2. ASSUME NEW m, Send(<<Event("messages", <<m>>)>>), run \notin {"end", "none"},
             UNCHANGED <<Offered, queued, streamed, saved>>
      PROVE  AskedInv'
    <2> DEFINE e == Event("messages", <<m>>)
    <2>1. e.kind = "messages"
        BY DEF Event
    <2>2. Send(<<e>>)
        BY <1>2
    <2> HIDE DEF e
    <2> QED BY <1>2, <2>1, <2>2, AgentKeepsAsked
<1>3. ASSUME NEW plan \in Plans, Answer(plan) PROVE AskedInv'
    BY <1>2, <1>3 DEF Answer, thread, Offered
<1>4. ASSUME NEW c \in CallsIn(saved, "execute") \cup CallsIn(saved, "task"), RunTool(c) PROVE AskedInv'
    BY <1>2, <1>4 DEF RunTool, thread, Offered
<1>5. CASE SaveAnswer
    BY <1>5, SaveAnswerKeepsAsked
<1>6. CASE Resume
    <2>1. run = "resume" /\ UNCHANGED <<Offered, queued, streamed, saved>>
        BY <1>6 DEF Resume, thread, Offered
    <2>2. CASE \E c : Send(<<Event("messages", <<ToolResult(c)>>)>>)
        BY <1>2, <2>1, <2>2
    <2>3. CASE Send(<<>>)
        <3>1. wire' = wire
            BY <2>1, <2>3 DEF Send, ProtocolInv, RunStartsQuiet
        <3> QED BY <2>1, <3>1, QuietKeepsAsked
    <2> QED BY <1>6, <2>2, <2>3, ResumeWrites
<1>7. CASE End \/ Fail
    BY <1>7, EndFailKeepsAsked
<1>8. CASE MessageEvent
    BY <1>8, MessageEventKeepsAsked
<1>9. CASE ValuesEvent
    BY <1>9, ValuesEventKeepsAsked
<1>10. CASE InterruptEvent
    BY <1>10, InterruptEventKeepsAsked
<1>11. CASE DoneOrError \/ Stop
    <2>1. wire' = <<>> /\ queued' = None /\ UNCHANGED <<saved, streamed, Offered>>
        BY <1>11 DEF DoneOrError, Stop, StreamEnds, Open, Offered
    <2> QED BY <2>1, QuietKeepsAsked
<1>12. CASE Submit
    <2>1. wire' = <<>> /\ Offered' = None /\ UNCHANGED <<saved, streamed, queued>>
        BY <1>12 DEF Submit, Open, ApprovalCleared, Offered
    <2> QED BY <2>1, QuietKeepsAsked
<1>13. ASSUME NEW d \in Decisions, Decide(d) PROVE AskedInv'
    <2>1. Offered # None
        BY <1>13 DEF Decide, OfferedOnScreen, NeedsApproval
    <2>2. (wire' = <<>> \/ wire' = wire) /\ UNCHANGED <<saved, streamed>>
        BY <1>13 DEF Decide, Open, server
    <2> QED BY <2>1, <2>2, QuietKeepsAsked
<1>14. CASE Reload
    <2>1. wire' = <<>> /\ Offered' = None /\ queued' = None
        BY <1>14 DEF Reload, Offered
    <2> QED BY <2>1, QuietKeepsAsked
<1>15. CASE Leave \/ Return \/ UNCHANGED vars
    <2>1. UNCHANGED <<wire, saved, streamed, Offered, queued>>
        BY <1>15 DEF Leave, Return, vars, server, stream, thread, Offered
    <2> QED BY <2>1, QuietKeepsAsked
<1>16. ASSUME NEW i \in DOMAIN loads, ReadHistory(i) \/ HistoryAnswer(i) \/ HistoryFails(i) PROVE AskedInv'
    <2>1. UNCHANGED <<wire, saved, streamed, queued>> /\ Offered' \in {Offered, None}
        BY <1>16 DEF ReadHistory, HistoryAnswer, HistoryFails, server, stream, thread, Offered
    <2> QED BY <2>1, QuietKeepsAsked
<1> QED BY <1>1, <1>3, <1>4, <1>5, <1>6, <1>7, <1>8, <1>9, <1>10, <1>11, <1>12, <1>13, <1>14, <1>15,
           <1>16 DEF Next

\* When the agent waits for a decision and the stream is over, the buttons of a
\* call it waits for are on the screen: the approval reached the thread's state
\* (QuestionReachesApproval), and the message with its call is displayed, in
\* whatever order events, history loads and switches of the thread have come,
\* with the exceptions ApprovalIsOffered names.
THEOREM QuestionIsOffered == Spec => []ApprovalIsOffered
<1> DEFINE I == QuestionInv /\ TypesInv /\ AskedInv
<1>1. Init => I
    BY QuestionInit, TypesInit, AskedInit
<1>2. I /\ [Next]_vars => I'
    BY QuestionNext, TypesNext, AskedNext DEF QuestionInv
<1>3. I => ApprovalIsOffered
    <2> SUFFICES ASSUME I, asks # {}, ~loading, run = "none", "approval" \notin doubt
                 PROVE  OfferedOnScreen # {}
        BY DEF ApprovalIsOffered
    <2>1. Offered \in asks /\ Offered # None
        <3>1. Offered \in asks
            BY DEF QuestionInv, ProtocolInv, ClosedIsQuiet, QuestionIsSomewhere, Interrupts
        <3>2. Offered \in Nat \X Int
            BY <3>1 DEF QuestionInv, ProtocolInv, ProtocolTypes, MessageIds
        <3> QED BY <3>1, <3>2, ConversationAssumption
    <2>2. PICK m \in ToSet(saved) : Offered \in CallsOf(m, "execute")
        BY <2>1, CallsInEntries DEF TypesInv, StateTyped
    <2>3. m \in Written(made) /\ made \in 0..MaxMessages
        BY EverywhereParts DEF TypesInv, MessagesTyped
    <2>4. m.role = "assistant"
        BY <2>2, <2>3, CallsOfWritten
    <2>5. m \in ToSet(streamed)
        BY <2>1, <2>2, <2>4 DEF AskedInv, AskedIsStreamed, AgentsOf
    <2>6. m \in ToSet(displayMessages)
        BY <2>5, LocalJoins DEF QuestionInv
    <2>7. Offered \in CallsIn(displayMessages, "execute")
        BY <2>2, <2>6, CallsInEntries
    <2> QED BY <2>1, <2>7 DEF OfferedOnScreen, NeedsApproval
<1> QED BY <1>1, <1>2, <1>3, PTL DEF Spec

-----------------------------------------------------------------------------
\* The order of the conversation: users and the agent in turn, by number.
Talk(m) == m.role # "tool"

Number(m) == m.id[1]

Increasing(s) ==
    \A i, j \in DOMAIN s : i < j /\ Talk(s[i]) /\ Talk(s[j]) => Number(s[i]) < Number(s[j])

\* The talk in T comes after that in S.
After(S, T) == \A a \in S, b \in T : Talk(a) /\ Talk(b) => Number(a) < Number(b)

LEMMA IncreasingBoth ==
    ASSUME NEW T, NEW s \in Seq(T), NEW t \in Seq(T)
    PROVE  Increasing(s \o t) <=> Increasing(s) /\ Increasing(t) /\ After(ToSet(s), ToSet(t))
<1> DEFINE z == s \o t
<1>1. /\ DOMAIN s = 1..Len(s) /\ Len(s) \in Nat /\ DOMAIN t = 1..Len(t) /\ Len(t) \in Nat
      /\ DOMAIN z = 1..Len(s) + Len(t)
      /\ \A i \in 1..Len(s) : z[i] = s[i]
      /\ \A i \in 1..Len(t) : z[Len(s) + i] = t[i]
    OBVIOUS
<1> HIDE DEF z
<1>2. ASSUME Increasing(z) PROVE Increasing(s) /\ Increasing(t) /\ After(ToSet(s), ToSet(t))
    <2>1. Increasing(s)
        BY <1>1, <1>2 DEF Increasing
    <2>2. Increasing(t)
        <3> SUFFICES ASSUME NEW i \in DOMAIN t, NEW j \in DOMAIN t, i < j, Talk(t[i]), Talk(t[j])
                     PROVE  Number(t[i]) < Number(t[j])
            BY DEF Increasing
        <3>1. /\ Len(s) + i \in DOMAIN z /\ Len(s) + j \in DOMAIN z /\ Len(s) + i < Len(s) + j
              /\ z[Len(s) + i] = t[i] /\ z[Len(s) + j] = t[j]
            BY <1>1
        <3> QED BY <1>2, <3>1 DEF Increasing
    <2>3. After(ToSet(s), ToSet(t))
        <3> SUFFICES ASSUME NEW i \in DOMAIN s, NEW j \in DOMAIN t, Talk(s[i]), Talk(t[j])
                     PROVE  Number(s[i]) < Number(t[j])
            BY DEF After, ToSet
        <3>1. /\ i \in DOMAIN z /\ Len(s) + j \in DOMAIN z /\ i < Len(s) + j
              /\ z[i] = s[i] /\ z[Len(s) + j] = t[j]
            BY <1>1
        <3> QED BY <1>2, <3>1 DEF Increasing
    <2> QED BY <2>1, <2>2, <2>3
<1>3. ASSUME Increasing(s), Increasing(t), After(ToSet(s), ToSet(t)) PROVE Increasing(z)
    <2> SUFFICES ASSUME NEW i \in DOMAIN z, NEW j \in DOMAIN z, i < j, Talk(z[i]), Talk(z[j])
                 PROVE  Number(z[i]) < Number(z[j])
        BY DEF Increasing
    <2>1. CASE i \in 1..Len(s) /\ j \in 1..Len(s)
        BY <1>1, <1>3, <2>1 DEF Increasing
    <2>2. CASE i \in 1..Len(s) /\ j \notin 1..Len(s)
        <3>1. j - Len(s) \in DOMAIN t /\ j = Len(s) + (j - Len(s))
            BY <1>1, <2>2
        <3>2. z[j] = t[j - Len(s)] /\ z[i] = s[i]
            BY <1>1, <2>2, <3>1
        <3>3. z[i] \in ToSet(s) /\ z[j] \in ToSet(t)
            BY <1>1, <2>2, <3>1, <3>2 DEF ToSet
        <3> QED BY <1>3, <3>3 DEF After
    <2>3. CASE i \notin 1..Len(s)
        <3>0. i \in Nat /\ j \in Nat /\ j \notin 1..Len(s)
            BY <1>1, <2>3
        <3>1. /\ i - Len(s) \in DOMAIN t /\ i = Len(s) + (i - Len(s))
              /\ j - Len(s) \in DOMAIN t /\ j = Len(s) + (j - Len(s)) /\ i - Len(s) < j - Len(s)
            BY <1>1, <2>3, <3>0
        <3>2. z[i] = t[i - Len(s)] /\ z[j] = t[j - Len(s)]
            BY <1>1, <3>1
        <3>3. Talk(t[i - Len(s)]) /\ Talk(t[j - Len(s)])
            BY <3>2
        <3> QED BY <1>3, <3>1, <3>2, <3>3 DEF Increasing
    <2> QED BY <2>1, <2>2, <2>3
<1> QED BY <1>2, <1>3 DEF z

LEMMA IncreasingTools ==
    ASSUME NEW s, \A m \in ToSet(s) : ~Talk(m)
    PROVE  Increasing(s) /\ \A S : After(S, ToSet(s)) /\ After(ToSet(s), S)
BY DEF Increasing, After, ToSet

LEMMA IncreasingOne ==
    ASSUME NEW m
    PROVE  Increasing(<<m>>)
BY Singleton DEF Increasing

LEMMA IncreasingFirst ==
    ASSUME NEW T, NEW s \in Seq(T), NEW n \in 0..Len(s), Increasing(s)
    PROVE  Increasing(SubSeq(s, 1, n))
<1> DEFINE f == SubSeq(s, 1, n)
<1>1. DOMAIN f = 1..n /\ \A i \in 1..n : f[i] = s[i] /\ i \in DOMAIN s
    BY EntriesOfFirst
<1> HIDE DEF f
<1>2. Increasing(f)
    BY <1>1 DEF Increasing
<1> QED BY <1>2 DEF f

LEMMA IncreasingKept ==
    ASSUME NEW T, NEW s \in Seq(T), NEW S, Increasing(s)
    PROVE  Increasing(Keeping(s, S))
<1> DEFINE k == Keeping(s, S)
<1>1. k \in Seq(T)
    BY KeepingPicks
<1>2. PICK h : Picks(k, s, S, Len(s), h)
    BY KeepingPicks
<1> HIDE DEF k
<1>3. DOMAIN k = 1..Len(k) /\ DOMAIN s = 1..Len(s) /\ Len(k) \in Nat /\ Len(s) \in Nat
    BY <1>1
<1>4. ASSUME NEW i \in DOMAIN k, NEW j \in DOMAIN k, i < j, Talk(k[i]), Talk(k[j])
      PROVE  Number(k[i]) < Number(k[j])
    <2>1. k[i] = s[h[i]] /\ k[j] = s[h[j]] /\ h[i] \in DOMAIN s /\ h[j] \in DOMAIN s /\ h[i] < h[j]
        BY <1>2, <1>3, <1>4 DEF Picks
    <2> QED BY <1>4, <2>1 DEF Increasing
<1>5. Increasing(k)
    BY <1>4 DEF Increasing
<1> QED BY <1>5 DEF k

\* Joining s with what t adds to it.
LEMMA IncreasingJoined ==
    ASSUME NEW T, NEW s \in Seq(T), NEW t \in Seq(T), NEW u \in Seq(T), NEW h, NEW d,
           Joined(d, s, t, Len(t), u, h), Increasing(s), Increasing(t),
           After(ToSet(s), ToSet(t) \ ToSet(s))
    PROVE  Increasing(d)
<1>1. DOMAIN u = 1..Len(u) /\ DOMAIN t = 1..Len(t) /\ Len(u) \in Nat /\ Len(t) \in Nat
    OBVIOUS
<1>2. \A i \in 1..Len(u) : h[i] \in DOMAIN t /\ u[i] = t[h[i]] /\ u[i] \notin ToSet(s)
    BY <1>1 DEF Joined
<1>3. ASSUME NEW i \in DOMAIN u, NEW j \in DOMAIN u, i < j, Talk(u[i]), Talk(u[j])
      PROVE  Number(u[i]) < Number(u[j])
    <2>1. u[i] = t[h[i]] /\ u[j] = t[h[j]] /\ h[i] \in DOMAIN t /\ h[j] \in DOMAIN t /\ h[i] < h[j]
        BY <1>1, <1>2, <1>3 DEF Joined
    <2> QED BY <1>3, <2>1 DEF Increasing
<1>4. Increasing(u)
    BY <1>3 DEF Increasing
<1>5. ToSet(u) \subseteq ToSet(t) \ ToSet(s)
    BY <1>1, <1>2 DEF ToSet
<1>6. After(ToSet(s), ToSet(u))
    BY <1>5 DEF After
<1>7. d = s \o u
    BY DEF Joined
<1> QED BY <1>4, <1>6, <1>7, IncreasingBoth

\* Talk that comes before talk in the first n is in the first n.
LEMMA EarlierIsFirst ==
    ASSUME NEW T, NEW s \in Seq(T), Increasing(s), NEW n \in 0..Len(s), NEW a \in ToSet(s),
           NEW m \in ToSet(SubSeq(s, 1, n)), Talk(a), Talk(m), Number(a) < Number(m),
           Number(a) \in Int, Number(m) \in Int
    PROVE  a \in ToSet(SubSeq(s, 1, n))
<1> DEFINE f == SubSeq(s, 1, n)
<1>1. DOMAIN f = 1..n /\ \A i \in 1..n : f[i] = s[i] /\ i \in DOMAIN s
    BY EntriesOfFirst
<1>2. DOMAIN s = 1..Len(s) /\ Len(s) \in Nat
    OBVIOUS
<1> HIDE DEF f
<1>3. PICK i \in 1..n : m = s[i]
    BY <1>1 DEF ToSet, f
<1>4. PICK j \in DOMAIN s : a = s[j]
    BY DEF ToSet
<1>5. j < i
    <2> SUFFICES ASSUME ~(j < i) PROVE FALSE
        OBVIOUS
    <2>1. CASE j = i
        BY <1>3, <1>4, <2>1
    <2>2. CASE i < j
        <3>1. Number(m) < Number(a)
            BY <1>1, <1>3, <1>4, <2>2 DEF Increasing
        <3> QED BY <3>1
    <2> QED BY <1>2, <1>3, <2>1, <2>2
<1>6. j \in 1..n
    BY <1>2, <1>3, <1>5
<1>7. a = f[j] /\ j \in DOMAIN f
    BY <1>1, <1>4, <1>6
<1> QED BY <1>7 DEF ToSet, f

-----------------------------------------------------------------------------
\* What the client has of the agent's messages when it comes to the i-th event.
Before(S, w, i) == S \cup UNION {ToSet(w[j].msgs) : j \in {k \in DOMAIN w : k < i}}

\* An assistant's message that nobody has answered in V.
Since(m, V) == m.role = "assistant" /\ \A u \in V : u.role = "user" => Number(u) < Number(m)

Speaks(e) == e.kind = "messages" /\ Talk(Head(e.msgs))

\* A message on the wire is newer than all before it.
Newest(S, w) ==
    \A i \in DOMAIN w : Speaks(w[i]) =>
        \A m \in Before(S, w, i) : Talk(m) => Number(m) < Number(Head(w[i].msgs))

\* Saved messages on the wire have all those of the conversation that came before them.
Covered(S, w, W) == \A k \in DOMAIN w : w[k].kind = "values" => Before(S, w, k) \cap W \subseteq ToSet(w[k].msgs)

\* No message on the wire comes before an older one of the same turn.
NoGap(S, w, W, V) ==
    \A i \in DOMAIN w : Speaks(w[i]) =>
        \A a \in W : Since(a, V) /\ Number(a) < Number(Head(w[i].msgs)) => a \in Before(S, w, i)

LEMMA EmptyFlow ==
    ASSUME NEW S, NEW w, DOMAIN w = {}, NEW W, NEW V
    PROVE  Newest(S, w) /\ Covered(S, w, W) /\ NoGap(S, w, W, V) /\ SentOn(w) = {}
BY DEF Newest, Covered, NoGap, SentOn

LEMMA BeforeGrown ==
    ASSUME NEW S, NEW w, NEW z, NEW n, NEW e, Grown(w, z, n, e)
    PROVE  /\ \A i \in 1..n - 1 : Before(S, z, i) = Before(S, w, i)
           /\ Before(S, z, n) = S \cup SentOn(w)
           /\ SentOn(z) = SentOn(w) \cup ToSet(e.msgs)
<1>1. /\ n \in Nat \ {0} /\ DOMAIN w = 1..n - 1 /\ n \in DOMAIN z /\ z[n] = e
      /\ \A i \in 1..n - 1 : i \in DOMAIN z /\ z[i] = w[i]
      /\ \A i \in DOMAIN z : i \in 1..n \/ (i = n + 1 /\ z[i] = Event("interrupt", <<>>))
    BY DEF Grown
<1>2. ASSUME NEW i \in 1..n PROVE {k \in DOMAIN z : k < i} = {k \in DOMAIN w : k < i}
    BY <1>1
<1>3. ASSUME NEW i \in 1..n PROVE Before(S, z, i) = Before(S, w, i)
    <2> DEFINE K == {k \in DOMAIN w : k < i}
    <2>1. \A j \in K : z[j].msgs = w[j].msgs
        BY <1>1
    <2>2. {k \in DOMAIN z : k < i} = K
        BY <1>2
    <2> HIDE DEF K
    <2>3. {ToSet(z[j].msgs) : j \in K} = {ToSet(w[j].msgs) : j \in K}
        BY <2>1
    <2> QED BY <2>2, <2>3 DEF Before, K
<1>4. Before(S, w, n) = S \cup SentOn(w)
    <2>1. {k \in DOMAIN w : k < n} = DOMAIN w
        BY <1>1
    <2> QED BY <2>1 DEF Before, SentOn
<1>5. SentOn(z) \subseteq SentOn(w) \cup ToSet(e.msgs)
    <2> SUFFICES ASSUME NEW i \in DOMAIN z, NEW m \in ToSet(z[i].msgs) PROVE m \in SentOn(w) \cup ToSet(e.msgs)
        BY DEF SentOn
    <2>1. CASE i = n
        BY <1>1, <2>1
    <2>2. CASE i \in 1..n - 1
        BY <1>1, <2>2 DEF SentOn
    <2>3. CASE i = n + 1
        <3>1. z[i].msgs = <<>>
            BY <1>1, <2>3 DEF Event
        <3> QED BY <3>1, EntriesOfEmpty
    <2> QED BY <1>1, <2>1, <2>2, <2>3
<1>6. SentOn(w) \subseteq SentOn(z)
    BY <1>1 DEF SentOn
<1>7. ToSet(e.msgs) \subseteq SentOn(z)
    BY <1>1 DEF SentOn
<1>8. n \in 1..n /\ \A i \in 1..n - 1 : i \in 1..n
    BY <1>1
<1> QED BY <1>3, <1>4, <1>5, <1>6, <1>7, <1>8

\* The events of a step of the agent: none, or e after the others.
LEMMA WireFlows ==
    ASSUME NEW S, NEW w, NEW z, NEW e, DOMAIN z = {} \/ \E n : Grown(w, z, n, e),
           NEW W, NEW V, NEW X, NEW U, Newest(S, w), Covered(S, w, W), NoGap(S, w, W, V),
           Speaks(e) => /\ After(S \cup SentOn(w), {Head(e.msgs)})
                        /\ \A a \in X : Since(a, U) /\ Number(a) < Number(Head(e.msgs)) => a \in S \cup SentOn(w),
           e.kind = "values" => (S \cup SentOn(w)) \cap X \subseteq ToSet(e.msgs),
           \A m \in X : m \in S \cup SentOn(w) => m \in W,
           \A a \in X : Since(a, U) => \/ a \in W /\ Since(a, V)
                                       \/ \A i \in DOMAIN w : Speaks(w[i]) => ~(Number(a) < Number(Head(w[i].msgs)))
    PROVE  Newest(S, z) /\ Covered(S, z, X) /\ NoGap(S, z, X, U)
<1>1. CASE DOMAIN z = {}
    BY <1>1, EmptyFlow
<1>2. ASSUME NEW n, Grown(w, z, n, e) PROVE Newest(S, z) /\ Covered(S, z, X) /\ NoGap(S, z, X, U)
    <2>1. /\ \A i \in 1..n - 1 : Before(S, z, i) = Before(S, w, i)
          /\ Before(S, z, n) = S \cup SentOn(w)
        BY <1>2, BeforeGrown
    <2>2. /\ n \in Nat \ {0} /\ DOMAIN w = 1..n - 1 /\ z[n] = e
          /\ \A i \in 1..n - 1 : z[i] = w[i]
        BY <1>2 DEF Grown
    <2>3. \A i \in DOMAIN z : i \in 1..n - 1 \/ i = n \/ (~Speaks(z[i]) /\ z[i].kind # "values")
        BY <1>2 DEF Grown, Event, Speaks
    <2>4. ASSUME NEW i \in DOMAIN w PROVE Before(S, w, i) \subseteq S \cup SentOn(w)
        BY DEF Before, SentOn
    <2>5. Newest(S, z)
        <3> SUFFICES ASSUME NEW i \in DOMAIN z, Speaks(z[i]), NEW m \in Before(S, z, i), Talk(m)
                     PROVE  Number(m) < Number(Head(z[i].msgs))
            BY DEF Newest
        <3>1. CASE i \in 1..n - 1
            BY <2>1, <2>2, <3>1 DEF Newest
        <3>2. CASE i = n
            <4>1. Talk(Head(e.msgs)) /\ Speaks(e) /\ m \in S \cup SentOn(w)
                BY <2>1, <2>2, <3>2 DEF Speaks
            <4> QED BY <2>2, <3>2, <4>1 DEF After
        <3> QED BY <2>3, <3>1, <3>2
    <2>6. Covered(S, z, X)
        <3> SUFFICES ASSUME NEW i \in DOMAIN z, z[i].kind = "values", NEW m \in Before(S, z, i), m \in X
                     PROVE  m \in ToSet(z[i].msgs)
            BY DEF Covered
        <3>1. CASE i \in 1..n - 1
            <4>1. m \in Before(S, w, i) /\ i \in DOMAIN w /\ z[i] = w[i]
                BY <2>1, <2>2, <3>1
            <4>2. m \in W
                BY <2>4, <4>1
            <4> QED BY <4>1, <4>2 DEF Covered
        <3>2. CASE i = n
            BY <2>1, <2>2, <3>2
        <3> QED BY <2>3, <3>1, <3>2
    <2>7. NoGap(S, z, X, U)
        <3> SUFFICES ASSUME NEW i \in DOMAIN z, Speaks(z[i]), NEW a \in X, Since(a, U),
                            Number(a) < Number(Head(z[i].msgs))
                     PROVE  a \in Before(S, z, i)
            BY DEF NoGap
        <3>1. CASE i \in 1..n - 1
            <4>1. i \in DOMAIN w /\ z[i] = w[i]
                BY <2>2, <3>1
            <4>2. a \in W /\ Since(a, V)
                BY <4>1
            <4> QED BY <2>1, <3>1, <4>1, <4>2 DEF NoGap
        <3>2. CASE i = n
            BY <2>1, <2>2, <3>2
        <3> QED BY <2>3, <3>1, <3>2
    <2> QED BY <2>5, <2>6, <2>7
<1> QED BY <1>1, <1>2

\* The first event is processed: the client has R instead of S.
LEMMA BeforeShrunk ==
    ASSUME NEW S, NEW R, NEW w, NEW z, Shrunk(w, z), NEW i \in DOMAIN z
    PROVE  /\ i + 1 \in DOMAIN w /\ z[i] = w[i + 1]
           /\ R \subseteq S \cup ToSet(w[1].msgs) => Before(R, z, i) \subseteq Before(S, w, i + 1)
           /\ \A m \in Before(S, w, i + 1) : m \in S \cup ToSet(w[1].msgs) \/ m \in Before(R, z, i)
<1>1. /\ 1 \in DOMAIN w
      /\ \A j \in DOMAIN z : j \in Nat \ {0} /\ j + 1 \in DOMAIN w /\ z[j] = w[j + 1]
      /\ \A j \in DOMAIN w : j \in Nat \ {0} /\ (j = 1 \/ (j - 1 \in DOMAIN z /\ z[j - 1] = w[j]))
    BY DEF Shrunk
<1>2. ASSUME R \subseteq S \cup ToSet(w[1].msgs), NEW m \in Before(R, z, i) PROVE m \in Before(S, w, i + 1)
    <2>1. CASE m \in R
        <3>1. 1 < i + 1
            BY <1>1
        <3> QED BY <1>1, <1>2, <2>1, <3>1 DEF Before
    <2>2. CASE \E j \in DOMAIN z : j < i /\ m \in ToSet(z[j].msgs)
        <3>1. PICK j \in DOMAIN z : j < i /\ m \in ToSet(z[j].msgs)
            BY <2>2
        <3>2. j + 1 < i + 1 /\ j + 1 \in DOMAIN w /\ m \in ToSet(w[j + 1].msgs)
            BY <1>1, <3>1
        <3> QED BY <3>2 DEF Before
    <2> QED BY <2>1, <2>2 DEF Before
<1>3. ASSUME NEW m \in Before(S, w, i + 1), m \notin S \cup ToSet(w[1].msgs) PROVE m \in Before(R, z, i)
    <2>1. PICK j \in DOMAIN w : j < i + 1 /\ m \in ToSet(w[j].msgs)
        BY <1>3 DEF Before
    <2>2. j # 1
        BY <1>3, <2>1
    <2>3. j - 1 \in DOMAIN z /\ j - 1 < i /\ m \in ToSet(z[j - 1].msgs)
        BY <1>1, <2>1, <2>2
    <2> QED BY <2>3 DEF Before
<1> QED BY <1>1, <1>2, <1>3

\* The client gets some of what was sent, and all that is in the conversation.
LEMMA EventFlows ==
    ASSUME NEW S, NEW R, NEW w, NEW z, Shrunk(w, z), R \subseteq S \cup ToSet(w[1].msgs),
           NEW W, NEW V, Newest(S, w), Covered(S, w, W), NoGap(S, w, W, V),
           \A m \in W : m \in S \cup ToSet(w[1].msgs) /\ m.role # "user" => m \in R
    PROVE  Newest(R, z) /\ Covered(R, z, W) /\ NoGap(R, z, W, V)
<1>1. Newest(R, z)
    <2> SUFFICES ASSUME NEW i \in DOMAIN z, Speaks(z[i]), NEW m \in Before(R, z, i), Talk(m)
                 PROVE  Number(m) < Number(Head(z[i].msgs))
        BY DEF Newest
    <2>1. i + 1 \in DOMAIN w /\ z[i] = w[i + 1] /\ m \in Before(S, w, i + 1)
        BY BeforeShrunk
    <2> QED BY <2>1 DEF Newest
<1>2. Covered(R, z, W)
    <2> SUFFICES ASSUME NEW i \in DOMAIN z, z[i].kind = "values", NEW m \in Before(R, z, i), m \in W
                 PROVE  m \in ToSet(z[i].msgs)
        BY DEF Covered
    <2>1. i + 1 \in DOMAIN w /\ z[i] = w[i + 1] /\ m \in Before(S, w, i + 1)
        BY BeforeShrunk
    <2> QED BY <2>1 DEF Covered
<1>3. NoGap(R, z, W, V)
    <2> SUFFICES ASSUME NEW i \in DOMAIN z, Speaks(z[i]), NEW a \in W, Since(a, V),
                        Number(a) < Number(Head(z[i].msgs))
                 PROVE  a \in Before(R, z, i)
        BY DEF NoGap
    <2>1. i + 1 \in DOMAIN w /\ z[i] = w[i + 1]
        BY BeforeShrunk
    <2>2. a \in Before(S, w, i + 1)
        BY <2>1 DEF NoGap
    <2>3. a.role # "user"
        BY DEF Since
    <2>4. a \in S \cup ToSet(w[1].msgs) => a \in R
        BY <2>3
    <2>5. a \in S \cup ToSet(w[1].msgs) \/ a \in Before(R, z, i)
        BY <2>2, BeforeShrunk
    <2>6. R \subseteq Before(R, z, i)
        BY DEF Before
    <2> QED BY <2>4, <2>5, <2>6
<1> QED BY <1>1, <1>2, <1>3

\* The conversation: what is saved and what is being written.
Told == ToSet(saved) \cup ToSet(writing)

\* What the client has, or will have, of the agent's messages.
Received == ToSet(streamed) \cup SentOn(wire)

\* The calls in s, of either tool.
CalledIn(s) == CallsIn(s, "execute") \cup CallsIn(s, "task")

\* Every place has its messages in the order of the conversation.
Ordered ==
    /\ Increasing(saved) /\ Increasing(writing) /\ After(ToSet(saved), ToSet(writing))
    /\ Increasing(streamed)

\* A result that the client has is in the conversation, or its run is over.
ResultsAreTold ==
    run \in {"model", "tools", "resume", "end"} \/ asks # {} =>
        \A c \in CalledIn(saved) \cup CalledIn(writing) : ToolResult(c) \in Received => ToolResult(c) \in Told

\* The client of a run has all of the turn, or it is on the wire.
TurnIsReceived ==
    loading /\ run \in {"model", "tools", "resume"} =>
        \A a \in Told : Since(a, ToSet(saved)) => a \in Received

\* With a message the client has all of the turn that comes before it.
NoHole(S, W, V) == \A m \in S, a \in W : Talk(m) /\ Since(a, V) /\ Number(a) < Number(m) => a \in S

\* The stream follows the conversation: events come in its order and leave
\* nothing out, and the stream never shows a result nobody has written.
FlowInv ==
    /\ Ordered
    /\ Newest(ToSet(streamed), wire)
    /\ Covered(ToSet(streamed), wire, Told)
    /\ NoGap(ToSet(streamed), wire, Told, ToSet(saved))
    /\ NoHole(ToSet(streamed), Told, ToSet(saved))
    /\ ResultsAreTold /\ TurnIsReceived
    /\ queued # None => asks # {}

LEMMA NumbersOf ==
    ASSUME ProtocolInv, TypesInv, NEW m \in Everywhere
    PROVE  /\ Number(m) \in 1..made /\ Number(m) \in Int /\ m \in Written(made) /\ m \in Text
           /\ m.role \in {"user", "assistant", "tool"}
<1>1. m \in Written(made) /\ made \in 0..MaxMessages /\ made \in Nat
    BY TypesGive
<1>2. m \in Text /\ m.id[1] \in 1..made /\ m.role \in {"user", "assistant", "tool"}
    BY <1>1, WrittenIs
<1> QED BY <1>1, <1>2 DEF Number

LEMMA ToldIsEverywhere == Told \subseteq Everywhere /\ Received \subseteq Everywhere
BY EverywhereParts DEF Told, Received

\* What an agent's event does to the wire.
Sent(e) ==
    /\ DOMAIN wire' = {} \/ \E n : Grown(wire, wire', n, e)
    /\ SentOn(wire') \subseteq SentOn(wire) \cup ToSet(e.msgs)
    /\ loading => SentOn(wire') = SentOn(wire) \cup ToSet(e.msgs)

LEMMA StepSends ==
    ASSUME ProtocolInv, NEW e, Send(<<e>>)
    PROVE  Sent(e)
<1>1. CASE loading
    <2>1. PICK n : Grown(wire, wire', n, e)
        BY <1>1, AgentSends
    <2> QED BY <1>1, <2>1, BeforeGrown DEF Sent
<1>2. CASE ~loading
    <2>1. wire' = wire /\ DOMAIN wire = {}
        BY <1>2, AgentSends
    <2> QED BY <1>2, <2>1 DEF Sent
<1>3. loading \in BOOLEAN
    BY DEF ProtocolInv, ProtocolTypes
<1> QED BY <1>1, <1>2, <1>3

LEMMA SaveSends ==
    ASSUME ProtocolInv, SaveAnswer
    PROVE  Sent(Event("values", saved'))
<1> DEFINE e == Event("values", saved')
<1>1. CASE loading
    <2>1. PICK n : Grown(wire, wire', n, e)
        BY <1>1, GrownBySave
    <2> HIDE DEF e
    <2> QED BY <1>1, <2>1, BeforeGrown DEF Sent, e
<1>2. CASE ~loading
    <2>1. wire' = wire /\ wire = <<>>
        BY <1>2 DEF SaveAnswer, Send, ProtocolInv, ClosedIsQuiet
    <2> HIDE DEF e
    <2>2. DOMAIN wire' = {}
        BY <2>1, Empty
    <2> QED BY <1>2, <2>1, <2>2 DEF Sent, e
<1>3. loading \in BOOLEAN
    BY DEF ProtocolInv, ProtocolTypes
<1> QED BY <1>1, <1>2, <1>3

-----------------------------------------------------------------------------
\* No tool's result has calls, and no user's message.
LEMMA CallersAnswer ==
    ASSUME ProtocolInv, TypesInv, NEW c, NEW s, ToSet(s) \subseteq Everywhere, c \in CalledIn(s)
    PROVE  \E m \in ToSet(s) : m.role = "assistant" /\ c \in CallsOf(m, "execute") \cup CallsOf(m, "task")
<1>1. PICK m \in ToSet(s) : c \in CallsOf(m, "execute") \cup CallsOf(m, "task")
    BY CallsInEntries DEF CalledIn
<1>2. m \in Written(made) /\ made \in 0..MaxMessages
    BY TypesGive
<1> QED BY <1>1, <1>2, CallsOfWritten

LEMMA BeginFlows ==
    ASSUME ProtocolInv, TypesInv, FlowInv, Begin
    PROVE  FlowInv'
<1> DEFINE e == Event("values", saved')
<1>1. /\ run = "begin" /\ writing' = <<>> /\ asks' = {} /\ run' = "model" /\ Send(<<e>>)
      /\ UNCHANGED <<streamed, loading, queued, made>>
    BY DEF Begin
<1>2. e.kind = "values" /\ e.msgs = saved' /\ ~Speaks(e)
    BY DEF Event, Speaks
<1> HIDE DEF e
<1>3. Sent(e)
    BY <1>1, StepSends
<1>4. wire = <<>> /\ DOMAIN wire = {} /\ queued = None
    BY <1>1, Empty DEF ProtocolInv, RunStartsQuiet
<1>5. SentOn(wire) = {}
    BY <1>4, EmptyFlow
<1>6. PICK r \in Seq(Text) :
          /\ saved' = (saved \o r) \o writing /\ saved' \in Seq(Text)
          /\ ToSet(saved') = ToSet(saved) \cup ToSet(r) \cup ToSet(writing)
          /\ ToSet(r) = {ToolResult(c) : c \in Unanswered(saved)}
          /\ \A m \in ToSet(r) : m.role = "tool"
    BY BeginSaves
<1>7. saved \in Seq(Text) /\ writing \in Seq(Text) /\ ToSet(saved) \subseteq Everywhere
    BY TypesGive, EverywhereParts
<1>8. Told' = ToSet(saved') /\ ToSet(writing') = {}
    BY <1>1, EntriesOfEmpty DEF Told
<1>9. Ordered'
    <2>1. \A m \in ToSet(r) : ~Talk(m)
        BY <1>6 DEF Talk
    <2>2. Increasing(saved \o r) /\ saved \o r \in Seq(Text) /\ ToSet(saved \o r) = ToSet(saved) \cup ToSet(r)
        <3>1. Increasing(r) /\ After(ToSet(saved), ToSet(r))
            BY <2>1, IncreasingTools
        <3>2. Increasing(saved)
            BY DEF FlowInv, Ordered
        <3>3. Increasing(saved \o r)
            BY <1>7, <3>1, <3>2, IncreasingBoth
        <3> QED BY <1>7, <3>3, EntriesOfBoth
    <2>3. After(ToSet(saved \o r), ToSet(writing))
        BY <2>1, <2>2 DEF FlowInv, Ordered, After
    <2>4. Increasing(saved')
        BY <1>6, <1>7, <2>2, <2>3, IncreasingBoth DEF FlowInv, Ordered
    <2>5. Increasing(writing') /\ After(ToSet(saved'), ToSet(writing'))
        BY <1>8, IncreasingTools
    <2> QED BY <1>1, <2>4, <2>5 DEF FlowInv, Ordered
<1>10. ASSUME NEW a \in ToSet(saved') PROVE ~Since(a, ToSet(saved'))
    <2> SUFFICES ASSUME Since(a, ToSet(saved')) PROVE FALSE
        OBVIOUS
    <2>1. PICK n \in 1..made : writing = <<Message(<<n, 0>>, "user", <<>>)>>
        BY <1>1 DEF TypesInv, WritingIs
    <2> DEFINE u == Message(<<n, 0>>, "user", <<>>)
    <2>2. ToSet(writing) = {u}
        BY <2>1, EntriesOfOne
    <2>3. u.role = "user" /\ Talk(u)
        BY DEF Message, Talk
    <2> HIDE DEF u
    <2>4. Number(u) < Number(a)
        BY <1>6, <2>2, <2>3 DEF Since
    <2>5. a.role = "assistant" /\ Talk(a)
        BY DEF Since, Talk
    <2>6. a \in ToSet(saved)
        BY <1>6, <2>2, <2>3, <2>5
    <2>7. Number(a) < Number(u)
        BY <2>2, <2>3, <2>5, <2>6 DEF FlowInv, Ordered, After
    <2>8. Number(a) \in Int /\ Number(u) \in Int
        BY <1>7, <2>2, <2>6, NumbersOf, EverywhereParts
    <2> QED BY <2>4, <2>7, <2>8
<1>11. Newest(ToSet(streamed), wire') /\ Covered(ToSet(streamed), wire', Told') /\ NoGap(ToSet(streamed), wire', Told', ToSet(saved'))
    <2>1. \A m \in Told' : m \in ToSet(streamed) => m \in Told'
        OBVIOUS
    <2>2. Newest(ToSet(streamed), wire) /\ Covered(ToSet(streamed), wire, Told') /\ NoGap(ToSet(streamed), wire, Told', ToSet(saved'))
        BY <1>4, EmptyFlow
    <2>3. (ToSet(streamed) \cup SentOn(wire)) \cap Told' \subseteq ToSet(e.msgs)
        BY <1>2, <1>8
    <2>4. \A a \in Told' : ~Since(a, ToSet(saved'))
        BY <1>8, <1>10
    <2> DEFINE W == Told'
               V == ToSet(saved')
               S == ToSet(streamed)
               z == wire'
    <2>5. DOMAIN z = {} \/ \E n : Grown(wire, z, n, e)
        BY <1>3 DEF Sent
    <2>6. /\ Newest(S, wire) /\ Covered(S, wire, W) /\ NoGap(S, wire, W, V)
          /\ (S \cup SentOn(wire)) \cap W \subseteq ToSet(e.msgs)
          /\ \A a \in W : ~Since(a, V)
        BY <2>2, <2>3, <2>4
    <2> HIDE DEF W, V, S, z
    <2>7. Newest(S, z) /\ Covered(S, z, W) /\ NoGap(S, z, W, V)
        BY <1>2, <2>5, <2>6, WireFlows
    <2> QED BY <2>7 DEF W, V, S, z
<1>12. NoHole(ToSet(streamed'), Told', ToSet(saved'))
    BY <1>8, <1>10 DEF NoHole
<1>13. TurnIsReceived'
    BY <1>8, <1>10 DEF TurnIsReceived
<1>14. ResultsAreTold'
    <2> SUFFICES ASSUME NEW c \in CalledIn(saved') \cup CalledIn(writing') PROVE ToolResult(c) \in Told'
        BY DEF ResultsAreTold
    <2>1. CalledIn(writing') = {}
        BY <1>8, CallsInEntries DEF CalledIn
    <2>2. PICK m \in ToSet(saved') : c \in CallsOf(m, "execute") \cup CallsOf(m, "task")
        BY <2>1, CallsInEntries DEF CalledIn
    <2>3. TypesInv' /\ ProtocolInv'
        BY BeginKeepsTypes, BeginKeeps
    <2>4. ToSet(saved') \subseteq Written(made')
        BY <2>3 DEF TypesInv, MessagesTyped, Everywhere
    <2>5. m \in Written(made) /\ made \in 0..MaxMessages
        BY <1>1, <2>4, TypesGive
    <2>6. m.role = "assistant"
        BY <2>2, <2>5, CallsOfWritten
    <2>7. m \in ToSet(saved)
        <3>1. \A x \in ToSet(writing) : x.role = "user"
            BY <1>1, EntriesOfOne DEF TypesInv, WritingIs, Message
        <3> QED BY <1>6, <2>6, <3>1
    <2>8. c \in CalledIn(saved)
        BY <2>2, <2>7, CallsInEntries DEF CalledIn
    <2>9. CASE c \in Unanswered(saved)
        BY <1>6, <1>8, <2>9
    <2>10. CASE c \notin Unanswered(saved)
        <3>1. c \in Ids(saved)
            BY <2>8, <2>10 DEF Unanswered, CalledIn
        <3>2. PICK x \in ToSet(saved) : c = x.id
            BY <3>1, IdsOfEntries
        <3>3. x \in Written(made)
            BY <1>7, <3>2, TypesGive
        <3>4. c[2] \in Nat \ {0}
            <4>1. c \in {m.id[1]} \X (Nat \ {0})
                BY <2>2, <2>5, CallsOfWritten
            <4> QED BY <4>1
        <3>5. x.role = "tool"
            BY <2>5, <3>2, <3>3, <3>4, WrittenIs
        <3>6. x = ToolResult(c)
            BY <2>5, <3>2, <3>3, <3>5, WrittenIs
        <3> QED BY <1>6, <1>8, <3>2, <3>6
    <2> QED BY <2>9, <2>10
<1> QED BY <1>1, <1>4, <1>9, <1>11, <1>12, <1>13, <1>14 DEF FlowInv

LEMMA AnswerFlows ==
    ASSUME ProtocolInv, TypesInv, FlowInv, NEW plan \in Plans, Answer(plan)
    PROVE  FlowInv'
<1> DEFINE m == Message(<<made + 1, 0>>, "assistant", plan)
           e == Event("messages", <<m>>)
<1>1. /\ run = "model" /\ writing = <<>> /\ writing' = <<m>> /\ Send(<<e>>)
      /\ UNCHANGED <<saved, asks, run, streamed, loading, queued>>
    BY DEF Answer
<1>2. Number(m) = made + 1 /\ m.role = "assistant" /\ Talk(m)
    BY DEF Message, Number, Talk
<1> HIDE DEF m
<1>3. e.kind = "messages" /\ Head(e.msgs) = m /\ ToSet(e.msgs) = {m} /\ Speaks(e)
    BY <1>2, Singleton, EntriesOfOne DEF Event, Speaks
<1> HIDE DEF e
<1>4. Sent(e)
    BY <1>1, StepSends
<1>5. ToSet(writing) = {} /\ ToSet(writing') = {m} /\ Told' = Told \cup {m} /\ Told = ToSet(saved)
    BY <1>1, EntriesOfEmpty, EntriesOfOne DEF Told
<1>6. \A x \in Everywhere : Number(x) \in Int /\ Number(x) <= made /\ x # m
    <2>1. made \in Nat
        BY TypesGive
    <2> QED BY <1>2, <2>1, NumbersOf
<1>7. made \in Nat
    BY TypesGive
<1>8. Told \subseteq Everywhere /\ Received \subseteq Everywhere
    BY ToldIsEverywhere
<1>9. Ordered'
    <2>1. After(ToSet(saved), {m})
        BY <1>2, <1>5, <1>6, <1>7, <1>8 DEF After
    <2> QED BY <1>1, <1>5, <2>1, IncreasingOne DEF FlowInv, Ordered
<1>10. Newest(ToSet(streamed), wire') /\ Covered(ToSet(streamed), wire', Told') /\ NoGap(ToSet(streamed), wire', Told', ToSet(saved))
    <2> DEFINE S == ToSet(streamed)
               V == ToSet(saved)
               X == Told'
               W == Told
               z == wire'
    <2>1. CASE ~loading
        <3>1. DOMAIN z = {}
            BY <1>1, <2>1, AgentSends
        <3> HIDE DEF S, V, X, z
        <3>2. Newest(S, z) /\ Covered(S, z, X) /\ NoGap(S, z, X, V)
            BY <3>1, EmptyFlow
        <3> QED BY <3>2 DEF S, V, X, z
    <2>2. CASE loading
        <3>1. DOMAIN z = {} \/ \E n : Grown(wire, z, n, e)
            BY <1>4 DEF Sent
        <3>2. After(S \cup SentOn(wire), {m})
            BY <1>2, <1>6, <1>7, <1>8 DEF After, Received
        <3>3. \A a \in X : Since(a, V) /\ Number(a) < Number(m) => a \in S \cup SentOn(wire)
            <4> SUFFICES ASSUME NEW a \in X, Since(a, V), Number(a) < Number(m) PROVE a \in Received
                BY DEF Received
            <4>1. a # m
                BY <1>2, <1>7
            <4>2. a \in Told
                BY <1>5, <4>1
            <4> QED BY <1>1, <2>2, <4>2 DEF FlowInv, TurnIsReceived
        <3>4. \A x \in X : x \in S \cup SentOn(wire) => x \in W
            BY <1>5, <1>6, <1>8 DEF Received
        <3>5. \A a \in X : Since(a, V) => \/ a \in W /\ Since(a, V)
                    \/ \A i \in DOMAIN wire : Speaks(wire[i]) => ~(Number(a) < Number(Head(wire[i].msgs)))
            <4> SUFFICES ASSUME NEW i \in DOMAIN wire, Speaks(wire[i])
                         PROVE  ~(Number(m) < Number(Head(wire[i].msgs)))
                BY <1>5
            <4>1. PICK x : wire[i].msgs = <<x>>
                BY TypesGive DEF Speaks, EventsTyped, EventTyped
            <4>2. Head(wire[i].msgs) = x /\ ToSet(wire[i].msgs) = {x}
                BY <4>1, Singleton, EntriesOfOne
            <4>3. x \in Everywhere
                BY <1>8, <4>2 DEF Received, SentOn
            <4> QED BY <1>2, <1>6, <1>7, <4>2, <4>3
        <3>6. Newest(S, wire) /\ Covered(S, wire, W) /\ NoGap(S, wire, W, V)
            BY DEF FlowInv
        <3> HIDE DEF S, V, X, W, z
        <3>7. Newest(S, z) /\ Covered(S, z, X) /\ NoGap(S, z, X, V)
            BY <1>3, <3>1, <3>2, <3>3, <3>4, <3>5, <3>6, WireFlows
        <3> QED BY <3>7 DEF S, V, X, z
    <2>3. loading \in BOOLEAN
        BY DEF ProtocolInv, ProtocolTypes
    <2> QED BY <2>1, <2>2, <2>3
<1>11. NoHole(ToSet(streamed), Told', ToSet(saved))
    <2> SUFFICES ASSUME NEW x \in ToSet(streamed), NEW a \in Told', Talk(x), Since(a, ToSet(saved)),
                        Number(a) < Number(x)
                 PROVE  a \in ToSet(streamed)
        BY DEF NoHole
    <2>1. x \in Everywhere
        BY <1>8 DEF Received
    <2>2. a # m
        BY <1>2, <1>6, <1>7, <2>1
    <2> QED BY <1>5, <2>2 DEF FlowInv, NoHole
<1>12. Received' \subseteq Received \cup {m} /\ (loading => Received' = Received \cup {m})
    BY <1>1, <1>3, <1>4 DEF Sent, Received
<1>13. TurnIsReceived'
    BY <1>1, <1>5, <1>12 DEF FlowInv, TurnIsReceived
<1>14. ResultsAreTold'
    <2> SUFFICES ASSUME NEW c \in CalledIn(saved') \cup CalledIn(writing'), ToolResult(c) \in Received'
                 PROVE  ToolResult(c) \in Told'
        BY DEF ResultsAreTold
    <2>1. ToolResult(c).role = "tool" /\ ToolResult(c).id = c
        BY DEF ToolResult, Message
    <2>2. ToolResult(c) \in Received
        BY <1>2, <1>12, <2>1
    <2>3. CASE c \in CalledIn(saved)
        BY <1>1, <1>5, <2>2, <2>3 DEF FlowInv, ResultsAreTold
    <2>4. CASE c \in CalledIn(writing')
        <3>1. c \in CallsOf(m, "execute") \cup CallsOf(m, "task")
            BY <1>5, <2>4, CallsInEntries DEF CalledIn
        <3>2. c[1] = made + 1
            BY <1>2, <3>1 DEF CallsOf, Number
        <3>3. Number(ToolResult(c)) = made + 1
            BY <2>1, <3>2 DEF Number
        <3> QED BY <1>6, <1>7, <1>8, <2>2, <3>3
    <2> QED BY <1>1, <2>3, <2>4
<1> QED BY <1>1, <1>9, <1>10, <1>11, <1>13, <1>14 DEF FlowInv

\* What is being written is saved.
LEMMA SavingFlows ==
    ASSUME ProtocolInv, TypesInv, FlowInv, run \in {"model", "tools"},
           saved' = saved \o writing, writing' = <<>>, Sent(Event("values", saved')),
           \A m \in ToSet(writing) : m.role # "user", UNCHANGED <<streamed, loading, queued>>
    PROVE  FlowInv'
<1> DEFINE e == Event("values", saved')
<1>1. e.kind = "values" /\ e.msgs = saved' /\ ~Speaks(e) /\ Sent(e)
    BY DEF Event, Speaks
<1> HIDE DEF e
<1>2. saved \in Seq(Text) /\ writing \in Seq(Text)
    BY TypesGive
<1>3. ToSet(saved') = Told /\ ToSet(writing') = {} /\ Told' = Told
    BY <1>2, EntriesOfBoth, EntriesOfEmpty DEF Told
<1>4. Ordered'
    <2>1. Increasing(saved')
        BY <1>2, IncreasingBoth DEF FlowInv, Ordered
    <2>2. Increasing(writing') /\ After(ToSet(saved'), ToSet(writing'))
        BY <1>3, IncreasingTools
    <2> QED BY <2>1, <2>2 DEF FlowInv, Ordered
<1>5. \A a : Since(a, ToSet(saved')) <=> Since(a, ToSet(saved))
    <2>1. \A u \in Told : u.role = "user" <=> u \in ToSet(saved) /\ u.role = "user"
        BY DEF Told
    <2> QED BY <1>3, <2>1 DEF Since, Told
<1>6. Newest(ToSet(streamed), wire') /\ Covered(ToSet(streamed), wire', Told) /\ NoGap(ToSet(streamed), wire', Told, ToSet(saved'))
    <2> DEFINE S == ToSet(streamed)
               V == ToSet(saved)
               U == ToSet(saved')
               W == Told
               z == wire'
    <2>1. DOMAIN z = {} \/ \E n : Grown(wire, z, n, e)
        BY <1>1 DEF Sent
    <2>2. /\ Newest(S, wire) /\ Covered(S, wire, W) /\ NoGap(S, wire, W, V)
          /\ (S \cup SentOn(wire)) \cap W \subseteq ToSet(e.msgs)
          /\ \A a \in W : Since(a, U) => Since(a, V)
        BY <1>1, <1>3, <1>5 DEF FlowInv
    <2> HIDE DEF W, V, S, z, U
    <2>3. Newest(S, z) /\ Covered(S, z, W) /\ NoGap(S, z, W, U)
        BY <1>1, <2>1, <2>2, WireFlows
    <2> QED BY <2>3 DEF W, U, S, z
<1>7. NoHole(ToSet(streamed), Told, ToSet(saved'))
    BY <1>5 DEF FlowInv, NoHole
<1>8. Received' \subseteq Received \cup Told /\ (loading => Received \subseteq Received')
    BY <1>1, <1>3 DEF Sent, Received
<1>9. TurnIsReceived'
    BY <1>3, <1>5, <1>8 DEF FlowInv, TurnIsReceived
<1>10. ResultsAreTold'
    <2> SUFFICES ASSUME NEW c \in CalledIn(saved') \cup CalledIn(writing'), ToolResult(c) \in Received'
                 PROVE  ToolResult(c) \in Told'
        BY DEF ResultsAreTold
    <2>1. PICK m \in Told : c \in CallsOf(m, "execute") \cup CallsOf(m, "task")
        BY <1>3, CallsInEntries DEF CalledIn
    <2>2. c \in CalledIn(saved) \cup CalledIn(writing)
        BY <2>1, CallsInEntries DEF CalledIn, Told
    <2> QED BY <1>3, <1>8, <2>2 DEF FlowInv, ResultsAreTold
<1>11. queued' = None
    BY DEF ProtocolInv, OneQuestion
<1> QED BY <1>3, <1>4, <1>6, <1>7, <1>9, <1>10, <1>11 DEF FlowInv

\* A tool's result is written.
LEMMA ResultFlows ==
    ASSUME ProtocolInv, TypesInv, FlowInv, run \in {"resume", "tools"}, run' = "tools",
           NEW c, c \in CalledIn(saved), NEW e, e.kind = "messages", e.msgs = <<ToolResult(c)>>, Sent(e),
           ToSet(writing') = ToSet(writing) \cup {ToolResult(c)},
           UNCHANGED <<saved, streamed, loading, queued>>
    PROVE  FlowInv'
<1> DEFINE m == ToolResult(c)
<1>1. m.role = "tool" /\ ~Talk(m) /\ m.calls = <<>>
    BY DEF ToolResult, Message, Talk
<1>2. Head(e.msgs) = m /\ ToSet(e.msgs) = {m}
    BY Singleton, EntriesOfOne
<1> HIDE DEF m
<1>3. ~Speaks(e)
    BY <1>1, <1>2 DEF Speaks
<1>4. \A x \in ToSet(writing) : x.role = "tool"
    BY EntriesOfEmpty DEF TypesInv, WritingIs
<1>5. Told' = Told \cup {m} /\ ToSet(writing') = ToSet(writing) \cup {m}
    BY DEF Told, m
<1>6. Ordered'
    <2>1. \A x \in ToSet(writing') : ~Talk(x)
        BY <1>1, <1>4, <1>5 DEF Talk
    <2>2. Increasing(writing') /\ After(ToSet(saved), ToSet(writing'))
        BY <2>1, IncreasingTools
    <2> QED BY <2>2 DEF FlowInv, Ordered
<1>7. m \in Received => m \in Told
    BY DEF FlowInv, ResultsAreTold, m
<1>8. Newest(ToSet(streamed), wire') /\ Covered(ToSet(streamed), wire', Told') /\ NoGap(ToSet(streamed), wire', Told', ToSet(saved))
    <2> DEFINE S == ToSet(streamed)
               V == ToSet(saved)
               X == Told'
               W == Told
               z == wire'
    <2>1. DOMAIN z = {} \/ \E n : Grown(wire, z, n, e)
        BY DEF Sent
    <2>2. /\ Newest(S, wire) /\ Covered(S, wire, W) /\ NoGap(S, wire, W, V)
          /\ \A x \in X : x \in S \cup SentOn(wire) => x \in W
        BY <1>5, <1>7 DEF FlowInv, Received
    <2>3. \A a \in X : Since(a, V) => a \in W /\ Since(a, V)
        BY <1>1, <1>5 DEF Since
    <2> HIDE DEF W, V, S, z, X
    <2>4. Newest(S, z) /\ Covered(S, z, X) /\ NoGap(S, z, X, V)
        BY <1>3, <2>1, <2>2, <2>3, WireFlows
    <2> QED BY <2>4 DEF X, V, S, z
<1>9. NoHole(ToSet(streamed), Told', ToSet(saved))
    <2>1. \A a \in Told' : Since(a, ToSet(saved)) => a \in Told
        BY <1>1, <1>5 DEF Since
    <2> QED BY <2>1 DEF FlowInv, NoHole
<1>10. Received' \subseteq Received \cup {m} /\ (loading => Received \subseteq Received')
    BY <1>2 DEF Sent, Received
<1>11. TurnIsReceived'
    <2>1. \A a \in Told' : Since(a, ToSet(saved)) => a \in Told
        BY <1>1, <1>5 DEF Since
    <2> QED BY <1>10, <2>1 DEF FlowInv, TurnIsReceived
<1>12. ResultsAreTold'
    <2> SUFFICES ASSUME NEW d \in CalledIn(saved') \cup CalledIn(writing'), ToolResult(d) \in Received'
                 PROVE  ToolResult(d) \in Told'
        BY DEF ResultsAreTold
    <2>1. CASE d \in CalledIn(writing')
        <3>1. PICK x \in ToSet(writing') : d \in CallsOf(x, "execute") \cup CallsOf(x, "task")
            BY <2>1, CallsInEntries DEF CalledIn
        <3>2. x \in ToSet(writing)
            <4>1. CallsOf(m, "execute") = {} /\ CallsOf(m, "task") = {}
                BY <1>1 DEF CallsOf
            <4> QED BY <1>5, <3>1, <4>1
        <3>3. d \in CalledIn(writing)
            BY <3>1, <3>2, CallsInEntries DEF CalledIn
        <3> QED BY <1>5, <1>10, <3>3 DEF FlowInv, ResultsAreTold
    <2>2. CASE d \in CalledIn(saved)
        BY <1>5, <1>10, <2>2 DEF FlowInv, ResultsAreTold
    <2> QED BY <2>1, <2>2
<1>13. queued' = None
    BY DEF ProtocolInv, OneQuestion, RunStartsQuiet
<1> QED BY <1>6, <1>8, <1>9, <1>11, <1>12, <1>13 DEF FlowInv

\* A run is past its beginning, or has stopped to ask.
Answering == run \in {"model", "tools", "resume", "end"} \/ asks # {}

\* A step that saves and streams nothing.
LEMMA QuietFlows ==
    ASSUME ProtocolInv, TypesInv, FlowInv, UNCHANGED <<saved, streamed>>,
           NEW e, e.kind \in {"done", "error"}, DOMAIN wire' = {} \/ \E n : Grown(wire, wire', n, e),
           DOMAIN wire' = {} \/ ToSet(writing') \subseteq ToSet(writing),
           SentOn(wire') \subseteq SentOn(wire),
           Increasing(writing'), After(ToSet(saved), ToSet(writing')),
           \A x \in ToSet(writing') : x \in ToSet(writing) \/ (x.role = "user" /\ x.calls = <<>>),
           Answering' => Answering /\ \A x \in ToSet(writing) : x.role = "tool" => x \in ToSet(writing'),
           TurnIsReceived', queued' # None => asks' # {}
    PROVE  FlowInv'
<1>1. Ordered'
    BY DEF FlowInv, Ordered
<1>2. \A a \in Told' : a \in Told \/ a.role = "user"
    BY DEF Told
<1>3. Newest(ToSet(streamed), wire') /\ Covered(ToSet(streamed), wire', Told') /\ NoGap(ToSet(streamed), wire', Told', ToSet(saved))
    <2> DEFINE S == ToSet(streamed)
               V == ToSet(saved)
               X == Told'
               W == Told
               z == wire'
    <2>1. CASE DOMAIN z = {}
        <3> HIDE DEF S, V, X, z
        <3>1. Newest(S, z) /\ Covered(S, z, X) /\ NoGap(S, z, X, V)
            BY <2>1, EmptyFlow
        <3> QED BY <3>1 DEF S, V, X, z
    <2>2. CASE DOMAIN z # {}
        <3>1. DOMAIN z = {} \/ \E n : Grown(wire, z, n, e)
            OBVIOUS
        <3>2. /\ Newest(S, wire) /\ Covered(S, wire, W) /\ NoGap(S, wire, W, V)
              /\ (\A m \in X : m \in S \cup SentOn(wire) => m \in W)
              /\ \A a \in X : Since(a, V) => a \in W /\ Since(a, V)
            BY <2>2 DEF FlowInv, Told
        <3>3. e.kind # "values" /\ ~Speaks(e)
            BY DEF Speaks
        <3> HIDE DEF S, V, X, W, z
        <3>4. Newest(S, z) /\ Covered(S, z, X) /\ NoGap(S, z, X, V)
            BY <3>1, <3>2, <3>3, WireFlows
        <3> QED BY <3>4 DEF S, V, X, z
    <2> QED BY <2>1, <2>2
<1>4. NoHole(ToSet(streamed), Told', ToSet(saved))
    BY <1>2 DEF FlowInv, NoHole, Since
<1>5. ResultsAreTold'
    <2> SUFFICES ASSUME Answering', NEW c \in CalledIn(saved') \cup CalledIn(writing'), ToolResult(c) \in Received'
                 PROVE  ToolResult(c) \in Told'
        BY DEF ResultsAreTold, Answering
    <2>1. c \in CalledIn(saved) \cup CalledIn(writing)
        <3>1. CASE c \in CalledIn(writing')
            <4>1. PICK x \in ToSet(writing') : c \in CallsOf(x, "execute") \cup CallsOf(x, "task")
                BY <3>1, CallsInEntries DEF CalledIn
            <4>2. x.calls # <<>>
                BY <4>1, Empty DEF CallsOf
            <4>3. x \in ToSet(writing)
                BY <4>2
            <4> QED BY <4>1, <4>3, CallsInEntries DEF CalledIn
        <3> QED BY <3>1
    <2>2. ToolResult(c) \in Received
        BY DEF Received
    <2>3. ToolResult(c) \in Told
        BY <2>1, <2>2 DEF FlowInv, ResultsAreTold, Answering
    <2>4. ToolResult(c).role = "tool"
        BY DEF ToolResult, Message
    <2> QED BY <2>3, <2>4 DEF Told
<1> QED BY <1>1, <1>3, <1>4, <1>5 DEF FlowInv

\* A run that asks is not writing a tool's result.
LEMMA AskersWriteNothing ==
    ASSUME ProtocolInv, TypesInv, asks # {} \/ run \in {"none", "end", "resume", "begin"}
    PROVE  \A x \in ToSet(writing) : x.role = "user"
<1>1. CASE run \in {"none", "end", "resume"}
    BY <1>1, EntriesOfEmpty DEF TypesInv, WritingIs
<1>2. CASE run = "begin"
    BY <1>2, EntriesOfOne DEF TypesInv, WritingIs, Message
<1>3. CASE run \in {"model", "tools"}
    BY <1>3 DEF ProtocolInv, WriterDoesNotAsk
<1> QED BY <1>1, <1>2, <1>3 DEF ProtocolInv, ProtocolTypes

LEMMA EndFailFlows ==
    ASSUME ProtocolInv, TypesInv, FlowInv, End \/ Fail
    PROVE  FlowInv'
<1>1. /\ run' = "none" /\ (writing' = writing \/ (writing' = <<>> /\ run # "end"))
      /\ UNCHANGED <<saved, streamed, asks, queued, loading>>
    BY DEF End, Fail
<1>2. PICK e : Send(<<e>>) /\ e.kind \in {"done", "error"} /\ e.msgs = <<>>
    BY DEF End, Fail, Event
<1>3. Sent(e)
    BY <1>2, StepSends
<1>4. SentOn(wire') \subseteq SentOn(wire) /\ (DOMAIN wire' = {} \/ \E n : Grown(wire, wire', n, e))
    BY <1>2, <1>3, EntriesOfEmpty DEF Sent
<1>5. ToSet(writing') \subseteq ToSet(writing)
    BY <1>1, EntriesOfEmpty
<1>6. Increasing(writing') /\ After(ToSet(saved), ToSet(writing'))
    BY <1>1, EntriesOfEmpty, IncreasingTools DEF FlowInv, Ordered
<1>7. Answering' => Answering /\ \A x \in ToSet(writing) : x.role = "tool" => x \in ToSet(writing')
    BY <1>1, AskersWriteNothing DEF Answering
<1>8. TurnIsReceived'
    BY <1>1 DEF TurnIsReceived
<1>10. queued' # None => asks' # {}
    BY <1>1 DEF FlowInv
<1>11. (\A x \in ToSet(writing') : x \in ToSet(writing) \/ (x.role = "user" /\ x.calls = <<>>))
       /\ UNCHANGED <<saved, streamed>>
    BY <1>1, <1>5
<1> QED BY <1>2, <1>4, <1>5, <1>6, <1>7, <1>8, <1>10, <1>11, QuietFlows

LEMMA ResumeFlows ==
    ASSUME ProtocolInv, TypesInv, FlowInv, Resume
    PROVE  FlowInv'
<1>1. run = "resume" /\ run' = "tools" /\ asks' = {} /\ UNCHANGED <<saved, streamed, loading, queued>>
    BY DEF Resume
<1>2. wire = <<>> /\ queued = None /\ writing = <<>>
    BY <1>1 DEF ProtocolInv, RunStartsQuiet, TypesInv, WritingIs
<1>3. PICK c \in asks :
          \/ writing' = <<>> /\ Send(<<>>)
          \/ writing' = <<ToolResult(c)>> /\ Send(<<Event("messages", <<ToolResult(c)>>)>>)
    BY ResumeWrites
<1>4. CASE writing' = <<>> /\ Send(<<>>)
    <2>1. wire' = <<>>
        BY <1>2, <1>4 DEF Send
    <2>2. DOMAIN wire' = {} /\ SentOn(wire') = SentOn(wire) /\ ToSet(writing') = {} /\ ToSet(writing) = {}
        BY <1>2, <1>4, <2>1, Empty, EntriesOfEmpty
    <2>3. Increasing(writing') /\ After(ToSet(saved), ToSet(writing'))
        BY <2>2, IncreasingTools
    <2>4. TurnIsReceived'
        BY <1>1, <1>2, <2>2 DEF FlowInv, TurnIsReceived, Told, Received
    <2>5. Answering
        BY <1>1 DEF Answering
    <2>6. (\A x \in ToSet(writing') : x \in ToSet(writing) \/ (x.role = "user" /\ x.calls = <<>>))
          /\ \A x \in ToSet(writing) : x.role = "tool" => x \in ToSet(writing')
        BY <2>2
    <2>7. SentOn(wire') \subseteq SentOn(wire) /\ UNCHANGED <<saved, streamed>> /\ queued' = None
        BY <1>1, <1>2, <2>2
    <2> DEFINE e == Event("done", <<>>)
    <2>8. e.kind = "done"
        BY DEF Event
    <2> HIDE DEF e
    <2> QED BY <2>2, <2>3, <2>4, <2>5, <2>6, <2>7, <2>8, QuietFlows
<1>5. CASE writing' = <<ToolResult(c)>> /\ Send(<<Event("messages", <<ToolResult(c)>>)>>)
    <2> DEFINE e == Event("messages", <<ToolResult(c)>>)
    <2>1. e.kind = "messages" /\ e.msgs = <<ToolResult(c)>>
        BY DEF Event
    <2>2. Send(<<e>>)
        BY <1>5
    <2> HIDE DEF e
    <2>3. Sent(e)
        BY <2>2, StepSends
    <2>4. ToSet(writing') = ToSet(writing) \cup {ToolResult(c)}
        BY <1>2, <1>5, EntriesOfOne, EntriesOfEmpty
    <2>5. c \in CalledIn(saved)
        BY DEF TypesInv, StateTyped, CalledIn
    <2> QED BY <1>1, <2>1, <2>3, <2>4, <2>5, ResultFlows
<1> QED BY <1>3, <1>4, <1>5

-----------------------------------------------------------------------------
\* The client processes an event.
LEMMA ReceivingFlows ==
    ASSUME ProtocolInv, TypesInv, FlowInv, wire # <<>>, wire' = Tail(wire),
           UNCHANGED <<saved, writing, run, asks, loading, queued>>, Increasing(streamed'),
           ToSet(streamed') \subseteq ToSet(streamed) \cup ToSet(Head(wire).msgs),
           \A m \in Told : m \in ToSet(streamed) \cup ToSet(Head(wire).msgs) /\ m.role # "user" => m \in ToSet(streamed'),
           NoHole(ToSet(streamed'), Told, ToSet(saved))
    PROVE  FlowInv'
<1>1. Shrunk(wire, wire') /\ Head(wire) = wire[1]
    <2>1. Shrunk(wire, wire')
        BY WireIsSequence, ShrunkByOne
    <2> QED BY <2>1 DEF Shrunk
<1>2. Told' = Told
    BY DEF Told
<1>3. Newest(ToSet(streamed'), wire') /\ Covered(ToSet(streamed'), wire', Told) /\ NoGap(ToSet(streamed'), wire', Told, ToSet(saved))
    <2> DEFINE S == ToSet(streamed)
               R == ToSet(streamed')
               V == ToSet(saved)
               W == Told
               z == wire'
    <2>1. /\ Newest(S, wire) /\ Covered(S, wire, W) /\ NoGap(S, wire, W, V) /\ Shrunk(wire, z)
          /\ R \subseteq S \cup ToSet(wire[1].msgs)
          /\ \A m \in W : m \in S \cup ToSet(wire[1].msgs) /\ m.role # "user" => m \in R
        BY <1>1 DEF FlowInv
    <2> HIDE DEF S, R, V, W, z
    <2>2. Newest(R, z) /\ Covered(R, z, W) /\ NoGap(R, z, W, V)
        BY <2>1, EventFlows
    <2> QED BY <2>2 DEF R, V, W, z
<1>4. SentOn(wire) = ToSet(Head(wire).msgs) \cup SentOn(wire')
    BY WireIsSequence, EventsOfRest
<1>5. Received' \subseteq Received /\ \A m \in Told : m.role # "user" /\ m \in Received => m \in Received'
    BY <1>4 DEF Received
<1>6. ResultsAreTold'
    BY <1>2, <1>5 DEF FlowInv, ResultsAreTold
<1>7. TurnIsReceived'
    BY <1>2, <1>5 DEF FlowInv, TurnIsReceived, Since
<1>8. Ordered'
    BY DEF FlowInv, Ordered
<1> QED BY <1>2, <1>3, <1>6, <1>7, <1>8 DEF FlowInv

\* What the first event finds.
LEMMA FirstEventFinds ==
    ASSUME NEW S, NEW w, NEW z, Shrunk(w, z), NEW W, NEW V, Newest(S, w), Covered(S, w, W), NoGap(S, w, W, V)
    PROVE  /\ Speaks(w[1]) => /\ \A m \in S : Talk(m) => Number(m) < Number(Head(w[1].msgs))
                              /\ \A a \in W : Since(a, V) /\ Number(a) < Number(Head(w[1].msgs)) => a \in S
           /\ w[1].kind = "values" => S \cap W \subseteq ToSet(w[1].msgs)
<1>1. 1 \in DOMAIN w /\ \A i \in DOMAIN w : i \in Nat \ {0}
    BY DEF Shrunk
<1>2. {k \in DOMAIN w : k < 1} = {}
    BY <1>1
<1>3. Before(S, w, 1) = S
    BY <1>2 DEF Before
<1> QED BY <1>1, <1>3 DEF Newest, Covered, NoGap

\* What an event brings to the stream's messages.
LEMMA MessageBrings ==
    ASSUME ProtocolInv, TypesInv, MessageEvent
    PROVE  ToSet(streamed') = ToSet(streamed) \cup ToSet(Head(wire).msgs)
BY MessageArrives, EntriesOfOne

LEMMA ValuesBring ==
    ASSUME ProtocolInv, TypesInv, FlowInv, ValuesEvent
    PROVE  /\ ToSet(streamed') \subseteq ToSet(streamed) \cup ToSet(Head(wire).msgs)
           /\ \A m \in Told : m \in ToSet(streamed) \cup ToSet(Head(wire).msgs) /\ m.role # "user" => m \in ToSet(streamed')
<1>1. wire # <<>> /\ wire' = Tail(wire) /\ Head(wire).kind = "values"
    BY DEF ValuesEvent, Incoming
<1>2. PICK all \in Seq(Text), agents \in Seq(Messages({"assistant", "tool"})) :
          /\ Head(wire).msgs = all
          /\ ToSet(agents) = {m \in ToSet(all) : m.role # "user"}
          /\ streamed' = IF agents = <<>> THEN streamed ELSE agents
    BY ValuesArrive
<1>3. Shrunk(wire, wire') /\ Head(wire) = wire[1]
    <2>1. Shrunk(wire, wire')
        BY <1>1, WireIsSequence, ShrunkByOne
    <2> QED BY <2>1 DEF Shrunk
<1>4. ToSet(streamed) \cap Told \subseteq ToSet(all)
    <2> DEFINE S == ToSet(streamed)
               V == ToSet(saved)
               W == Told
               z == wire'
    <2>1. Newest(S, wire) /\ Covered(S, wire, W) /\ NoGap(S, wire, W, V) /\ Shrunk(wire, z)
        BY <1>3 DEF FlowInv
    <2>2. wire[1].kind = "values" /\ wire[1].msgs = all
        BY <1>1, <1>2, <1>3
    <2> HIDE DEF S, V, W, z
    <2>3. S \cap W \subseteq ToSet(all)
        BY <2>1, <2>2, FirstEventFinds
    <2> QED BY <2>3 DEF S, W
<1>5. CASE agents = <<>>
    BY <1>2, <1>5, EntriesOfEmpty
<1>6. CASE agents # <<>>
    BY <1>2, <1>4, <1>6
<1> QED BY <1>5, <1>6

LEMMA InterruptBrings ==
    ASSUME ProtocolInv, TypesInv, InterruptEvent
    PROVE  streamed' = streamed /\ ToSet(Head(wire).msgs) = {}
<1>1. wire # <<>> /\ Head(wire).kind = "interrupt" /\ streamed' = streamed
    BY DEF InterruptEvent, Incoming
<1>2. EventTyped(Head(wire), saved)
    BY <1>1, TypesGive, EventsOfRest
<1> QED BY <1>1, <1>2, EntriesOfEmpty DEF EventTyped

LEMMA MessageEventFlows ==
    ASSUME ProtocolInv, TypesInv, FlowInv, MessageEvent
    PROVE  FlowInv'
<1>1. /\ wire # <<>> /\ wire' = Tail(wire) /\ Head(wire).kind = "messages"
      /\ UNCHANGED <<saved, writing, run, asks, loading, queued>>
    BY DEF MessageEvent, Incoming, server
<1>2. PICK m \in Messages({"assistant", "tool"}) :
          /\ Head(wire).msgs = <<m>>
          /\ streamed' = AppendAll(streamed, <<m>>)
          /\ streamed' \in Seq(Messages({"assistant", "tool"}))
          /\ ToSet(streamed') = ToSet(streamed) \cup {m}
          /\ SentOn(wire) = {m} \cup SentOn(wire')
    BY MessageArrives
<1>3. ToSet(Head(wire).msgs) = {m} /\ Head(Head(wire).msgs) = m
    BY <1>2, Singleton, EntriesOfOne
<1>4. Shrunk(wire, wire') /\ Head(wire) = wire[1]
    <2>1. Shrunk(wire, wire')
        BY <1>1, WireIsSequence, ShrunkByOne
    <2> QED BY <2>1 DEF Shrunk
<1>5. Talk(m) => Speaks(wire[1])
    BY <1>1, <1>3, <1>4 DEF Speaks
<1>6. Talk(m) => /\ \A x \in ToSet(streamed) : Talk(x) => Number(x) < Number(m)
                 /\ \A a \in Told : Since(a, ToSet(saved)) /\ Number(a) < Number(m) => a \in ToSet(streamed)
    <2> DEFINE S == ToSet(streamed)
               V == ToSet(saved)
               W == Told
               z == wire'
    <2>1. Newest(S, wire) /\ Covered(S, wire, W) /\ NoGap(S, wire, W, V) /\ Shrunk(wire, z)
        BY <1>4 DEF FlowInv
    <2>2. Head(wire[1].msgs) = m
        BY <1>3, <1>4
    <2> HIDE DEF S, V, W, z
    <2>3. Talk(m) => /\ \A x \in S : Talk(x) => Number(x) < Number(m)
                     /\ \A a \in W : Since(a, V) /\ Number(a) < Number(m) => a \in S
        BY <1>5, <2>1, <2>2, FirstEventFinds
    <2> QED BY <2>3 DEF S, V, W
<1>7. Increasing(streamed')
    <2> DEFINE T == Messages({"assistant", "tool"})
               t == <<m>>
    <2>1. t \in Seq(T) /\ Len(t) = 1 /\ ToSet(t) = {m}
        BY EntriesOfOne
    <2>2. streamed \in Seq(T)
        BY TypesGive
    <2>3. \A a, b \in ToSet(streamed) \cup ToSet(t) : a.id = b.id => a = b
        <3>1. ToSet(streamed) \cup ToSet(t) \subseteq Everywhere
            BY <1>2, <2>1, EverywhereParts
        <3> QED BY <3>1 DEF TypesInv, Agreement
    <2>4. Increasing(t)
        BY IncreasingOne
    <2>5. After(ToSet(streamed), ToSet(t) \ ToSet(streamed))
        BY <1>6, <2>1 DEF After
    <2> HIDE DEF T, t
    <2>6. PICK u, h : u \in Seq(T) /\ Joined(AppendAll(streamed, t), streamed, t, Len(t), u, h)
        BY <2>1, <2>2, <2>3, AppendAllJoins
    <2>7. Increasing(AppendAll(streamed, t))
        BY <2>1, <2>2, <2>4, <2>5, <2>6, IncreasingJoined DEF FlowInv, Ordered
    <2> QED BY <1>2, <2>7 DEF t
<1>8. NoHole(ToSet(streamed'), Told, ToSet(saved))
    BY <1>2, <1>6 DEF FlowInv, NoHole
<1>9. ToSet(streamed') = ToSet(streamed) \cup ToSet(Head(wire).msgs)
    BY <1>2, <1>3
<1> QED BY <1>1, <1>7, <1>8, <1>9, ReceivingFlows

LEMMA ValuesEventFlows ==
    ASSUME ProtocolInv, TypesInv, FlowInv, ValuesEvent
    PROVE  FlowInv'
<1>1. /\ wire # <<>> /\ wire' = Tail(wire) /\ Head(wire).kind = "values"
      /\ UNCHANGED <<saved, writing, run, asks, loading, queued>>
    BY DEF ValuesEvent, Incoming, server
<1>2. PICK n \in 0..Len(saved), all \in Seq(Text), agents \in Seq(Messages({"assistant", "tool"})) :
          /\ Head(wire).msgs = all /\ all = SubSeq(saved, 1, n)
          /\ agents = Keeping(all, {m \in ToSet(all) : m.role # "user"})
          /\ ToSet(agents) = {m \in ToSet(all) : m.role # "user"}
          /\ ToSet(all) \subseteq ToSet(saved)
          /\ streamed' = IF agents = <<>> THEN streamed ELSE agents
    BY ValuesArrive
<1>5. CASE agents = <<>>
    <2>1. streamed' = streamed /\ \A m \in ToSet(all) : m.role = "user"
        BY <1>2, <1>5, EntriesOfEmpty
    <2>2. \A m \in Told : m \in ToSet(streamed) \cup ToSet(Head(wire).msgs) /\ m.role # "user" => m \in ToSet(streamed')
        BY ValuesBring
    <2>3. Increasing(streamed') /\ NoHole(ToSet(streamed'), Told, ToSet(saved))
        BY <2>1 DEF FlowInv, Ordered
    <2> QED BY <1>1, <2>1, <2>2, <2>3, ReceivingFlows
<1>6. CASE agents # <<>>
    <2>1. streamed' = agents
        BY <1>2, <1>6
    <2>2. ToSet(streamed') \subseteq ToSet(streamed) \cup ToSet(Head(wire).msgs)
        BY ValuesBring
    <2>3. \A m \in Told : m \in ToSet(streamed) \cup ToSet(Head(wire).msgs) /\ m.role # "user" => m \in ToSet(streamed')
        BY ValuesBring
    <2>4. saved \in Seq(Text) /\ Increasing(saved)
        BY TypesGive DEF FlowInv, Ordered
    <2>5. Increasing(all)
        BY <1>2, <2>4, IncreasingFirst
    <2>6. Increasing(streamed')
        BY <1>2, <2>1, <2>5, IncreasingKept
    <2>7. NoHole(ToSet(streamed'), Told, ToSet(saved))
        <3> SUFFICES ASSUME NEW m \in ToSet(agents), NEW a \in Told, Talk(m), Since(a, ToSet(saved)),
                            Number(a) < Number(m)
                     PROVE  a \in ToSet(agents)
            BY <2>1 DEF NoHole
        <3>1. m \in ToSet(all) /\ m \in ToSet(saved)
            BY <1>2
        <3>2. Number(a) \in Int /\ Number(m) \in Int
            BY <3>1, ToldIsEverywhere, NumbersOf DEF Told
        <3>3. a.role = "assistant" /\ Talk(a)
            BY DEF Since, Talk
        <3>4. a \in ToSet(saved)
            <4> SUFFICES ASSUME a \in ToSet(writing) PROVE FALSE
                BY DEF Told
            <4>1. Number(m) < Number(a)
                BY <3>1, <3>3 DEF FlowInv, Ordered, After
            <4> QED BY <3>2, <4>1
        <3>5. a \in ToSet(all)
            BY <1>2, <2>4, <3>1, <3>2, <3>3, <3>4, EarlierIsFirst
        <3> QED BY <1>2, <3>3, <3>5
    <2> QED BY <1>1, <2>2, <2>3, <2>6, <2>7, ReceivingFlows
<1> QED BY <1>5, <1>6

LEMMA InterruptEventFlows ==
    ASSUME ProtocolInv, TypesInv, FlowInv, InterruptEvent
    PROVE  FlowInv'
<1>1. /\ wire # <<>> /\ wire' = Tail(wire) /\ Head(wire).kind = "interrupt"
      /\ UNCHANGED <<saved, writing, run, asks, loading, queued, streamed>>
    BY DEF InterruptEvent, Incoming, server
<1>2. ToSet(Head(wire).msgs) = {}
    BY InterruptBrings
<1> QED BY <1>1, <1>2, ReceivingFlows DEF FlowInv, Ordered

\* What is on the wire is dropped.
LEMMA CutFlows ==
    ASSUME ProtocolInv, TypesInv, FlowInv, UNCHANGED <<saved, streamed>>, wire' = <<>>,
           Increasing(writing'), After(ToSet(saved), ToSet(writing')),
           \A x \in ToSet(writing') : x \in ToSet(writing) \/ (x.role = "user" /\ x.calls = <<>>),
           Answering' => Answering /\ \A x \in ToSet(writing) : x.role = "tool" => x \in ToSet(writing'),
           TurnIsReceived', queued' # None => asks' # {}
    PROVE  FlowInv'
<1> DEFINE e == Event("done", <<>>)
<1>1. e.kind = "done"
    BY DEF Event
<1> HIDE DEF e
<1>2. DOMAIN wire' = {} /\ SentOn(wire') \subseteq SentOn(wire)
    BY Empty, NoEvents
<1> QED BY <1>1, <1>2, QuietFlows

\* A run to be resumed has written nothing, and the client has all that is saved.
LEMMA ResumedFlows ==
    ASSUME ProtocolInv, TypesInv, AskedInv, FlowInv, UNCHANGED <<saved, asks, streamed>>,
           Offered # None \/ queued # None, wire' = <<>>, writing' = <<>>, run' = "resume", queued' = None
    PROVE  FlowInv'
<1>1. asks # {} /\ run \in {"end", "none"} /\ writing = <<>>
    BY DEF FlowInv, ProtocolInv, OneQuestion, TypesInv, WritingIs
<1>2. ToSet(writing') = {} /\ ToSet(writing) = {}
    BY <1>1, EntriesOfEmpty
<1>3. Increasing(writing') /\ After(ToSet(saved), ToSet(writing'))
    BY <1>2, IncreasingTools
<1>4. Answering /\ (\A x \in ToSet(writing) : x.role = "tool" => x \in ToSet(writing'))
      /\ \A x \in ToSet(writing') : x \in ToSet(writing) \/ (x.role = "user" /\ x.calls = <<>>)
    BY <1>1, <1>2 DEF Answering
<1>5. TurnIsReceived'
    <2>1. AgentsOf(saved) \subseteq ToSet(streamed)
        BY DEF AskedInv, AskedIsStreamed
    <2> QED BY <1>2, <2>1 DEF TurnIsReceived, Told, Received, Since, AgentsOf
<1> QED BY <1>3, <1>4, <1>5, CutFlows

LEMMA StreamEndsFlows ==
    ASSUME ProtocolInv, TypesInv, AskedInv, FlowInv, StreamEnds, UNCHANGED <<saved, asks, streamed>>
    PROVE  FlowInv'
<1>1. wire' = <<>> /\ queued' = None
    BY DEF StreamEnds, Open
<1>2. CASE queued # None
    BY <1>1, <1>2, ResumedFlows DEF StreamEnds, Open
<1>3. CASE queued = None
    <2>1. loading' = FALSE /\ UNCHANGED <<run, writing>>
        BY <1>3 DEF StreamEnds
    <2>2. TurnIsReceived' /\ (Answering' => Answering)
        BY <2>1 DEF TurnIsReceived, Answering
    <2>3. Increasing(writing') /\ After(ToSet(saved), ToSet(writing'))
        BY <2>1 DEF FlowInv, Ordered
    <2> QED BY <1>1, <2>1, <2>2, <2>3, CutFlows
<1> QED BY <1>2, <1>3

LEMMA SubmitFlows ==
    ASSUME ProtocolInv, TypesInv, FlowInv, Submit
    PROVE  FlowInv'
<1> DEFINE u == Message(<<made + 1, 0>>, "user", <<>>)
<1>1. wire' = <<>> /\ run' = "begin" /\ writing' = <<u>> /\ UNCHANGED <<saved, asks, streamed, queued>>
    BY DEF Submit, Open
<1>2. u.role = "user" /\ u.calls = <<>> /\ Number(u) = made + 1
    BY DEF Message, Number
<1> HIDE DEF u
<1>3. ToSet(writing') = {u} /\ Increasing(writing')
    BY <1>1, EntriesOfOne, IncreasingOne
<1>4. After(ToSet(saved), ToSet(writing'))
    BY <1>2, <1>3, NumbersOf, EverywhereParts, TypesGive DEF After
<1>5. TurnIsReceived'
    BY <1>1 DEF TurnIsReceived
<1>6. Answering' => Answering /\ \A x \in ToSet(writing) : x.role = "tool" => x \in ToSet(writing')
    BY <1>1, AskersWriteNothing DEF Answering
<1>7. queued' # None => asks' # {}
    BY <1>1 DEF FlowInv
<1> QED BY <1>1, <1>2, <1>3, <1>4, <1>5, <1>6, <1>7, CutFlows

\* A step by which no message moves between the agent and the client.
LEMMA AsideFlows ==
    ASSUME FlowInv, UNCHANGED <<saved, asks, run, writing, wire, loading, streamed>>,
           queued' # None => asks # {}
    PROVE  FlowInv'
<1>1. Told' = Told /\ Received' = Received
    BY DEF Told, Received
<1>2. Ordered' /\ ResultsAreTold' /\ TurnIsReceived'
    BY <1>1 DEF FlowInv, Ordered, ResultsAreTold, TurnIsReceived
<1> QED BY <1>1, <1>2 DEF FlowInv

LEMMA DecideFlows ==
    ASSUME ProtocolInv, TypesInv, AskedInv, FlowInv, NEW d \in Decisions, Decide(d)
    PROVE  FlowInv'
<1>1. Offered # None
    BY DEF Decide, OfferedOnScreen, NeedsApproval
<1>2. asks # {} /\ queued = None
    BY <1>1 DEF ProtocolInv, OneQuestion
<1>3. CASE loading
    <2>1. UNCHANGED <<saved, asks, run, writing, wire, loading, streamed>>
        BY <1>3 DEF Decide, server
    <2> QED BY <1>2, <2>1, AsideFlows
<1>4. CASE ~loading
    <2>1. /\ UNCHANGED <<saved, asks, streamed, queued>>
          /\ wire' = <<>> /\ writing' = <<>> /\ run' = "resume"
        BY <1>4 DEF Decide, Open
    <2> QED BY <1>1, <1>2, <2>1, ResumedFlows
<1> QED BY <1>3, <1>4

LEMMA ReloadFlows ==
    ASSUME ProtocolInv, TypesInv, FlowInv, Reload
    PROVE  FlowInv'
<1>1. wire' = <<>> /\ streamed' = <<>> /\ loading' = FALSE /\ queued' = None
      /\ UNCHANGED <<saved, asks, run, writing>>
    BY DEF Reload, server
<1>2. ToSet(streamed') = {} /\ DOMAIN wire' = {} /\ SentOn(wire') = {}
    BY <1>1, Empty, EntriesOfEmpty, NoEvents
<1>3. Increasing(streamed')
    BY <1>2, IncreasingTools
<1>4. Ordered'
    BY <1>1, <1>3 DEF FlowInv, Ordered
<1>5. TurnIsReceived' /\ ResultsAreTold' /\ NoHole(ToSet(streamed'), Told', ToSet(saved'))
    BY <1>1, <1>2 DEF TurnIsReceived, ResultsAreTold, Received, NoHole
<1>6. /\ Newest(ToSet(streamed'), wire') /\ Covered(ToSet(streamed'), wire', Told')
      /\ NoGap(ToSet(streamed'), wire', Told', ToSet(saved'))
    BY <1>2 DEF Newest, Covered, NoGap
<1> QED BY <1>1, <1>4, <1>5, <1>6 DEF FlowInv

LEMMA FlowInit == Init => FlowInv
<1> SUFFICES ASSUME Init PROVE FlowInv
    OBVIOUS
<1>1. /\ saved = <<>> /\ asks = {} /\ run = "none" /\ writing = <<>> /\ wire = <<>> /\ loading = FALSE
      /\ streamed = <<>> /\ queued = None
    BY DEF Init
<1>2. ToSet(saved) = {} /\ ToSet(writing) = {} /\ ToSet(streamed) = {} /\ DOMAIN wire = {} /\ Told = {}
    BY <1>1, Empty, EntriesOfEmpty DEF Told
<1>3. Ordered
    BY <1>2, IncreasingTools DEF Ordered
<1>4. TurnIsReceived /\ ResultsAreTold /\ NoHole(ToSet(streamed), Told, ToSet(saved))
    BY <1>1, <1>2 DEF TurnIsReceived, ResultsAreTold, NoHole
<1>5. /\ Newest(ToSet(streamed), wire) /\ Covered(ToSet(streamed), wire, Told)
      /\ NoGap(ToSet(streamed), wire, Told, ToSet(saved))
    BY <1>2 DEF Newest, Covered, NoGap
<1> QED BY <1>1, <1>3, <1>4, <1>5 DEF FlowInv

\* The agent's steps that save what it has written.
LEMMA SavesFlow ==
    ASSUME ProtocolInv, TypesInv, FlowInv, SaveAnswer \/ SaveResults
    PROVE  FlowInv'
<1>1. /\ run \in {"model", "tools"} /\ saved' = saved \o writing /\ writing' = <<>>
      /\ UNCHANGED <<streamed, loading, queued>>
    BY DEF SaveAnswer, SaveResults
<1>2. Sent(Event("values", saved'))
    <2>1. CASE SaveAnswer
        BY <2>1, SaveSends
    <2>2. CASE SaveResults
        BY <2>2, StepSends DEF SaveResults
    <2> QED BY <2>1, <2>2
<1>3. \A m \in ToSet(writing) : m.role # "user"
    <2>1. CASE SaveAnswer
        <3>1. PICK plan, n : writing = <<Message(<<n, 0>>, "assistant", plan)>>
            BY <2>1 DEF SaveAnswer, ProtocolInv, OneAnswer
        <3> QED BY <3>1, EntriesOfOne DEF Message
    <2>2. CASE SaveResults
        BY <2>2 DEF SaveResults, TypesInv, WritingIs
    <2> QED BY <2>1, <2>2
<1> QED BY <1>1, <1>2, <1>3, SavingFlows

LEMMA RunToolWrites ==
    ASSUME ProtocolInv, TypesInv, NEW c \in CallsIn(saved, "execute") \cup CallsIn(saved, "task"), RunTool(c)
    PROVE  ToSet(writing') = ToSet(writing) \cup {ToolResult(c)}
<1>1. ToSet(saved) \subseteq Everywhere
    BY EverywhereParts
<1>2. PICK m \in ToSet(saved) : c \in CallsOf(m, "execute") \cup CallsOf(m, "task")
    BY CallsInEntries
<1>3. m \in Written(made) /\ made \in 0..MaxMessages /\ made \in Nat
    BY <1>1, TypesGive
<1>4. c \in (1..made) \X (Nat \ {0})
    <2>1. c \in {m.id[1]} \X (Nat \ {0}) /\ m.id[1] \in 1..made
        BY <1>2, <1>3, CallsOfWritten, WrittenIs
    <2> QED BY <2>1
<1>5. ToolResult(c) \in Written(made)
    BY <1>3, <1>4, ResultIsWritten
<1>6. ToolResult(c) \in Text
    BY <1>3, <1>5, WrittenIs
<1>7. writing' = Append(writing, ToolResult(c))
    BY DEF RunTool
<1> QED BY <1>6, <1>7, TypesGive, EntriesOfAppend

LEMMA RunToolFlows ==
    ASSUME ProtocolInv, TypesInv, FlowInv, NEW c \in CallsIn(saved, "execute") \cup CallsIn(saved, "task"), RunTool(c)
    PROVE  FlowInv'
<1> DEFINE e == Event("messages", <<ToolResult(c)>>)
<1>1. e.kind = "messages" /\ e.msgs = <<ToolResult(c)>>
    BY DEF Event
<1>2. Send(<<e>>) /\ run = "tools" /\ run' = "tools" /\ UNCHANGED <<saved, streamed, loading, queued>>
    BY DEF RunTool
<1> HIDE DEF e
<1>3. Sent(e)
    BY <1>2, StepSends
<1>4. c \in CalledIn(saved)
    BY DEF CalledIn
<1> QED BY <1>1, <1>2, <1>3, <1>4, RunToolWrites, ResultFlows

LEMMA FlowNext == ProtocolInv /\ TypesInv /\ AskedInv /\ FlowInv /\ [Next]_vars => FlowInv'
<1> SUFFICES ASSUME ProtocolInv, TypesInv, AskedInv, FlowInv, [Next]_vars PROVE FlowInv'
    OBVIOUS
<1>1. ASSUME Leave \/ Return \/ UNCHANGED vars PROVE FlowInv'
    <2>1. UNCHANGED <<saved, asks, run, writing, wire, loading, streamed, queued>>
        BY <1>1 DEF Leave, Return, vars, server, stream, thread
    <2> QED BY <2>1, AsideFlows DEF FlowInv
<1>2. ASSUME NEW i \in DOMAIN loads, ReadHistory(i) \/ HistoryAnswer(i) \/ HistoryFails(i) PROVE FlowInv'
    <2>1. UNCHANGED <<saved, asks, run, writing, wire, loading, streamed, queued>>
        BY <1>2 DEF ReadHistory, HistoryAnswer, HistoryFails, server, stream, thread
    <2> QED BY <2>1, AsideFlows DEF FlowInv
<1>3. ASSUME DoneOrError \/ Stop PROVE FlowInv'
    BY <1>3, StreamEndsFlows DEF DoneOrError, Stop
<1> QED BY <1>1, <1>2, <1>3, BeginFlows, AnswerFlows, SavesFlow, RunToolFlows, ResumeFlows, EndFailFlows,
           MessageEventFlows, ValuesEventFlows, InterruptEventFlows, SubmitFlows, DecideFlows, ReloadFlows
    DEF Next

-----------------------------------------------------------------------------
\* The user's own copy of a message has another id than the saved one; of the
\* user's messages only the numbers are compared.
Agents(S) == {m \in S : m.role # "user"}

UserNumbers(S) == {Number(m) : m \in {x \in S : x.role = "user"}}

\* With its messages l has all that the agent said before them.
Closed(l, W) == \A m \in ToSet(l), a \in W : Talk(m) /\ a.role = "assistant" /\ Number(a) < Number(m) => a \in ToSet(l)

\* l follows a conversation of which V is saved and X being written, R being
\* what the stream has or will have of it.
Kept(l, R, V, X) ==
    /\ Agents(ToSet(l)) \cup R \subseteq V \cup X
    /\ UserNumbers(ToSet(l)) = UserNumbers(V \cup X)
    /\ Increasing(l) /\ Closed(l, V \cup X)
    /\ Agents(V) \subseteq ToSet(l) \cup R /\ Agents(X) \subseteq R

\* Unless it is in doubt, the thread's own list follows the conversation.
DisplayFollows ==
    "messages" \notin doubt =>
        (~loading => run = "none") /\ Kept(local, Received, ToSet(saved), ToSet(writing))

\* The conversation goes on, the list stays as it is.
LEMMA KeptMore ==
    ASSUME NEW l, NEW R, NEW V, NEW X, Kept(l, R, V, X), NEW S, NEW U, NEW Y,
           S \subseteq U \cup Y, V \cup X \subseteq U \cup Y, Agents(U) \subseteq ToSet(l) \cup S, Agents(Y) \subseteq S,
           \A a \in U \cup Y : a \in V \cup X \/ a.role = "tool"
               \/ (a.role = "assistant" /\ \A m \in ToSet(l) : ~(Number(a) < Number(m)))
    PROVE  Kept(l, S, U, Y)
<1> DEFINE W == V \cup X
           Z == U \cup Y
<1>1. /\ Agents(ToSet(l)) \cup R \subseteq W /\ UserNumbers(ToSet(l)) = UserNumbers(W)
      /\ Increasing(l) /\ Closed(l, W)
    BY DEF Kept
<1>2. /\ S \subseteq Z /\ W \subseteq Z
      /\ \A a \in Z : a \in W \/ a.role = "tool"
               \/ (a.role = "assistant" /\ \A m \in ToSet(l) : ~(Number(a) < Number(m)))
    OBVIOUS
<1> HIDE DEF W, Z
<1>3. {x \in Z : x.role = "user"} = {x \in W : x.role = "user"}
    BY <1>2
<1>4. UserNumbers(Z) = UserNumbers(W)
    BY <1>3 DEF UserNumbers
<1>5. Closed(l, Z)
    BY <1>1, <1>2 DEF Closed
<1>6. Agents(ToSet(l)) \cup S \subseteq Z /\ UserNumbers(ToSet(l)) = UserNumbers(Z) /\ Increasing(l) /\ Closed(l, Z)
    BY <1>1, <1>2, <1>4, <1>5
<1> QED BY <1>6 DEF Kept, Z

\* The talk of a conversation has different numbers.
LEMMA TalkIsApart ==
    ASSUME ProtocolInv, TypesInv, FlowInv, NEW a \in Told, NEW b \in Told, Talk(a), Talk(b), a # b
    PROVE  Number(a) < Number(b) \/ Number(b) < Number(a)
<1>1. Increasing(saved) /\ Increasing(writing) /\ After(ToSet(saved), ToSet(writing))
    BY DEF FlowInv, Ordered
<1>2. ASSUME NEW s, s \in Seq(Text), Increasing(s), a \in ToSet(s), b \in ToSet(s)
      PROVE  Number(a) < Number(b) \/ Number(b) < Number(a)
    <2>1. PICK i, j \in DOMAIN s : a = s[i] /\ b = s[j]
        BY <1>2 DEF ToSet
    <2>2. i \in Nat /\ j \in Nat /\ i # j
        <3>1. DOMAIN s = 1..Len(s) /\ Len(s) \in Nat
            BY <1>2
        <3> QED BY <2>1, <3>1
    <2>3. i < j \/ j < i
        BY <2>2
    <2> QED BY <1>2, <2>1, <2>3 DEF Increasing
<1>3. saved \in Seq(Text) /\ writing \in Seq(Text)
    BY TypesGive
<1>4. CASE a \in ToSet(saved) /\ b \in ToSet(saved)
    BY <1>1, <1>2, <1>3, <1>4
<1>5. CASE a \in ToSet(writing) /\ b \in ToSet(writing)
    BY <1>1, <1>2, <1>3, <1>5
<1>6. CASE (a \in ToSet(saved) /\ b \in ToSet(writing)) \/ (a \in ToSet(writing) /\ b \in ToSet(saved))
    BY <1>1, <1>6 DEF After
<1> QED BY <1>4, <1>5, <1>6 DEF Told

\* Two messages of the agent with the same number are the same.
LEMMA AnswersAreApart ==
    ASSUME ProtocolInv, TypesInv, NEW a \in Everywhere, NEW b \in Everywhere,
           a.role = "assistant", b.role = "assistant", Number(a) = Number(b)
    PROVE  a = b
<1>1. a \in Written(made) /\ b \in Written(made) /\ made \in 0..MaxMessages
    BY TypesGive
<1>2. a.id = <<a.id[1], 0>> /\ b.id = <<b.id[1], 0>>
    BY <1>1, WrittenIs
<1>3. a.id = b.id
    BY <1>2 DEF Number
<1> QED BY <1>3 DEF TypesInv, Agreement

\* What the chat shows, or copies, with the stream's messages behind its own.
LEMMA JoinedIsKept ==
    ASSUME ProtocolInv, TypesInv, FlowInv, Kept(local, Received, ToSet(saved), ToSet(writing)),
           NEW u \in Seq(Text), NEW h, NEW d, Joined(d, local, streamed, Len(streamed), u, h)
    PROVE  Kept(d, Received, ToSet(saved), ToSet(writing))
<1> DEFINE L == ToSet(local)
           S == ToSet(streamed)
           V == ToSet(saved)
           X == ToSet(writing)
           R == Received
           W == V \cup X
<1>1. local \in Seq(Text) /\ streamed \in Seq(Text) /\ W = Told
    BY TypesGive, AgentsAreText DEF Told
<1>2. d \in Seq(Text) /\ ToSet(d) = L \cup S
    BY <1>1, JoinedEntries
<1>3. /\ Agents(L) \cup R \subseteq W /\ UserNumbers(L) = UserNumbers(W)
      /\ Increasing(local) /\ Closed(local, W)
      /\ Agents(V) \subseteq L \cup R /\ Agents(X) \subseteq R
    BY DEF Kept
<1>4. S \subseteq R /\ S \subseteq W /\ \A s \in S : s.role \in {"assistant", "tool"}
    <2>1. S \subseteq R
        BY DEF Received
    <2>2. S \subseteq Messages({"assistant", "tool"})
        BY TypesGive, EntriesTyped
    <2> QED BY <1>3, <2>1, <2>2 DEF Messages
<1>5. L \subseteq Everywhere /\ W \subseteq Everywhere
    BY <1>1, EverywhereParts, ToldIsEverywhere
<1>6. \A m \in Everywhere : Number(m) \in Int /\ m.role \in {"user", "assistant", "tool"}
    BY NumbersOf
<1> HIDE DEF L, S, V, X, R, W
<1>7. ASSUME NEW m \in L, m.role = "user" PROVE \E w \in W : w.role = "user" /\ Number(w) = Number(m)
    <2>1. Number(m) \in UserNumbers(L)
        BY <1>7 DEF UserNumbers
    <2> QED BY <1>3, <2>1 DEF UserNumbers
<1>8. ASSUME NEW w \in W, w.role = "user" PROVE \E m \in L : m.role = "user" /\ Number(w) = Number(m)
    <2>1. Number(w) \in UserNumbers(W)
        BY <1>8 DEF UserNumbers
    <2> QED BY <1>3, <2>1 DEF UserNumbers
<1>9. After(L, S \ L)
    <2> SUFFICES ASSUME NEW m \in L, NEW s \in S, s \notin L, Talk(m), Talk(s), ~(Number(m) < Number(s))
                 PROVE  FALSE
        BY DEF After
    <2>1. s.role = "assistant" /\ s \in W
        BY <1>4 DEF Talk
    <2>2. CASE Number(s) < Number(m)
        BY <1>3, <2>1, <2>2 DEF Closed, L
    <2>3. CASE Number(s) = Number(m) /\ m.role = "user"
        <3>1. PICK w \in W : w.role = "user" /\ Number(w) = Number(m)
            BY <1>7, <2>3
        <3>2. Number(w) < Number(s) \/ Number(s) < Number(w)
            BY <1>1, <2>1, <3>1, TalkIsApart DEF Talk
        <3> QED BY <1>5, <1>6, <2>1, <2>3, <3>1, <3>2
    <2>4. CASE Number(s) = Number(m) /\ m.role = "assistant"
        BY <1>5, <2>1, <2>4, AnswersAreApart
    <2> QED BY <1>5, <1>6, <2>1, <2>2, <2>3, <2>4 DEF Talk
<1>10. Increasing(d)
    BY <1>1, <1>3, <1>9, IncreasingJoined DEF L, S, FlowInv, Ordered
<1>11. Closed(d, W)
    <2> SUFFICES ASSUME NEW m \in L \cup S, NEW a \in W, Talk(m), a.role = "assistant", Number(a) < Number(m)
                 PROVE  a \in L \cup S
        BY <1>2 DEF Closed
    <2>1. CASE m \in L
        BY <1>3, <2>1 DEF Closed, L
    <2>2. CASE m \in S /\ Since(a, V)
        BY <1>1, <2>2 DEF FlowInv, NoHole, S, V
    <2>3. CASE m \in S /\ ~Since(a, V)
        <3>1. PICK x \in V : x.role = "user" /\ ~(Number(x) < Number(a))
            BY <2>3 DEF Since
        <3>2. x \in W
            BY DEF W
        <3>3. Number(a) < Number(x)
            BY <1>1, <3>1, <3>2, TalkIsApart DEF Talk
        <3>4. PICK l \in L : l.role = "user" /\ Number(x) = Number(l)
            BY <1>8, <3>1, <3>2
        <3>5. Talk(l) /\ Number(a) < Number(l)
            BY <3>3, <3>4 DEF Talk
        <3> QED BY <1>3, <3>5 DEF Closed, L
    <2> QED BY <2>1, <2>2, <2>3
<1>12. UserNumbers(ToSet(d)) = UserNumbers(W)
    <2>1. {x \in L \cup S : x.role = "user"} = {x \in L : x.role = "user"}
        BY <1>4
    <2> QED BY <1>2, <1>3, <2>1 DEF UserNumbers
<1>13. Agents(ToSet(d)) \cup R \subseteq W
    BY <1>2, <1>3, <1>4 DEF Agents
<1>14. Agents(V) \subseteq ToSet(d) \cup R /\ Agents(X) \subseteq R
    BY <1>2, <1>3
<1> QED BY <1>10, <1>11, <1>12, <1>13, <1>14 DEF Kept, W, R, V, X

LEMMA DisplayIsKept ==
    ASSUME ProtocolInv, TypesInv, FlowInv, Kept(local, Received, ToSet(saved), ToSet(writing))
    PROVE  /\ Kept(displayMessages, Received, ToSet(saved), ToSet(writing))
           /\ Kept(AppendAll(local, streamed), Received, ToSet(saved), ToSet(writing))
<1>1. local \in Seq(Text) /\ streamed \in Seq(Text)
    BY TypesGive, AgentsAreText
<1>2. \A a, b \in ToSet(local) \cup ToSet(streamed) : a.id = b.id => a = b
    BY EverywhereParts DEF TypesInv, Agreement
<1>3. PICK u, h : u \in Seq(Text) /\ Joined(AppendAll(local, streamed), local, streamed, Len(streamed), u, h)
    BY <1>1, <1>2, AppendAllJoins
<1>4. PICK v, g : v \in Seq(Text) /\ Joined(Displayed(local, streamed), local, streamed, Len(streamed), v, g)
    BY <1>1, <1>2, DisplayedJoins
<1>5. Kept(AppendAll(local, streamed), Received, ToSet(saved), ToSet(writing))
    BY <1>3, JoinedIsKept
<1>6. Kept(Displayed(local, streamed), Received, ToSet(saved), ToSet(writing))
    BY <1>4, JoinedIsKept
<1> QED BY <1>5, <1>6 DEF displayMessages

\* Nothing of the conversation is new, and the client has no less of it.
LEMMA KeptSame ==
    ASSUME NEW l, NEW R, NEW V, NEW X, Kept(l, R, V, X), NEW S, S \subseteq R,
           \A m \in V \cup X : m.role # "user" /\ m \in R => m \in S
    PROVE  Kept(l, S, V, X)
BY DEF Kept, Agents

\* What the agent writes down and sends.
LEMMA AgentShows ==
    ASSUME ProtocolInv, TypesInv, DisplayFollows, run # "none", UNCHANGED <<local, streamed, loading>>,
           "messages" \notin doubt' => "messages" \notin doubt, NEW e, Sent(e), NEW N,
           Told' = Told \cup N, ToSet(e.msgs) \subseteq Told',
           Agents(ToSet(saved')) \subseteq Agents(ToSet(saved)) \cup ToSet(e.msgs),
           Agents(ToSet(writing')) \subseteq Agents(ToSet(writing)) \cup ToSet(e.msgs),
           \A a \in N : a.role = "tool" \/ (a.role = "assistant" /\ Number(a) = made + 1)
    PROVE  DisplayFollows'
<1> SUFFICES ASSUME "messages" \notin doubt'
             PROVE  loading' /\ Kept(local', Received', ToSet(saved'), ToSet(writing'))
    BY DEF DisplayFollows
<1>1. loading /\ Kept(local, Received, ToSet(saved), ToSet(writing))
    BY DEF DisplayFollows
<1>2. Received' = Received \cup ToSet(e.msgs)
    BY <1>1 DEF Received, Sent
<1>3. \A a \in N, m \in ToSet(local) : a.role = "assistant" => ~(Number(a) < Number(m))
    <2> SUFFICES ASSUME NEW m \in ToSet(local) PROVE ~(made + 1 < Number(m))
        OBVIOUS
    <2>1. Number(m) \in 1..made /\ made \in Nat
        BY EverywhereParts, NumbersOf, TypesGive
    <2> QED BY <2>1
<1> DEFINE l == local
           R == Received
           V == ToSet(saved)
           X == ToSet(writing)
           S == R \cup ToSet(e.msgs)
           U == ToSet(saved')
           Y == ToSet(writing')
<1>4. U \cup Y = V \cup X \cup N /\ ToSet(e.msgs) \subseteq U \cup Y
    BY DEF Told
<1>5. R \subseteq V \cup X /\ Agents(V) \subseteq ToSet(l) \cup R /\ Agents(X) \subseteq R
    BY <1>1 DEF Kept
<1>6. Agents(U) \subseteq Agents(V) \cup ToSet(e.msgs) /\ Agents(Y) \subseteq Agents(X) \cup ToSet(e.msgs)
    OBVIOUS
<1>7. \A a \in N : a.role = "tool" \/ (a.role = "assistant" /\ \A m \in ToSet(l) : ~(Number(a) < Number(m)))
    BY <1>3
<1>8. Kept(l, R, V, X) /\ S = R \cup ToSet(e.msgs)
    BY <1>1
<1> HIDE DEF l, R, V, X, S, U, Y
<1>9. S \subseteq U \cup Y /\ V \cup X \subseteq U \cup Y
    BY <1>4, <1>5, <1>8
<1>10. Agents(U) \subseteq ToSet(l) \cup S /\ Agents(Y) \subseteq S
    BY <1>5, <1>6, <1>8
<1>11. \A a \in U \cup Y : a \in V \cup X \/ a.role = "tool"
               \/ (a.role = "assistant" /\ \A m \in ToSet(l) : ~(Number(a) < Number(m)))
    BY <1>4, <1>7
<1>12. Kept(l, S, U, Y)
    BY <1>8, <1>9, <1>10, <1>11, KeptMore
<1> QED BY <1>1, <1>2, <1>12 DEF l, S, R, U, Y

LEMMA BeginShows ==
    ASSUME ProtocolInv, TypesInv, DisplayFollows, Begin
    PROVE  DisplayFollows'
<1> DEFINE e == Event("values", saved')
<1>1. /\ run = "begin" /\ writing' = <<>> /\ Send(<<e>>) /\ UNCHANGED <<local, streamed, loading>>
      /\ doubt' \in {doubt, doubt \ {"approval"}}
    BY DEF Begin, Asked, thread
<1>2. e.msgs = saved'
    BY DEF Event
<1> HIDE DEF e
<1>3. Sent(e)
    BY <1>1, StepSends
<1>4. PICK r \in Seq(Text) :
          /\ ToSet(saved') = ToSet(saved) \cup ToSet(r) \cup ToSet(writing)
          /\ \A m \in ToSet(r) : m.role = "tool"
    BY BeginSaves
<1>5. Told' = Told \cup ToSet(r) /\ ToSet(writing') = {} /\ ToSet(e.msgs) = Told'
    BY <1>1, <1>2, <1>4, EntriesOfEmpty DEF Told
<1>6. Agents(ToSet(saved')) \subseteq ToSet(e.msgs) /\ Agents(ToSet(writing')) = {}
    BY <1>2, <1>5 DEF Agents
<1> QED BY <1>1, <1>3, <1>4, <1>5, <1>6, AgentShows

LEMMA AnswerShows ==
    ASSUME ProtocolInv, TypesInv, DisplayFollows, NEW plan \in Plans, Answer(plan)
    PROVE  DisplayFollows'
<1> DEFINE m == Message(<<made + 1, 0>>, "assistant", plan)
           e == Event("messages", <<m>>)
<1>1. /\ run = "model" /\ writing = <<>> /\ writing' = <<m>> /\ Send(<<e>>)
      /\ UNCHANGED <<saved, local, streamed, loading, doubt>>
    BY DEF Answer, thread
<1>2. Number(m) = made + 1 /\ m.role = "assistant"
    BY DEF Message, Number
<1> HIDE DEF m
<1>3. ToSet(e.msgs) = {m}
    BY EntriesOfOne DEF Event
<1> HIDE DEF e
<1>4. Sent(e)
    BY <1>1, StepSends
<1>5. ToSet(writing) = {} /\ ToSet(writing') = {m} /\ Told' = Told \cup {m}
    BY <1>1, EntriesOfEmpty, EntriesOfOne DEF Told
<1>6. Agents(ToSet(saved')) = Agents(ToSet(saved)) /\ Agents(ToSet(writing')) \subseteq ToSet(e.msgs)
    BY <1>1, <1>3, <1>5 DEF Agents
<1>7. ToSet(e.msgs) \subseteq Told'
    BY <1>3, <1>5
<1> DEFINE N == {m}
<1>8. Told' = Told \cup N /\ \A a \in N : a.role = "assistant" /\ Number(a) = made + 1
    BY <1>2, <1>5
<1> HIDE DEF N
<1> QED BY <1>1, <1>4, <1>6, <1>7, <1>8, AgentShows

LEMMA SavesShow ==
    ASSUME ProtocolInv, TypesInv, DisplayFollows, SaveAnswer \/ SaveResults
    PROVE  DisplayFollows'
<1> DEFINE e == Event("values", saved')
<1>1. /\ run \in {"model", "tools"} /\ saved' = saved \o writing /\ writing' = <<>>
      /\ UNCHANGED <<local, streamed, loading, doubt>>
    BY DEF SaveAnswer, SaveResults, thread
<1>2. Sent(e)
    <2>1. CASE SaveAnswer
        BY <2>1, SaveSends
    <2>2. CASE SaveResults
        BY <2>2, StepSends DEF SaveResults
    <2> QED BY <2>1, <2>2
<1>3. e.msgs = saved'
    BY DEF Event
<1> HIDE DEF e
<1>4. ToSet(saved') = Told /\ ToSet(writing') = {} /\ Told' = Told
    BY <1>1, TypesGive, EntriesOfBoth, EntriesOfEmpty DEF Told
<1> DEFINE N == {}
<1>5. Told' = Told \cup N /\ \A a \in N : a.role = "tool"
    BY <1>4
<1> HIDE DEF N
<1>6. Agents(ToSet(saved')) \subseteq ToSet(e.msgs) /\ Agents(ToSet(writing')) = {} /\ ToSet(e.msgs) = Told'
    BY <1>3, <1>4 DEF Agents
<1> QED BY <1>1, <1>2, <1>5, <1>6, AgentShows

\* A result that is written is sent.
LEMMA ResultShows ==
    ASSUME ProtocolInv, TypesInv, DisplayFollows, run # "none", UNCHANGED <<saved, local, streamed, loading>>,
           "messages" \notin doubt' => "messages" \notin doubt,
           NEW c, NEW e, e.msgs = <<ToolResult(c)>>, Sent(e),
           ToSet(writing') = ToSet(writing) \cup {ToolResult(c)}
    PROVE  DisplayFollows'
<1> DEFINE m == ToolResult(c)
<1>1. ToSet(e.msgs) = {m} /\ m.role = "tool"
    BY EntriesOfOne DEF ToolResult, Message
<1>2. Told' = Told \cup {m} /\ ToSet(writing') = ToSet(writing) \cup {m}
    BY DEF Told
<1> HIDE DEF m
<1>3. Agents(ToSet(writing')) \subseteq Agents(ToSet(writing)) \cup ToSet(e.msgs) /\ ToSet(e.msgs) \subseteq Told'
    BY <1>1, <1>2 DEF Agents
<1> DEFINE N == {m}
<1>4. Told' = Told \cup N /\ \A a \in N : a.role = "tool"
    BY <1>1, <1>2
<1> HIDE DEF N
<1> QED BY <1>3, <1>4, AgentShows

LEMMA RunToolShows ==
    ASSUME ProtocolInv, TypesInv, DisplayFollows,
           NEW c \in CallsIn(saved, "execute") \cup CallsIn(saved, "task"), RunTool(c)
    PROVE  DisplayFollows'
<1> DEFINE e == Event("messages", <<ToolResult(c)>>)
<1>1. e.msgs = <<ToolResult(c)>>
    BY DEF Event
<1>2. Send(<<e>>) /\ run = "tools" /\ UNCHANGED <<saved, local, streamed, loading, doubt>>
    BY DEF RunTool, thread
<1> HIDE DEF e
<1>3. Sent(e)
    BY <1>2, StepSends
<1>4. ToSet(writing') = ToSet(writing) \cup {ToolResult(c)}
    BY RunToolWrites
<1> QED BY <1>1, <1>2, <1>3, <1>4, ResultShows

LEMMA ResumeShows ==
    ASSUME ProtocolInv, TypesInv, DisplayFollows, Resume
    PROVE  DisplayFollows'
<1>1. run = "resume" /\ UNCHANGED <<saved, local, streamed, loading>> /\ doubt' \in {doubt, doubt \ {"approval"}}
    BY DEF Resume, Asked, thread
<1>2. wire = <<>> /\ writing = <<>>
    BY <1>1 DEF ProtocolInv, RunStartsQuiet, TypesInv, WritingIs
<1>3. PICK c \in asks :
          \/ writing' = <<>> /\ Send(<<>>)
          \/ writing' = <<ToolResult(c)>> /\ Send(<<Event("messages", <<ToolResult(c)>>)>>)
    BY ResumeWrites
<1>4. CASE writing' = <<>> /\ Send(<<>>)
    <2>1. wire' = <<>>
        BY <1>2, <1>4 DEF Send
    <2>2. UNCHANGED <<wire, writing, Received>>
        BY <1>1, <1>2, <1>4, <2>1 DEF Received
    <2> QED BY <1>1, <2>2 DEF DisplayFollows
<1>5. CASE writing' = <<ToolResult(c)>> /\ Send(<<Event("messages", <<ToolResult(c)>>)>>)
    <2> DEFINE e == Event("messages", <<ToolResult(c)>>)
    <2>1. e.msgs = <<ToolResult(c)>>
        BY DEF Event
    <2>2. Send(<<e>>)
        BY <1>5
    <2> HIDE DEF e
    <2>3. Sent(e)
        BY <2>2, StepSends
    <2>4. ToSet(writing') = ToSet(writing) \cup {ToolResult(c)}
        BY <1>2, <1>5, EntriesOfOne, EntriesOfEmpty
    <2> QED BY <1>1, <2>1, <2>3, <2>4, ResultShows
<1> QED BY <1>3, <1>4, <1>5

LEMMA EndFailShow ==
    ASSUME ProtocolInv, TypesInv, DisplayFollows, End \/ Fail
    PROVE  DisplayFollows'
<1> SUFFICES ASSUME "messages" \notin doubt' PROVE DisplayFollows'
    BY DEF DisplayFollows
<1>1. "messages" \notin doubt /\ run # "none" /\ writing' = writing /\ UNCHANGED <<saved, local, streamed, loading>>
    BY TypesGive DEF End, Fail, thread
<1>2. PICK e : Send(<<e>>) /\ e.msgs = <<>>
    BY DEF End, Fail, Event
<1>3. Sent(e)
    BY <1>2, StepSends
<1> DEFINE N == {}
<1>4. Told' = Told \cup N /\ \A a \in N : a.role = "tool"
    BY <1>1 DEF Told
<1>5. ToSet(e.msgs) = {}
    BY <1>2, EntriesOfEmpty
<1> HIDE DEF N
<1> QED BY <1>1, <1>3, <1>4, <1>5, AgentShows

\* A step in which the client loses nothing of the conversation.
LEMMA ClientShows ==
    ASSUME ProtocolInv, TypesInv, DisplayFollows, UNCHANGED <<saved, writing, local>>,
           "messages" \notin doubt' => "messages" \notin doubt,
           ~loading' => ~loading, run' # run => loading',
           Received' \subseteq Received, \A m \in Told : m.role # "user" /\ m \in Received => m \in Received'
    PROVE  DisplayFollows'
<1> SUFFICES ASSUME "messages" \notin doubt'
             PROVE  (~loading' => run' = "none") /\ Kept(local', Received', ToSet(saved'), ToSet(writing'))
    BY DEF DisplayFollows
<1>1. (~loading => run = "none") /\ Kept(local, Received, ToSet(saved), ToSet(writing))
    BY DEF DisplayFollows
<1>2. ~loading' => run' = "none"
    BY <1>1
<1> DEFINE R == Received
           S == Received'
           V == ToSet(saved)
           X == ToSet(writing)
<1>3. S \subseteq R /\ (\A m \in V \cup X : m.role # "user" /\ m \in R => m \in S) /\ Kept(local, R, V, X)
    BY <1>1 DEF Told
<1> HIDE DEF R, S, V, X
<1>4. Kept(local, S, V, X)
    BY <1>3, KeptSame
<1> QED BY <1>2, <1>4 DEF S, V, X

LEMMA EventsShow ==
    ASSUME ProtocolInv, TypesInv, FlowInv, DisplayFollows, MessageEvent \/ ValuesEvent \/ InterruptEvent
    PROVE  DisplayFollows'
<1>1. /\ wire # <<>> /\ wire' = Tail(wire) /\ UNCHANGED <<saved, writing, run, local, loading>>
      /\ doubt' \in {doubt, doubt \ {"subagents"}}
    BY DEF MessageEvent, ValuesEvent, InterruptEvent, Incoming, server
<1>2. SentOn(wire) = ToSet(Head(wire).msgs) \cup SentOn(wire')
    BY <1>1, WireIsSequence, EventsOfRest
<1>3. /\ ToSet(streamed') \subseteq ToSet(streamed) \cup ToSet(Head(wire).msgs)
      /\ \A m \in Told : m \in ToSet(streamed) \cup ToSet(Head(wire).msgs) /\ m.role # "user" => m \in ToSet(streamed')
    <2>1. CASE MessageEvent
        BY <2>1, MessageBrings
    <2>2. CASE ValuesEvent
        BY <2>2, ValuesBring
    <2>3. CASE InterruptEvent
        BY <2>3, InterruptBrings
    <2> QED BY <2>1, <2>2, <2>3
<1>4. Received' \subseteq Received /\ \A m \in Told : m.role # "user" /\ m \in Received => m \in Received'
    BY <1>2, <1>3 DEF Received
<1> QED BY <1>1, <1>4, ClientShows

\* The stream is over, and nothing was on the wire any more.
LEMMA StreamEndsShow ==
    ASSUME ProtocolInv, TypesInv, FlowInv, DisplayFollows, StreamEnds, UNCHANGED <<saved, streamed>>,
           "messages" \notin doubt' => "messages" \notin doubt /\ run = "none" /\ SentOn(wire) = {}
    PROVE  DisplayFollows'
<1> SUFFICES ASSUME "messages" \notin doubt'
             PROVE  (~loading' => run' = "none") /\ Kept(local', Received', ToSet(saved'), ToSet(writing'))
    BY DEF DisplayFollows
<1>1. run = "none" /\ SentOn(wire) = {} /\ Kept(local, Received, ToSet(saved), ToSet(writing))
    BY DEF DisplayFollows
<1>2. writing = <<>>
    BY <1>1 DEF TypesInv, WritingIs
<1>3. (local' = local \/ local' = AppendAll(local, streamed)) /\ wire' = <<>>
    BY DEF StreamEnds, Open
<1>4. writing' = writing /\ (~loading' => run' = "none")
    BY <1>1, <1>2 DEF StreamEnds, Open
<1>5. Received' = Received
    BY <1>1, <1>3, NoEvents DEF Received
<1>6. Kept(local', Received, ToSet(saved), ToSet(writing))
    BY <1>1, <1>3, DisplayIsKept
<1> QED BY <1>4, <1>5, <1>6

LEMMA DoneShows ==
    ASSUME ProtocolInv, TypesInv, EndComesLast, FlowInv, DisplayFollows, DoneOrError
    PROVE  DisplayFollows'
<1>1. /\ wire # <<>> /\ Head(wire).kind \in {"done", "error"}
      /\ StreamEnds /\ UNCHANGED <<saved, streamed, doubt>>
    BY DEF DoneOrError, Incoming
<1>2. IsSequence(wire) /\ EventsTyped(wire, saved)
    BY TypesGive
<1>3. 1 \in DOMAIN wire /\ Head(wire) = wire[1] /\ DOMAIN wire = 1..Len(wire)
    BY <1>1, <1>2, RestOf DEF IsSequence
<1>4. run = "none" /\ Len(wire) = 1
    BY <1>1, <1>3 DEF EndComesLast
<1>5. Head(wire).msgs = <<>>
    BY <1>1, <1>2, <1>3 DEF EventsTyped, EventTyped
<1>6. SentOn(wire) = {}
    BY <1>3, <1>4, <1>5, EntriesOfEmpty DEF SentOn
<1> QED BY <1>1, <1>4, <1>6, StreamEndsShow

LEMMA StopShows ==
    ASSUME ProtocolInv, TypesInv, FlowInv, DisplayFollows, Stop
    PROVE  DisplayFollows'
<1>1. StreamEnds /\ UNCHANGED <<saved, streamed>>
    BY DEF Stop
<1>2. ASSUME "messages" \notin doubt' PROVE "messages" \notin doubt /\ run = "none" /\ SentOn(wire) = {}
    <2>1. "messages" \notin doubt /\ run = "none" /\ \A i \in DOMAIN wire : wire[i].kind = "done"
        BY <1>2 DEF Stop, Aspects
    <2>2. \A i \in DOMAIN wire : wire[i].msgs = <<>>
        BY <2>1, TypesGive DEF EventsTyped, EventTyped
    <2> QED BY <2>1, <2>2, EntriesOfEmpty DEF SentOn
<1> QED BY <1>1, <1>2, StreamEndsShow

LEMMA SubmitShows ==
    ASSUME ProtocolInv, TypesInv, FlowInv, DisplayFollows, Submit
    PROVE  DisplayFollows'
<1> DEFINE v == Message(<<made + 1, -1>>, "user", <<>>)
           u == Message(<<made + 1, 0>>, "user", <<>>)
<1> SUFFICES ASSUME "messages" \notin doubt'
             PROVE  loading' /\ Kept(local', Received', ToSet(saved'), ToSet(writing'))
    BY DEF DisplayFollows
<1>1. /\ ~loading /\ loading' /\ wire' = <<>> /\ writing' = <<u>> /\ local' = Append(local, v)
      /\ made < MaxMessages /\ UNCHANGED <<saved, streamed>>
      /\ Ids(streamed) \subseteq Ids(local) /\ "messages" \notin doubt
    BY DEF Submit, Open
<1>2. u.role = "user" /\ v.role = "user" /\ Number(u) = made + 1 /\ Number(v) = made + 1
    BY DEF Message, Number
<1>3. v \in Text
    BY <1>1, TypesGive DEF Message, Text, Messages, MessageIds
<1> HIDE DEF u, v
<1>4. run = "none" /\ writing = <<>> /\ wire = <<>> /\ Kept(local, Received, ToSet(saved), ToSet(writing))
    BY <1>1 DEF DisplayFollows, ProtocolInv, ClosedIsQuiet, TypesInv, WritingIs
<1>5. ToSet(writing') = {u} /\ ToSet(writing) = {} /\ Received' = ToSet(streamed) /\ Received = ToSet(streamed)
    BY <1>1, <1>4, EntriesOfOne, EntriesOfEmpty, NoEvents DEF Received
<1>6. ToSet(streamed) \subseteq ToSet(local)
    <2> SUFFICES ASSUME NEW m \in ToSet(streamed) PROVE m \in ToSet(local)
        OBVIOUS
    <2>1. m.id \in Ids(local)
        BY <1>1, IdsOfEntries
    <2>2. PICK n \in ToSet(local) : m.id = n.id
        BY <2>1, IdsOfEntries
    <2>3. m = n
        BY <2>2, EverywhereParts DEF TypesInv, Agreement
    <2> QED BY <2>3
<1>7. local \in Seq(Text) /\ made \in Nat
    BY TypesGive
<1>8. ToSet(local') = ToSet(local) \cup {v}
    BY <1>1, <1>3, <1>7, EntriesOfAppend
<1>9. \A m \in ToSet(local) : Number(m) \in 1..made
    BY EverywhereParts, NumbersOf
<1>10. Increasing(local')
    <2> DEFINE t == <<v>>
    <2>1. t \in Seq(Text) /\ Increasing(t) /\ ToSet(t) = {v} /\ local' = local \o t
        BY <1>1, <1>3, <1>7, IncreasingOne, EntriesOfOne, AppendIsConcat
    <2>2. After(ToSet(local), {v})
        BY <1>2, <1>7, <1>9 DEF After
    <2>3. Increasing(local)
        BY <1>4 DEF Kept
    <2> HIDE DEF t
    <2> QED BY <1>7, <2>1, <2>2, <2>3, IncreasingBoth
<1> DEFINE L == ToSet(local)
           S == ToSet(streamed)
           V == ToSet(saved)
<1>11. /\ Agents(L) \cup S \subseteq V /\ UserNumbers(L) = UserNumbers(V)
       /\ Closed(local, V) /\ Agents(V) \subseteq L
    BY <1>4, <1>5, <1>6 DEF Kept
<1>12. L = ToSet(local)
    OBVIOUS
<1> HIDE DEF L, S, V
<1>13. Closed(local', V \cup {u})
    <2> SUFFICES ASSUME NEW m \in L \cup {v}, NEW a \in V, Talk(m), a.role = "assistant", Number(a) < Number(m)
                 PROVE  a \in L
        BY <1>2, <1>8, <1>12 DEF Closed
    <2>1. CASE m \in L
        BY <1>11, <1>12, <2>1 DEF Closed
    <2>2. CASE m = v
        BY <1>11 DEF Agents
    <2> QED BY <2>1, <2>2
<1>14. UserNumbers(L \cup {v}) = UserNumbers(V \cup {u})
    <2>1. UserNumbers(L \cup {v}) = UserNumbers(L) \cup {Number(v)}
        BY <1>2 DEF UserNumbers
    <2>2. UserNumbers(V \cup {u}) = UserNumbers(V) \cup {Number(u)}
        BY <1>2 DEF UserNumbers
    <2> QED BY <1>2, <1>11, <2>1, <2>2
<1>15. /\ Agents(L \cup {v}) \cup S \subseteq V \cup {u}
       /\ Agents(V) \subseteq (L \cup {v}) \cup S /\ Agents({u}) \subseteq S
    BY <1>2, <1>11 DEF Agents
<1>16. Kept(local', S, V, {u})
    BY <1>8, <1>10, <1>12, <1>13, <1>14, <1>15 DEF Kept
<1> QED BY <1>1, <1>5, <1>16 DEF S, V

LEMMA DecideShows ==
    ASSUME ProtocolInv, TypesInv, DisplayFollows, NEW d \in Decisions, Decide(d)
    PROVE  DisplayFollows'
<1>1. Offered # None /\ UNCHANGED <<saved, streamed, local, doubt>>
    BY DEF Decide, OfferedOnScreen, NeedsApproval, server
<1>2. writing = <<>>
    BY <1>1 DEF ProtocolInv, OneQuestion, TypesInv, WritingIs
<1>3. CASE loading
    <2>1. UNCHANGED <<run, writing, wire, loading>>
        BY <1>3 DEF Decide, server
    <2>2. Received' = Received
        BY <1>1, <2>1 DEF Received
    <2> QED BY <1>1, <2>1, <2>2, ClientShows
<1>4. CASE ~loading
    <2>1. loading' /\ wire' = <<>> /\ writing' = <<>>
        BY <1>4 DEF Decide, Open
    <2>2. wire = <<>>
        BY <1>4 DEF ProtocolInv, ClosedIsQuiet
    <2>3. Received' = Received
        BY <1>1, <2>1, <2>2 DEF Received
    <2> QED BY <1>1, <1>2, <2>1, <2>3, ClientShows
<1> QED BY <1>3, <1>4

LEMMA AsideShows ==
    ASSUME ProtocolInv, TypesInv, DisplayFollows,
           \/ Leave \/ (\E i \in DOMAIN loads : ReadHistory(i) \/ HistoryFails(i)) \/ UNCHANGED vars
    PROVE  DisplayFollows'
<1>1. UNCHANGED <<saved, writing, run, local, streamed, wire, loading, doubt>>
    BY DEF Leave, ReadHistory, HistoryFails, vars, server, stream, thread
<1>2. Received' = Received
    BY <1>1 DEF Received
<1> QED BY <1>1, <1>2 DEF DisplayFollows

LEMMA ReturnShows ==
    ASSUME ProtocolInv, TypesInv, FlowInv, DisplayFollows, Return
    PROVE  DisplayFollows'
<1>1. /\ UNCHANGED <<saved, writing, run, streamed, wire, loading, doubt>>
      /\ local' = local \/ local' = AppendAll(local, streamed)
    BY DEF Return, server, stream
<1>2. Received' = Received
    BY <1>1 DEF Received
<1> QED BY <1>1, <1>2, DisplayIsKept DEF DisplayFollows

\* A complete history is the conversation.
LEMMA CompleteIsKept ==
    ASSUME ProtocolInv, TypesInv, FlowInv, NEW l,
           l = saved \/ (saved = <<>> /\ l = local /\ displayMessages = <<>>),
           Received \subseteq ToSet(saved)
    PROVE  Kept(l, Received, ToSet(saved), {})
<1> DEFINE V == ToSet(saved)
           R == Received
<1>1. R \subseteq V
    OBVIOUS
<1>2. CASE l = saved
    <2>1. Increasing(l) /\ ToSet(l) = V
        BY <1>2 DEF FlowInv, Ordered
    <2> HIDE DEF V, R
    <2>2. Kept(l, R, V, {})
        BY <1>1, <2>1 DEF Kept, Closed, Agents
    <2> QED BY <2>2 DEF V, R
<1>3. CASE saved = <<>> /\ l = local /\ displayMessages = <<>>
    <2>1. V = {} /\ ToSet(displayMessages) = {}
        BY <1>3, EntriesOfEmpty
    <2>2. ToSet(l) = {}
        BY <1>3, <2>1, LocalJoins
    <2>3. Increasing(l)
        BY <2>2, IncreasingTools
    <2> HIDE DEF V, R
    <2>4. Kept(l, R, V, {})
        BY <1>1, <2>1, <2>2, <2>3 DEF Kept, Closed, Agents
    <2> QED BY <2>4 DEF V, R
<1> QED BY <1>2, <1>3

\* A history that lacks none of the user's messages, the client having the rest.
LEMMA HistoryIsKept ==
    ASSUME ProtocolInv, TypesInv, FlowInv, Kept(local, Received, ToSet(saved), ToSet(writing)),
           NEW n, n \in 0..Len(saved),
           \A k \in n + 1..Len(saved) : saved[k].role # "user" /\ saved[k] \in Received,
           \A x \in ToSet(writing) : x.role # "user"
    PROVE  Kept(SubSeq(saved, 1, n), Received, ToSet(saved), ToSet(writing))
<1> DEFINE f == SubSeq(saved, 1, n)
           V == ToSet(saved)
           X == ToSet(writing)
           R == Received
<1>1. saved \in Seq(Text) /\ DOMAIN saved = 1..Len(saved) /\ Len(saved) \in Nat
    BY TypesGive
<1>2. DOMAIN f = 1..n /\ (\A i \in 1..n : f[i] = saved[i]) /\ ToSet(f) \subseteq V
    BY <1>1, EntriesOfFirst
<1>3. Increasing(saved) /\ Increasing(f)
    BY <1>1, IncreasingFirst DEF FlowInv, Ordered
<1>4. R \subseteq V \cup X /\ Agents(X) \subseteq R
    BY DEF Kept
<1>5. ASSUME NEW m \in V, m \notin ToSet(f) PROVE m.role # "user" /\ m \in R
    <2>1. PICK k \in 1..Len(saved) : m = saved[k]
        BY <1>1 DEF ToSet
    <2>2. k \notin 1..n
        BY <1>2, <1>5, <2>1 DEF ToSet
    <2>3. k \in n + 1..Len(saved)
        BY <1>1, <2>2
    <2> QED BY <2>1, <2>3
<1>6. Closed(f, V \cup X)
    <2> SUFFICES ASSUME NEW m \in ToSet(f), NEW a \in V \cup X, Talk(m), a.role = "assistant", Number(a) < Number(m)
                 PROVE  a \in ToSet(f)
        BY DEF Closed
    <2>1. Talk(a) /\ m \in V
        BY <1>2 DEF Talk
    <2>2. Number(a) \in Int /\ Number(m) \in Int
        BY <2>1, NumbersOf, EverywhereParts
    <2>3. a \in V
        <3> SUFFICES ASSUME a \in X PROVE FALSE
            OBVIOUS
        <3>1. Number(m) < Number(a)
            BY <2>1 DEF FlowInv, Ordered, After
        <3> QED BY <2>2, <3>1
    <2> QED BY <1>1, <1>3, <2>1, <2>2, <2>3, EarlierIsFirst
<1>7. \A x \in X : x.role # "user"
    OBVIOUS
<1> HIDE DEF f, V, X, R
<1>8. {x \in ToSet(f) : x.role = "user"} = {x \in V \cup X : x.role = "user"}
    BY <1>2, <1>5, <1>7
<1>9. UserNumbers(ToSet(f)) = UserNumbers(V \cup X)
    BY <1>8 DEF UserNumbers
<1>10. Agents(ToSet(f)) \subseteq V /\ Agents(V) \subseteq ToSet(f) \cup R
    BY <1>2, <1>5 DEF Agents
<1>11. Kept(f, R, V, X)
    BY <1>3, <1>4, <1>6, <1>9, <1>10 DEF Kept
<1> QED BY <1>11 DEF f, V, X, R

LEMMA HistoryShows ==
    ASSUME ProtocolInv, TypesInv, FlowInv, DisplayFollows, NEW i \in DOMAIN loads, HistoryAnswer(i)
    PROVE  DisplayFollows'
<1> DEFINE n == loads[i]
           brought == Ids(streamed) \cup UNION {Ids(wire[k].msgs) : k \in DOMAIN wire}
           missed == {k \in n+1..Len(saved) :
                         saved[k].role = "user" \/ saved[k].id \notin brought}
           complete == /\ n = Len(saved) /\ writing = <<>> /\ (run = "none" \/ loading)
                       /\ brought \subseteq Ids(saved)
                       /\ n > 0 \/ displayMessages = <<>>
<1> SUFFICES ASSUME "messages" \notin doubt'
             PROVE  (~loading' => run' = "none") /\ Kept(local', Received', ToSet(saved'), ToSet(writing'))
    BY DEF DisplayFollows
<1>1. /\ n # -1 /\ local' = IF n > 0 THEN SubSeq(saved, 1, n) ELSE local
      /\ UNCHANGED <<saved, writing, run, streamed, wire, loading>>
      /\ \/ complete
         \/ /\ "messages" \notin doubt
            /\ n > 0 => missed = {} /\ \A k \in DOMAIN writing : writing[k].role # "user"
    BY DEF HistoryAnswer, server, stream
<1>2. Received' = Received
    BY <1>1 DEF Received
<1>3. n \in 0..Len(saved) /\ saved \in Seq(Text) /\ Len(saved) \in Nat
    <2>1. n \in Nat \cup {-1} /\ n <= Len(saved) /\ saved \in Seq(Text)
        BY TypesGive DEF StateTyped
    <2> QED BY <1>1, <2>1
<1>4. \A x : x \in brought <=> \E m \in Received : x = m.id
    <2>1. \A x : (\E k \in DOMAIN wire : x \in Ids(wire[k].msgs)) <=> \E m \in SentOn(wire) : x = m.id
        BY IdsOfEntries DEF SentOn
    <2>2. \A x : x \in Ids(streamed) <=> \E m \in ToSet(streamed) : x = m.id
        BY IdsOfEntries
    <2> QED BY <2>1, <2>2 DEF Received
<1>5. \A m \in Received, x \in ToSet(saved) : m.id = x.id => m = x
    <2>1. Received \subseteq Everywhere /\ ToSet(saved) \subseteq Everywhere
        BY ToldIsEverywhere, EverywhereParts
    <2> QED BY <2>1 DEF TypesInv, Agreement
<1> HIDE DEF brought
<1>6. CASE complete
    <2>1. Received \subseteq ToSet(saved)
        <3> SUFFICES ASSUME NEW m \in Received PROVE m \in ToSet(saved)
            OBVIOUS
        <3>1. m.id \in Ids(saved)
            BY <1>4, <1>6
        <3> QED BY <1>5, <3>1, IdsOfEntries
    <2>2. local' = saved \/ (saved = <<>> /\ local' = local /\ displayMessages = <<>>)
        <3>1. CASE n > 0
            <4>1. SubSeq(saved, 1, Len(saved)) = saved
                BY <1>3
            <4> QED BY <1>1, <1>6, <3>1, <4>1
        <3>2. CASE ~(n > 0)
            <4>1. Len(saved) = 0
                BY <1>3, <1>6, <3>2
            <4>2. saved = <<>>
                BY <1>3, <4>1
            <4> QED BY <1>1, <1>6, <3>2, <4>2
        <3> QED BY <3>1, <3>2
    <2> DEFINE l == local'
    <2>3. l = saved \/ (saved = <<>> /\ l = local /\ displayMessages = <<>>)
        BY <2>2
    <2> HIDE DEF l
    <2>4. Kept(l, Received, ToSet(saved), {})
        BY <2>1, <2>3, CompleteIsKept
    <2>5. writing' = <<>> /\ ToSet(writing') = {} /\ (~loading' => run' = "none")
        BY <1>1, <1>6, EntriesOfEmpty
    <2> QED BY <1>1, <1>2, <2>4, <2>5 DEF l
<1>7. CASE ~complete
    <2>1. "messages" \notin doubt /\ (n > 0 => missed = {} /\ \A k \in DOMAIN writing : writing[k].role # "user")
        BY <1>1, <1>7
    <2>2. (~loading => run = "none") /\ Kept(local, Received, ToSet(saved), ToSet(writing))
        BY <2>1 DEF DisplayFollows
    <2>3. CASE ~(n > 0)
        BY <1>1, <1>2, <2>2, <2>3
    <2>4. CASE n > 0
        <3>1. \A x \in ToSet(writing) : x.role # "user"
            BY <2>1, <2>4 DEF ToSet
        <3>2. ASSUME NEW k \in n + 1..Len(saved) PROVE saved[k].role # "user" /\ saved[k] \in Received
            <4>1. k \notin missed
                BY <2>1, <2>4
            <4>2. saved[k].role # "user" /\ saved[k].id \in brought
                BY <3>2, <4>1
            <4>3. k \in DOMAIN saved
                BY <1>3, <3>2
            <4>4. saved[k] \in ToSet(saved)
                BY <4>3 DEF ToSet
            <4> QED BY <1>4, <1>5, <4>2, <4>4
        <3> HIDE DEF n
        <3>3. Kept(SubSeq(saved, 1, n), Received, ToSet(saved), ToSet(writing))
            BY <1>3, <2>2, <3>1, <3>2, HistoryIsKept
        <3> QED BY <1>1, <1>2, <2>2, <2>4, <3>3
    <2> QED BY <2>3, <2>4
<1> QED BY <1>6, <1>7

LEMMA DisplayInit == Init => DisplayFollows
<1> SUFFICES ASSUME Init PROVE DisplayFollows
    OBVIOUS
<1>1. /\ saved = <<>> /\ run = "none" /\ writing = <<>> /\ wire = <<>> /\ streamed = <<>> /\ local = <<>>
    BY DEF Init
<1>2. ToSet(saved) = {} /\ ToSet(writing) = {} /\ Received = {} /\ ToSet(local) = {}
    BY <1>1, EntriesOfEmpty, NoEvents DEF Received
<1>3. Increasing(local)
    BY <1>2, IncreasingTools
<1>4. Kept(local, {}, {}, {})
    BY <1>2, <1>3 DEF Kept, Closed, Agents
<1> QED BY <1>1, <1>2, <1>4 DEF DisplayFollows

LEMMA DisplayNext ==
    QuestionInv /\ TypesInv /\ FlowInv /\ DisplayFollows /\ [Next]_vars => DisplayFollows'
<1> SUFFICES ASSUME ProtocolInv, EndComesLast, TypesInv, FlowInv, DisplayFollows, [Next]_vars PROVE DisplayFollows'
    BY DEF QuestionInv
<1>1. CASE Reload
    BY <1>1 DEF Reload, DisplayFollows, Aspects
<1> QED BY <1>1, BeginShows, AnswerShows, SavesShow, RunToolShows, ResumeShows, EndFailShow, EventsShow, DoneShows,
           StopShows, SubmitShows, DecideShows, AsideShows, ReturnShows, HistoryShows DEF Next

-----------------------------------------------------------------------------
\* Turns of a conversation: by number, each with its role.
Turn(m) == <<Number(m), m.role>>

Turns(S) == {Turn(m) : m \in {x \in S : Talk(x)}}

Rising(p) == \A i, j \in DOMAIN p : i < j => p[i][1] < p[j][1]

\* A rising sequence of entries of q, with all that come before them in q, is a
\* beginning of q.
LEMMA BeginningOf ==
    ASSUME NEW T, NEW p \in Seq(Int \X T), NEW q \in Seq(Int \X T), Rising(p), Rising(q),
           ToSet(p) \subseteq ToSet(q), \A x \in ToSet(p), y \in ToSet(q) : y[1] < x[1] => y \in ToSet(p)
    PROVE  IsPrefix(p, q) /\ (ToSet(q) \subseteq ToSet(p) => p = q)
<1>1. /\ DOMAIN p = 1..Len(p) /\ Len(p) \in Nat /\ DOMAIN q = 1..Len(q) /\ Len(q) \in Nat
      /\ \A i \in 1..Len(p) : p[i][1] \in Int
      /\ \A i \in 1..Len(q) : q[i][1] \in Int
    <2>1. /\ DOMAIN p = 1..Len(p) /\ Len(p) \in Nat /\ DOMAIN q = 1..Len(q) /\ Len(q) \in Nat
          /\ \A i \in 1..Len(p) : p[i] \in Int \X T
          /\ \A i \in 1..Len(q) : q[i] \in Int \X T
        OBVIOUS
    <2> QED BY <2>1
<1>0. Len(p) \in Nat /\ Len(q) \in Nat
    OBVIOUS
<1> DEFINE B == {k \in 0..Len(p) : k <= Len(q) /\ \A i \in 1..k : p[i] = q[i]}
<1>2. 0 \in B
    BY <1>1
<1>3. ASSUME NEW k \in 1..Len(p), k - 1 \in B PROVE k \in B
    <2>1. k - 1 <= Len(q) /\ \A i \in 1..k - 1 : p[i] = q[i]
        BY <1>3
    <2>2. PICK j \in 1..Len(q) : p[k] = q[j]
        BY <1>1 DEF ToSet
    <2>3. ~(j < k)
        <3> SUFFICES ASSUME j < k PROVE FALSE
            OBVIOUS
        <3>1. p[j] = p[k] /\ j \in DOMAIN p /\ k \in DOMAIN p
            BY <1>1, <2>1, <2>2
        <3>2. p[j][1] < p[k][1]
            BY <3>1 DEF Rising
        <3> QED BY <1>1, <3>1, <3>2
    <2>4. k <= Len(q)
        BY <1>1, <2>2, <2>3
    <2>5. CASE j = k
        <3>1. \A i \in 1..k : i \in 1..k - 1 \/ i = k
            OBVIOUS
        <3>2. \A i \in 1..k : p[i] = q[i]
            BY <2>1, <2>2, <2>5, <3>1
        <3> QED BY <1>0, <2>4, <3>2
    <2>6. CASE k < j
        <3>1. k \in DOMAIN q /\ j \in DOMAIN q /\ k \in DOMAIN p
            BY <1>1, <2>4
        <3>2. q[k][1] < p[k][1]
            BY <2>2, <2>6, <3>1 DEF Rising
        <3>3. q[k] \in ToSet(q) /\ p[k] \in ToSet(p)
            BY <3>1 DEF ToSet
        <3>4. PICK i \in 1..Len(p) : q[k] = p[i]
            BY <1>1, <3>2, <3>3 DEF ToSet
        <3>5. ~(k < i) /\ i # k
            <4>1. k < i => p[k][1] < p[i][1]
                BY <1>1 DEF Rising
            <4>2. p[k][1] \in Int /\ p[i][1] \in Int /\ p[i][1] < p[k][1]
                BY <1>1, <3>2, <3>4
            <4> QED BY <4>1, <4>2
        <3>6. i \in 1..k - 1
            BY <1>1, <3>5
        <3>7. q[i] = q[k] /\ i < k /\ i \in DOMAIN q
            BY <1>1, <2>1, <3>1, <3>4, <3>6
        <3>8. q[i][1] < q[k][1]
            BY <3>1, <3>7 DEF Rising
        <3>9. q[k][1] \in Int
            BY <1>1, <3>1
        <3> QED BY <3>7, <3>8, <3>9
    <2> QED BY <1>1, <2>2, <2>3, <2>5, <2>6
<1> HIDE DEF B
<1>4. 0..Len(p) \subseteq B
    BY <1>1, <1>2, <1>3, Upwards
<1>5. Len(p) \in B
    BY <1>1, <1>4
<1>6. Len(p) <= Len(q) /\ \A i \in 1..Len(p) : p[i] = q[i]
    BY <1>5 DEF B
<1>7. SubSeq(p, 1, Len(p)) = SubSeq(q, 1, Len(p))
    <2> DEFINE a == SubSeq(p, 1, Len(p))
               b == SubSeq(q, 1, Len(p))
               U == Int \X T
    <2>0. p \in Seq(U) /\ q \in Seq(U) /\ Len(p) \in 0..Len(p) /\ Len(p) \in 0..Len(q)
        BY <1>1, <1>6
    <2> HIDE DEF U
    <2>1. a \in Seq(U) /\ Len(a) = Len(p) /\ \A i \in 1..Len(p) : a[i] = p[i]
        BY <2>0, EntriesOfFirst
    <2>2. b \in Seq(U) /\ Len(b) = Len(p) /\ \A i \in 1..Len(p) : b[i] = q[i]
        BY <2>0, EntriesOfFirst
    <2> HIDE DEF a, b
    <2>3. Len(a) = Len(b) /\ \A i \in 1..Len(a) : a[i] = b[i]
        BY <1>6, <2>1, <2>2
    <2>4. a = b
        BY <2>1, <2>2, <2>3, SeqEqual
    <2> QED BY <2>4 DEF a, b
<1>8. IsPrefix(p, q)
    BY <1>6, <1>7 DEF IsPrefix
<1>9. ASSUME ToSet(q) \subseteq ToSet(p) PROVE p = q
    <2>1. Len(q) <= Len(p)
        <3> SUFFICES ASSUME Len(p) < Len(q) PROVE FALSE
            BY <1>1
        <3>1. Len(q) \in DOMAIN q
            BY <1>1
        <3>2. q[Len(q)] \in ToSet(p)
            BY <1>9, <3>1 DEF ToSet
        <3>3. PICK i \in 1..Len(p) : q[Len(q)] = p[i]
            BY <1>1, <3>2 DEF ToSet
        <3>4. i < Len(q) /\ i \in DOMAIN q /\ q[i] = q[Len(q)]
            BY <1>1, <1>6, <3>3
        <3>5. q[i][1] < q[Len(q)][1]
            BY <3>1, <3>4 DEF Rising
        <3>6. q[i][1] \in Int
            BY <1>1, <3>4
        <3> QED BY <3>4, <3>5, <3>6
    <2>2. Len(p) = Len(q)
        BY <1>0, <1>6, <2>1
    <2> DEFINE U == Int \X T
    <2>3. p \in Seq(U) /\ q \in Seq(U)
        OBVIOUS
    <2> HIDE DEF U
    <2> QED BY <1>6, <2>2, <2>3
<1> QED BY <1>8, <1>9

\* What is seen of increasing messages: their turns.
LEMMA SeenIs ==
    ASSUME NEW s \in Seq(Text), Increasing(s)
    PROVE  /\ Seen(s) \in Seq(Int \X {"user", "assistant", "tool"}) /\ Rising(Seen(s))
           /\ ToSet(Seen(s)) = Turns(ToSet(s))
<1> DEFINE S == {m \in ToSet(s) : m.role # "tool"}
           k == Keeping(s, S)
           p == [i \in DOMAIN k |-> <<k[i].id[1], k[i].role>>]
<1>1. Seen(s) = p
    BY DEF Seen
<1>2. k \in Seq(Text) /\ ToSet(k) = ToSet(s) \cap S /\ Increasing(k)
    BY EntriesKept, IncreasingKept
<1>3. S \subseteq ToSet(s) /\ \A m \in S : Talk(m)
    BY DEF Talk
<1>4. \A m \in ToSet(s) : Talk(m) => m \in S
    BY DEF Talk
<1> HIDE DEF k, S
<1>5. DOMAIN k = 1..Len(k) /\ Len(k) \in Nat /\ DOMAIN p = DOMAIN k /\ \A i \in DOMAIN k : p[i] = Turn(k[i])
    BY <1>2 DEF Turn, Number
<1>6. ASSUME NEW i \in DOMAIN k
      PROVE  k[i] \in S /\ Talk(k[i]) /\ p[i] \in Int \X {"user", "assistant", "tool"} /\ p[i][1] = Number(k[i])
    <2>1. k[i] \in Text /\ k[i] \in ToSet(k)
        BY <1>2, <1>5 DEF ToSet
    <2>2. k[i] \in S /\ Talk(k[i])
        BY <1>2, <1>3, <2>1
    <2>3. Number(k[i]) \in Int /\ k[i].role \in {"user", "assistant", "tool"}
        BY <2>1 DEF Text, Messages, MessageIds, Number
    <2>4. p[i] = <<Number(k[i]), k[i].role>>
        BY <1>5 DEF Turn
    <2> QED BY <2>2, <2>3, <2>4
<1> HIDE DEF p
<1>7. p \in Seq(Int \X {"user", "assistant", "tool"})
    <2>1. p = [i \in 1..Len(k) |-> p[i]]
        BY <1>5 DEF p
    <2> QED BY <1>5, <1>6, <2>1
<1>8. Rising(p)
    <2> SUFFICES ASSUME NEW i \in DOMAIN k, NEW j \in DOMAIN k, i < j PROVE Number(k[i]) < Number(k[j])
        BY <1>5, <1>6 DEF Rising
    <2> QED BY <1>2, <1>6 DEF Increasing
<1>9. ToSet(p) \subseteq Turns(ToSet(s))
    BY <1>3, <1>5, <1>6 DEF ToSet, Turns
<1>10. Turns(ToSet(s)) \subseteq ToSet(p)
    <2> SUFFICES ASSUME NEW m \in ToSet(s), Talk(m) PROVE Turn(m) \in ToSet(p)
        BY DEF Turns
    <2>1. m \in ToSet(k)
        BY <1>2, <1>4
    <2>2. PICK i \in DOMAIN k : m = k[i]
        BY <2>1 DEF ToSet
    <2> QED BY <1>5, <2>2 DEF ToSet
<1> QED BY <1>1, <1>7, <1>8, <1>9, <1>10

-----------------------------------------------------------------------------
\* The calls that have a result.
Finished(S) == {m.id : m \in {x \in S : x.role = "tool"}}

\* The events w will complete the subagents in P that have a result.
NoneForgotten(P, w, V) == \A c \in Finished(V) : <<c, "running">> \in P => HasValues(w)

\* A task that has its result is not started without saved messages behind.
StartsAreOld(w, V) ==
    \A i \in DOMAIN w : w[i].kind = "messages" /\ CallsOf(Head(w[i].msgs), "task") \cap Finished(V) # {} =>
        \E k \in DOMAIN w : i < k /\ w[k].kind = "values"

\* The event starts no task that has its result.
StartsNew(e, V) == e.kind = "messages" => CallsOf(Head(e.msgs), "task") \cap Finished(V) = {}

\* Subagents belong to calls of task.
TasksOnly == \A p \in active \cup subagents, m \in Told : p[1] \notin CallsOf(m, "execute")

\* A subagent that has its result is shown as completed, or saved messages that
\* will complete it are on their way.
SubagentInv ==
    /\ TasksOnly
    /\ Finished(Told) \subseteq CalledIn(saved)
    /\ loading => NoneForgotten(active, wire, ToSet(saved))
    /\ "subagents" \notin doubt => (~loading => run = "none") /\ NoneForgotten(subagents, wire, ToSet(saved))
    /\ StartsAreOld(wire, ToSet(saved))

LEMMA ResultsAreFinished == \A s : Results(s) = Finished(ToSet(s))
BY DEF Results, Finished, ToSet

LEMMA NoCallsIn ==
    ASSUME NEW m, m.calls = <<>>, NEW name
    PROVE  CallsOf(m, name) = {}
BY Empty DEF CallsOf

LEMMA GrownStarts ==
    ASSUME NEW w, NEW z, NEW n, NEW e, Grown(w, z, n, e), NEW V, NEW U,
           \/ e.kind = "values"
           \/ U = V /\ StartsAreOld(w, V) /\ StartsNew(e, V)
    PROVE  /\ StartsAreOld(z, U)
           /\ HasValues(z) \/ (U = V /\ ~HasValues(w))
<1>1. /\ n \in Nat \ {0} /\ DOMAIN w = 1..n - 1 /\ n \in DOMAIN z /\ z[n] = e
      /\ \A i \in 1..n - 1 : i \in DOMAIN z /\ z[i] = w[i]
      /\ \A i \in DOMAIN z : i \in 1..n - 1 \/ i = n \/ z[i].kind = "interrupt"
    BY DEF Grown, Event
<1>2. StartsAreOld(z, U)
    <2> SUFFICES ASSUME NEW i \in DOMAIN z, z[i].kind = "messages",
                        CallsOf(Head(z[i].msgs), "task") \cap Finished(U) # {}
                 PROVE  \E k \in DOMAIN z : i < k /\ z[k].kind = "values"
        BY DEF StartsAreOld
    <2>1. CASE i \in 1..n - 1 /\ e.kind = "values"
        <3>1. i < n
            BY <1>1, <2>1
        <3> QED BY <1>1, <2>1, <3>1
    <2>2. CASE i \in 1..n - 1 /\ e.kind # "values"
        <3>1. i \in DOMAIN w /\ w[i] = z[i]
            BY <1>1, <2>2
        <3>2. PICK k \in DOMAIN w : i < k /\ w[k].kind = "values"
            BY <2>2, <3>1 DEF StartsAreOld
        <3> QED BY <1>1, <3>2
    <2>3. CASE i = n
        BY <1>1, <2>3 DEF StartsNew
    <2> QED BY <1>1, <2>1, <2>2, <2>3
<1>3. e.kind = "values" => HasValues(z)
    BY <1>1 DEF HasValues
<1>4. HasValues(w) => HasValues(z)
    BY <1>1 DEF HasValues
<1> QED BY <1>2, <1>3, <1>4

\* A step of the agent.
LEMMA AgentKeepsSubagents ==
    ASSUME ProtocolInv, TypesInv, SubagentInv, run # "none", UNCHANGED <<active, subagents, loading>>,
           "subagents" \notin doubt' => "subagents" \notin doubt,
           NEW e, loading => \E n : Grown(wire, wire', n, e), ~loading => DOMAIN wire' = {},
           (e.kind = "values") \/ (saved' = saved /\ StartsNew(e, ToSet(saved))),
           TasksOnly', Finished(Told') \subseteq CalledIn(saved')
    PROVE  SubagentInv'
<1> DEFINE V == ToSet(saved)
           U == ToSet(saved')
           z == wire'
<1>1. CASE ~loading
    <2>1. StartsAreOld(z, U)
        BY <1>1 DEF StartsAreOld
    <2>2. ~loading' /\ "subagents" \in doubt'
        BY <1>1 DEF SubagentInv
    <2> QED BY <2>1, <2>2 DEF SubagentInv
<1>2. CASE loading
    <2>1. PICK n : Grown(wire, z, n, e)
        BY <1>2
    <2>2. e.kind = "values" \/ (U = V /\ StartsAreOld(wire, V) /\ StartsNew(e, V))
        BY DEF SubagentInv
    <2>3. /\ NoneForgotten(active, wire, V)
          /\ "subagents" \notin doubt => NoneForgotten(subagents, wire, V)
        BY <1>2 DEF SubagentInv
    <2>4. loading' /\ UNCHANGED <<active, subagents>>
        BY <1>2
    <2> HIDE DEF z, U, V
    <2>5. StartsAreOld(z, U) /\ (HasValues(z) \/ (U = V /\ ~HasValues(wire)))
        BY <2>1, <2>2, GrownStarts
    <2>6. /\ NoneForgotten(active, z, U)
          /\ "subagents" \notin doubt => NoneForgotten(subagents, z, U)
        BY <2>3, <2>5 DEF NoneForgotten
    <2> QED BY <2>4, <2>5, <2>6 DEF SubagentInv, z, U
<1>3. loading \in BOOLEAN
    BY DEF ProtocolInv, ProtocolTypes
<1> QED BY <1>1, <1>2, <1>3

\* What a step of the agent does to the wire.
LEMMA StepGrows ==
    ASSUME ProtocolInv, NEW e, Send(<<e>>)
    PROVE  (loading => \E n : Grown(wire, wire', n, e)) /\ (~loading => DOMAIN wire' = {})
BY AgentSends

\* New results leave the calls of the conversation as they are.
LEMMA ResultsKeepTasks ==
    ASSUME TasksOnly, UNCHANGED <<active, subagents>>, NEW N, Told' \subseteq Told \cup N, \A m \in N : m.calls = <<>>
    PROVE  TasksOnly'
BY NoCallsIn DEF TasksOnly

LEMMA BeginSubagents ==
    ASSUME ProtocolInv, TypesInv, SubagentInv, Begin
    PROVE  SubagentInv'
<1> DEFINE e == Event("values", saved')
<1>1. /\ run # "none" /\ run = "begin" /\ writing' = <<>> /\ Send(<<e>>) /\ UNCHANGED <<active, subagents, loading>>
      /\ doubt' \in {doubt, doubt \ {"approval"}}
    BY DEF Begin, Asked, thread
<1>2. e.kind = "values"
    BY DEF Event
<1> HIDE DEF e
<1>3. (loading => \E n : Grown(wire, wire', n, e)) /\ (~loading => DOMAIN wire' = {})
    BY <1>1, StepGrows
<1>4. PICK r \in Seq(Text) :
          /\ ToSet(saved') = ToSet(saved) \cup ToSet(r) \cup ToSet(writing)
          /\ ToSet(r) \subseteq Written(made)
          /\ \A m \in ToSet(r) : m.role = "tool" /\ m.id \in Unanswered(saved)
    BY BeginSaves
<1>5. Told' = Told \cup ToSet(r)
    BY <1>1, <1>4, EntriesOfEmpty DEF Told
<1>6. TasksOnly'
    <2>1. \A m \in ToSet(r) : m.calls = <<>>
        <3>1. \A m \in ToSet(r) : m = ToolResult(m.id)
            BY <1>4, TypesGive, WrittenIs
        <3> QED BY <3>1 DEF ToolResult, Message
    <2> QED BY <1>1, <1>5, <2>1, ResultsKeepTasks DEF SubagentInv
<1>7. Finished(Told') \subseteq CalledIn(saved')
    <2>1. CalledIn(saved) \subseteq CalledIn(saved')
        BY <1>4, CallsInMore DEF CalledIn
    <2>2. Finished(Told') \subseteq Finished(Told) \cup Unanswered(saved)
        BY <1>4, <1>5 DEF Finished
    <2> QED BY <2>1, <2>2 DEF SubagentInv, Unanswered, CalledIn
<1> QED BY <1>1, <1>2, <1>3, <1>6, <1>7, AgentKeepsSubagents

LEMMA AnswerSubagents ==
    ASSUME ProtocolInv, TypesInv, SubagentInv, NEW plan \in Plans, Answer(plan)
    PROVE  SubagentInv'
<1> DEFINE m == Message(<<made + 1, 0>>, "assistant", plan)
           e == Event("messages", <<m>>)
<1>1. /\ run # "none" /\ writing = <<>> /\ writing' = <<m>> /\ Send(<<e>>)
      /\ UNCHANGED <<saved, active, subagents, loading, doubt>>
    BY DEF Answer, thread
<1>2. m.id[1] = made + 1 /\ m.role = "assistant"
    BY DEF Message
<1> HIDE DEF m
<1>3. Head(e.msgs) = m
    BY Singleton DEF Event
<1> HIDE DEF e
<1>4. (loading => \E n : Grown(wire, wire', n, e)) /\ (~loading => DOMAIN wire' = {})
    BY <1>1, StepGrows
<1>5. Told' = Told \cup {m}
    BY <1>1, EntriesOfEmpty, EntriesOfOne DEF Told
<1>6. \A name : \A c \in CallsOf(m, name) : c[1] = made + 1
    BY <1>2 DEF CallsOf
<1>7. made \in Nat
    BY TypesGive
<1>8. TasksOnly'
    <2>1. \A p \in active \cup subagents : p[1] \notin CallsOf(m, "execute")
        <3> SUFFICES ASSUME NEW p \in active \cup subagents PROVE p[1] \notin CallsOf(m, "execute")
            OBVIOUS
        <3>1. p \in ((1..made) \X Int) \X {"running", "completed"}
            BY TypesGive DEF StateTyped
        <3>2. p[1][1] \in 1..made
            BY <3>1
        <3> QED BY <1>6, <1>7, <3>2
    <2> QED BY <1>1, <1>5, <2>1 DEF TasksOnly, SubagentInv
<1>9. StartsNew(e, ToSet(saved))
    <2> SUFFICES ASSUME NEW x \in ToSet(saved), x.id \in CallsOf(m, "task") PROVE FALSE
        BY <1>3 DEF Finished, StartsNew
    <2>1. Number(x) \in 1..made
        BY EverywhereParts, NumbersOf
    <2> QED BY <1>6, <1>7, <2>1 DEF Number
<1>10. Finished(Told') \subseteq CalledIn(saved')
    BY <1>1, <1>2, <1>5 DEF SubagentInv, Finished
<1> QED BY <1>1, <1>4, <1>8, <1>9, <1>10, AgentKeepsSubagents

LEMMA SavesSubagents ==
    ASSUME ProtocolInv, TypesInv, SubagentInv, SaveAnswer \/ SaveResults
    PROVE  SubagentInv'
<1> DEFINE e == Event("values", saved')
<1>1. /\ run # "none" /\ saved' = saved \o writing /\ writing' = <<>>
      /\ UNCHANGED <<active, subagents, loading, doubt>>
    BY DEF SaveAnswer, SaveResults, thread
<1>2. (loading => \E n : Grown(wire, wire', n, e)) /\ (~loading => DOMAIN wire' = {})
    <2>1. CASE SaveAnswer
        <3>1. loading => \E n : Grown(wire, wire', n, e)
            BY <2>1, GrownBySave
        <3>2. ~loading => wire' = <<>>
            BY <2>1 DEF SaveAnswer, Send, ProtocolInv, ClosedIsQuiet
        <3> QED BY <3>1, <3>2, Empty
    <2>2. CASE SaveResults
        <3>1. Send(<<e>>)
            BY <2>2 DEF SaveResults
        <3> HIDE DEF e
        <3> QED BY <3>1, StepGrows
    <2> QED BY <2>1, <2>2
<1>3. e.kind = "values"
    BY DEF Event
<1> HIDE DEF e
<1>4. Told' = Told /\ ToSet(saved') = Told
    BY <1>1, TypesGive, EntriesOfBoth, EntriesOfEmpty DEF Told
<1>5. TasksOnly'
    BY <1>1, <1>4 DEF TasksOnly, SubagentInv
<1>6. Finished(Told') \subseteq CalledIn(saved')
    <2>1. CalledIn(saved) \subseteq CalledIn(saved')
        BY <1>4, CallsInMore DEF CalledIn, Told
    <2> QED BY <1>4, <2>1 DEF SubagentInv
<1> QED BY <1>1, <1>2, <1>3, <1>5, <1>6, AgentKeepsSubagents

\* A step that writes at most the result of a saved call.
LEMMA ResultSubagents ==
    ASSUME ProtocolInv, TypesInv, SubagentInv, run # "none", UNCHANGED <<saved, active, subagents, loading>>,
           "subagents" \notin doubt' => "subagents" \notin doubt,
           NEW c, c \in CalledIn(saved), NEW e, Send(<<e>>),
           e.msgs = <<ToolResult(c)>> \/ e.kind # "messages", e.kind # "values",
           ToSet(writing') \subseteq ToSet(writing) \cup {ToolResult(c)}
    PROVE  SubagentInv'
<1> DEFINE m == ToolResult(c)
           N == {m}
<1>1. m.calls = <<>> /\ m.role = "tool" /\ m.id = c
    BY DEF ToolResult, Message
<1>2. Told' \subseteq Told \cup N /\ Head(<<m>>) = m
    BY Singleton DEF Told
<1>3. \A x \in N : x = m
    OBVIOUS
<1> HIDE DEF N, m
<1>4. TasksOnly'
    BY <1>1, <1>2, <1>3, ResultsKeepTasks DEF SubagentInv
<1>5. Finished(Told') \subseteq CalledIn(saved')
    BY <1>1, <1>2, <1>3 DEF SubagentInv, Finished
<1>6. StartsNew(e, ToSet(saved))
    BY <1>1, <1>2, NoCallsIn DEF m, StartsNew
<1> QED BY <1>4, <1>5, <1>6, StepGrows, AgentKeepsSubagents

\* A tool ends, a run resumes, ends or fails.
LEMMA RunToolSubagents ==
    ASSUME ProtocolInv, TypesInv, SubagentInv,
           NEW c \in CallsIn(saved, "execute") \cup CallsIn(saved, "task"), RunTool(c)
    PROVE  SubagentInv'
<1> DEFINE e == Event("messages", <<ToolResult(c)>>)
<1>1. /\ run # "none" /\ Send(<<e>>) /\ UNCHANGED <<saved, active, subagents, loading, doubt>>
    BY DEF RunTool, thread
<1>2. c \in CalledIn(saved)
    BY DEF CalledIn
<1>3. ToSet(writing') \subseteq ToSet(writing) \cup {ToolResult(c)}
    BY RunToolWrites
<1>4. e.msgs = <<ToolResult(c)>> /\ e.kind = "messages"
    BY DEF Event
<1> HIDE DEF e
<1> QED BY <1>1, <1>2, <1>3, <1>4, ResultSubagents

\* A step that changes nothing the subagents depend on, or cuts the stream off.
LEMMA SubagentsStay ==
    ASSUME SubagentInv, UNCHANGED <<saved, writing, wire, active, subagents, loading, run>>,
           "subagents" \notin doubt' => "subagents" \notin doubt
    PROVE  SubagentInv'
BY DEF SubagentInv, TasksOnly, Told

LEMMA CutSubagents ==
    ASSUME SubagentInv, UNCHANGED saved, wire' = <<>>, subagents' \subseteq subagents, active' \subseteq active,
           NEW N, ToSet(writing') \subseteq ToSet(writing) \cup N,
           \A m \in N : m.calls = <<>> /\ m.role # "tool",
           ~loading' \/ active' = {},
           "subagents" \notin doubt' =>
               "subagents" \notin doubt /\ ~HasValues(wire) /\ (~loading' => run' = "none")
    PROVE  SubagentInv'
<1>1. Told' \subseteq Told \cup N
    BY DEF Told
<1>2. TasksOnly'
    BY <1>1, NoCallsIn DEF TasksOnly, SubagentInv
<1>3. Finished(Told') \subseteq CalledIn(saved')
    BY <1>1 DEF SubagentInv, Finished
<1>4. StartsAreOld(wire', ToSet(saved'))
    BY Empty DEF StartsAreOld
<1>5. loading' => NoneForgotten(active', wire', ToSet(saved'))
    BY DEF NoneForgotten
<1>6. "subagents" \notin doubt' => NoneForgotten(subagents', wire', ToSet(saved'))
    BY DEF NoneForgotten, SubagentInv
<1> QED BY <1>2, <1>3, <1>4, <1>5, <1>6 DEF SubagentInv

LEMMA ResumeSubagents ==
    ASSUME ProtocolInv, TypesInv, SubagentInv, Resume
    PROVE  SubagentInv'
<1>1. /\ run = "resume" /\ run # "none" /\ UNCHANGED <<saved, active, subagents, loading>>
      /\ doubt' \in {doubt, doubt \ {"approval"}} /\ wire = <<>> /\ writing = <<>> /\ run' # "none"
    BY DEF Resume, Asked, thread, ProtocolInv, RunStartsQuiet, TypesInv, WritingIs
<1>2. PICK c \in asks :
          /\ ToolResult(c).role = "tool"
          /\ \/ writing' = <<>> /\ Send(<<>>)
             \/ writing' = <<ToolResult(c)>> /\ Send(<<Event("messages", <<ToolResult(c)>>)>>)
    BY ResumeWrites
<1>3. c \in CalledIn(saved)
    BY <1>2, TypesGive DEF StateTyped, CalledIn
<1>4. CASE writing' = <<>> /\ Send(<<>>)
    <2>1. wire' = wire
        BY <1>1, <1>4, Empty, Concatenation DEF Send
    <2> QED BY <1>1, <1>4, <2>1 DEF SubagentInv, TasksOnly, Told
<1>5. CASE writing' = <<ToolResult(c)>> /\ Send(<<Event("messages", <<ToolResult(c)>>)>>)
    <2> DEFINE e == Event("messages", <<ToolResult(c)>>)
    <2>1. e.msgs = <<ToolResult(c)>> /\ e.kind = "messages" /\ Send(<<e>>)
        BY <1>5 DEF Event
    <2>2. ToSet(writing') \subseteq ToSet(writing) \cup {ToolResult(c)}
        BY <1>5, EntriesOfOne
    <2> HIDE DEF e
    <2> QED BY <1>1, <1>3, <2>1, <2>2, ResultSubagents
<1> QED BY <1>2, <1>4, <1>5

LEMMA EndFailSubagents ==
    ASSUME ProtocolInv, TypesInv, SubagentInv, End \/ Fail
    PROVE  SubagentInv'
<1>1. /\ run # "none" /\ UNCHANGED <<saved, active, subagents, loading>>
      /\ (writing' = writing \/ writing' = <<>>) /\ doubt \subseteq doubt'
      /\ \E k \in {"done", "error"} : Send(<<Event(k, <<>>)>>)
    BY DEF End, Fail, thread
<1>2. PICK k \in {"done", "error"} : Send(<<Event(k, <<>>)>>)
    BY <1>1
<1> DEFINE e == Event(k, <<>>)
<1>3. e.kind \in {"done", "error"} /\ Send(<<e>>)
    BY <1>2 DEF Event
<1> HIDE DEF e
<1>4. StartsNew(e, ToSet(saved))
    BY <1>3 DEF StartsNew
<1>5. Told' \subseteq Told
    BY <1>1, EntriesOfEmpty DEF Told
<1>6. TasksOnly' /\ Finished(Told') \subseteq CalledIn(saved')
    BY <1>1, <1>5 DEF TasksOnly, Finished, SubagentInv
<1> QED BY <1>1, <1>3, <1>4, <1>6, StepGrows, AgentKeepsSubagents

\* The first event is processed.
LEMMA FirstStarts ==
    ASSUME NEW w, NEW z, Shrunk(w, z), NEW V, StartsAreOld(w, V)
    PROVE  /\ StartsAreOld(z, V)
           /\ HasValues(w) /\ w[1].kind # "values" => HasValues(z)
           /\ w[1].kind = "messages" /\ CallsOf(Head(w[1].msgs), "task") \cap Finished(V) # {} => HasValues(z)
<1>1. /\ 1 \in DOMAIN w
      /\ \A i \in DOMAIN z : i \in Nat \ {0} /\ i + 1 \in DOMAIN w /\ z[i] = w[i + 1]
      /\ \A i \in DOMAIN w : i \in Nat \ {0} /\ (i = 1 \/ (i - 1 \in DOMAIN z /\ z[i - 1] = w[i]))
    BY DEF Shrunk
<1>2. StartsAreOld(z, V)
    <2> SUFFICES ASSUME NEW i \in DOMAIN z, z[i].kind = "messages",
                        CallsOf(Head(z[i].msgs), "task") \cap Finished(V) # {}
                 PROVE  \E k \in DOMAIN z : i < k /\ z[k].kind = "values"
        BY DEF StartsAreOld
    <2>1. i \in Nat \ {0} /\ i + 1 \in DOMAIN w /\ z[i] = w[i + 1]
        BY <1>1
    <2> DEFINE j == i + 1
    <2>2. j \in DOMAIN w /\ w[j].kind = "messages" /\ CallsOf(Head(w[j].msgs), "task") \cap Finished(V) # {}
        BY <2>1
    <2> HIDE DEF j
    <2>3. PICK k \in DOMAIN w : j < k /\ w[k].kind = "values"
        BY <2>2 DEF StartsAreOld
    <2>4. k \in Nat \ {0} /\ k # 1 /\ i < k - 1
        BY <1>1, <2>1, <2>3 DEF j
    <2>5. k - 1 \in DOMAIN z /\ z[k - 1] = w[k]
        BY <1>1, <2>4
    <2> QED BY <2>3, <2>4, <2>5
<1>3. \A k \in DOMAIN w : k # 1 /\ w[k].kind = "values" => HasValues(z)
    BY <1>1 DEF HasValues
<1>4. HasValues(w) /\ w[1].kind # "values" => HasValues(z)
    BY <1>3 DEF HasValues
<1>5. w[1].kind = "messages" /\ CallsOf(Head(w[1].msgs), "task") \cap Finished(V) # {} => HasValues(z)
    <2> SUFFICES ASSUME w[1].kind = "messages", CallsOf(Head(w[1].msgs), "task") \cap Finished(V) # {}
                 PROVE  HasValues(z)
        OBVIOUS
    <2>1. PICK k \in DOMAIN w : 1 < k /\ w[k].kind = "values"
        BY <1>1 DEF StartsAreOld
    <2> QED BY <1>1, <1>3, <2>1
<1> QED BY <1>2, <1>4, <1>5

\* A call of task is not one of execute.
LEMMA TasksAreNoQuestions ==
    ASSUME ProtocolInv, TypesInv, NEW m, NEW x, m \in Everywhere, x \in Everywhere,
           NEW c, c \in CallsOf(m, "task"), c \in CallsOf(x, "execute")
    PROVE  FALSE
<1>1. /\ \A name : CallsOf(m, name) # {} => m.role = "assistant"
      /\ \A name : CallsOf(x, name) # {} => x.role = "assistant"
    BY TypesGive, CallsOfWritten
<1>2. m.role = "assistant" /\ x.role = "assistant"
    BY <1>1
<1>3. c[1] = Number(m) /\ c[1] = Number(x)
    BY DEF CallsOf, Number
<1>4. m = x
    BY <1>2, <1>3, AnswersAreApart
<1>5. m.calls[c[2]] = "task" /\ x.calls[c[2]] = "execute"
    BY DEF CallsOf
<1> QED BY <1>4, <1>5

\* A message starts a task or brings a result.
LEMMA MessageEventSubagents ==
    ASSUME ProtocolInv, TypesInv, AskedInv, SubagentInv, MessageEvent
    PROVE  SubagentInv'
<1> DEFINE V == ToSet(saved)
           z == wire'
           started == {c \in CallsOf(Head(Head(wire).msgs), "task") :
                          \A s \in {"running", "completed"} : <<c, s>> \notin active}
           finished == {c \in Ids(Head(wire).msgs) :
                          Head(Head(wire).msgs).role = "tool" /\ <<c, "running">> \in active}
           now == ({p \in active : p[1] \notin finished} \cup {<<c, "running">> : c \in started})
                      \cup {<<c, "completed">> : c \in finished}
<1>1. /\ loading /\ loading' /\ UNCHANGED <<saved, writing, doubt>> /\ wire # <<>> /\ wire' = Tail(wire)
      /\ Head(wire).kind = "messages" /\ active' = now
      /\ subagents' = IF started \cup finished = {} THEN subagents ELSE now
    BY DEF MessageEvent, Incoming, server
<1>2. Shrunk(wire, z) /\ Head(wire) = wire[1] /\ (HasValues(wire) /\ wire[1].kind # "values" => HasValues(z))
    BY <1>1, FirstLeaves
<1>3. PICK m \in Messages({"assistant", "tool"}) :
          Head(wire).msgs = <<m>> /\ SentOn(wire) = {m} \cup SentOn(wire')
    BY MessageArrives
<1>4. Head(Head(wire).msgs) = m /\ m \in Everywhere
    BY <1>3, Singleton, EverywhereParts
<1>5. /\ \A c \in started : c \in CallsOf(m, "task") /\ <<c, "running">> \notin active
      /\ \A c \in finished : <<c, "running">> \in active
      /\ \A p \in now : p \in active \/ (\E c \in started : p = <<c, "running">>)
                                     \/ (\E c \in finished : p = <<c, "completed">>)
    BY <1>4
<1>6. Told' = Told /\ Told \subseteq Everywhere /\ ToSet(saved') = V
    BY <1>1, ToldIsEverywhere DEF Told
<1>7. StartsAreOld(wire, V) /\ NoneForgotten(active, wire, V)
    BY <1>1 DEF SubagentInv
<1> HIDE DEF started, finished, now, z, V
<1>8. /\ StartsAreOld(z, V)
      /\ wire[1].kind = "messages" /\ CallsOf(Head(wire[1].msgs), "task") \cap Finished(V) # {} => HasValues(z)
    BY <1>2, <1>7, FirstStarts
<1>9. NoneForgotten(now, z, V)
    <2> SUFFICES ASSUME NEW c \in Finished(V), <<c, "running">> \in now PROVE HasValues(z)
        BY DEF NoneForgotten
    <2>1. CASE <<c, "running">> \in active
        BY <1>1, <1>2, <1>7, <2>1 DEF NoneForgotten
    <2>2. CASE c \in started
        BY <1>1, <1>2, <1>4, <1>5, <1>8, <2>2
    <2> QED BY <1>5, <2>1, <2>2
<1>10. \A p \in now, x \in Told : p[1] \notin CallsOf(x, "execute")
    <2> SUFFICES ASSUME NEW p \in now, NEW x \in Told, p[1] \in CallsOf(x, "execute") PROVE FALSE
        OBVIOUS
    <2>1. CASE p \in active
        BY <2>1 DEF SubagentInv, TasksOnly
    <2>2. ASSUME NEW c \in started, p = <<c, "running">> PROVE FALSE
        <3>1. c \in CallsOf(m, "task") /\ c \in CallsOf(x, "execute") /\ x \in Everywhere
            BY <1>5, <1>6, <2>2
        <3> QED BY <1>4, <3>1, TasksAreNoQuestions
    <2>3. ASSUME NEW c \in finished, p = <<c, "completed">> PROVE FALSE
        <3>1. <<c, "running">> \in active /\ c \in CallsOf(x, "execute")
            BY <1>5, <2>3
        <3>2. <<c, "running">>[1] = c
            OBVIOUS
        <3> QED BY <3>1, <3>2 DEF SubagentInv, TasksOnly
    <2> QED BY <1>5, <2>1, <2>2, <2>3
<1>11. TasksOnly'
    <2>1. active' \cup subagents' \subseteq now \cup subagents
        BY <1>1
    <2> QED BY <1>6, <1>10, <2>1 DEF SubagentInv, TasksOnly
<1>12. "subagents" \notin doubt => NoneForgotten(subagents, wire, V)
    BY DEF SubagentInv, V
<1>13. "subagents" \notin doubt => NoneForgotten(subagents', z, V)
    <2>1. CASE subagents' = now
        BY <1>9, <2>1
    <2>2. CASE subagents' = subagents
        BY <1>1, <1>2, <1>12, <2>2 DEF NoneForgotten
    <2> QED BY <1>1, <2>1, <2>2
<1>14. Finished(Told') \subseteq CalledIn(saved')
    BY <1>1, <1>6 DEF SubagentInv
<1>15. StartsAreOld(wire', ToSet(saved')) /\ NoneForgotten(active', wire', ToSet(saved'))
    BY <1>1, <1>6, <1>8, <1>9 DEF z
<1>16. "subagents" \notin doubt' => NoneForgotten(subagents', wire', ToSet(saved'))
    BY <1>1, <1>6, <1>13 DEF z
<1> QED BY <1>1, <1>11, <1>14, <1>15, <1>16 DEF SubagentInv

\* Saved messages complete every subagent that has its result.
LEMMA ValuesEventSubagents ==
    ASSUME ProtocolInv, TypesInv, AskedInv, SubagentInv, ValuesEvent
    PROVE  SubagentInv'
<1> DEFINE V == ToSet(saved)
           z == wire'
           all == Head(wire).msgs
           known == {p[1] : p \in active} \cup CallsIn(all, "task")
           now == {<<c, IF c \in Ids(all) \/ <<c, "completed">> \in active THEN "completed" ELSE "running">>
                      : c \in known}
<1>1. /\ loading /\ loading' /\ UNCHANGED <<saved, writing>> /\ wire # <<>> /\ wire' = Tail(wire)
      /\ Head(wire).kind = "values" /\ active' = now
      /\ subagents' = IF now = {} THEN subagents ELSE now
      /\ doubt' = doubt \ {"subagents"}
    BY DEF ValuesEvent, Incoming, server
<1>2. Shrunk(wire, z) /\ Head(wire) = wire[1] /\ LastOfValues(wire, saved)
    BY <1>1, FirstLeaves DEF AskedInv
<1>3. all = saved \/ HasValues(z)
    BY <1>1, <1>2, FirstOfValues
<1>4. ToSet(all) \subseteq V
    BY ValuesArrive
<1>5. Told' = Told /\ Told \subseteq Everywhere /\ V \subseteq Told /\ ToSet(saved') = V
    BY <1>1, ToldIsEverywhere DEF Told
<1>6. StartsAreOld(wire, V)
    BY DEF SubagentInv
<1>7. /\ \A p \in now : p[1] \in known /\ (p[2] = "running" => p[1] \notin Ids(all))
      /\ now = {} => known = {}
    <2> HIDE DEF known, all
    <2>1. \A p \in now : \E c \in known :
              p = <<c, IF c \in Ids(all) \/ <<c, "completed">> \in active THEN "completed" ELSE "running">>
        OBVIOUS
    <2>2. now = {} => known = {}
        OBVIOUS
    <2> HIDE DEF now
    <2>3. ASSUME NEW p \in now PROVE p[1] \in known /\ (p[2] = "running" => p[1] \notin Ids(all))
        <3>1. PICK c \in known :
                  p = <<c, IF c \in Ids(all) \/ <<c, "completed">> \in active THEN "completed" ELSE "running">>
            BY <2>1
        <3> DEFINE status == IF c \in Ids(all) \/ <<c, "completed">> \in active THEN "completed" ELSE "running"
        <3>2. c \in Ids(all) => status # "running"
            OBVIOUS
        <3> HIDE DEF status
        <3>3. p[1] = c /\ p[2] = status
            BY <3>1 DEF status
        <3> QED BY <3>2, <3>3
    <2> QED BY <2>2, <2>3
<1>8. \A c \in known : (\E p \in active : c = p[1]) \/ c \in CallsIn(all, "task")
    OBVIOUS
<1>9. CallsIn(all, "task") \subseteq known
    OBVIOUS
<1> HIDE DEF now, known, z, all, V
<1>10. StartsAreOld(z, V)
    BY <1>2, <1>6, FirstStarts
<1>11. Finished(V) \subseteq Ids(saved)
    BY IdsOfEntries DEF Finished, V
<1>12. NoneForgotten(now, z, V)
    <2> SUFFICES ASSUME NEW c \in Finished(V), <<c, "running">> \in now, all = saved PROVE FALSE
        BY <1>3 DEF NoneForgotten
    <2>1. c \notin Ids(all)
        <3> DEFINE p == <<c, "running">>
        <3>1. p \in now /\ p[1] = c /\ p[2] = "running"
            OBVIOUS
        <3> HIDE DEF p
        <3> QED BY <1>7, <3>1
    <2> QED BY <1>11, <2>1
<1>13. \A c \in known, x \in Told : c \notin CallsOf(x, "execute")
    <2> SUFFICES ASSUME NEW c \in known, NEW x \in Told, c \in CallsOf(x, "execute") PROVE FALSE
        OBVIOUS
    <2>1. CASE \E p \in active : c = p[1]
        BY <2>1 DEF SubagentInv, TasksOnly
    <2>2. CASE c \in CallsIn(all, "task")
        <3>1. PICK m \in ToSet(all) : c \in CallsOf(m, "task")
            BY <2>2, CallsInEntries
        <3>2. m \in Everywhere /\ x \in Everywhere
            BY <1>4, <1>5, <3>1
        <3> QED BY <3>1, <3>2, TasksAreNoQuestions
    <2> QED BY <1>8, <2>1, <2>2
<1>14. TasksOnly'
    <2>1. active' \cup subagents' \subseteq now \cup subagents
        BY <1>1
    <2>2. \A p \in now, x \in Told : p[1] \notin CallsOf(x, "execute")
        BY <1>7, <1>13
    <2> QED BY <1>5, <2>1, <2>2 DEF SubagentInv, TasksOnly
<1>15. now = {} => NoneForgotten(subagents, z, V)
    <2> SUFFICES ASSUME now = {}, NEW c \in Finished(V), <<c, "running">> \in subagents, all = saved PROVE FALSE
        BY <1>3 DEF NoneForgotten
    <2>1. c \in CalledIn(saved)
        BY <1>5 DEF SubagentInv, Finished
    <2>2. c \notin CallsIn(saved, "execute")
        <3>1. \A x \in Told : c \notin CallsOf(x, "execute")
            <4> DEFINE p == <<c, "running">>
            <4>1. p \in active \cup subagents /\ p[1] = c
                OBVIOUS
            <4> HIDE DEF p
            <4> QED BY <4>1 DEF SubagentInv, TasksOnly
        <3> QED BY <1>5, <3>1, CallsInEntries DEF V
    <2>3. c \in CallsIn(all, "task")
        BY <2>1, <2>2 DEF CalledIn
    <2> QED BY <1>7, <1>9, <2>3
<1>16. NoneForgotten(subagents', z, V)
    BY <1>1, <1>12, <1>15
<1>17. Finished(Told') \subseteq CalledIn(saved')
    BY <1>1, <1>5 DEF SubagentInv
<1>18. /\ StartsAreOld(wire', ToSet(saved')) /\ NoneForgotten(active', wire', ToSet(saved'))
       /\ NoneForgotten(subagents', wire', ToSet(saved'))
    BY <1>1, <1>5, <1>10, <1>12, <1>16 DEF z
<1> QED BY <1>1, <1>14, <1>17, <1>18 DEF SubagentInv

LEMMA InterruptEventSubagents ==
    ASSUME ProtocolInv, TypesInv, AskedInv, SubagentInv, InterruptEvent
    PROVE  SubagentInv'
<1>1. /\ UNCHANGED <<saved, writing, active, subagents, loading, run, doubt>> /\ wire # <<>> /\ wire' = Tail(wire)
      /\ Head(wire).kind = "interrupt"
    BY DEF InterruptEvent, Incoming, server
<1>2. Shrunk(wire, wire') /\ Head(wire) = wire[1] /\ (HasValues(wire) /\ wire[1].kind # "values" => HasValues(wire'))
    BY <1>1, FirstLeaves
<1>3. HasValues(wire) => HasValues(wire')
    BY <1>1, <1>2
<1> DEFINE V == ToSet(saved)
           z == wire'
<1>4. StartsAreOld(wire, V) /\ Shrunk(wire, z)
    BY <1>2 DEF SubagentInv
<1> HIDE DEF V, z
<1>5. StartsAreOld(z, V)
    BY <1>4, FirstStarts
<1>6. StartsAreOld(wire', ToSet(saved'))
    BY <1>1, <1>5 DEF z, V
<1>7. TasksOnly' /\ Finished(Told') \subseteq CalledIn(saved')
    BY <1>1 DEF SubagentInv, TasksOnly, Told
<1> QED BY <1>1, <1>3, <1>6, <1>7 DEF SubagentInv, NoneForgotten

\* The stream ends or is opened; nothing else touches the subagents.
LEMMA StreamEndsSubagents ==
    ASSUME ProtocolInv, TypesInv, SubagentInv, StreamEnds, UNCHANGED <<saved, subagents>>,
           "subagents" \notin doubt' => "subagents" \notin doubt /\ run = "none" /\ ~HasValues(wire)
    PROVE  SubagentInv'
<1>1. wire' = <<>>
    BY DEF StreamEnds, Open
<1>2. \/ ~loading' /\ UNCHANGED <<active, run, writing>>
      \/ loading' /\ active' = {} /\ writing' = <<>>
    BY DEF StreamEnds, Open
<1>3. ToSet(writing') \subseteq ToSet(writing) \cup {}
    BY <1>2, EntriesOfEmpty
<1>4. active' \subseteq active /\ (~loading' \/ active' = {}) /\ (~loading' => run' = run)
    BY <1>2
<1>5. \A m \in {} : m.calls = <<>> /\ m.role # "tool"
    OBVIOUS
<1> DEFINE N == {}
<1> HIDE DEF N
<1>6. ToSet(writing') \subseteq ToSet(writing) \cup N /\ \A m \in N : m.calls = <<>> /\ m.role # "tool"
    BY <1>3, <1>5 DEF N
<1> QED BY <1>1, <1>4, <1>6, CutSubagents

LEMMA StreamEndSubagents ==
    ASSUME QuestionInv, TypesInv, SubagentInv, DoneOrError \/ Stop
    PROVE  SubagentInv'
<1>1. ProtocolInv /\ EndComesLast
    BY DEF QuestionInv
<1>2. StreamEnds /\ UNCHANGED <<saved, subagents>>
    BY DEF DoneOrError, Stop
<1>3. CASE DoneOrError
    <2>1. UNCHANGED doubt /\ wire # <<>> /\ Head(wire).kind \in {"done", "error"}
        BY <1>3 DEF DoneOrError, Incoming
    <2>2. Head(wire) = wire[1] /\ 1 \in DOMAIN wire /\ DOMAIN wire = 1..Len(wire)
        <3>1. IsSequence(wire)
            BY <1>1, WireIsSequence
        <3>2. Len(wire) \in Nat \ {0} /\ DOMAIN wire = 1..Len(wire) /\ Head(wire) = wire[1]
            BY <2>1, <3>1, RestOf
        <3> QED BY <3>2
    <2>3. run = "none" /\ Len(wire) = 1
        <3>1. wire[1].kind \in {"done", "error"} /\ 1 \in DOMAIN wire
            BY <2>1, <2>2
        <3>2. \A i \in DOMAIN wire : wire[i].kind \in {"done", "error"} => run = "none" /\ i = Len(wire)
            BY <1>1 DEF EndComesLast
        <3> QED BY <3>1, <3>2
    <2>4. \A i \in DOMAIN wire : i = 1
        <3>1. DOMAIN wire = 1..1
            BY <2>2, <2>3
        <3>2. \A i \in 1..1 : i = 1
            OBVIOUS
        <3> QED BY <3>1, <3>2
    <2>5. ~HasValues(wire)
        BY <2>1, <2>2, <2>4 DEF HasValues
    <2> QED BY <1>1, <1>2, <2>1, <2>3, <2>5, StreamEndsSubagents
<1>4. CASE Stop
    <2>1. doubt' = IF run # "none" \/ \E i \in DOMAIN wire : wire[i].kind # "done" THEN Aspects ELSE doubt
        BY <1>4 DEF Stop
    <2>2. "subagents" \notin doubt' => "subagents" \notin doubt /\ run = "none" /\ ~HasValues(wire)
        BY <2>1 DEF Aspects, HasValues
    <2> QED BY <1>1, <1>2, <2>2, StreamEndsSubagents
<1> QED BY <1>3, <1>4

LEMMA SubmitSubagents ==
    ASSUME ProtocolInv, TypesInv, SubagentInv, Submit
    PROVE  SubagentInv'
<1> DEFINE m == Message(<<made + 1, 0>>, "user", <<>>)
           N == {m}
<1>1. /\ ~loading /\ loading' /\ wire' = <<>> /\ active' = {} /\ writing' = <<m>> /\ UNCHANGED <<saved, subagents>>
      /\ "subagents" \notin doubt' => "subagents" \notin doubt
    BY DEF Submit, Open
<1>2. m.calls = <<>> /\ m.role # "tool"
    BY DEF Message
<1>3. \A x \in N : x.calls = <<>> /\ x.role # "tool"
    BY <1>2
<1>4. ToSet(writing') \subseteq ToSet(writing) \cup N
    BY <1>1, EntriesOfOne
<1>5. ~HasValues(wire)
    BY <1>1, Empty DEF HasValues, ProtocolInv, ClosedIsQuiet
<1> HIDE DEF N, m
<1> QED BY <1>1, <1>3, <1>4, <1>5, CutSubagents

LEMMA DecideSubagents ==
    ASSUME ProtocolInv, TypesInv, SubagentInv, NEW d \in Decisions, Decide(d)
    PROVE  SubagentInv'
<1>1. UNCHANGED <<subagents, doubt>>
    BY DEF Decide
<1>2. CASE loading
    <2>1. UNCHANGED <<saved, writing, wire, active, subagents, loading, run>>
        BY <1>2 DEF Decide, server
    <2> QED BY <1>1, <2>1, SubagentsStay
<1>3. CASE ~loading
    <2>1. loading' /\ wire' = <<>> /\ active' = {} /\ writing' = <<>> /\ UNCHANGED saved
        BY <1>3 DEF Decide, Open
    <2>2. ~HasValues(wire)
        BY <1>3, Empty DEF HasValues, ProtocolInv, ClosedIsQuiet
    <2> DEFINE N == {}
    <2>3. \A x \in N : x.calls = <<>> /\ x.role # "tool"
        OBVIOUS
    <2>4. ToSet(writing') \subseteq ToSet(writing) \cup N
        BY <2>1, EntriesOfEmpty
    <2> HIDE DEF N
    <2> QED BY <1>1, <2>1, <2>2, <2>3, <2>4, CutSubagents
<1>4. loading \in BOOLEAN
    BY DEF ProtocolInv, ProtocolTypes
<1> QED BY <1>2, <1>3, <1>4

LEMMA ReloadSubagents ==
    ASSUME SubagentInv, Reload
    PROVE  SubagentInv'
<1>1. /\ wire' = <<>> /\ active' = {} /\ subagents' = {} /\ UNCHANGED <<saved, writing>>
      /\ "subagents" \in doubt'
    BY DEF Reload, server, Aspects
<1> DEFINE N == {}
<1>2. \A x \in N : x.calls = <<>> /\ x.role # "tool"
    OBVIOUS
<1>3. ToSet(writing') \subseteq ToSet(writing) \cup N
    BY <1>1
<1> HIDE DEF N
<1> QED BY <1>1, <1>2, <1>3, CutSubagents

LEMMA AsideSubagents ==
    ASSUME SubagentInv,
           \/ Leave \/ Return
           \/ \E i \in DOMAIN loads : ReadHistory(i) \/ HistoryAnswer(i) \/ HistoryFails(i)
           \/ UNCHANGED vars
    PROVE  SubagentInv'
<1>1. CASE \E i \in DOMAIN loads : HistoryAnswer(i)
    <2>1. UNCHANGED <<saved, writing, wire, active, subagents, loading, run>>
        BY <1>1 DEF HistoryAnswer, server, stream
    <2>2. "subagents" \notin doubt' => "subagents" \notin doubt
        BY <1>1 DEF HistoryAnswer
    <2> QED BY <2>1, <2>2, SubagentsStay
<1>2. CASE \/ Leave \/ Return \/ UNCHANGED vars
           \/ \E i \in DOMAIN loads : ReadHistory(i) \/ HistoryFails(i)
    <2>1. UNCHANGED <<saved, writing, wire, active, subagents, loading, run, doubt>>
        BY <1>2 DEF Leave, Return, ReadHistory, HistoryFails, vars, server, stream, thread
    <2> QED BY <2>1, SubagentsStay
<1> QED BY <1>1, <1>2

LEMMA SubagentInit == Init => SubagentInv
<1> SUFFICES ASSUME Init PROVE SubagentInv
    OBVIOUS
<1>1. saved = <<>> /\ writing = <<>> /\ wire = <<>> /\ ~loading /\ run = "none" /\ active = {} /\ subagents = {}
    BY DEF Init
<1>2. Told = {}
    BY <1>1, EntriesOfEmpty DEF Told
<1> QED BY <1>1, <1>2, Empty DEF SubagentInv, TasksOnly, Finished, NoneForgotten, StartsAreOld

LEMMA SubagentNext == QuestionInv /\ TypesInv /\ AskedInv /\ SubagentInv /\ [Next]_vars => SubagentInv'
<1> SUFFICES ASSUME QuestionInv, TypesInv, AskedInv, SubagentInv, [Next]_vars PROVE SubagentInv'
    OBVIOUS
<1>1. ProtocolInv
    BY DEF QuestionInv
<1>2. CASE Begin
    BY <1>1, <1>2, BeginSubagents
<1>3. CASE SaveAnswer \/ SaveResults
    BY <1>1, <1>3, SavesSubagents
<1>4. CASE Resume
    BY <1>1, <1>4, ResumeSubagents
<1>5. CASE End \/ Fail
    BY <1>1, <1>5, EndFailSubagents
<1>6. CASE \E plan \in Plans : Answer(plan)
    BY <1>1, <1>6, AnswerSubagents
<1>7. CASE \E c \in CallsIn(saved, "execute") \cup CallsIn(saved, "task") : RunTool(c)
    BY <1>1, <1>7, RunToolSubagents
<1>8. CASE MessageEvent
    BY <1>1, <1>8, MessageEventSubagents
<1>9. CASE ValuesEvent
    BY <1>1, <1>9, ValuesEventSubagents
<1>10. CASE InterruptEvent
    BY <1>1, <1>10, InterruptEventSubagents
<1>11. CASE DoneOrError \/ Stop
    BY <1>11, StreamEndSubagents
<1>12. CASE Submit
    BY <1>1, <1>12, SubmitSubagents
<1>13. CASE \E d \in Decisions : Decide(d)
    BY <1>1, <1>13, DecideSubagents
<1>14. CASE Reload
    BY <1>14, ReloadSubagents
<1>15. CASE \/ Leave \/ Return
            \/ \E i \in DOMAIN loads : ReadHistory(i) \/ HistoryAnswer(i) \/ HistoryFails(i)
            \/ UNCHANGED vars
    BY <1>15, AsideSubagents
<1> QED BY <1>2, <1>3, <1>4, <1>5, <1>6, <1>7, <1>8, <1>9, <1>10, <1>11, <1>12, <1>13, <1>14, <1>15 DEF Next

\* The turns of a list l that is kept up with the messages W.
LEMMA TurnsShown ==
    ASSUME NEW l, NEW W, \A m \in ToSet(l) \cup W : m.role \in {"user", "assistant", "tool"},
           Agents(ToSet(l)) \subseteq W, UserNumbers(ToSet(l)) = UserNumbers(W), Closed(l, W)
    PROVE  /\ Turns(ToSet(l)) \subseteq Turns(W)
           /\ \A x \in Turns(ToSet(l)), y \in Turns(W) : y[1] < x[1] => y \in Turns(ToSet(l))
           /\ Agents(W) \subseteq ToSet(l) => Turns(W) \subseteq Turns(ToSet(l))
<1> DEFINE S == ToSet(l)
<1>1. \A X : \A x \in Turns(X) : \E m \in X : Talk(m) /\ x = <<Number(m), m.role>>
    BY DEF Turns, Turn
<1>2. \A X : \A m \in X : Talk(m) => <<Number(m), m.role>> \in Turns(X)
    BY DEF Turns, Turn
<1>3. \A m \in S \cup W : Talk(m) => m.role = "user" \/ m.role = "assistant"
    BY DEF Talk
<1>4. \A m \in S : m.role = "user" => \E u \in W : u.role = "user" /\ Number(u) = Number(m)
    BY DEF UserNumbers
<1>5. \A m \in W : m.role = "user" => \E u \in S : u.role = "user" /\ Number(u) = Number(m)
    BY DEF UserNumbers
<1>6. \A m \in S : m.role = "assistant" => m \in W
    BY DEF Agents
<1>7. \A m \in S, a \in W : Talk(m) /\ a.role = "assistant" /\ Number(a) < Number(m) => a \in S
    BY DEF Closed
<1>8. \A m : m.role = "user" \/ m.role = "assistant" => Talk(m)
    BY DEF Talk
<1> HIDE DEF S
<1>9. \A m \in S : Talk(m) => <<Number(m), m.role>> \in Turns(W)
    <2> SUFFICES ASSUME NEW m \in S, Talk(m) PROVE <<Number(m), m.role>> \in Turns(W)
        OBVIOUS
    <2>1. CASE m.role = "user"
        <3>1. PICK u \in W : u.role = "user" /\ Number(u) = Number(m)
            BY <1>4, <2>1
        <3>2. <<Number(u), u.role>> \in Turns(W)
            BY <1>2, <1>8, <3>1
        <3> QED BY <2>1, <3>1, <3>2
    <2>2. CASE m.role = "assistant"
        BY <1>2, <1>6, <2>2
    <2> QED BY <1>3, <2>1, <2>2
<1>10. \A m \in W : Talk(m) /\ (m.role = "assistant" => m \in S) => <<Number(m), m.role>> \in Turns(S)
    <2> SUFFICES ASSUME NEW m \in W, Talk(m), m.role = "assistant" => m \in S
                 PROVE  <<Number(m), m.role>> \in Turns(S)
        OBVIOUS
    <2>1. CASE m.role = "user"
        <3>1. PICK u \in S : u.role = "user" /\ Number(u) = Number(m)
            BY <1>5, <2>1
        <3>2. <<Number(u), u.role>> \in Turns(S)
            BY <1>2, <1>8, <3>1
        <3> QED BY <2>1, <3>1, <3>2
    <2>2. CASE m.role = "assistant"
        BY <1>2, <2>2
    <2> QED BY <1>3, <2>1, <2>2
<1>11. Turns(S) \subseteq Turns(W)
    BY <1>1, <1>9
<1>12. ASSUME NEW x \in Turns(S), NEW y \in Turns(W), y[1] < x[1] PROVE y \in Turns(S)
    <2>1. PICK m \in S : Talk(m) /\ x = <<Number(m), m.role>>
        BY <1>1
    <2>2. PICK a \in W : Talk(a) /\ y = <<Number(a), a.role>>
        BY <1>1
    <2>3. x[1] = Number(m) /\ y[1] = Number(a)
        BY <2>1, <2>2
    <2>4. Number(a) < Number(m)
        BY <1>12, <2>3
    <2>5. a.role = "assistant" => a \in S
        BY <1>7, <2>1, <2>4
    <2> QED BY <1>10, <2>2, <2>5
<1>13. Agents(W) \subseteq S => Turns(W) \subseteq Turns(S)
    <2> SUFFICES ASSUME Agents(W) \subseteq S, NEW y \in Turns(W) PROVE y \in Turns(S)
        OBVIOUS
    <2>1. PICK a \in W : Talk(a) /\ y = <<Number(a), a.role>>
        BY <1>1
    <2>2. a.role = "assistant" => a \in S
        BY DEF Agents
    <2> QED BY <1>10, <2>1, <2>2
<1> QED BY <1>11, <1>12, <1>13 DEF S

\* What is seen of a list that is kept up with the messages of w.
LEMMA KeptIsSeen ==
    ASSUME NEW l \in Seq(Text), NEW w \in Seq(Text), Increasing(l), Increasing(w),
           Agents(ToSet(l)) \subseteq ToSet(w), UserNumbers(ToSet(l)) = UserNumbers(ToSet(w)), Closed(l, ToSet(w))
    PROVE  /\ IsPrefix(Seen(l), Seen(w)) /\ Results(l) \subseteq Results(w)
           /\ Agents(ToSet(w)) \subseteq ToSet(l) => Seen(l) = Seen(w) /\ Results(l) = Results(w)
<1> DEFINE W == ToSet(w)
<1>1. \A m \in ToSet(l) \cup W : m.role \in {"user", "assistant", "tool"}
    BY EntriesTyped DEF Text, Messages
<1>2. /\ Agents(ToSet(l)) \subseteq W /\ UserNumbers(ToSet(l)) = UserNumbers(W) /\ Closed(l, W)
    OBVIOUS
<1>3. ToSet(w) = W
    OBVIOUS
<1> HIDE DEF W
<1>4. /\ Turns(ToSet(l)) \subseteq Turns(W)
      /\ \A x \in Turns(ToSet(l)), y \in Turns(W) : y[1] < x[1] => y \in Turns(ToSet(l))
      /\ Agents(W) \subseteq ToSet(l) => Turns(W) \subseteq Turns(ToSet(l))
    BY <1>1, <1>2, TurnsShown
<1> DEFINE T == {"user", "assistant", "tool"}
           p == Seen(l)
           q == Seen(w)
<1>5. p \in Seq(Int \X T) /\ Rising(p) /\ ToSet(p) = Turns(ToSet(l))
    BY SeenIs
<1>6. q \in Seq(Int \X T) /\ Rising(q) /\ ToSet(q) = Turns(W)
    BY <1>3, SeenIs
<1> HIDE DEF T, p, q
<1>7. IsPrefix(p, q) /\ (ToSet(q) \subseteq ToSet(p) => p = q)
    <2>1. ToSet(p) \subseteq ToSet(q) /\ \A x \in ToSet(p), y \in ToSet(q) : y[1] < x[1] => y \in ToSet(p)
        BY <1>4, <1>5, <1>6
    <2>2. p \in Seq(Int \X T) /\ q \in Seq(Int \X T) /\ Rising(p) /\ Rising(q)
        BY <1>5, <1>6
    <2> QED BY <2>1, <2>2, BeginningOf
<1>8. /\ Finished(ToSet(l)) \subseteq Finished(W)
      /\ Agents(W) \subseteq ToSet(l) => Finished(ToSet(l)) = Finished(W)
    <2>1. \A m \in ToSet(l) : m.role = "tool" => m \in W
        BY <1>2 DEF Agents
    <2>2. Agents(W) \subseteq ToSet(l) => \A m \in W : m.role = "tool" => m \in ToSet(l)
        BY DEF Agents
    <2> QED BY <2>1, <2>2 DEF Finished
<1> QED BY <1>3, <1>4, <1>5, <1>6, <1>7, <1>8, ResultsAreFinished DEF p, q

\* What the user sees is the conversation: a beginning of what was written, in its
\* order and each message once, and when the agent rests all of it with every
\* result, and no subagent running that has its result; unless a message that was
\* left half-written, a reloaded page, a message sent before the chat had caught
\* up, or a history older than the user's last message puts it in doubt.
THEOREM DisplayIsTheConversation == Spec => []ConversationIsShown
<1> DEFINE I == QuestionInv /\ TypesInv /\ AskedInv /\ FlowInv /\ DisplayFollows /\ SubagentInv
<1>1. Init => I
    BY QuestionInit, TypesInit, AskedInit, FlowInit, DisplayInit, SubagentInit
<1>2. I /\ [Next]_vars => I'
    BY QuestionNext, TypesNext, AskedNext, FlowNext, DisplayNext, SubagentNext DEF QuestionInv
<1>3. I => ConversationIsShown
    <2> SUFFICES ASSUME I PROVE ConversationIsShown
        OBVIOUS
    <2>1. ProtocolInv /\ TypesInv /\ FlowInv
        BY DEF QuestionInv
    <2> DEFINE d == displayMessages
               w == saved \o writing
    <2>2. ~loading /\ run = "none" => wire = <<>> /\ writing = <<>>
        BY <2>1 DEF ProtocolInv, ClosedIsQuiet, TypesInv, WritingIs
    <2>3. d \in Seq(Text) /\ ToSet(d) = ToSet(local) \cup ToSet(streamed)
        BY <2>1, LocalJoins
    <2>4. w \in Seq(Text) /\ ToSet(w) = Told
        BY <2>1, TypesGive, EntriesOfBoth DEF Told
    <2>5. Increasing(w)
        BY <2>1, TypesGive, IncreasingBoth DEF FlowInv, Ordered
    <2>6. ASSUME "messages" \notin doubt
          PROVE  /\ IsPrefix(Seen(d), Seen(w)) /\ Results(d) \subseteq Results(w)
                 /\ ~loading /\ run = "none" => Seen(d) = Seen(w) /\ Results(d) = Results(w)
        <3>1. Kept(local, Received, ToSet(saved), ToSet(writing))
            BY <2>6 DEF DisplayFollows
        <3>2. Kept(d, Received, ToSet(saved), ToSet(writing))
            BY <2>1, <3>1, DisplayIsKept
        <3> HIDE DEF d, w
        <3>3. /\ Agents(ToSet(d)) \subseteq ToSet(w) /\ UserNumbers(ToSet(d)) = UserNumbers(ToSet(w))
              /\ Increasing(d) /\ Closed(d, ToSet(w))
            BY <2>4, <3>2 DEF Kept, Told
        <3>4. /\ IsPrefix(Seen(d), Seen(w)) /\ Results(d) \subseteq Results(w)
              /\ Agents(ToSet(w)) \subseteq ToSet(d) => Seen(d) = Seen(w) /\ Results(d) = Results(w)
            BY <2>3, <2>4, <2>5, <3>3, KeptIsSeen
        <3>5. ASSUME ~loading, run = "none" PROVE Agents(ToSet(w)) \subseteq ToSet(d)
            <4>1. Received \subseteq ToSet(d)
                BY <2>2, <2>3, <3>5, NoEvents DEF Received
            <4>2. ToSet(w) = ToSet(saved)
                BY <2>2, <2>4, <3>5, EntriesOfEmpty DEF Told
            <4> QED BY <3>2, <4>1, <4>2 DEF Kept
        <3> QED BY <3>4, <3>5
    <2>7. ASSUME "subagents" \notin doubt, ~loading, run = "none", NEW c \in Results(saved)
          PROVE  <<c, "running">> \notin subagents
        <3>1. ~HasValues(wire)
            BY <2>2, <2>7, Empty DEF HasValues
        <3>2. c \in Finished(ToSet(saved))
            BY <2>7, ResultsAreFinished
        <3>3. NoneForgotten(subagents, wire, ToSet(saved))
            BY <2>7 DEF SubagentInv
        <3> QED BY <3>1, <3>2, <3>3 DEF NoneForgotten
    <2> QED BY <2>6, <2>7 DEF ConversationIsShown
<1> QED BY <1>1, <1>2, <1>3, PTL DEF Spec
=============================================================================
