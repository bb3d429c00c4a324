-------------------------- MODULE AgentStreamsProofs --------------------------
(***************************************************************************)
(* Proofs about AgentStreams, for any number of processes, threads and     *)
(* streams and whatever the bounds on events and cancel requests are.      *)
(***************************************************************************)
EXTENDS AgentStreams, TLAPS

\* A stream that was started is a full record.
LEMMA BornIsRun ==
    ASSUME TypeOK, NEW s \in Streams, run[s].pc # "unborn"
    PROVE  run[s] \in Run
BY DEF TypeOK, Unborn

\* A registry entry is a started stream.
LEMMA EntryIsRun ==
    ASSUME TypeOK, EntriesAreOpen, NEW p \in Processes, NEW t \in Threads,
           registry[p][t] # NoTask
    PROVE  registry[p][t] \in Streams /\ run[registry[p][t]] \in Run
<1>1. registry[p][t] \in Streams
    BY DEF TypeOK
<1>2. run[registry[p][t]].pc # "unborn"
    BY DEF EntriesAreOpen
<1> QED BY <1>1, <1>2, BornIsRun

LEMMA FlaggedIsRun ==
    ASSUME NEW r \in Run
    PROVE  /\ Flagged(r) \in Run /\ Flagged(r).cancelled /\ Flagged(r).stopped
           /\ Flagged(r).pc = r.pc /\ Flagged(r).process = r.process
           /\ Flagged(r).thread = r.thread /\ Flagged(r).attempt = r.attempt
           /\ Flagged(r).emitted = r.emitted /\ Flagged(r).event = r.event
           /\ Flagged(r).wire = r.wire
BY DEF Flagged, Run

\* Cancelling a task touches the flags of that stream only.
LEMMA CancelledOnly ==
    ASSUME TypeOK, NEW e \in Streams \cup {NoTask}, e # NoTask => run[e] \in Run
    PROVE  /\ Cancelled(run, e) \in [Streams -> {Unborn} \cup Run]
           /\ \A s \in Streams : s # e => Cancelled(run, e)[s] = run[s]
           /\ e # NoTask /\ ~TaskDone(e) => Cancelled(run, e)[e] = Flagged(run[e])
           /\ e # NoTask /\ TaskDone(e) => Cancelled(run, e)[e] = run[e]
<1>1. CASE e = NoTask \/ TaskDone(e)
    BY <1>1 DEF Cancelled, TypeOK
<1>2. CASE e # NoTask /\ ~TaskDone(e)
    BY <1>2, FlaggedIsRun DEF Cancelled, TypeOK
<1> QED BY <1>1, <1>2

\* Unregistering removes one entry or none.
LEMMA UnregisterType ==
    ASSUME TypeOK, NEW s \in Streams, NEW own \in BOOLEAN, run[s] \in Run, Unregister(s, own)
    PROVE  /\ registry' \in [Processes -> [Threads -> Streams \cup {NoTask}]]
           /\ \A p \in Processes, t \in Threads :
                \/ registry'[p][t] = registry[p][t]
                \/ /\ registry'[p][t] = NoTask /\ registry[p][t] # NoTask
                   /\ p = run[s].process /\ t = run[s].thread
                   /\ (own /\ registry[p][t] = s) \/ TaskDone(registry[p][t])
           /\ own \/ TaskDone(s) => registry'[run[s].process][run[s].thread] # s
<1>1. run[s].process \in Processes /\ run[s].thread \in Threads
    BY DEF Run
<1> QED BY <1>1, StreamsAssumption DEF Unregister, TypeOK

\* The records a stream starts with and passes through are runs.
LEMMA NewRunIsRun ==
    ASSUME NEW p \in Processes, NEW t \in Threads, NEW fallback \in BOOLEAN,
           NEW pc \in {"creating", "done"}
    PROVE  NewRun(p, t, fallback, pc) \in Run
<1>1. <<>> \in Seq(Event)
    OBVIOUS
<1> QED BY <1>1 DEF NewRun, Run, Suspended

LEMMA YieldsIsRun ==
    ASSUME NEW r \in Run, NEW kind \in {"warning", "chunk", "done", "error"}
    PROVE  Yields(r, kind) \in Run
<1>1. [kind |-> kind, attempt |-> r.attempt] \in Event
    BY DEF Event, Run
<1> QED BY <1>1 DEF Yields, Run, Suspended

LEMMA SentIsRun ==
    ASSUME NEW r \in Run, r.event \in Event, NEW pc \in {"streaming", "finishing"}
    PROVE  Sent(r, pc) \in Run
<1>1. Append(r.wire, r.event) \in Seq(Event)
    BY DEF Run
<1> QED BY <1>1 DEF Sent, Run, Suspended

LEMMA NextAttemptIsRun ==
    ASSUME NEW r \in Run, Retryable(r)
    PROVE  NextAttempt(r) \in Run
<1>1. r.attempt = 1
    BY DEF Retryable
<1>2. r.attempt + 1 \in {1, 2}
    BY <1>1
<1> DEFINE next == r.attempt + 1
<1>3. [r EXCEPT !.pc = "creating", !.attempt = next, !.emitted = FALSE] \in Run
    BY <1>2 DEF Run, Suspended
<1> QED BY <1>3 DEF NextAttempt

\* A run with new values of the changing fields is still a run.
LEMMA TypeStep ==
    ASSUME TypeOK, EntriesAreOpen, SendsOwnEvent, [Next]_vars
    PROVE  TypeOK'
<1> USE StreamsAssumption
<1>1. CASE UNCHANGED vars
    BY <1>1 DEF TypeOK, vars
<1>2. ASSUME NEW s \in Streams, Start(s) \/ StartFails(s) PROVE TypeOK'
    <2>1. PICK p \in Processes, t \in Threads :
            /\ \E r \in Run : run' = [Cancelled(run, registry[p][t]) EXCEPT ![s] = r]
            /\ registry' \in {[registry EXCEPT ![p][t] = s], [registry EXCEPT ![p][t] = NoTask]}
            /\ UNCHANGED cancels
        <3>1. CASE Start(s)
            BY <3>1, NewRunIsRun DEF Start
        <3>2. CASE StartFails(s)
            BY <3>2, NewRunIsRun DEF StartFails
        <3> QED BY <1>2, <3>1, <3>2
    <2>2. registry[p][t] \in Streams \cup {NoTask}
        BY DEF TypeOK
    <2>3. Cancelled(run, registry[p][t]) \in [Streams -> {Unborn} \cup Run]
        BY <2>2, EntryIsRun, CancelledOnly
    <2> QED BY <2>1, <2>3 DEF TypeOK
<1>3. ASSUME NEW s \in Streams, StreamStep(s) PROVE TypeOK'
    <2>1. run[s] \in Run
        BY <1>3, BornIsRun DEF StreamStep, RuntimeReady, NextChunk, AnswerEnds, AttemptFails,
            SentMore, SentTerminal, Finish, CancelledInAttempt, CancelledInSend, CloseGenerator
    <2>2. CASE RuntimeReady(s)
        <3>1. [run[s] EXCEPT !.pc = "streaming"] \in Run
            BY <2>1 DEF Run, Suspended
        <3> QED BY <2>1, <2>2, <3>1, YieldsIsRun DEF RuntimeReady, TypeOK
    <2>3. CASE NextChunk(s)
        <3>1. [run[s] EXCEPT !.emitted = TRUE] \in Run
            BY <2>1 DEF Run
        <3> QED BY <2>3, <3>1, YieldsIsRun DEF NextChunk, TypeOK
    <2>4. CASE AnswerEnds(s)
        BY <2>1, <2>4, YieldsIsRun DEF AnswerEnds, TypeOK
    <2>5. CASE AttemptFails(s)
        <3>1. Retryable(run[s]) => NextAttempt(run[s]) \in Run
            BY <2>1, NextAttemptIsRun
        <3> QED BY <2>1, <2>5, <3>1, YieldsIsRun DEF AttemptFails, TypeOK
    <2>6. CASE SentMore(s)
        BY <2>1, <2>6, SentIsRun DEF SentMore, SendsOwnEvent, TypeOK
    <2>7. CASE SentTerminal(s)
        <3>1. run' \in [Streams -> {Unborn} \cup Run]
            BY <2>1, <2>7, SentIsRun DEF SentTerminal, SendsOwnEvent, TypeOK
        <3> QED BY <2>1, <2>7, <3>1, UnregisterType DEF SentTerminal, TypeOK
    <2>8. CASE Finish(s)
        BY <2>1, <2>8 DEF Finish, TypeOK, Run, Suspended
    <2>9. CASE CancelledInAttempt(s)
        <3>1. run' \in [Streams -> {Unborn} \cup Run]
            BY <2>1, <2>9 DEF CancelledInAttempt, TypeOK, Run, Suspended
        <3> QED BY <2>1, <2>9, <3>1, UnregisterType DEF CancelledInAttempt, TypeOK
    <2>10. CASE CancelledInSend(s)
        BY <2>1, <2>10 DEF CancelledInSend, TypeOK, Run, Suspended
    <2>11. CASE CloseGenerator(s)
        <3>1. run' \in [Streams -> {Unborn} \cup Run]
            BY <2>1, <2>11 DEF CloseGenerator, TypeOK, Run, Suspended
        <3> QED BY <2>1, <2>11, <3>1, UnregisterType DEF CloseGenerator, TypeOK
    <2> QED BY <1>3, <2>2, <2>3, <2>4, <2>5, <2>6, <2>7, <2>8, <2>9, <2>10, <2>11 DEF StreamStep
<1>4. ASSUME NEW s \in Streams, Disconnect(s) PROVE TypeOK'
    <2>1. run[s] \in Run
        BY <1>4, BornIsRun DEF Disconnect, Suspended
    <2> QED BY <1>4, <2>1, CancelledOnly DEF Disconnect, TypeOK
<1>5. ASSUME NEW p \in Processes, NEW t \in Threads, CancelRequest(p, t) PROVE TypeOK'
    <2>1. registry[p][t] \in Streams /\ run[registry[p][t]] \in Run
        BY <1>5, EntryIsRun DEF CancelRequest
    <2>2. run' \in [Streams -> {Unborn} \cup Run]
        BY <1>5, <2>1, CancelledOnly DEF CancelRequest
    <2> QED BY <1>5, <2>2 DEF CancelRequest, TypeOK
<1> QED BY <1>1, <1>2, <1>3, <1>4, <1>5 DEF Next

(***************************************************************************)
(* What a step does to each stream, in the terms the invariants use.       *)
(***************************************************************************)

\* The stream is as before, or running and cancelled by this step.
SameOrFlagged(x) ==
    \/ run'[x] = run[x]
    \/ run[x] \in Run /\ ~TaskDone(x) /\ run'[x] = Flagged(run[x])

\* s starts on thread t of process p; the stream it replaces is cancelled.
Starts(s, p, t) ==
    /\ \E fallback \in BOOLEAN :
        \/ /\ run'[s] = NewRun(p, t, fallback, "creating")
           /\ registry' = [registry EXCEPT ![p][t] = s]
        \/ /\ run'[s] = NewRun(p, t, fallback, "done")
           /\ registry' = [registry EXCEPT ![p][t] = NoTask]
    /\ \A x \in Streams : x # s =>
        /\ SameOrFlagged(x)
        /\ x = registry[p][t] /\ ~TaskDone(x) => run'[x] = Flagged(run[x])

LEMMA StartShape ==
    ASSUME TypeOK, EntriesAreOpen, NEW s \in Streams, Start(s) \/ StartFails(s)
    PROVE  run[s].pc = "unborn" /\ \E p \in Processes, t \in Threads : Starts(s, p, t)
<1>1. PICK p \in Processes, t \in Threads, fallback \in BOOLEAN :
        \/ /\ run' = [Cancelled(run, registry[p][t]) EXCEPT
                        ![s] = NewRun(p, t, fallback, "creating")]
           /\ registry' = [registry EXCEPT ![p][t] = s]
        \/ /\ run' = [Cancelled(run, registry[p][t]) EXCEPT
                        ![s] = NewRun(p, t, fallback, "done")]
           /\ registry' = [registry EXCEPT ![p][t] = NoTask]
    BY DEF Start, StartFails
<1> DEFINE e == registry[p][t]
           old == Cancelled(run, e)
<1>2. e \in Streams \cup {NoTask}
    BY DEF TypeOK
<1>3. e # NoTask => run[e] \in Run
    BY EntryIsRun
<1>4. /\ old \in [Streams -> {Unborn} \cup Run]
      /\ \A x \in Streams : x # e => old[x] = run[x]
      /\ e # NoTask /\ ~TaskDone(e) => old[e] = Flagged(run[e])
      /\ e # NoTask /\ TaskDone(e) => old[e] = run[e]
    BY <1>2, <1>3, CancelledOnly
<1>5. \A x \in Streams : x # s => run'[x] = old[x]
    BY <1>1, <1>4
<1>6. \/ run'[s] = NewRun(p, t, fallback, "creating")
            /\ registry' = [registry EXCEPT ![p][t] = s]
      \/ run'[s] = NewRun(p, t, fallback, "done")
            /\ registry' = [registry EXCEPT ![p][t] = NoTask]
    <2> HIDE DEF old
    <2>1. \A r : [old EXCEPT ![s] = r][s] = r
        BY <1>4
    <2> QED BY <1>1, <2>1 DEF old
<1>7. \A x \in Streams : x # s =>
        SameOrFlagged(x) /\ (x = e /\ ~TaskDone(x) => run'[x] = Flagged(run[x]))
    BY <1>2, <1>3, <1>4, <1>5, StreamsAssumption DEF SameOrFlagged
<1>8. Starts(s, p, t)
    BY <1>6, <1>7 DEF Starts
<1>9. run[s].pc = "unborn"
    BY DEF Start, StartFails
<1> QED BY <1>8, <1>9

\* A step of s leaves every other stream alone.
LEMMA StepShape ==
    ASSUME TypeOK, NEW s \in Streams, StreamStep(s)
    PROVE  run[s] \in Run /\ \A x \in Streams : x # s => run'[x] = run[x]
<1>1. run[s] \in Run
    BY BornIsRun DEF StreamStep, RuntimeReady, NextChunk, AnswerEnds, AttemptFails,
        SentMore, SentTerminal, Finish, CancelledInAttempt, CancelledInSend, CloseGenerator
<1>2. \A x \in Streams : x # s => run'[x] = run[x]
    BY DEF TypeOK, StreamStep, RuntimeReady, NextChunk, AnswerEnds, AttemptFails,
        SentMore, SentTerminal, Finish, CancelledInAttempt, CancelledInSend, CloseGenerator
<1> QED BY <1>1, <1>2

\* A disconnect or a cancel request sets the flags of one stream.
LEMMA CancelShape ==
    ASSUME TypeOK, EntriesAreOpen,
           \/ \E s \in Streams : Disconnect(s)
           \/ \E p \in Processes, t \in Threads : CancelRequest(p, t)
    PROVE  /\ \A x \in Streams : SameOrFlagged(x)
           /\ \A p \in Processes, t \in Threads :
                \/ registry'[p][t] = registry[p][t]
                \/ /\ registry[p][t] # NoTask /\ TaskDone(registry[p][t])
                   /\ registry'[p][t] = NoTask
<1>1. ASSUME NEW s \in Streams, Disconnect(s)
      PROVE  \A x \in Streams : SameOrFlagged(x)
    <2>1. run[s] \in Run
        BY <1>1, BornIsRun DEF Disconnect, Suspended
    <2> QED BY <1>1, <2>1, CancelledOnly, StreamsAssumption DEF Disconnect, SameOrFlagged
<1>2. ASSUME NEW p \in Processes, NEW t \in Threads, CancelRequest(p, t)
      PROVE  \A x \in Streams : SameOrFlagged(x)
    <2>1. registry[p][t] \in Streams /\ run[registry[p][t]] \in Run
        BY <1>2, EntryIsRun DEF CancelRequest
    <2> QED BY <1>2, <2>1, CancelledOnly, StreamsAssumption DEF CancelRequest, SameOrFlagged
<1>3. \A p \in Processes, t \in Threads :
        \/ registry'[p][t] = registry[p][t]
        \/ /\ registry[p][t] # NoTask /\ TaskDone(registry[p][t])
           /\ registry'[p][t] = NoTask
    BY DEF Disconnect, CancelRequest, TypeOK
<1> QED BY <1>1, <1>2, <1>3

\* What each step of a running stream leaves of its record.
Advanced(old, new) ==
    /\ new.process = old.process /\ new.thread = old.thread /\ new.stopped = old.stopped
    /\ new.cancelled => old.cancelled

LEMMA StepEffect ==
    ASSUME TypeOK, NEW s \in Streams, StreamStep(s)
    PROVE  /\ Advanced(run[s], run'[s])
           /\ \/ /\ Serving(s) /\ Serving(s)' /\ UNCHANGED registry
                 /\ ~run[s].cancelled /\ ~run'[s].cancelled
              \/ /\ ~Serving(s)'
                 /\ \A p \in Processes, t \in Threads :
                        \/ registry'[p][t] = registry[p][t]
                        \/ registry'[p][t] = NoTask
                                /\ (registry[p][t] = s
                                    \/ (registry[p][t] # NoTask /\ TaskDone(registry[p][t])))
<1> DEFINE r == run[s]
<1>1. r \in Run /\ run \in [Streams -> {Unborn} \cup Run]
    BY StepShape DEF TypeOK
<1>2. CASE RuntimeReady(s)
    <2>1. run'[s] = Yields(r, "warning") \/ run'[s] = [r EXCEPT !.pc = "streaming"]
        BY <1>1, <1>2 DEF RuntimeReady
    <2> QED BY <1>1, <1>2, <2>1 DEF RuntimeReady, Yields, Advanced, Serving, Run
<1>3. CASE NextChunk(s)
    <2>1. run'[s] = Yields([r EXCEPT !.emitted = TRUE], "chunk")
        BY <1>1, <1>3 DEF NextChunk
    <2> QED BY <1>1, <1>3, <2>1 DEF NextChunk, Yields, Advanced, Serving, Run
<1>4. CASE AnswerEnds(s)
    <2>1. run'[s] = Yields(r, "done")
        BY <1>1, <1>4 DEF AnswerEnds
    <2> QED BY <1>1, <1>4, <2>1 DEF AnswerEnds, Yields, Advanced, Serving, Run
<1>5. CASE AttemptFails(s)
    <2>1. run'[s] = NextAttempt(r) \/ run'[s] = Yields(r, "error")
        BY <1>1, <1>5 DEF AttemptFails
    <2> QED BY <1>1, <1>5, <2>1 DEF AttemptFails, NextAttempt, Yields, Advanced, Serving, Run
<1>6. CASE SentMore(s)
    <2>1. run'[s] = Sent(r, "streaming")
        BY <1>1, <1>6 DEF SentMore
    <2> QED BY <1>1, <1>6, <2>1 DEF SentMore, Sent, Advanced, Serving, Run
<1>7. CASE SentTerminal(s)
    <2>1. run'[s] = Sent(r, "finishing")
        BY <1>1, <1>7 DEF SentTerminal
    <2>2. Advanced(r, run'[s]) /\ ~Serving(s)'
        BY <1>1, <1>7, <2>1 DEF SentTerminal, Sent, Advanced, Serving, Run
    <2> QED BY <1>1, <1>7, <2>2, UnregisterType DEF SentTerminal
<1>8. CASE Finish(s)
    <2>1. run'[s] = [r EXCEPT !.pc = "done", !.cancelled = FALSE]
        BY <1>1, <1>8 DEF Finish
    <2> QED BY <1>1, <1>8, <2>1 DEF Finish, Advanced, Serving, Run
<1>9. CASE CancelledInAttempt(s)
    <2>1. run'[s] = [r EXCEPT !.pc = "finishing", !.cancelled = FALSE]
        BY <1>1, <1>9 DEF CancelledInAttempt
    <2>2. Advanced(r, run'[s]) /\ ~Serving(s)'
        BY <1>1, <2>1 DEF Advanced, Serving, Run
    <2> QED BY <1>1, <1>9, <2>2, UnregisterType DEF CancelledInAttempt
<1>10. CASE CancelledInSend(s)
    <2>1. run'[s] = [r EXCEPT !.pc = "abandoned", !.cancelled = FALSE, !.event = NoEvent]
        BY <1>1, <1>10 DEF CancelledInSend
    <2> QED BY <1>1, <1>10, <2>1 DEF CancelledInSend, Advanced, Serving, Run
<1>11. CASE CloseGenerator(s)
    <2>1. run'[s] = [r EXCEPT !.pc = "done"]
        BY <1>1, <1>11 DEF CloseGenerator
    <2>2. Advanced(r, run'[s]) /\ ~Serving(s)'
        BY <1>1, <1>11, <2>1 DEF CloseGenerator, Advanced, Serving, Run
    <2>3. Unregister(s, FALSE) /\ run[s] \in Run
        BY <1>1, <1>11 DEF CloseGenerator
    <2>4. \A p \in Processes, t \in Threads :
            \/ registry'[p][t] = registry[p][t]
            \/ registry'[p][t] = NoTask /\ registry[p][t] # NoTask /\ TaskDone(registry[p][t])
        BY <2>3, UnregisterType
    <2> QED BY <2>2, <2>4
<1> QED BY <1>2, <1>3, <1>4, <1>5, <1>6, <1>7, <1>8, <1>9, <1>10, <1>11 DEF StreamStep

\* The registry keeps the streams nobody stopped.
LEMMA LiveStep ==
    ASSUME TypeOK, EntriesAreOpen, LiveIsReachable, [Next]_vars
    PROVE  LiveIsReachable'
<1> USE StreamsAssumption
<1>1. CASE UNCHANGED vars
    BY <1>1 DEF LiveIsReachable, Serving, vars
<1>2. ASSUME NEW s \in Streams, Start(s) \/ StartFails(s) PROVE LiveIsReachable'
    <2>1. PICK p \in Processes, t \in Threads : Starts(s, p, t)
        BY <1>2, StartShape
    <2>2. registry' \in {[registry EXCEPT ![p][t] = s], [registry EXCEPT ![p][t] = NoTask]}
        BY <2>1 DEF Starts
    <2>3. \A q \in Processes, u \in Threads :
            registry'[q][u] = registry[q][u] \/ (q = p /\ u = t)
        BY <2>2 DEF TypeOK
    <2>4. ASSUME NEW x \in Streams, x # s, Serving(x)', ~run'[x].cancelled
          PROVE  registry'[run'[x].process][run'[x].thread] = x
        <3>1. run'[x] = run[x]
            BY <2>1, <2>4, FlaggedIsRun DEF Starts, SameOrFlagged
        <3>2. Serving(x) /\ ~run[x].cancelled
            BY <2>4, <3>1 DEF Serving
        <3>3. registry[run[x].process][run[x].thread] = x
            BY <3>2 DEF LiveIsReachable
        <3>4. run[x] \in Run /\ run[x].process \in Processes /\ run[x].thread \in Threads
            BY <3>2, BornIsRun DEF Serving, Run
        <3>5. x # registry[p][t]
            <4>1. ~TaskDone(x)
                BY <3>2 DEF Serving, TaskDone
            <4> QED BY <2>1, <2>4, <3>1, <3>2, <3>4, <4>1, FlaggedIsRun DEF Starts
        <3> QED BY <2>3, <3>1, <3>3, <3>4, <3>5
    <2>5. Serving(s)' => registry'[run'[s].process][run'[s].thread] = s
        BY <2>1 DEF Starts, Serving, NewRun, TypeOK
    <2> QED BY <2>4, <2>5 DEF LiveIsReachable
<1>3. ASSUME NEW s \in Streams, StreamStep(s) PROVE LiveIsReachable'
    <2>1. ASSUME NEW x \in Streams, Serving(x)', ~run'[x].cancelled
          PROVE  registry'[run'[x].process][run'[x].thread] = x
        <3>1. /\ Serving(x) /\ ~run[x].cancelled
              /\ run'[x].process = run[x].process /\ run'[x].thread = run[x].thread
            BY <1>3, <2>1, StepShape, StepEffect DEF Serving, Advanced
        <3>2. registry[run[x].process][run[x].thread] = x
            BY <3>1 DEF LiveIsReachable
        <3>3. run[x].process \in Processes /\ run[x].thread \in Threads
            BY <3>1, BornIsRun DEF Serving, Run
        <3>4. ~TaskDone(x)
            BY <3>1 DEF Serving, TaskDone
        <3> QED BY <1>3, <2>1, <3>1, <3>2, <3>3, <3>4, StepEffect
    <2> QED BY <2>1 DEF LiveIsReachable
<1>4. CASE \/ \E s \in Streams : Disconnect(s)
           \/ \E p \in Processes, t \in Threads : CancelRequest(p, t)
    <2>1. ASSUME NEW x \in Streams, Serving(x)', ~run'[x].cancelled
          PROVE  registry'[run'[x].process][run'[x].thread] = x
        <3>1. run'[x] = run[x]
            BY <1>4, <2>1, CancelShape, FlaggedIsRun DEF SameOrFlagged
        <3>2. Serving(x) /\ ~run[x].cancelled
            BY <2>1, <3>1 DEF Serving
        <3>3. run[x].process \in Processes /\ run[x].thread \in Threads
            BY <3>2, BornIsRun DEF Serving, Run
        <3>4. registry[run[x].process][run[x].thread] = x /\ ~TaskDone(x)
            BY <3>2 DEF LiveIsReachable, Serving, TaskDone
        <3> QED BY <1>4, <3>1, <3>3, <3>4, CancelShape
    <2> QED BY <2>1 DEF LiveIsReachable
<1> QED BY <1>1, <1>2, <1>3, <1>4 DEF Next

\* Until a stream finishes or is cancelled, its generator goes on.
LEMMA Still ==
    ASSUME TypeOK, NEW s \in Streams,
           \/ RuntimeReady(s) \/ NextChunk(s) \/ AnswerEnds(s)
           \/ AttemptFails(s) \/ SentMore(s)
    PROVE  Serving(s)'
<1>1. run[s] \in Run
    BY StepShape DEF StreamStep
<1>2. CASE RuntimeReady(s)
    BY <1>1, <1>2 DEF RuntimeReady, Yields, Serving, TypeOK, Run
<1>3. CASE NextChunk(s)
    <2>1. run'[s] = Yields([run[s] EXCEPT !.emitted = TRUE], "chunk")
        BY <1>1, <1>3 DEF NextChunk, TypeOK
    <2> QED BY <1>1, <2>1 DEF Yields, Serving, Run
<1>4. CASE AnswerEnds(s)
    BY <1>1, <1>4 DEF AnswerEnds, Yields, Serving, TypeOK, Run
<1>5. CASE AttemptFails(s)
    BY <1>1, <1>5 DEF AttemptFails, NextAttempt, Yields, Serving, TypeOK, Run
<1>6. CASE SentMore(s)
    BY <1>1, <1>6 DEF SentMore, Sent, Serving, TypeOK, Run
<1> QED BY <1>2, <1>3, <1>4, <1>5, <1>6

\* Entries stay open: whoever closes a generator removes its entry.
LEMMA EntriesStep ==
    ASSUME TypeOK, EntriesAreOpen, [Next]_vars
    PROVE  EntriesAreOpen'
<1> USE StreamsAssumption
<1> DEFINE Open == {"creating", "streaming", "sending", "abandoned"}
<1>1. CASE UNCHANGED vars
    BY <1>1 DEF EntriesAreOpen, vars
<1>2. ASSUME NEW s \in Streams, Start(s) \/ StartFails(s) PROVE EntriesAreOpen'
    <2>1. PICK p \in Processes, t \in Threads : Starts(s, p, t)
        BY <1>2, StartShape
    <2>2. ASSUME NEW q \in Processes, NEW u \in Threads, registry'[q][u] # NoTask
          PROVE  /\ run'[registry'[q][u]].pc \in Open
                 /\ run'[registry'[q][u]].process = q /\ run'[registry'[q][u]].thread = u
        <3>1. CASE q = p /\ u = t
            <4>1. registry'[q][u] = s /\ \E fallback \in BOOLEAN :
                    run'[s] = NewRun(p, t, fallback, "creating")
                BY <2>1, <2>2, <3>1 DEF Starts, TypeOK
            <4> QED BY <3>1, <4>1 DEF NewRun
        <3>2. CASE ~(q = p /\ u = t)
            <4>1. registry'[q][u] = registry[q][u]
                BY <2>1, <3>2 DEF Starts, TypeOK
            <4>2. /\ registry[q][u] \in Streams
                  /\ run[registry[q][u]].pc \in Open
                  /\ run[registry[q][u]].process = q /\ run[registry[q][u]].thread = u
                BY <2>2, <4>1 DEF EntriesAreOpen, TypeOK
            <4>3. registry[q][u] # s
                BY <1>2, <4>2, StartShape
            <4> QED BY <2>1, <4>1, <4>2, <4>3, FlaggedIsRun DEF Starts, SameOrFlagged
        <3> QED BY <3>1, <3>2
    <2> QED BY <2>2 DEF EntriesAreOpen
<1>3. ASSUME NEW s \in Streams, StreamStep(s) PROVE EntriesAreOpen'
    <2>1. ASSUME NEW q \in Processes, NEW u \in Threads, registry'[q][u] # NoTask
          PROVE  /\ run'[registry'[q][u]].pc \in Open
                 /\ run'[registry'[q][u]].process = q /\ run'[registry'[q][u]].thread = u
        <3>1. registry'[q][u] = registry[q][u]
            BY <1>3, <2>1, StepEffect
        <3>2. /\ registry[q][u] \in Streams
              /\ run[registry[q][u]].pc \in Open
              /\ run[registry[q][u]].process = q /\ run[registry[q][u]].thread = u
            BY <2>1, <3>1 DEF EntriesAreOpen, TypeOK
        <3>3. CASE registry[q][u] # s
            BY <1>3, <3>1, <3>2, <3>3, StepShape
        <3>4. CASE registry[q][u] = s
            <4>1. run[s] \in Run /\ Advanced(run[s], run'[s])
                BY <1>3, StepShape, StepEffect
            <4>2. run'[s].pc \in Open
                <5>1. CASE Serving(s)'
                    BY <5>1 DEF Serving
                <5>2. CASE SentTerminal(s)
                    <6>1. Unregister(s, TRUE)
                        BY <5>2 DEF SentTerminal
                    <6>2. registry'[run[s].process][run[s].thread] # s
                        BY <4>1, <6>1, UnregisterType
                    <6> QED BY <3>1, <3>2, <3>4, <6>2
                <5>3. CASE CancelledInAttempt(s)
                    <6>1. Unregister(s, TRUE)
                        BY <5>3 DEF CancelledInAttempt
                    <6>2. registry'[run[s].process][run[s].thread] # s
                        BY <4>1, <6>1, UnregisterType
                    <6> QED BY <3>1, <3>2, <3>4, <6>2
                <5>4. CASE CloseGenerator(s)
                    <6>1. Unregister(s, FALSE) /\ TaskDone(s)
                        BY <5>4 DEF CloseGenerator, TaskDone
                    <6> QED BY <3>1, <3>2, <3>4, <4>1, <6>1, UnregisterType
                <5>5. CASE Finish(s)
                    BY <3>2, <3>4, <5>5 DEF Finish
                <5>6. CASE CancelledInSend(s)
                    BY <4>1, <5>6 DEF CancelledInSend, TypeOK, Run
                <5> QED BY <1>3, <5>1, <5>2, <5>3, <5>4, <5>5, <5>6, Still DEF StreamStep
            <4> QED BY <3>1, <3>2, <3>4, <4>1, <4>2 DEF Advanced
        <3> QED BY <3>3, <3>4
    <2> QED BY <2>1 DEF EntriesAreOpen
<1>4. CASE \/ \E s \in Streams : Disconnect(s)
           \/ \E p \in Processes, t \in Threads : CancelRequest(p, t)
    <2>1. ASSUME NEW q \in Processes, NEW u \in Threads, registry'[q][u] # NoTask
          PROVE  /\ run'[registry'[q][u]].pc \in Open
                 /\ run'[registry'[q][u]].process = q /\ run'[registry'[q][u]].thread = u
        <3>1. registry'[q][u] = registry[q][u]
            BY <1>4, <2>1, CancelShape
        <3>2. registry[q][u] \in Streams
            BY <2>1, <3>1 DEF TypeOK
        <3>3. SameOrFlagged(registry[q][u])
            BY <1>4, <3>2, CancelShape
        <3> QED BY <2>1, <3>1, <3>2, <3>3, FlaggedIsRun DEF SameOrFlagged, EntriesAreOpen
    <2> QED BY <2>1 DEF EntriesAreOpen
<1> QED BY <1>1, <1>2, <1>3, <1>4 DEF Next

(***************************************************************************)
(* The other conjuncts of StreamInv speak of one stream at a time.         *)
(***************************************************************************)
RecordInv(r) ==
    /\ r.pc \in {"creating", "streaming", "sending"} => r.stopped = r.cancelled
    /\ r.pc = "sending" =>
        /\ r.event \in Event /\ r.event.attempt = r.attempt
        /\ r.event.kind = "chunk" => r.emitted
    /\ r.pc # "unborn" => \A i \in 1..Len(r.wire) :
        /\ r.wire[i].kind = "chunk" => r.wire[i].attempt = r.attempt /\ r.emitted
        /\ r.wire[i].kind \in Terminal =>
            i = Len(r.wire) /\ r.pc \notin {"creating", "streaming", "sending"}

LEMMA NewRunKeeps ==
    ASSUME NEW p, NEW t, NEW fallback, NEW pc \in {"creating", "done"}
    PROVE  RecordInv(NewRun(p, t, fallback, pc))
<1> DEFINE n == NewRun(p, t, fallback, pc)
<1>1. n.pc = pc /\ n.stopped = FALSE /\ n.cancelled = FALSE /\ n.wire = <<>>
    BY DEF NewRun
<1>2. 1..Len(n.wire) = {}
    BY <1>1
<1>3. RecordInv(n)
    <2> HIDE DEF n
    <2> QED BY <1>1, <1>2 DEF RecordInv
<1> QED BY <1>3

LEMMA FlaggedKeeps ==
    ASSUME NEW r \in Run, RecordInv(r)
    PROVE  RecordInv(Flagged(r))
<1> DEFINE n == Flagged(r)
<1>1. /\ n.cancelled = TRUE /\ n.stopped = TRUE
      /\ n.pc = r.pc /\ n.event = r.event /\ n.attempt = r.attempt
      /\ n.emitted = r.emitted /\ n.wire = r.wire
    BY DEF Flagged, Run
<1> HIDE DEF n
<1>2. n.stopped = n.cancelled
    BY <1>1
<1>3. RecordInv(n)
    BY <1>1, <1>2 DEF RecordInv
<1> QED BY <1>3 DEF n

LEMMA YieldsKeeps ==
    ASSUME NEW r \in Run, RecordInv(r), NEW kind \in {"warning", "chunk", "done", "error"},
           r.pc \in {"creating", "streaming"}, kind = "chunk" => r.emitted
    PROVE  RecordInv(Yields(r, kind))
<1>1. [kind |-> kind, attempt |-> r.attempt] \in Event
    BY DEF Event, Run
<1> QED BY <1>1 DEF RecordInv, Yields, Run

LEMMA NextAttemptKeeps ==
    ASSUME NEW r \in Run, RecordInv(r), Retryable(r), r.pc \in {"creating", "streaming"}
    PROVE  RecordInv(NextAttempt(r))
BY DEF RecordInv, NextAttempt, Retryable, Run

LEMMA SentKeeps ==
    ASSUME NEW r \in Run, RecordInv(r), r.pc = "sending",
           NEW pc \in {"streaming", "finishing"},
           pc = "streaming" <=> r.event.kind \notin Terminal, ~r.cancelled
    PROVE  RecordInv(Sent(r, pc))
<1> DEFINE n == Sent(r, pc)
<1>1. r.wire \in Seq(Event) /\ r.event \in Event
    BY DEF Run, RecordInv
<1>2. n.wire = Append(r.wire, r.event) /\ n.pc = pc /\ n.stopped = r.stopped
      /\ n.cancelled = r.cancelled /\ n.attempt = r.attempt /\ n.emitted = r.emitted
    BY DEF Sent, Run
<1>3. /\ Len(n.wire) = Len(r.wire) + 1 /\ Len(r.wire) \in Nat
      /\ \A i \in 1..Len(r.wire) : n.wire[i] = r.wire[i]
      /\ n.wire[Len(r.wire) + 1] = r.event
    BY <1>1, <1>2
<1>4. \A i \in 1..Len(r.wire) :
        r.wire[i].kind \notin Terminal
            /\ (r.wire[i].kind = "chunk" => r.wire[i].attempt = r.attempt /\ r.emitted)
    BY DEF RecordInv
<1>5. \A i \in 1..Len(n.wire) : i \in 1..Len(r.wire) \/ i = Len(r.wire) + 1
    BY <1>3
<1>6. \A i \in 1..Len(n.wire) :
        /\ n.wire[i].kind = "chunk" => n.wire[i].attempt = n.attempt /\ n.emitted
        /\ n.wire[i].kind \in Terminal => i = Len(n.wire) /\ n.pc = "finishing"
    BY <1>2, <1>3, <1>4, <1>5 DEF RecordInv
<1>7. n.pc # "sending" /\ n.stopped = n.cancelled
    BY <1>2 DEF RecordInv
<1> QED BY <1>6, <1>7 DEF RecordInv

LEMMA RecordStep ==
    ASSUME TypeOK, NEW s \in Streams, RecordInv(run[s]), StreamStep(s)
    PROVE  RecordInv(run'[s])
<1> DEFINE r == run[s]
<1>1. r \in Run /\ run \in [Streams -> {Unborn} \cup Run]
    BY StepShape DEF TypeOK
<1>2. CASE RuntimeReady(s)
    <2>1. run'[s] = Yields(r, "warning") \/ run'[s] = [r EXCEPT !.pc = "streaming"]
        BY <1>1, <1>2 DEF RuntimeReady
    <2>2. RecordInv([r EXCEPT !.pc = "streaming"])
        BY <1>1, <1>2 DEF RuntimeReady, RecordInv, Run
    <2> QED BY <1>1, <1>2, <2>1, <2>2, YieldsKeeps DEF RuntimeReady
<1>3. CASE NextChunk(s)
    <2> DEFINE e == [r EXCEPT !.emitted = TRUE]
    <2>1. run'[s] = Yields(e, "chunk")
        BY <1>1, <1>3 DEF NextChunk
    <2>2. e \in Run /\ e.pc = "streaming" /\ e.emitted
        BY <1>1, <1>3 DEF NextChunk, Run
    <2>3. RecordInv(e)
        BY <1>1 DEF RecordInv, Run
    <2> HIDE DEF e
    <2> QED BY <2>1, <2>2, <2>3, YieldsKeeps
<1>4. CASE AnswerEnds(s)
    <2>1. run'[s] = Yields(r, "done")
        BY <1>1, <1>4 DEF AnswerEnds
    <2> QED BY <1>1, <1>4, <2>1, YieldsKeeps DEF AnswerEnds
<1>5. CASE AttemptFails(s)
    <2>1. run'[s] = IF Retryable(r) THEN NextAttempt(r) ELSE Yields(r, "error")
        BY <1>1, <1>5 DEF AttemptFails
    <2> QED BY <1>1, <1>5, <2>1, YieldsKeeps, NextAttemptKeeps DEF AttemptFails
<1>6. CASE SentMore(s)
    <2>1. run'[s] = Sent(r, "streaming")
        BY <1>1, <1>6 DEF SentMore
    <2>2. r.pc = "sending" /\ ~r.cancelled /\ r.event.kind \notin Terminal
        BY <1>6 DEF SentMore
    <2>3. RecordInv(Sent(r, "streaming"))
        BY <1>1, <2>2, SentKeeps
    <2> QED BY <2>1, <2>3
<1>7. CASE SentTerminal(s)
    <2>1. run'[s] = Sent(r, "finishing")
        BY <1>1, <1>7 DEF SentTerminal
    <2>2. r.pc = "sending" /\ ~r.cancelled /\ ~(r.event.kind \notin Terminal)
        BY <1>7 DEF SentTerminal
    <2>3. RecordInv(Sent(r, "finishing"))
        BY <1>1, <2>2, SentKeeps
    <2> QED BY <2>1, <2>3
<1>8. CASE Finish(s)
    <2>1. run'[s] = [r EXCEPT !.pc = "done", !.cancelled = FALSE]
        BY <1>1, <1>8 DEF Finish
    <2> QED BY <1>1, <1>8, <2>1 DEF Finish, RecordInv, Run
<1>9. CASE CancelledInAttempt(s)
    <2>1. run'[s] = [r EXCEPT !.pc = "finishing", !.cancelled = FALSE]
        BY <1>1, <1>9 DEF CancelledInAttempt
    <2> QED BY <1>1, <1>9, <2>1 DEF CancelledInAttempt, RecordInv, Run
<1>10. CASE CancelledInSend(s)
    <2>1. run'[s] = [r EXCEPT !.pc = "abandoned", !.cancelled = FALSE, !.event = NoEvent]
        BY <1>1, <1>10 DEF CancelledInSend
    <2> QED BY <1>1, <1>10, <2>1 DEF CancelledInSend, RecordInv, Run
<1>11. CASE CloseGenerator(s)
    <2>1. run'[s] = [r EXCEPT !.pc = "done"]
        BY <1>1, <1>11 DEF CloseGenerator
    <2> QED BY <1>1, <1>11, <2>1 DEF CloseGenerator, RecordInv, Run
<1> QED BY <1>2, <1>3, <1>4, <1>5, <1>6, <1>7, <1>8, <1>9, <1>10, <1>11 DEF StreamStep

\* Every record keeps its invariant in every step.
LEMMA RecordsStep ==
    ASSUME TypeOK, EntriesAreOpen, \A s \in Streams : RecordInv(run[s]), [Next]_vars
    PROVE  \A s \in Streams : RecordInv(run'[s])
<1>1. CASE UNCHANGED vars
    BY <1>1 DEF vars
<1>2. ASSUME NEW x \in Streams, SameOrFlagged(x) PROVE RecordInv(run'[x])
    BY <1>2, FlaggedKeeps DEF SameOrFlagged, TaskDone
<1>3. ASSUME NEW s \in Streams, Start(s) \/ StartFails(s), NEW x \in Streams
      PROVE  RecordInv(run'[x])
    <2>1. PICK p \in Processes, t \in Threads : Starts(s, p, t)
        BY <1>3, StartShape
    <2>2. CASE x = s
        BY <2>1, <2>2, NewRunKeeps DEF Starts
    <2>3. CASE x # s
        BY <2>1, <2>3, <1>2 DEF Starts
    <2> QED BY <2>2, <2>3
<1>4. ASSUME NEW s \in Streams, StreamStep(s), NEW x \in Streams
      PROVE  RecordInv(run'[x])
    BY <1>4, StepShape, RecordStep
<1>5. CASE \/ \E s \in Streams : Disconnect(s)
           \/ \E p \in Processes, t \in Threads : CancelRequest(p, t)
    BY <1>2, <1>5, CancelShape
<1> QED BY <1>1, <1>3, <1>4, <1>5 DEF Next

-------------------------------------------------------------------------------

Inv == TypeOK /\ LiveIsReachable /\ StreamInv

LEMMA InvInit == Init => Inv
<1> SUFFICES ASSUME Init PROVE Inv
    OBVIOUS
<1> USE StreamsAssumption
<1>1. TypeOK
    BY DEF Init, TypeOK, Unborn
<1>2. \A s \in Streams : run[s].pc = "unborn"
    BY DEF Init, Unborn
<1>3. EntriesAreOpen
    BY DEF Init, EntriesAreOpen
<1> QED BY <1>1, <1>2, <1>3 DEF Inv, LiveIsReachable, Serving, StreamInv, StoppedIsCancelled,
            SendsOwnEvent, SentByThisAttempt, TerminalIsLast

LEMMA InvNext == Inv /\ [Next]_vars => Inv'
<1> SUFFICES ASSUME Inv, [Next]_vars PROVE Inv'
    OBVIOUS
<1>1. TypeOK' /\ EntriesAreOpen' /\ LiveIsReachable'
    BY TypeStep, EntriesStep, LiveStep DEF Inv, StreamInv
<1>2. \A s \in Streams : RecordInv(run[s])
    BY DEF Inv, StreamInv, StoppedIsCancelled, SendsOwnEvent, SentByThisAttempt,
        TerminalIsLast, Serving, RecordInv
<1>3. \A s \in Streams : RecordInv(run'[s])
    BY <1>2, RecordsStep DEF Inv, StreamInv
<1>4. (StoppedIsCancelled /\ SendsOwnEvent /\ SentByThisAttempt /\ TerminalIsLast)'
    BY <1>3 DEF StoppedIsCancelled, SendsOwnEvent, SentByThisAttempt, TerminalIsLast,
        Serving, RecordInv
<1> QED BY <1>1, <1>4 DEF Inv, StreamInv

(***************************************************************************)
(* A stream nobody stopped is its process's registry entry, so a cancel    *)
(* request reaches it, whatever cancelled streams clean up late.           *)
(***************************************************************************)
THEOREM LiveReachable == Spec => []LiveIsReachable
<1>1. Inv => LiveIsReachable
    BY DEF Inv
<1> QED BY <1>1, InvInit, InvNext, PTL DEF Spec

\* A client receives chunks of one attempt and nothing behind done or error.
THEOREM AnswerIsOne == Spec => []OneAnswer
<1>1. Inv => OneAnswer
    <2> SUFFICES ASSUME Inv, NEW s \in Streams, run[s].pc # "unborn",
                        NEW i \in 1..Len(run[s].wire), NEW j \in 1..Len(run[s].wire)
                 PROVE  /\ run[s].wire[i].kind = "chunk" /\ run[s].wire[j].kind = "chunk"
                            => run[s].wire[i].attempt = run[s].wire[j].attempt
                        /\ run[s].wire[i].kind \in Terminal => i = Len(run[s].wire)
        BY DEF OneAnswer
    <2> QED BY DEF Inv, StreamInv, SentByThisAttempt, TerminalIsLast
<1> QED BY <1>1, InvInit, InvNext, PTL DEF Spec

\* A stopped stream's record after a step of its own.
LEMMA SilentStep ==
    ASSUME TypeOK, StoppedIsCancelled, NEW s \in Streams, StreamStep(s), run[s].stopped
    PROVE  run'[s].wire = run[s].wire /\ run'[s].attempt = run[s].attempt
<1>1. run[s] \in Run /\ run \in [Streams -> {Unborn} \cup Run]
    BY StepShape DEF TypeOK
<1>2. Serving(s) => run[s].cancelled
    BY <1>1 DEF StoppedIsCancelled, Run
<1>3. Finish(s) \/ CancelledInAttempt(s) \/ CancelledInSend(s) \/ CloseGenerator(s)
    BY <1>2 DEF StreamStep, RuntimeReady, NextChunk, AnswerEnds, AttemptFails, SentMore,
        SentTerminal, Serving
<1>4. \/ run'[s] = [run[s] EXCEPT !.pc = "done", !.cancelled = FALSE]
      \/ run'[s] = [run[s] EXCEPT !.pc = "finishing", !.cancelled = FALSE]
      \/ run'[s] = [run[s] EXCEPT !.pc = "abandoned", !.cancelled = FALSE, !.event = NoEvent]
      \/ run'[s] = [run[s] EXCEPT !.pc = "done"]
    BY <1>1, <1>3 DEF Finish, CancelledInAttempt, CancelledInSend, CloseGenerator
<1> QED BY <1>1, <1>4 DEF Run

\* A cancelled stream sends nothing more and starts no second attempt.
THEOREM StoppedSilent == Spec => StoppedStaysSilent
<1> DEFINE Silent == \A s \in Streams :
                run[s].pc # "unborn" /\ run[s].stopped
                    => /\ run'[s].wire = run[s].wire
                       /\ run'[s].attempt = run[s].attempt
<1>1. Inv /\ [Next]_vars => [Silent]_vars
    <2> SUFFICES ASSUME Inv, [Next]_vars, NEW x \in Streams,
                        run[x].pc # "unborn", run[x].stopped
                 PROVE  run'[x].wire = run[x].wire /\ run'[x].attempt = run[x].attempt
        OBVIOUS
    <2>1. ASSUME SameOrFlagged(x)
          PROVE  run'[x].wire = run[x].wire /\ run'[x].attempt = run[x].attempt
        BY <2>1, FlaggedIsRun DEF SameOrFlagged
    <2>2. CASE UNCHANGED vars
        BY <2>2 DEF vars
    <2>3. ASSUME NEW s \in Streams, Start(s) \/ StartFails(s) PROVE SameOrFlagged(x)
        BY <2>3, StartShape DEF Inv, StreamInv, Starts
    <2>4. ASSUME NEW s \in Streams, StreamStep(s)
          PROVE  run'[x].wire = run[x].wire /\ run'[x].attempt = run[x].attempt
        BY <2>4, StepShape, SilentStep DEF Inv, StreamInv
    <2>5. CASE \/ \E s \in Streams : Disconnect(s)
               \/ \E p \in Processes, t \in Threads : CancelRequest(p, t)
        BY <2>1, <2>5, CancelShape DEF Inv, StreamInv
    <2> QED BY <2>1, <2>2, <2>3, <2>4, <2>5 DEF Next
<1> QED BY <1>1, InvInit, InvNext, PTL DEF Spec, StoppedStaysSilent

\* Every reachable state of the registries and streams is well typed.
THEOREM StreamsTypeCorrect == Spec => []TypeOK
<1>1. Inv => TypeOK
    BY DEF Inv
<1> QED BY <1>1, InvInit, InvNext, PTL DEF Spec

\* What a client has received is this attempt's, and nothing follows its end.
THEOREM StreamInvCorrect == Spec => []StreamInv
<1>1. Inv => StreamInv
    BY DEF Inv
<1> QED BY <1>1, InvInit, InvNext, PTL DEF Spec

===============================================================================
