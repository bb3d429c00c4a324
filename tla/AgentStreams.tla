----------------------------- MODULE AgentStreams -----------------------------
(***************************************************************************)
(* server/app/api/agent.py: the answers being streamed by the server       *)
(* processes and, in each process, the registry that maps a thread to the  *)
(* task streaming its answer.                                              *)
(*                                                                         *)
(* Everything between two await points is one step, because a process has  *)
(* one event loop; the registry's lock is never held across an await. A    *)
(* stream is suspended in one of                                           *)
(*   creating   create_runtime;                                            *)
(*   streaming  the next chunk of agent.astream;                           *)
(*   sending    the server's send of a yielded event (slow client);        *)
(*   finishing  the last send, after the generator has returned;           *)
(*   abandoned  nowhere: the task is done, the generator is still at the   *)
(*              yield at which the task was cancelled.                     *)
(* What an event carries is left out: only its kind and the attempt        *)
(* (primary model or fallback) that produced it are kept.                  *)
(***************************************************************************)
EXTENDS Naturals, Sequences

CONSTANTS
    Processes,    \* server processes, each with a registry of its own
    Threads,      \* conversation threads
    Streams,      \* requests to /agent/stream and /agent/interrupt
    NoTask,       \* no entry
    MaxEvents,    \* bound on the events of an answer before its end
    MaxCancels    \* bound on the requests to /agent/cancel

ASSUME StreamsAssumption == NoTask \notin Streams /\ MaxEvents \in Nat /\ MaxCancels \in Nat

VARIABLES
    run,         \* what each stream is doing
    registry,    \* _ACTIVE_STREAM_TASKS of each process
    cancels

vars == <<run, registry, cancels>>

Event == [kind : {"warning", "chunk", "done", "error"}, attempt : {1, 2}]

NoEvent == [kind |-> "none", attempt |-> 1]

Terminal == {"done", "error"}

Suspended == {"creating", "streaming", "sending", "finishing"}

Unborn == [pc |-> "unborn"]

(***************************************************************************)
(* cancelled: task.cancel() was called and the CancelledError is not       *)
(* delivered yet; stopped: it was ever called; event: what is being sent;  *)
(* wire: what was sent.                                                    *)
(***************************************************************************)
Run == [ pc : Suspended \cup {"abandoned", "done"}, process : Processes, thread : Threads,
         fallback : BOOLEAN, attempt : {1, 2}, emitted : BOOLEAN,
         event : Event \cup {NoEvent}, cancelled : BOOLEAN, stopped : BOOLEAN, wire : Seq(Event) ]

TypeOK ==
    /\ run \in [Streams -> {Unborn} \cup Run]
    /\ registry \in [Processes -> [Threads -> Streams \cup {NoTask}]]
    /\ cancels \in 0..MaxCancels

Init ==
    /\ run = [s \in Streams |-> Unborn]
    /\ registry = [p \in Processes |-> [t \in Threads |-> NoTask]]
    /\ cancels = 0

\* The stream is before the `finally' of its generator.
Serving(s) == run[s].pc \in {"creating", "streaming", "sending"}

\* task.done()
TaskDone(s) == run[s].pc \in {"abandoned", "done"}

-------------------------------------------------------------------------------

Flagged(r) == [r EXCEPT !.cancelled = TRUE, !.stopped = TRUE]

\* task.cancel(), a no-op on a task that is done.
Cancelled(runs, s) ==
    IF s = NoTask \/ TaskDone(s) THEN runs ELSE [runs EXCEPT ![s] = Flagged(@)]

\* Mutant: the entry is removed whoever it belongs to.
UnregisterAnyone(s, own) == registry' = [registry EXCEPT ![run[s].process][run[s].thread] = NoTask]

\* Mutant: the entry of a task that is done is not recognised.
UnregisterOwnOnly(s, own) ==
    LET entry == registry[run[s].process][run[s].thread] IN
    registry' = IF own /\ entry = s
                THEN [registry EXCEPT ![run[s].process][run[s].thread] = NoTask]
                ELSE registry

\* _unregister_active_stream_task, called by the stream's own task or by another one.
Unregister(s, own) ==
    LET entry == registry[run[s].process][run[s].thread] IN
    registry' =
        IF entry # NoTask /\ ((own /\ entry = s) \/ TaskDone(entry))
        THEN [registry EXCEPT ![run[s].process][run[s].thread] = NoTask]
        ELSE registry

NewRun(p, t, fallback, pc) ==
    [ pc |-> pc, process |-> p, thread |-> t, fallback |-> fallback, attempt |-> 1,
      emitted |-> FALSE, event |-> NoEvent, cancelled |-> FALSE, stopped |-> FALSE,
      wire |-> <<>> ]

\* _register_active_stream_task and the choice of the models to try.
Start(s) ==
    /\ run[s].pc = "unborn"
    /\ \E p \in Processes, t \in Threads, fallback \in BOOLEAN :
        /\ run' = [Cancelled(run, registry[p][t]) EXCEPT
                    ![s] = NewRun(p, t, fallback, "creating")]
        /\ registry' = [registry EXCEPT ![p][t] = s]
    /\ UNCHANGED cancels

\* The same when the default model cannot be looked up: the task fails and unregisters.
StartFails(s) ==
    /\ run[s].pc = "unborn"
    /\ \E p \in Processes, t \in Threads :
        /\ run' = [Cancelled(run, registry[p][t]) EXCEPT
                    ![s] = NewRun(p, t, FALSE, "done")]
        /\ registry' = [registry EXCEPT ![p][t] = NoTask]
    /\ UNCHANGED cancels

-------------------------------------------------------------------------------

\* yield: the event is handed to the server's send.
Yields(r, kind) == [r EXCEPT !.pc = "sending", !.event = [kind |-> kind, attempt |-> r.attempt]]

RuntimeReady(s) ==
    /\ run[s].pc = "creating" /\ ~run[s].cancelled
    /\ \E degraded \in BOOLEAN :
        run' = [run EXCEPT ![s] = IF degraded THEN Yields(@, "warning")
                                  ELSE [@ EXCEPT !.pc = "streaming"]]
    /\ UNCHANGED <<registry, cancels>>

NextChunk(s) ==
    /\ run[s].pc = "streaming" /\ ~run[s].cancelled
    /\ Len(run[s].wire) < MaxEvents
    /\ run' = [run EXCEPT ![s] = Yields([@ EXCEPT !.emitted = TRUE], "chunk")]
    /\ UNCHANGED <<registry, cancels>>

AnswerEnds(s) ==
    /\ run[s].pc = "streaming" /\ ~run[s].cancelled
    /\ run' = [run EXCEPT ![s] = Yields(@, "done")]
    /\ UNCHANGED <<registry, cancels>>

NextAttempt(r) == [r EXCEPT !.pc = "creating", !.attempt = r.attempt + 1, !.emitted = FALSE]

\* Mutant: chunks already emitted do not stop a second attempt.
RetryableAlways(r) == r.attempt = 1 /\ r.fallback

\* Mutant: the fallback is not restricted to the primary attempt.
RetryableForever(r) == r.fallback /\ ~r.emitted

\* Mutant: CancelledError is handled like any other exception.
AttemptFailsOnCancel(s) ==
    /\ run[s].pc \in {"creating", "streaming"}
    /\ run' = [run EXCEPT ![s] =
                IF @.attempt = 1 /\ @.fallback /\ ~@.emitted
                THEN [NextAttempt(@) EXCEPT !.cancelled = FALSE]
                ELSE Yields([@ EXCEPT !.cancelled = FALSE], "error")]
    /\ UNCHANGED <<registry, cancels>>

\* The primary attempt is repeated with the fallback model while nothing was emitted.
Retryable(r) == r.attempt = 1 /\ r.fallback /\ ~r.emitted

\* except Exception: create_runtime or the agent raised.
AttemptFails(s) ==
    /\ run[s].pc \in {"creating", "streaming"} /\ ~run[s].cancelled
    /\ run' = [run EXCEPT ![s] =
                IF Retryable(@) THEN NextAttempt(@) ELSE Yields(@, "error")]
    /\ UNCHANGED <<registry, cancels>>

\* The event is with the server: the generator is resumed.
Sent(r, pc) ==
    [r EXCEPT !.pc = pc, !.event = NoEvent, !.wire = Append(@, r.event)]

\* The send of a warning or a chunk is over: the generator goes on.
SentMore(s) ==
    /\ run[s].pc = "sending" /\ ~run[s].cancelled
    /\ run[s].event.kind \notin Terminal
    /\ run' = [run EXCEPT ![s] = Sent(@, "streaming")]
    /\ UNCHANGED <<registry, cancels>>

\* The send of done or error is over: the generator returns through its `finally'.
SentTerminal(s) ==
    /\ run[s].pc = "sending" /\ ~run[s].cancelled
    /\ run[s].event.kind \in Terminal
    /\ run' = [run EXCEPT ![s] = Sent(@, "finishing")]
    /\ Unregister(s, TRUE)
    /\ UNCHANGED cancels

Finish(s) ==
    /\ run[s].pc = "finishing"
    /\ run' = [run EXCEPT ![s].pc = "done", ![s].cancelled = FALSE]
    /\ UNCHANGED <<registry, cancels>>

-------------------------------------------------------------------------------

\* except asyncio.CancelledError: return
CancelledInAttempt(s) ==
    /\ run[s].pc \in {"creating", "streaming"} /\ run[s].cancelled
    /\ run' = [run EXCEPT ![s].pc = "finishing", ![s].cancelled = FALSE]
    /\ Unregister(s, TRUE)
    /\ UNCHANGED cancels

\* The CancelledError is raised in the send, outside the generator.
CancelledInSend(s) ==
    /\ run[s].pc = "sending" /\ run[s].cancelled
    /\ run' = [run EXCEPT ![s].pc = "abandoned", ![s].cancelled = FALSE,
                          ![s].event = NoEvent]
    /\ UNCHANGED <<registry, cancels>>

\* The event loop closes the garbage generator in a task of its own.
CloseGenerator(s) ==
    /\ run[s].pc = "abandoned"
    /\ run' = [run EXCEPT ![s].pc = "done"]
    /\ Unregister(s, FALSE)
    /\ UNCHANGED cancels

\* Starlette cancels the task when the client's connection is gone.
Disconnect(s) ==
    /\ run[s].pc \in Suspended /\ ~run[s].cancelled
    /\ run' = Cancelled(run, s)
    /\ UNCHANGED <<registry, cancels>>

\* _cancel_active_stream_task, in whichever process the request arrives.
CancelRequest(p, t) ==
    /\ cancels < MaxCancels /\ cancels' = cancels + 1
    /\ registry[p][t] # NoTask
    /\ run' = Cancelled(run, registry[p][t])
    /\ registry' = IF TaskDone(registry[p][t]) THEN [registry EXCEPT ![p][t] = NoTask]
                   ELSE registry

-------------------------------------------------------------------------------

StreamStep(s) ==
    \/ RuntimeReady(s)
    \/ NextChunk(s)
    \/ AnswerEnds(s)
    \/ AttemptFails(s)
    \/ SentMore(s)
    \/ SentTerminal(s)
    \/ Finish(s)
    \/ CancelledInAttempt(s)
    \/ CancelledInSend(s)
    \/ CloseGenerator(s)

Next ==
    \/ \E s \in Streams : Start(s) \/ StartFails(s) \/ StreamStep(s) \/ Disconnect(s)
    \/ \E p \in Processes, t \in Threads : CancelRequest(p, t)

Spec == Init /\ [][Next]_vars

(***************************************************************************)
(* The event loop runs every task that can run: it delivers a pending      *)
(* CancelledError, resumes a finished send (a client that does not read    *)
(* disconnects in the end) and closes garbage generators. Nothing obliges  *)
(* a model to answer.                                                      *)
(***************************************************************************)
Fairness ==
    \A s \in Streams :
        WF_vars(Finish(s) \/ CancelledInAttempt(s) \/ CancelledInSend(s) \/ CloseGenerator(s))

FairSpec == Spec /\ Fairness

-------------------------------------------------------------------------------

(***************************************************************************)
(* A stream that nobody stopped is its process's entry for its thread, so  *)
(* that a cancel request finds it and the thread's next stream replaces    *)
(* it: the late clean-up of an earlier stream never removes it.            *)
(***************************************************************************)
LiveIsReachable ==
    \A s \in Streams :
        Serving(s) /\ ~run[s].cancelled => registry[run[s].process][run[s].thread] = s

(***************************************************************************)
(* What a client receives is one answer: chunks of one attempt only,       *)
(* although the fallback starts over, and nothing behind `done' or `error'.*)
(***************************************************************************)
OneAnswer ==
    \A s \in Streams : run[s].pc # "unborn" =>
        LET wire == run[s].wire IN
        \A i, j \in 1..Len(wire) :
            /\ wire[i].kind = "chunk" /\ wire[j].kind = "chunk"
                   => wire[i].attempt = wire[j].attempt
            /\ wire[i].kind \in Terminal => i = Len(wire)

(***************************************************************************)
(* Once a stream is cancelled it sends nothing any more, neither an error  *)
(* nor the fallback model's answer (CancelledError is not an Exception).   *)
(***************************************************************************)
StoppedStaysSilent ==
    [][\A s \in Streams :
        run[s].pc # "unborn" /\ run[s].stopped
            => /\ run'[s].wire = run[s].wire
               /\ run'[s].attempt = run[s].attempt]_vars

(***************************************************************************)
(* A cancelled stream ends and leaves no entry behind, wherever the        *)
(* cancellation met it.                                                    *)
(***************************************************************************)
StopDrains ==
    \A s \in Streams :
        run[s].pc # "unborn" /\ run[s].stopped
            ~> /\ run[s].pc = "done"
               /\ registry[run[s].process][run[s].thread] # s

-------------------------------------------------------------------------------

\* What the properties above rest on, each preserved by every step.

\* An entry is a stream of that process and thread whose generator is not closed.
EntriesAreOpen ==
    \A p \in Processes, t \in Threads : registry[p][t] # NoTask =>
        LET entry == run[registry[p][t]] IN
        /\ entry.pc \in {"creating", "streaming", "sending", "abandoned"}
        /\ entry.process = p /\ entry.thread = t

\* While a stream runs, stopping it and cancelling it are the same.
StoppedIsCancelled ==
    \A s \in Streams : Serving(s) => run[s].stopped = run[s].cancelled

\* The event being sent belongs to the attempt under way.
SendsOwnEvent ==
    \A s \in Streams : run[s].pc = "sending" =>
        /\ run[s].event \in Event
        /\ run[s].event.attempt = run[s].attempt
        /\ run[s].event.kind = "chunk" => run[s].emitted

\* Every chunk sent belongs to the attempt under way, and that attempt knows.
SentByThisAttempt ==
    \A s \in Streams : run[s].pc # "unborn" =>
        \A i \in 1..Len(run[s].wire) :
            run[s].wire[i].kind = "chunk" =>
                run[s].wire[i].attempt = run[s].attempt /\ run[s].emitted

\* The generator yields nothing after done or error.
TerminalIsLast ==
    \A s \in Streams : run[s].pc # "unborn" =>
        \A i \in 1..Len(run[s].wire) :
            run[s].wire[i].kind \in Terminal => i = Len(run[s].wire) /\ ~Serving(s)

(***************************************************************************)
(* The inductive invariant: cancellation, the attempt under way and what   *)
(* was sent agree at every await point of a stream.                        *)
(***************************************************************************)
StreamInv ==
    EntriesAreOpen /\ StoppedIsCancelled /\ SendsOwnEvent /\ SentByThisAttempt /\ TerminalIsLast

===============================================================================
