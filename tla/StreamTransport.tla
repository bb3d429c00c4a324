---------------------------- MODULE StreamTransport ----------------------------
(***************************************************************************)
(* The browser's side of one answer: web/src/lib/window-api.ts reads the   *)
(* server's events and hands them to the callback that                     *)
(* createStreamGenerator of web/src/lib/window-api-transport.ts gave it;   *)
(* the callback wakes the generator or queues the event, and the           *)
(* generator yields to the user interface.                                 *)
(*                                                                         *)
(* JavaScript runs to completion: while the generator is at the head of    *)
(* its loop nothing else happens. An event is known by its place in        *)
(* `arrived', the kinds of all events the callback was given.              *)
(***************************************************************************)
EXTENDS Naturals, Sequences

CONSTANT MaxEvents    \* bound on the events of an answer

ASSUME MaxEventsAssumption == MaxEvents \in Nat

VARIABLES
    conn,          \* the fetch: "idle", "open", "aborting" (cleanup was called), "closed"
    terminal,      \* receivedTerminal of parseSSE
    arrived,
    queue,         \* eventQueue
    handed,        \* what resolveNext was called with and the generator has not seen yet
    isDone,
    hasError,
    gen,           \* where the generator is
    current,       \* the event it yielded last
    yielded,       \* the events the user interface received
    aborted        \* the user pressed stop

net == <<conn, terminal>>
mailbox == <<arrived, queue, handed, isDone, hasError>>
generator == <<gen, current, yielded>>
vars == <<conn, terminal, arrived, queue, handed, isDone, hasError, gen, current, yielded, aborted>>

Kind == {"update", "done", "error"}

Place == 1..MaxEvents

Empty == 0               \* no call of resolveNext to be seen
Null == MaxEvents + 1    \* resolveNext(null)

(***************************************************************************)
(* gen: "new"; "metadata", at the yield before the fetch; "head", at the   *)
(* head of the loop; "queued" and "waited", at the yield of an event taken *)
(* from the queue or awaited; "waiting", at the await; "ended".            *)
(***************************************************************************)
TypeOK ==
    /\ conn \in {"idle", "open", "aborting", "closed"}
    /\ terminal \in BOOLEAN
    /\ arrived \in Seq(Kind) /\ Len(arrived) <= MaxEvents
    /\ queue \in Seq(Place)
    /\ handed \in Place \cup {Empty, Null}
    /\ isDone \in BOOLEAN /\ hasError \in BOOLEAN
    /\ gen \in {"new", "metadata", "head", "queued", "waited", "waiting", "ended"}
    /\ current \in 0..MaxEvents
    /\ yielded \in Seq(Place)
    /\ aborted \in BOOLEAN

Init ==
    /\ conn = "idle" /\ terminal = FALSE
    /\ arrived = <<>> /\ queue = <<>> /\ handed = Empty
    /\ isDone = FALSE /\ hasError = FALSE
    /\ gen = "new" /\ current = 0 /\ yielded = <<>>
    /\ aborted = FALSE

-------------------------------------------------------------------------------

\* Mutant: resolveNext is kept, so a second event resolves a promise already resolved.
HandleResolvingTwice(kind) ==
    /\ Len(arrived) < MaxEvents
    /\ arrived' = Append(arrived, kind)
    /\ isDone' = (isDone \/ kind \in {"done", "error"})
    /\ hasError' = IF kind \in {"done", "error"} THEN kind = "error" ELSE hasError
    /\ IF gen = "waiting"
       THEN handed' = (IF handed = Empty THEN Len(arrived) + 1 ELSE handed) /\ UNCHANGED queue
       ELSE queue' = Append(queue, Len(arrived) + 1) /\ UNCHANGED handed

\* handleStreamEvent, on an event that becomes one SDK event.
Handle(kind) ==
    /\ Len(arrived) < MaxEvents
    /\ arrived' = Append(arrived, kind)
    /\ isDone' = (isDone \/ kind \in {"done", "error"})
    /\ hasError' = IF kind \in {"done", "error"} THEN kind = "error" ELSE hasError
    /\ IF gen = "waiting" /\ handed = Empty
       THEN handed' = Len(arrived) + 1 /\ UNCHANGED queue
       ELSE queue' = Append(queue, Len(arrived) + 1) /\ UNCHANGED handed

\* parseSSE: an event the server sent; one read may still be handled after cleanup.
ServerEvent(kind) ==
    /\ gen # "head" /\ conn \in {"open", "aborting"}
    /\ Len(arrived) + 1 < MaxEvents
    /\ ~terminal /\ terminal' = (kind \in {"done", "error"})
    /\ Handle(kind)
    /\ UNCHANGED <<conn, generator, aborted>>

\* Mutant: a stream that is closed without done or error goes unnoticed.
ServerClosesQuietly ==
    /\ gen # "head" /\ conn \in {"open", "aborting"}
    /\ conn' = "closed"
    /\ UNCHANGED <<terminal, mailbox, generator, aborted>>

\* The body ends: STREAM_CLOSED when no done or error came before.
ServerCloses ==
    /\ gen # "head" /\ conn \in {"open", "aborting"}
    /\ conn' = "closed"
    /\ IF conn = "open" /\ ~terminal THEN Handle("error") ELSE UNCHANGED mailbox
    /\ UNCHANGED <<terminal, generator, aborted>>

\* The fetch is refused or the connection breaks: STREAM_ERROR, also behind done.
FetchFails ==
    /\ gen # "head" /\ conn \in {"open", "aborting"}
    /\ conn' = "closed"
    /\ IF conn = "open" THEN Handle("error") ELSE UNCHANGED mailbox
    /\ UNCHANGED <<terminal, generator, aborted>>

\* Mutant: stopping does not wake a waiting generator.
AbortSilently ==
    /\ gen # "head" /\ ~aborted
    /\ aborted' = TRUE
    /\ IF conn = "idle"
       THEN UNCHANGED <<conn, mailbox>>
       ELSE /\ conn' = IF conn = "open" THEN "aborting" ELSE conn
            /\ isDone' = TRUE
            /\ UNCHANGED <<arrived, queue, handed, hasError>>
    /\ UNCHANGED <<terminal, generator>>

\* The listener on the abort signal, attached when the fetch is started.
Abort ==
    /\ gen # "head" /\ ~aborted
    /\ aborted' = TRUE
    /\ IF conn = "idle"
       THEN UNCHANGED <<conn, mailbox>>
       ELSE /\ conn' = IF conn = "open" THEN "aborting" ELSE conn
            /\ isDone' = TRUE
            /\ handed' = IF gen = "waiting" /\ handed = Empty THEN Null ELSE handed
            /\ UNCHANGED <<arrived, queue, hasError>>
    /\ UNCHANGED <<terminal, generator>>

-------------------------------------------------------------------------------

\* The first next(): the metadata event.
Begin ==
    /\ gen = "new"
    /\ gen' = "metadata"
    /\ UNCHANGED <<net, mailbox, current, yielded, aborted>>

\* The second next(): the fetch is started and the loop entered.
StartFetch ==
    /\ gen = "metadata"
    /\ conn' = "open"
    /\ gen' = "head"
    /\ UNCHANGED <<terminal, mailbox, current, yielded, aborted>>

LoopEnds ==
    /\ gen = "head" /\ isDone /\ queue = <<>>
    /\ gen' = "ended"
    /\ UNCHANGED <<net, mailbox, current, yielded, aborted>>

\* Mutant: the event is read but not removed from the queue.
TakeQueuedPeeking ==
    /\ gen = "head" /\ queue # <<>> /\ Len(yielded) < MaxEvents
    /\ LET event == Head(queue) IN
        IF arrived[event] = "done"
        THEN gen' = "ended" /\ UNCHANGED <<current, yielded>>
        ELSE gen' = "queued" /\ current' = event /\ yielded' = Append(yielded, event)
    /\ UNCHANGED <<net, mailbox, aborted>>

\* eventQueue.shift(): a done ends the loop, an error that is no longer one is skipped.
TakeQueued ==
    /\ gen = "head" /\ queue # <<>>
    /\ queue' = Tail(queue)
    /\ LET event == Head(queue) IN
        IF arrived[event] = "done"
        THEN gen' = "ended" /\ UNCHANGED <<current, yielded>>
        ELSE IF arrived[event] # "error" \/ hasError
        THEN gen' = "queued" /\ current' = event /\ yielded' = Append(yielded, event)
        ELSE gen' = "head" /\ UNCHANGED <<current, yielded>>
    /\ UNCHANGED <<net, arrived, handed, isDone, hasError, aborted>>

AwaitNext ==
    /\ gen = "head" /\ ~isDone /\ queue = <<>>
    /\ gen' = "waiting"
    /\ UNCHANGED <<net, mailbox, current, yielded, aborted>>

\* Mutant: resolveNext(null) is taken for an event.
TakeHandedUnchecked ==
    /\ gen = "waiting" /\ handed # Empty
    /\ handed' = Empty
    /\ IF handed # Null /\ arrived[handed] = "done"
       THEN gen' = "ended" /\ UNCHANGED <<current, yielded>>
       ELSE gen' = "waited" /\ current' = handed /\ yielded' = Append(yielded, handed)
    /\ UNCHANGED <<net, arrived, queue, isDone, hasError, aborted>>

\* The promise is resolved.
TakeHanded ==
    /\ gen = "waiting" /\ handed # Empty
    /\ handed' = Empty
    /\ IF handed = Null \/ arrived[handed] = "done"
       THEN gen' = "ended" /\ UNCHANGED <<current, yielded>>
       ELSE gen' = "waited" /\ current' = handed /\ yielded' = Append(yielded, handed)
    /\ UNCHANGED <<net, arrived, queue, isDone, hasError, aborted>>

\* Mutant: a done that has arrived ends the loop as well.
ResumeQueuedIfDone ==
    /\ gen = "queued"
    /\ gen' = IF isDone THEN "ended" ELSE "head"
    /\ UNCHANGED <<net, mailbox, current, yielded, aborted>>

\* next() behind a queued event: the loop ends if any error has arrived by now.
ResumeQueued ==
    /\ gen = "queued"
    /\ gen' = IF hasError THEN "ended" ELSE "head"
    /\ UNCHANGED <<net, mailbox, current, yielded, aborted>>

\* next() behind an awaited event: the loop ends if it was an error.
ResumeWaited ==
    /\ gen = "waited"
    /\ gen' = IF arrived[current] = "error" THEN "ended" ELSE "head"
    /\ UNCHANGED <<net, mailbox, current, yielded, aborted>>

-------------------------------------------------------------------------------

Generate ==
    \/ Begin \/ StartFetch
    \/ LoopEnds \/ TakeQueued \/ AwaitNext
    \/ TakeHanded \/ ResumeQueued \/ ResumeWaited

Next ==
    \/ \E kind \in Kind : ServerEvent(kind)
    \/ ServerCloses
    \/ FetchFails
    \/ Abort
    \/ Generate

Spec == Init /\ [][Next]_vars

\* The user interface keeps calling next(); an aborted fetch is settled by the browser.
FairSpec ==
    /\ Spec
    /\ WF_vars(Generate)
    /\ WF_vars(conn = "aborting" /\ ServerCloses)

-------------------------------------------------------------------------------

(***************************************************************************)
(* Nothing is skipped, repeated or reordered between the callback and the  *)
(* user interface, whichever events are handed over and whichever queued.  *)
(***************************************************************************)
YieldedInOrder == \A i \in 1..Len(yielded) : yielded[i] = i

(***************************************************************************)
(* An answer that ended with `done' was shown completely.                  *)
(***************************************************************************)
DoneIsComplete ==
    gen = "ended" /\ ~aborted /\ ~hasError =>
        /\ Len(arrived) = Len(yielded) + 1
        /\ arrived[Len(arrived)] = "done"

(***************************************************************************)
(* The generator never waits for an event that is already there, nor when  *)
(* none will come: nobody would wake it.                                   *)
(***************************************************************************)
NoLostWakeup ==
    gen = "waiting" /\ handed = Empty => queue = <<>> /\ ~isDone

(***************************************************************************)
(* Once the connection is over, whichever way, the generator ends: the     *)
(* thread does not stay busy.                                              *)
(***************************************************************************)
StreamEnds == conn = "closed" ~> gen = "ended"

\* Nothing arrives before the fetch.
NothingBeforeFetch == gen \in {"new", "metadata"} => conn = "idle" /\ arrived = <<>>

\* What is handed over is awaited.
HandedIsAwaited == handed # Empty => gen = "waiting"

\* An error is the last word: hasError is never reset behind it.
ErrorIsKept ==
    \A i \in 1..Len(arrived) :
        arrived[i] = "error" => hasError /\ (terminal \/ conn = "closed")

\* What arrived is what was yielded, then what is handed over, then the queue.
Held == IF handed \in Place THEN 1 ELSE 0

BacklogFollows ==
    gen # "ended" =>
        /\ Len(arrived) = Len(yielded) + Held + Len(queue)
        /\ handed \in Place => handed = Len(yielded) + 1
        /\ \A j \in 1..Len(queue) : queue[j] = Len(yielded) + Held + j

(***************************************************************************)
(* The inductive invariant: between two steps every event is in exactly    *)
(* one of three places, in its order.                                      *)
(***************************************************************************)
MailboxInv == NothingBeforeFetch /\ HandedIsAwaited /\ ErrorIsKept /\ BacklogFollows

(***************************************************************************)
(* window-api-transport.ts:227, "Yield events as they come in", and :185,  *)
(* "Otherwise queue the event": an answer the user did not stop is shown   *)
(* up to its end, a final error included. It is not: an error that arrives *)
(* behind a queued event ends the loop before the queue is empty.          *)
(***************************************************************************)
EveryEventYielded ==
    gen = "ended" /\ ~aborted =>
        \A i \in 1..Len(arrived) :
            \/ arrived[i] = "done"
            \/ \E j \in 1..(i - 1) : arrived[j] # "update"
            \/ \E j \in 1..Len(yielded) : yielded[j] = i

===============================================================================
