------------------------- MODULE StreamTransportProofs -------------------------
(***************************************************************************)
(* Proofs about StreamTransport, for answers of any length.                *)
(***************************************************************************)
EXTENDS StreamTransport, TLAPS

Inv == TypeOK /\ YieldedInOrder /\ NoLostWakeup /\ MailboxInv

\* 0 and MaxEvents + 1 are no places.
LEMMA NoPlace == Empty \notin Place /\ Null \notin Place /\ Empty # Null
BY MaxEventsAssumption DEF Empty, Null, Place

LEMMA InvInit == Init => Inv
<1> SUFFICES ASSUME Init PROVE Inv
    OBVIOUS
<1> USE MaxEventsAssumption, NoPlace
<1>1. arrived = <<>> /\ queue = <<>> /\ yielded = <<>> /\ handed = Empty /\ gen = "new"
    BY DEF Init
<1>2. TypeOK
    <2>1. <<>> \in Seq(Kind)
        OBVIOUS
    <2>2. <<>> \in Seq(Place)
        OBVIOUS
    <2>3. Len(arrived) = 0
        BY <1>1
    <2>4. arrived \in Seq(Kind) /\ Len(arrived) <= MaxEvents
        BY <1>1, <2>1, <2>3
    <2>5. queue \in Seq(Place) /\ yielded \in Seq(Place)
        BY <1>1, <2>2
    <2>6. handed \in Place \cup {Empty, Null} /\ current \in 0..MaxEvents
        BY <1>1 DEF Init
    <2>7. conn = "idle" /\ terminal = FALSE /\ isDone = FALSE /\ hasError = FALSE /\ aborted = FALSE
        BY DEF Init
    <2> QED BY <1>1, <2>4, <2>5, <2>6, <2>7, Zenon DEF TypeOK
<1>3. YieldedInOrder /\ ErrorIsKept
    BY <1>1 DEF YieldedInOrder, ErrorIsKept
<1>4. NothingBeforeFetch /\ HandedIsAwaited /\ NoLostWakeup
    BY <1>1 DEF Init, NothingBeforeFetch, HandedIsAwaited, NoLostWakeup
<1>5. BacklogFollows
    BY <1>1 DEF BacklogFollows, Held
<1> QED BY <1>2, <1>3, <1>4, <1>5 DEF Inv, MailboxInv

\* The callback files the event behind all others.
LEMMA HandleKeeps ==
    ASSUME Inv, NEW kind \in Kind, Handle(kind), gen # "head",
           conn \in {"open", "aborting"}, ~terminal \/ kind = "error",
           terminal' \in BOOLEAN, conn' \in {"open", "aborting", "closed"},
           kind = "error" => terminal' \/ conn' = "closed",
           terminal => terminal' \/ conn' = "closed",
           UNCHANGED <<gen, current, yielded, aborted>>
    PROVE  Inv'
<1> DEFINE n == Len(arrived) + 1
<1> USE MaxEventsAssumption, NoPlace
<1>1. /\ arrived \in Seq(Kind) /\ queue \in Seq(Place) /\ yielded \in Seq(Place)
      /\ Len(arrived) \in Nat /\ Len(queue) \in Nat /\ Len(yielded) \in Nat
    BY DEF Inv, TypeOK
<1>2. n \in Place
    BY <1>1 DEF Handle, Place
<1>3. /\ arrived' \in Seq(Kind) /\ Len(arrived') = n /\ n <= MaxEvents
      /\ arrived'[n] = kind /\ \A i \in 1..Len(arrived) : arrived'[i] = arrived[i]
    BY <1>1, <1>2 DEF Handle, Place
<1>4. TypeOK'
    <2>1. queue' \in Seq(Place) /\ handed' \in Place \cup {Empty, Null}
        <3>1. Append(queue, n) \in Seq(Place)
            BY <1>1, <1>2
        <3> QED BY <1>2, <3>1 DEF Handle, Inv, TypeOK
    <2>2. isDone' \in BOOLEAN /\ hasError' \in BOOLEAN
        BY DEF Handle, Inv, TypeOK
    <2> QED BY <1>3, <2>1, <2>2 DEF Inv, TypeOK
<1>5. YieldedInOrder' /\ HandedIsAwaited' /\ NothingBeforeFetch'
    BY DEF Inv, YieldedInOrder, MailboxInv, NothingBeforeFetch, HandedIsAwaited, NothingBeforeFetch, Handle
<1>6. ErrorIsKept'
    <2>1. ASSUME NEW i \in 1..Len(arrived), arrived[i] = "error"
          PROVE  kind = "error" /\ terminal
        BY <2>1 DEF Inv, MailboxInv, ErrorIsKept
    <2>2. hasError' = IF kind \in {"done", "error"} THEN kind = "error" ELSE hasError
        BY DEF Handle
    <2>3. \A i \in 1..Len(arrived') : i \in 1..Len(arrived) \/ i = n
        BY <1>1, <1>3
    <2> QED BY <1>3, <2>1, <2>2, <2>3 DEF ErrorIsKept
<1>7. NoLostWakeup'
    BY <1>2 DEF Inv, NoLostWakeup, Handle
<1>8. BacklogFollows'
    <2> SUFFICES ASSUME gen # "ended" PROVE BacklogFollows'
        BY DEF BacklogFollows
    <2>1. /\ Len(arrived) = Len(yielded) + Held + Len(queue)
          /\ handed \in Place => handed = Len(yielded) + 1
          /\ \A j \in 1..Len(queue) : queue[j] = Len(yielded) + Held + j
        BY DEF Inv, MailboxInv, BacklogFollows
    <2>2. CASE gen = "waiting" /\ handed = Empty
        <3>1. handed' = n /\ queue' = queue
            BY <2>2 DEF Handle
        <3>4. Len(queue) = 0
            BY <2>2 DEF Inv, NoLostWakeup
        <3>2. Held = 0 /\ Held' = 1
            BY <1>2, <2>2, <3>1 DEF Held
        <3> QED BY <1>1, <1>3, <2>1, <3>1, <3>2, <3>4 DEF BacklogFollows
    <2>3. CASE ~(gen = "waiting" /\ handed = Empty)
        <3>1. handed' = handed /\ queue' = Append(queue, n) /\ Held' = Held
            BY <2>3 DEF Handle, Held
        <3>2. /\ Len(queue') = Len(queue) + 1 /\ queue'[Len(queue) + 1] = n
              /\ \A j \in 1..Len(queue) : queue'[j] = queue[j]
            BY <1>1, <1>2, <3>1
        <3>3. Held \in Nat
            BY DEF Held
        <3>4. \A j \in 1..Len(queue') : queue'[j] = Len(yielded) + Held + j
            <4> SUFFICES ASSUME NEW j \in 1..Len(queue')
                         PROVE  queue'[j] = Len(yielded) + Held + j
                OBVIOUS
            <4>1. j \in 1..Len(queue) \/ j = Len(queue) + 1
                BY <1>1, <3>2
            <4>2. n = Len(yielded) + Held + (Len(queue) + 1)
                BY <1>1, <2>1, <3>3
            <4> QED BY <2>1, <3>2, <4>1, <4>2
        <3> QED BY <1>1, <1>3, <2>1, <3>1, <3>2, <3>3, <3>4 DEF BacklogFollows
    <2> QED BY <2>2, <2>3
<1> QED BY <1>4, <1>5, <1>6, <1>7, <1>8 DEF Inv, MailboxInv

LEMMA InvNext == Inv /\ [Next]_vars => Inv'
<1> SUFFICES ASSUME Inv, [Next]_vars PROVE Inv'
    OBVIOUS
<1> USE MaxEventsAssumption, NoPlace
<1>0. /\ arrived \in Seq(Kind) /\ queue \in Seq(Place) /\ yielded \in Seq(Place)
      /\ Len(arrived) \in Nat /\ Len(queue) \in Nat /\ Len(yielded) \in Nat
    BY DEF Inv, TypeOK
<1>1. CASE UNCHANGED vars
    BY <1>1 DEF vars, Inv, TypeOK, YieldedInOrder, NoLostWakeup, MailboxInv, NothingBeforeFetch,
        HandedIsAwaited, ErrorIsKept, BacklogFollows, Held
<1>2. ASSUME NEW kind \in Kind, ServerEvent(kind) PROVE Inv'
    <2>1. Handle(kind) /\ gen # "head" /\ conn \in {"open", "aborting"}
        BY <1>2 DEF ServerEvent
    <2>2. ~terminal /\ terminal' \in BOOLEAN /\ (kind = "error" => terminal')
        <3> DEFINE last == kind \in {"done", "error"}
        <3>1. ~terminal /\ terminal' = last
            BY <1>2 DEF ServerEvent
        <3>2. last \in BOOLEAN /\ (kind = "error" => last)
            OBVIOUS
        <3> HIDE DEF last
        <3> QED BY <3>1, <3>2, Zenon
    <2>3. UNCHANGED <<gen, current, yielded, aborted>> /\ conn' = conn
        BY <1>2 DEF ServerEvent, generator
    <2>4. conn' \in {"open", "aborting", "closed"}
        BY <2>1, <2>3
    <2> QED BY <2>1, <2>2, <2>3, <2>4, HandleKeeps
\* The connection ends, with or without an error for the callback.
<1>3. CASE ServerCloses \/ FetchFails
    <2>1. gen # "head" /\ conn \in {"open", "aborting"} /\ conn' = "closed"
            /\ UNCHANGED <<terminal, gen, current, yielded, aborted>>
        BY <1>3 DEF ServerCloses, FetchFails, generator
    <2>2. CASE Handle("error")
        BY <2>1, <2>2, HandleKeeps DEF Kind, Inv, TypeOK
    <2>3. CASE UNCHANGED mailbox
        <3>1. UNCHANGED <<arrived, queue, handed, isDone, hasError>>
            BY <2>3 DEF mailbox
        <3> QED BY <2>1, <3>1 DEF Inv, TypeOK, YieldedInOrder, NoLostWakeup, MailboxInv,
                NothingBeforeFetch, HandedIsAwaited, ErrorIsKept, BacklogFollows, Held
    <2> QED BY <1>3, <2>2, <2>3 DEF ServerCloses, FetchFails
<1>4. CASE Abort
    <2>1. UNCHANGED <<terminal, gen, current, yielded, arrived, queue, hasError>>
        BY <1>4 DEF Abort, generator, mailbox
    <2>2. /\ handed' = handed \/ (handed' = Null /\ handed = Empty /\ gen = "waiting")
          /\ Held' = Held
          /\ handed' \in Place <=> handed \in Place
          /\ handed' = Empty /\ gen = "waiting" => isDone' = isDone /\ handed = Empty
        BY <1>4 DEF Abort, mailbox, Held
    <2>3. TypeOK'
        <3>1. conn' \in {"idle", "open", "aborting", "closed"} /\ aborted' = TRUE
            BY <1>4 DEF Abort, mailbox, Inv, TypeOK
        <3>2. isDone' \in BOOLEAN
            BY <1>4 DEF Abort, mailbox, Inv, TypeOK
        <3>3. handed' \in Place \cup {Empty, Null}
            BY <2>2 DEF Inv, TypeOK
        <3> QED BY <2>1, <3>1, <3>2, <3>3 DEF Inv, TypeOK
    <2>4. ErrorIsKept'
        BY <1>4, <2>1 DEF Abort, Inv, MailboxInv, ErrorIsKept
    <2>5. YieldedInOrder' /\ NoLostWakeup'
        BY <2>1, <2>2 DEF Inv, YieldedInOrder, NoLostWakeup
    <2>6. NothingBeforeFetch'
        BY <1>4, <2>1 DEF Abort, Inv, MailboxInv, NothingBeforeFetch
    <2>7. HandedIsAwaited'
        BY <2>1, <2>2 DEF Inv, MailboxInv, HandedIsAwaited
    <2>8. BacklogFollows'
        <3>1. handed' \in Place => handed' = handed
            BY <2>2
        <3> QED BY <2>1, <2>2, <3>1 DEF Inv, MailboxInv, BacklogFollows
    <2> QED BY <2>3, <2>4, <2>5, <2>6, <2>7, <2>8 DEF Inv, MailboxInv
\* The generator moves without touching the mailbox.
<1>5. CASE Begin \/ StartFetch \/ LoopEnds \/ AwaitNext \/ ResumeQueued \/ ResumeWaited
    <2>1. /\ UNCHANGED <<terminal, arrived, queue, handed, isDone, hasError, current, yielded,
                         aborted>>
          /\ gen \notin {"waiting", "ended"}
          /\ gen' \in {"metadata", "head", "waiting", "ended"}
          /\ gen' = "waiting" => queue = <<>> /\ ~isDone
          /\ gen' = "metadata" => gen = "new" /\ conn' = conn
          /\ conn' = conn \/ (conn' = "open" /\ gen = "metadata")
        BY <1>5 DEF Begin, StartFetch, LoopEnds, AwaitNext, ResumeQueued, ResumeWaited, net,
            mailbox
    <2>2. TypeOK'
        BY <2>1 DEF Inv, TypeOK
    <2>3. ErrorIsKept' /\ NothingBeforeFetch'
        BY <2>1 DEF Inv, MailboxInv, ErrorIsKept, NothingBeforeFetch
    <2>4. handed = Empty
        BY <2>1 DEF Inv, MailboxInv, HandedIsAwaited
    <2> QED BY <2>1, <2>2, <2>3, <2>4 DEF Inv, YieldedInOrder, NoLostWakeup, MailboxInv,
            HandedIsAwaited, BacklogFollows, Held
\* The oldest event leaves the queue.
<1>6. CASE TakeQueued
    <2>1. /\ gen = "head" /\ queue # <<>> /\ queue' = Tail(queue) /\ handed = Empty
          /\ UNCHANGED <<conn, terminal, arrived, handed, isDone, hasError, aborted>>
        BY <1>6 DEF TakeQueued, net, Inv, MailboxInv, HandedIsAwaited
    <2>2. /\ Len(arrived) = Len(yielded) + Len(queue)
          /\ \A j \in 1..Len(queue) : queue[j] = Len(yielded) + j
        BY <2>1, <1>0 DEF Inv, MailboxInv, BacklogFollows, Held
    <2>3. /\ queue' \in Seq(Place) /\ Len(queue') = Len(queue) - 1 /\ Len(queue) > 0
          /\ \A j \in 1..Len(queue') : queue'[j] = queue[j + 1]
          /\ Head(queue) = queue[1] /\ Head(queue) \in Place
        BY <1>0, <2>1
    <2>4. Head(queue) = Len(yielded) + 1
        BY <2>2, <2>3
    <2>5. CASE gen' = "ended" /\ UNCHANGED <<current, yielded>>
        BY <2>1, <2>3, <2>5 DEF Inv, TypeOK, YieldedInOrder, NoLostWakeup, MailboxInv,
            NothingBeforeFetch, HandedIsAwaited, ErrorIsKept, BacklogFollows
    <2>6. CASE gen' = "queued" /\ current' = Head(queue) /\ yielded' = Append(yielded, Head(queue))
        <3>1. /\ yielded' \in Seq(Place) /\ Len(yielded') = Len(yielded) + 1
              /\ yielded'[Len(yielded) + 1] = Len(yielded) + 1
              /\ \A i \in 1..Len(yielded) : yielded'[i] = yielded[i]
            BY <1>0, <2>3, <2>4, <2>6
        <3>2. TypeOK'
            BY <2>1, <2>3, <2>6, <3>1 DEF Inv, TypeOK, Place
        <3>3. YieldedInOrder'
            BY <1>0, <3>1 DEF Inv, YieldedInOrder
        <3>4. BacklogFollows'
            BY <1>0, <2>1, <2>2, <2>3, <3>1 DEF BacklogFollows, Held
        <3> QED BY <2>1, <2>6, <3>2, <3>3, <3>4 DEF Inv, NoLostWakeup, MailboxInv,
                NothingBeforeFetch, HandedIsAwaited, ErrorIsKept
    \* An error in the queue still counts, so none is skipped.
    <2>7. arrived[Head(queue)] = "error" => hasError
        BY <1>0, <2>2, <2>3, <2>4 DEF Inv, MailboxInv, ErrorIsKept
    <2> QED BY <1>6, <2>5, <2>6, <2>7 DEF TakeQueued
\* The awaited event is seen.
<1>7. CASE TakeHanded
    <2>1. /\ gen = "waiting" /\ handed # Empty /\ handed' = Empty
          /\ UNCHANGED <<conn, terminal, arrived, queue, isDone, hasError, aborted>>
        BY <1>7 DEF TakeHanded, net
    <2>2. CASE gen' = "ended" /\ UNCHANGED <<current, yielded>>
        BY <2>1, <2>2 DEF Inv, TypeOK, YieldedInOrder, NoLostWakeup, MailboxInv,
            NothingBeforeFetch, HandedIsAwaited, ErrorIsKept, BacklogFollows
    <2>3. CASE /\ handed # Null
               /\ gen' = "waited" /\ current' = handed /\ yielded' = Append(yielded, handed)
        <3>1. handed \in Place
            BY <2>1, <2>3 DEF Inv, TypeOK
        <3>2. /\ handed = Len(yielded) + 1 /\ Len(arrived) = Len(yielded) + 1 + Len(queue)
              /\ \A j \in 1..Len(queue) : queue[j] = Len(yielded) + 1 + j
            BY <2>1, <3>1 DEF Inv, MailboxInv, BacklogFollows, Held
        <3>3. /\ yielded' \in Seq(Place) /\ Len(yielded') = Len(yielded) + 1
              /\ yielded'[Len(yielded) + 1] = Len(yielded) + 1
              /\ \A i \in 1..Len(yielded) : yielded'[i] = yielded[i]
            BY <1>0, <2>3, <3>1, <3>2
        <3>4. TypeOK'
            BY <2>1, <2>3, <3>1, <3>3 DEF Inv, TypeOK, Place
        <3>5. YieldedInOrder'
            BY <1>0, <3>3 DEF Inv, YieldedInOrder
        <3>6. BacklogFollows'
            BY <1>0, <2>1, <3>2, <3>3 DEF BacklogFollows, Held
        <3> QED BY <2>1, <2>3, <3>4, <3>5, <3>6 DEF Inv, NoLostWakeup, MailboxInv,
                NothingBeforeFetch, HandedIsAwaited, ErrorIsKept
    <2> QED BY <1>7, <2>2, <2>3 DEF TakeHanded
<1> QED BY <1>1, <1>2, <1>3, <1>4, <1>5, <1>6, <1>7 DEF Next, Generate

(***************************************************************************)
(* The user interface receives the events in the order they arrived, none  *)
(* skipped: what is queued is always behind what is handed over.           *)
(***************************************************************************)
THEOREM InOrder == Spec => []YieldedInOrder
<1>1. Inv => YieldedInOrder
    BY DEF Inv
<1> QED BY <1>1, InvInit, InvNext, PTL DEF Spec

\* The generator never sleeps on an event or an end that is already there.
THEOREM NeverSleeps == Spec => []NoLostWakeup
<1>1. Inv => NoLostWakeup
    BY DEF Inv
<1> QED BY <1>1, InvInit, InvNext, PTL DEF Spec

(***************************************************************************)
(* Every reachable state of the mailbox and its generator is well typed.   *)
(***************************************************************************)
THEOREM TransportTypeCorrect == Spec => []TypeOK
<1>1. Inv => TypeOK
    BY DEF Inv
<1> QED BY <1>1, InvInit, InvNext, PTL DEF Spec

\* Every event is yielded, handed over or queued, in its order.
THEOREM MailboxCorrect == Spec => []MailboxInv
<1>1. Inv => MailboxInv
    BY DEF Inv
<1> QED BY <1>1, InvInit, InvNext, PTL DEF Spec

-------------------------------------------------------------------------------

\* The user interface never sees a done.
NoDoneYielded ==
    gen # "ended" => \A i \in 1..Len(yielded) : arrived[i] # "done"

\* isDone has one of three reasons.
DoneHasReason ==
    isDone /\ ~hasError /\ ~aborted => \E i \in 1..Len(arrived) : arrived[i] = "done"

\* Only an error comes behind a done, and nothing behind an error.
DoneIsLast ==
    /\ \A i \in 1..Len(arrived) :
        arrived[i] = "done" => terminal /\ (i = Len(arrived) \/ hasError)
    /\ hasError => terminal \/ conn = "closed"

\* resolveNext(null) is Abort's; an awaited event is the last one yielded.
AwaitedIsLast ==
    /\ handed = Null => aborted
    /\ gen = "waited" => current = Len(yielded) /\ current > 0

DoneInv == NoDoneYielded /\ DoneHasReason /\ DoneIsLast /\ AwaitedIsLast /\ DoneIsComplete

\* What the generator has yielded has arrived.
LEMMA YieldedArrived ==
    ASSUME Inv, gen # "ended"
    PROVE  Len(yielded) <= Len(arrived)
<1>1. Len(queue) \in Nat /\ Held \in Nat /\ Len(arrived) \in Nat /\ Len(yielded) \in Nat
    BY DEF Inv, TypeOK, Held
<1> QED BY <1>1 DEF Inv, MailboxInv, BacklogFollows

\* The callback keeps a done the last event, unless an error follows it.
LEMMA HandleDone ==
    ASSUME Inv, DoneInv, NEW kind \in Kind, Handle(kind),
           (~terminal /\ conn # "closed") \/ kind = "error",
           kind = "done" => terminal', terminal => terminal', conn = "closed" => conn' = "closed",
           kind = "error" => terminal' \/ conn' = "closed",
           UNCHANGED <<gen, current, yielded, aborted>>
    PROVE  DoneInv'
<1> DEFINE n == Len(arrived) + 1
<1> USE MaxEventsAssumption, NoPlace
<1>1. /\ arrived \in Seq(Kind) /\ Len(arrived) \in Nat /\ Len(yielded) \in Nat
    BY DEF Inv, TypeOK
<1>2. n \in Place
    BY <1>1 DEF Handle, Place
<1>3. /\ Len(arrived') = n /\ arrived'[n] = kind
      /\ \A i \in 1..Len(arrived) : arrived'[i] = arrived[i]
      /\ \A i \in 1..n : i \in 1..Len(arrived) \/ i = n
    BY <1>1 DEF Handle
<1>4. \A i \in 1..Len(arrived) : arrived[i] = "done" => kind = "error" /\ terminal'
    BY DEF DoneInv, DoneIsLast
<1>5. hasError' = IF kind \in {"done", "error"} THEN kind = "error" ELSE hasError
    BY DEF Handle
<1>6. NoDoneYielded'
    <2> SUFFICES ASSUME gen # "ended", NEW i \in 1..Len(yielded) PROVE arrived'[i] # "done"
        BY DEF NoDoneYielded
    <2>1. i \in 1..Len(arrived)
        BY <1>1, YieldedArrived
    <2> QED BY <1>3, <2>1 DEF DoneInv, NoDoneYielded
<1>7. DoneHasReason'
    <2> SUFFICES ASSUME isDone', ~hasError', ~aborted
                 PROVE  \E i \in 1..Len(arrived') : arrived'[i] = "done"
        BY DEF DoneHasReason
    <2>1. CASE kind = "done"
        BY <1>1, <1>3, <2>1
    <2>2. CASE kind = "update"
        <3>1. isDone /\ ~hasError
            BY <1>5, <2>2 DEF Handle
        <3>2. PICK i \in 1..Len(arrived) : arrived[i] = "done"
            BY <3>1 DEF DoneInv, DoneHasReason
        <3> QED BY <1>1, <1>3, <3>2
    <2> QED BY <1>5, <2>1, <2>2 DEF Kind
<1>8. DoneIsLast'
    <2>1. hasError' => terminal' \/ conn' = "closed"
        BY <1>5 DEF DoneInv, DoneIsLast, Kind
    <2> QED BY <1>3, <1>4, <1>5, <2>1 DEF DoneIsLast
<1>9. AwaitedIsLast'
    BY <1>2 DEF DoneInv, AwaitedIsLast, Handle
<1>10. DoneIsComplete'
    <2> SUFFICES ASSUME gen = "ended", ~aborted, ~hasError' PROVE FALSE
        BY DEF DoneIsComplete
    <2>1. kind # "error" /\ ~terminal /\ conn # "closed"
        BY <1>5
    <2>2. ~hasError
        BY <2>1 DEF DoneInv, DoneIsLast
    <2>3. arrived[Len(arrived)] = "done" /\ Len(arrived) \in 1..Len(arrived)
        BY <1>1, <2>2 DEF DoneInv, DoneIsComplete
    <2> QED BY <1>4, <2>1, <2>3
<1> QED BY <1>6, <1>7, <1>8, <1>9, <1>10 DEF DoneInv

LEMMA DoneNext == Inv /\ DoneInv /\ [Next]_vars => DoneInv'
<1> SUFFICES ASSUME Inv, DoneInv, [Next]_vars PROVE DoneInv'
    OBVIOUS
<1> USE MaxEventsAssumption, NoPlace
<1>0. /\ arrived \in Seq(Kind) /\ queue \in Seq(Place) /\ yielded \in Seq(Place)
      /\ Len(arrived) \in Nat /\ Len(queue) \in Nat /\ Len(yielded) \in Nat
    BY DEF Inv, TypeOK
<1>1. CASE UNCHANGED vars
    BY <1>1 DEF vars, DoneInv, NoDoneYielded, DoneHasReason, DoneIsLast, AwaitedIsLast,
        DoneIsComplete
<1>2. ASSUME NEW kind \in Kind, ServerEvent(kind) PROVE DoneInv'
    <2>1. Handle(kind) /\ ~terminal /\ conn # "closed" /\ conn' = conn
            /\ UNCHANGED <<gen, current, yielded, aborted>>
        BY <1>2 DEF ServerEvent, generator
    <2>2. terminal' = (kind \in {"done", "error"})
        BY <1>2 DEF ServerEvent
    <2>3. kind \in {"done", "error"} => terminal'
        BY <2>2
    <2> QED BY <2>1, <2>3, HandleDone
<1>3. CASE ServerCloses \/ FetchFails
    <2>1. conn # "closed" /\ conn' = "closed" /\ UNCHANGED <<terminal, gen, current, yielded, aborted>>
        BY <1>3 DEF ServerCloses, FetchFails, generator
    <2>2. CASE Handle("error")
        BY <2>1, <2>2, HandleDone DEF Kind
    <2>3. CASE UNCHANGED mailbox
        BY <2>1, <2>3 DEF mailbox, DoneInv, NoDoneYielded, DoneHasReason, DoneIsLast,
            AwaitedIsLast, DoneIsComplete
    <2> QED BY <1>3, <2>2, <2>3 DEF ServerCloses, FetchFails
\* Whoever stopped an answer does not care for its end.
<1>4. CASE Abort
    <2>1. UNCHANGED <<terminal, gen, current, yielded, arrived, hasError>> /\ aborted'
            /\ (conn = "closed" => conn' = "closed")
        BY <1>4 DEF Abort, generator, mailbox
    <2> QED BY <2>1 DEF DoneInv, NoDoneYielded, DoneHasReason, DoneIsLast, AwaitedIsLast,
            DoneIsComplete
<1>5. CASE Begin \/ StartFetch \/ AwaitNext
    <2>1. /\ UNCHANGED <<terminal, arrived, handed, isDone, hasError, current, yielded, aborted>>
          /\ gen \notin {"waited", "ended"} /\ gen' \notin {"waited", "ended"}
        BY <1>5 DEF Begin, StartFetch, AwaitNext, net, mailbox
    <2>2. conn = "closed" => conn' = "closed"
        BY <1>5 DEF Begin, StartFetch, AwaitNext, net, Inv, MailboxInv, NothingBeforeFetch
    <2> QED BY <2>1, <2>2 DEF DoneInv, NoDoneYielded, DoneHasReason, DoneIsLast, AwaitedIsLast,
            DoneIsComplete
\* A done at the head of the loop would still be in the queue.
<1>6. CASE LoopEnds
    <2>1. /\ gen = "head" /\ isDone /\ queue = <<>> /\ gen' = "ended"
          /\ UNCHANGED <<conn, terminal, arrived, handed, isDone, hasError, current, yielded, aborted>>
        BY <1>6 DEF LoopEnds, net, mailbox
    <2>2. Len(arrived) = Len(yielded)
        <3>1. handed = Empty /\ Len(queue) = 0
            BY <2>1 DEF Inv, MailboxInv, HandedIsAwaited
        <3> QED BY <1>0, <2>1, <3>1 DEF Inv, MailboxInv, BacklogFollows, Held
    <2>3. hasError \/ aborted
        BY <2>1, <2>2 DEF DoneInv, NoDoneYielded, DoneHasReason
    <2> QED BY <2>1, <2>3 DEF DoneInv, NoDoneYielded, DoneHasReason, DoneIsLast, AwaitedIsLast,
            DoneIsComplete
<1>7. CASE ResumeQueued \/ ResumeWaited
    <2>1. /\ gen \in {"queued", "waited"} /\ gen' \in {"head", "ended"}
          /\ UNCHANGED <<conn, terminal, arrived, handed, isDone, hasError, current, yielded, aborted>>
        BY <1>7 DEF ResumeQueued, ResumeWaited, net, mailbox
    <2>2. gen' = "ended" => hasError
        <3>1. CASE ResumeQueued
            BY <3>1 DEF ResumeQueued
        <3>2. CASE ResumeWaited
            <4>1. current \in 1..Len(arrived)
                BY <1>0, <3>2, YieldedArrived DEF ResumeWaited, DoneInv, AwaitedIsLast
            <4> QED BY <3>2, <4>1 DEF ResumeWaited, Inv, MailboxInv, ErrorIsKept
        <3> QED BY <1>7, <3>1, <3>2
    <2> QED BY <2>1, <2>2 DEF DoneInv, NoDoneYielded, DoneHasReason, DoneIsLast, AwaitedIsLast,
            DoneIsComplete
\* What is taken is the first event not yielded yet.
<1>8. ASSUME NEW e \in Place, e = Len(yielded) + 1, e <= Len(arrived), gen # "ended",
             UNCHANGED <<conn, terminal, arrived, isDone, hasError, aborted>>,
             handed' = Empty,
             \/ arrived[e] = "done" /\ gen' = "ended" /\ UNCHANGED <<current, yielded>>
             \/ /\ arrived[e] # "done" /\ gen' \in {"queued", "waited"}
                /\ current' = e /\ yielded' = Append(yielded, e)
      PROVE  DoneInv'
    <2>1. e \in 1..Len(arrived)
        BY <1>0, <1>8
    <2>2. DoneHasReason' /\ DoneIsLast'
        BY <1>8 DEF DoneInv, DoneHasReason, DoneIsLast
    <2>3. CASE arrived[e] = "done"
        <3>1. ~hasError => e = Len(arrived)
            BY <2>1, <2>3 DEF DoneInv, DoneIsLast
        <3>2. DoneIsComplete'
            BY <1>8, <2>3, <3>1 DEF DoneIsComplete
        <3> QED BY <1>8, <2>2, <2>3, <3>2 DEF DoneInv, NoDoneYielded, AwaitedIsLast
    <2>4. CASE arrived[e] # "done"
        <3>1. Len(yielded') = e
            BY <1>0, <1>8, <2>4
        <3>2. NoDoneYielded'
            <4> SUFFICES ASSUME NEW i \in 1..e PROVE arrived[i] # "done"
                BY <1>8, <3>1 DEF NoDoneYielded
            <4>1. i = e \/ i \in 1..Len(yielded)
                BY <1>0, <1>8
            <4> QED BY <1>8, <2>4, <4>1 DEF DoneInv, NoDoneYielded
        <3> QED BY <1>0, <1>8, <2>2, <2>4, <3>1, <3>2 DEF DoneInv, AwaitedIsLast, DoneIsComplete
    <2> QED BY <2>3, <2>4
<1>9. CASE TakeQueued
    <2>1. /\ gen = "head" /\ queue # <<>> /\ handed = Empty
          /\ UNCHANGED <<conn, terminal, arrived, handed, isDone, hasError, aborted>>
        BY <1>9 DEF TakeQueued, net, Inv, MailboxInv, HandedIsAwaited
    <2>2. Head(queue) = Len(yielded) + 1 /\ Len(yielded) + 1 <= Len(arrived)
        BY <1>0, <2>1 DEF Inv, MailboxInv, BacklogFollows, Held
    <2>3. Head(queue) \in Place
        BY <1>0, <2>1
    \* An error is skipped only while hasError is false, and then there is none.
    <2>4. arrived[Head(queue)] = "error" => hasError
        BY <1>0, <2>2 DEF Inv, MailboxInv, ErrorIsKept
    <2>5. \/ arrived[Head(queue)] = "done" /\ gen' = "ended" /\ UNCHANGED <<current, yielded>>
          \/ /\ arrived[Head(queue)] # "done" /\ gen' = "queued"
             /\ current' = Head(queue) /\ yielded' = Append(yielded, Head(queue))
        BY <1>9, <2>4 DEF TakeQueued
    <2> QED BY <1>8, <2>1, <2>2, <2>3, <2>5
<1>10. CASE TakeHanded
    <2>1. /\ gen = "waiting" /\ handed # Empty /\ handed' = Empty
          /\ UNCHANGED <<conn, terminal, arrived, isDone, hasError, aborted>>
        BY <1>10 DEF TakeHanded, net
    <2>2. CASE handed = Null
        <3>1. aborted /\ gen' = "ended" /\ UNCHANGED <<current, yielded>>
            BY <1>10, <2>2 DEF TakeHanded, DoneInv, AwaitedIsLast
        <3> QED BY <2>1, <3>1 DEF DoneInv, NoDoneYielded, DoneHasReason, DoneIsLast,
                AwaitedIsLast, DoneIsComplete
    <2>3. CASE handed # Null
        <3>1. handed \in Place
            BY <2>1, <2>3 DEF Inv, TypeOK
        <3>2. handed = Len(yielded) + 1 /\ Len(yielded) + 1 <= Len(arrived)
            BY <1>0, <2>1, <3>1 DEF Inv, MailboxInv, BacklogFollows, Held
        <3>3. \/ arrived[handed] = "done" /\ gen' = "ended" /\ UNCHANGED <<current, yielded>>
              \/ /\ arrived[handed] # "done" /\ gen' = "waited"
                 /\ current' = handed /\ yielded' = Append(yielded, handed)
            BY <1>10, <2>3 DEF TakeHanded
        <3> QED BY <1>8, <2>1, <3>1, <3>2, <3>3
    <2> QED BY <2>2, <2>3
<1> QED BY <1>1, <1>2, <1>3, <1>4, <1>5, <1>6, <1>7, <1>9, <1>10 DEF Next, Generate

(***************************************************************************)
(* An answer that ends with neither an error nor a stop was yielded        *)
(* completely, and its last event was the server's done.                   *)
(***************************************************************************)
THEOREM DoneComplete == Spec => []DoneIsComplete
<1>1. Init => Inv /\ DoneInv
    <2>1. Init => DoneInv
        BY NoPlace DEF Init, DoneInv, NoDoneYielded, DoneHasReason, DoneIsLast, AwaitedIsLast,
            DoneIsComplete
    <2> QED BY <2>1, InvInit
<1>2. Inv /\ DoneInv /\ [Next]_vars => (Inv /\ DoneInv)'
    BY InvNext, DoneNext
<1>3. DoneInv => DoneIsComplete
    BY DEF DoneInv
<1> QED BY <1>1, <1>2, <1>3, PTL DEF Spec

===============================================================================
