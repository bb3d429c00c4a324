------------------------------ MODULE ClientCalls ------------------------------
(***************************************************************************)
(* The calls of window.api (web/src/lib/window-api.ts) on their way: the   *)
(* requests the server has not dealt with yet, in any order, and the       *)
(* answers that have not come back yet, in the order in which the server   *)
(* dealt with them. Answers come back in any order. An answer is           *)
(* "overtaken" when a later one of the same kind came back before it, or a *)
(* later one when either of them is of a change.                           *)
(***************************************************************************)
EXTENDS Naturals, FiniteSets, SequencesExt, Bags, BagsExt

CONSTANT Nothing  \* null

VARIABLES
    asked,    \* a bag of requests
    answers,  \* a sequence of answers
    clicks    \* how often the user has done something that asks for something

callVars == <<asked, answers, clicks>>

Changes == {"create", "delete", "update", "write", "remove", "rename", "retitle", "put", "key", "nokey"}

Request(kind, id, arg) == [kind |-> kind, id |-> id, arg |-> arg]

\* done says whether the server has finished with it, is holds what it says.
AnswerTo(r, ok, done, is) ==
    [to |-> r, ok |-> ok, done |-> done, is |-> is, overtaken |-> FALSE]

\* The requests rs are under way.
CallsInit(rs) == asked = SetToBag(rs) /\ answers = <<>> /\ clicks = 0

\* A component bounds the calls under way and the clicks.
Bounds == [calls : Nat, clicks : Nat]

Quiet == asked = EmptyBag /\ answers = <<>>

Requests == DOMAIN asked \cup {answers[i].to : i \in DOMAIN answers}

InFlight(kind) == \E r \in Requests : r.kind = kind

Within(bound, n) == BagCardinality(asked) + Len(answers) + n <= bound.calls

\* The user's click sends these requests; each effect of it sends its own.
Ask(bound, rs) ==
    /\ Within(bound, Cardinality(rs)) /\ clicks < bound.clicks
    /\ clicks' = clicks + 1
    /\ asked' = asked (+) SetToBag(rs)
    /\ UNCHANGED answers

\* The server takes request r and answers it.
Reply(r, ok, done, is) ==
    /\ asked' = BagRemove(asked, r)
    /\ answers' = Append(answers, AnswerTo(r, ok, done, is))
    /\ UNCHANGED clicks

Overtakes(i, j) ==
    LET k(n) == answers[n].to.kind
    IN  j < i /\ (k(i) = k(j) \/ k(i) \in Changes \/ k(j) \in Changes)

\* The i-th answer comes back, and the handler sends the requests rs.
Receive(bound, i, rs) ==
    /\ answers[i].done
    /\ Within(bound, Cardinality(rs) - 1)
    /\ answers' = RemoveAt([j \in DOMAIN answers |->
                               [answers[j] EXCEPT !.overtaken = @ \/ Overtakes(i, j)]], i)
    /\ asked' = asked (+) SetToBag(rs)
    /\ UNCHANGED clicks

\* loadSkills and loadMcps, which have listed these ids, decide by the selection
\* of the render they were called in; then: what the handler selects afterwards.
SelectedAfter(old, ids, now) ==
    IF old.then # Nothing THEN {old.then}
    ELSE IF old.selected \in ids \/ (old.selected = Nothing /\ ids = {}) THEN {now}
    ELSE IF ids = {} THEN {Nothing} ELSE ids

\* A key that was empty in that render is derived, perhaps as it is by now.
Renewed(old, blank) ==
    IF old.then # Nothing THEN {TRUE}
    ELSE IF old.blank THEN IF blank THEN {TRUE} ELSE BOOLEAN
    ELSE {FALSE}
=============================================================================
