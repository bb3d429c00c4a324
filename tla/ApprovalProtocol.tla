--------------------------- MODULE ApprovalProtocol ---------------------------
(***************************************************************************)
(* What human-in-the-loop approval promises, without messages, streams and *)
(* tabs: the user is asked only about a call the agent waits for, a        *)
(* question is answered once, an answer meets the question it was given    *)
(* to, and a question the user still sees is never given up.               *)
(***************************************************************************)
CONSTANTS Calls,      \* calls that need an approval
          Decisions,  \* what the user may decide
          None

VARIABLES asks,     \* the calls the agent waits for
          offered,  \* the call whose buttons the user sees
          answer    \* the decision on its way to the agent

vars == <<asks, offered, answer>>

Init == asks = {} /\ offered = None /\ answer = None

\* The agent stops for a decision.
Ask ==
    /\ asks = {} /\ offered = None /\ answer = None
    /\ asks' # {} /\ asks' \subseteq Calls
    /\ UNCHANGED <<offered, answer>>

\* The user is shown one of the calls, never while an answer is on its way.
Offer ==
    /\ answer = None
    /\ offered' \in asks
    /\ UNCHANGED <<asks, answer>>

Decide ==
    /\ offered # None
    /\ offered' = None /\ answer' \in Decisions
    /\ UNCHANGED asks

\* The agent goes on with the answer to its question.
Obey ==
    /\ answer # None /\ asks # {}
    /\ asks' = {} /\ answer' = None
    /\ UNCHANGED offered

\* A stop, an error or a closed page loses the answer or the question, and so
\* does an approval without buttons that is restored in its place.
Lose ==
    /\ offered' \in {offered, None} /\ answer' \in {answer, None}
    /\ UNCHANGED asks

\* The user writes something else instead.
Withdraw ==
    /\ offered = None /\ answer = None
    /\ asks' = {}
    /\ UNCHANGED <<offered, answer>>

Next == Ask \/ Offer \/ Decide \/ Obey \/ Lose \/ Withdraw

Spec == Init /\ [][Next]_vars
=============================================================================
