------------------------------ MODULE AppShellProofs ------------------------------
(***************************************************************************)
(* Proofs about the thread list, the MCP page, the skills page and the     *)
(* model switcher with the key dialog (ThreadList, McpEditor, SkillEditor, *)
(* ModelChoice), for any threads, MCP servers, skills, files, models and   *)
(* providers and any number of calls and clicks.                           *)
(***************************************************************************)
EXTENDS MCAppShell, SeqFilterProofs, SequenceTheorems, TLAPS

-----------------------------------------------------------------------------
(* Calls: what sending, answering and coming back do to those under way.   *)

AnswerFields == {"to", "ok", "done", "is", "overtaken"}

IsAnswer(a) == DOMAIN a = AnswerFields /\ a.ok \in BOOLEAN /\ a.overtaken \in BOOLEAN

AreAnswers(as) ==
    /\ as \in Seq({as[i] : i \in DOMAIN as})
    /\ \A i \in DOMAIN as : IsAnswer(as[i])

CallsOK == IsABag(asked) /\ AreAnswers(answers)

\* Where answer k is once answer i has come back, and where the k-th was before.
New(i, k) == IF k < i THEN k ELSE k - 1

Old(i, k) == IF k < i THEN k ELSE k + 1

Says(b, a) == b.to = a.to /\ b.ok = a.ok /\ b.done = a.done /\ b.is = a.is

\* as has become bs: the i-th answer is out, and what it overtook is marked.
CameBack(as, bs, i) ==
    /\ Len(as) \in Nat /\ DOMAIN as = 1..Len(as) /\ i \in DOMAIN as
    /\ Len(bs) = Len(as) - 1 /\ DOMAIN bs = 1..Len(bs)
    /\ \A k \in DOMAIN as \ {i} : New(i, k) \in DOMAIN bs /\ Says(bs[New(i, k)], as[k])
    /\ \A k \in DOMAIN bs : Old(i, k) \in DOMAIN as \ {i} /\ Says(bs[k], as[Old(i, k)])
    /\ \A k \in DOMAIN bs : ~bs[k].overtaken =>
         /\ ~as[Old(i, k)].overtaken
         /\ Old(i, k) < i =>
              /\ as[i].to.kind \notin Changes /\ as[Old(i, k)].to.kind \notin Changes
              /\ as[i].to.kind # as[Old(i, k)].to.kind

LEMMA Sequence ==
    ASSUME NEW s, s \in Seq({s[i] : i \in DOMAIN s})
    PROVE  Len(s) \in Nat /\ DOMAIN s = 1..Len(s)
OBVIOUS

LEMMA Taken ==
    ASSUME NEW T, NEW s \in Seq(T), NEW i \in DOMAIN s
    PROVE  /\ RemoveAt(s, i) \in Seq(T) /\ Len(RemoveAt(s, i)) = Len(s) - 1
           /\ \A k \in 1..(Len(s) - 1) : Old(i, k) \in 1..Len(s) /\ RemoveAt(s, i)[k] = s[Old(i, k)]
<1> DEFINE l == SubSeq(s, 1, i - 1)
           r == SubSeq(s, i + 1, Len(s))
<1>1. i \in 1..Len(s) /\ Len(s) \in Nat
    OBVIOUS
<1>2. l \in Seq(T) /\ Len(l) = i - 1 /\ \A k \in 1..(i - 1) : l[k] = s[k]
    BY <1>1
<1>3. r \in Seq(T) /\ Len(r) = Len(s) - i /\ \A k \in 1..(Len(s) - i) : r[k] = s[k + i]
    BY <1>1
<1>4. RemoveAt(s, i) = l \o r
    BY DEF RemoveAt
<1> HIDE DEF l, r
<1>5. l \o r \in Seq(T) /\ Len(l \o r) = Len(s) - 1
    BY <1>1, <1>2, <1>3
<1>6. ASSUME NEW k \in 1..(Len(s) - 1)
      PROVE  Old(i, k) \in 1..Len(s) /\ (l \o r)[k] = s[Old(i, k)]
    <2>1. CASE k < i
        BY <1>1, <1>2, <1>3, <2>1 DEF Old
    <2>2. CASE ~(k < i)
        <3>1. k - (i - 1) \in 1..(Len(s) - i) /\ (l \o r)[k] = r[k - (i - 1)]
            BY <1>1, <1>2, <1>3, <2>2
        <3>2. k - (i - 1) + i = k + 1
            BY <1>1
        <3> QED BY <1>1, <1>3, <2>2, <3>1, <3>2 DEF Old
    <2> QED BY <2>1, <2>2
<1> QED BY <1>4, <1>5, <1>6

LEMMA Places ==
    ASSUME NEW n \in Nat, NEW i \in 1..n
    PROVE  /\ \A k \in 1..n \ {i} : New(i, k) \in 1..(n - 1) /\ Old(i, New(i, k)) = k
           /\ \A k \in 1..(n - 1) : Old(i, k) \in 1..n \ {i}
BY DEF New, Old

LEMMA AnswerComesBack ==
    ASSUME CallsOK, NEW bound, NEW i \in DOMAIN answers, NEW rs, Receive(bound, i, rs)
    PROVE  AreAnswers(answers') /\ CameBack(answers, answers', i)
<1> DEFINE marked == [j \in DOMAIN answers |->
                         [answers[j] EXCEPT !.overtaken = @ \/ Overtakes(i, j)]]
           T == {marked[j] : j \in DOMAIN marked}
<1>1. Len(answers) \in Nat /\ DOMAIN answers = 1..Len(answers)
    BY Sequence DEF CallsOK, AreAnswers
<1>2. answers' = RemoveAt(marked, i)
    BY DEF Receive
<1>3. DOMAIN marked = DOMAIN answers
    OBVIOUS
<1>4. \A j \in DOMAIN answers :
        /\ IsAnswer(marked[j]) /\ Says(marked[j], answers[j])
        /\ ~marked[j].overtaken => ~answers[j].overtaken /\ ~Overtakes(i, j)
    BY DEF CallsOK, AreAnswers, IsAnswer, AnswerFields, Says
<1>5. Overtakes(i, i) \in BOOLEAN /\ \A j \in DOMAIN answers : ~Overtakes(i, j) /\ j < i =>
        /\ answers[i].to.kind \notin Changes /\ answers[j].to.kind \notin Changes
        /\ answers[i].to.kind # answers[j].to.kind
    BY DEF Overtakes
<1> HIDE DEF marked
<1>6. marked \in Seq(T) /\ Len(marked) = Len(answers)
    BY <1>1, <1>3 DEF marked
<1> HIDE DEF T
<1>7. /\ answers' \in Seq(T) /\ Len(answers') = Len(answers) - 1
      /\ \A k \in 1..(Len(answers) - 1) :
            Old(i, k) \in 1..Len(answers) /\ answers'[k] = marked[Old(i, k)]
    BY <1>2, <1>3, <1>6, Taken
<1>8. DOMAIN answers' = 1..Len(answers') /\ Len(answers') \in Nat
    BY <1>7
<1>9. AreAnswers(answers')
    <2>1. answers' \in Seq({answers'[k] : k \in DOMAIN answers'})
        BY <1>7, <1>8
    <2> QED BY <2>1, <1>1, <1>4, <1>7, <1>8 DEF AreAnswers
<1>10. \A k \in DOMAIN answers' : Old(i, k) \in DOMAIN answers \ {i} /\ Says(answers'[k], answers[Old(i, k)])
    BY <1>1, <1>4, <1>7, <1>8, Places
<1>11. \A k \in DOMAIN answers \ {i} :
            New(i, k) \in DOMAIN answers' /\ Says(answers'[New(i, k)], answers[k])
    BY <1>1, <1>7, <1>8, <1>10, Places
<1>12. \A k \in DOMAIN answers' : ~answers'[k].overtaken =>
         /\ ~answers[Old(i, k)].overtaken
         /\ Old(i, k) < i =>
              /\ answers[i].to.kind \notin Changes /\ answers[Old(i, k)].to.kind \notin Changes
              /\ answers[i].to.kind # answers[Old(i, k)].to.kind
    BY <1>1, <1>4, <1>5, <1>7, <1>8
<1> QED BY <1>1, <1>7, <1>8, <1>9, <1>10, <1>11, <1>12 DEF CameBack

LEMMA RequestsJoin ==
    ASSUME NEW b, IsABag(b), NEW rs
    PROVE  /\ IsABag(b (+) SetToBag(rs)) /\ DOMAIN (b (+) SetToBag(rs)) = DOMAIN b \cup rs
           /\ \A r \in DOMAIN b \ rs : (b (+) SetToBag(rs))[r] = b[r]
           /\ \A r \in rs \ DOMAIN b : (b (+) SetToBag(rs))[r] = 1
<1> DEFINE c == b (+) SetToBag(rs)
<1>1. c = [e \in DOMAIN b \cup rs |-> (IF e \in DOMAIN b THEN b[e] ELSE 0) + (IF e \in rs THEN 1 ELSE 0)]
    BY DEF (+), SetToBag
<1>2. \A e \in DOMAIN b : b[e] \in Nat /\ b[e] > 0
    BY DEF IsABag
<1>3. DOMAIN c = DOMAIN b \cup rs
    BY <1>1
<1>4. \A e \in DOMAIN c : c[e] = (IF e \in DOMAIN b THEN b[e] ELSE 0) + (IF e \in rs THEN 1 ELSE 0)
    BY <1>1
<1>5. \A e \in DOMAIN c : c[e] \in {n \in Nat : n > 0}
    BY <1>2, <1>3, <1>4
<1>6. c \in [DOMAIN c -> {n \in Nat : n > 0}]
    BY <1>1, <1>3, <1>5
<1> QED BY <1>2, <1>3, <1>4, <1>6 DEF IsABag

LEMMA RequestLeaves ==
    ASSUME NEW b, IsABag(b), NEW r \in DOMAIN b
    PROVE  /\ IsABag(BagRemove(b, r)) /\ DOMAIN BagRemove(b, r) \subseteq DOMAIN b
           /\ b[r] = 1 => r \notin DOMAIN BagRemove(b, r)
           /\ \A q \in DOMAIN b : q # r =>
                q \in DOMAIN BagRemove(b, r) /\ BagRemove(b, r)[q] = b[q]
<1>1. \A e \in DOMAIN b : b[e] \in Nat /\ b[e] > 0
    BY DEF IsABag
<1>2. CASE b[r] = 1
    <2>1. BagRemove(b, r) = [e \in DOMAIN b \ {r} |-> b[e]]
        BY <1>2 DEF BagRemove
    <2> QED BY <1>1, <2>1 DEF IsABag
<1>3. CASE b[r] # 1
    <2>1. BagRemove(b, r) = [e \in DOMAIN b |-> IF e = r THEN b[e] - 1 ELSE b[e]]
        BY <1>3 DEF BagRemove
    <2>2. b[r] - 1 \in Nat /\ b[r] - 1 > 0
        BY <1>1, <1>3
    <2> QED BY <1>1, <1>3, <2>1, <2>2 DEF IsABag
<1> QED BY <1>2, <1>3

\* The server has answered r.
Replied(r, ok, is) ==
    /\ CallsOK' /\ DOMAIN asked' \subseteq DOMAIN asked
    /\ asked[r] = 1 => r \notin DOMAIN asked'
    /\ \A q \in DOMAIN asked : q # r => q \in DOMAIN asked' /\ asked'[q] = asked[q]
    /\ Len(answers) \in Nat /\ DOMAIN answers = 1..Len(answers)
    /\ Len(answers') = Len(answers) + 1 /\ DOMAIN answers' = 1..(Len(answers) + 1)
    /\ \A i \in DOMAIN answers : answers'[i] = answers[i]
    /\ answers'[Len(answers) + 1] = AnswerTo(r, ok, TRUE, is)

LEMMA ServerReplies ==
    ASSUME CallsOK, NEW r \in DOMAIN asked, NEW ok \in BOOLEAN, NEW is, NEW done, done = TRUE,
           Reply(r, ok, done, is)
    PROVE  Replied(r, ok, is)
<1> DEFINE a == AnswerTo(r, ok, done, is)
           S == {answers[i] : i \in DOMAIN answers}
           T == S \cup {a}
<1>1. Len(answers) \in Nat /\ DOMAIN answers = 1..Len(answers)
    BY Sequence DEF CallsOK, AreAnswers
<1>2. answers \in Seq(S)
    BY DEF CallsOK, AreAnswers
<1>3. answers' = Append(answers, a)
    BY DEF Reply
<1>4. IsAnswer(a)
    BY DEF IsAnswer, AnswerTo, AnswerFields
<1>5. a = AnswerTo(r, ok, TRUE, is)
    BY DEF AnswerTo
<1>6. S \subseteq T /\ a \in T
    OBVIOUS
<1> HIDE DEF a, S, T
<1>7. /\ answers' \in Seq(T) /\ Len(answers') = Len(answers) + 1
      /\ answers'[Len(answers) + 1] = a /\ \A i \in 1..Len(answers) : answers'[i] = answers[i]
    BY <1>1, <1>2, <1>3, <1>6
<1>8. DOMAIN answers' = 1..(Len(answers) + 1)
    BY <1>7
<1>9. AreAnswers(answers')
    <2>1. answers' \in Seq({answers'[i] : i \in DOMAIN answers'})
        BY <1>7, <1>8
    <2>2. \A i \in DOMAIN answers' : IsAnswer(answers'[i])
        BY <1>1, <1>4, <1>7, <1>8 DEF CallsOK, AreAnswers
    <2> QED BY <2>1, <2>2 DEF AreAnswers
<1>10. asked' = BagRemove(asked, r)
    BY DEF Reply
<1> QED BY <1>1, <1>5, <1>7, <1>8, <1>9, <1>10, RequestLeaves DEF Replied, CallsOK

\* The requests rs are sent.
Sent(rs) ==
    /\ IsABag(asked') /\ DOMAIN asked' = DOMAIN asked \cup rs
    /\ \A r \in DOMAIN asked \ rs : asked'[r] = asked[r]
    /\ \A r \in rs \ DOMAIN asked : asked'[r] = 1

LEMMA UserAsks ==
    ASSUME CallsOK, NEW bound, NEW rs, Ask(bound, rs)
    PROVE  CallsOK' /\ Sent(rs) /\ answers' = answers
<1>1. asked' = asked (+) SetToBag(rs) /\ answers' = answers
    BY DEF Ask
<1>2. AreAnswers(answers')
    BY <1>1 DEF CallsOK
<1>3. IsABag(asked)
    BY DEF CallsOK
<1> DEFINE b == asked (+) SetToBag(rs)
<1>4. /\ IsABag(b) /\ DOMAIN b = DOMAIN asked \cup rs
      /\ \A r \in DOMAIN asked \ rs : b[r] = asked[r]
      /\ \A r \in rs \ DOMAIN asked : b[r] = 1
    BY <1>3, RequestsJoin
<1>5. asked' = b
    BY <1>1
<1> HIDE DEF b
<1>6. Sent(rs)
    BY <1>4, <1>5 DEF Sent
<1> QED BY <1>1, <1>2, <1>4, <1>5, <1>6 DEF CallsOK

\* The i-th answer has come back, and rs are sent.
Received(i, rs) == CallsOK' /\ Sent(rs) /\ CameBack(answers, answers', i)

LEMMA ClientReceives ==
    ASSUME CallsOK, NEW bound, NEW i \in DOMAIN answers, NEW rs, Receive(bound, i, rs)
    PROVE  Received(i, rs)
<1>1. asked' = asked (+) SetToBag(rs) /\ IsABag(asked)
    BY DEF Receive, CallsOK
<1>2. AreAnswers(answers') /\ CameBack(answers, answers', i)
    BY AnswerComesBack
<1> DEFINE b == asked (+) SetToBag(rs)
<1>3. /\ IsABag(b) /\ DOMAIN b = DOMAIN asked \cup rs
      /\ \A r \in DOMAIN asked \ rs : b[r] = asked[r]
      /\ \A r \in rs \ DOMAIN asked : b[r] = 1
    BY <1>1, RequestsJoin
<1>4. asked' = b
    BY <1>1
<1> HIDE DEF b
<1>5. Sent(rs)
    BY <1>3, <1>4 DEF Sent
<1> QED BY <1>2, <1>3, <1>4, <1>5 DEF CallsOK, Received

-----------------------------------------------------------------------------
(* Lists: what is shown becomes the server's by the answers to come.       *)

\* After answer j there is one of a change of the list itself, ...
Relisted(as, j) ==
    \E k \in DOMAIN as : k > j /\ as[k].ok /\ as[k].to.kind \in {"create", "delete"}

\* ... or one of an update of this id.
Patched(as, j, id) ==
    \E k \in DOMAIN as : k > j /\ as[k].ok /\ as[k].to.kind = "update" /\ as[k].to.id = id

IdsIn(list) == {m.id : m \in list}

\* The list becomes the table by what the answers after the j-th say.
Leads(table, as, list, j) ==
    \/ Relisted(as, j)
    \/ /\ IdsIn(list) = IdsIn(table)
       /\ \A m \in table : m \in list \/ Patched(as, j, m.id)

\* An answer that nothing overtook leads to the table.
AnswersLead(table, as) ==
    \A j \in DOMAIN as : as[j].ok /\ ~as[j].overtaken =>
        /\ as[j].to.kind = "list" => Leads(table, as, as[j].is, j)
        /\ as[j].to.kind = "update" =>
            as[j].is \in table \/ Relisted(as, j) \/ Patched(as, j, as[j].to.id)

\* What came after answer j before answer i came back comes after l now.
LEMMA LaterAnswersStay ==
    ASSUME NEW as, NEW bs, NEW i, CameBack(as, bs, i), NEW j, NEW l,
           \A k \in DOMAIN as \ {i} : k > j => New(i, k) > l
    PROVE  /\ (i > j => ~as[i].ok \/ as[i].to.kind \notin {"create", "delete"}) =>
                 (Relisted(as, j) => Relisted(bs, l))
           /\ \A id : (i > j => ~as[i].ok \/ as[i].to.kind # "update" \/ as[i].to.id # id) =>
                 (Patched(as, j, id) => Patched(bs, l, id))
<1>1. \A k \in DOMAIN as \ {i} :
        /\ New(i, k) \in DOMAIN bs /\ bs[New(i, k)].to = as[k].to
        /\ bs[New(i, k)].ok = as[k].ok
    BY DEF CameBack, Says
<1>2. ASSUME i > j => ~as[i].ok \/ as[i].to.kind \notin {"create", "delete"}, Relisted(as, j)
      PROVE  Relisted(bs, l)
    <2>1. PICK k \in DOMAIN as : k > j /\ as[k].ok /\ as[k].to.kind \in {"create", "delete"}
        BY <1>2 DEF Relisted
    <2>2. k # i
        BY <1>2, <2>1
    <2> QED BY <1>1, <2>1, <2>2 DEF Relisted
<1>3. ASSUME NEW id, i > j => ~as[i].ok \/ as[i].to.kind # "update" \/ as[i].to.id # id,
             Patched(as, j, id)
      PROVE  Patched(bs, l, id)
    <2>1. PICK k \in DOMAIN as : k > j /\ as[k].ok /\ as[k].to.kind = "update" /\ as[k].to.id = id
        BY <1>3 DEF Patched
    <2>2. k # i
        BY <1>3, <2>1
    <2> QED BY <1>1, <2>1, <2>2 DEF Patched
<1> QED BY <1>2, <1>3

LEMMA LeadsAfterReceipt ==
    ASSUME NEW as, NEW bs, NEW i, CameBack(as, bs, i), NEW j, NEW l,
           \A k \in DOMAIN as \ {i} : k > j => New(i, k) > l,
           i > j => ~as[i].ok \/ as[i].to.kind \notin {"create", "delete", "update"},
           NEW table, NEW list, Leads(table, as, list, j)
    PROVE  Leads(table, bs, list, l)
<1>1. Relisted(as, j) => Relisted(bs, l)
    BY LaterAnswersStay
<1>2. \A id : Patched(as, j, id) => Patched(bs, l, id)
    BY LaterAnswersStay
<1> QED BY <1>1, <1>2 DEF Leads

\* Nothing later of the answer that comes back is left out.
LEMMA ListLeadsWhenReceived ==
    ASSUME NEW as, NEW bs, NEW i, CameBack(as, bs, i), NEW table, NEW list
    PROVE  /\ Leads(table, as, list, i) => Leads(table, bs, list, 0)
           /\ /\ ~as[i].ok \/ as[i].to.kind \notin {"create", "delete", "update"}
              /\ Leads(table, as, list, 0)
              => Leads(table, bs, list, 0)
<1>1. Len(as) \in Nat /\ DOMAIN as = 1..Len(as) /\ i \in 1..Len(as)
    BY DEF CameBack
<1>2. \A k \in DOMAIN as \ {i} : New(i, k) > 0
    BY <1>1 DEF New
<1>3. ~(i > i)
    BY <1>1
<1>4. Leads(table, as, list, i) => Leads(table, bs, list, 0)
    BY <1>2, <1>3, LeadsAfterReceipt
<1>5. /\ ~as[i].ok \/ as[i].to.kind \notin {"create", "delete", "update"}
      /\ Leads(table, as, list, 0)
      => Leads(table, bs, list, 0)
    BY <1>2, LeadsAfterReceipt
<1> QED BY <1>4, <1>5

LEMMA AnswersLeadAfterReceipt ==
    ASSUME NEW as, NEW bs, NEW i, CameBack(as, bs, i), NEW table, AnswersLead(table, as)
    PROVE  AnswersLead(table, bs)
<1> SUFFICES ASSUME NEW l \in DOMAIN bs, bs[l].ok, ~bs[l].overtaken
             PROVE  /\ bs[l].to.kind = "list" => Leads(table, bs, bs[l].is, l)
                    /\ bs[l].to.kind = "update" =>
                        bs[l].is \in table \/ Relisted(bs, l) \/ Patched(bs, l, bs[l].to.id)
    BY DEF AnswersLead
<1> DEFINE j == Old(i, l)
<1>1. /\ j \in DOMAIN as \ {i} /\ as[j].ok /\ ~as[j].overtaken
      /\ bs[l].to = as[j].to /\ bs[l].is = as[j].is
      /\ j < i => as[i].to.kind \notin Changes
    BY DEF CameBack, Says
<1>2. Len(as) \in Nat /\ DOMAIN as = 1..Len(as) /\ DOMAIN bs = 1..(Len(as) - 1) /\ i \in 1..Len(as)
    BY DEF CameBack
<1>3. \A k \in DOMAIN as \ {i} : k > j => New(i, k) > l
    BY <1>2 DEF New, Old
<1>4. i > j => as[i].to.kind \notin {"create", "delete", "update"}
    BY <1>1, <1>2 DEF Changes
<1> HIDE DEF j
<1>5. ASSUME as[j].to.kind = "list" PROVE Leads(table, bs, as[j].is, l)
    <2> DEFINE list == as[j].is
    <2>1. Leads(table, as, list, j)
        BY <1>1, <1>5 DEF AnswersLead
    <2> HIDE DEF list
    <2>2. Leads(table, bs, list, l)
        BY <1>3, <1>4, <2>1, LeadsAfterReceipt
    <2> QED BY <2>2 DEF list
<1>6. Relisted(as, j) => Relisted(bs, l)
    BY <1>3, <1>4, LaterAnswersStay
<1>7. \A id : Patched(as, j, id) => Patched(bs, l, id)
    BY <1>3, <1>4, LaterAnswersStay
<1> QED BY <1>1, <1>5, <1>6, <1>7 DEF AnswersLead

\* A row that an update brings back goes into the list.
LEMMA LeadsAfterUpdate ==
    ASSUME NEW as, NEW bs, NEW i, CameBack(as, bs, i), NEW table, AnswersLead(table, as),
           as[i].ok, ~as[i].overtaken, as[i].to.kind = "update", as[i].is.id = as[i].to.id,
           \A m, n \in table : m.id = n.id => m = n,
           NEW old, NEW new, IdsIn(new) = IdsIn(old),
           \A m \in old : m \in new \/ m.id = as[i].to.id,
           as[i].to.id \in IdsIn(old) => as[i].is \in new,
           Leads(table, as, old, 0)
    PROVE  Leads(table, bs, new, 0)
<1> DEFINE id == as[i].to.id
           row == as[i].is
<1>1. Len(as) \in Nat /\ DOMAIN as = 1..Len(as) /\ i \in 1..Len(as)
    BY DEF CameBack
<1>2. \A k \in DOMAIN as \ {i} : New(i, k) > 0
    BY <1>1 DEF New
<1>3. /\ Relisted(as, 0) => Relisted(bs, 0)
      /\ \A other : other # id => (Patched(as, 0, other) => Patched(bs, 0, other))
    BY <1>2, LaterAnswersStay
<1>4. /\ Relisted(as, i) => Relisted(bs, 0)
      /\ \A other : Patched(as, i, other) => Patched(bs, 0, other)
    <2>1. ~(i > i)
        BY <1>1
    <2> QED BY <1>2, <2>1, LaterAnswersStay
<1>5. row \in table \/ Relisted(as, i) \/ Patched(as, i, id)
    BY <1>1 DEF AnswersLead
<1> HIDE DEF id
<1>6. CASE Relisted(as, 0) \/ Relisted(as, i)
    BY <1>3, <1>4, <1>6 DEF Leads
<1>7. ASSUME IdsIn(old) = IdsIn(table), \A m \in table : m \in old \/ Patched(as, 0, m.id),
             row \in table \/ Patched(as, i, id)
      PROVE  Leads(table, bs, new, 0)
    <2>1. ASSUME NEW m \in table PROVE m \in new \/ Patched(bs, 0, m.id)
        <3>1. CASE m.id # id
            BY <1>3, <1>7, <3>1 DEF id
        <3>2. CASE m.id = id /\ row \in table
            <4>1. m = row
                BY <3>2 DEF id
            <4>2. id \in IdsIn(old)
                BY <1>7, <3>2 DEF IdsIn
            <4> QED BY <4>1, <4>2 DEF id
        <3>3. CASE m.id = id /\ Patched(as, i, id)
            BY <1>4, <3>3
        <3> QED BY <1>7, <3>1, <3>2, <3>3
    <2> QED BY <1>7, <2>1 DEF Leads
<1> QED BY <1>5, <1>6, <1>7 DEF Leads

\* Answering r turned the table before into the one after.
Served(r, ok, is, before, after) ==
    \/ /\ after = before
       /\ ok => r.kind \notin {"create", "delete", "update"}
       /\ ok /\ r.kind = "list" => is = before
    \/ ok /\ r.kind \in {"create", "delete"}
    \/ /\ ok /\ r.kind = "update" /\ is \in after
       /\ IdsIn(after) = IdsIn(before)
       /\ \A m \in after : m \in before \/ m.id = r.id
       /\ \A m \in before : m \in after \/ m.id = r.id

LEMMA AnswersLeadAfterReply ==
    ASSUME NEW r \in DOMAIN asked, NEW ok \in BOOLEAN, NEW is, Replied(r, ok, is),
           NEW before, NEW table, Served(r, ok, is, before, table), AnswersLead(before, answers),
           \A j \in DOMAIN answers :
                answers[j].ok /\ answers[j].to.kind = "update" => answers[j].is.id = answers[j].to.id
    PROVE  /\ AnswersLead(table, answers')
           /\ \A list : Leads(before, answers, list, 0) => Leads(table, answers', list, 0)
<1> DEFINE n == Len(answers) + 1
           as == answers
           bs == answers'
<1>1. /\ n \in Nat /\ DOMAIN as = 1..(n - 1) /\ DOMAIN bs = 1..n
      /\ \A j \in DOMAIN as : j \in DOMAIN bs /\ bs[j] = as[j] /\ j < n
    BY DEF Replied
<1>2. 0 < n /\ n \in DOMAIN bs
    BY <1>1 DEF Replied
<1>3. bs[n].to = r /\ bs[n].ok = ok /\ bs[n].is = is
    BY DEF Replied, AnswerTo
<1>4. \A j \in DOMAIN bs : j = n \/ j \in DOMAIN as
    BY <1>1
<1> HIDE DEF n, as, bs
<1>5. \A j : Relisted(as, j) => Relisted(bs, j)
    BY <1>1 DEF Relisted
<1>6. \A j, id : Patched(as, j, id) => Patched(bs, j, id)
    BY <1>1 DEF Patched
<1>7. \A j : j < n /\ ok /\ r.kind \in {"create", "delete"} => Relisted(bs, j)
    BY <1>2, <1>3 DEF Relisted
<1>8. \A j : j < n /\ ok /\ r.kind = "update" => Patched(bs, j, r.id)
    BY <1>2, <1>3 DEF Patched
<1>9. /\ ok /\ r.kind \notin {"create", "delete", "update"} => table = before
      /\ ok /\ r.kind = "list" => is = before
      /\ ~ok => table = before
      /\ ok /\ r.kind = "update" =>
            /\ is \in table /\ IdsIn(table) = IdsIn(before)
            /\ \A m \in table : m \in before \/ m.id = r.id
            /\ \A m \in before : m \in table \/ m.id = r.id
    BY DEF Served
<1>10. ASSUME NEW j, j < n, NEW list, Leads(before, as, list, j)
       PROVE  Leads(table, bs, list, j)
    <2>1. CASE ok /\ r.kind \in {"create", "delete"}
        BY <1>7, <1>10, <2>1 DEF Leads
    <2>2. CASE ok /\ r.kind = "update"
        BY <1>5, <1>6, <1>8, <1>9, <1>10, <2>2 DEF Leads
    <2>3. CASE table = before
        BY <1>5, <1>6, <1>10, <2>3 DEF Leads
    <2> QED BY <1>9, <2>1, <2>2, <2>3
<1>11. AnswersLead(table, bs)
    <2> SUFFICES ASSUME NEW j \in DOMAIN bs, bs[j].ok, ~bs[j].overtaken
                 PROVE  /\ bs[j].to.kind = "list" => Leads(table, bs, bs[j].is, j)
                        /\ bs[j].to.kind = "update" =>
                            bs[j].is \in table \/ Relisted(bs, j) \/ Patched(bs, j, bs[j].to.id)
        BY DEF AnswersLead
    <2>1. CASE j = n
        <3>1. CASE r.kind = "list"
            <4>1. table = before /\ bs[j].is = before
                BY <1>3, <1>9, <2>1, <3>1
            <4> QED BY <1>3, <2>1, <3>1, <4>1 DEF Leads
        <3>2. CASE r.kind = "update"
            BY <1>3, <1>9, <2>1, <3>2
        <3> QED BY <1>3, <2>1, <3>1, <3>2
    <2>2. CASE j \in DOMAIN as
        <3>1. bs[j] = as[j] /\ j < n
            BY <1>1, <2>2
        <3> DEFINE list == as[j].is
                   id == as[j].to.id
        <3>2. /\ as[j].to.kind = "list" => Leads(before, as, list, j)
              /\ as[j].to.kind = "update" => list \in before \/ Relisted(as, j) \/ Patched(as, j, id)
            BY <2>2, <3>1 DEF AnswersLead, as
        <3>3. as[j].ok /\ as[j].to.kind = "update" => list.id = id
            BY <2>2 DEF as
        <3> HIDE DEF list, id
        <3>4. as[j].to.kind = "list" => Leads(table, bs, list, j)
            BY <1>10, <3>1, <3>2
        <3>5. as[j].to.kind = "update" => list \in table \/ Relisted(bs, j) \/ Patched(bs, j, id)
            <4>1. CASE Relisted(as, j) \/ Patched(as, j, id)
                BY <1>5, <1>6, <4>1
            <4>2. CASE list \in before /\ as[j].to.kind = "update"
                <5>1. CASE ok /\ r.kind \in {"create", "delete"}
                    BY <1>7, <3>1, <5>1
                <5>2. CASE ok /\ r.kind = "update"
                    BY <1>8, <1>9, <3>1, <3>3, <4>2, <5>2
                <5>3. CASE table = before
                    BY <4>2, <5>3
                <5> QED BY <1>9, <5>1, <5>2, <5>3
            <4> QED BY <3>2, <4>1, <4>2
        <3> QED BY <3>1, <3>4, <3>5 DEF list, id
    <2> QED BY <1>4, <2>1, <2>2
<1> QED BY <1>2, <1>10, <1>11 DEF as, bs

-----------------------------------------------------------------------------
(* The MCP page.                                                           *)

\* A change by one of the page's handlers, or the load it waits for.
Mine(r) == r.kind \in Changes \/ (r.kind = "list" /\ r.id # "effect")

\* The calls of the model switcher, whose lanes are the chains they belong to.
ModelKinds == {"details", "default", "get", "put", "key", "nokey", "providers", "models"}

Lane(r) == IF r.kind \in ModelKinds THEN ChainOf(r)
           ELSE IF Mine(r) THEN "change" ELSE IF r.kind = "test" THEN "test" ELSE "load"

\* At most one call of a lane is under way.
Alone(lane) ==
    /\ \A q, r \in DOMAIN asked : Lane(q) = lane /\ Lane(r) = lane => q = r /\ asked[r] = 1
    /\ \A i, j \in DOMAIN answers : Lane(answers[i].to) = lane /\ Lane(answers[j].to) = lane => i = j
    /\ \A r \in DOMAIN asked, i \in DOMAIN answers : Lane(r) # lane \/ Lane(answers[i].to) # lane

UnderWay(lane) == \E r \in Requests : Lane(r) = lane

\* What was typed for an MCP server is in its own row only, and ids are unique.
OwnRow(m) == m \in McpRowType /\ m.config = m.id /\ m.secret \in {m.id, Nothing}

OwnRows(list) ==
    /\ \A m \in list : OwnRow(m)
    /\ \A m, n \in list : m.id = n.id => m = n

McpIdOrNothing == McpIds \cup {Nothing}

Renders(ids) == [selected : ids \cup {Nothing}, blank : BOOLEAN, then : ids \cup {Nothing}]

McpRequestOK(r) ==
    \/ r.kind = "list" /\ r.id \in {"effect", "create", "delete"} /\ r.arg \in Renders(McpIds)
    \/ r.kind = "create" /\ r.arg \in Renders(McpIds)
    \/ r.kind = "delete" /\ r.id \in McpIds /\ r.arg \in Renders(McpIds)
    \/ /\ r.kind = "update" /\ r.id \in McpIds /\ r.arg.on \in BOOLEAN
       /\ r.arg.config \in {r.id, Nothing} /\ r.arg.secret \in {r.id, Nothing}
    \/ r.kind = "test" /\ r.id \in McpIds

McpAnswerOK(a) ==
    /\ McpRequestOK(a.to)
    /\ a.ok =>
        /\ a.to.kind = "list" => OwnRows(a.is)
        /\ a.to.kind = "create" => a.is \in McpIds
        /\ a.to.kind = "delete" => a.is = Nothing
        /\ a.to.kind = "update" => OwnRow(a.is) /\ a.is.id = a.to.id
        /\ a.to.kind = "test" => a.is = a.to.id

McpCallsOK ==
    /\ CallsOK
    /\ \A r \in DOMAIN asked : McpRequestOK(r)
    /\ \A i \in DOMAIN answers : McpAnswerOK(answers[i])

McpPageOK ==
    /\ OwnRows(mcpRows) /\ OwnRows(mcps)
    /\ uninstalled \subseteq McpIds /\ uninstalled \cap McpIdsOf(mcpRows) = {}
    /\ selectedMcp \in McpIdOrNothing /\ testResult \in McpIdOrNothing
    /\ form \in [config : McpIdOrNothing, secret : McpIdOrNothing]
    /\ keyToDerive \in BOOLEAN /\ mcpSaving \in BOOLEAN /\ testing \in BOOLEAN
    /\ behindList \in BOOLEAN /\ strayed \in BOOLEAN

McpFormOwn == McpShown => form.config = selectedMcp /\ form.secret \in {selectedMcp, Nothing}

McpTestOwn ==
    ~strayed => /\ testResult \in {selectedMcp, Nothing}
                /\ \A r \in Requests : r.kind = "test" => r.id = selectedMcp

McpButtons ==
    /\ Alone("change") /\ Alone("test")
    /\ mcpSaving <=> UnderWay("change")
    /\ testing <=> UnderWay("test")

McpCatchesUp ==
    /\ AnswersLead(mcpRows, answers)
    /\ ~behindList => Leads(mcpRows, answers, mcps, 0) \/ InFlight("list")

McpInv == McpCallsOK /\ McpPageOK /\ McpFormOwn /\ McpTestOwn /\ McpButtons /\ McpCatchesUp

-----------------------------------------------------------------------------
\* The calls under way besides the i-th answer.
Others(i) == DOMAIN asked \cup {answers[j].to : j \in DOMAIN answers \ {i}}

LEMMA RequestsAfterReply ==
    ASSUME NEW r \in DOMAIN asked, NEW ok, NEW is, Replied(r, ok, is)
    PROVE  Requests' = Requests
<1> DEFINE n == Len(answers) + 1
<1>1. /\ answers'[n].to = r /\ DOMAIN answers' = DOMAIN answers \cup {n} /\ n \notin DOMAIN answers
      /\ \A j \in DOMAIN answers : answers'[j] = answers[j]
    BY DEF Replied, AnswerTo
<1>2. DOMAIN asked' \subseteq DOMAIN asked /\ \A q \in DOMAIN asked : q # r => q \in DOMAIN asked'
    BY DEF Replied
<1> HIDE DEF n
<1> QED BY <1>1, <1>2 DEF Requests

LEMMA RequestsAfterReceipt ==
    ASSUME NEW i \in DOMAIN answers, NEW rs, Received(i, rs)
    PROVE  Requests' = Others(i) \cup rs /\ Requests = Others(i) \cup {answers[i].to}
<1>1. \A k \in DOMAIN answers \ {i} : \E l \in DOMAIN answers' : answers'[l].to = answers[k].to
    BY DEF Received, CameBack, Says
<1>2. \A l \in DOMAIN answers' : \E k \in DOMAIN answers \ {i} : answers'[l].to = answers[k].to
    BY DEF Received, CameBack, Says
<1>3. \A q \in Requests' : q \in Others(i) \cup rs
    BY <1>2 DEF Received, Sent, Requests, Others
<1>4. \A q \in Others(i) \cup rs : q \in Requests'
    BY <1>1 DEF Received, Sent, Requests, Others
<1>5. \A q \in Requests : q \in Others(i) \cup {answers[i].to}
    BY DEF Requests, Others
<1>6. \A q \in Others(i) \cup {answers[i].to} : q \in Requests
    BY DEF Requests, Others
<1> QED BY <1>3, <1>4, <1>5, <1>6

LEMMA AloneAfterReply ==
    ASSUME NEW lane, Alone(lane), NEW r \in DOMAIN asked, NEW ok, NEW is, Replied(r, ok, is)
    PROVE  Alone(lane)' /\ (UnderWay(lane)' <=> UnderWay(lane))
<1> DEFINE n == Len(answers) + 1
<1>1. /\ answers'[n].to = r /\ DOMAIN answers' = DOMAIN answers \cup {n} /\ n \notin DOMAIN answers
      /\ \A j \in DOMAIN answers : answers'[j] = answers[j]
    BY DEF Replied, AnswerTo
<1>2. /\ DOMAIN asked' \subseteq DOMAIN asked
      /\ asked[r] = 1 => r \notin DOMAIN asked'
      /\ \A q \in DOMAIN asked : q # r => q \in DOMAIN asked' /\ asked'[q] = asked[q]
    BY DEF Replied
<1> HIDE DEF n
<1>3. \A p, q \in DOMAIN asked' : Lane(p) = lane /\ Lane(q) = lane => p = q /\ asked'[q] = 1
    BY <1>2 DEF Alone
<1>4. \A j, k \in DOMAIN answers' : Lane(answers'[j].to) = lane /\ Lane(answers'[k].to) = lane => j = k
    BY <1>1 DEF Alone
<1>5. \A q \in DOMAIN asked', j \in DOMAIN answers' : Lane(q) # lane \/ Lane(answers'[j].to) # lane
    BY <1>1, <1>2 DEF Alone
<1> QED BY <1>3, <1>4, <1>5, RequestsAfterReply DEF Alone, UnderWay

LEMMA AloneAfterAsking ==
    ASSUME NEW lane, Alone(lane), NEW rs, Sent(rs), answers' = answers,
           \/ \A r \in rs : Lane(r) # lane
           \/ ~UnderWay(lane) /\ \A q, r \in rs : Lane(q) = lane /\ Lane(r) = lane => q = r
    PROVE  /\ Alone(lane)'
           /\ UnderWay(lane)' <=> UnderWay(lane) \/ \E r \in rs : Lane(r) = lane
<1>1. ~UnderWay(lane) => /\ \A r \in DOMAIN asked : Lane(r) # lane
                         /\ \A i \in DOMAIN answers : Lane(answers[i].to) # lane
    BY DEF UnderWay, Requests
<1>2. \A p, q \in DOMAIN asked' : Lane(p) = lane /\ Lane(q) = lane => p = q /\ asked'[q] = 1
    BY <1>1 DEF Sent, Alone
<1>3. \A j, k \in DOMAIN answers' : Lane(answers'[j].to) = lane /\ Lane(answers'[k].to) = lane => j = k
    BY DEF Alone
<1>4. \A q \in DOMAIN asked', j \in DOMAIN answers' : Lane(q) # lane \/ Lane(answers'[j].to) # lane
    BY <1>1 DEF Sent, Alone
<1>5. Requests' = Requests \cup rs
    BY DEF Requests, Sent
<1> QED BY <1>2, <1>3, <1>4, <1>5 DEF Alone, UnderWay

LEMMA AloneAfterReceipt ==
    ASSUME NEW lane, Alone(lane), NEW i \in DOMAIN answers, NEW rs, Received(i, rs),
           \/ \A r \in rs : Lane(r) # lane
           \/ Lane(answers[i].to) = lane /\ \A q, r \in rs : Lane(q) = lane /\ Lane(r) = lane => q = r
    PROVE  /\ Alone(lane)'
           /\ UnderWay(lane)' <=> \/ UnderWay(lane) /\ Lane(answers[i].to) # lane
                                  \/ \E r \in rs : Lane(r) = lane
<1>1. Lane(answers[i].to) = lane => \A r \in Others(i) : Lane(r) # lane
    BY DEF Others, Alone
<1>2. Requests' = Others(i) \cup rs /\ Requests = Others(i) \cup {answers[i].to}
    BY RequestsAfterReceipt
<1>3. /\ DOMAIN asked' = DOMAIN asked \cup rs
      /\ \A r \in DOMAIN asked \ rs : asked'[r] = asked[r]
      /\ \A r \in rs \ DOMAIN asked : asked'[r] = 1
    BY DEF Received, Sent
<1>4. \A k \in DOMAIN answers' : /\ Old(i, k) \in DOMAIN answers \ {i}
                                 /\ answers'[k].to = answers[Old(i, k)].to
    BY DEF Received, CameBack, Says
<1>5. \A j, k \in DOMAIN answers' : Old(i, j) = Old(i, k) => j = k
    BY DEF Received, CameBack, Old
<1>6. \A p, q \in DOMAIN asked' : Lane(p) = lane /\ Lane(q) = lane => p = q /\ asked'[q] = 1
    BY <1>1, <1>3 DEF Alone, Others
<1>7. \A j, k \in DOMAIN answers' : Lane(answers'[j].to) = lane /\ Lane(answers'[k].to) = lane => j = k
    BY <1>4, <1>5 DEF Alone
<1>8. \A q \in DOMAIN asked', j \in DOMAIN answers' : Lane(q) # lane \/ Lane(answers'[j].to) # lane
    BY <1>1, <1>3, <1>4 DEF Alone, Others
<1> QED BY <1>1, <1>2, <1>6, <1>7, <1>8 DEF Alone, UnderWay

-----------------------------------------------------------------------------
LEMMA McpAfterReply ==
    ASSUME McpInv, NEW r \in DOMAIN asked, NEW ok \in BOOLEAN, NEW is, NEW done, done = TRUE,
           Reply(r, ok, done, is), Served(r, ok, is, mcpRows, mcpRows'), UNCHANGED pageVars,
           McpAnswerOK(AnswerTo(r, ok, TRUE, is)), OwnRows(mcpRows'),
           uninstalled' \subseteq McpIds, uninstalled' \cap McpIdsOf(mcpRows') = {}
    PROVE  McpInv'
<1>1. Replied(r, ok, is)
    BY ServerReplies DEF McpInv, McpCallsOK
<1>2. Requests' = Requests
    BY <1>1, RequestsAfterReply
<1>3. McpCallsOK'
    <2>1. CallsOK' /\ DOMAIN asked' \subseteq DOMAIN asked
        BY <1>1 DEF Replied
    <2>2. ASSUME NEW i \in DOMAIN answers' PROVE McpAnswerOK(answers'[i])
        <3>1. CASE i = Len(answers) + 1
            BY <1>1, <3>1 DEF Replied
        <3>2. CASE i # Len(answers) + 1
            BY <1>1, <3>2 DEF Replied, McpInv, McpCallsOK
        <3> QED BY <3>1, <3>2
    <2> QED BY <2>1, <2>2 DEF McpInv, McpCallsOK
<1>4. McpPageOK'
    BY DEF McpInv, McpPageOK, pageVars
<1>5. McpFormOwn'
    BY DEF McpInv, McpFormOwn, McpShown, pageVars
<1>6. McpTestOwn'
    BY <1>2 DEF McpInv, McpTestOwn, pageVars
<1>7. McpButtons'
    <2>1. \A lane \in {"change", "test"} : Alone(lane)' /\ (UnderWay(lane)' <=> UnderWay(lane))
        BY <1>1, AloneAfterReply DEF McpInv, McpButtons
    <2> QED BY <2>1 DEF McpInv, McpButtons, pageVars
<1>8. McpCatchesUp'
    <2>1. /\ AnswersLead(mcpRows', answers')
          /\ \A list : Leads(mcpRows, answers, list, 0) => Leads(mcpRows', answers', list, 0)
        <3>1. \A j \in DOMAIN answers :
                answers[j].ok /\ answers[j].to.kind = "update" => answers[j].is.id = answers[j].to.id
            BY DEF McpInv, McpCallsOK, McpAnswerOK
        <3>2. AnswersLead(mcpRows, answers)
            BY DEF McpInv, McpCatchesUp
        <3> DEFINE table == mcpRows'
        <3>3. Served(r, ok, is, mcpRows, table)
            OBVIOUS
        <3> HIDE DEF table
        <3>4. /\ AnswersLead(table, answers')
              /\ \A list : Leads(mcpRows, answers, list, 0) => Leads(table, answers', list, 0)
            BY <1>1, <3>1, <3>2, <3>3, AnswersLeadAfterReply
        <3> QED BY <3>4 DEF table
    <2>2. InFlight("list")' <=> InFlight("list")
        BY <1>2 DEF InFlight
    <2> QED BY <2>1, <2>2 DEF McpInv, McpCatchesUp, pageVars
<1> QED BY <1>3, <1>4, <1>5, <1>6, <1>7, <1>8 DEF McpInv

LEMMA McpServerStep ==
    ASSUME McpInv, NEW r \in DOMAIN asked,
           \/ ServeMcpRead(r) \/ ServeCreateMcp(r) \/ ServeUpdateMcp(r) \/ ServeDeleteMcp(r)
           \/ RefuseMcp(r)
    PROVE  McpInv'
<1> DEFINE Kept == UNCHANGED pageVars /\ OwnRows(mcpRows') /\ uninstalled' \subseteq McpIds
                   /\ uninstalled' \cap McpIdsOf(mcpRows') = {}
<1>0. /\ McpRequestOK(r) /\ OwnRows(mcpRows) /\ uninstalled \subseteq McpIds
      /\ uninstalled \cap McpIdsOf(mcpRows) = {}
    BY DEF McpInv, McpCallsOK, McpPageOK
<1>1. PICK yes \in BOOLEAN, no \in BOOLEAN : yes = TRUE /\ no = FALSE
    OBVIOUS
<1>2. CASE ServeMcpRead(r)
    <2>1. Kept /\ mcpRows' = mcpRows
        BY <1>0, <1>2 DEF ServeMcpRead, mcpVars, pageVars
    <2>2. CASE r.kind = "list" /\ Reply(r, TRUE, TRUE, mcpRows)
        <3>1. McpAnswerOK(AnswerTo(r, yes, TRUE, mcpRows))
            BY <1>0, <2>2 DEF McpAnswerOK, AnswerTo
        <3>2. Served(r, yes, mcpRows, mcpRows, mcpRows')
            BY <2>1, <2>2 DEF Served, IdsIn, McpIdsOf
        <3>3. Reply(r, yes, yes, mcpRows)
            BY <1>1, <2>2, Zenon
        <3> QED BY <1>1, <2>1, <3>1, <3>2, <3>3, McpAfterReply
    <2>3. CASE r.kind = "test" /\ Reply(r, TRUE, TRUE, r.id)
        <3>1. McpAnswerOK(AnswerTo(r, yes, TRUE, r.id))
            BY <1>0, <2>3 DEF McpAnswerOK, AnswerTo
        <3>2. Served(r, yes, r.id, mcpRows, mcpRows')
            BY <2>1, <2>3 DEF Served, IdsIn, McpIdsOf
        <3>3. Reply(r, yes, yes, r.id)
            BY <1>1, <2>3, Zenon
        <3> QED BY <1>1, <2>1, <3>1, <3>2, <3>3, McpAfterReply
    <2> QED BY <1>2, <2>2, <2>3 DEF ServeMcpRead
<1>3. CASE ServeCreateMcp(r)
    <2>1. PICK m \in uninstalled, secret \in McpIdOrNothing :
            /\ secret \in {m, Nothing} /\ uninstalled' = uninstalled \ {m}
            /\ mcpRows' = mcpRows \cup {McpRow(m, TRUE, m, secret)}
            /\ Reply(r, TRUE, TRUE, m)
        BY <1>0, <1>3 DEF ServeCreateMcp, McpIdOrNothing
    <2> DEFINE row == McpRow(m, TRUE, m, secret)
    <2>2. r.kind = "create" /\ m \in McpIds /\ UNCHANGED pageVars
        BY <1>0, <1>3 DEF ServeCreateMcp
    <2>3. OwnRow(row) /\ row.id = m
        BY <2>1, <2>2 DEF OwnRow, McpRowType, McpRow
    <2> HIDE DEF row
    <2>4. \A n \in mcpRows : n.id # m
        BY <1>0 DEF McpIdsOf
    <2>5. OwnRows(mcpRows')
        BY <1>0, <2>1, <2>3, <2>4 DEF OwnRows, row
    <2>6. uninstalled' \subseteq McpIds /\ uninstalled' \cap McpIdsOf(mcpRows') = {}
        BY <1>0, <2>1, <2>3 DEF McpIdsOf, row
    <2>7. McpAnswerOK(AnswerTo(r, yes, TRUE, m))
        BY <1>0, <2>2 DEF McpAnswerOK, AnswerTo
    <2>8. Served(r, yes, m, mcpRows, mcpRows')
        BY <1>1, <2>2 DEF Served, IdsIn, McpIdsOf
    <2>9. Reply(r, yes, yes, m)
        BY <1>1, <2>1, Zenon
    <2> QED BY <1>1, <2>2, <2>5, <2>6, <2>7, <2>8, <2>9, McpAfterReply
<1>4. CASE ServeUpdateMcp(r)
    <2>1. PICK old \in mcpRows :
            LET new == McpRow(r.id, r.arg.on,
                          IF r.arg.config = Nothing THEN old.config ELSE r.arg.config,
                          IF r.arg.secret = Nothing THEN old.secret ELSE r.arg.secret)
            IN  /\ old.id = r.id
                /\ mcpRows' = (mcpRows \ {old}) \cup {new}
                /\ Reply(r, TRUE, TRUE, new)
        BY <1>4 DEF ServeUpdateMcp
    <2> DEFINE new == McpRow(r.id, r.arg.on,
                          IF r.arg.config = Nothing THEN old.config ELSE r.arg.config,
                          IF r.arg.secret = Nothing THEN old.secret ELSE r.arg.secret)
    <2>2. /\ r.kind = "update" /\ UNCHANGED pageVars /\ uninstalled' = uninstalled
          /\ r.id \in McpIds /\ r.arg.on \in BOOLEAN
          /\ r.arg.config \in {r.id, Nothing} /\ r.arg.secret \in {r.id, Nothing}
        BY <1>0, <1>4 DEF ServeUpdateMcp, McpRequestOK
    <2>3. OwnRow(old) /\ old.id = r.id
        BY <1>0, <2>1 DEF OwnRows
    <2>4. OwnRow(new) /\ new.id = r.id
        BY <2>2, <2>3 DEF OwnRow, McpRowType, McpRow
    <2>5. mcpRows' = (mcpRows \ {old}) \cup {new} /\ Reply(r, TRUE, TRUE, new)
        BY <2>1
    <2> HIDE DEF new
    <2>6. \A n \in mcpRows : n.id = r.id => n = old
        BY <1>0, <2>3 DEF OwnRows
    <2>7. OwnRows(mcpRows')
        BY <1>0, <2>4, <2>5, <2>6 DEF OwnRows
    <2>8. McpIdsOf(mcpRows') = McpIdsOf(mcpRows)
        BY <2>3, <2>4, <2>5, <2>6 DEF McpIdsOf
    <2>9. McpAnswerOK(AnswerTo(r, yes, TRUE, new))
        BY <1>0, <2>2, <2>4 DEF McpAnswerOK, AnswerTo
    <2>10. Served(r, yes, new, mcpRows, mcpRows')
        BY <1>1, <2>2, <2>3, <2>4, <2>5, <2>8 DEF Served, IdsIn, McpIdsOf
    <2>11. Reply(r, yes, yes, new)
        BY <1>1, <2>5, Zenon
    <2> QED BY <1>0, <1>1, <2>2, <2>7, <2>8, <2>9, <2>10, <2>11, McpAfterReply
<1>5. CASE ServeDeleteMcp(r)
    <2>1. /\ r.kind = "delete" /\ UNCHANGED pageVars /\ uninstalled' = uninstalled
          /\ mcpRows' = {m \in mcpRows : m.id # r.id} /\ Reply(r, TRUE, TRUE, Nothing)
        BY <1>5 DEF ServeDeleteMcp
    <2>2. OwnRows(mcpRows') /\ uninstalled' \cap McpIdsOf(mcpRows') = {}
        BY <1>0, <2>1 DEF OwnRows, McpIdsOf
    <2>3. McpAnswerOK(AnswerTo(r, yes, TRUE, Nothing))
        BY <1>0, <2>1 DEF McpAnswerOK, AnswerTo
    <2>4. Served(r, yes, Nothing, mcpRows, mcpRows')
        BY <1>1, <2>1 DEF Served, IdsIn, McpIdsOf
    <2>5. Reply(r, yes, yes, Nothing)
        BY <1>1, <2>1, Zenon
    <2> QED BY <1>0, <1>1, <2>1, <2>2, <2>3, <2>4, <2>5, McpAfterReply
<1>6. CASE RefuseMcp(r)
    <2>1. Kept /\ mcpRows' = mcpRows /\ Reply(r, FALSE, TRUE, Nothing)
        BY <1>0, <1>6 DEF RefuseMcp, mcpVars, pageVars
    <2>2. McpAnswerOK(AnswerTo(r, no, TRUE, Nothing))
        BY <1>0, <1>1 DEF McpAnswerOK, AnswerTo
    <2>3. Served(r, no, Nothing, mcpRows, mcpRows')
        BY <1>1, <2>1 DEF Served, IdsIn, McpIdsOf
    <2>4. Reply(r, no, yes, Nothing)
        BY <1>1, <2>1, Zenon
    <2> QED BY <1>1, <2>1, <2>2, <2>3, <2>4, McpAfterReply
<1> QED BY <1>2, <1>3, <1>4, <1>5, <1>6

-----------------------------------------------------------------------------
\* What a render may change: the list, the selection, the form, the result.
McpScreenOK ==
    /\ OwnRows(mcps) /\ selectedMcp \in McpIdOrNothing /\ testResult \in McpIdOrNothing
    /\ form \in [config : McpIdOrNothing, secret : McpIdOrNothing]
    /\ strayed \in BOOLEAN /\ McpFormOwn /\ McpTestOwn

Loads(rs) == \A r \in rs : r.kind = "list" /\ Lane(r) = "load" /\ McpRequestOK(r)

LEMMA Nowhere == Nothing \notin McpIds
BY McpEditorAssumption

LEMMA FormIsRefilled ==
    ASSUME McpInv, NEW list, OwnRows(list), NEW id \in McpIdOrNothing, NEW again \in BOOLEAN,
           \/ again
           \/ id = selectedMcp /\ McpIdsOf(list) = McpIdsOf(mcps)
    PROVE  /\ Refilled(list, id, again) \in [config : McpIdOrNothing, secret : McpIdOrNothing]
           /\ id \in McpIdsOf(list) => /\ Refilled(list, id, again).config = id
                                       /\ Refilled(list, id, again).secret \in {id, Nothing}
<1>1. CASE ~again
    BY <1>1 DEF Refilled, McpInv, McpPageOK, McpFormOwn, McpShown
<1>2. CASE again /\ id \notin McpIdsOf(list)
    BY <1>2 DEF Refilled, Empty, McpIdOrNothing
<1>3. CASE again /\ id \in McpIdsOf(list)
    <2> DEFINE m == CHOOSE m \in list : m.id = id
    <2>1. m \in list /\ m.id = id
        BY <1>3 DEF McpIdsOf
    <2>2. m.config = id /\ id \in McpIds
        BY <2>1 DEF OwnRows, OwnRow, McpRowType
    <2>3. Refilled(list, id, again) = [config |-> m.config, secret |-> Nothing]
        BY <1>3 DEF Refilled
    <2> HIDE DEF m
    <2> QED BY <2>2, <2>3 DEF McpIdOrNothing
<1> QED BY <1>1, <1>2, <1>3

LEMMA McpRenders ==
    ASSUME McpInv, NEW list, OwnRows(list), NEW id \in McpIdOrNothing, NEW another \in BOOLEAN,
           NEW newKey \in BOOLEAN, NEW i, i = 0 \/ i \in DOMAIN answers,
           another \/ McpIdsOf(list) = McpIdsOf(mcps),
           McpRendered(i, list, id, another, newKey)
    PROVE  /\ McpScreenOK' /\ mcps' = list /\ selectedMcp' = id
           /\ \E rs : /\ Loads(rs)
                      /\ i = 0 => CallsOK' /\ Sent(rs) /\ answers' = answers
                      /\ i \in DOMAIN answers => Received(i, rs)
<1> DEFINE again == another \/ id # selectedMcp
           rs == IF id # selectedMcp \/ newKey
                 THEN {ListMcps("effect", id, keyToDerive /\ ~newKey, Nothing)} ELSE {}
<1>1. /\ mcps' = list /\ selectedMcp' = id /\ form' = Refilled(list, id, again)
      /\ testResult' = IF again THEN Nothing ELSE testResult
      /\ strayed' = (strayed \/ (id # selectedMcp /\ testing))
      /\ IF i = 0 THEN Ask(McpBound, rs) ELSE Receive(McpBound, i, rs)
    BY DEF McpRendered
<1>2. Loads(rs)
    <2> DEFINE blank == keyToDerive /\ ~newKey
               r == ListMcps("effect", id, blank, Nothing)
    <2>1. blank \in BOOLEAN
        OBVIOUS
    <2> HIDE DEF blank
    <2>2. r.kind = "list" /\ r.id = "effect" /\ r.arg \in Renders(McpIds)
        BY <2>1 DEF ListMcps, Request, Renders, McpIdOrNothing
    <2> HIDE DEF r
    <2>3. McpRequestOK(r) /\ Lane(r) = "load"
        BY <2>2 DEF McpRequestOK, Lane, Mine, ModelKinds, Changes
    <2> QED BY <2>2, <2>3 DEF Loads, blank, r
<1>3. /\ again \in BOOLEAN
      /\ \/ again
         \/ id = selectedMcp /\ McpIdsOf(list) = McpIdsOf(mcps)
    OBVIOUS
<1>4. CallsOK /\ DOMAIN answers = 1..Len(answers)
    BY Sequence DEF McpInv, McpCallsOK, CallsOK, AreAnswers
<1> HIDE DEF again, rs
<1>5. i = 0 => CallsOK' /\ Sent(rs) /\ answers' = answers
    BY <1>1, <1>4, UserAsks
<1>6. i \in DOMAIN answers => i # 0
    BY <1>4
<1>7. i \in DOMAIN answers => Received(i, rs)
    BY <1>1, <1>4, <1>6, ClientReceives
<1>8. \A r \in Requests' : r \in Requests \/ r.kind = "list"
    <2>1. CASE i = 0
        BY <1>2, <1>5, <2>1 DEF Requests, Sent, Loads
    <2>2. CASE i \in DOMAIN answers
        BY <1>2, <1>7, <2>2, RequestsAfterReceipt DEF Loads
    <2> QED BY <2>1, <2>2
<1>9. McpFormOwn' /\ form' \in [config : McpIdOrNothing, secret : McpIdOrNothing]
    <2> DEFINE f == Refilled(list, id, again)
    <2>1. /\ f \in [config : McpIdOrNothing, secret : McpIdOrNothing]
          /\ id \in McpIdsOf(list) => f.config = id /\ f.secret \in {id, Nothing}
        BY <1>3, FormIsRefilled
    <2>2. form' = f /\ McpIdsOf(mcps') = McpIdsOf(list) /\ selectedMcp' = id
        BY <1>1
    <2> HIDE DEF f
    <2> QED BY <2>1, <2>2 DEF McpFormOwn, McpShown
<1>10. McpTestOwn'
    <2> SUFFICES ASSUME ~strayed'
                 PROVE  /\ testResult' \in {id, Nothing}
                        /\ \A r \in Requests' : r.kind = "test" => r.id = id
        BY <1>1 DEF McpTestOwn
    <2>1. ~strayed /\ (id = selectedMcp \/ ~testing)
        BY <1>1
    <2>2. \A r \in Requests : r.kind = "test" => r.id = selectedMcp
        BY <2>1 DEF McpInv, McpTestOwn
    <2>3. testResult \in {selectedMcp, Nothing}
        BY <2>1 DEF McpInv, McpTestOwn
    <2>4. id # selectedMcp => \A r \in Requests : r.kind # "test"
        BY <2>1 DEF McpInv, McpButtons, UnderWay, Lane, Mine, ModelKinds, Changes
    <2>5. testResult' \in {id, Nothing}
        BY <1>1, <2>3 DEF again
    <2> QED BY <1>8, <2>2, <2>4, <2>5
<1>11. testResult' \in McpIdOrNothing /\ strayed' \in BOOLEAN
    BY <1>1 DEF McpInv, McpPageOK, McpIdOrNothing
<1> QED BY <1>1, <1>2, <1>5, <1>7, <1>9, <1>10, <1>11 DEF McpScreenOK

LEMMA McpAfterReceipt ==
    ASSUME McpInv, NEW i \in DOMAIN answers, NEW rs, Received(i, rs), UNCHANGED <<mcpRows, uninstalled>>,
           \A r \in rs : McpRequestOK(r) /\ Lane(r) # "test",
           \/ \A r \in rs : Lane(r) = "load"
           \/ Lane(answers[i].to) = "change" /\ \A q, r \in rs : q = r,
           McpScreenOK', keyToDerive' \in BOOLEAN, behindList' \in BOOLEAN,
           mcpSaving' \in BOOLEAN, testing' \in BOOLEAN,
           mcpSaving' <=> \/ mcpSaving /\ Lane(answers[i].to) # "change"
                          \/ \E r \in rs : Lane(r) = "change",
           testing' <=> testing /\ Lane(answers[i].to) # "test",
           ~behindList' => Leads(mcpRows, answers', mcps', 0) \/ InFlight("list")'
    PROVE  McpInv'
<1>1. CameBack(answers, answers', i) /\ CallsOK' /\ DOMAIN asked' = DOMAIN asked \cup rs
    BY DEF Received, Sent
<1>2. McpCallsOK'
    <2>1. ASSUME NEW k \in DOMAIN answers' PROVE McpAnswerOK(answers'[k])
        <3>1. Old(i, k) \in DOMAIN answers /\ Says(answers'[k], answers[Old(i, k)])
            BY <1>1 DEF CameBack
        <3>2. McpAnswerOK(answers[Old(i, k)])
            BY <3>1 DEF McpInv, McpCallsOK
        <3> QED BY <3>1, <3>2 DEF Says, McpAnswerOK
    <2> QED BY <1>1, <2>1 DEF McpCallsOK, McpInv
<1>3. McpPageOK'
    BY DEF McpInv, McpPageOK, McpScreenOK
<1>4. McpFormOwn' /\ McpTestOwn'
    BY DEF McpScreenOK
<1>5. McpButtons'
    <2>1. /\ Alone("change")'
          /\ UnderWay("change")' <=> \/ UnderWay("change") /\ Lane(answers[i].to) # "change"
                                     \/ \E r \in rs : Lane(r) = "change"
        <3>1. \/ \A r \in rs : Lane(r) # "change"
              \/ Lane(answers[i].to) = "change" /\ \A q, r \in rs : Lane(q) = "change" /\ Lane(r) = "change" => q = r
            OBVIOUS
        <3> QED BY <3>1, AloneAfterReceipt DEF McpInv, McpButtons
    <2>2. /\ Alone("test")'
          /\ UnderWay("test")' <=> \/ UnderWay("test") /\ Lane(answers[i].to) # "test"
                                   \/ \E r \in rs : Lane(r) = "test"
        <3>1. \A r \in rs : Lane(r) # "test"
            OBVIOUS
        <3> QED BY <3>1, AloneAfterReceipt DEF McpInv, McpButtons
    <2> QED BY <2>1, <2>2 DEF McpInv, McpButtons
<1>6. McpCatchesUp'
    <2>1. AnswersLead(mcpRows, answers')
        BY <1>1, AnswersLeadAfterReceipt DEF McpInv, McpCatchesUp
    <2> QED BY <2>1 DEF McpCatchesUp
<1> QED BY <1>2, <1>3, <1>4, <1>5, <1>6 DEF McpInv

LEMMA McpScreenStays ==
    ASSUME McpInv, UNCHANGED <<mcps, selectedMcp, form, testResult, strayed>>,
           \A r \in Requests' : r \in Requests \/ r.kind # "test"
    PROVE  McpScreenOK'
<1>1. McpFormOwn'
    BY DEF McpInv, McpFormOwn, McpShown
<1>2. McpTestOwn'
    BY DEF McpInv, McpTestOwn
<1> QED BY <1>1, <1>2 DEF McpInv, McpPageOK, McpScreenOK

\* What a load and the handlers select and derive is of its type.
LEMMA SelectionAfterLoad ==
    ASSUME NEW all, NEW old \in Renders(all), NEW ids, ids \subseteq all,
           NEW now \in all \cup {Nothing}, NEW blank \in BOOLEAN
    PROVE  /\ SelectedAfter(old, ids, now) \subseteq all \cup {Nothing}
           /\ Renewed(old, blank) \subseteq BOOLEAN
<1>1. old.then \in all \cup {Nothing} /\ old.blank \in BOOLEAN
    BY DEF Renders
<1>2. SelectedAfter(old, ids, now) \subseteq all \cup {Nothing}
    BY <1>1 DEF SelectedAfter
<1>3. Renewed(old, blank) \subseteq BOOLEAN
    BY DEF Renewed
<1> QED BY <1>2, <1>3

\* Which lane a call of the page is in.
LEMMA LaneOfCall ==
    ASSUME NEW r, McpRequestOK(r)
    PROVE  /\ r.kind = "list" => /\ r.id = "effect" <=> Lane(r) # "change"
                                 /\ Lane(r) # "test" /\ r.arg \in Renders(McpIds)
           /\ r.kind \in {"create", "delete", "update"} <=> r.kind \in Changes
           /\ r.kind \in Changes => Lane(r) = "change"
           /\ r.kind = "test" <=> Lane(r) = "test"
           /\ r.kind \in {"create", "delete"} => r.arg \in Renders(McpIds)
<1>1. r.kind \in {"list", "create", "delete", "update", "test"}
    BY DEF McpRequestOK
<1>2. r.kind = "list" => Lane(r) = IF r.id = "effect" THEN "load" ELSE "change"
    BY DEF Lane, Mine, ModelKinds, Changes
<1>3. r.kind \in {"create", "delete", "update"} => Lane(r) = "change" /\ r.kind \in Changes
    BY DEF Lane, Mine, ModelKinds, Changes
<1>4. r.kind = "test" => Lane(r) = "test" /\ r.kind \notin Changes
    BY DEF Lane, Mine, ModelKinds, Changes
<1>5. r.kind = "list" => r.kind \notin Changes /\ r.arg \in Renders(McpIds)
    BY DEF McpRequestOK, Changes
<1>6. r.kind \in {"create", "delete"} => r.arg \in Renders(McpIds)
    BY DEF McpRequestOK
<1> QED BY <1>1, <1>2, <1>3, <1>4, <1>5, <1>6

LEMMA McpListStep ==
    ASSUME McpInv, NEW i \in DOMAIN answers, McpsCame(i) \/ McpsFailed(i)
    PROVE  McpInv'
<1> DEFINE a == answers[i]
           old == a.to.arg
<1>0. /\ McpAnswerOK(a) /\ McpRequestOK(a.to) /\ a.to.kind = "list" /\ a.overtaken \in BOOLEAN
      /\ mcpRows' = mcpRows /\ uninstalled' = uninstalled /\ testing' = testing
      /\ mcpSaving' = (mcpSaving /\ a.to.id = "effect")
    BY DEF McpInv, McpCallsOK, CallsOK, AreAnswers, IsAnswer, McpAnswerOK, McpsCame, McpsFailed
<1>1. /\ old \in Renders(McpIds) /\ Lane(a.to) # "test"
      /\ a.to.id = "effect" <=> Lane(a.to) # "change"
    BY <1>0, LaneOfCall
<1>2. /\ OwnRows(mcps) /\ keyToDerive \in BOOLEAN /\ mcpSaving \in BOOLEAN /\ testing \in BOOLEAN
      /\ selectedMcp \in McpIdOrNothing
    BY DEF McpInv, McpPageOK
<1>3. ASSUME NEW list, OwnRows(list), NEW id \in McpIdOrNothing, NEW another \in BOOLEAN,
             NEW newKey \in BOOLEAN, another \/ McpIdsOf(list) = McpIdsOf(mcps),
             McpRendered(i, list, id, another, newKey),
             keyToDerive' \in BOOLEAN, behindList' \in BOOLEAN,
             ~behindList' => Leads(mcpRows, answers, list, i)
      PROVE  McpInv'
    <2>1. /\ McpScreenOK' /\ mcps' = list
          /\ \E rs : Loads(rs) /\ Received(i, rs)
        BY <1>3, McpRenders
    <2>2. PICK rs : Loads(rs) /\ Received(i, rs)
        BY <2>1
    <2>3. \A r \in rs : McpRequestOK(r) /\ Lane(r) = "load"
        BY <2>2 DEF Loads
    <2>4. Leads(mcpRows, answers, list, i) => Leads(mcpRows, answers', mcps', 0)
        BY <2>1, <2>2, ListLeadsWhenReceived DEF Received
    <2> HIDE DEF a, old
    <2>5. testing' <=> testing /\ Lane(a.to) # "test"
        BY <1>0, <1>1
    <2>6. mcpSaving' <=> \/ mcpSaving /\ Lane(a.to) # "change"
                         \/ \E r \in rs : Lane(r) = "change"
        BY <1>0, <1>1, <2>3
    <2>7. mcpSaving' \in BOOLEAN /\ testing' \in BOOLEAN
        BY <1>0, <1>2
    <2> QED BY <1>0, <1>3, <2>1, <2>2, <2>3, <2>4, <2>5, <2>6, <2>7, McpAfterReceipt DEF a
<1>4. CASE McpsCame(i)
    <2>1. /\ a.ok
          /\ \E id \in SelectedAfter(old, McpIdsOf(a.is), selectedMcp),
                newKey \in Renewed(old, keyToDerive) : McpRendered(i, a.is, id, TRUE, newKey)
          /\ keyToDerive' = (keyToDerive /\ Renewed(old, keyToDerive) = {FALSE})
          /\ behindList' = a.overtaken
        BY <1>4 DEF McpsCame
    <2>2. OwnRows(a.is)
        BY <1>0, <2>1 DEF McpAnswerOK
    <2>3. McpIdsOf(a.is) \subseteq McpIds
        BY <2>2 DEF OwnRows, OwnRow, McpRowType, McpIdsOf
    <2>4. /\ SelectedAfter(old, McpIdsOf(a.is), selectedMcp) \subseteq McpIdOrNothing
          /\ Renewed(old, keyToDerive) \subseteq BOOLEAN
        BY <1>1, <1>2, <2>3, SelectionAfterLoad DEF McpIdOrNothing
    <2>5. PICK id \in McpIdOrNothing, newKey \in BOOLEAN : McpRendered(i, a.is, id, TRUE, newKey)
        BY <2>1, <2>4
    <2>6. PICK another \in BOOLEAN : another = TRUE
        OBVIOUS
    <2>7. McpRendered(i, a.is, id, another, newKey)
        BY <2>5, <2>6, Zenon
    <2>8. ~behindList' => Leads(mcpRows, answers, a.is, i)
        BY <1>0, <2>1 DEF McpInv, McpCatchesUp, AnswersLead
    <2>9. keyToDerive' \in BOOLEAN /\ behindList' \in BOOLEAN
        BY <1>0, <2>1
    <2> QED BY <1>3, <2>2, <2>6, <2>7, <2>8, <2>9
<1>5. CASE McpsFailed(i)
    <2> DEFINE new == a.to.arg.then
               id == IF new = Nothing THEN selectedMcp ELSE new
    <2>1. /\ McpRendered(i, mcps, id, FALSE, new # Nothing)
          /\ keyToDerive' = (keyToDerive /\ new = Nothing)
          /\ behindList' = TRUE
        BY <1>5 DEF McpsFailed
    <2>2. id \in McpIdOrNothing
        BY <1>1, <1>2 DEF Renders, McpIdOrNothing
    <2>3. PICK another \in BOOLEAN, newKey \in BOOLEAN : another = FALSE /\ newKey = (new # Nothing)
        OBVIOUS
    <2> HIDE DEF new, id
    <2>4. McpRendered(i, mcps, id, another, newKey)
        BY <2>1, <2>3, Zenon
    <2>5. keyToDerive' \in BOOLEAN /\ behindList' \in BOOLEAN
        BY <2>1
    <2> QED BY <1>2, <1>3, <2>1, <2>2, <2>4, <2>5
<1> QED BY <1>4, <1>5

LEMMA McpChangeStep ==
    ASSUME McpInv, NEW i \in DOMAIN answers, McpChanged(i) \/ McpChangeFailed(i) \/ Tested(i)
    PROVE  McpInv'
<1> DEFINE a == answers[i]
<1>0. McpAnswerOK(a) /\ McpRequestOK(a.to) /\ a.ok \in BOOLEAN /\ CallsOK
    BY DEF McpInv, McpCallsOK, CallsOK, AreAnswers, IsAnswer, McpAnswerOK
<1>1. McpPageOK
    BY DEF McpInv
<1>2. CASE McpChanged(i)
    <2> DEFINE r == Request("list", a.to.kind, [a.to.arg EXCEPT !.then = a.is])
               rs == {r}
    <2>1. a.ok /\ a.to.kind \in {"create", "delete"} /\ Receive(McpBound, i, rs) /\ UNCHANGED mcpVars
        BY <1>2 DEF McpChanged
    <2>2. r.kind = "list" /\ r.id \in {"create", "delete"} /\ r.arg \in Renders(McpIds)
        <3>1. a.is \in McpIdOrNothing
            BY <1>0, <2>1 DEF McpAnswerOK, McpIdOrNothing
        <3>2. a.to.arg \in Renders(McpIds)
            BY <1>0, <2>1, LaneOfCall
        <3> QED BY <2>1, <3>1, <3>2 DEF Request, Renders, McpIdOrNothing
    <2>3. Lane(a.to) = "change"
        BY <1>0, <2>1, LaneOfCall
    <2> HIDE DEF r
    <2>4. McpRequestOK(r) /\ Lane(r) = "change"
        BY <2>2 DEF McpRequestOK, Lane, Mine, ModelKinds
    <2>5. Received(i, rs)
        BY <1>0, <2>1, ClientReceives
    <2>6. Requests' = Others(i) \cup rs /\ Requests = Others(i) \cup {a.to}
        BY <2>5, RequestsAfterReceipt
    <2>7. McpScreenOK'
        BY <2>1, <2>2, <2>6, McpScreenStays DEF mcpVars
    <2>8. InFlight("list")'
        BY <2>2, <2>6 DEF InFlight
    <2>9. a.to \in Requests
        BY <2>6
    <2>10. mcpSaving
        BY <2>3, <2>9 DEF McpInv, McpButtons, UnderWay
    <2>11. UNCHANGED <<mcpRows, uninstalled, keyToDerive, behindList, mcpSaving, testing>>
        BY <2>1 DEF mcpVars
    <2>12. /\ keyToDerive' \in BOOLEAN /\ behindList' \in BOOLEAN
           /\ mcpSaving' \in BOOLEAN /\ testing' \in BOOLEAN
        BY <1>1, <2>11 DEF McpPageOK
    <2>13. \A q \in rs : McpRequestOK(q) /\ Lane(q) # "test"
        BY <2>4
    <2>14. Lane(answers[i].to) = "change" /\ \A p, q \in rs : p = q
        BY <2>3
    <2>15. mcpSaving' <=> \/ mcpSaving /\ Lane(answers[i].to) # "change"
                          \/ \E q \in rs : Lane(q) = "change"
        BY <2>4, <2>10, <2>11
    <2>16. testing' <=> testing /\ Lane(answers[i].to) # "test"
        BY <2>3, <2>11
    <2> HIDE DEF rs
    <2> QED BY <2>5, <2>7, <2>8, <2>11, <2>12, <2>13, <2>14, <2>15, <2>16, McpAfterReceipt
<1>3. ASSUME Receive(McpBound, i, {}), UNCHANGED <<mcpRows, uninstalled, keyToDerive>>, McpScreenOK',
             mcps' = mcps, ~a.ok \/ a.to.kind \notin Changes \/ behindList', a.to.kind # "list",
             behindList' \in BOOLEAN, ~behindList' => ~behindList,
             mcpSaving' \in BOOLEAN, testing' \in BOOLEAN,
             mcpSaving' <=> mcpSaving /\ Lane(a.to) # "change",
             testing' <=> testing /\ Lane(a.to) # "test"
      PROVE  McpInv'
    <2> DEFINE rs == {}
    <2>1. \A r \in rs : FALSE
        OBVIOUS
    <2>2. Received(i, rs)
        BY <1>0, <1>3, ClientReceives
    <2>3. keyToDerive' \in BOOLEAN
        BY <1>1, <1>3 DEF McpPageOK
    <2>4. Requests' = Others(i) \cup rs /\ Requests = Others(i) \cup {a.to}
        BY <2>2, RequestsAfterReceipt
    <2>5. ~behindList' => Leads(mcpRows, answers', mcps', 0) \/ InFlight("list")'
        <3> SUFFICES ASSUME ~behindList' PROVE Leads(mcpRows, answers', mcps', 0) \/ InFlight("list")'
            OBVIOUS
        <3>1. CASE InFlight("list")
            BY <1>3, <2>4, <3>1 DEF InFlight
        <3>2. CASE Leads(mcpRows, answers, mcps, 0)
            <4>1. ~a.ok \/ a.to.kind \notin {"create", "delete", "update"}
                BY <1>0, <1>3, LaneOfCall
            <4>2. CameBack(answers, answers', i)
                BY <2>2 DEF Received
            <4> QED BY <1>3, <3>2, <4>1, <4>2, ListLeadsWhenReceived
        <3> QED BY <1>3, <3>1, <3>2 DEF McpInv, McpCatchesUp
    <2> HIDE DEF rs
    <2>6. mcpSaving' <=> \/ mcpSaving /\ Lane(answers[i].to) # "change"
                         \/ \E q \in rs : Lane(q) = "change"
        BY <1>3, <2>1
    <2> QED BY <1>3, <2>1, <2>2, <2>3, <2>5, <2>6, McpAfterReceipt
<1>4. CASE McpChangeFailed(i)
    <2>1. /\ Receive(McpBound, i, {}) /\ a.to.kind \in Changes /\ mcpSaving' = FALSE
          /\ behindList' = (behindList \/ a.ok)
          /\ UNCHANGED <<mcpRows, uninstalled, mcps, selectedMcp, form, keyToDerive, testing, testResult, strayed>>
        BY <1>4 DEF McpChangeFailed
    <2>2. Lane(a.to) = "change" /\ a.to.kind # "list"
        BY <1>0, <2>1, LaneOfCall DEF Changes
    <2>3. McpScreenOK'
        <3>1. Requests' = Others(i) \cup {} /\ Requests = Others(i) \cup {a.to}
            BY <1>0, <2>1, ClientReceives, RequestsAfterReceipt
        <3> QED BY <2>1, <3>1, McpScreenStays
    <2>4. /\ behindList' \in BOOLEAN /\ mcpSaving' \in BOOLEAN /\ testing' \in BOOLEAN
          /\ ~a.ok \/ behindList'
          /\ ~behindList' => ~behindList
        BY <1>0, <1>1, <2>1 DEF McpPageOK
    <2>5. mcpSaving' <=> mcpSaving /\ Lane(a.to) # "change"
        BY <2>1, <2>2
    <2>6. testing' <=> testing /\ Lane(a.to) # "test"
        BY <2>1, <2>2
    <2> QED BY <1>3, <2>1, <2>2, <2>3, <2>4, <2>5, <2>6
<1>5. CASE Tested(i)
    <2>1. /\ Receive(McpBound, i, {}) /\ a.to.kind = "test" /\ testing' = FALSE
          /\ testResult' = testResult \/ (a.ok /\ testResult' = a.is)
          /\ UNCHANGED <<mcpRows, uninstalled, mcps, selectedMcp, form, keyToDerive, mcpSaving, behindList, strayed>>
        BY <1>5 DEF Tested
    <2>2. Lane(a.to) = "test" /\ a.to.kind # "list" /\ a.to.kind \notin Changes
        BY <1>0, <2>1, LaneOfCall DEF Changes
    <2>3. Requests' = Others(i) \cup {} /\ Requests = Others(i) \cup {a.to}
        BY <1>0, <2>1, ClientReceives, RequestsAfterReceipt
    <2>4. McpScreenOK'
        <3>1. a.ok => a.is = a.to.id /\ a.to.id \in McpIds
            BY <1>0, <2>1 DEF McpAnswerOK, McpRequestOK
        <3>2. ~strayed => a.to.id = selectedMcp
            BY <2>1, <2>3 DEF McpInv, McpTestOwn
        <3>3. testResult' \in McpIdOrNothing
            BY <1>1, <2>1, <3>1 DEF McpPageOK, McpIdOrNothing
        <3>4. McpTestOwn'
            BY <2>1, <2>3, <3>1, <3>2 DEF McpInv, McpTestOwn
        <3>5. McpFormOwn'
            BY <2>1 DEF McpInv, McpFormOwn, McpShown
        <3> QED BY <1>1, <2>1, <3>3, <3>4, <3>5 DEF McpPageOK, McpScreenOK
    <2>5. /\ behindList' \in BOOLEAN /\ mcpSaving' \in BOOLEAN /\ testing' \in BOOLEAN
          /\ ~behindList' => ~behindList
        BY <1>1, <2>1 DEF McpPageOK
    <2>6. mcpSaving' <=> mcpSaving /\ Lane(a.to) # "change"
        BY <2>1, <2>2
    <2>7. testing' <=> testing /\ Lane(a.to) # "test"
        BY <2>1, <2>2
    <2> QED BY <1>3, <2>1, <2>2, <2>4, <2>5, <2>6, <2>7
<1> QED BY <1>2, <1>4, <1>5

LEMMA McpUpdateStep ==
    ASSUME McpInv, NEW i \in DOMAIN answers, McpUpdated(i)
    PROVE  McpInv'
<1> DEFINE a == answers[i]
           old == {m \in mcps : m.id = a.to.id}
           list == IF old = {} THEN mcps ELSE (mcps \ old) \cup {a.is}
           another == old # {} /\ a.to.id = selectedMcp
<1>0. /\ McpAnswerOK(a) /\ McpRequestOK(a.to) /\ a.overtaken \in BOOLEAN
      /\ OwnRows(mcps) /\ OwnRows(mcpRows) /\ selectedMcp \in McpIdOrNothing
      /\ keyToDerive \in BOOLEAN /\ behindList \in BOOLEAN /\ testing \in BOOLEAN
    BY DEF McpInv, McpCallsOK, CallsOK, AreAnswers, IsAnswer, McpAnswerOK, McpPageOK
<1>1. /\ a.ok /\ a.to.kind = "update"
      /\ McpRendered(i, list, selectedMcp, another, FALSE)
      /\ mcpSaving' = FALSE /\ behindList' = (behindList \/ a.overtaken)
      /\ UNCHANGED <<mcpRows, uninstalled, keyToDerive, testing>>
    BY DEF McpUpdated
<1>2. OwnRow(a.is) /\ a.is.id = a.to.id
    BY <1>0, <1>1 DEF McpAnswerOK
<1>3. OwnRows(list)
    BY <1>0, <1>2 DEF OwnRows
<1>4. McpIdsOf(list) = McpIdsOf(mcps)
    BY <1>2 DEF McpIdsOf
<1>5. PICK newKey \in BOOLEAN : newKey = FALSE
    OBVIOUS
<1>6. McpRendered(i, list, selectedMcp, another, newKey)
    BY <1>1, <1>5, Zenon
<1>7. \A m \in mcps : m \in list \/ m.id = a.to.id
    OBVIOUS
<1>8. a.to.id \in McpIdsOf(mcps) => a.is \in list
    BY DEF McpIdsOf
<1>9. another \in BOOLEAN
    OBVIOUS
<1> HIDE DEF old, list, another
<1>10. McpScreenOK' /\ mcps' = list /\ \E rs : Loads(rs) /\ Received(i, rs)
    BY <1>0, <1>3, <1>4, <1>6, <1>9, McpRenders
<1>11. PICK rs : Loads(rs) /\ Received(i, rs)
    BY <1>10
<1>12. Lane(a.to) = "change" /\ a.to.kind # "list"
    BY <1>0, <1>1, LaneOfCall DEF Changes
<1>13. \A r \in rs : McpRequestOK(r) /\ Lane(r) = "load"
    BY <1>11 DEF Loads
<1>14. ~behindList' => Leads(mcpRows, answers', mcps', 0) \/ InFlight("list")'
    <2> SUFFICES ASSUME ~behindList, ~a.overtaken
                 PROVE  Leads(mcpRows, answers', list, 0) \/ InFlight("list")'
        BY <1>1, <1>10
    <2>1. CASE InFlight("list")
        <3>1. Requests' = Others(i) \cup rs /\ Requests = Others(i) \cup {a.to}
            BY <1>11, RequestsAfterReceipt
        <3> QED BY <1>12, <2>1, <3>1 DEF InFlight
    <2>2. CASE Leads(mcpRows, answers, mcps, 0)
        <3>1. CameBack(answers, answers', i)
            BY <1>11 DEF Received
        <3>2. AnswersLead(mcpRows, answers) /\ \A m, n \in mcpRows : m.id = n.id => m = n
            BY <1>0 DEF McpInv, McpCatchesUp, OwnRows
        <3>3. IdsIn(list) = IdsIn(mcps) /\ (a.to.id \in IdsIn(mcps) => a.is \in list)
            BY <1>4, <1>8 DEF IdsIn, McpIdsOf
        <3> QED BY <1>1, <1>2, <1>7, <2>2, <3>1, <3>2, <3>3, LeadsAfterUpdate
    <2> QED BY <2>1, <2>2 DEF McpInv, McpCatchesUp
<1>15. /\ keyToDerive' \in BOOLEAN /\ behindList' \in BOOLEAN
       /\ mcpSaving' \in BOOLEAN /\ testing' \in BOOLEAN
    BY <1>0, <1>1
<1>16. mcpSaving' <=> \/ mcpSaving /\ Lane(answers[i].to) # "change"
                      \/ \E r \in rs : Lane(r) = "change"
    BY <1>1, <1>12, <1>13
<1>17. testing' <=> testing /\ Lane(answers[i].to) # "test"
    BY <1>1, <1>12
<1> HIDE DEF a
<1> QED BY <1>1, <1>10, <1>11, <1>13, <1>14, <1>15, <1>16, <1>17, McpAfterReceipt

-----------------------------------------------------------------------------
\* The user's clicks.
LEMMA McpAfterAsking ==
    ASSUME McpInv, NEW rs, CallsOK', Sent(rs), answers' = answers,
           UNCHANGED <<mcpRows, uninstalled, mcps, behindList>>,
           \A r \in rs : McpRequestOK(r),
           \/ \A r \in rs : Lane(r) = "load"
           \/ (\A r \in rs : Lane(r) = "change") /\ (\A q, r \in rs : q = r) /\ ~mcpSaving
           \/ (\A r \in rs : Lane(r) = "test") /\ (\A q, r \in rs : q = r) /\ ~testing,
           McpScreenOK', keyToDerive' \in BOOLEAN, mcpSaving' \in BOOLEAN, testing' \in BOOLEAN,
           mcpSaving' <=> mcpSaving \/ \E r \in rs : Lane(r) = "change",
           testing' <=> testing \/ \E r \in rs : Lane(r) = "test"
    PROVE  McpInv'
<1>1. McpCallsOK'
    BY DEF McpInv, McpCallsOK, Sent
<1>2. McpPageOK'
    BY DEF McpInv, McpPageOK, McpScreenOK
<1>3. McpFormOwn' /\ McpTestOwn'
    BY DEF McpScreenOK
<1>4. McpButtons'
    <2>1. /\ Alone("change")'
          /\ UnderWay("change")' <=> UnderWay("change") \/ \E r \in rs : Lane(r) = "change"
        <3>1. \/ \A r \in rs : Lane(r) # "change"
              \/ ~UnderWay("change") /\ \A q, r \in rs : Lane(q) = "change" /\ Lane(r) = "change" => q = r
            BY DEF McpInv, McpButtons
        <3> QED BY <3>1, AloneAfterAsking DEF McpInv, McpButtons
    <2>2. /\ Alone("test")'
          /\ UnderWay("test")' <=> UnderWay("test") \/ \E r \in rs : Lane(r) = "test"
        <3>1. \/ \A r \in rs : Lane(r) # "test"
              \/ ~UnderWay("test") /\ \A q, r \in rs : Lane(q) = "test" /\ Lane(r) = "test" => q = r
            BY DEF McpInv, McpButtons
        <3> QED BY <3>1, AloneAfterAsking DEF McpInv, McpButtons
    <2> QED BY <2>1, <2>2 DEF McpInv, McpButtons
<1>5. McpCatchesUp'
    <2>1. Requests' = Requests \cup rs
        BY DEF Requests, Sent
    <2>2. InFlight("list") => InFlight("list")'
        BY <2>1 DEF InFlight
    <2> QED BY <2>2 DEF McpInv, McpCatchesUp
<1> QED BY <1>1, <1>2, <1>3, <1>4, <1>5 DEF McpInv

LEMMA McpChangeIsAsked ==
    ASSUME McpInv, NEW r, McpRequestOK(r), Lane(r) = "change", Change(r)
    PROVE  McpInv'
<1> DEFINE rs == {r}
<1>1. /\ Ask(McpBound, rs) /\ ~mcpSaving /\ mcpSaving' = TRUE
      /\ UNCHANGED <<mcpRows, uninstalled, mcps, selectedMcp, form, keyToDerive, testing, testResult,
                     behindList, strayed>>
    BY DEF Change
<1>2. CallsOK' /\ Sent(rs) /\ answers' = answers
    BY <1>1, UserAsks DEF McpInv, McpCallsOK
<1>3. McpScreenOK'
    <2>1. Requests' = Requests \cup rs
        BY <1>2 DEF Requests, Sent
    <2>2. r.kind # "test"
        BY DEF Lane, Mine, ModelKinds, Changes
    <2> QED BY <1>1, <2>1, <2>2, McpScreenStays
<1>4. keyToDerive' \in BOOLEAN /\ mcpSaving' \in BOOLEAN /\ testing' \in BOOLEAN
    BY <1>1 DEF McpInv, McpPageOK
<1>5. /\ \A q \in rs : McpRequestOK(q) /\ Lane(q) = "change"
      /\ \A p, q \in rs : p = q
      /\ \E q \in rs : Lane(q) = "change"
      /\ ~\E q \in rs : Lane(q) = "test"
    OBVIOUS
<1> HIDE DEF rs
<1>6. mcpSaving' <=> mcpSaving \/ \E q \in rs : Lane(q) = "change"
    BY <1>1, <1>5
<1>7. testing' <=> testing \/ \E q \in rs : Lane(q) = "test"
    BY <1>1, <1>5
<1> QED BY <1>1, <1>2, <1>3, <1>4, <1>5, <1>6, <1>7, McpAfterAsking

LEMMA McpUserStep ==
    ASSUME McpInv,
           \/ \E m \in McpIds : SelectMcp(m)
           \/ \E b \in BOOLEAN : TypeMcpKey(b)
           \/ TypeSecret \/ InstallMcp \/ SaveMcp \/ ToggleMcp \/ UninstallMcp \/ TestMcp
    PROVE  McpInv'
<1>0. /\ McpPageOK /\ McpFormOwn /\ CallsOK /\ OwnRows(mcps) /\ keyToDerive \in BOOLEAN
      /\ selectedMcp \in McpIdOrNothing
    BY DEF McpInv, McpCallsOK, McpPageOK
<1>1. \A m \in mcps : OwnRow(m) /\ m.id \in McpIds /\ m.on \in BOOLEAN
    BY <1>0 DEF OwnRows, OwnRow, McpRowType
<1>2. ASSUME NEW m \in McpIds, SelectMcp(m) PROVE McpInv'
    <2>1. /\ McpRendered(0, mcps, m, FALSE, FALSE)
          /\ UNCHANGED <<mcpRows, uninstalled, keyToDerive, mcpSaving, testing, behindList>>
        BY <1>2 DEF SelectMcp
    <2>2. PICK no \in BOOLEAN : no = FALSE
        OBVIOUS
    <2>3. PICK i : i = 0
        OBVIOUS
    <2>4. McpRendered(i, mcps, m, no, no)
        BY <2>1, <2>2, <2>3, Zenon
    <2>5. m \in McpIdOrNothing
        BY DEF McpIdOrNothing
    <2>6. /\ McpScreenOK' /\ mcps' = mcps
          /\ \E rs : Loads(rs) /\ CallsOK' /\ Sent(rs) /\ answers' = answers
        BY <1>0, <2>3, <2>4, <2>5, McpRenders
    <2>7. PICK rs : Loads(rs) /\ CallsOK' /\ Sent(rs) /\ answers' = answers
        BY <2>6
    <2>8. \A r \in rs : McpRequestOK(r) /\ Lane(r) = "load"
        BY <2>7 DEF Loads
    <2>9. keyToDerive' \in BOOLEAN /\ mcpSaving' \in BOOLEAN /\ testing' \in BOOLEAN
        BY <1>0, <2>1 DEF McpPageOK
    <2> QED BY <2>1, <2>6, <2>7, <2>8, <2>9, McpAfterAsking
<1>3. ASSUME NEW b \in BOOLEAN, TypeMcpKey(b) PROVE McpInv'
    <2> DEFINE r == ListMcps("effect", selectedMcp, b, Nothing)
               rs == {r}
    <2>1. /\ Ask(McpBound, rs) /\ keyToDerive' = b
          /\ UNCHANGED <<mcpRows, uninstalled, mcps, selectedMcp, form, mcpSaving, testing, testResult,
                         behindList, strayed>>
        BY <1>3 DEF TypeMcpKey
    <2>2. r.kind = "list" /\ r.id = "effect" /\ r.arg \in Renders(McpIds)
        BY <1>0 DEF ListMcps, Request, Renders, McpIdOrNothing
    <2> HIDE DEF r
    <2>3. McpRequestOK(r) /\ Lane(r) = "load"
        BY <2>2 DEF McpRequestOK, Lane, Mine, ModelKinds, Changes
    <2>4. CallsOK' /\ Sent(rs) /\ answers' = answers
        BY <1>0, <2>1, UserAsks
    <2>5. Requests' = Requests \cup rs
        BY <2>4 DEF Requests, Sent
    <2>6. McpScreenOK'
        BY <2>1, <2>2, <2>5, McpScreenStays
    <2>7. keyToDerive' \in BOOLEAN /\ mcpSaving' \in BOOLEAN /\ testing' \in BOOLEAN
        BY <1>0, <2>1 DEF McpPageOK
    <2>8. \A q \in rs : McpRequestOK(q) /\ Lane(q) = "load"
        BY <2>3
    <2> HIDE DEF rs
    <2> QED BY <2>1, <2>4, <2>6, <2>7, <2>8, McpAfterAsking
<1>4. CASE TypeSecret
    <2>1. /\ McpShown /\ form' = [form EXCEPT !.secret = selectedMcp]
          /\ UNCHANGED <<mcpRows, uninstalled, mcps, selectedMcp, keyToDerive, mcpSaving, testing,
                         testResult, behindList, strayed, callVars>>
        BY <1>4 DEF TypeSecret
    <2>2. form' \in [config : McpIdOrNothing, secret : McpIdOrNothing]
        BY <1>0, <2>1 DEF McpPageOK
    <2>3. McpPageOK'
        BY <2>1, <2>2 DEF McpInv, McpPageOK
    <2>4. McpFormOwn'
        BY <1>0, <2>1 DEF McpFormOwn, McpShown, McpPageOK
    <2>5. UNCHANGED <<asked, answers>>
        BY <2>1 DEF callVars
    <2>6. McpCallsOK'
        BY <2>5 DEF McpInv, McpCallsOK, CallsOK
    <2>7. McpTestOwn'
        BY <2>1, <2>5 DEF McpInv, McpTestOwn, Requests
    <2>8. McpButtons'
        BY <2>1, <2>5 DEF McpInv, McpButtons, Alone, UnderWay, Requests
    <2>9. McpCatchesUp'
        BY <2>1, <2>5 DEF McpInv, McpCatchesUp, InFlight, Requests
    <2> QED BY <2>3, <2>4, <2>6, <2>7, <2>8, <2>9 DEF McpInv
<1>5. CASE InstallMcp
    <2> DEFINE arg == ListMcps("create", selectedMcp, FALSE, Nothing).arg
               r == Request("create", Nothing, arg)
    <2>1. arg \in Renders(McpIds)
        BY <1>0 DEF ListMcps, Request, Renders, McpIdOrNothing
    <2>2. Change(r)
        BY <1>5 DEF InstallMcp
    <2> HIDE DEF arg
    <2>3. McpRequestOK(r) /\ Lane(r) = "change"
        BY <2>1 DEF McpRequestOK, Lane, Mine, ModelKinds, Changes, Request
    <2> HIDE DEF r
    <2> QED BY <2>2, <2>3, McpChangeIsAsked
<1>6. ASSUME NEW m \in mcps, NEW arg, m.id = selectedMcp, arg.on \in BOOLEAN,
             arg.config \in {m.id, Nothing}, arg.secret \in {m.id, Nothing},
             Change(Request("update", m.id, arg))
      PROVE  McpInv'
    <2> DEFINE r == Request("update", m.id, arg)
    <2>1. McpRequestOK(r) /\ Lane(r) = "change"
        BY <1>1, <1>6 DEF McpRequestOK, Lane, Mine, ModelKinds, Changes, Request
    <2> HIDE DEF r
    <2> QED BY <1>6, <2>1, McpChangeIsAsked DEF r
<1>7. CASE SaveMcp
    <2>1. PICK m \in mcps : m.id = selectedMcp /\ McpShown /\
            Change(Request("update", m.id, [on |-> m.on, config |-> form.config, secret |-> form.secret]))
        BY <1>7 DEF SaveMcp
    <2> DEFINE arg == [on |-> m.on, config |-> form.config, secret |-> form.secret]
    <2>2. arg.on \in BOOLEAN /\ arg.config \in {m.id, Nothing} /\ arg.secret \in {m.id, Nothing}
        BY <1>0, <1>1, <2>1 DEF McpFormOwn
    <2>3. Change(Request("update", m.id, arg))
        BY <2>1
    <2> HIDE DEF arg
    <2> QED BY <1>6, <2>1, <2>2, <2>3
<1>8. CASE ToggleMcp
    <2>1. PICK m \in mcps : m.id = selectedMcp /\
            Change(Request("update", m.id, [on |-> ~m.on, config |-> Nothing, secret |-> Nothing]))
        BY <1>8 DEF ToggleMcp
    <2> DEFINE arg == [on |-> ~m.on, config |-> Nothing, secret |-> Nothing]
    <2>2. arg.on \in BOOLEAN /\ arg.config \in {m.id, Nothing} /\ arg.secret \in {m.id, Nothing}
        OBVIOUS
    <2>3. Change(Request("update", m.id, arg))
        BY <2>1
    <2> HIDE DEF arg
    <2> QED BY <1>6, <2>1, <2>2, <2>3
<1>9. CASE UninstallMcp
    <2> DEFINE arg == ListMcps("delete", selectedMcp, keyToDerive, Nothing).arg
               r == Request("delete", selectedMcp, arg)
    <2>1. arg \in Renders(McpIds)
        BY <1>0 DEF ListMcps, Request, Renders, McpIdOrNothing
    <2>2. Change(r)
        BY <1>9 DEF UninstallMcp
    <2>3. selectedMcp \in McpIds
        BY <1>1, <1>9 DEF UninstallMcp, McpShown, McpIdsOf
    <2> HIDE DEF arg
    <2>4. McpRequestOK(r) /\ Lane(r) = "change"
        BY <2>1, <2>3 DEF McpRequestOK, Lane, Mine, ModelKinds, Changes, Request
    <2> HIDE DEF r
    <2> QED BY <2>2, <2>4, McpChangeIsAsked
<1>10. CASE TestMcp
    <2> DEFINE r == Request("test", selectedMcp, Nothing)
               rs == {r}
    <2>1. /\ McpShown /\ ~testing /\ testing' = TRUE /\ testResult' = Nothing /\ strayed' = FALSE
          /\ Ask(McpBound, rs)
          /\ UNCHANGED <<mcpRows, uninstalled, mcps, selectedMcp, form, keyToDerive, mcpSaving, behindList>>
        BY <1>10 DEF TestMcp
    <2>2. r.kind = "test" /\ r.id = selectedMcp /\ selectedMcp \in McpIds
        BY <1>1, <2>1 DEF Request, McpShown, McpIdsOf
    <2> HIDE DEF r
    <2>3. McpRequestOK(r) /\ Lane(r) = "test"
        BY <2>2 DEF McpRequestOK, Lane, Mine, ModelKinds, Changes
    <2>4. CallsOK' /\ Sent(rs) /\ answers' = answers
        BY <1>0, <2>1, UserAsks
    <2>5. Requests' = Requests \cup rs
        BY <2>4 DEF Requests, Sent
    <2>6. \A q \in Requests : q.kind # "test"
        BY <2>1 DEF McpInv, McpButtons, UnderWay, Lane, Mine, ModelKinds, Changes
    <2>7. McpTestOwn'
        BY <2>1, <2>2, <2>5, <2>6 DEF McpTestOwn
    <2>8. McpFormOwn'
        BY <1>0, <2>1 DEF McpFormOwn, McpShown
    <2>9. McpScreenOK'
        BY <1>0, <2>1, <2>7, <2>8 DEF McpScreenOK, McpPageOK, McpIdOrNothing
    <2>10. keyToDerive' \in BOOLEAN /\ mcpSaving' \in BOOLEAN /\ testing' \in BOOLEAN
        BY <1>0, <2>1 DEF McpPageOK
    <2>11. /\ \A q \in rs : McpRequestOK(q) /\ Lane(q) = "test"
           /\ \A p, q \in rs : p = q
           /\ \E q \in rs : Lane(q) = "test"
           /\ ~\E q \in rs : Lane(q) = "change"
        BY <2>3
    <2> HIDE DEF rs
    <2>12. mcpSaving' <=> mcpSaving \/ \E q \in rs : Lane(q) = "change"
        BY <2>1, <2>11
    <2>13. testing' <=> testing \/ \E q \in rs : Lane(q) = "test"
        BY <2>1, <2>11
    <2> QED BY <2>1, <2>4, <2>9, <2>10, <2>11, <2>12, <2>13, McpAfterAsking
<1> QED BY <1>2, <1>3, <1>4, <1>5, <1>7, <1>8, <1>9, <1>10

LEMMA McpInitially ==
    ASSUME McpInit, CallsInit(McpRequests)
    PROVE  McpInv
<1> DEFINE r == ListMcps("effect", Nothing, TRUE, Nothing)
<1>1. r.kind = "list" /\ r.id = "effect" /\ r.arg \in Renders(McpIds)
    BY DEF ListMcps, Request, Renders, McpIdOrNothing
<1>2. asked = SetToBag({r}) /\ answers = <<>>
    BY DEF CallsInit, McpRequests
<1> HIDE DEF r
<1>3. DOMAIN asked = {r} /\ asked[r] = 1 /\ IsABag(asked)
    BY <1>2 DEF SetToBag, IsABag
<1>4. DOMAIN answers = {} /\ AreAnswers(answers)
    BY <1>2 DEF AreAnswers
<1>5. McpRequestOK(r) /\ Lane(r) = "load" /\ Requests = {r}
    BY <1>1, <1>3, <1>4 DEF McpRequestOK, Lane, Mine, ModelKinds, Changes, Requests
<1>6. McpCallsOK
    BY <1>3, <1>4, <1>5 DEF McpCallsOK, CallsOK
<1>7. PICK installed \in SUBSET McpIds : mcpRows = {McpRow(m, TRUE, m, Nothing) : m \in installed}
    BY DEF McpInit
<1>8. OwnRows(mcpRows) /\ McpIdsOf(mcpRows) = installed
    <2>1. \A m \in installed : LET row == McpRow(m, TRUE, m, Nothing) IN OwnRow(row) /\ row.id = m
        BY DEF McpRow, OwnRow, McpRowType
    <2> DEFINE row(m) == McpRow(m, TRUE, m, Nothing)
    <2>2. \A m \in installed : OwnRow(row(m)) /\ row(m).id = m
        BY <2>1
    <2>3. mcpRows = {row(m) : m \in installed}
        BY <1>7
    <2> HIDE DEF row
    <2> QED BY <2>2, <2>3 DEF OwnRows, McpIdsOf
<1>9. /\ uninstalled = McpIds \ McpIdsOf(mcpRows)
      /\ mcps = {} /\ selectedMcp = Nothing /\ form = Empty /\ keyToDerive = TRUE
      /\ mcpSaving = FALSE /\ testing = FALSE /\ testResult = Nothing
      /\ behindList = TRUE /\ strayed = FALSE
    BY DEF McpInit
<1>10. McpPageOK
    BY <1>8, <1>9 DEF McpPageOK, OwnRows, McpIdOrNothing, Empty
<1>11. McpFormOwn
    BY <1>9 DEF McpFormOwn, McpShown, McpIdsOf
<1>12. McpTestOwn
    BY <1>1, <1>5, <1>9 DEF McpTestOwn
<1>13. McpButtons
    BY <1>3, <1>4, <1>5, <1>9 DEF McpButtons, Alone, UnderWay
<1>14. McpCatchesUp
    BY <1>4, <1>9 DEF McpCatchesUp, AnswersLead
<1> QED BY <1>6, <1>10, <1>11, <1>12, <1>13, <1>14 DEF McpInv

LEMMA McpInvKeeps ==
    ASSUME McpInv
    PROVE  McpEditorKeeps
<1>1. \A m \in mcpRows : m.config = m.id /\ m.secret \in {m.id, Nothing}
    BY DEF McpInv, McpPageOK, OwnRows, OwnRow
<1>2. McpShown => form.config = selectedMcp /\ form.secret \in {selectedMcp, Nothing}
    BY DEF McpInv, McpFormOwn
<1>3. McpShown /\ ~strayed => testResult \in {selectedMcp, Nothing}
    BY DEF McpInv, McpTestOwn
<1>0. \A r \in Requests : /\ Lane(r) = "change" <=> Mine(r)
                          /\ Lane(r) = "test" <=> r.kind = "test"
    <2>1. \A r \in Requests : r.kind \in {"list", "create", "delete", "update", "test"}
        BY DEF McpInv, McpCallsOK, McpAnswerOK, McpRequestOK, Requests
    <2> QED BY <2>1 DEF Lane, Mine, ModelKinds, Changes
<1>4. mcpSaving <=> \E r \in Requests : r.kind \in Changes \/ (r.kind = "list" /\ r.id # "effect")
    BY <1>0 DEF McpInv, McpButtons, UnderWay, Mine
<1>5. testing <=> InFlight("test")
    BY <1>0 DEF McpInv, McpButtons, UnderWay, InFlight
<1>6. Quiet /\ ~behindList => mcps = mcpRows
    <2> SUFFICES ASSUME Quiet, ~behindList PROVE mcps = mcpRows
        OBVIOUS
    <2>1. DOMAIN asked = {} /\ DOMAIN answers = {}
        BY DEF Quiet, EmptyBag, SetToBag
    <2>2. ~InFlight("list")
        BY <2>1 DEF InFlight, Requests
    <2>3. McpIdsOf(mcps) = McpIdsOf(mcpRows) /\ \A m \in mcpRows : m \in mcps
        BY <2>1, <2>2 DEF McpInv, McpCatchesUp, Leads, Relisted, Patched, IdsIn, McpIdsOf
    <2>4. \A m \in mcps : m \in mcpRows
        BY <2>3 DEF McpIdsOf, McpInv, McpPageOK, OwnRows
    <2> QED BY <2>3, <2>4
<1> QED BY <1>1, <1>2, <1>3, <1>4, <1>5, <1>6 DEF McpEditorKeeps

LEMMA McpStep ==
    ASSUME McpInv, McpNext \/ UNCHANGED <<callVars, mcpVars>>
    PROVE  McpInv'
<1>1. CASE McpNext
    <2>1. ASSUME NEW r \in DOMAIN asked,
                 \/ ServeMcpRead(r) \/ ServeCreateMcp(r) \/ ServeUpdateMcp(r) \/ ServeDeleteMcp(r)
                 \/ RefuseMcp(r)
          PROVE  McpInv'
        BY <2>1, McpServerStep
    <2>2. ASSUME NEW i \in DOMAIN answers,
                 \/ McpsCame(i) \/ McpsFailed(i) \/ McpChanged(i) \/ McpUpdated(i)
                 \/ McpChangeFailed(i) \/ Tested(i)
          PROVE  McpInv'
        BY <2>2, McpListStep, McpChangeStep, McpUpdateStep
    <2> QED BY <1>1, <2>1, <2>2, McpUserStep DEF McpNext
<1>2. CASE UNCHANGED <<callVars, mcpVars>>
    <2>1. UNCHANGED <<asked, answers, mcpRows, uninstalled, mcps, selectedMcp, form, keyToDerive,
                      mcpSaving, testing, testResult, behindList, strayed>>
        BY <1>2 DEF callVars, mcpVars
    <2>2. McpCallsOK'
        BY <2>1 DEF McpInv, McpCallsOK, CallsOK
    <2>3. McpPageOK' /\ McpFormOwn'
        BY <2>1 DEF McpInv, McpPageOK, McpFormOwn, McpShown
    <2>4. McpTestOwn'
        BY <2>1 DEF McpInv, McpTestOwn, Requests
    <2>5. McpButtons'
        BY <2>1 DEF McpInv, McpButtons, Alone, UnderWay, Requests
    <2>6. McpCatchesUp'
        BY <2>1 DEF McpInv, McpCatchesUp, InFlight, Requests
    <2> QED BY <2>2, <2>3, <2>4, <2>5, <2>6 DEF McpInv
<1> QED BY <1>1, <1>2

-----------------------------------------------------------------------------
(* The skills page.                                                        *)

SkillIdOrNothing == SkillIds \cup {Nothing}

PathOrNothing == AllPaths \cup {Nothing}

SkillRequestOK(r) ==
    \/ r.kind \in {"list", "create"} /\ r.arg \in Renders(SkillIds)
    \/ r.kind = "delete" /\ r.id \in SkillIds /\ r.arg \in Renders(SkillIds)
    \/ r.kind = "update" /\ r.id \in SkillIds /\ r.arg \in BOOLEAN
    \/ r.kind = "files" /\ r.id \in SkillIds /\ r.arg \in [path : PathOrNothing, then : PathOrNothing]
    \/ /\ r.kind \in {"write", "remove"} /\ r.id \in SkillIds
       /\ r.arg.path \in AllPaths /\ r.arg.shown \in PathOrNothing

SkillList(list) ==
    /\ list \subseteq SkillRowType
    /\ \A s, t \in list : s.id = t.id => s = t

IsFiles(f) == f = [p \in DOMAIN f |-> f[p]] /\ DOMAIN f \subseteq AllPaths

SkillAnswerOK(a) ==
    /\ SkillRequestOK(a.to)
    /\ a.ok =>
        /\ a.to.kind = "list" => SkillList(a.is)
        /\ a.to.kind = "create" => a.is \in SkillIds
        /\ a.to.kind = "update" => a.is \in SkillRowType /\ a.is.id = a.to.id
        /\ a.to.kind = "files" => IsFiles(a.is)

SkillCallsOK ==
    /\ CallsOK
    /\ \A r \in DOMAIN asked : SkillRequestOK(r)
    /\ \A i \in DOMAIN answers : SkillAnswerOK(answers[i])

SkillTablesOK ==
    /\ SkillList(skillRows)
    /\ unborn \subseteq SkillIds /\ unborn \cap SkillIdsOf(skillRows) = {}
    /\ skillFiles = [s \in SkillIds |-> skillFiles[s]]
    /\ \A s \in SkillIds : IsFiles(skillFiles[s])

SkillScreenOK ==
    /\ SkillList(skills) /\ selected \in SkillIdOrNothing
    /\ IsFiles(files) /\ filePath \in PathOrNothing
    /\ keyBlank \in BOOLEAN /\ moved \in BOOLEAN /\ mixed \in BOOLEAN
    /\ outdated \subseteq {"list", "files"}

\* Each text belongs to the skill it was written for, ...
OwnTexts(f, s) == \A p \in DOMAIN f : f[p] \in {s, ""}

\* ... at the server and on the way, ...
TextsAreOwn ==
    ~mixed =>
        /\ \A s \in SkillIds : OwnTexts(skillFiles[s], s)
        /\ \A r \in DOMAIN asked : r.kind = "write" => r.arg.text \in {r.id, ""}
        /\ \A i \in DOMAIN answers : answers[i].ok /\ answers[i].to.kind = "files" =>
                OwnTexts(answers[i].is, answers[i].to.id)

\* ... and on the screen when no files are being loaded.
ScreenIsOwn ==
    /\ ~moved => \A r \in Requests : r.kind \in FileKinds => r.id = selected
    /\ ~mixed /\ ~moved => OwnTexts(files, selected) \/ InFlight("files")

SkillsCatchUp ==
    /\ AnswersLead(skillRows, answers)
    /\ "list" \notin outdated => Leads(skillRows, answers, skills, 0) \/ InFlight("list")

\* After answer j there is one of a change of files.
Refiled(as, j) ==
    \E k \in DOMAIN as :
        k > j /\ as[k].ok /\ as[k].to.kind \in {"create", "delete", "write", "remove"}

\* Files that nothing overtook are the server's, or are about to be loaded again.
FilesLead(table, as) ==
    \A j \in DOMAIN as : as[j].ok /\ ~as[j].overtaken /\ as[j].to.kind = "files" =>
        as[j].is = table[as[j].to.id] \/ Refiled(as, j)

FilesCatchUp ==
    /\ FilesLead(skillFiles, answers)
    /\ outdated = {} /\ ~moved /\ selected \in SkillIdsOf(skills) =>
        \/ files = skillFiles[selected] \/ Refiled(answers, 0)
        \/ InFlight("files") \/ InFlight("list")

SkillInv ==
    /\ SkillCallsOK /\ SkillTablesOK /\ SkillScreenOK /\ TextsAreOwn /\ ScreenIsOwn
    /\ SkillsCatchUp /\ FilesCatchUp

-----------------------------------------------------------------------------
\* The calls under way besides the i-th answer, 0 for a click.
Rest(i) == IF i = 0 THEN Requests ELSE Others(i)

\* The page has sent rs, after the i-th answer came back or, if i is 0, a click.
Went(i, rs) ==
    /\ CallsOK' /\ DOMAIN asked' = DOMAIN asked \cup rs
    /\ Requests' = Rest(i) \cup rs
    /\ i = 0 => answers' = answers
    /\ i # 0 => /\ i \in DOMAIN answers /\ CameBack(answers, answers', i)
                /\ Requests = Rest(i) \cup {answers[i].to}

LEMMA ClientActs ==
    ASSUME CallsOK, NEW bound, NEW i, i = 0 \/ i \in DOMAIN answers, NEW rs,
           IF i = 0 THEN Ask(bound, rs) ELSE Receive(bound, i, rs)
    PROVE  Went(i, rs)
<1>1. CASE i = 0
    <2>1. CallsOK' /\ Sent(rs) /\ answers' = answers
        BY <1>1, UserAsks
    <2>2. Requests' = Requests \cup rs
        BY <2>1 DEF Requests, Sent
    <2> QED BY <1>1, <2>1, <2>2 DEF Went, Rest, Sent
<1>2. CASE i # 0
    <2>1. Received(i, rs)
        BY <1>2, ClientReceives
    <2>2. Requests' = Others(i) \cup rs /\ Requests = Others(i) \cup {answers[i].to}
        BY <1>2, <2>1, RequestsAfterReceipt
    <2> QED BY <1>2, <2>1, <2>2 DEF Went, Rest, Received, Sent
<1> QED BY <1>1, <1>2

LEMMA RefiledAfterReceipt ==
    ASSUME NEW as, NEW bs, NEW i, CameBack(as, bs, i), NEW j, NEW l,
           \A k \in DOMAIN as \ {i} : k > j => New(i, k) > l,
           i > j => ~as[i].ok \/ as[i].to.kind \notin {"create", "delete", "write", "remove"},
           Refiled(as, j)
    PROVE  Refiled(bs, l)
<1>1. \A k \in DOMAIN as \ {i} :
        /\ New(i, k) \in DOMAIN bs /\ bs[New(i, k)].to = as[k].to
        /\ bs[New(i, k)].ok = as[k].ok
    BY DEF CameBack, Says
<1>2. PICK k \in DOMAIN as :
        k > j /\ as[k].ok /\ as[k].to.kind \in {"create", "delete", "write", "remove"}
    BY DEF Refiled
<1>3. k # i
    BY <1>2
<1> QED BY <1>1, <1>2, <1>3 DEF Refiled

LEMMA FilesLeadAfterReceipt ==
    ASSUME NEW as, NEW bs, NEW i, CameBack(as, bs, i), NEW table, FilesLead(table, as)
    PROVE  /\ FilesLead(table, bs)
           /\ Refiled(as, i) => Refiled(bs, 0)
           /\ (~as[i].ok \/ as[i].to.kind \notin {"create", "delete", "write", "remove"}) =>
                (Refiled(as, 0) => Refiled(bs, 0))
<1>1. Len(as) \in Nat /\ DOMAIN as = 1..Len(as) /\ DOMAIN bs = 1..(Len(as) - 1) /\ i \in 1..Len(as)
    BY DEF CameBack
<1>2. ASSUME NEW l \in DOMAIN bs, bs[l].ok, ~bs[l].overtaken, bs[l].to.kind = "files"
      PROVE  bs[l].is = table[bs[l].to.id] \/ Refiled(bs, l)
    <2> DEFINE j == Old(i, l)
    <2>1. /\ j \in DOMAIN as \ {i} /\ as[j].ok /\ ~as[j].overtaken
          /\ bs[l].to = as[j].to /\ bs[l].is = as[j].is
          /\ j < i => as[i].to.kind \notin Changes
        BY <1>2 DEF CameBack, Says
    <2>2. \A k \in DOMAIN as \ {i} : k > j => New(i, k) > l
        BY <1>1 DEF New, Old
    <2>3. i > j => as[i].to.kind \notin {"create", "delete", "write", "remove"}
        BY <1>1, <2>1 DEF Changes
    <2> HIDE DEF j
    <2>4. Refiled(as, j) => Refiled(bs, l)
        BY <2>2, <2>3, RefiledAfterReceipt
    <2> QED BY <1>2, <2>1, <2>4 DEF FilesLead
<1>3. \A k \in DOMAIN as \ {i} : New(i, k) > 0
    BY <1>1 DEF New
<1>4. Refiled(as, i) => Refiled(bs, 0)
    <2>1. ~(i > i)
        BY <1>1
    <2> QED BY <1>3, <2>1, RefiledAfterReceipt
<1>5. ASSUME ~as[i].ok \/ as[i].to.kind \notin {"create", "delete", "write", "remove"},
             Refiled(as, 0)
      PROVE  Refiled(bs, 0)
    BY <1>3, <1>5, RefiledAfterReceipt
<1> QED BY <1>2, <1>4, <1>5 DEF FilesLead

LEMMA FilesLeadAfterReply ==
    ASSUME NEW r \in DOMAIN asked, NEW ok \in BOOLEAN, NEW is, Replied(r, ok, is),
           NEW before, NEW table, FilesLead(before, answers),
           \/ table = before /\ (ok /\ r.kind = "files" => is = table[r.id])
           \/ ok /\ r.kind \in {"create", "delete", "write", "remove"}
    PROVE  /\ FilesLead(table, answers')
           /\ Refiled(answers, 0) => Refiled(answers', 0)
           /\ table = before \/ Refiled(answers', 0)
<1> DEFINE n == Len(answers) + 1
           as == answers
           bs == answers'
<1>1. /\ n \in Nat /\ DOMAIN as = 1..(n - 1) /\ DOMAIN bs = 1..n
      /\ \A j \in DOMAIN as : j \in DOMAIN bs /\ bs[j] = as[j] /\ j < n
    BY DEF Replied
<1>2. 0 < n /\ n \in DOMAIN bs
    BY <1>1 DEF Replied
<1>3. bs[n].to = r /\ bs[n].ok = ok /\ bs[n].is = is
    BY DEF Replied, AnswerTo
<1>4. \A j \in DOMAIN bs : j = n \/ j \in DOMAIN as
    BY <1>1
<1> HIDE DEF n, as, bs
<1>5. \A j : Refiled(as, j) => Refiled(bs, j)
    BY <1>1 DEF Refiled
<1>6. \A j : j < n /\ ok /\ r.kind \in {"create", "delete", "write", "remove"} => Refiled(bs, j)
    BY <1>2, <1>3 DEF Refiled
<1>7. FilesLead(before, as)
    BY DEF as
<1>8. ASSUME NEW j \in DOMAIN bs, bs[j].ok, ~bs[j].overtaken, bs[j].to.kind = "files"
      PROVE  bs[j].is = table[bs[j].to.id] \/ Refiled(bs, j)
    <2>1. CASE j = n
        BY <1>3, <1>8, <2>1
    <2>2. CASE j \in DOMAIN as
        <3>1. as[j].is = before[as[j].to.id] \/ Refiled(as, j)
            BY <1>1, <1>7, <1>8, <2>2 DEF FilesLead
        <3> QED BY <1>1, <1>5, <1>6, <2>2, <3>1
    <2> QED BY <1>4, <2>1, <2>2
<1>9. FilesLead(table, bs)
    BY <1>8 DEF FilesLead
<1>10. table = before \/ Refiled(bs, 0)
    BY <1>2, <1>6
<1> QED BY <1>5, <1>9, <1>10 DEF as, bs

skillScreenVars == <<skills, selected, files, filePath, keyBlank, outdated, moved, mixed>>

LEMMA SkillAfterReply ==
    ASSUME SkillInv, NEW r \in DOMAIN asked, NEW ok \in BOOLEAN, NEW is, NEW done, done = TRUE,
           Reply(r, ok, done, is), Served(r, ok, is, skillRows, skillRows'),
           \/ skillFiles' = skillFiles /\ (ok /\ r.kind = "files" => is = skillFiles[r.id])
           \/ ok /\ r.kind \in {"create", "delete", "write", "remove"},
           UNCHANGED skillScreenVars, SkillAnswerOK(AnswerTo(r, ok, TRUE, is)), SkillTablesOK',
           ~mixed => \A s \in SkillIds : OwnTexts(skillFiles'[s], s)
    PROVE  SkillInv'
<1>1. Replied(r, ok, is)
    BY ServerReplies DEF SkillInv, SkillCallsOK
<1>2. Requests' = Requests
    BY <1>1, RequestsAfterReply
<1>3. \A k : InFlight(k)' <=> InFlight(k)
    BY <1>2 DEF InFlight
<1>4. CallsOK' /\ DOMAIN asked' \subseteq DOMAIN asked
    BY <1>1 DEF Replied
<1>5. ASSUME NEW i \in DOMAIN answers'
      PROVE  answers'[i] = AnswerTo(r, ok, TRUE, is) \/ (i \in DOMAIN answers /\ answers'[i] = answers[i])
    <2>1. CASE i = Len(answers) + 1
        BY <1>1, <2>1 DEF Replied
    <2>2. CASE i # Len(answers) + 1
        BY <1>1, <2>2 DEF Replied, AnswerTo
    <2> QED BY <2>1, <2>2
<1>6. SkillRequestOK(r)
    BY DEF SkillInv, SkillCallsOK
<1>7. SkillCallsOK'
    <2>1. ASSUME NEW i \in DOMAIN answers' PROVE SkillAnswerOK(answers'[i])
        BY <1>5 DEF SkillInv, SkillCallsOK
    <2> QED BY <1>4, <2>1 DEF SkillInv, SkillCallsOK
<1>8. SkillScreenOK'
    BY DEF SkillInv, SkillScreenOK, skillScreenVars
<1>9. TextsAreOwn'
    <2> SUFFICES ASSUME ~mixed PROVE TextsAreOwn'
        BY DEF TextsAreOwn, skillScreenVars
    <2>1. ASSUME NEW i \in DOMAIN answers', answers'[i].ok, answers'[i].to.kind = "files"
          PROVE  OwnTexts(answers'[i].is, answers'[i].to.id)
        <3>1. CASE answers'[i] = AnswerTo(r, ok, TRUE, is)
            <4>1. ok /\ r.kind = "files" /\ answers'[i].to = r /\ answers'[i].is = is
                BY <2>1, <3>1 DEF AnswerTo
            <4>2. is = skillFiles[r.id] /\ r.id \in SkillIds
                BY <1>6, <4>1 DEF SkillRequestOK
            <4> QED BY <4>1, <4>2 DEF SkillInv, TextsAreOwn
        <3>2. CASE i \in DOMAIN answers /\ answers'[i] = answers[i]
            BY <2>1, <3>2 DEF SkillInv, TextsAreOwn
        <3> QED BY <1>5, <3>1, <3>2
    <2>2. \A q \in DOMAIN asked' : q.kind = "write" => q.arg.text \in {q.id, ""}
        BY <1>4 DEF SkillInv, TextsAreOwn
    <2> QED BY <2>1, <2>2 DEF TextsAreOwn
<1>10. ScreenIsOwn'
    BY <1>2, <1>3 DEF SkillInv, ScreenIsOwn, skillScreenVars
<1>11. SkillsCatchUp'
    <2>1. \A j \in DOMAIN answers :
            answers[j].ok /\ answers[j].to.kind = "update" => answers[j].is.id = answers[j].to.id
        BY DEF SkillInv, SkillCallsOK, SkillAnswerOK
    <2>2. AnswersLead(skillRows, answers)
        BY DEF SkillInv, SkillsCatchUp
    <2> DEFINE table == skillRows'
    <2>3. Served(r, ok, is, skillRows, table)
        OBVIOUS
    <2> HIDE DEF table
    <2>4. /\ AnswersLead(table, answers')
          /\ \A list : Leads(skillRows, answers, list, 0) => Leads(table, answers', list, 0)
        BY <1>1, <2>1, <2>2, <2>3, AnswersLeadAfterReply
    <2> QED BY <1>3, <2>4 DEF SkillInv, SkillsCatchUp, skillScreenVars, table
<1>12. FilesCatchUp'
    <2> DEFINE table == skillFiles'
    <2>1. FilesLead(skillFiles, answers)
        BY DEF SkillInv, FilesCatchUp
    <2>2. \/ table = skillFiles /\ (ok /\ r.kind = "files" => is = table[r.id])
          \/ ok /\ r.kind \in {"create", "delete", "write", "remove"}
        OBVIOUS
    <2> HIDE DEF table
    <2>3. /\ FilesLead(table, answers')
          /\ Refiled(answers, 0) => Refiled(answers', 0)
          /\ table = skillFiles \/ Refiled(answers', 0)
        BY <1>1, <2>1, <2>2, FilesLeadAfterReply
    <2> QED BY <1>3, <2>3 DEF SkillInv, FilesCatchUp, skillScreenVars, table
<1> QED BY <1>7, <1>8, <1>9, <1>10, <1>11, <1>12 DEF SkillInv

\* Of one skill other files are kept.
LEMMA FilesReplaced ==
    ASSUME NEW S, NEW g, g = [s \in S |-> g[s]], NEW id \in S, NEW f
    PROVE  [g EXCEPT ![id] = f] = [s \in S |-> IF s = id THEN f ELSE g[s]]
OBVIOUS

LEMMA SkillServerStep ==
    ASSUME SkillInv, NEW r \in DOMAIN asked,
           \/ ServeEditorRead(r) \/ ServeCreateSkill(r) \/ ServeUpdateSkill(r) \/ ServeDeleteSkill(r)
           \/ ServeWrite(r) \/ ServeRemove(r) \/ RefuseEdit(r)
    PROVE  SkillInv'
<1>0. /\ SkillRequestOK(r) /\ SkillTablesOK /\ SkillList(skillRows)
      /\ ~mixed => /\ \A s \in SkillIds : OwnTexts(skillFiles[s], s)
                   /\ r.kind = "write" => r.arg.text \in {r.id, ""}
    BY DEF SkillInv, SkillCallsOK, SkillTablesOK, TextsAreOwn
<1>1. PICK yes \in BOOLEAN, no \in BOOLEAN : yes = TRUE /\ no = FALSE
    OBVIOUS
<1>2. ASSUME UNCHANGED <<skillRows, unborn, skillFiles>> PROVE SkillTablesOK'
    BY <1>0, <1>2 DEF SkillTablesOK
<1>3. CASE ServeEditorRead(r)
    <2>1. UNCHANGED <<skillRows, unborn, skillFiles>> /\ UNCHANGED skillScreenVars
        BY <1>3 DEF ServeEditorRead, editorVars, skillScreenVars
    <2>2. CASE r.kind = "list" /\ Reply(r, TRUE, TRUE, skillRows)
        <3>1. SkillAnswerOK(AnswerTo(r, yes, TRUE, skillRows))
            BY <1>0, <2>2 DEF SkillAnswerOK, AnswerTo
        <3>2. Served(r, yes, skillRows, skillRows, skillRows')
            BY <2>1, <2>2 DEF Served
        <3>3. Reply(r, yes, yes, skillRows)
            BY <1>1, <2>2, Zenon
        <3> QED BY <1>0, <1>1, <1>2, <2>1, <2>2, <3>1, <3>2, <3>3, SkillAfterReply
    <2>3. CASE r.kind = "files" /\ Reply(r, TRUE, TRUE, skillFiles[r.id])
        <3>0. r.id \in SkillIds
            BY <1>0, <2>3 DEF SkillRequestOK
        <3>1. SkillAnswerOK(AnswerTo(r, yes, TRUE, skillFiles[r.id]))
            BY <1>0, <2>3, <3>0 DEF SkillAnswerOK, AnswerTo, SkillTablesOK
        <3>2. Served(r, yes, skillFiles[r.id], skillRows, skillRows')
            BY <2>1, <2>3 DEF Served
        <3>3. Reply(r, yes, yes, skillFiles[r.id])
            BY <1>1, <2>3, Zenon
        <3> QED BY <1>0, <1>1, <1>2, <2>1, <2>3, <3>1, <3>2, <3>3, SkillAfterReply
    <2> QED BY <1>3, <2>2, <2>3 DEF ServeEditorRead
<1>4. CASE ServeCreateSkill(r)
    <2>1. PICK s \in unborn :
            /\ unborn' = unborn \ {s} /\ skillRows' = skillRows \cup {SkillRow(s, TRUE)}
            /\ skillFiles' = [skillFiles EXCEPT ![s] = [p \in {"SKILL.md"} |-> s]]
            /\ Reply(r, TRUE, TRUE, s)
        BY <1>4 DEF ServeCreateSkill
    <2> DEFINE row == SkillRow(s, TRUE)
               f == [p \in {"SKILL.md"} |-> s]
    <2>2. r.kind = "create" /\ UNCHANGED skillScreenVars
        BY <1>4 DEF ServeCreateSkill, skillScreenVars
    <2>3. s \in SkillIds /\ s \notin SkillIdsOf(skillRows)
        BY <1>0, <2>1 DEF SkillTablesOK
    <2>4. row \in SkillRowType /\ row.id = s
        BY <2>3 DEF SkillRow, SkillRowType
    <2>5. IsFiles(f) /\ OwnTexts(f, s)
        BY DEF IsFiles, OwnTexts, AllPaths
    <2>6. skillRows' = skillRows \cup {row} /\ skillFiles' = [skillFiles EXCEPT ![s] = f]
        BY <2>1
    <2> HIDE DEF row, f
    <2>7. /\ skillFiles' = [t \in SkillIds |-> skillFiles'[t]]
          /\ \A t \in SkillIds : IsFiles(skillFiles'[t])
          /\ ~mixed => \A t \in SkillIds : OwnTexts(skillFiles'[t], t)
        <3>1. skillFiles' = [t \in SkillIds |-> IF t = s THEN f ELSE skillFiles[t]]
            BY <1>0, <2>3, <2>6, FilesReplaced DEF SkillTablesOK
        <3> QED BY <1>0, <2>5, <3>1 DEF SkillTablesOK
    <2>8. SkillList(skillRows') /\ unborn' \subseteq SkillIds /\ unborn' \cap SkillIdsOf(skillRows') = {}
        <3>1. \A t \in skillRows : t.id # s
            BY <2>3 DEF SkillIdsOf
        <3>2. SkillList(skillRows')
            BY <1>0, <2>4, <2>6, <3>1 DEF SkillList
        <3>3. SkillIdsOf(skillRows') = SkillIdsOf(skillRows) \cup {s}
            BY <2>4, <2>6 DEF SkillIdsOf
        <3> QED BY <1>0, <2>1, <3>2, <3>3 DEF SkillTablesOK
    <2>9. SkillTablesOK'
        BY <2>7, <2>8 DEF SkillTablesOK
    <2>10. SkillAnswerOK(AnswerTo(r, yes, TRUE, s))
        BY <1>0, <2>2, <2>3 DEF SkillAnswerOK, AnswerTo
    <2>11. Served(r, yes, s, skillRows, skillRows')
        BY <1>1, <2>2 DEF Served
    <2>12. Reply(r, yes, yes, s)
        BY <1>1, <2>1, Zenon
    <2> QED BY <1>1, <2>2, <2>7, <2>9, <2>10, <2>11, <2>12, SkillAfterReply
<1>5. CASE ServeUpdateSkill(r)
    <2> DEFINE new == SkillRow(r.id, r.arg)
    <2>1. /\ r.kind = "update" /\ r.id \in SkillIdsOf(skillRows) /\ UNCHANGED skillScreenVars
          /\ skillRows' = {s \in skillRows : s.id # r.id} \cup {new} /\ Reply(r, TRUE, TRUE, new)
          /\ skillFiles' = skillFiles /\ unborn' = unborn
        BY <1>5 DEF ServeUpdateSkill, skillScreenVars
    <2>2. new \in SkillRowType /\ new.id = r.id
        BY <1>0, <2>1 DEF SkillRequestOK, SkillRow, SkillRowType
    <2> HIDE DEF new
    <2>3. SkillIdsOf(skillRows') = SkillIdsOf(skillRows)
        BY <2>1, <2>2 DEF SkillIdsOf
    <2>4. SkillList(skillRows')
        BY <1>0, <2>1, <2>2 DEF SkillList
    <2>5. SkillTablesOK'
        BY <1>0, <2>1, <2>3, <2>4 DEF SkillTablesOK
    <2>6. SkillAnswerOK(AnswerTo(r, yes, TRUE, new))
        BY <1>0, <2>1, <2>2 DEF SkillAnswerOK, AnswerTo
    <2>7. Served(r, yes, new, skillRows, skillRows')
        BY <1>1, <2>1, <2>2, <2>3 DEF Served, IdsIn, SkillIdsOf
    <2>8. Reply(r, yes, yes, new)
        BY <1>1, <2>1, Zenon
    <2> QED BY <1>0, <1>1, <2>1, <2>5, <2>6, <2>7, <2>8, SkillAfterReply
<1>6. CASE ServeDeleteSkill(r)
    <2>1. /\ r.kind = "delete" /\ r.id \in SkillIds /\ UNCHANGED skillScreenVars /\ unborn' = unborn
          /\ skillRows' = {s \in skillRows : s.id # r.id} /\ Reply(r, TRUE, TRUE, Nothing)
          /\ skillFiles' = [skillFiles EXCEPT ![r.id] = NoFiles]
        BY <1>0, <1>6 DEF ServeDeleteSkill, skillScreenVars, SkillRequestOK
    <2>2. IsFiles(NoFiles) /\ OwnTexts(NoFiles, r.id)
        BY DEF IsFiles, OwnTexts, NoFiles
    <2>3. /\ skillFiles' = [t \in SkillIds |-> skillFiles'[t]]
          /\ \A t \in SkillIds : IsFiles(skillFiles'[t])
          /\ ~mixed => \A t \in SkillIds : OwnTexts(skillFiles'[t], t)
        <3>1. skillFiles' = [t \in SkillIds |-> IF t = r.id THEN NoFiles ELSE skillFiles[t]]
            BY <1>0, <2>1, <2>1, FilesReplaced DEF SkillTablesOK
        <3> QED BY <1>0, <2>2, <3>1 DEF SkillTablesOK
    <2>4. SkillList(skillRows') /\ unborn' \cap SkillIdsOf(skillRows') = {}
        BY <1>0, <2>1 DEF SkillList, SkillTablesOK, SkillIdsOf
    <2>5. SkillTablesOK'
        BY <1>0, <2>1, <2>3, <2>4 DEF SkillTablesOK
    <2>6. SkillAnswerOK(AnswerTo(r, yes, TRUE, Nothing))
        BY <1>0, <2>1 DEF SkillAnswerOK, AnswerTo
    <2>7. Served(r, yes, Nothing, skillRows, skillRows')
        BY <1>1, <2>1 DEF Served
    <2>8. Reply(r, yes, yes, Nothing)
        BY <1>1, <2>1, Zenon
    <2> QED BY <1>1, <2>1, <2>3, <2>5, <2>6, <2>7, <2>8, SkillAfterReply
<1>7. ASSUME r.kind \in {"write", "remove"}, UNCHANGED <<skillRows, unborn>>,
             skillFiles' = [t \in SkillIds |-> skillFiles'[t]],
             \A t \in SkillIds : IsFiles(skillFiles'[t]),
             ~mixed => \A t \in SkillIds : OwnTexts(skillFiles'[t], t),
             UNCHANGED skillScreenVars, Reply(r, TRUE, TRUE, Nothing)
      PROVE  SkillInv'
    <2>1. SkillTablesOK'
        BY <1>0, <1>7 DEF SkillTablesOK
    <2>2. SkillAnswerOK(AnswerTo(r, yes, TRUE, Nothing))
        BY <1>0, <1>7 DEF SkillAnswerOK, AnswerTo
    <2>3. Served(r, yes, Nothing, skillRows, skillRows')
        BY <1>1, <1>7 DEF Served
    <2>4. Reply(r, yes, yes, Nothing)
        BY <1>1, <1>7, Zenon
    <2> QED BY <1>1, <1>7, <2>1, <2>2, <2>3, <2>4, SkillAfterReply
<1>8. CASE ServeWrite(r)
    <2> DEFINE g == skillFiles[r.id]
               f == [p \in DOMAIN g \cup {r.arg.path} |-> IF p = r.arg.path THEN r.arg.text ELSE g[p]]
    <2>1. /\ r.kind = "write" /\ UNCHANGED <<skillRows, unborn>> /\ UNCHANGED skillScreenVars
          /\ skillFiles' = [skillFiles EXCEPT ![r.id] = f] /\ Reply(r, TRUE, TRUE, Nothing)
        BY <1>8 DEF ServeWrite, skillScreenVars
    <2>2. r.id \in SkillIds /\ r.arg.path \in AllPaths
        BY <1>0, <2>1 DEF SkillRequestOK
    <2>3. IsFiles(g) /\ (~mixed => OwnTexts(g, r.id))
        BY <1>0, <2>2 DEF SkillTablesOK
    <2>4. IsFiles(f) /\ (~mixed => OwnTexts(f, r.id))
        BY <1>0, <2>1, <2>2, <2>3 DEF IsFiles, OwnTexts
    <2> HIDE DEF f
    <2>5. /\ skillFiles' = [t \in SkillIds |-> skillFiles'[t]]
          /\ \A t \in SkillIds : IsFiles(skillFiles'[t])
          /\ ~mixed => \A t \in SkillIds : OwnTexts(skillFiles'[t], t)
        <3>1. skillFiles' = [t \in SkillIds |-> IF t = r.id THEN f ELSE skillFiles[t]]
            BY <1>0, <2>1, <2>2, FilesReplaced DEF SkillTablesOK
        <3> QED BY <1>0, <2>4, <3>1 DEF SkillTablesOK
    <2> QED BY <1>7, <2>1, <2>5
<1>9. CASE ServeRemove(r)
    <2> DEFINE g == skillFiles[r.id]
               f == [p \in DOMAIN g \ {r.arg.path} |-> g[p]]
    <2>1. /\ r.kind = "remove" /\ UNCHANGED <<skillRows, unborn>> /\ UNCHANGED skillScreenVars
          /\ skillFiles' = [skillFiles EXCEPT ![r.id] = f] /\ Reply(r, TRUE, TRUE, Nothing)
        BY <1>9 DEF ServeRemove, skillScreenVars
    <2>2. r.id \in SkillIds /\ r.arg.path \in AllPaths
        BY <1>0, <2>1 DEF SkillRequestOK
    <2>3. IsFiles(g) /\ (~mixed => OwnTexts(g, r.id))
        BY <1>0, <2>2 DEF SkillTablesOK
    <2>4. IsFiles(f) /\ (~mixed => OwnTexts(f, r.id))
        BY <1>0, <2>1, <2>2, <2>3 DEF IsFiles, OwnTexts
    <2> HIDE DEF f
    <2>5. /\ skillFiles' = [t \in SkillIds |-> skillFiles'[t]]
          /\ \A t \in SkillIds : IsFiles(skillFiles'[t])
          /\ ~mixed => \A t \in SkillIds : OwnTexts(skillFiles'[t], t)
        <3>1. skillFiles' = [t \in SkillIds |-> IF t = r.id THEN f ELSE skillFiles[t]]
            BY <1>0, <2>1, <2>2, FilesReplaced DEF SkillTablesOK
        <3> QED BY <1>0, <2>4, <3>1 DEF SkillTablesOK
    <2> QED BY <1>7, <2>1, <2>5
<1>10. CASE RefuseEdit(r)
    <2>1. /\ UNCHANGED <<skillRows, unborn, skillFiles>> /\ UNCHANGED skillScreenVars
          /\ Reply(r, FALSE, TRUE, Nothing)
        BY <1>10 DEF RefuseEdit, editorVars, skillScreenVars
    <2>2. SkillAnswerOK(AnswerTo(r, no, TRUE, Nothing))
        BY <1>0, <1>1 DEF SkillAnswerOK, AnswerTo
    <2>3. Served(r, no, Nothing, skillRows, skillRows')
        BY <1>1, <2>1 DEF Served
    <2>4. Reply(r, no, yes, Nothing)
        BY <1>1, <2>1, Zenon
    <2> QED BY <1>0, <1>1, <1>2, <2>1, <2>2, <2>3, <2>4, SkillAfterReply
<1> QED BY <1>3, <1>4, <1>5, <1>6, <1>8, <1>9, <1>10

-----------------------------------------------------------------------------
\* What the answers may have become after the step.
After(i, bs) ==
    /\ i = 0 => bs = answers
    /\ i # 0 => i \in DOMAIN answers /\ CameBack(answers, bs, i)

\* The list is the server's, or there is more to come.
ListAwaited(list, as, loading) == Leads(skillRows, as, list, 0) \/ loading

FilesAwaited(f, id, as, loading) == f = skillFiles[id] \/ Refiled(as, 0) \/ loading

LEMMA SkillAfterStep ==
    ASSUME SkillInv, NEW i, i = 0 \/ i \in DOMAIN answers, NEW rs, Went(i, rs),
           UNCHANGED skillServerVars,
           \A r \in rs : SkillRequestOK(r),
           SkillScreenOK', ScreenIsOwn',
           ~mixed' => ~mixed /\ \A r \in rs : r.kind = "write" => r.arg.text \in {r.id, ""},
           "list" \notin outdated' => ListAwaited(skills', answers', InFlight("list")'),
           outdated' = {} /\ ~moved' /\ selected' \in SkillIdsOf(skills') =>
                FilesAwaited(files', selected', answers', InFlight("files")' \/ InFlight("list")')
    PROVE  SkillInv'
<1>1. CallsOK' /\ DOMAIN asked' = DOMAIN asked \cup rs /\ UNCHANGED <<skillRows, skillFiles, unborn>>
    BY DEF Went, skillServerVars
<1>2. \A k \in DOMAIN answers' : \E j \in DOMAIN answers : Says(answers'[k], answers[j])
    <2>1. CASE i = 0
        BY <2>1 DEF Went, Says
    <2>2. CASE i # 0
        BY <2>2 DEF Went, CameBack
    <2> QED BY <2>1, <2>2
<1>3. SkillCallsOK'
    <2>1. ASSUME NEW k \in DOMAIN answers' PROVE SkillAnswerOK(answers'[k])
        <3>1. PICK j \in DOMAIN answers : Says(answers'[k], answers[j])
            BY <1>2
        <3>2. SkillAnswerOK(answers[j])
            BY DEF SkillInv, SkillCallsOK
        <3> QED BY <3>1, <3>2 DEF Says, SkillAnswerOK
    <2> QED BY <1>1, <2>1 DEF SkillInv, SkillCallsOK
<1>4. SkillTablesOK'
    BY <1>1 DEF SkillInv, SkillTablesOK
<1>5. TextsAreOwn'
    <2> SUFFICES ASSUME ~mixed' PROVE TextsAreOwn'
        BY DEF TextsAreOwn
    <2>1. ASSUME NEW k \in DOMAIN answers', answers'[k].ok, answers'[k].to.kind = "files"
          PROVE  OwnTexts(answers'[k].is, answers'[k].to.id)
        <3>1. PICK j \in DOMAIN answers : Says(answers'[k], answers[j])
            BY <1>2
        <3> QED BY <2>1, <3>1 DEF SkillInv, TextsAreOwn, Says
    <2> QED BY <1>1, <2>1 DEF SkillInv, TextsAreOwn
<1>6. AnswersLead(skillRows, answers') /\ FilesLead(skillFiles, answers')
    <2>1. CASE i = 0
        BY <2>1 DEF Went, SkillInv, SkillsCatchUp, FilesCatchUp
    <2>2. CASE i # 0
        <3>1. CameBack(answers, answers', i)
            BY <2>2 DEF Went
        <3> QED BY <3>1, AnswersLeadAfterReceipt, FilesLeadAfterReceipt
                DEF SkillInv, SkillsCatchUp, FilesCatchUp
    <2> QED BY <2>1, <2>2
<1>7. SkillsCatchUp'
    BY <1>1, <1>6 DEF SkillsCatchUp, ListAwaited
<1>8. FilesCatchUp'
    BY <1>1, <1>6 DEF FilesCatchUp, FilesAwaited
<1> QED BY <1>3, <1>4, <1>5, <1>7, <1>8 DEF SkillInv

\* What the page asks for by itself.
Reloads(rs) == \A r \in rs : SkillRequestOK(r) /\ r.kind \in {"list", "files"}

\* Rendering loads the files of the selected skill unless it shows what it did.
LEMMA EffectsLoad ==
    ASSUME SkillInv, NEW list, NEW id \in SkillIdOrNothing, NEW has, IsFiles(has),
           NEW path \in PathOrNothing, NEW fresh \in BOOLEAN, NEW newKey \in BOOLEAN,
           SkillList(list)
    PROVE  LET e == Effects(list, id, has, path, fresh, newKey)
           IN  /\ IsFiles(e.files) /\ e.path \in PathOrNothing
               /\ Reloads(e.ask) /\ \A r \in e.ask : r.kind = "files" => r.id = id
               /\ \/ \E r \in e.ask : r.kind = "files"
                  \/ e.files = NoFiles /\ id \notin SkillIdsOf(list)
                  \/ /\ e.files = has /\ id = selected /\ ~fresh
                     /\ id \in SkillIdsOf(list) <=> id \in SkillIdsOf(skills)
<1> DEFINE shown == id \in SkillIdsOf(list)
           again == fresh \/ id # selected \/ path # filePath \/ (shown # (selected \in SkillIdsOf(skills)))
           blank == keyBlank /\ ~newKey
           l == Request("list", Nothing, [selected |-> id, blank |-> blank, then |-> Nothing])
           f == ListFiles(id, path, Nothing)
           e == Effects(list, id, has, path, fresh, newKey)
<1>1. /\ e.files = IF again /\ ~shown THEN NoFiles ELSE has
      /\ e.path = IF again /\ ~shown THEN Nothing ELSE path
      /\ e.ask = (IF id # selected \/ newKey THEN {l} ELSE {}) \cup (IF again /\ shown THEN {f} ELSE {})
    BY DEF Effects
<1>2. l.kind = "list" /\ SkillRequestOK(l)
    <2>1. blank \in BOOLEAN
        OBVIOUS
    <2> HIDE DEF blank
    <2> QED BY <2>1 DEF Request, SkillRequestOK, Renders, SkillIdOrNothing
<1>3. shown => f.kind = "files" /\ f.id = id /\ SkillRequestOK(f)
    <2>1. shown => id \in SkillIds
        BY DEF SkillIdsOf, SkillList, SkillRowType
    <2> HIDE DEF shown
    <2> QED BY <2>1 DEF ListFiles, Request, SkillRequestOK, PathOrNothing
<1>4. IsFiles(NoFiles)
    BY DEF IsFiles, NoFiles
<1>5. ~again => id = selected /\ ~fresh /\ (shown <=> id \in SkillIdsOf(skills))
    OBVIOUS
<1> HIDE DEF l, f, again, e
<1>6. Reloads(e.ask) /\ \A r \in e.ask : r.kind = "files" => r.id = id
    BY <1>1, <1>2, <1>3 DEF Reloads
<1>7. again /\ shown => \E r \in e.ask : r.kind = "files"
    BY <1>1, <1>3
<1>8. IsFiles(e.files) /\ e.path \in PathOrNothing
    BY <1>1, <1>4 DEF PathOrNothing
<1> QED BY <1>1, <1>5, <1>6, <1>7, <1>8 DEF e

LEMMA SkillRenders ==
    ASSUME SkillInv, NEW i, i = 0 \/ i \in DOMAIN answers, NEW list, SkillList(list),
           NEW id \in SkillIdOrNothing, NEW has, IsFiles(has), NEW path \in PathOrNothing,
           NEW fresh \in BOOLEAN, NEW newKey \in BOOLEAN,
           Rendered(i, list, id, has, path, fresh, newKey), UNCHANGED skillServerVars,
           mixed' = mixed, keyBlank' \in BOOLEAN, outdated' \subseteq {"list", "files"},
           ~mixed /\ ~moved /\ id = selected =>
                OwnTexts(has, id) \/ \E r \in Rest(i) : r.kind = "files",
           "list" \notin outdated' => \A as : After(i, as) =>
                ListAwaited(list, as, \E r \in Rest(i) : r.kind = "list"),
           /\ outdated' = {} /\ ~moved /\ id = selected /\ ~fresh
           /\ id \in SkillIdsOf(list) /\ id \in SkillIdsOf(skills)
           => \A as : After(i, as) =>
                FilesAwaited(has, id, as, \E r \in Rest(i) : r.kind \in {"list", "files"})
    PROVE  SkillInv'
<1> DEFINE e == Effects(list, id, has, path, fresh, newKey)
           rs == e.ask
<1>1. /\ IsFiles(e.files) /\ e.path \in PathOrNothing
      /\ Reloads(e.ask) /\ \A r \in e.ask : r.kind = "files" => r.id = id
      /\ \/ \E r \in e.ask : r.kind = "files"
         \/ e.files = NoFiles /\ id \notin SkillIdsOf(list)
         \/ /\ e.files = has /\ id = selected /\ ~fresh
            /\ id \in SkillIdsOf(list) <=> id \in SkillIdsOf(skills)
    BY EffectsLoad
<1>2. /\ skills' = list /\ selected' = id /\ files' = e.files /\ filePath' = e.path
      /\ moved' = IF id = selected THEN moved ELSE \E r \in Rest(i) : r.kind \in FileKinds
      /\ IF i = 0 THEN Ask(SkillBound, rs) ELSE Receive(SkillBound, i, rs)
    BY DEF Rendered, Rest, Others
<1> HIDE DEF e
<1>3. Went(i, rs)
    BY <1>2, ClientActs DEF SkillInv, SkillCallsOK
<1>4. Requests' = Rest(i) \cup rs /\ After(i, answers')
    BY <1>3 DEF Went, After
<1>5. Rest(i) \subseteq Requests
    BY <1>3 DEF Went, Rest
<1>6. /\ \A k : (\E r \in Rest(i) : r.kind = k) => InFlight(k)'
      /\ \A k : (\E r \in rs : r.kind = k) => InFlight(k)'
    BY <1>4 DEF InFlight
<1>7. moved \in BOOLEAN /\ mixed \in BOOLEAN
    BY DEF SkillInv, SkillScreenOK
<1> HIDE DEF rs
<1>8. SkillScreenOK'
    <2>1. moved' \in BOOLEAN
        BY <1>2, <1>7
    <2> QED BY <1>1, <1>2, <1>7, <2>1 DEF SkillScreenOK
<1>9. ScreenIsOwn'
    <2>1. ASSUME ~moved', NEW r \in Requests', r.kind \in FileKinds
          PROVE  r.id = id
        <3>1. CASE r \in rs
            <4>1. r.kind = "files"
                BY <1>1, <2>1, <3>1 DEF Reloads, FileKinds, rs
            <4> QED BY <1>1, <3>1, <4>1 DEF rs
        <3>2. CASE r \in Rest(i)
            BY <1>2, <1>5, <2>1, <3>2 DEF SkillInv, ScreenIsOwn
        <3> QED BY <1>4, <2>1, <3>1, <3>2
    <2>2. ASSUME ~mixed', ~moved'
          PROVE  OwnTexts(files', id) \/ InFlight("files")'
        <3>1. CASE \E r \in rs : r.kind = "files"
            BY <1>6, <3>1
        <3>2. CASE e.files = NoFiles
            <4>1. files' = NoFiles
                BY <1>2, <3>2
            <4>2. DOMAIN NoFiles = {}
                BY DEF NoFiles
            <4>3. OwnTexts(NoFiles, id)
                BY <4>2 DEF OwnTexts
            <4> QED BY <4>1, <4>3 DEF OwnTexts
        <3>3. CASE e.files = has /\ id = selected
            BY <1>2, <1>6, <2>2, <3>3
        <3> QED BY <1>1, <3>1, <3>2, <3>3 DEF rs
    <2> QED BY <1>2, <2>1, <2>2 DEF ScreenIsOwn
<1>10. "list" \notin outdated' => ListAwaited(skills', answers', InFlight("list")')
    BY <1>2, <1>4, <1>6 DEF ListAwaited
<1>11. ASSUME outdated' = {}, ~moved', id \in SkillIdsOf(list)
       PROVE  FilesAwaited(files', id, answers', InFlight("files")' \/ InFlight("list")')
    <2>1. CASE \E r \in rs : r.kind = "files"
        BY <1>6, <2>1 DEF FilesAwaited
    <2>2. CASE e.files = has /\ id = selected /\ ~fresh /\ id \in SkillIdsOf(skills)
        <3>1. FilesAwaited(has, id, answers', \E r \in Rest(i) : r.kind \in {"list", "files"})
            BY <1>2, <1>4, <1>11, <2>2
        <3> QED BY <1>2, <1>6, <2>2, <3>1 DEF FilesAwaited
    <2> QED BY <1>1, <1>11, <2>1, <2>2 DEF rs
<1>12. \A r \in rs : SkillRequestOK(r) /\ r.kind # "write"
    BY <1>1 DEF Reloads, rs
<1> QED BY <1>2, <1>3, <1>8, <1>9, <1>10, <1>11, <1>12, SkillAfterStep

-----------------------------------------------------------------------------
\* An answer that changes nothing about the list or the files leaves what is to come.
LEMMA AwaitedStays ==
    ASSUME SkillInv, NEW i, NEW as, After(i, as), NEW loading \in BOOLEAN
    PROVE  /\ (i # 0 => answers[i].to.kind \notin {"create", "delete", "update"}) =>
                \A list : ListAwaited(list, answers, loading) => ListAwaited(list, as, loading)
           /\ (i # 0 => answers[i].to.kind \notin {"create", "delete", "write", "remove"}) =>
                \A f, id : FilesAwaited(f, id, answers, loading) => FilesAwaited(f, id, as, loading)
<1>1. ASSUME i # 0 => answers[i].to.kind \notin {"create", "delete", "update"},
             NEW list, Leads(skillRows, answers, list, 0)
      PROVE  Leads(skillRows, as, list, 0)
    <2>1. CASE i = 0
        BY <1>1, <2>1 DEF After
    <2>2. CASE i # 0
        BY <1>1, <2>2, ListLeadsWhenReceived DEF After
    <2> QED BY <2>1, <2>2
<1>2. ASSUME i # 0 => answers[i].to.kind \notin {"create", "delete", "write", "remove"},
             Refiled(answers, 0)
      PROVE  Refiled(as, 0)
    <2>1. CASE i = 0
        BY <1>2, <2>1 DEF After
    <2>2. CASE i # 0
        BY <1>2, <2>2, FilesLeadAfterReceipt DEF After, SkillInv, FilesCatchUp
    <2> QED BY <2>1, <2>2
<1> QED BY <1>1, <1>2 DEF ListAwaited, FilesAwaited

\* The loads that go on while the i-th answer comes back.
LEMMA LoadsGoOn ==
    ASSUME NEW i, i = 0 \/ i \in DOMAIN answers
    PROVE  /\ Rest(i) \subseteq Requests
           /\ i # 0 => Requests = Rest(i) \cup {answers[i].to}
           /\ \A k : (i # 0 => answers[i].to.kind # k) => (InFlight(k) => \E r \in Rest(i) : r.kind = k)
<1>1. Rest(i) \subseteq Requests
    BY DEF Rest, Others, Requests
<1>2. i # 0 => Requests = Rest(i) \cup {answers[i].to}
    BY DEF Rest, Others, Requests
<1>3. i = 0 => Rest(i) = Requests
    BY DEF Rest
<1> QED BY <1>1, <1>2, <1>3 DEF InFlight

\* What SkillInv says of the list, the files and their texts, for a step that loads neither.
LEMMA AwaitedBefore ==
    ASSUME SkillInv, NEW i, i = 0 \/ i \in DOMAIN answers
    PROVE  /\ (i # 0 => answers[i].to.kind # "files") =>
                (~mixed /\ ~moved => OwnTexts(files, selected) \/ \E r \in Rest(i) : r.kind = "files")
           /\ (i # 0 => answers[i].to.kind \notin {"list", "create", "delete", "update"}) =>
                ("list" \notin outdated => \A as : After(i, as) =>
                    ListAwaited(skills, as, \E r \in Rest(i) : r.kind = "list"))
           /\ (i # 0 => answers[i].to.kind \notin {"list", "files", "create", "delete", "write", "remove"}) =>
                (outdated = {} /\ ~moved /\ selected \in SkillIdsOf(skills) => \A as : After(i, as) =>
                    FilesAwaited(files, selected, as, \E r \in Rest(i) : r.kind \in {"list", "files"}))
<1>1. \A k : (i # 0 => answers[i].to.kind # k) => (InFlight(k) => \E r \in Rest(i) : r.kind = k)
    BY LoadsGoOn
<1>2. ASSUME i # 0 => answers[i].to.kind # "files", ~mixed, ~moved
      PROVE  OwnTexts(files, selected) \/ \E r \in Rest(i) : r.kind = "files"
    BY <1>1, <1>2 DEF SkillInv, ScreenIsOwn
<1>3. ASSUME i # 0 => answers[i].to.kind \notin {"list", "create", "delete", "update"},
             "list" \notin outdated, NEW as, After(i, as)
      PROVE  ListAwaited(skills, as, \E r \in Rest(i) : r.kind = "list")
    <2> DEFINE loading == \E r \in Rest(i) : r.kind = "list"
    <2>1. ListAwaited(skills, answers, loading)
        BY <1>1, <1>3 DEF SkillInv, SkillsCatchUp, ListAwaited
    <2>2. loading \in BOOLEAN
        OBVIOUS
    <2> HIDE DEF loading
    <2>3. ListAwaited(skills, as, loading)
        BY <1>3, <2>1, <2>2, AwaitedStays
    <2> QED BY <2>3 DEF loading
<1>4. ASSUME i # 0 => answers[i].to.kind \notin {"list", "files", "create", "delete", "write", "remove"},
             outdated = {}, ~moved, selected \in SkillIdsOf(skills), NEW as, After(i, as)
      PROVE  FilesAwaited(files, selected, as, \E r \in Rest(i) : r.kind \in {"list", "files"})
    <2> DEFINE loading == \E r \in Rest(i) : r.kind \in {"list", "files"}
    <2>0. InFlight("files") \/ InFlight("list") => loading
        BY <1>1, <1>4
    <2>1. FilesAwaited(files, selected, answers, loading)
        BY <1>4, <2>0 DEF SkillInv, FilesCatchUp, FilesAwaited
    <2>2. loading \in BOOLEAN
        OBVIOUS
    <2> HIDE DEF loading
    <2>3. FilesAwaited(files, selected, as, loading)
        BY <1>4, <2>1, <2>2, AwaitedStays
    <2> QED BY <2>3 DEF loading
<1> QED BY <1>2, <1>3, <1>4

LEMMA SkillListStep ==
    ASSUME SkillInv, NEW i \in DOMAIN answers, SkillsCame(i) \/ SkillsFailed(i)
    PROVE  SkillInv'
<1> DEFINE a == answers[i]
           old == a.to.arg
<1>0. /\ SkillAnswerOK(a) /\ SkillRequestOK(a.to) /\ a.to.kind = "list" /\ a.overtaken \in BOOLEAN
      /\ SkillScreenOK
      /\ UNCHANGED skillServerVars /\ mixed' = mixed
    BY DEF SkillInv, SkillCallsOK, CallsOK, AreAnswers, IsAnswer, SkillAnswerOK, SkillsCame, SkillsFailed
<1>1. old \in Renders(SkillIds) /\ i # 0
    <2>1. i # 0
        BY Sequence DEF SkillInv, SkillCallsOK, CallsOK, AreAnswers
    <2> QED BY <1>0, <2>1 DEF SkillRequestOK
<1>2. ~mixed /\ ~moved => OwnTexts(files, selected) \/ \E r \in Rest(i) : r.kind = "files"
    BY <1>0, AwaitedBefore
<1>3. /\ SkillList(skills) /\ selected \in SkillIdOrNothing /\ IsFiles(files)
      /\ filePath \in PathOrNothing /\ keyBlank \in BOOLEAN /\ outdated \subseteq {"list", "files"}
    BY <1>0 DEF SkillScreenOK
<1>4. CASE SkillsCame(i)
    <2> DEFINE list == a.is
    <2>1. /\ a.ok
          /\ \E id \in SelectedAfter(old, SkillIdsOf(list), selected),
                newKey \in Renewed(old, keyBlank) :
                    Rendered(i, list, id, files, filePath, id \in SkillIdsOf(list), newKey)
          /\ keyBlank' = (keyBlank /\ Renewed(old, keyBlank) = {FALSE})
          /\ outdated' = IF ~a.overtaken THEN outdated \ {"list"} ELSE outdated \cup {"list"}
        BY <1>4 DEF SkillsCame, Now
    <2>2. SkillList(list)
        BY <1>0, <2>1 DEF SkillAnswerOK
    <2>3. SkillIdsOf(list) \subseteq SkillIds
        BY <2>2 DEF SkillList, SkillRowType, SkillIdsOf
    <2>4. /\ SelectedAfter(old, SkillIdsOf(list), selected) \subseteq SkillIdOrNothing
          /\ Renewed(old, keyBlank) \subseteq BOOLEAN
        BY <1>1, <1>3, <2>3, SelectionAfterLoad DEF SkillIdOrNothing
    <2>5. PICK id \in SkillIdOrNothing, newKey \in BOOLEAN :
            Rendered(i, list, id, files, filePath, id \in SkillIdsOf(list), newKey)
        BY <2>1, <2>4
    <2> DEFINE fresh == id \in SkillIdsOf(list)
    <2>6. fresh \in BOOLEAN
        OBVIOUS
    <2>7. Rendered(i, list, id, files, filePath, fresh, newKey)
        BY <2>5
    <2>8. keyBlank' \in BOOLEAN /\ outdated' \subseteq {"list", "files"}
        BY <1>3, <2>1
    <2>9. "list" \notin outdated' => \A as : After(i, as) =>
            ListAwaited(list, as, \E r \in Rest(i) : r.kind = "list")
        <3>1. ASSUME "list" \notin outdated', NEW as, After(i, as) PROVE Leads(skillRows, as, list, 0)
            <4>1. Leads(skillRows, answers, list, i)
                BY <1>0, <2>1, <3>1 DEF SkillInv, SkillsCatchUp, AnswersLead
            <4>2. CameBack(answers, as, i)
                BY <1>1, <3>1 DEF After
            <4> HIDE DEF list
            <4> QED BY <4>1, <4>2, ListLeadsWhenReceived
        <3> QED BY <3>1 DEF ListAwaited
    <2>10. ~mixed /\ ~moved /\ id = selected => OwnTexts(files, id) \/ \E r \in Rest(i) : r.kind = "files"
        BY <1>2
    <2>11. ~(~fresh /\ id \in SkillIdsOf(list))
        OBVIOUS
    <2> HIDE DEF list, fresh
    <2> QED BY <1>0, <1>3, <2>2, <2>6, <2>7, <2>8, <2>9, <2>10, <2>11, SkillRenders
<1>5. CASE SkillsFailed(i)
    <2> DEFINE then == a.to.arg.then
               id == IF then = Nothing THEN selected ELSE then
    <2>1. /\ Rendered(i, skills, id, files, filePath, FALSE, then # Nothing)
          /\ keyBlank' = (keyBlank /\ then = Nothing)
          /\ outdated' = outdated \cup {"list"}
        BY <1>5 DEF SkillsFailed, Now
    <2>2. id \in SkillIdOrNothing
        BY <1>1, <1>3 DEF Renders, SkillIdOrNothing
    <2>3. PICK fresh \in BOOLEAN, newKey \in BOOLEAN : fresh = FALSE /\ newKey = (then # Nothing)
        OBVIOUS
    <2> HIDE DEF then, id
    <2>4. Rendered(i, skills, id, files, filePath, fresh, newKey)
        BY <2>1, <2>3, Zenon
    <2>5. /\ keyBlank' \in BOOLEAN /\ outdated' \subseteq {"list", "files"}
          /\ "list" \in outdated' /\ outdated' # {}
        BY <1>3, <2>1
    <2>6. ~mixed /\ ~moved /\ id = selected => OwnTexts(files, id) \/ \E r \in Rest(i) : r.kind = "files"
        BY <1>2
    <2> QED BY <1>0, <1>3, <2>2, <2>4, <2>5, <2>6, SkillRenders
<1> QED BY <1>4, <1>5

\* The path that a load of files selects is one of theirs or none.
LEMMA PathIsSelected ==
    ASSUME NEW to, to \in [path : PathOrNothing, then : PathOrNothing], NEW has, IsFiles(has),
           filePath \in PathOrNothing
    PROVE  PathAfter(to, has) \subseteq PathOrNothing
<1> DEFINE best(p) == p = "SKILL.md" \/ "SKILL.md" \notin DOMAIN has
           chosen == CHOOSE p \in DOMAIN has : best(p)
<1>1. to.path \in PathOrNothing /\ to.then \in PathOrNothing
    OBVIOUS
<1>2. ASSUME has # NoFiles PROVE chosen \in PathOrNothing
    <2>1. \E p \in DOMAIN has : TRUE
        <3> SUFFICES ASSUME DOMAIN has = {} PROVE has = NoFiles
            BY <1>2
        <3>1. has = [p \in {} |-> has[p]]
            BY DEF IsFiles
        <3>2. NoFiles = [p \in {} |-> has[p]]
            BY DEF NoFiles
        <3> QED BY <3>1, <3>2
    <2>2. \E p \in DOMAIN has : best(p)
        BY <2>1
    <2>3. chosen \in DOMAIN has
        BY <2>2
    <2> HIDE DEF chosen
    <2> QED BY <2>3 DEF IsFiles, PathOrNothing
<1>3. PathAfter(to, has) \subseteq {to.then, filePath, Nothing} \cup (IF has # NoFiles THEN {chosen} ELSE {})
    BY DEF PathAfter
<1> HIDE DEF chosen
<1> QED BY <1>1, <1>2, <1>3 DEF PathOrNothing

LEMMA SkillFilesStep ==
    ASSUME SkillInv, NEW i \in DOMAIN answers, FilesCame(i) \/ FilesFailed(i)
    PROVE  SkillInv'
<1> DEFINE a == answers[i]
<1>0. /\ SkillAnswerOK(a) /\ SkillRequestOK(a.to) /\ a.to.kind = "files" /\ a.overtaken \in BOOLEAN
      /\ SkillScreenOK
      /\ UNCHANGED skillServerVars /\ mixed' = mixed /\ keyBlank' = keyBlank
    BY DEF SkillInv, SkillCallsOK, CallsOK, AreAnswers, IsAnswer, SkillAnswerOK, FilesCame, FilesFailed
<1>1. i # 0
    BY Sequence DEF SkillInv, SkillCallsOK, CallsOK, AreAnswers
<1>2. /\ SkillList(skills) /\ selected \in SkillIdOrNothing
      /\ filePath \in PathOrNothing /\ keyBlank \in BOOLEAN /\ outdated \subseteq {"list", "files"}
    BY <1>0 DEF SkillScreenOK
<1>3. /\ a.to.id \in SkillIds /\ a.to.arg \in [path : PathOrNothing, then : PathOrNothing]
    BY <1>0 DEF SkillRequestOK
<1>4. "list" \notin outdated => \A as : After(i, as) =>
            ListAwaited(skills, as, \E r \in Rest(i) : r.kind = "list")
    BY <1>0, AwaitedBefore
<1>5. a.to \in Requests
    BY DEF Requests
<1>6. PICK fresh \in BOOLEAN, newKey \in BOOLEAN : fresh = FALSE /\ newKey = FALSE
    OBVIOUS
<1>7. CASE FilesCame(i)
    <2> DEFINE has == a.is
    <2>1. /\ a.ok
          /\ \E path \in PathAfter(a.to.arg, has) : Rendered(i, skills, selected, has, path, FALSE, FALSE)
          /\ outdated' = IF ~a.overtaken THEN outdated \ {"files"} ELSE outdated \cup {"files"}
        BY <1>7 DEF FilesCame, Now
    <2>2. IsFiles(has)
        BY <1>0, <2>1 DEF SkillAnswerOK
    <2>3. PathAfter(a.to.arg, has) \subseteq PathOrNothing
        BY <1>2, <1>3, <2>2, PathIsSelected
    <2>4. PICK path \in PathOrNothing : Rendered(i, skills, selected, has, path, FALSE, FALSE)
        BY <2>1, <2>3, Zenon
    <2>5. Rendered(i, skills, selected, has, path, fresh, newKey)
        BY <1>6, <2>4, Zenon
    <2>6. outdated' \subseteq {"list", "files"} /\ ("list" \notin outdated' => "list" \notin outdated)
        BY <1>2, <2>1, Zenon
    <2>7. ~moved => a.to.id = selected
        BY <1>0, <1>5 DEF SkillInv, ScreenIsOwn, FileKinds
    <2>8. ~mixed /\ ~moved => OwnTexts(has, selected)
        BY <1>0, <2>1, <2>7 DEF SkillInv, TextsAreOwn
    <2>9. ASSUME outdated' = {}, ~moved, NEW as, After(i, as)
          PROVE  FilesAwaited(has, selected, as, \E r \in Rest(i) : r.kind \in {"list", "files"})
        <3>1. has = skillFiles[a.to.id] \/ Refiled(answers, i)
            BY <1>0, <2>1, <2>9 DEF SkillInv, FilesCatchUp, FilesLead
        <3>2. CameBack(answers, as, i)
            BY <1>1, <2>9 DEF After
        <3>3. Refiled(answers, i) => Refiled(as, 0)
            BY <3>2, FilesLeadAfterReceipt DEF SkillInv, FilesCatchUp
        <3> QED BY <2>7, <2>9, <3>1, <3>3 DEF FilesAwaited
    <2> HIDE DEF has
    <2>10. "list" \notin outdated' => \A as : After(i, as) =>
            ListAwaited(skills, as, \E r \in Rest(i) : r.kind = "list")
        BY <1>4, <2>6
    <2>11. /\ outdated' = {} /\ ~moved /\ selected = selected /\ ~fresh
           /\ selected \in SkillIdsOf(skills) /\ selected \in SkillIdsOf(skills)
           => \A as : After(i, as) =>
                FilesAwaited(has, selected, as, \E r \in Rest(i) : r.kind \in {"list", "files"})
        BY <2>9
    <2>12. ~mixed /\ ~moved /\ selected = selected =>
                OwnTexts(has, selected) \/ \E r \in Rest(i) : r.kind = "files"
        BY <2>8
    <2>13. keyBlank' \in BOOLEAN /\ UNCHANGED skillServerVars /\ mixed' = mixed
        BY <1>0, <1>2
    <2>14. i \in DOMAIN answers
        OBVIOUS
    <2> QED BY <1>2, <2>2, <2>5, <2>6, <2>10, <2>11, <2>12, <2>13, <2>14, SkillRenders
<1>8. CASE FilesFailed(i)
    <2> DEFINE path == a.to.arg.then
    <2>1. Rendered(i, skills, selected, NoFiles, path, FALSE, FALSE) /\ outdated' = outdated \cup {"files"}
        BY <1>8 DEF FilesFailed, Now
    <2>2. path \in PathOrNothing
        BY <1>3
    <2>3. IsFiles(NoFiles) /\ OwnTexts(NoFiles, selected)
        <3>1. DOMAIN NoFiles = {}
            BY DEF NoFiles
        <3> QED BY <3>1 DEF IsFiles, NoFiles, OwnTexts
    <2> HIDE DEF path
    <2>4. Rendered(i, skills, selected, NoFiles, path, fresh, newKey)
        BY <1>6, <2>1, Zenon
    <2>5. /\ outdated' \subseteq {"list", "files"} /\ outdated' # {}
          /\ "list" \notin outdated' => "list" \notin outdated
        BY <1>2, <2>1
    <2>6. "list" \notin outdated' => \A as : After(i, as) =>
            ListAwaited(skills, as, \E r \in Rest(i) : r.kind = "list")
        BY <1>4, <2>5
    <2>7. keyBlank' \in BOOLEAN /\ UNCHANGED skillServerVars /\ mixed' = mixed
        BY <1>0, <1>2
    <2>8. i \in DOMAIN answers
        OBVIOUS
    <2> QED BY <1>2, <2>2, <2>3, <2>4, <2>5, <2>6, <2>7, <2>8, SkillRenders
<1> QED BY <1>7, <1>8

LEMMA SkillUpdateStep ==
    ASSUME SkillInv, NEW i \in DOMAIN answers, UpdateCame(i)
    PROVE  SkillInv'
<1> DEFINE a == answers[i]
           old == {s \in skills : s.id = a.to.id}
           list == IF old = {} THEN skills ELSE (skills \ old) \cup {a.is}
           fresh == old # {} /\ a.to.id = selected
<1>0. /\ SkillAnswerOK(a) /\ a.overtaken \in BOOLEAN /\ SkillScreenOK /\ SkillList(skillRows)
    BY DEF SkillInv, SkillCallsOK, CallsOK, AreAnswers, IsAnswer, SkillTablesOK
<1>1. /\ a.ok /\ a.to.kind = "update"
      /\ Rendered(i, list, selected, files, filePath, fresh, FALSE)
      /\ outdated' = IF a.overtaken THEN outdated \cup {"list"} ELSE outdated
      /\ UNCHANGED skillServerVars /\ mixed' = mixed /\ keyBlank' = keyBlank
    BY DEF UpdateCame
<1>2. a.is \in SkillRowType /\ a.is.id = a.to.id
    BY <1>0, <1>1 DEF SkillAnswerOK
<1>3. i # 0
    BY Sequence DEF SkillInv, SkillCallsOK, CallsOK, AreAnswers
<1>4. /\ SkillList(skills) /\ selected \in SkillIdOrNothing /\ IsFiles(files)
      /\ filePath \in PathOrNothing /\ keyBlank \in BOOLEAN /\ outdated \subseteq {"list", "files"}
    BY <1>0 DEF SkillScreenOK
<1>5. SkillList(list)
    BY <1>2, <1>4 DEF SkillList
<1>6. SkillIdsOf(list) = SkillIdsOf(skills)
    BY <1>2 DEF SkillIdsOf
<1>7. /\ \A s \in skills : s \in list \/ s.id = a.to.id
      /\ a.to.id \in SkillIdsOf(skills) => a.is \in list
    BY DEF SkillIdsOf
<1>8. fresh \in BOOLEAN
    OBVIOUS
<1>9. PICK newKey \in BOOLEAN : newKey = FALSE
    OBVIOUS
<1>10. Rendered(i, list, selected, files, filePath, fresh, newKey)
    BY <1>1, <1>9, Zenon
<1> HIDE DEF old, list, fresh
<1>11. ~mixed /\ ~moved => OwnTexts(files, selected) \/ \E r \in Rest(i) : r.kind = "files"
    BY <1>1, AwaitedBefore
<1>12. ASSUME "list" \notin outdated', NEW as, After(i, as)
       PROVE  ListAwaited(list, as, \E r \in Rest(i) : r.kind = "list")
    <2>1. ~a.overtaken /\ "list" \notin outdated
        BY <1>0, <1>1, <1>12
    <2>2. CASE InFlight("list")
        BY <1>1, <2>2, LoadsGoOn DEF ListAwaited
    <2>3. CASE Leads(skillRows, answers, skills, 0)
        <3>1. CameBack(answers, as, i)
            BY <1>3, <1>12 DEF After
        <3>2. AnswersLead(skillRows, answers) /\ \A s, t \in skillRows : s.id = t.id => s = t
            BY <1>0 DEF SkillInv, SkillsCatchUp, SkillList
        <3>3. IdsIn(list) = IdsIn(skills) /\ (a.to.id \in IdsIn(skills) => a.is \in list)
            BY <1>6, <1>7 DEF IdsIn, SkillIdsOf
        <3>4. Leads(skillRows, as, list, 0)
            BY <1>1, <1>2, <1>7, <2>1, <2>3, <3>1, <3>2, <3>3, LeadsAfterUpdate
        <3> QED BY <3>4 DEF ListAwaited
    <2> QED BY <2>1, <2>2, <2>3 DEF SkillInv, SkillsCatchUp
<1>13. ASSUME outdated' = {}, ~moved, selected \in SkillIdsOf(list), NEW as, After(i, as)
       PROVE  FilesAwaited(files, selected, as, \E r \in Rest(i) : r.kind \in {"list", "files"})
    <2>1. outdated = {}
        BY <1>1, <1>13
    <2> QED BY <1>1, <1>6, <1>13, <2>1, AwaitedBefore
<1>14. keyBlank' \in BOOLEAN /\ outdated' \subseteq {"list", "files"}
    BY <1>1, <1>4
<1>15. /\ outdated' = {} /\ ~moved /\ selected = selected /\ ~fresh
       /\ selected \in SkillIdsOf(list) /\ selected \in SkillIdsOf(skills)
       => \A as : After(i, as) =>
            FilesAwaited(files, selected, as, \E r \in Rest(i) : r.kind \in {"list", "files"})
    BY <1>13
<1>16. "list" \notin outdated' => \A as : After(i, as) =>
            ListAwaited(list, as, \E r \in Rest(i) : r.kind = "list")
    BY <1>12
<1>17. UNCHANGED skillServerVars /\ mixed' = mixed /\ i \in DOMAIN answers
    BY <1>1
<1> QED BY <1>4, <1>5, <1>8, <1>9, <1>10, <1>11, <1>14, <1>15, <1>16, <1>17, SkillRenders

-----------------------------------------------------------------------------
\* A step after which the page shows what it did: what it sends is about the skill
\* it shows, and a change of the server is followed by a load or makes the page outdated.
LEMMA SkillQuietStep ==
    ASSUME SkillInv, NEW i, i = 0 \/ i \in DOMAIN answers, NEW rs, Went(i, rs),
           UNCHANGED <<skillRows, unborn, skillFiles, skills, selected, files, filePath, moved>>,
           keyBlank' \in BOOLEAN, mixed' \in BOOLEAN,
           \A r \in rs : SkillRequestOK(r) /\ (~moved /\ r.kind \in FileKinds => r.id = selected),
           ~mixed' => ~mixed /\ \A r \in rs : r.kind = "write" => r.arg.text \in {r.id, ""},
           outdated' = outdated \/ outdated' = {"list", "files"},
           i # 0 => /\ answers[i].to.kind \notin {"list", "files"}
                    /\ \/ outdated' = {"list", "files"}
                       \/ ~answers[i].ok
                       \/ answers[i].to.kind \in {"create", "delete"} /\ \E r \in rs : r.kind = "list"
                       \/ answers[i].to.kind \in {"write", "remove"} /\ \E r \in rs : r.kind = "files"
    PROVE  SkillInv'
<1>1. Requests' = Rest(i) \cup rs /\ After(i, answers')
    BY DEF Went, After
<1>2. /\ \A k : (\E r \in Rest(i) : r.kind = k) => InFlight(k)'
      /\ \A k : (\E r \in rs : r.kind = k) => InFlight(k)'
    BY <1>1 DEF InFlight
<1>3. /\ Rest(i) \subseteq Requests
      /\ \A k : (i # 0 => answers[i].to.kind # k) => (InFlight(k) => \E r \in Rest(i) : r.kind = k)
    BY LoadsGoOn
<1>4. \A k \in {"list", "files"} : InFlight(k) => InFlight(k)'
    BY <1>2, <1>3
<1>5. UNCHANGED skillServerVars
    BY DEF skillServerVars
<1>6. SkillScreenOK'
    BY DEF SkillInv, SkillScreenOK
<1>7. ScreenIsOwn'
    <2>1. ASSUME ~moved, NEW r \in Requests', r.kind \in FileKinds PROVE r.id = selected
        BY <1>1, <1>3, <2>1 DEF SkillInv, ScreenIsOwn
    <2>2. ASSUME ~mixed', ~moved PROVE OwnTexts(files, selected) \/ InFlight("files")'
        BY <1>4, <2>2 DEF SkillInv, ScreenIsOwn
    <2> QED BY <2>1, <2>2 DEF ScreenIsOwn
<1>8. ASSUME "list" \notin outdated'
      PROVE  ListAwaited(skills, answers', InFlight("list")')
    <2>0. "list" \notin outdated /\ outdated' = outdated
        BY <1>8
    <2>1. CASE InFlight("list") \/ \E r \in rs : r.kind = "list"
        BY <1>2, <1>4, <2>1 DEF ListAwaited
    <2>2. CASE Leads(skillRows, answers, skills, 0) /\ ~\E r \in rs : r.kind = "list"
        <3>1. CASE i = 0
            BY <1>1, <2>2, <3>1 DEF After, ListAwaited
        <3>2. CASE i # 0
            <4>1. ~answers[i].ok \/ answers[i].to.kind \notin {"create", "delete", "update"}
                BY <1>8, <2>2, <3>2
            <4>2. CameBack(answers, answers', i)
                BY <1>1, <3>2 DEF After
            <4>3. Leads(skillRows, answers', skills, 0)
                BY <2>2, <4>1, <4>2, ListLeadsWhenReceived
            <4> QED BY <4>3 DEF ListAwaited
        <3> QED BY <3>1, <3>2
    <2> QED BY <2>0, <2>1, <2>2 DEF SkillInv, SkillsCatchUp
<1>9. ASSUME outdated' = {}, ~moved, selected \in SkillIdsOf(skills)
      PROVE  FilesAwaited(files, selected, answers', InFlight("files")' \/ InFlight("list")')
    <2>0. outdated = {} /\ outdated' # {"list", "files"}
        BY <1>9
    <2>1. CASE InFlight("files") \/ InFlight("list") \/ \E r \in rs : r.kind \in {"list", "files"}
        BY <1>2, <1>4, <2>1 DEF FilesAwaited
    <2>2. CASE files = skillFiles[selected]
        BY <2>2 DEF FilesAwaited
    <2>3. CASE Refiled(answers, 0) /\ ~\E r \in rs : r.kind \in {"list", "files"}
        <3>1. CASE i = 0
            BY <1>1, <2>3, <3>1 DEF After, FilesAwaited
        <3>2. CASE i # 0
            <4>1. ~answers[i].ok
                BY <2>0, <2>3, <3>2
            <4>2. CameBack(answers, answers', i)
                BY <1>1, <3>2 DEF After
            <4>3. Refiled(answers', 0)
                BY <2>3, <4>1, <4>2, FilesLeadAfterReceipt DEF SkillInv, FilesCatchUp
            <4> QED BY <4>3 DEF FilesAwaited
        <3> QED BY <3>1, <3>2
    <2> QED BY <1>9, <2>0, <2>1, <2>2, <2>3 DEF SkillInv, FilesCatchUp
<1> QED BY <1>5, <1>6, <1>7, <1>8, <1>9, SkillAfterStep

LEMMA SkillChangeStep ==
    ASSUME SkillInv, NEW i \in DOMAIN answers, ChangeCame(i) \/ ChangeFailed(i)
    PROVE  SkillInv'
<1> DEFINE a == answers[i]
           r == a.to
<1>0. /\ SkillAnswerOK(a) /\ SkillRequestOK(r) /\ a.ok \in BOOLEAN /\ SkillScreenOK /\ CallsOK
    BY DEF SkillInv, SkillCallsOK, CallsOK, AreAnswers, IsAnswer, SkillAnswerOK
<1>1. i # 0
    BY Sequence DEF SkillInv, SkillCallsOK, CallsOK, AreAnswers
<1>2. keyBlank \in BOOLEAN /\ mixed \in BOOLEAN
    BY <1>0 DEF SkillScreenOK
<1>3. ~moved /\ r.kind \in FileKinds => r.id = selected
    BY DEF SkillInv, ScreenIsOwn, Requests
<1>4. ASSUME NEW q, SkillRequestOK(q), Receive(SkillBound, i, {q}), UNCHANGED editorVars,
             q.kind \in {"list", "files"}, q.kind = "files" => q.id = r.id /\ r.kind \in FileKinds,
             \/ r.kind \in {"create", "delete"} /\ q.kind = "list"
             \/ r.kind \in {"write", "remove"} /\ q.kind = "files"
      PROVE  SkillInv'
    <2> DEFINE rs == {q}
    <2>1. Went(i, rs)
        BY <1>0, <1>1, <1>4, ClientActs
    <2>2. UNCHANGED <<skillRows, unborn, skillFiles, skills, selected, files, filePath, moved,
                      keyBlank, mixed, outdated>>
        BY <1>4 DEF editorVars
    <2>3. \A p \in rs : /\ SkillRequestOK(p) /\ (~moved /\ p.kind \in FileKinds => p.id = selected)
                        /\ p.kind # "write"
        BY <1>3, <1>4 DEF FileKinds
    <2>4. /\ answers[i].to.kind \notin {"list", "files"}
          /\ \/ answers[i].to.kind \in {"create", "delete"} /\ \E p \in rs : p.kind = "list"
             \/ answers[i].to.kind \in {"write", "remove"} /\ \E p \in rs : p.kind = "files"
        BY <1>4
    <2> HIDE DEF a, rs
    <2> QED BY <1>2, <2>1, <2>2, <2>3, <2>4, SkillQuietStep
<1>5. CASE ChangeCame(i) /\ r.kind = "create"
    <2> DEFINE q == Request("list", Nothing, [r.arg EXCEPT !.then = a.is])
    <2>1. a.ok /\ Receive(SkillBound, i, {q}) /\ UNCHANGED editorVars
        BY <1>5 DEF ChangeCame
    <2>2. a.is \in SkillIds /\ r.arg \in Renders(SkillIds)
        BY <1>0, <1>5, <2>1 DEF SkillAnswerOK, SkillRequestOK
    <2>3. q.kind = "list" /\ SkillRequestOK(q)
        BY <2>2 DEF Request, SkillRequestOK, Renders
    <2> HIDE DEF q
    <2> QED BY <1>4, <1>5, <2>1, <2>3
<1>6. CASE ChangeCame(i) /\ r.kind = "delete"
    <2> DEFINE q == Request("list", Nothing, r.arg)
    <2>1. a.ok /\ Receive(SkillBound, i, {q}) /\ UNCHANGED editorVars
        BY <1>6 DEF ChangeCame
    <2>2. q.kind = "list" /\ SkillRequestOK(q)
        BY <1>0, <1>6 DEF Request, SkillRequestOK
    <2> HIDE DEF q
    <2> QED BY <1>4, <1>6, <2>1, <2>2
<1>7. CASE ChangeCame(i) /\ r.kind \in {"write", "remove"}
    <2>1. PICK then \in PathOrNothing :
            Receive(SkillBound, i, {ListFiles(r.id, r.arg.shown, then)})
        BY <1>0, <1>7 DEF ChangeCame, SkillRequestOK, PathOrNothing
    <2> DEFINE q == ListFiles(r.id, r.arg.shown, then)
    <2>2. Receive(SkillBound, i, {q}) /\ UNCHANGED editorVars
        BY <1>7, <2>1 DEF ChangeCame
    <2>3. q.kind = "files" /\ q.id = r.id /\ SkillRequestOK(q)
        BY <1>0, <1>7 DEF ListFiles, Request, SkillRequestOK
    <2>4. r.kind \in FileKinds
        BY <1>7 DEF FileKinds
    <2> HIDE DEF q
    <2> QED BY <1>4, <1>7, <2>2, <2>3, <2>4
<1>8. CASE ChangeFailed(i)
    <2> DEFINE rs == {}
    <2>1. /\ Receive(SkillBound, i, rs) /\ r.kind \in Changes
          /\ outdated' = IF a.ok THEN {"list", "files"} ELSE outdated
          /\ UNCHANGED <<skillRows, unborn, skillFiles, skills, selected, files, filePath, keyBlank,
                         moved, mixed>>
        BY <1>8 DEF ChangeFailed, skillServerVars
    <2>2. Went(i, rs)
        BY <1>0, <1>1, <2>1, ClientActs
    <2>3. answers[i].to.kind \notin {"list", "files"}
        BY <2>1 DEF Changes
    <2>4. \A p \in rs : FALSE
        OBVIOUS
    <2>5. outdated' = {"list", "files"} \/ (~answers[i].ok /\ outdated' = outdated)
        BY <1>0, <2>1
    <2> HIDE DEF rs
    <2> QED BY <1>2, <2>1, <2>2, <2>3, <2>4, <2>5, SkillQuietStep
<1> QED BY <1>5, <1>6, <1>7, <1>8 DEF ChangeCame

-----------------------------------------------------------------------------
LEMMA SkillAsks ==
    ASSUME SkillInv, NEW r, SkillRequestOK(r), Ask(SkillBound, {r}),
           UNCHANGED <<skillRows, unborn, skillFiles, skills, selected, files, filePath, outdated, moved>>,
           keyBlank' \in BOOLEAN, mixed' \in BOOLEAN, ~moved /\ r.kind \in FileKinds => r.id = selected,
           ~mixed' => ~mixed /\ (r.kind = "write" => r.arg.text \in {r.id, ""})
    PROVE  SkillInv'
<1> DEFINE rs == {r}
<1>1. PICK i : i = 0
    OBVIOUS
<1>2. Went(i, rs)
    BY <1>1, ClientActs DEF SkillInv, SkillCallsOK
<1>3. /\ \A q \in rs : SkillRequestOK(q) /\ (~moved /\ q.kind \in FileKinds => q.id = selected)
      /\ ~mixed' => ~mixed /\ \A q \in rs : q.kind = "write" => q.arg.text \in {q.id, ""}
    OBVIOUS
<1> HIDE DEF rs
<1> QED BY <1>1, <1>2, <1>3, SkillQuietStep

LEMMA SkillUserStep ==
    ASSUME SkillInv,
           \/ \E s \in SkillIds : SelectSkill(s)
           \/ \E p \in AllPaths : SelectFile(p)
           \/ \E p \in SkillPaths : CreateFile(p) \/ DeleteFile(p)
           \/ \E b \in BOOLEAN : TypeKey(b) \/ UpdateSkill(b)
           \/ CreateSkill \/ DeleteSkill \/ SaveFile
    PROVE  SkillInv'
<1>0. /\ SkillScreenOK /\ SkillList(skills) /\ selected \in SkillIdOrNothing /\ IsFiles(files)
      /\ filePath \in PathOrNothing /\ keyBlank \in BOOLEAN /\ outdated \subseteq {"list", "files"}
      /\ mixed \in BOOLEAN /\ moved \in BOOLEAN
    BY DEF SkillInv, SkillScreenOK
<1>1. Shown => selected \in SkillIds
    BY <1>0 DEF Shown, SkillIdsOf, SkillList, SkillRowType
<1>2. PICK i \in {0}, no \in BOOLEAN : i = 0 /\ no = FALSE
    OBVIOUS
<1>3. ASSUME NEW id \in SkillIdOrNothing, NEW path \in PathOrNothing,
             Rendered(0, skills, id, files, path, FALSE, FALSE),
             UNCHANGED <<skillServerVars, keyBlank, outdated, mixed>>
      PROVE  SkillInv'
    <2>1. Rendered(i, skills, id, files, path, no, no)
        BY <1>2, <1>3, Zenon
    <2>2. ~mixed /\ ~moved => OwnTexts(files, selected) \/ \E r \in Rest(i) : r.kind = "files"
        BY <1>2, AwaitedBefore
    <2>3. "list" \notin outdated' => \A as : After(i, as) =>
                ListAwaited(skills, as, \E r \in Rest(i) : r.kind = "list")
        BY <1>2, <1>3, AwaitedBefore
    <2>4. outdated = {} /\ ~moved /\ selected \in SkillIdsOf(skills) => \A as : After(i, as) =>
                FilesAwaited(files, selected, as, \E r \in Rest(i) : r.kind \in {"list", "files"})
        BY <1>2, AwaitedBefore
    <2>5. ~mixed /\ ~moved /\ id = selected => OwnTexts(files, id) \/ \E r \in Rest(i) : r.kind = "files"
        BY <2>2
    <2>6. /\ outdated' = {} /\ ~moved /\ id = selected /\ ~no
          /\ id \in SkillIdsOf(skills) /\ id \in SkillIdsOf(skills)
          => \A as : After(i, as) =>
                FilesAwaited(files, id, as, \E r \in Rest(i) : r.kind \in {"list", "files"})
        BY <1>3, <2>4
    <2>7. /\ UNCHANGED skillServerVars /\ mixed' = mixed /\ keyBlank' \in BOOLEAN
          /\ outdated' \subseteq {"list", "files"}
        BY <1>0, <1>3
    <2>8. i = 0 /\ no \in BOOLEAN
        BY <1>2
    <2> QED BY <1>0, <2>1, <2>3, <2>5, <2>6, <2>7, <2>8, SkillRenders
<1>4. ASSUME NEW s \in SkillIds, SelectSkill(s) PROVE SkillInv'
    <2>1. /\ Rendered(0, skills, s, files, filePath, FALSE, FALSE)
          /\ UNCHANGED <<skillServerVars, keyBlank, outdated, mixed>>
        BY <1>4 DEF SelectSkill
    <2>2. s \in SkillIdOrNothing
        BY DEF SkillIdOrNothing
    <2> QED BY <1>0, <1>3, <2>1, <2>2, Zenon
<1>5. ASSUME NEW p \in AllPaths, SelectFile(p) PROVE SkillInv'
    <2>1. /\ Rendered(0, skills, selected, files, p, FALSE, FALSE)
          /\ UNCHANGED <<skillServerVars, keyBlank, outdated, mixed>>
        BY <1>5 DEF SelectFile
    <2>2. p \in PathOrNothing
        BY DEF PathOrNothing
    <2> QED BY <1>0, <1>3, <2>1, <2>2, Zenon
<1>6. ASSUME NEW b \in BOOLEAN, TypeKey(b) PROVE SkillInv'
    <2> DEFINE r == Request("list", Nothing, [selected |-> selected, blank |-> b, then |-> Nothing])
    <2>1. /\ Ask(SkillBound, {r}) /\ keyBlank' = b /\ mixed' = mixed
          /\ UNCHANGED <<skillRows, unborn, skillFiles, skills, selected, files, filePath, outdated, moved>>
        BY <1>6 DEF TypeKey, skillServerVars
    <2>2. SkillRequestOK(r) /\ r.kind = "list"
        BY <1>0 DEF Request, SkillRequestOK, Renders, SkillIdOrNothing
    <2>3. r.kind \notin FileKinds
        BY <2>2 DEF FileKinds
    <2> HIDE DEF r
    <2> QED BY <1>0, <2>1, <2>2, <2>3, SkillAsks
<1>7. ASSUME NEW r, SkillRequestOK(r), Ask(SkillBound, {r}), UNCHANGED shownVars,
             r.kind \in FileKinds => r.id = selected, r.kind = "write" => r.arg.text = ""
      PROVE  SkillInv'
    <2>1. UNCHANGED <<skillRows, unborn, skillFiles, skills, selected, files, filePath, outdated, moved,
                      keyBlank, mixed>>
        BY <1>7 DEF shownVars, skillServerVars
    <2> QED BY <1>0, <1>7, <2>1, SkillAsks
<1>8. ListSkills(Nothing).arg \in Renders(SkillIds)
    BY <1>0 DEF ListSkills, Request, Renders, SkillIdOrNothing
<1>9. CASE CreateSkill
    <2> DEFINE r == Request("create", Nothing, ListSkills(Nothing).arg)
    <2>1. Ask(SkillBound, {r}) /\ UNCHANGED shownVars
        BY <1>9 DEF CreateSkill
    <2>2. SkillRequestOK(r) /\ r.kind \notin FileKinds /\ r.kind # "write"
        BY <1>8 DEF SkillRequestOK, Request, FileKinds
    <2> HIDE DEF r
    <2> QED BY <1>7, <2>1, <2>2
<1>10. ASSUME NEW b \in BOOLEAN, UpdateSkill(b) PROVE SkillInv'
    <2> DEFINE r == Request("update", selected, b)
    <2>1. Shown /\ Ask(SkillBound, {r}) /\ UNCHANGED shownVars
        BY <1>10 DEF UpdateSkill
    <2>2. SkillRequestOK(r) /\ r.kind \notin FileKinds /\ r.kind # "write"
        BY <1>1, <2>1 DEF SkillRequestOK, Request, FileKinds
    <2> HIDE DEF r
    <2> QED BY <1>7, <2>1, <2>2
<1>11. CASE DeleteSkill
    <2> DEFINE r == Request("delete", selected, ListSkills(Nothing).arg)
    <2>1. Shown /\ Ask(SkillBound, {r}) /\ UNCHANGED shownVars
        BY <1>11 DEF DeleteSkill
    <2>2. SkillRequestOK(r) /\ r.kind \notin FileKinds /\ r.kind # "write"
        BY <1>1, <1>8, <2>1 DEF SkillRequestOK, Request, FileKinds
    <2> HIDE DEF r
    <2> QED BY <1>7, <2>1, <2>2
<1>12. ASSUME NEW p \in SkillPaths, CreateFile(p) PROVE SkillInv'
    <2> DEFINE r == Request("write", selected, [path |-> p, shown |-> filePath, text |-> ""])
    <2>1. Shown /\ Ask(SkillBound, {r}) /\ UNCHANGED shownVars
        BY <1>12 DEF CreateFile
    <2>2. SkillRequestOK(r) /\ r.id = selected /\ r.arg.text = ""
        BY <1>0, <1>1, <2>1 DEF SkillRequestOK, Request, AllPaths
    <2> HIDE DEF r
    <2> QED BY <1>7, <2>1, <2>2
<1>13. ASSUME NEW p \in SkillPaths, DeleteFile(p) PROVE SkillInv'
    <2> DEFINE r == Request("remove", selected, [path |-> p, shown |-> filePath])
    <2>1. Shown /\ Ask(SkillBound, {r}) /\ UNCHANGED shownVars
        BY <1>13 DEF DeleteFile
    <2>2. SkillRequestOK(r) /\ r.id = selected /\ r.kind # "write"
        BY <1>0, <1>1, <2>1 DEF SkillRequestOK, Request, AllPaths
    <2> HIDE DEF r
    <2> QED BY <1>7, <2>1, <2>2
<1>14. CASE SaveFile
    <2> DEFINE text == IF files[filePath] = "" THEN selected ELSE files[filePath]
               r == Request("write", selected, [path |-> filePath, shown |-> filePath, text |-> text])
               loading == \E q \in Requests : q.kind \in FileKinds
    <2>1. /\ Shown /\ filePath \in DOMAIN files /\ Ask(SkillBound, {r})
          /\ mixed' = (mixed \/ moved \/ loading)
          /\ UNCHANGED <<skillRows, unborn, skillFiles, skills, selected, files, filePath, outdated, moved,
                         keyBlank>>
        BY <1>14 DEF SaveFile, skillServerVars
    <2>2. mixed' \in BOOLEAN /\ (~mixed' => ~mixed /\ ~moved /\ ~loading)
        BY <1>0, <2>1
    <2>3. ~mixed' => text \in {selected, ""}
        <3> SUFFICES ASSUME ~mixed' PROVE files[filePath] \in {selected, ""}
            OBVIOUS
        <3>1. ~mixed /\ ~moved /\ ~loading
            BY <2>2
        <3>2. ~InFlight("files")
            BY <3>1 DEF InFlight, FileKinds
        <3> QED BY <2>1, <3>1, <3>2 DEF SkillInv, ScreenIsOwn, OwnTexts
    <2>4. filePath \in AllPaths
        BY <1>0, <2>1 DEF IsFiles
    <2> HIDE DEF text, loading
    <2>5. SkillRequestOK(r) /\ r.id = selected /\ r.arg.text = text
        BY <1>0, <1>1, <2>1, <2>4 DEF SkillRequestOK, Request
    <2> HIDE DEF r
    <2> QED BY <1>0, <2>1, <2>2, <2>3, <2>5, SkillAsks
<1> QED BY <1>4, <1>5, <1>6, <1>9, <1>10, <1>11, <1>12, <1>13, <1>14

LEMMA SkillsInitially ==
    ASSUME EditorInit, CallsInit(EditorRequests)
    PROVE  SkillInv
<1> DEFINE r == Request("list", Nothing, [selected |-> Nothing, blank |-> TRUE, then |-> Nothing])
<1>1. SkillRequestOK(r) /\ r.kind = "list"
    BY DEF Request, SkillRequestOK, Renders
<1>2. asked = SetToBag({r}) /\ answers = <<>>
    BY DEF CallsInit, EditorRequests
<1> HIDE DEF r
<1>3. DOMAIN asked = {r} /\ IsABag(asked)
    BY <1>2 DEF SetToBag, IsABag
<1>4. DOMAIN answers = {} /\ AreAnswers(answers)
    BY <1>2 DEF AreAnswers
<1>5. Requests = {r}
    BY <1>3, <1>4 DEF Requests
<1>6. SkillCallsOK
    BY <1>1, <1>3, <1>4 DEF SkillCallsOK, CallsOK
<1>7. PICK born \in FirstSkills : skillRows = {SkillRow(s, TRUE) : s \in born}
    BY DEF EditorInit
<1>8. born \subseteq SkillIds
    BY SkillEditorAssumption
<1>9. /\ unborn = SkillIds \ SkillIdsOf(skillRows)
      /\ skillFiles = [s \in SkillIds |-> IF s \in unborn THEN NoFiles ELSE [p \in AllPaths |-> s]]
      /\ skills = {} /\ selected = Nothing /\ files = NoFiles /\ filePath = Nothing
      /\ keyBlank = TRUE /\ outdated = {"list", "files"} /\ moved = FALSE /\ mixed = FALSE
    BY DEF EditorInit
<1>10. DOMAIN NoFiles = {} /\ IsFiles(NoFiles)
    BY DEF NoFiles, IsFiles
<1>11. \A s : OwnTexts(NoFiles, s)
    BY <1>10 DEF OwnTexts
<1>12. SkillList(skillRows)
    <2>1. \A s \in born : LET row == SkillRow(s, TRUE) IN row \in SkillRowType /\ row.id = s
        BY <1>8 DEF SkillRow, SkillRowType
    <2> DEFINE row(s) == SkillRow(s, TRUE)
    <2>2. \A s \in born : row(s) \in SkillRowType /\ row(s).id = s
        BY <2>1
    <2>3. skillRows = {row(s) : s \in born}
        BY <1>7
    <2> HIDE DEF row
    <2> QED BY <2>2, <2>3 DEF SkillList
<1>13. \A s \in SkillIds : IsFiles(skillFiles[s]) /\ OwnTexts(skillFiles[s], s)
    <2>1. \A s : IsFiles([p \in AllPaths |-> s]) /\ OwnTexts([p \in AllPaths |-> s], s)
        BY DEF IsFiles, OwnTexts
    <2> DEFINE g(s) == [p \in AllPaths |-> s]
    <2>2. \A s : IsFiles(g(s)) /\ OwnTexts(g(s), s)
        BY <2>1
    <2>3. \A s \in SkillIds : skillFiles[s] = NoFiles \/ skillFiles[s] = g(s)
        BY <1>9
    <2> HIDE DEF g
    <2> QED BY <1>10, <1>11, <2>2, <2>3
<1>14. SkillTablesOK
    BY <1>9, <1>12, <1>13 DEF SkillTablesOK
<1>15. SkillScreenOK
    BY <1>9, <1>10 DEF SkillScreenOK, SkillList, SkillIdOrNothing, PathOrNothing
<1>16. TextsAreOwn
    BY <1>1, <1>3, <1>4, <1>13 DEF TextsAreOwn
<1>17. ScreenIsOwn
    BY <1>1, <1>5, <1>9, <1>11 DEF ScreenIsOwn, FileKinds
<1>18. SkillsCatchUp
    BY <1>4, <1>9 DEF SkillsCatchUp, AnswersLead
<1>19. FilesCatchUp
    BY <1>4, <1>9 DEF FilesCatchUp, FilesLead
<1> QED BY <1>6, <1>14, <1>15, <1>16, <1>17, <1>18, <1>19 DEF SkillInv

LEMMA SkillInvKeeps ==
    ASSUME SkillInv
    PROVE  SkillEditorKeeps
<1>1. ~mixed => \A s \in SkillIds : \A p \in DOMAIN skillFiles[s] : skillFiles[s][p] \in {s, ""}
    BY DEF SkillInv, TextsAreOwn, OwnTexts
<1>2. ASSUME Quiet, outdated = {}, ~moved
      PROVE  /\ skills = skillRows
             /\ selected \in SkillIdsOf(skills) => files = skillFiles[selected]
    <2>1. DOMAIN asked = {} /\ DOMAIN answers = {}
        BY <1>2 DEF Quiet, EmptyBag, SetToBag
    <2>2. \A k : ~InFlight(k)
        BY <2>1 DEF InFlight, Requests
    <2>3. SkillIdsOf(skills) = SkillIdsOf(skillRows) /\ \A s \in skillRows : s \in skills
        BY <1>2, <2>1, <2>2 DEF SkillInv, SkillsCatchUp, Leads, Relisted, Patched, IdsIn, SkillIdsOf
    <2>4. \A s \in skills : s \in skillRows
        BY <2>3 DEF SkillIdsOf, SkillInv, SkillScreenOK, SkillList
    <2>5. selected \in SkillIdsOf(skills) => files = skillFiles[selected]
        BY <1>2, <2>1, <2>2 DEF SkillInv, FilesCatchUp, Refiled
    <2> QED BY <2>3, <2>4, <2>5
<1> QED BY <1>1, <1>2 DEF SkillEditorKeeps

LEMMA SkillStep ==
    ASSUME SkillInv, EditorNext \/ UNCHANGED <<callVars, editorVars>>
    PROVE  SkillInv'
<1>1. CASE EditorNext
    <2>1. ASSUME NEW r \in DOMAIN asked,
                 \/ ServeEditorRead(r) \/ ServeCreateSkill(r) \/ ServeUpdateSkill(r)
                 \/ ServeDeleteSkill(r) \/ ServeWrite(r) \/ ServeRemove(r) \/ RefuseEdit(r)
          PROVE  SkillInv'
        BY <2>1, SkillServerStep
    <2>2. ASSUME NEW i \in DOMAIN answers,
                 \/ SkillsCame(i) \/ SkillsFailed(i) \/ FilesCame(i) \/ FilesFailed(i)
                 \/ ChangeCame(i) \/ UpdateCame(i) \/ ChangeFailed(i)
          PROVE  SkillInv'
        BY <2>2, SkillListStep, SkillFilesStep, SkillUpdateStep, SkillChangeStep
    <2> QED BY <1>1, <2>1, <2>2, SkillUserStep DEF EditorNext
<1>2. CASE UNCHANGED <<callVars, editorVars>>
    <2>1. UNCHANGED <<asked, answers, skillRows, skillFiles, unborn, skills, selected, files, filePath,
                      keyBlank, outdated, moved, mixed>>
        BY <1>2 DEF callVars, editorVars
    <2>2. SkillCallsOK'
        BY <2>1 DEF SkillInv, SkillCallsOK, CallsOK
    <2>3. SkillTablesOK' /\ SkillScreenOK'
        BY <2>1 DEF SkillInv, SkillTablesOK, SkillScreenOK
    <2>4. TextsAreOwn' /\ ScreenIsOwn'
        BY <2>1 DEF SkillInv, TextsAreOwn, ScreenIsOwn, InFlight, Requests
    <2>5. SkillsCatchUp' /\ FilesCatchUp'
        BY <2>1 DEF SkillInv, SkillsCatchUp, FilesCatchUp, InFlight, Requests
    <2> QED BY <2>2, <2>3, <2>4, <2>5 DEF SkillInv
<1> QED BY <1>1, <1>2

-----------------------------------------------------------------------------
(* The model switcher and the key dialog.                                  *)

ModelRequestOK(r) ==
    \/ r.kind \in {"details", "default"}
    \/ r.kind \in {"get", "put"} /\ r.arg \in Models
    \/ r.kind \in {"key", "nokey"} /\ r.id \in Providers
    \/ r.kind \in {"providers", "models"} /\ r.id \in {"mount", "key", "nokey"}

ModelAnswerOK(a) ==
    /\ ModelRequestOK(a.to)
    /\ a.ok =>
        /\ a.to.kind \in {"details", "get"} => a.is \in Models \cup {Nothing}
        /\ a.to.kind = "default" => a.is = DefaultModel
        /\ a.to.kind \in {"providers", "models"} => a.is \subseteq Providers

ModelCallsOK ==
    /\ CallsOK
    /\ \A r \in DOMAIN asked : ModelRequestOK(r)
    /\ \A i \in DOMAIN answers : ModelAnswerOK(answers[i])

ModelButtons ==
    /\ Alone("key") /\ Alone("nokey")
    /\ saving # Nothing <=> UnderWay("key")
    /\ removing # Nothing <=> UnderWay("nokey")

\* After answer j there is one of a change of keys.
Rekeyed(as, j) == \E k \in DOMAIN as : k > j /\ as[k].ok /\ as[k].to.kind \in {"key", "nokey"}

\* Lists that nothing overtook tell the keys, or are about to be loaded again.
KeysLead(table, as) ==
    \A j \in DOMAIN as : as[j].ok /\ ~as[j].overtaken /\ as[j].to.kind \in {"providers", "models"} =>
        as[j].is = table \/ Rekeyed(as, j)

\* The models are loaded behind these providers.
ModelsFollow == \E r \in Requests : r.kind = "providers" /\ r.id # "mount"

KeysCatchUp ==
    /\ KeysLead(keys, answers)
    /\ "providers" \notin unsure =>
        withKey = keys \/ Rekeyed(answers, 0) \/ InFlight("providers")
    /\ "models" \notin unsure =>
        usable = keys \/ Rekeyed(answers, 0) \/ InFlight("models") \/ ModelsFollow

\* What is shown for this model of the metadata.
ShownFor(m) == IF m = Nothing THEN DefaultModel ELSE m

\* One chain at most is about the model, and at its end the screen and the metadata agree.
ModelFollows ==
    "model" \notin unsure =>
        /\ Alone("model")
        /\ ~UnderWay("model") => currentModel = ShownFor(saved)
        /\ \A r \in DOMAIN asked : /\ r.kind = "default" => saved = Nothing
                                   /\ r.kind \in {"get", "put"} => r.arg = currentModel
        /\ \A i \in DOMAIN answers : answers[i].ok =>
             /\ answers[i].to.kind = "details" => answers[i].is = saved
             /\ answers[i].to.kind = "default" => saved = Nothing
             /\ answers[i].to.kind \in {"get", "put"} => answers[i].to.arg = currentModel
             /\ answers[i].to.kind = "put" => saved = currentModel

ModelInv == ModelCallsOK /\ ModelTypeOK /\ ModelButtons /\ KeysCatchUp /\ ModelFollows

-----------------------------------------------------------------------------
\* The page has sent rs, after the i-th answer came back or, if i is 0, a click.
Acts(i, rs) == IF i = 0 THEN CallsOK' /\ Sent(rs) /\ answers' = answers
               ELSE i \in DOMAIN answers /\ Received(i, rs)

LEMMA ModelLanes ==
    ASSUME NEW r, ModelRequestOK(r)
    PROVE  /\ Lane(r) = ChainOf(r)
           /\ r.kind \in {"details", "default", "get", "put"} <=> Lane(r) = "model"
           /\ r.kind \in {"key", "nokey"} => Lane(r) = r.kind
           /\ r.kind \in {"providers", "models"} => Lane(r) = r.id /\ r.id \in {"mount", "key", "nokey"}
           /\ r.kind \in Changes <=> r.kind \in {"put", "key", "nokey"}
           /\ r.kind \in ModelKinds
<1>1. r.kind \in ModelKinds
    BY DEF ModelRequestOK, ModelKinds
<1>2. r.kind \in {"providers", "models"} => r.id \in {"mount", "key", "nokey"}
    BY DEF ModelRequestOK
<1>3. Lane(r) = ChainOf(r)
    BY <1>1 DEF Lane
<1>4. r.kind \in {"details", "default", "get", "put"} => ChainOf(r) = "model"
    BY DEF ChainOf, ModelCalls
<1>5. r.kind \in {"key", "nokey"} => ChainOf(r) = r.kind
    BY DEF ChainOf
<1>6. r.kind \in {"providers", "models"} => ChainOf(r) = r.id
    BY DEF ChainOf, ModelCalls
<1>7. r.kind \in Changes <=> r.kind \in {"put", "key", "nokey"}
    BY <1>1 DEF Changes, ModelKinds
<1> QED BY <1>1, <1>2, <1>3, <1>4, <1>5, <1>6, <1>7 DEF ModelKinds

LEMMA LaneAfterAct ==
    ASSUME NEW lane, Alone(lane), NEW i, NEW rs, Acts(i, rs),
           \/ \A r \in rs : Lane(r) # lane
           \/ /\ IF i = 0 THEN ~UnderWay(lane) ELSE Lane(answers[i].to) = lane
              /\ \A q, r \in rs : Lane(q) = lane /\ Lane(r) = lane => q = r
    PROVE  /\ Alone(lane)'
           /\ UnderWay(lane)' <=> \/ UnderWay(lane) /\ (i # 0 => Lane(answers[i].to) # lane)
                                  \/ \E r \in rs : Lane(r) = lane
<1>1. CASE i = 0
    BY <1>1, AloneAfterAsking DEF Acts
<1>2. CASE i # 0
    BY <1>2, AloneAfterReceipt DEF Acts
<1> QED BY <1>1, <1>2

LEMMA RequestsAfterAct ==
    ASSUME NEW i, NEW rs, Acts(i, rs)
    PROVE  /\ DOMAIN asked' = DOMAIN asked \cup rs /\ CallsOK'
           /\ Requests' = Rest(i) \cup rs
           /\ i = 0 => Rest(i) = Requests
           /\ i # 0 => Requests = Rest(i) \cup {answers[i].to}
           /\ \A k \in DOMAIN answers' : \E j \in DOMAIN answers :
                (i # 0 => j # i) /\ Says(answers'[k], answers[j])
<1>1. CASE i = 0
    BY <1>1 DEF Acts, Sent, Rest, Requests, Says
<1>2. CASE i # 0
    <2>1. i \in DOMAIN answers /\ Received(i, rs)
        BY <1>2 DEF Acts
    <2>2. Requests' = Others(i) \cup rs /\ Requests = Others(i) \cup {answers[i].to}
        BY <2>1, RequestsAfterReceipt
    <2>3. \A k \in DOMAIN answers' : Old(i, k) \in DOMAIN answers \ {i} /\ Says(answers'[k], answers[Old(i, k)])
        BY <2>1 DEF Received, CameBack
    <2> QED BY <1>2, <2>1, <2>2, <2>3 DEF Received, Sent, Rest
<1> QED BY <1>1, <1>2

LEMMA ButtonsAfterAct ==
    ASSUME ModelInv, NEW i, NEW rs, Acts(i, rs),
           \A lane \in {"key", "nokey"} :
                \/ \A r \in rs : Lane(r) # lane
                \/ /\ IF i = 0 THEN ~UnderWay(lane) ELSE Lane(answers[i].to) = lane
                   /\ \A q, r \in rs : q = r,
           saving' # Nothing <=> \/ saving # Nothing /\ (i # 0 => Lane(answers[i].to) # "key")
                                 \/ \E r \in rs : Lane(r) = "key",
           removing' # Nothing <=> \/ removing # Nothing /\ (i # 0 => Lane(answers[i].to) # "nokey")
                                   \/ \E r \in rs : Lane(r) = "nokey"
    PROVE  ModelButtons'
<1>1. ASSUME NEW lane \in {"key", "nokey"}
      PROVE  /\ Alone(lane)'
             /\ UnderWay(lane)' <=> \/ UnderWay(lane) /\ (i # 0 => Lane(answers[i].to) # lane)
                                    \/ \E r \in rs : Lane(r) = lane
    <2>1. Alone(lane)
        BY DEF ModelInv, ModelButtons
    <2>2. \/ \A r \in rs : Lane(r) # lane
          \/ /\ IF i = 0 THEN ~UnderWay(lane) ELSE Lane(answers[i].to) = lane
             /\ \A q, r \in rs : Lane(q) = lane /\ Lane(r) = lane => q = r
        OBVIOUS
    <2> QED BY <2>1, <2>2, LaneAfterAct
<1> QED BY <1>1 DEF ModelInv, ModelButtons

LEMMA RekeyedAfterReceipt ==
    ASSUME NEW as, NEW bs, NEW i, CameBack(as, bs, i), NEW j, NEW l,
           \A k \in DOMAIN as \ {i} : k > j => New(i, k) > l,
           i > j => ~as[i].ok \/ as[i].to.kind \notin {"key", "nokey"},
           Rekeyed(as, j)
    PROVE  Rekeyed(bs, l)
<1>1. \A k \in DOMAIN as \ {i} :
        /\ New(i, k) \in DOMAIN bs /\ bs[New(i, k)].to = as[k].to
        /\ bs[New(i, k)].ok = as[k].ok
    BY DEF CameBack, Says
<1>2. PICK k \in DOMAIN as : k > j /\ as[k].ok /\ as[k].to.kind \in {"key", "nokey"}
    BY DEF Rekeyed
<1>3. k # i
    BY <1>2
<1> QED BY <1>1, <1>2, <1>3 DEF Rekeyed

LEMMA KeysLeadAfterReceipt ==
    ASSUME NEW as, NEW bs, NEW i, CameBack(as, bs, i), NEW table, KeysLead(table, as)
    PROVE  /\ KeysLead(table, bs)
           /\ Rekeyed(as, i) => Rekeyed(bs, 0)
           /\ (~as[i].ok \/ as[i].to.kind \notin {"key", "nokey"}) =>
                (Rekeyed(as, 0) => Rekeyed(bs, 0))
<1>1. Len(as) \in Nat /\ DOMAIN as = 1..Len(as) /\ DOMAIN bs = 1..(Len(as) - 1) /\ i \in 1..Len(as)
    BY DEF CameBack
<1>2. ASSUME NEW l \in DOMAIN bs, bs[l].ok, ~bs[l].overtaken, bs[l].to.kind \in {"providers", "models"}
      PROVE  bs[l].is = table \/ Rekeyed(bs, l)
    <2> DEFINE j == Old(i, l)
    <2>1. /\ j \in DOMAIN as \ {i} /\ as[j].ok /\ ~as[j].overtaken
          /\ bs[l].to = as[j].to /\ bs[l].is = as[j].is
          /\ j < i => as[i].to.kind \notin Changes
        BY <1>2 DEF CameBack, Says
    <2>2. \A k \in DOMAIN as \ {i} : k > j => New(i, k) > l
        BY <1>1 DEF New, Old
    <2>3. i > j => as[i].to.kind \notin {"key", "nokey"}
        BY <1>1, <2>1 DEF Changes
    <2> HIDE DEF j
    <2>4. Rekeyed(as, j) => Rekeyed(bs, l)
        BY <2>2, <2>3, RekeyedAfterReceipt
    <2> QED BY <1>2, <2>1, <2>4 DEF KeysLead
<1>3. \A k \in DOMAIN as \ {i} : New(i, k) > 0
    BY <1>1 DEF New
<1>4. Rekeyed(as, i) => Rekeyed(bs, 0)
    <2>1. \A k \in DOMAIN as \ {i} : k > i => New(i, k) > 0
        BY <1>3
    <2>2. ~(i > i)
        BY <1>1
    <2> QED BY <2>1, <2>2, RekeyedAfterReceipt
<1>5. ASSUME ~as[i].ok \/ as[i].to.kind \notin {"key", "nokey"}, Rekeyed(as, 0)
      PROVE  Rekeyed(bs, 0)
    BY <1>3, <1>5, RekeyedAfterReceipt
<1> QED BY <1>2, <1>4, <1>5 DEF KeysLead

LEMMA KeysLeadAfterReply ==
    ASSUME NEW r \in DOMAIN asked, NEW ok \in BOOLEAN, NEW is, Replied(r, ok, is),
           NEW before, NEW table, KeysLead(before, answers),
           \/ table = before /\ (ok /\ r.kind \in {"providers", "models"} => is = table)
           \/ ok /\ r.kind \in {"key", "nokey"}
    PROVE  /\ KeysLead(table, answers')
           /\ Rekeyed(answers, 0) => Rekeyed(answers', 0)
           /\ table = before \/ Rekeyed(answers', 0)
<1> DEFINE n == Len(answers) + 1
           as == answers
           bs == answers'
<1>1. /\ n \in Nat /\ DOMAIN as = 1..(n - 1) /\ DOMAIN bs = 1..n
      /\ \A j \in DOMAIN as : j \in DOMAIN bs /\ bs[j] = as[j] /\ j < n
    BY DEF Replied
<1>2. 0 < n /\ n \in DOMAIN bs
    BY <1>1 DEF Replied
<1>3. bs[n].to = r /\ bs[n].ok = ok /\ bs[n].is = is
    BY DEF Replied, AnswerTo
<1>4. \A j \in DOMAIN bs : j = n \/ j \in DOMAIN as
    BY <1>1
<1> HIDE DEF n, as, bs
<1>5. \A j : Rekeyed(as, j) => Rekeyed(bs, j)
    BY <1>1 DEF Rekeyed
<1>6. \A j : j < n /\ ok /\ r.kind \in {"key", "nokey"} => Rekeyed(bs, j)
    BY <1>2, <1>3 DEF Rekeyed
<1>7. KeysLead(before, as)
    BY DEF as
<1>8. ASSUME NEW j \in DOMAIN bs, bs[j].ok, ~bs[j].overtaken, bs[j].to.kind \in {"providers", "models"}
      PROVE  bs[j].is = table \/ Rekeyed(bs, j)
    <2>1. CASE j = n
        BY <1>3, <1>8, <2>1
    <2>2. CASE j \in DOMAIN as
        <3>1. as[j].is = before \/ Rekeyed(as, j)
            BY <1>1, <1>7, <1>8, <2>2 DEF KeysLead
        <3> QED BY <1>1, <1>5, <1>6, <2>2, <3>1
    <2> QED BY <1>4, <2>1, <2>2
<1>9. KeysLead(table, bs)
    BY <1>8 DEF KeysLead
<1>10. table = before \/ Rekeyed(bs, 0)
    BY <1>2, <1>6
<1> QED BY <1>5, <1>9, <1>10 DEF as, bs

-----------------------------------------------------------------------------
modelScreenVars == <<currentModel, withKey, usable, dialog, saving, removing, unsure>>

LEMMA ModelAfterReply ==
    ASSUME ModelInv, NEW r \in DOMAIN asked, NEW ok \in BOOLEAN, NEW is, NEW done, done = TRUE,
           Reply(r, ok, done, is), UNCHANGED modelScreenVars,
           ModelAnswerOK(AnswerTo(r, ok, TRUE, is)),
           saved' \in Models \cup {Nothing}, keys' \subseteq Providers,
           \/ keys' = keys /\ (ok /\ r.kind \in {"providers", "models"} => is = keys)
           \/ ok /\ r.kind \in {"key", "nokey"},
           \/ saved' = saved /\ (ok /\ r.kind = "details" => is = saved) /\ (ok => r.kind # "put")
           \/ ok /\ r.kind = "put" /\ saved' = r.arg
    PROVE  ModelInv'
<1>1. Replied(r, ok, is)
    BY ServerReplies DEF ModelInv, ModelCallsOK
<1>2. Requests' = Requests
    BY <1>1, RequestsAfterReply
<1> DEFINE n == Len(answers) + 1
<1>3. /\ CallsOK' /\ DOMAIN asked' \subseteq DOMAIN asked
      /\ asked[r] = 1 => r \notin DOMAIN asked'
      /\ \A j \in DOMAIN answers' : j = n \/ (j \in DOMAIN answers /\ answers'[j] = answers[j])
      /\ answers'[n].to = r /\ answers'[n].ok = ok /\ answers'[n].is = is
    BY <1>1 DEF Replied, AnswerTo
<1>4. ModelCallsOK'
    <2>1. ModelAnswerOK(answers'[n])
        BY <1>1 DEF Replied
    <2> HIDE DEF n
    <2> QED BY <1>3, <2>1 DEF ModelInv, ModelCallsOK
<1> HIDE DEF n
<1>5. ModelTypeOK'
    BY DEF ModelInv, ModelTypeOK, modelScreenVars
<1>6. ModelButtons'
    <2>1. \A lane \in {"key", "nokey"} : Alone(lane)' /\ (UnderWay(lane)' <=> UnderWay(lane))
        BY <1>1, AloneAfterReply DEF ModelInv, ModelButtons
    <2> QED BY <2>1 DEF ModelInv, ModelButtons, modelScreenVars
<1>7. KeysCatchUp'
    <2> DEFINE table == keys'
    <2>1. /\ KeysLead(keys, answers)
          /\ \/ table = keys /\ (ok /\ r.kind \in {"providers", "models"} => is = table)
             \/ ok /\ r.kind \in {"key", "nokey"}
        BY DEF ModelInv, KeysCatchUp
    <2> HIDE DEF table
    <2>2. /\ KeysLead(table, answers')
          /\ Rekeyed(answers, 0) => Rekeyed(answers', 0)
          /\ table = keys \/ Rekeyed(answers', 0)
        BY <1>1, <2>1, KeysLeadAfterReply
    <2>3. \A k : InFlight(k)' <=> InFlight(k)
        BY <1>2 DEF InFlight
    <2>4. ModelsFollow' <=> ModelsFollow
        BY <1>2 DEF ModelsFollow
    <2> QED BY <2>2, <2>3, <2>4 DEF table, ModelInv, KeysCatchUp, modelScreenVars
<1>8. ModelFollows'
    <2> SUFFICES ASSUME "model" \notin unsure PROVE ModelFollows'
        BY DEF ModelFollows, modelScreenVars
    <2>0. currentModel' = currentModel /\ unsure' = unsure
        BY DEF modelScreenVars
    <2>1. /\ Alone("model")
          /\ ~UnderWay("model") => currentModel = ShownFor(saved)
          /\ \A q \in DOMAIN asked : /\ q.kind = "default" => saved = Nothing
                                     /\ q.kind \in {"get", "put"} => q.arg = currentModel
          /\ \A i \in DOMAIN answers : answers[i].ok =>
               /\ answers[i].to.kind = "details" => answers[i].is = saved
               /\ answers[i].to.kind = "default" => saved = Nothing
               /\ answers[i].to.kind \in {"get", "put"} => answers[i].to.arg = currentModel
               /\ answers[i].to.kind = "put" => saved = currentModel
        BY DEF ModelInv, ModelFollows
    <2>2. Alone("model")' /\ (UnderWay("model")' <=> UnderWay("model"))
        BY <1>1, <2>1, AloneAfterReply
    <2>3. CASE saved' = saved /\ (ok /\ r.kind = "details" => is = saved) /\ (ok => r.kind # "put")
        <3>1. ~UnderWay("model")' => currentModel' = ShownFor(saved')
            BY <2>0, <2>1, <2>2, <2>3
        <3>2. \A q \in DOMAIN asked' : /\ q.kind = "default" => saved' = Nothing
                                       /\ q.kind \in {"get", "put"} => q.arg = currentModel'
            BY <1>3, <2>0, <2>1, <2>3
        <3>3. \A i \in DOMAIN answers' : answers'[i].ok =>
               /\ answers'[i].to.kind = "details" => answers'[i].is = saved'
               /\ answers'[i].to.kind = "default" => saved' = Nothing
               /\ answers'[i].to.kind \in {"get", "put"} => answers'[i].to.arg = currentModel'
               /\ answers'[i].to.kind = "put" => saved' = currentModel'
            BY <1>3, <2>0, <2>1, <2>3
        <3> QED BY <2>2, <3>1, <3>2, <3>3 DEF ModelFollows
    <2>4. CASE ok /\ r.kind = "put" /\ saved' = r.arg
        <3>1. \A q \in Requests : /\ Lane(q) # "model" => q.kind \notin {"details", "default", "get", "put"}
                                  /\ q.kind = "put" => Lane(q) = "model"
            BY ModelLanes DEF ModelInv, ModelCallsOK, ModelAnswerOK, Requests
        <3>2. /\ \A q \in DOMAIN asked : Lane(q) = "model" => q = r /\ asked[r] = 1
              /\ \A i \in DOMAIN answers : Lane(answers[i].to) # "model"
            <4>1. Lane(r) = "model"
                BY <2>4, <3>1 DEF Requests
            <4> QED BY <2>1, <4>1 DEF Alone
        <3>3. \A q \in DOMAIN asked' : q.kind \notin {"details", "default", "get", "put"}
            <4>1. r \notin DOMAIN asked'
                BY <1>3, <2>4, <3>1, <3>2 DEF Requests
            <4> QED BY <1>3, <3>1, <3>2, <4>1 DEF Requests
        <3>4. \A i \in DOMAIN answers' : i # n =>
                 answers'[i].to.kind \notin {"details", "default", "get", "put"}
            BY <1>3, <3>1, <3>2 DEF Requests
        <3>5. saved' = currentModel' /\ r.arg = currentModel'
            BY <2>0, <2>1, <2>4
        <3>6. UnderWay("model")'
            BY <2>2, <2>4, <3>1 DEF UnderWay, Requests
        <3>7. \A i \in DOMAIN answers' : answers'[i].ok =>
               /\ answers'[i].to.kind = "details" => answers'[i].is = saved'
               /\ answers'[i].to.kind = "default" => saved' = Nothing
               /\ answers'[i].to.kind \in {"get", "put"} => answers'[i].to.arg = currentModel'
               /\ answers'[i].to.kind = "put" => saved' = currentModel'
            BY <1>3, <2>4, <3>4, <3>5
        <3> QED BY <2>2, <3>3, <3>6, <3>7 DEF ModelFollows
    <2> QED BY <2>3, <2>4
<1> QED BY <1>4, <1>5, <1>6, <1>7, <1>8 DEF ModelInv

LEMMA ModelServerStep ==
    ASSUME ModelInv, NEW r \in DOMAIN asked,
           ServeRead(r) \/ ServeChoice(r) \/ ServeKey(r) \/ RefuseCall(r)
    PROVE  ModelInv'
<1>0. /\ ModelRequestOK(r) /\ saved \in Models \cup {Nothing} /\ keys \subseteq Providers
      /\ DefaultModel \in Models
    BY ModelAssumption DEF ModelInv, ModelCallsOK, ModelTypeOK
<1>1. PICK yes \in BOOLEAN, no \in BOOLEAN : yes = TRUE /\ no = FALSE
    OBVIOUS
<1>2. CASE ServeRead(r)
    <2> DEFINE is == CASE r.kind = "default" -> DefaultModel
                       [] r.kind \in {"details", "get"} -> saved
                       [] OTHER -> keys
    <2>1. /\ r.kind \in {"details", "default", "get", "providers", "models"}
          /\ Reply(r, TRUE, TRUE, is) /\ UNCHANGED modelVars
        BY <1>2 DEF ServeRead
    <2>2. /\ r.kind = "default" => is = DefaultModel
          /\ r.kind \in {"details", "get"} => is = saved
          /\ r.kind \in {"providers", "models"} => is = keys
        OBVIOUS
    <2> HIDE DEF is
    <2>3. ModelAnswerOK(AnswerTo(r, yes, TRUE, is))
        BY <1>0, <2>2 DEF ModelAnswerOK, AnswerTo
    <2>4. Reply(r, yes, yes, is)
        BY <1>1, <2>1, Zenon
    <2>5. keys' = keys /\ saved' = saved /\ UNCHANGED modelScreenVars
        BY <2>1 DEF modelVars, modelScreenVars
    <2> QED BY <1>0, <1>1, <2>1, <2>2, <2>3, <2>4, <2>5, ModelAfterReply
<1>3. CASE ServeChoice(r)
    <2>1. /\ r.kind = "put" /\ saved' = r.arg /\ keys' = keys /\ UNCHANGED modelScreenVars
          /\ Reply(r, TRUE, TRUE, Nothing)
        BY <1>3 DEF ServeChoice, modelScreenVars
    <2>2. r.arg \in Models
        BY <1>0, <2>1 DEF ModelRequestOK
    <2>3. ModelAnswerOK(AnswerTo(r, yes, TRUE, Nothing))
        BY <1>0, <2>1 DEF ModelAnswerOK, AnswerTo
    <2>4. Reply(r, yes, yes, Nothing)
        BY <1>1, <2>1, Zenon
    <2> QED BY <1>0, <1>1, <2>1, <2>2, <2>3, <2>4, ModelAfterReply
<1>4. CASE ServeKey(r)
    <2>1. /\ r.kind \in {"key", "nokey"} /\ saved' = saved /\ UNCHANGED modelScreenVars
          /\ keys' = IF r.kind = "key" THEN keys \cup {r.id} ELSE keys \ {r.id}
          /\ Reply(r, TRUE, TRUE, Nothing)
        BY <1>4 DEF ServeKey, modelScreenVars
    <2>2. r.id \in Providers
        BY <1>0, <2>1 DEF ModelRequestOK
    <2>3. keys' \subseteq Providers
        BY <1>0, <2>1, <2>2
    <2>4. ModelAnswerOK(AnswerTo(r, yes, TRUE, Nothing))
        BY <1>0, <2>1 DEF ModelAnswerOK, AnswerTo
    <2>5. Reply(r, yes, yes, Nothing)
        BY <1>1, <2>1, Zenon
    <2> QED BY <1>0, <1>1, <2>1, <2>3, <2>4, <2>5, ModelAfterReply
<1>5. CASE RefuseCall(r)
    <2>1. keys' = keys /\ saved' = saved /\ UNCHANGED modelScreenVars /\ Reply(r, FALSE, TRUE, Nothing)
        BY <1>5 DEF RefuseCall, modelVars, modelScreenVars
    <2>2. ModelAnswerOK(AnswerTo(r, no, TRUE, Nothing))
        BY <1>0, <1>1 DEF ModelAnswerOK, AnswerTo
    <2>3. Reply(r, no, yes, Nothing)
        BY <1>1, <2>1, Zenon
    <2> QED BY <1>0, <1>1, <2>1, <2>2, <2>3, ModelAfterReply
<1> QED BY <1>2, <1>3, <1>4, <1>5

-----------------------------------------------------------------------------
\* A step of the page that leaves the server alone.
LEMMA ModelAfterAct ==
    ASSUME ModelInv, NEW i, NEW rs, Acts(i, rs), UNCHANGED serverVars, ModelTypeOK',
           \A r \in rs : ModelRequestOK(r),
           ModelButtons', ModelFollows',
           "providers" \notin unsure' =>
                withKey' = keys \/ Rekeyed(answers', 0) \/ InFlight("providers")',
           "models" \notin unsure' =>
                usable' = keys \/ Rekeyed(answers', 0) \/ InFlight("models")' \/ ModelsFollow'
    PROVE  ModelInv'
<1>1. /\ DOMAIN asked' = DOMAIN asked \cup rs /\ CallsOK'
      /\ \A k \in DOMAIN answers' : \E j \in DOMAIN answers : Says(answers'[k], answers[j])
    BY RequestsAfterAct
<1>2. ModelCallsOK'
    <2>1. ASSUME NEW k \in DOMAIN answers' PROVE ModelAnswerOK(answers'[k])
        <3>1. PICK j \in DOMAIN answers : Says(answers'[k], answers[j])
            BY <1>1
        <3>2. ModelAnswerOK(answers[j])
            BY DEF ModelInv, ModelCallsOK
        <3> QED BY <3>1, <3>2 DEF Says, ModelAnswerOK
    <2> QED BY <1>1, <2>1 DEF ModelInv, ModelCallsOK
<1>3. keys' = keys
    BY DEF serverVars
<1>4. KeysLead(keys, answers')
    <2>1. KeysLead(keys, answers)
        BY DEF ModelInv, KeysCatchUp
    <2>2. CASE i = 0
        BY <2>1, <2>2 DEF Acts
    <2>3. CASE i # 0
        <3>1. CameBack(answers, answers', i)
            BY <2>3 DEF Acts, Received
        <3> QED BY <2>1, <3>1, KeysLeadAfterReceipt
    <2> QED BY <2>2, <2>3
<1>5. KeysCatchUp'
    BY <1>3, <1>4 DEF KeysCatchUp
<1> QED BY <1>2, <1>5 DEF ModelInv

\* What is still to come when the i-th answer has come back.
LEMMA KeysAwaited ==
    ASSUME ModelInv, NEW i, NEW rs, Acts(i, rs)
    PROVE  /\ (i # 0 => ~answers[i].ok \/ answers[i].to.kind \notin {"key", "nokey"}) =>
                (Rekeyed(answers, 0) => Rekeyed(answers', 0))
           /\ i # 0 => (Rekeyed(answers, i) => Rekeyed(answers', 0))
           /\ \A k : (i # 0 => answers[i].to.kind # k) => (InFlight(k) => InFlight(k)')
           /\ (i # 0 => answers[i].to.kind # "providers" \/ answers[i].to.id = "mount") =>
                (ModelsFollow => ModelsFollow')
           /\ \A r \in rs : /\ InFlight(r.kind)'
                            /\ r.kind = "providers" /\ r.id # "mount" => ModelsFollow'
<1>1. /\ Requests' = Rest(i) \cup rs
      /\ i = 0 => Rest(i) = Requests
      /\ i # 0 => Requests = Rest(i) \cup {answers[i].to}
    BY RequestsAfterAct
<1>2. \A k : (i # 0 => answers[i].to.kind # k) => (InFlight(k) => InFlight(k)')
    BY <1>1 DEF InFlight
<1>3. (i # 0 => answers[i].to.kind # "providers" \/ answers[i].to.id = "mount") =>
        (ModelsFollow => ModelsFollow')
    BY <1>1 DEF ModelsFollow
<1>4. \A r \in rs : /\ InFlight(r.kind)'
                    /\ r.kind = "providers" /\ r.id # "mount" => ModelsFollow'
    BY <1>1 DEF InFlight, ModelsFollow
<1>5. /\ (i # 0 => ~answers[i].ok \/ answers[i].to.kind \notin {"key", "nokey"}) =>
            (Rekeyed(answers, 0) => Rekeyed(answers', 0))
      /\ i # 0 => (Rekeyed(answers, i) => Rekeyed(answers', 0))
    <2>1. CASE i = 0
        BY <2>1 DEF Acts
    <2>2. CASE i # 0
        <3>1. CameBack(answers, answers', i) /\ KeysLead(keys, answers)
            BY <2>2 DEF Acts, Received, ModelInv, KeysCatchUp
        <3> QED BY <2>2, <3>1, KeysLeadAfterReceipt
    <2> QED BY <2>1, <2>2
<1> QED BY <1>2, <1>3, <1>4, <1>5

\* The thread's model is not concerned.
LEMMA ModelStays ==
    ASSUME ModelInv, NEW i, NEW rs, Acts(i, rs), UNCHANGED <<saved, currentModel>>,
           \A r \in rs : ModelRequestOK(r) /\ Lane(r) # "model",
           i # 0 => Lane(answers[i].to) # "model",
           "model" \notin unsure' => "model" \notin unsure
    PROVE  ModelFollows'
<1> SUFFICES ASSUME "model" \notin unsure PROVE ModelFollows'
    BY DEF ModelFollows
<1>1. Alone("model")
    BY DEF ModelInv, ModelFollows
<1>2. Alone("model")' /\ (UnderWay("model")' <=> UnderWay("model"))
    BY <1>1, LaneAfterAct
<1>3. /\ DOMAIN asked' = DOMAIN asked \cup rs
      /\ \A k \in DOMAIN answers' : \E j \in DOMAIN answers : Says(answers'[k], answers[j])
    BY RequestsAfterAct
<1>4. \A r \in rs : r.kind \notin {"default", "get", "put"}
    BY ModelLanes
<1>5. \A r \in DOMAIN asked' : /\ r.kind = "default" => saved' = Nothing
                               /\ r.kind \in {"get", "put"} => r.arg = currentModel'
    BY <1>3, <1>4 DEF ModelInv, ModelFollows
<1>6. \A k \in DOMAIN answers' : answers'[k].ok =>
             /\ answers'[k].to.kind = "details" => answers'[k].is = saved'
             /\ answers'[k].to.kind = "default" => saved' = Nothing
             /\ answers'[k].to.kind \in {"get", "put"} => answers'[k].to.arg = currentModel'
             /\ answers'[k].to.kind = "put" => saved' = currentModel'
    BY <1>3 DEF ModelInv, ModelFollows, Says
<1>7. ~UnderWay("model")' => currentModel' = ShownFor(saved')
    BY <1>2 DEF ModelInv, ModelFollows
<1> QED BY <1>2, <1>5, <1>6, <1>7 DEF ModelFollows

\* One chain is about the thread's model from now on, if any.
LEMMA ModelMoves ==
    ASSUME ModelInv, NEW i, NEW rs, Acts(i, rs),
           \A r \in rs : ModelRequestOK(r), \A q, r \in rs : q = r,
           "model" \notin unsure' =>
              /\ IF i = 0 THEN ~UnderWay("model")
                 ELSE "model" \notin unsure /\ Lane(answers[i].to) = "model"
              /\ IF rs = {} THEN currentModel' = ShownFor(saved')
                 ELSE \A r \in rs : /\ Lane(r) = "model"
                                    /\ r.kind = "default" => saved' = Nothing
                                    /\ r.kind \in {"get", "put"} => r.arg = currentModel'
    PROVE  ModelFollows'
<1> SUFFICES ASSUME "model" \notin unsure' PROVE ModelFollows'
    BY DEF ModelFollows
<1>1. \A q \in Requests : q.kind \in {"details", "default", "get", "put"} => Lane(q) = "model"
    BY ModelLanes DEF ModelInv, ModelCallsOK, ModelAnswerOK, Requests
<1>2. Alone("model")
    <2>1. CASE i = 0
        BY <2>1 DEF Alone, UnderWay, Requests
    <2>2. CASE i # 0
        BY <2>2 DEF ModelInv, ModelFollows
    <2> QED BY <2>1, <2>2
<1>3. \A q \in Rest(i) : Lane(q) # "model"
    <2>1. CASE i = 0
        BY <2>1 DEF Rest, UnderWay
    <2>2. CASE i # 0
        <3>1. i \in DOMAIN answers /\ Lane(answers[i].to) = "model"
            BY <2>2 DEF Acts
        <3> QED BY <1>2, <2>2, <3>1 DEF Rest, Others, Alone
    <2> QED BY <2>1, <2>2
<1>4. /\ Alone("model")'
      /\ UnderWay("model")' <=> \/ UnderWay("model") /\ (i # 0 => Lane(answers[i].to) # "model")
                                \/ \E r \in rs : Lane(r) = "model"
    <2>1. \A q, r \in rs : Lane(q) = "model" /\ Lane(r) = "model" => q = r
        OBVIOUS
    <2>2. IF i = 0 THEN ~UnderWay("model") ELSE Lane(answers[i].to) = "model"
        OBVIOUS
    <2> QED BY <1>2, <2>1, <2>2, LaneAfterAct
<1>5. /\ DOMAIN asked' = DOMAIN asked \cup rs /\ DOMAIN asked \subseteq Rest(i)
      /\ Rest(i) \subseteq Requests
      /\ \A k \in DOMAIN answers' : answers'[k].to \in Rest(i)
    <2>1. /\ DOMAIN asked' = DOMAIN asked \cup rs
          /\ i = 0 => Rest(i) = Requests
          /\ i # 0 => Requests = Rest(i) \cup {answers[i].to}
          /\ \A k \in DOMAIN answers' : \E j \in DOMAIN answers :
                (i # 0 => j # i) /\ Says(answers'[k], answers[j])
        BY RequestsAfterAct
    <2> QED BY <2>1 DEF Rest, Others, Requests, Says
<1>6. \A r \in DOMAIN asked' : /\ r.kind = "default" => saved' = Nothing
                               /\ r.kind \in {"get", "put"} => r.arg = currentModel'
    BY <1>1, <1>3, <1>5
<1>7. \A k \in DOMAIN answers' : answers'[k].to.kind \notin {"details", "default", "get", "put"}
    BY <1>1, <1>3, <1>5
<1>8. ~UnderWay("model")' => currentModel' = ShownFor(saved')
    BY <1>4
<1> QED BY <1>4, <1>6, <1>7, <1>8 DEF ModelFollows

-----------------------------------------------------------------------------
LEMMA Acting ==
    ASSUME ModelInv, NEW rs
    PROVE  /\ Ask(ModelBound, rs) => Acts(0, rs)
           /\ \A i \in DOMAIN answers : i # 0 /\ (Receive(ModelBound, i, rs) => Acts(i, rs))
<1>1. CallsOK
    BY DEF ModelInv, ModelCallsOK
<1>2. Ask(ModelBound, rs) => Acts(0, rs)
    BY <1>1, UserAsks DEF Acts
<1>3. DOMAIN answers = 1..Len(answers)
    BY <1>1, Sequence DEF CallsOK, AreAnswers
<1>4. ASSUME NEW i \in DOMAIN answers
      PROVE  i # 0 /\ (Receive(ModelBound, i, rs) => Acts(i, rs))
    <2>1. i # 0
        BY <1>3
    <2> QED BY <1>1, <2>1, ClientReceives DEF Acts
<1> QED BY <1>2, <1>4

\* The chain about the thread's model goes on or ends.
LEMMA ModelAfterModelCall ==
    ASSUME ModelInv, NEW i \in DOMAIN answers, NEW rs, Acts(i, rs), i # 0,
           Lane(answers[i].to) = "model",
           \A r \in rs : ModelRequestOK(r) /\ Lane(r) = "model", \A q, r \in rs : q = r,
           UNCHANGED <<saved, keys, withKey, usable, dialog, saving, removing, unsure>>,
           currentModel' \in Models \cup {Nothing},
           "model" \notin unsure =>
              IF rs = {} THEN currentModel' = ShownFor(saved)
              ELSE \A r \in rs : /\ r.kind = "default" => saved = Nothing
                                 /\ r.kind \in {"get", "put"} => r.arg = currentModel'
    PROVE  ModelInv'
<1>1. answers[i].to.kind \in {"details", "default", "get", "put"}
    BY ModelLanes DEF ModelInv, ModelCallsOK, ModelAnswerOK
<1>2. ModelTypeOK'
    BY DEF ModelInv, ModelTypeOK
<1>3. ModelButtons'
    BY ButtonsAfterAct
<1>4. ModelFollows'
    BY ModelMoves
<1>5. /\ Rekeyed(answers, 0) => Rekeyed(answers', 0)
      /\ InFlight("providers") => InFlight("providers")'
      /\ InFlight("models") => InFlight("models")'
      /\ ModelsFollow => ModelsFollow'
    BY <1>1, KeysAwaited
<1>6. "providers" \notin unsure' => withKey' = keys \/ Rekeyed(answers', 0) \/ InFlight("providers")'
    BY <1>5 DEF ModelInv, KeysCatchUp
<1>7. "models" \notin unsure' =>
        usable' = keys \/ Rekeyed(answers', 0) \/ InFlight("models")' \/ ModelsFollow'
    BY <1>5 DEF ModelInv, KeysCatchUp
<1> QED BY <1>2, <1>3, <1>4, <1>6, <1>7, ModelAfterAct DEF serverVars

LEMMA ModelChainStep ==
    ASSUME ModelInv, NEW i \in DOMAIN answers,
           DetailsCame(i) \/ GotForChoice(i) \/ ChoiceSaved(i)
    PROVE  ModelInv'
<1> DEFINE a == answers[i]
<1>0. /\ ModelAnswerOK(a) /\ ModelRequestOK(a.to) /\ i # 0 /\ a.ok
      /\ a.to.kind \in {"details", "default", "get", "put"}
    BY Acting DEF ModelInv, ModelCallsOK, ModelAnswerOK, DetailsCame, GotForChoice, ChoiceSaved
<1>1. Lane(a.to) = "model"
    BY <1>0, ModelLanes
<1>2. /\ DefaultModel \in Models /\ Nothing \notin Models
      /\ saved \in Models \cup {Nothing} /\ currentModel \in Models \cup {Nothing}
    BY ModelAssumption DEF ModelInv, ModelTypeOK
<1>3. "model" \notin unsure =>
        /\ a.to.kind = "details" => a.is = saved
        /\ a.to.kind = "default" => saved = Nothing
        /\ a.to.kind \in {"get", "put"} => a.to.arg = currentModel
        /\ a.to.kind = "put" => saved = currentModel
    BY <1>0 DEF ModelInv, ModelFollows
<1>4. CASE DetailsCame(i) /\ a.is = Nothing
    <2> DEFINE r == Request("default", Nothing, Nothing)
    <2>1. /\ Receive(ModelBound, i, {r}) /\ a.to.kind \in {"details", "default"}
          /\ UNCHANGED <<saved, keys, currentModel, withKey, usable, dialog, saving, removing, unsure>>
        BY <1>4 DEF DetailsCame, serverVars
    <2>2. r.kind = "default" /\ ModelRequestOK(r)
        BY DEF Request, ModelRequestOK
    <2> HIDE DEF r
    <2>3. Lane(r) = "model"
        BY <2>2, ModelLanes
    <2>4. "model" \notin unsure => saved = Nothing
        BY <1>3, <1>4, <2>1
    <2> DEFINE rs == {r}
    <2>5. \A q \in rs : q = r
        OBVIOUS
    <2>6. Receive(ModelBound, i, rs) /\ rs # {}
        BY <2>1
    <2> HIDE DEF rs
    <2>7. Acts(i, rs)
        BY <2>6, Acting
    <2> QED BY <1>0, <1>1, <1>2, <2>1, <2>2, <2>3, <2>4, <2>5, <2>6, <2>7, ModelAfterModelCall
<1>5. CASE DetailsCame(i) /\ a.is # Nothing
    <2> DEFINE rs == {}
    <2>1. /\ Receive(ModelBound, i, rs) /\ a.to.kind \in {"details", "default"}
          /\ UNCHANGED <<saved, keys, withKey, usable, dialog, saving, removing, unsure>>
          /\ currentModel' = a.is
        BY <1>5 DEF DetailsCame, serverVars
    <2>2. currentModel' \in Models
        BY <1>0, <1>2, <1>5, <2>1 DEF ModelAnswerOK
    <2>3. "model" \notin unsure => currentModel' = ShownFor(saved)
        BY <1>0, <1>3, <1>5, <2>1 DEF ShownFor, ModelAnswerOK
    <2>4. rs = {}
        OBVIOUS
    <2> HIDE DEF rs
    <2>5. Acts(i, rs)
        BY <2>1, Acting
    <2> QED BY <1>0, <1>1, <2>1, <2>2, <2>3, <2>4, <2>5, ModelAfterModelCall
<1>6. CASE GotForChoice(i)
    <2> DEFINE r == Request("put", Nothing, a.to.arg)
    <2>1. /\ Receive(ModelBound, i, {r}) /\ a.to.kind = "get"
          /\ UNCHANGED <<saved, keys, currentModel, withKey, usable, dialog, saving, removing, unsure>>
        BY <1>6 DEF GotForChoice, modelVars
    <2>2. r.kind = "put" /\ r.arg = a.to.arg /\ ModelRequestOK(r)
        BY <1>0, <2>1 DEF Request, ModelRequestOK
    <2> HIDE DEF r
    <2>3. Lane(r) = "model"
        BY <2>2, ModelLanes
    <2>4. "model" \notin unsure => r.arg = currentModel'
        BY <1>3, <2>1, <2>2
    <2> DEFINE rs == {r}
    <2>5. \A q \in rs : q = r
        OBVIOUS
    <2>6. Receive(ModelBound, i, rs) /\ rs # {}
        BY <2>1
    <2> HIDE DEF rs
    <2>7. Acts(i, rs)
        BY <2>6, Acting
    <2> QED BY <1>0, <1>1, <1>2, <2>1, <2>2, <2>3, <2>4, <2>5, <2>6, <2>7, ModelAfterModelCall
<1>7. CASE ChoiceSaved(i)
    <2> DEFINE rs == {}
    <2>1. /\ Receive(ModelBound, i, rs) /\ a.to.kind = "put"
          /\ UNCHANGED <<saved, keys, currentModel, withKey, usable, dialog, saving, removing, unsure>>
        BY <1>7 DEF ChoiceSaved, modelVars
    <2>2. a.to.arg \in Models
        BY <1>0, <2>1 DEF ModelRequestOK
    <2>3. "model" \notin unsure => currentModel' = ShownFor(saved)
        BY <1>2, <1>3, <2>1, <2>2 DEF ShownFor
    <2>4. rs = {}
        OBVIOUS
    <2> HIDE DEF rs
    <2>5. Acts(i, rs)
        BY <2>1, Acting
    <2> QED BY <1>0, <1>1, <1>2, <2>1, <2>3, <2>4, <2>5, ModelAfterModelCall
<1> QED BY <1>4, <1>5, <1>6, <1>7

LEMMA KeyStep ==
    ASSUME ModelInv, NEW i \in DOMAIN answers, KeySaved(i)
    PROVE  ModelInv'
<1> DEFINE a == answers[i]
           r == Request("providers", a.to.kind, Nothing)
<1>0. /\ ModelAnswerOK(a) /\ ModelRequestOK(a.to) /\ i # 0 /\ a.ok
      /\ a.to.kind \in {"key", "nokey"} /\ Receive(ModelBound, i, {r})
      /\ UNCHANGED <<saved, keys, currentModel, withKey, usable, dialog, saving, removing, unsure>>
    BY Acting DEF ModelInv, ModelCallsOK, ModelAnswerOK, KeySaved, modelVars
<1>1. r.kind = "providers" /\ r.id = a.to.kind /\ ModelRequestOK(r)
    BY <1>0 DEF Request, ModelRequestOK
<1> HIDE DEF r
<1> DEFINE rs == {r}
<1>2. (\A q \in rs : q = r) /\ r \in rs /\ Receive(ModelBound, i, rs)
    BY <1>0
<1> HIDE DEF rs
<1>3. Acts(i, rs)
    BY <1>2, Acting
<1>4. Lane(a.to) = a.to.kind /\ Lane(r) = a.to.kind
    BY <1>0, <1>1, ModelLanes
<1>5. ModelTypeOK'
    BY <1>0 DEF ModelInv, ModelTypeOK
<1>6. ModelButtons'
    <2>1. \A lane \in {"key", "nokey"} :
             \/ \A q \in rs : Lane(q) # lane
             \/ /\ IF i = 0 THEN ~UnderWay(lane) ELSE Lane(answers[i].to) = lane
                /\ \A p, q \in rs : p = q
        BY <1>0, <1>2, <1>4
    <2>2. \A lane \in {"key", "nokey"} : UnderWay(lane) <=>
             \/ UnderWay(lane) /\ (i # 0 => Lane(answers[i].to) # lane)
             \/ \E q \in rs : Lane(q) = lane
        BY <1>2, <1>4 DEF UnderWay, Requests
    <2>3. saving # Nothing <=> UnderWay("key")
        BY DEF ModelInv, ModelButtons
    <2>4. removing # Nothing <=> UnderWay("nokey")
        BY DEF ModelInv, ModelButtons
    <2>5. saving' # Nothing <=> \/ saving # Nothing /\ (i # 0 => Lane(answers[i].to) # "key")
                                \/ \E q \in rs : Lane(q) = "key"
        BY <1>0, <2>2, <2>3
    <2>6. removing' # Nothing <=> \/ removing # Nothing /\ (i # 0 => Lane(answers[i].to) # "nokey")
                                  \/ \E q \in rs : Lane(q) = "nokey"
        BY <1>0, <2>2, <2>4
    <2> QED BY <1>3, <2>1, <2>5, <2>6, ButtonsAfterAct
<1>7. ModelFollows'
    BY <1>0, <1>1, <1>2, <1>3, <1>4, ModelStays
<1>8. InFlight("providers")' /\ ModelsFollow'
    BY <1>0, <1>1, <1>2, <1>3, KeysAwaited
<1> QED BY <1>0, <1>1, <1>2, <1>3, <1>5, <1>6, <1>7, <1>8, ModelAfterAct DEF serverVars

LEMMA ProvidersStep ==
    ASSUME ModelInv, NEW i \in DOMAIN answers, ProvidersCame(i)
    PROVE  ModelInv'
<1> DEFINE a == answers[i]
           rs == AfterProviders(a.to.id)
<1>0. /\ ModelAnswerOK(a) /\ ModelRequestOK(a.to) /\ i # 0 /\ a.ok
      /\ a.to.kind = "providers" /\ Receive(ModelBound, i, rs) /\ withKey' = a.is
      /\ unsure' = IF a.overtaken THEN unsure \cup {"providers"} ELSE unsure \ {"providers"}
      /\ UNCHANGED <<saved, keys, currentModel, usable, dialog, saving, removing>>
    BY Acting DEF ModelInv, ModelCallsOK, ModelAnswerOK, ProvidersCame, serverVars
<1>1. Lane(a.to) = a.to.id /\ a.to.id \in {"mount", "key", "nokey"}
    BY <1>0, ModelLanes
<1>2. /\ a.to.id = "mount" => rs = {}
      /\ \A p, q \in rs : p = q
      /\ \A q \in rs : ModelRequestOK(q) /\ q.kind = "models" /\ Lane(q) = a.to.id
      /\ a.to.id # "mount" => \E q \in rs : q.kind = "models" /\ Lane(q) = a.to.id
    <2> DEFINE r == Request("models", a.to.id, Nothing)
    <2>1. r.kind = "models" /\ r.id = a.to.id /\ ModelRequestOK(r)
        BY <1>1 DEF Request, ModelRequestOK
    <2>2. rs = IF a.to.id = "mount" THEN {} ELSE {r}
        BY DEF AfterProviders
    <2> HIDE DEF r, rs
    <2>3. Lane(r) = a.to.id
        BY <2>1, ModelLanes
    <2> QED BY <2>1, <2>2, <2>3
<1> HIDE DEF rs
<1>3. Acts(i, rs)
    BY <1>0, Acting
<1>4. ModelTypeOK'
    <2>1. a.is \subseteq Providers
        BY <1>0 DEF ModelAnswerOK
    <2> QED BY <1>0, <2>1 DEF ModelInv, ModelTypeOK
<1>5. ModelButtons'
    <2>1. \A lane \in {"key", "nokey"} :
             \/ \A q \in rs : Lane(q) # lane
             \/ /\ IF i = 0 THEN ~UnderWay(lane) ELSE Lane(answers[i].to) = lane
                /\ \A p, q \in rs : p = q
        BY <1>0, <1>1, <1>2
    <2>2. \A lane \in {"key", "nokey"} : UnderWay(lane) <=>
             \/ UnderWay(lane) /\ (i # 0 => Lane(answers[i].to) # lane)
             \/ \E q \in rs : Lane(q) = lane
        BY <1>1, <1>2 DEF UnderWay, Requests
    <2>3. saving # Nothing <=> UnderWay("key")
        BY DEF ModelInv, ModelButtons
    <2>4. removing # Nothing <=> UnderWay("nokey")
        BY DEF ModelInv, ModelButtons
    <2>5. saving' # Nothing <=> \/ saving # Nothing /\ (i # 0 => Lane(answers[i].to) # "key")
                                \/ \E q \in rs : Lane(q) = "key"
        BY <1>0, <2>2, <2>3
    <2>6. removing' # Nothing <=> \/ removing # Nothing /\ (i # 0 => Lane(answers[i].to) # "nokey")
                                  \/ \E q \in rs : Lane(q) = "nokey"
        BY <1>0, <2>2, <2>4
    <2> QED BY <1>3, <2>1, <2>5, <2>6, ButtonsAfterAct
<1>6. ModelFollows'
    <2>1. \A r \in rs : ModelRequestOK(r) /\ Lane(r) # "model"
        BY <1>1, <1>2
    <2> QED BY <1>0, <1>1, <1>3, <2>1, ModelStays
<1>7. "providers" \notin unsure' => withKey' = keys \/ Rekeyed(answers', 0)
    <2>1. ~a.overtaken => a.is = keys \/ Rekeyed(answers, i)
        BY <1>0 DEF ModelInv, KeysCatchUp, KeysLead
    <2> QED BY <1>0, <1>3, <2>1, KeysAwaited
<1>8. "models" \notin unsure' =>
        usable' = keys \/ Rekeyed(answers', 0) \/ InFlight("models")' \/ ModelsFollow'
    <2>1. /\ Rekeyed(answers, 0) => Rekeyed(answers', 0)
          /\ InFlight("models") => InFlight("models")'
        BY <1>0, <1>3, KeysAwaited
    <2>2. CASE a.to.id = "mount"
        <3>1. ModelsFollow => ModelsFollow'
            BY <1>3, <2>2, KeysAwaited
        <3> QED BY <1>0, <2>1, <3>1 DEF ModelInv, KeysCatchUp
    <2>3. CASE a.to.id # "mount"
        BY <1>2, <1>3, <2>3, KeysAwaited
    <2> QED BY <2>2, <2>3
<1> QED BY <1>0, <1>2, <1>3, <1>4, <1>5, <1>6, <1>7, <1>8, ModelAfterAct DEF serverVars

\* The first lists, and those that are loaded again when the dialog is closed.
LEMMA ListsOK ==
    \A r \in Lists("mount") :
        /\ ModelRequestOK(r) /\ r.kind \in {"providers", "models"} /\ r.id = "mount"
        /\ Lane(r) = "mount"
<1>1. \A r \in Lists("mount") :
        ModelRequestOK(r) /\ r.kind \in {"providers", "models"} /\ r.id = "mount"
    BY DEF Lists, Request, ModelRequestOK
<1> QED BY <1>1, ModelLanes

LEMMA ModelsStep ==
    ASSUME ModelInv, NEW i \in DOMAIN answers, ModelsCame(i)
    PROVE  ModelInv'
<1> DEFINE a == answers[i]
           rs == IF a.to.id = "mount" THEN {} ELSE Lists("mount")
<1>0. /\ ModelAnswerOK(a) /\ ModelRequestOK(a.to) /\ i # 0 /\ a.ok
      /\ a.to.kind = "models" /\ Receive(ModelBound, i, rs) /\ usable' = a.is
      /\ unsure' = IF a.overtaken THEN unsure \cup {"models"} ELSE unsure \ {"models"}
      /\ saving' = IF a.to.id = "key" THEN Nothing ELSE saving
      /\ removing' = IF a.to.id = "nokey" THEN Nothing ELSE removing
      /\ dialog' = IF a.to.id = "mount" THEN dialog ELSE Nothing
      /\ UNCHANGED <<saved, keys, currentModel, withKey>>
    BY Acting DEF ModelInv, ModelCallsOK, ModelAnswerOK, ModelsCame, serverVars
<1>1. Lane(a.to) = a.to.id /\ a.to.id \in {"mount", "key", "nokey"}
    BY <1>0, ModelLanes
<1>2. \A q \in rs : ModelRequestOK(q) /\ Lane(q) = "mount"
    BY ListsOK
<1> HIDE DEF rs
<1>3. Acts(i, rs)
    BY <1>0, Acting
<1>4. ModelTypeOK'
    <2>1. a.is \subseteq Providers
        BY <1>0 DEF ModelAnswerOK
    <2> QED BY <1>0, <2>1 DEF ModelInv, ModelTypeOK
<1>5. ModelButtons'
    <2>1. \A lane \in {"key", "nokey"}, q \in rs : Lane(q) # lane
        BY <1>2
    <2>2. saving' # Nothing <=> \/ saving # Nothing /\ (i # 0 => Lane(answers[i].to) # "key")
                                \/ \E q \in rs : Lane(q) = "key"
        BY <1>0, <1>1, <2>1
    <2>3. removing' # Nothing <=> \/ removing # Nothing /\ (i # 0 => Lane(answers[i].to) # "nokey")
                                  \/ \E q \in rs : Lane(q) = "nokey"
        BY <1>0, <1>1, <2>1
    <2> QED BY <1>3, <2>1, <2>2, <2>3, ButtonsAfterAct
<1>6. ModelFollows'
    <2>1. \A r \in rs : ModelRequestOK(r) /\ Lane(r) # "model"
        BY <1>2
    <2> QED BY <1>0, <1>1, <1>3, <2>1, ModelStays
<1>7. "models" \notin unsure' => usable' = keys \/ Rekeyed(answers', 0)
    <2>1. ~a.overtaken => a.is = keys \/ Rekeyed(answers, i)
        BY <1>0 DEF ModelInv, KeysCatchUp, KeysLead
    <2> QED BY <1>0, <1>3, <2>1, KeysAwaited
<1>8. "providers" \notin unsure' =>
        withKey' = keys \/ Rekeyed(answers', 0) \/ InFlight("providers")'
    <2>1. /\ Rekeyed(answers, 0) => Rekeyed(answers', 0)
          /\ InFlight("providers") => InFlight("providers")'
        BY <1>0, <1>3, KeysAwaited
    <2> QED BY <1>0, <2>1 DEF ModelInv, KeysCatchUp
<1> QED BY <1>0, <1>2, <1>3, <1>4, <1>5, <1>6, <1>7, <1>8, ModelAfterAct DEF serverVars

LEMMA FailureStep ==
    ASSUME ModelInv, NEW i \in DOMAIN answers, CallFailed(i)
    PROVE  ModelInv'
<1> DEFINE a == answers[i]
           chain == ChainOf(a.to)
           rs == {}
<1>0. /\ ModelAnswerOK(a) /\ ModelRequestOK(a.to) /\ i # 0 /\ (a.ok => a.to.kind \in Changes)
      /\ Receive(ModelBound, i, rs)
      /\ unsure' = unsure \cup IF chain = "model" THEN {"model"} ELSE {"providers", "models"}
      /\ saving' = IF chain = "key" THEN Nothing ELSE saving
      /\ removing' = IF chain = "nokey" THEN Nothing ELSE removing
      /\ UNCHANGED <<saved, keys, currentModel, withKey, usable, dialog>>
    BY Acting DEF ModelInv, ModelCallsOK, ModelAnswerOK, CallFailed, serverVars
<1>1. Lane(a.to) = chain
    BY <1>0, ModelLanes
<1>2. rs = {}
    OBVIOUS
<1> HIDE DEF rs, chain
<1>3. Acts(i, rs)
    BY <1>0, Acting
<1>4. ModelTypeOK'
    BY <1>0 DEF ModelInv, ModelTypeOK
<1>5. ModelButtons'
    BY <1>0, <1>1, <1>2, <1>3, ButtonsAfterAct
<1>6. CASE chain = "model"
    <2>1. a.to.kind \notin {"key", "nokey", "providers", "models"}
        BY <1>0, <1>1, <1>6, ModelLanes
    <2>2. ModelFollows'
        BY <1>0, <1>6 DEF ModelFollows
    <2>3. /\ Rekeyed(answers, 0) => Rekeyed(answers', 0)
          /\ InFlight("providers") => InFlight("providers")'
          /\ InFlight("models") => InFlight("models")'
          /\ ModelsFollow => ModelsFollow'
        BY <1>3, <2>1, KeysAwaited
    <2>4. "providers" \notin unsure' =>
            withKey' = keys \/ Rekeyed(answers', 0) \/ InFlight("providers")'
        BY <1>0, <1>6, <2>3 DEF ModelInv, KeysCatchUp
    <2>5. "models" \notin unsure' =>
            usable' = keys \/ Rekeyed(answers', 0) \/ InFlight("models")' \/ ModelsFollow'
        BY <1>0, <1>6, <2>3 DEF ModelInv, KeysCatchUp
    <2> QED BY <1>0, <1>2, <1>3, <1>4, <1>5, <2>2, <2>4, <2>5, ModelAfterAct DEF serverVars
<1>7. CASE chain # "model"
    <2>1. ModelFollows'
        BY <1>0, <1>1, <1>2, <1>3, <1>7, ModelStays
    <2>2. {"providers", "models"} \subseteq unsure'
        BY <1>0, <1>7
    <2> QED BY <1>0, <1>2, <1>3, <1>4, <1>5, <2>1, <2>2, ModelAfterAct DEF serverVars
<1> QED BY <1>6, <1>7

-----------------------------------------------------------------------------
\* A click asks for something that is not about the thread's model.
LEMMA ModelAfterClick ==
    ASSUME ModelInv, NEW rs, Ask(ModelBound, rs),
           UNCHANGED <<saved, keys, currentModel, withKey, usable, unsure>>, ModelTypeOK',
           \A r \in rs : ModelRequestOK(r) /\ Lane(r) # "model",
           \A lane \in {"key", "nokey"} : \/ \A r \in rs : Lane(r) # lane
                                          \/ ~UnderWay(lane) /\ \A q, r \in rs : q = r,
           saving' # Nothing <=> saving # Nothing \/ \E r \in rs : Lane(r) = "key",
           removing' # Nothing <=> removing # Nothing \/ \E r \in rs : Lane(r) = "nokey"
    PROVE  ModelInv'
<1> DEFINE i == 0
<1>1. i = 0
    OBVIOUS
<1>2. Acts(i, rs)
    BY Acting
<1> HIDE DEF i
<1>3. ModelButtons'
    BY <1>1, <1>2, ButtonsAfterAct
<1>4. ModelFollows'
    BY <1>1, <1>2, ModelStays
<1>5. /\ Rekeyed(answers, 0) => Rekeyed(answers', 0)
      /\ InFlight("providers") => InFlight("providers")'
      /\ InFlight("models") => InFlight("models")'
      /\ ModelsFollow => ModelsFollow'
    BY <1>1, <1>2, KeysAwaited
<1>6. "providers" \notin unsure' => withKey' = keys \/ Rekeyed(answers', 0) \/ InFlight("providers")'
    BY <1>5 DEF ModelInv, KeysCatchUp
<1>7. "models" \notin unsure' =>
        usable' = keys \/ Rekeyed(answers', 0) \/ InFlight("models")' \/ ModelsFollow'
    BY <1>5 DEF ModelInv, KeysCatchUp
<1> QED BY <1>2, <1>3, <1>4, <1>6, <1>7, ModelAfterAct DEF serverVars

LEMMA ModelUserStep ==
    ASSUME ModelInv,
           \/ \E m \in Models : ChooseModel(m)
           \/ \E p \in Providers : OpenDialog(p)
           \/ CloseDialog \/ SaveKey \/ RemoveKey
    PROVE  ModelInv'
<1>0. /\ Nothing \notin Models /\ Nothing \notin Providers
      /\ dialog # Nothing => dialog.provider \in Providers
      /\ saving # Nothing <=> UnderWay("key")
      /\ removing # Nothing <=> UnderWay("nokey")
    BY ModelAssumption DEF ModelInv, ModelTypeOK, ModelButtons
<1>1. ASSUME NEW m \in Models, ChooseModel(m)
      PROVE  ModelInv'
    <2> DEFINE r == Request("get", Nothing, m)
               rs == {r}
               i == 0
    <2>1. /\ Ask(ModelBound, rs) /\ currentModel' = m
          /\ unsure' = IF \E q \in Requests : q.kind \in ModelCalls THEN unsure \cup {"model"}
                       ELSE unsure \ {"model"}
          /\ UNCHANGED <<saved, keys, withKey, usable, dialog, saving, removing>>
        BY <1>1 DEF ChooseModel, serverVars
    <2>2. r.kind = "get" /\ r.arg = m /\ ModelRequestOK(r)
        BY DEF Request, ModelRequestOK
    <2>3. i = 0 /\ rs # {} /\ \A q \in rs : q = r
        OBVIOUS
    <2>4. Acts(i, rs)
        BY <2>1, Acting
    <2> HIDE DEF r, rs, i
    <2>5. Lane(r) = "model"
        BY <2>2, ModelLanes
    <2>6. ModelTypeOK'
        BY <2>1 DEF ModelInv, ModelTypeOK
    <2>7. ModelButtons'
        BY <2>1, <2>3, <2>4, <2>5, ButtonsAfterAct
    <2>8. "model" \notin unsure' => ~UnderWay("model")
        <3>1. \A q \in Requests : ModelRequestOK(q)
            BY DEF ModelInv, ModelCallsOK, ModelAnswerOK, Requests
        <3>2. \A q \in Requests : Lane(q) = "model" => q.kind \in ModelCalls
            BY <3>1, ModelLanes DEF ModelCalls
        <3> QED BY <2>1, <3>2 DEF UnderWay
    <2>9. ModelFollows'
        BY <2>1, <2>2, <2>3, <2>4, <2>5, <2>8, ModelMoves
    <2>10. /\ Rekeyed(answers, 0) => Rekeyed(answers', 0)
           /\ InFlight("providers") => InFlight("providers")'
           /\ InFlight("models") => InFlight("models")'
           /\ ModelsFollow => ModelsFollow'
        BY <2>3, <2>4, KeysAwaited
    <2>11. "providers" \notin unsure' =>
              withKey' = keys \/ Rekeyed(answers', 0) \/ InFlight("providers")'
        BY <2>1, <2>10 DEF ModelInv, KeysCatchUp
    <2>12. "models" \notin unsure' =>
              usable' = keys \/ Rekeyed(answers', 0) \/ InFlight("models")' \/ ModelsFollow'
        BY <2>1, <2>10 DEF ModelInv, KeysCatchUp
    <2> QED BY <2>1, <2>2, <2>3, <2>4, <2>6, <2>7, <2>9, <2>11, <2>12, ModelAfterAct DEF serverVars
<1>2. ASSUME NEW p \in Providers, OpenDialog(p)
      PROVE  ModelInv'
    <2>1. /\ UNCHANGED <<saved, keys, currentModel, withKey, usable, saving, removing, unsure>>
          /\ UNCHANGED <<asked, answers>> /\ dialog' = [provider |-> p, had |-> p \in withKey]
        BY <1>2 DEF OpenDialog, serverVars, callVars
    <2>2. ModelTypeOK'
        BY <2>1 DEF ModelInv, ModelTypeOK
    <2>3. ModelCallsOK'
        BY <2>1 DEF ModelInv, ModelCallsOK, CallsOK
    <2>4. ModelButtons'
        BY <2>1 DEF ModelInv, ModelButtons, Alone, UnderWay, Requests
    <2>5. KeysCatchUp'
        BY <2>1 DEF ModelInv, KeysCatchUp, InFlight, ModelsFollow, Requests
    <2>6. ModelFollows'
        BY <2>1 DEF ModelInv, ModelFollows, Alone, UnderWay, Requests
    <2> QED BY <2>2, <2>3, <2>4, <2>5, <2>6 DEF ModelInv
<1>3. CASE CloseDialog
    <2> DEFINE rs == Lists("mount")
    <2>1. /\ Ask(ModelBound, rs) /\ dialog' = Nothing
          /\ UNCHANGED <<saved, keys, currentModel, withKey, usable, saving, removing, unsure>>
        BY <1>3 DEF CloseDialog, serverVars
    <2>2. \A r \in rs : ModelRequestOK(r) /\ Lane(r) = "mount"
        BY ListsOK
    <2> HIDE DEF rs
    <2>3. ModelTypeOK'
        BY <2>1 DEF ModelInv, ModelTypeOK
    <2> QED BY <2>1, <2>2, <2>3, ModelAfterClick
<1>4. CASE SaveKey
    <2> DEFINE r == Request("key", dialog.provider, Nothing)
               rs == {r}
    <2>1. /\ Ask(ModelBound, rs) /\ dialog # Nothing /\ saving = Nothing
          /\ saving' = dialog.provider
          /\ UNCHANGED <<saved, keys, currentModel, withKey, usable, dialog, removing, unsure>>
        BY <1>4 DEF SaveKey, serverVars
    <2>2. r.kind = "key" /\ ModelRequestOK(r) /\ \A q \in rs : q = r
        BY <1>0, <2>1 DEF Request, ModelRequestOK
    <2>3. r \in rs
        OBVIOUS
    <2> HIDE DEF r, rs
    <2>4. Lane(r) = "key"
        BY <2>2, ModelLanes
    <2>5. ModelTypeOK'
        BY <1>0, <2>1 DEF ModelInv, ModelTypeOK
    <2>6. saving' # Nothing
        BY <1>0, <2>1
    <2> QED BY <1>0, <2>1, <2>2, <2>3, <2>4, <2>5, <2>6, ModelAfterClick
<1>5. CASE RemoveKey
    <2> DEFINE r == Request("nokey", dialog.provider, Nothing)
               rs == {r}
    <2>1. /\ Ask(ModelBound, rs) /\ dialog # Nothing /\ removing = Nothing
          /\ removing' = dialog.provider
          /\ UNCHANGED <<saved, keys, currentModel, withKey, usable, dialog, saving, unsure>>
        BY <1>5 DEF RemoveKey, serverVars
    <2>2. r.kind = "nokey" /\ ModelRequestOK(r) /\ \A q \in rs : q = r
        BY <1>0, <2>1 DEF Request, ModelRequestOK
    <2>3. r \in rs
        OBVIOUS
    <2> HIDE DEF r, rs
    <2>4. Lane(r) = "nokey"
        BY <2>2, ModelLanes
    <2>5. ModelTypeOK'
        BY <1>0, <2>1 DEF ModelInv, ModelTypeOK
    <2>6. removing' # Nothing
        BY <1>0, <2>1
    <2> QED BY <1>0, <2>1, <2>2, <2>3, <2>4, <2>5, <2>6, ModelAfterClick
<1> QED BY <1>1, <1>2, <1>3, <1>4, <1>5

LEMMA ModelInitially ==
    ASSUME ModelInit, CallsInit(ModelRequests)
    PROVE  ModelInv
<1> DEFINE r == Request("details", Nothing, Nothing)
           rs == ModelRequests
<1>1. r.kind = "details" /\ ModelRequestOK(r)
    BY DEF Request, ModelRequestOK
<1>2. rs = {r} \cup Lists("mount") /\ asked = SetToBag(rs) /\ answers = <<>>
    BY DEF CallsInit, ModelRequests
<1> HIDE DEF r, rs
<1>3. Lane(r) = "model"
    BY <1>1, ModelLanes
<1>4. DOMAIN asked = rs /\ (\A q \in rs : asked[q] = 1) /\ IsABag(asked)
    BY <1>2 DEF SetToBag, IsABag
<1>5. DOMAIN answers = {} /\ AreAnswers(answers)
    BY <1>2 DEF AreAnswers
<1>6. Requests = rs
    BY <1>4, <1>5 DEF Requests
<1>7. \A q \in rs : ModelRequestOK(q) /\ (q = r \/ Lane(q) = "mount")
    BY <1>1, <1>2, ListsOK
<1>8. ModelCallsOK
    BY <1>4, <1>5, <1>7 DEF ModelCallsOK, CallsOK
<1>9. ModelTypeOK
    BY DEF ModelInit, ModelTypeOK
<1>10. \A lane \in {"key", "nokey"} : Alone(lane) /\ ~UnderWay(lane)
    BY <1>3, <1>4, <1>5, <1>6, <1>7 DEF Alone, UnderWay
<1>11. ModelButtons
    BY <1>10 DEF ModelInit, ModelButtons
<1>12. KeysCatchUp
    BY <1>5 DEF ModelInit, KeysCatchUp, KeysLead
<1>13. ModelFollows
    <2>1. Alone("model") /\ UnderWay("model")
        BY <1>2, <1>3, <1>4, <1>5, <1>6, <1>7 DEF Alone, UnderWay
    <2>2. \A q \in DOMAIN asked : q.kind \notin {"default", "get", "put"}
        BY <1>1, <1>2, <1>4, ListsOK
    <2> QED BY <1>5, <2>1, <2>2 DEF ModelFollows
<1> QED BY <1>8, <1>9, <1>11, <1>12, <1>13 DEF ModelInv

LEMMA ModelInvKeeps ==
    ASSUME ModelInv
    PROVE  ModelIsTheServers
<1>1. \A r \in Requests : Lane(r) = ChainOf(r)
    BY ModelLanes DEF ModelInv, ModelCallsOK, ModelAnswerOK, Requests
<1>2. /\ saving # Nothing <=> \E r \in Requests : ChainOf(r) = "key"
      /\ removing # Nothing <=> \E r \in Requests : ChainOf(r) = "nokey"
    BY <1>1 DEF ModelInv, ModelButtons, UnderWay
<1>3. ASSUME Quiet
      PROVE  /\ "providers" \notin unsure => withKey = keys
             /\ "models" \notin unsure => usable = keys
             /\ "model" \notin unsure =>
                    currentModel = IF saved = Nothing THEN DefaultModel ELSE saved
    <2>1. DOMAIN asked = {} /\ DOMAIN answers = {}
        BY <1>3 DEF Quiet, EmptyBag, SetToBag
    <2>2. Requests = {} /\ ~Rekeyed(answers, 0)
        BY <2>1 DEF Requests, Rekeyed
    <2>3. \A k : ~InFlight(k) /\ ~UnderWay(k)
        BY <2>2 DEF InFlight, UnderWay
    <2>4. ~ModelsFollow
        BY <2>2 DEF ModelsFollow
    <2> QED BY <2>2, <2>3, <2>4 DEF ModelInv, KeysCatchUp, ModelFollows, ShownFor
<1> QED BY <1>2, <1>3 DEF ModelIsTheServers

LEMMA ModelStep ==
    ASSUME ModelInv, ModelNext \/ UNCHANGED <<callVars, modelVars>>
    PROVE  ModelInv'
<1>1. CASE ModelNext
    <2>1. ASSUME NEW r \in DOMAIN asked,
                 ServeRead(r) \/ ServeChoice(r) \/ ServeKey(r) \/ RefuseCall(r)
          PROVE  ModelInv'
        BY <2>1, ModelServerStep
    <2>2. ASSUME NEW i \in DOMAIN answers,
                 \/ DetailsCame(i) \/ GotForChoice(i) \/ ChoiceSaved(i)
                 \/ KeySaved(i) \/ ProvidersCame(i) \/ ModelsCame(i) \/ CallFailed(i)
          PROVE  ModelInv'
        BY <2>2, ModelChainStep, KeyStep, ProvidersStep, ModelsStep, FailureStep
    <2> QED BY <1>1, <2>1, <2>2, ModelUserStep DEF ModelNext
<1>2. CASE UNCHANGED <<callVars, modelVars>>
    <2>1. UNCHANGED <<asked, answers, saved, keys, currentModel, withKey, usable, dialog, saving,
                      removing, unsure>>
        BY <1>2 DEF callVars, modelVars
    <2>2. ModelTypeOK'
        BY <2>1 DEF ModelInv, ModelTypeOK
    <2>3. ModelCallsOK'
        BY <2>1 DEF ModelInv, ModelCallsOK, CallsOK
    <2>4. ModelButtons'
        BY <2>1 DEF ModelInv, ModelButtons, Alone, UnderWay, Requests
    <2>5. KeysCatchUp'
        BY <2>1 DEF ModelInv, KeysCatchUp, InFlight, ModelsFollow, Requests
    <2>6. ModelFollows'
        BY <2>1 DEF ModelInv, ModelFollows, Alone, UnderWay, Requests
    <2> QED BY <2>2, <2>3, <2>4, <2>5, <2>6 DEF ModelInv
<1> QED BY <1>1, <1>2

-----------------------------------------------------------------------------
\* Each page's invariant speaks of the behaviours that exercise it.
EditorsInv == (part = "skills" => SkillInv) /\ (part = "mcps" => McpInv)

(***************************************************************************)
(* However loads, changes, tests and clicks interleave, and whatever is    *)
(* refused or lost: the MCP page writes to a server only what was meant    *)
(* for it and disables its buttons exactly while its calls are under way,  *)
(* without exception; it shows a test's result under its own server unless *)
(* another was chosen during the test. The skills page writes to a skill   *)
(* only what was meant for it, but for files saved while files were being  *)
(* loaded, or after another skill was chosen under such a load. At rest    *)
(* both show what the server has, unless a call failed, an answer was lost *)
(* or overtaken, or files were loaded for another skill than the selected  *)
(* one (SkillsPage.tsx, McpManager.tsx).                                   *)
(***************************************************************************)
THEOREM EditorsKeep == ShellSpec => []EditorsKeepToTheirOwn
<1>1. ShellInit => EditorsInv
    BY SkillsInitially, McpInitially DEF ShellInit, EditorsInv
<1>2. EditorsInv /\ [ShellNext]_<<part, callVars, shellVars>> => EditorsInv'
    <2> SUFFICES ASSUME EditorsInv, [ShellNext]_<<part, callVars, shellVars>> PROVE EditorsInv'
        OBVIOUS
    <2>1. part' = part
        BY DEF ShellNext
    <2>2. part = "skills" => EditorNext \/ UNCHANGED <<callVars, editorVars>>
        BY DEF ShellNext, shellVars
    <2>3. part = "mcps" => McpNext \/ UNCHANGED <<callVars, mcpVars>>
        BY DEF ShellNext, shellVars
    <2> QED BY <2>1, <2>2, <2>3, SkillStep, McpStep DEF EditorsInv
<1>3. EditorsInv => EditorsKeepToTheirOwn
    BY SkillInvKeeps, McpInvKeeps DEF EditorsInv, EditorsKeepToTheirOwn
<1> QED BY <1>1, <1>2, <1>3, PTL DEF ShellSpec

(***************************************************************************)
(* However choices of a model, keys saved and removed and the loads behind *)
(* them interleave, and whatever is refused or lost, the key dialog is     *)
(* busy exactly while its own calls are under way, and at rest the model,  *)
(* the providers and the models offered are the server's, unless a call    *)
(* failed or an answer was overtaken, or a model was chosen while another  *)
(* choice or the details of the thread were under way (ModelSwitcher.tsx,  *)
(* ApiKeyDialog.tsx, store.ts, thread-context.tsx).                        *)
(***************************************************************************)
THEOREM SwitcherShows == ShellSpec => []SwitcherShowsTheServer
<1> DEFINE Inv == part = "models" => ModelInv
<1>1. ShellInit => Inv
    BY ModelInitially DEF ShellInit
<1>2. Inv /\ [ShellNext]_<<part, callVars, shellVars>> => Inv'
    <2> SUFFICES ASSUME Inv, [ShellNext]_<<part, callVars, shellVars>> PROVE Inv'
        OBVIOUS
    <2>1. part' = part
        BY DEF ShellNext
    <2>2. part = "models" => ModelNext \/ UNCHANGED <<callVars, modelVars>>
        BY DEF ShellNext, shellVars
    <2> QED BY <2>1, <2>2, ModelStep
<1>3. Inv => SwitcherShowsTheServer
    BY ModelInvKeeps DEF SwitcherShowsTheServer
<1> HIDE DEF Inv
<1> QED BY <1>1, <1>2, <1>3, PTL DEF ShellSpec

-----------------------------------------------------------------------------
(* The thread list.                                                        *)

ThreadIds == 1..MaxThreads

Creating == Request("create", Nothing, Nothing)

Deletions == {Request("delete", t, Nothing) : t \in ThreadIds}

\* A call of the page, when the first n threads have been made.
ThreadRequestOK(r, n) ==
    \/ r \in {ListRequest, Creating}
    \/ \E t \in 1..n : r \in {Request("delete", t, Nothing), Request("name", t, Nothing),
                              Request("rename", t, "given"), Request("retitle", t, "generated")}

DistinctIds(s) == \A j, k \in DOMAIN s : s[j].id = s[k].id => j = k

IsList(s, n) == s \in Seq(Rows) /\ DistinctIds(s) /\ Ids(s) \subseteq 1..n

Creates(a) == a.ok /\ a.to.kind = "create"

Deletes(a) == a.ok /\ a.to.kind = "delete"

Retitles(a) == a.ok /\ a.to.kind \in {"rename", "retitle"}

ThreadAnswerOK(a, n) ==
    /\ ThreadRequestOK(a.to, n)
    /\ a.done \/ Creates(a)
    /\ a.to.kind = "list" => IsList(a.is, n)
    /\ Creates(a) => \E row \in Rows : a.is = <<row>>
    /\ Retitles(a) => a.is = <<[id |-> a.to.id, title |-> a.to.arg]>>

\* At most one call of Q is under way.
Sole(Q) ==
    /\ \A q, r \in DOMAIN asked : q \in Q /\ r \in Q => q = r /\ asked[r] = 1
    /\ \A i, j \in DOMAIN answers : answers[i].to \in Q /\ answers[j].to \in Q => i = j
    /\ \A r \in DOMAIN asked, i \in DOMAIN answers : r \notin Q \/ answers[i].to \notin Q

ThreadCallsOK ==
    /\ CallsOK
    /\ \A r \in DOMAIN asked : ThreadRequestOK(r, created)
    /\ \A i \in DOMAIN answers : ThreadAnswerOK(answers[i], created)
    /\ Sole({Creating}) /\ Sole(Deletions)
    /\ phase = "loading" => Sole({ListRequest})

\* What is under way is what the buttons say, and the first list is alone.
ThreadButtons ==
    /\ creation = "creating" <=> Creating \in Requests
    /\ \A t \in ThreadIds : deleting = t <=> Request("delete", t, Nothing) \in Requests
    /\ phase # "ready" /\ creation = "creating" => ListRequest \notin Requests
    /\ phase = "login" => creation # "creating" /\ ListRequest \notin Requests

\* After answer j there is one of the creation of t, of its deletion, of a new title.
Created(as, j, t) == \E k \in DOMAIN as : k > j /\ Creates(as[k]) /\ as[k].is[1].id = t

Deleted(as, j, t) == \E k \in DOMAIN as : k > j /\ Deletes(as[k]) /\ as[k].to.id = t

Retitled(as, j, t) == \E k \in DOMAIN as : k > j /\ Retitles(as[k]) /\ as[k].to.id = t

\* After answer j there is one that will leave the list behind.
Doubtful(as, j) ==
    \E k \in DOMAIN as : k > j /\ as[k].overtaken /\ (as[k].to.kind = "create" \/ Retitles(as[k]))

\* The list becomes the table by what the answers after the j-th say.
ThreadsLead(table, as, list, j) ==
    /\ \A t \in Ids(table) : t \in Ids(list) \/ Created(as, j, t)
    /\ \A t \in Ids(list) : ~Created(as, j, t) /\ (t \in Ids(table) \/ Deleted(as, j, t))
    /\ \A m \in ToSet(table) : m.id \in Ids(list) => m \in ToSet(list) \/ Retitled(as, j, m.id)

ThreadsFollow(table, as, list, j) == Doubtful(as, j) \/ ThreadsLead(table, as, list, j)

\* t exists, or its end is known or will be.
Accounted(table, as, gone, t, j) == t \in Ids(table) \cup gone \/ Deleted(as, j, t)

\* The page has t, or has asked something about it.
Known(t) ==
    t \in Ids(threads) \/ \E r \in Requests : r.kind \in {"delete", "name", "rename", "retitle"} /\ r.id = t

\* A thread that is known before its creation is told was listed after it was made.
CreationsOK ==
    \A k \in DOMAIN answers : Creates(answers[k]) =>
        LET row == answers[k].is[1]
        IN  /\ row.id \in Ids(rows)
            /\ ~answers[k].overtaken => row \in ToSet(rows) /\ ~Known(row.id)
            /\ Request("delete", row.id, Nothing) \notin Requests
            /\ \A i \in DOMAIN answers :
                 answers[i].to.kind = "list" /\ row.id \in Ids(answers[i].is) => k < i

ChangesOK ==
    \A k \in DOMAIN answers :
        /\ Deletes(answers[k]) => answers[k].to.id \notin Ids(rows)
        /\ Retitles(answers[k]) /\ ~answers[k].overtaken =>
             \A m \in ToSet(rows) :
                m.id = answers[k].to.id => m = answers[k].is[1] \/ Retitled(answers, k, m.id)

ListsFollow ==
    \A j \in DOMAIN answers :
        answers[j].to.kind = "list" /\ answers[j].ok /\ ~answers[j].overtaken =>
            /\ ThreadsFollow(rows, answers, answers[j].is, j)
            /\ \A t \in Ids(answers[j].is) : Accounted(rows, answers, vanished, t, j)

ScreenFollows ==
    /\ ~behind => DistinctIds(threads) \/ Doubtful(answers, 0)
    /\ ~behind => ThreadsFollow(rows, answers, threads, 0)
    /\ \A t \in Ids(threads) : Accounted(rows, answers, vanished, t, 0)
    /\ current # Nothing => Accounted(rows, answers, vanished, current, 0)

ThreadTables == IsList(rows, created) /\ threads \in Seq(Rows) /\ Ids(threads) \subseteq 1..created

ThreadInv ==
    /\ ListTypeOK /\ ThreadTables /\ ThreadCallsOK /\ ThreadButtons
    /\ CreationsOK /\ ChangesOK /\ ListsFollow /\ ScreenFollows

-----------------------------------------------------------------------------
LEMMA RowsOfSeq ==
    ASSUME NEW s \in Seq(Rows)
    PROVE  /\ Len(s) \in Nat /\ DOMAIN s = 1..Len(s)
           /\ \A i \in DOMAIN s : s[i] \in Rows /\ s[i] \in ToSet(s) /\ s[i].id \in Ids(s)
           /\ \A m \in ToSet(s) : m \in Rows /\ m.id \in Ids(s)
           /\ \A t \in Ids(s) : t \in ThreadIds /\ \E m \in ToSet(s) : m.id = t
           /\ DistinctIds(s) => \A m, n \in ToSet(s) : m.id = n.id => m = n
           /\ s = <<>> <=> Ids(s) = {}
<1>1. Len(s) \in Nat /\ DOMAIN s = 1..Len(s) /\ \A i \in DOMAIN s : s[i] \in Rows
    OBVIOUS
<1>2. \A i \in DOMAIN s : s[i] \in ToSet(s) /\ s[i].id \in Ids(s)
    BY DEF ToSet, Ids
<1>3. \A m \in ToSet(s) : m \in Rows /\ m.id \in Ids(s)
    BY <1>1 DEF ToSet, Ids
<1>4. \A m \in Rows : m.id \in ThreadIds
    BY DEF Rows, ThreadIds
<1>5. \A t \in Ids(s) : t \in ThreadIds /\ \E m \in ToSet(s) : m.id = t
    BY <1>1, <1>4 DEF ToSet, Ids
<1>6. DistinctIds(s) => \A m, n \in ToSet(s) : m.id = n.id => m = n
    BY DEF DistinctIds, ToSet
<1>7. s = <<>> <=> Ids(s) = {}
    <2>1. s = <<>> <=> DOMAIN s = {}
        BY <1>1
    <2> QED BY <2>1 DEF Ids
<1> QED BY <1>1, <1>2, <1>3, <1>5, <1>6, <1>7

LEMMA WithoutRow ==
    ASSUME NEW s \in Seq(Rows), NEW id, NEW w, w = Without(s, id)
    PROVE  /\ w \in Seq(Rows) /\ ToSet(w) = {m \in ToSet(s) : m.id # id}
           /\ Ids(w) = Ids(s) \ {id} /\ (DistinctIds(s) => DistinctIds(w))
<1> DEFINE S == {t \in ToSet(s) : t.id # id}
<1>1. w = Keeping(s, S)
    BY DEF Without
<1>2. \A p \in DOMAIN s : s[p] \in S <=> s[p].id # id
    BY RowsOfSeq
<1> HIDE DEF S
<1>3. /\ w \in Seq(Rows)
      /\ \A i \in DOMAIN w : \E p \in DOMAIN s : w[i] = s[p] /\ s[p] \in S
      /\ \A p \in DOMAIN s : s[p] \in S => \E i \in DOMAIN w : w[i] = s[p]
      /\ \A i, j \in DOMAIN w : i # j => \E p, q \in DOMAIN s : p # q /\ w[i] = s[p] /\ w[j] = s[q]
    BY <1>1, KeepingKeeps
<1>4. ToSet(w) = {m \in ToSet(s) : m.id # id}
    BY <1>2, <1>3 DEF ToSet
<1>5. Ids(w) = Ids(s) \ {id}
    <2>1. ASSUME NEW t \in Ids(w) PROVE t \in Ids(s) \ {id}
        BY <1>2, <1>3 DEF Ids
    <2>2. ASSUME NEW t \in Ids(s) \ {id} PROVE t \in Ids(w)
        BY <1>2, <1>3 DEF Ids
    <2> QED BY <2>1, <2>2
<1>6. ASSUME DistinctIds(s), NEW i \in DOMAIN w, NEW j \in DOMAIN w, w[i].id = w[j].id
      PROVE  i = j
    <2> SUFFICES ASSUME i # j PROVE FALSE
        OBVIOUS
    <2>1. PICK p \in DOMAIN s, q \in DOMAIN s : p # q /\ w[i] = s[p] /\ w[j] = s[q]
        BY <1>3
    <2> QED BY <1>6, <2>1 DEF DistinctIds
<1>7. DistinctIds(s) => DistinctIds(w)
    BY <1>6 DEF DistinctIds
<1> QED BY <1>3, <1>4, <1>5, <1>7

LEMMA RowInFront ==
    ASSUME NEW s \in Seq(Rows), NEW row \in Rows, NEW w, w = <<row>> \o s
    PROVE  /\ w \in Seq(Rows) /\ w # <<>> /\ w[1] = row /\ ToSet(w) = {row} \cup ToSet(s)
           /\ Ids(w) = {row.id} \cup Ids(s)
           /\ DistinctIds(s) /\ row.id \notin Ids(s) => DistinctIds(w)
<1> DEFINE n == Len(s)
<1>1. n \in Nat /\ DOMAIN s = 1..n
    OBVIOUS
<1>2. w \in Seq(Rows) /\ Len(w) = n + 1 /\ w[1] = row /\ \A i \in 1..n : w[i + 1] = s[i]
    BY <1>1
<1> HIDE DEF n
<1>3. DOMAIN w = 1..(n + 1) /\ 1 \in DOMAIN w
    BY <1>1, <1>2
<1>4. \A i \in DOMAIN w : i = 1 \/ (i - 1 \in DOMAIN s /\ w[i] = s[i - 1])
    <2> SUFFICES ASSUME NEW i \in DOMAIN w, i # 1 PROVE i - 1 \in DOMAIN s /\ w[i] = s[i - 1]
        OBVIOUS
    <2>1. i - 1 \in 1..n /\ (i - 1) + 1 = i
        BY <1>1, <1>3
    <2> QED BY <1>1, <1>2, <2>1
<1>5. \A i \in DOMAIN s : i + 1 \in DOMAIN w /\ w[i + 1] = s[i]
    BY <1>1, <1>2, <1>3
<1>6. ToSet(w) = {row} \cup ToSet(s)
    <2>1. ASSUME NEW m \in ToSet(w) PROVE m = row \/ m \in ToSet(s)
        BY <1>2, <1>4 DEF ToSet
    <2>2. ASSUME NEW m \in ToSet(s) PROVE m \in ToSet(w)
        BY <1>5 DEF ToSet
    <2>3. row \in ToSet(w)
        BY <1>2, <1>3 DEF ToSet
    <2> QED BY <2>1, <2>2, <2>3
<1>7. Ids(w) = {row.id} \cup Ids(s)
    <2>1. ASSUME NEW t \in Ids(w) PROVE t = row.id \/ t \in Ids(s)
        BY <1>2, <1>4 DEF Ids
    <2>2. ASSUME NEW t \in Ids(s) PROVE t \in Ids(w)
        BY <1>5 DEF Ids
    <2>3. row.id \in Ids(w)
        BY <1>2, <1>3 DEF Ids
    <2> QED BY <2>1, <2>2, <2>3
<1>8. ASSUME DistinctIds(s), row.id \notin Ids(s) PROVE DistinctIds(w)
    <2> SUFFICES ASSUME NEW i \in DOMAIN w, NEW j \in DOMAIN w, w[i].id = w[j].id PROVE i = j
        BY DEF DistinctIds
    <2>1. \A k \in DOMAIN s : s[k].id # row.id
        BY <1>8 DEF Ids
    <2>2. (i = 1 /\ j = 1) \/ (i - 1 \in DOMAIN s /\ j - 1 \in DOMAIN s)
        BY <1>2, <1>4, <2>1
    <2>3. i - 1 \in DOMAIN s /\ j - 1 \in DOMAIN s /\ i # 1 /\ j # 1 => i - 1 = j - 1
        BY <1>4, <1>8 DEF DistinctIds
    <2> QED BY <1>3, <2>2, <2>3
<1>9. w # <<>>
    BY <1>2, <1>1
<1> QED BY <1>2, <1>6, <1>7, <1>8, <1>9

\* What was to come after j before answer i came back comes after l now.
LEMMA TidingsStay ==
    ASSUME NEW was, NEW now, NEW i, CameBack(was, now, i), NEW j, NEW l,
           \A k \in DOMAIN was \ {i} : k > j => New(i, k) > l
    PROVE  /\ \A t : Created(was, j, t) /\ (i > j /\ Creates(was[i]) => was[i].is[1].id # t)
                        => Created(now, l, t)
           /\ \A t : Deleted(was, j, t) /\ (i > j /\ Deletes(was[i]) => was[i].to.id # t)
                        => Deleted(now, l, t)
           /\ \A t : Retitled(was, j, t) /\ (i > j /\ Retitles(was[i]) => was[i].to.id # t)
                        => Retitled(now, l, t)
           /\ Doubtful(was, j) /\ (i > j /\ was[i].overtaken => was[i].to.kind # "create" /\ ~Retitles(was[i]))
                        => Doubtful(now, l)
<1>1. \A k \in DOMAIN was \ {i} :
        /\ New(i, k) \in DOMAIN now /\ now[New(i, k)].to = was[k].to
        /\ now[New(i, k)].ok = was[k].ok /\ now[New(i, k)].is = was[k].is
    BY DEF CameBack, Says
<1>2. \A k \in DOMAIN was \ {i} : was[k].overtaken => now[New(i, k)].overtaken
    <2> SUFFICES ASSUME NEW k \in DOMAIN was \ {i}, was[k].overtaken, ~now[New(i, k)].overtaken PROVE FALSE
        OBVIOUS
    <2>1. Old(i, New(i, k)) = k
        BY Places DEF CameBack
    <2> QED BY <1>1, <2>1 DEF CameBack
<1>3. ASSUME NEW t, Created(was, j, t), i > j /\ Creates(was[i]) => was[i].is[1].id # t
      PROVE  Created(now, l, t)
    <2>1. PICK k \in DOMAIN was : k > j /\ Creates(was[k]) /\ was[k].is[1].id = t
        BY <1>3 DEF Created
    <2>2. k # i
        BY <1>3, <2>1
    <2> QED BY <1>1, <2>1, <2>2 DEF Created, Creates
<1>4. ASSUME NEW t, Deleted(was, j, t), i > j /\ Deletes(was[i]) => was[i].to.id # t
      PROVE  Deleted(now, l, t)
    <2>1. PICK k \in DOMAIN was : k > j /\ Deletes(was[k]) /\ was[k].to.id = t
        BY <1>4 DEF Deleted
    <2>2. k # i
        BY <1>4, <2>1
    <2> QED BY <1>1, <2>1, <2>2 DEF Deleted, Deletes
<1>5. ASSUME NEW t, Retitled(was, j, t), i > j /\ Retitles(was[i]) => was[i].to.id # t
      PROVE  Retitled(now, l, t)
    <2>1. PICK k \in DOMAIN was : k > j /\ Retitles(was[k]) /\ was[k].to.id = t
        BY <1>5 DEF Retitled
    <2>2. k # i
        BY <1>5, <2>1
    <2> QED BY <1>1, <2>1, <2>2 DEF Retitled, Retitles
<1>6. ASSUME Doubtful(was, j), i > j /\ was[i].overtaken => was[i].to.kind # "create" /\ ~Retitles(was[i])
      PROVE  Doubtful(now, l)
    <2>1. PICK k \in DOMAIN was : k > j /\ was[k].overtaken /\ (was[k].to.kind = "create" \/ Retitles(was[k]))
        BY <1>6 DEF Doubtful
    <2>2. k # i
        BY <1>6, <2>1
    <2> QED BY <1>1, <1>2, <2>1, <2>2 DEF Doubtful, Retitles
<1> QED BY <1>3, <1>4, <1>5, <1>6

\* ... and nothing else does.
LEMMA NothingNewToTell ==
    ASSUME NEW was, NEW now, NEW i, CameBack(was, now, i), NEW j, NEW l,
           \A k \in DOMAIN now : k > l => Old(i, k) > j
    PROVE  \A t : Created(now, l, t) => Created(was, j, t)
<1> SUFFICES ASSUME NEW t, Created(now, l, t) PROVE Created(was, j, t)
    OBVIOUS
<1>1. PICK k \in DOMAIN now : k > l /\ Creates(now[k]) /\ now[k].is[1].id = t
    BY DEF Created
<1>2. Old(i, k) \in DOMAIN was /\ Says(now[k], was[Old(i, k)])
    BY DEF CameBack
<1> QED BY <1>1, <1>2 DEF Created, Creates, Says

\* A list that is not touched follows the rows as before.
LEMMA FollowsAfterReceipt ==
    ASSUME NEW was, NEW now, NEW i, CameBack(was, now, i), NEW j, NEW l,
           \A k \in DOMAIN was \ {i} : k > j => New(i, k) > l,
           \A k \in DOMAIN now : k > l => Old(i, k) > j,
           i > j => /\ ~Creates(was[i]) /\ ~Deletes(was[i]) /\ ~Retitles(was[i])
                    /\ was[i].overtaken => was[i].to.kind # "create",
           NEW table, NEW list, ThreadsFollow(table, was, list, j)
    PROVE  ThreadsFollow(table, now, list, l)
<1>1. /\ \A t : Created(was, j, t) <=> Created(now, l, t)
      /\ \A t : Deleted(was, j, t) => Deleted(now, l, t)
      /\ \A t : Retitled(was, j, t) => Retitled(now, l, t)
      /\ Doubtful(was, j) => Doubtful(now, l)
    BY TidingsStay, NothingNewToTell
<1> QED BY <1>1 DEF ThreadsFollow, ThreadsLead

-----------------------------------------------------------------------------
\* A call of Q stays alone when the server answers, ...
LEMMA SoleAfterReply ==
    ASSUME NEW Q, Sole(Q), NEW r \in DOMAIN asked, asked[r] = 1 => r \notin DOMAIN asked',
           DOMAIN asked' \subseteq DOMAIN asked,
           \A q \in DOMAIN asked : q # r => q \in DOMAIN asked' /\ asked'[q] = asked[q],
           NEW n, DOMAIN answers' = DOMAIN answers \cup {n}, n \notin DOMAIN answers,
           answers'[n].to = r, \A i \in DOMAIN answers : answers'[i].to = answers[i].to
    PROVE  Sole(Q)'
<1>3. \A p, q \in DOMAIN asked' : p \in Q /\ q \in Q => p = q /\ asked'[q] = 1
    BY DEF Sole
<1>4. \A j, k \in DOMAIN answers' : answers'[j].to \in Q /\ answers'[k].to \in Q => j = k
    BY DEF Sole
<1>5. \A q \in DOMAIN asked', j \in DOMAIN answers' : q \notin Q \/ answers'[j].to \notin Q
    BY DEF Sole
<1> QED BY <1>3, <1>4, <1>5 DEF Sole

\* ... when others are sent or none is under way, and when an answer comes back.
LEMMA SoleAfterAct ==
    ASSUME NEW Q, Sole(Q), NEW i, NEW rs, Acts(i, rs),
           Q \cap rs = {} \/ (Q \cap Requests = {} /\ \A q, r \in rs : q = r)
    PROVE  Sole(Q)'
<1>1. CASE i = 0
    <2>1. Sent(rs) /\ answers' = answers
        BY <1>1 DEF Acts
    <2>2. \A p, q \in DOMAIN asked' : p \in Q /\ q \in Q => p = q /\ asked'[q] = 1
        BY <2>1 DEF Sent, Sole, Requests
    <2>3. \A j, k \in DOMAIN answers' : answers'[j].to \in Q /\ answers'[k].to \in Q => j = k
        BY <2>1 DEF Sole
    <2>4. \A q \in DOMAIN asked', j \in DOMAIN answers' : q \notin Q \/ answers'[j].to \notin Q
        BY <2>1 DEF Sent, Sole, Requests
    <2> QED BY <2>2, <2>3, <2>4 DEF Sole
<1>2. CASE i # 0
    <2>1. i \in DOMAIN answers /\ Received(i, rs)
        BY <1>2 DEF Acts
    <2>2. Sent(rs)
        BY <2>1 DEF Received
    <2>3. \A k \in DOMAIN answers' : /\ Old(i, k) \in DOMAIN answers \ {i}
                                     /\ answers'[k].to = answers[Old(i, k)].to
        BY <2>1 DEF Received, CameBack, Says
    <2>4. \A j, k \in DOMAIN answers' : Old(i, j) = Old(i, k) => j = k
        BY <2>1 DEF Received, CameBack, Old
    <2>5. \A p, q \in DOMAIN asked' : p \in Q /\ q \in Q => p = q /\ asked'[q] = 1
        BY <2>2 DEF Sent, Sole, Requests
    <2>6. \A j, k \in DOMAIN answers' : answers'[j].to \in Q /\ answers'[k].to \in Q => j = k
        BY <2>3, <2>4 DEF Sole
    <2>7. \A q \in DOMAIN asked', j \in DOMAIN answers' : q \notin Q \/ answers'[j].to \notin Q
        BY <2>2, <2>3 DEF Sent, Sole, Requests
    <2> QED BY <2>5, <2>6, <2>7 DEF Sole
<1> QED BY <1>1, <1>2

\* What the calls of the page are.
LEMMA ThreadRequests ==
    ASSUME NEW n \in Nat, NEW r, ThreadRequestOK(r, n)
    PROVE  /\ r.kind = "list" <=> r = ListRequest
           /\ r.kind = "create" <=> r = Creating
           /\ r.kind \in {"list", "create", "delete", "name", "rename", "retitle"}
           /\ r.kind \in {"delete", "name", "rename", "retitle"} => r.id \in 1..n
           /\ r.kind = "delete" => r = Request("delete", r.id, Nothing)
           /\ r.kind = "name" => r = Request("name", r.id, Nothing)
           /\ r.kind \in {"rename", "retitle"} => r.arg \in {"given", "generated"}
           /\ r.kind \in Changes <=> r.kind \in {"create", "delete", "rename", "retitle"}
           /\ \A m \in Nat : m >= n => ThreadRequestOK(r, m)
<1>1. CASE r \in {ListRequest, Creating}
    BY <1>1 DEF ThreadRequestOK, ListRequest, Creating, Request, Changes
<1>2. CASE r \notin {ListRequest, Creating}
    <2>1. PICK t \in 1..n : r \in {Request("delete", t, Nothing), Request("name", t, Nothing),
                              Request("rename", t, "given"), Request("retitle", t, "generated")}
        BY <1>2 DEF ThreadRequestOK
    <2>2. \A m \in Nat : m >= n => t \in 1..m
        OBVIOUS
    <2>3. \A m \in Nat : m >= n => ThreadRequestOK(r, m)
        BY <2>1, <2>2 DEF ThreadRequestOK
    <2> QED BY <2>1, <2>3 DEF ListRequest, Creating, Request, Changes
<1> QED BY <1>1, <1>2

\* A thread that is being made has one creation, at the server.
LEMMA OneCreation ==
    ASSUME ThreadCallsOK, created \in Nat, NEW i \in DOMAIN answers, Creates(answers[i])
    PROVE  /\ answers[i].to = Creating
           /\ \A k \in DOMAIN answers : answers[k].to.kind = "create" => k = i
<1>1. \A k \in DOMAIN answers : answers[k].to.kind = "create" => answers[k].to = Creating
    <2>1. \A k \in DOMAIN answers : ThreadRequestOK(answers[k].to, created)
        BY DEF ThreadCallsOK, ThreadAnswerOK
    <2> QED BY <2>1, ThreadRequests
<1> QED BY <1>1 DEF ThreadCallsOK, Sole, Creates

-----------------------------------------------------------------------------
LEMMA ReplyAppends ==
    ASSUME CallsOK, NEW r \in DOMAIN asked, NEW ok \in BOOLEAN, NEW done, NEW is,
           Reply(r, ok, done, is)
    PROVE  /\ CallsOK' /\ DOMAIN asked' \subseteq DOMAIN asked
           /\ asked[r] = 1 => r \notin DOMAIN asked'
           /\ \A q \in DOMAIN asked : q # r => q \in DOMAIN asked' /\ asked'[q] = asked[q]
           /\ Len(answers) \in Nat /\ DOMAIN answers = 1..Len(answers)
           /\ Len(answers') = Len(answers) + 1 /\ DOMAIN answers' = 1..(Len(answers) + 1)
           /\ \A i \in DOMAIN answers : answers'[i] = answers[i]
           /\ answers'[Len(answers) + 1] = AnswerTo(r, ok, done, is)
<1> DEFINE a == AnswerTo(r, ok, done, is)
           S == {answers[i] : i \in DOMAIN answers}
           T == S \cup {a}
<1>1. Len(answers) \in Nat /\ DOMAIN answers = 1..Len(answers)
    BY Sequence DEF CallsOK, AreAnswers
<1>2. answers \in Seq(S)
    BY DEF CallsOK, AreAnswers
<1>3. answers' = Append(answers, a)
    BY DEF Reply
<1>4. IsAnswer(a)
    BY DEF IsAnswer, AnswerTo, AnswerFields
<1>6. S \subseteq T /\ a \in T
    OBVIOUS
<1> HIDE DEF a, S, T
<1>7. /\ answers' \in Seq(T) /\ Len(answers') = Len(answers) + 1
      /\ answers'[Len(answers) + 1] = a /\ \A i \in 1..Len(answers) : answers'[i] = answers[i]
    BY <1>1, <1>2, <1>3, <1>6
<1>8. DOMAIN answers' = 1..(Len(answers) + 1)
    BY <1>7
<1>9. AreAnswers(answers')
    <2>1. answers' \in Seq({answers'[i] : i \in DOMAIN answers'})
        BY <1>7, <1>8
    <2>2. \A i \in DOMAIN answers' : IsAnswer(answers'[i])
        BY <1>1, <1>4, <1>7, <1>8 DEF CallsOK, AreAnswers
    <2> QED BY <2>1, <2>2 DEF AreAnswers
<1>10. asked' = BagRemove(asked, r)
    BY DEF Reply
<1>11. a = AnswerTo(r, ok, done, is)
    BY DEF a
<1> QED BY <1>1, <1>7, <1>8, <1>9, <1>10, <1>11, RequestLeaves DEF CallsOK

\* What the server does with the table before it answers r, n threads having been
\* made by then and m afterwards.
ServesThreads(r, ok, is, old, new, n, m) ==
    \/ /\ new = old /\ m = n
       /\ ok => r.kind = "name" \/ (r.kind = "list" /\ is = old)
    \/ /\ r.kind = "create" /\ ok /\ m = n + 1
       /\ \E row \in Rows : /\ is = <<row>> /\ row.id = m /\ Ids(new) = {m} \cup Ids(old)
                            /\ ToSet(new) = {row} \cup ToSet(old)
    \/ /\ r.kind = "delete" /\ ok /\ m = n /\ Ids(new) = Ids(old) \ {r.id}
       /\ ToSet(new) = {row \in ToSet(old) : row.id # r.id}
    \/ /\ r.kind \in {"rename", "retitle"} /\ ok /\ m = n /\ Ids(new) = Ids(old)
       /\ \E row \in Rows : /\ is = <<row>> /\ row.id = r.id
                            /\ ToSet(new) = {row} \cup {old_row \in ToSet(old) : old_row.id # r.id}

\* was has become now by an answer to r.
Grown(was, now, n, r, ok, is) ==
    /\ n \notin DOMAIN was /\ DOMAIN now = DOMAIN was \cup {n}
    /\ \A j \in DOMAIN was : now[j] = was[j]
    /\ now[n].to = r /\ now[n].ok = ok /\ now[n].is = is

\* A list goes on becoming the table, by what is answered about it.
LEMMA FollowsAfterReply ==
    ASSUME NEW was, NEW now, NEW n, NEW r, NEW ok, NEW is, Grown(was, now, n, r, ok, is),
           NEW old, NEW new, NEW p, NEW q, ServesThreads(r, ok, is, old, new, p, q),
           NEW j, j < n
    PROVE  /\ \A list : (r.kind = "create" /\ ok => q \notin Ids(list)) /\ ThreadsFollow(old, was, list, j)
                            => ThreadsFollow(new, now, list, j)
           /\ \A gone, t : Accounted(old, was, gone, t, j) => Accounted(new, now, gone, t, j)
           /\ Doubtful(was, j) => Doubtful(now, j)
<1> SUFFICES ASSUME NEW list, r.kind = "create" /\ ok => q \notin Ids(list)
             PROVE  /\ ThreadsFollow(old, was, list, j) => ThreadsFollow(new, now, list, j)
                    /\ \A gone, t : Accounted(old, was, gone, t, j) => Accounted(new, now, gone, t, j)
                    /\ Doubtful(was, j) => Doubtful(now, j)
    <2>1. Ids(<<>>) = {}
        BY DEF Ids
    <2> QED BY <2>1
<1>1. /\ \A t : Created(was, j, t) => Created(now, j, t)
      /\ \A t : Deleted(was, j, t) => Deleted(now, j, t)
      /\ \A t : Retitled(was, j, t) => Retitled(now, j, t)
      /\ Doubtful(was, j) => Doubtful(now, j)
    BY DEF Grown, Created, Deleted, Retitled, Doubtful
<1>2. \A t : Created(now, j, t) => Created(was, j, t) \/ (r.kind = "create" /\ ok /\ is[1].id = t)
    BY DEF Grown, Created, Creates
<1>3. /\ \A t : r.kind = "create" /\ ok /\ is[1].id = t => Created(now, j, t)
      /\ r.kind = "delete" /\ ok => Deleted(now, j, r.id)
      /\ r.kind \in {"rename", "retitle"} /\ ok => Retitled(now, j, r.id)
    BY DEF Grown, Created, Deleted, Retitled, Creates, Deletes, Retitles
<1>4. CASE new = old /\ q = p /\ (ok => r.kind = "name" \/ (r.kind = "list" /\ is = old))
    <2>1. \A t : Created(now, j, t) => Created(was, j, t)
        BY <1>2, <1>4
    <2> QED BY <1>1, <1>4, <2>1 DEF ThreadsFollow, ThreadsLead, Accounted
<1>5. CASE r.kind = "create" /\ ok
    <2>1. PICK row \in Rows : /\ is = <<row>> /\ row.id = q /\ Ids(new) = {q} \cup Ids(old)
                              /\ ToSet(new) = {row} \cup ToSet(old)
        BY <1>5 DEF ServesThreads
    <2>2. is[1] = row /\ q \notin Ids(list)
        BY <1>5, <2>1
    <2>3. \A t \in Ids(list) : Created(now, j, t) => Created(was, j, t)
        BY <1>2, <2>1, <2>2
    <2>4. Created(now, j, q)
        BY <1>3, <1>5, <2>1, <2>2
    <2>5. \A m \in ToSet(new) : m.id \in Ids(list) => m \in ToSet(old)
        BY <2>1, <2>2
    <2> QED BY <1>1, <2>1, <2>3, <2>4, <2>5 DEF ThreadsFollow, ThreadsLead, Accounted
<1>6. CASE r.kind = "delete" /\ ok
    <2>1. Ids(new) = Ids(old) \ {r.id} /\ ToSet(new) = {row \in ToSet(old) : row.id # r.id}
        BY <1>6 DEF ServesThreads
    <2>2. \A t : Created(now, j, t) => Created(was, j, t)
        BY <1>2, <1>6
    <2> QED BY <1>1, <1>3, <1>6, <2>1, <2>2 DEF ThreadsFollow, ThreadsLead, Accounted
<1>7. CASE r.kind \in {"rename", "retitle"} /\ ok
    <2>1. /\ Ids(new) = Ids(old)
          /\ \E row \in Rows : /\ row.id = r.id
                               /\ ToSet(new) = {row} \cup {m \in ToSet(old) : m.id # r.id}
        BY <1>7 DEF ServesThreads
    <2>2. \A t : Created(now, j, t) => Created(was, j, t)
        BY <1>2, <1>7
    <2>3. \A m \in ToSet(new) : m \in ToSet(old) \/ Retitled(now, j, m.id)
        BY <1>3, <1>7, <2>1
    <2> QED BY <1>1, <2>1, <2>2, <2>3 DEF ThreadsFollow, ThreadsLead, Accounted
<1> QED BY <1>4, <1>5, <1>6, <1>7 DEF ServesThreads

LEMMA ThreadAfterReply ==
    ASSUME ThreadInv, NEW r \in DOMAIN asked, NEW ok \in BOOLEAN, NEW done \in BOOLEAN, NEW is,
           Reply(r, ok, done, is),
           UNCHANGED <<threads, current, view, creation, deleting, phase, behind, vanished>>,
           created' \in 0..MaxThreads, IsList(rows', created'),
           ThreadAnswerOK(AnswerTo(r, ok, done, is), created'),
           r.kind = "list" => is = rows \/ ~ok,
           ServesThreads(r, ok, is, rows, rows', created, created')
    PROVE  ThreadInv'
<1> DEFINE n == Len(answers) + 1
           a == AnswerTo(r, ok, done, is)
<1>1. /\ CallsOK' /\ DOMAIN asked' \subseteq DOMAIN asked
      /\ asked[r] = 1 => r \notin DOMAIN asked'
      /\ \A q \in DOMAIN asked : q # r => q \in DOMAIN asked' /\ asked'[q] = asked[q]
    BY ReplyAppends DEF ThreadInv, ThreadCallsOK
<1>2. /\ n \in Nat /\ n > 0 /\ n \notin DOMAIN answers /\ DOMAIN answers' = DOMAIN answers \cup {n}
      /\ \A i \in DOMAIN answers : i \in Nat /\ i < n /\ answers'[i] = answers[i] /\ i > 0
      /\ answers'[n] = a
    <2> DEFINE l == Len(answers)
    <2>1. /\ l \in Nat /\ DOMAIN answers = 1..l /\ DOMAIN answers' = 1..(l + 1)
          /\ \A i \in DOMAIN answers : answers'[i] = answers[i]
          /\ answers'[l + 1] = a
        BY ReplyAppends DEF ThreadInv, ThreadCallsOK
    <2> HIDE DEF l, a
    <2>2. /\ l + 1 \in Nat /\ l + 1 > 0 /\ 1..(l + 1) = 1..l \cup {l + 1} /\ l + 1 \notin 1..l
          /\ \A i \in 1..l : i \in Nat /\ i < l + 1 /\ i > 0
        BY <2>1
    <2>3. n = l + 1
        BY DEF l
    <2> HIDE DEF n
    <2> QED BY <2>1, <2>2, <2>3
<1>3. a.to = r /\ a.ok = ok /\ a.is = is /\ ~a.overtaken
    BY DEF AnswerTo
<1>4. Grown(answers, answers', n, r, ok, is)
    BY <1>2, <1>3 DEF Grown
<1> HIDE DEF n, a
<1>5. Requests' = Requests
    <2>1. ASSUME NEW q \in Requests PROVE q \in Requests'
        BY <1>1, <1>2, <1>3 DEF Requests
    <2>2. ASSUME NEW q \in Requests' PROVE q \in Requests
        BY <1>1, <1>2, <1>3 DEF Requests
    <2> QED BY <2>1, <2>2
<1>6. created \in Nat /\ created' \in Nat /\ created' >= created /\ 1..created \subseteq 1..created'
    <2>1. created \in Nat /\ created' \in Nat
        BY ListAssumption DEF ThreadInv, ListTypeOK
    <2>2. created' = created \/ created' = created + 1
        BY DEF ServesThreads
    <2> QED BY <2>1, <2>2
<1>7. /\ rows \in Seq(Rows) /\ rows' \in Seq(Rows) /\ DistinctIds(rows') /\ Ids(rows) \subseteq 1..created
      /\ Ids(threads) \subseteq 1..created
    BY DEF ThreadInv, ThreadTables, IsList
<1>8. \A q \in Requests : ThreadRequestOK(q, created)
    BY DEF ThreadInv, ThreadCallsOK, ThreadAnswerOK, Requests
<1>9. \A q \in Requests : q.kind \in {"delete", "name", "rename", "retitle"} => q.id \in 1..created
    BY <1>6, <1>8, ThreadRequests
<1>10. r \in Requests
    BY DEF Requests
<1>11. \A t : Known(t)' <=> Known(t)
    BY <1>5 DEF Known
<1>12. \A t : Known(t) => t \in 1..created
    BY <1>7, <1>9 DEF Known
<1>13. \A i \in DOMAIN answers : ThreadAnswerOK(answers[i], created')
    <2> SUFFICES ASSUME NEW i \in DOMAIN answers PROVE ThreadAnswerOK(answers[i], created')
        OBVIOUS
    <2>1. ThreadAnswerOK(answers[i], created)
        BY DEF ThreadInv, ThreadCallsOK
    <2>2. ThreadRequestOK(answers[i].to, created')
        BY <1>6, <2>1, ThreadRequests DEF ThreadAnswerOK
    <2>3. IsList(answers[i].is, created) => IsList(answers[i].is, created')
        BY <1>6 DEF IsList
    <2> QED BY <2>1, <2>2, <2>3 DEF ThreadAnswerOK
<1>14. ThreadCallsOK'
    <2>1. \A i \in DOMAIN answers' : ThreadAnswerOK(answers'[i], created')
        BY <1>2, <1>13 DEF a
    <2>2. \A q \in DOMAIN asked' : ThreadRequestOK(q, created')
        BY <1>1, <1>6, ThreadRequests DEF ThreadInv, ThreadCallsOK
    <2>3. ASSUME NEW Q, Sole(Q) PROVE Sole(Q)'
        BY <1>1, <1>2, <1>3, <2>3, SoleAfterReply
    <2>4. Sole({Creating})' /\ Sole(Deletions)' /\ (phase = "loading" => Sole({ListRequest})')
        BY <2>3 DEF ThreadInv, ThreadCallsOK
    <2>5. {Creating}' = {Creating} /\ Deletions' = Deletions /\ {ListRequest}' = {ListRequest}
        BY DEF Creating, Deletions, ListRequest, ThreadIds
    <2> QED BY <1>1, <2>1, <2>2, <2>4, <2>5 DEF ThreadCallsOK
<1>15. ThreadTables' /\ ListTypeOK'
    BY <1>6, <1>7 DEF ThreadInv, ListTypeOK, ThreadTables, IsList
<1>16. ThreadButtons'
    BY <1>5 DEF ThreadInv, ThreadButtons, Creating, ListRequest, ThreadIds
<1>17. /\ r.kind = "create" <=> r = Creating
       /\ r.kind = "delete" => r = Request("delete", r.id, Nothing)
    BY <1>6, <1>8, <1>10, ThreadRequests
<1>18. /\ Ids(rows') \subseteq Ids(rows) \cup {created + 1}
       /\ \A t \in Ids(rows) : t \in Ids(rows') \/ (r.kind = "delete" /\ r.id = t)
       /\ \A m \in ToSet(rows) : m \in ToSet(rows') \/ (r.kind \in {"delete", "rename", "retitle"} /\ r.id = m.id)
       /\ \A m \in ToSet(rows') : \/ m \in ToSet(rows) \/ m.id = created + 1
                                  \/ (r.kind \in {"rename", "retitle"} /\ ok /\ m.id = r.id)
       /\ r.kind = "delete" /\ ok => r.id \notin Ids(rows')
       /\ r.kind \in {"rename", "retitle"} /\ ok =>
            \A m \in ToSet(rows') : m.id = r.id => m = is[1]
       /\ r.kind = "create" /\ ok =>
            is[1] \in ToSet(rows') /\ is[1].id = created + 1 /\ is[1].id \in Ids(rows')
    BY <1>6 DEF ServesThreads
<1>19. CreationsOK'
    <2> SUFFICES ASSUME NEW k \in DOMAIN answers', Creates(answers'[k]), NEW row, row = answers'[k].is[1]
                 PROVE  /\ row.id \in Ids(rows')
                        /\ ~answers'[k].overtaken => row \in ToSet(rows') /\ ~Known(row.id)'
                        /\ Request("delete", row.id, Nothing) \notin Requests'
                        /\ \A i \in DOMAIN answers' :
                             answers'[i].to.kind = "list" /\ row.id \in Ids(answers'[i].is) => k < i
        BY DEF CreationsOK
    <2>1. CASE k \in DOMAIN answers
        <3>1. /\ row.id \in Ids(rows)
              /\ ~answers[k].overtaken => row \in ToSet(rows) /\ ~Known(row.id)
              /\ Request("delete", row.id, Nothing) \notin Requests
              /\ \A i \in DOMAIN answers :
                   answers[i].to.kind = "list" /\ row.id \in Ids(answers[i].is) => k < i
            BY <1>2, <2>1 DEF ThreadInv, CreationsOK
        <3>2. r.kind \in {"delete", "rename", "retitle"} /\ r.id = row.id => Known(row.id) /\ r.kind # "delete"
            BY <1>10, <1>17, <3>1 DEF Known
        <3> QED BY <1>2, <1>5, <1>11, <1>18, <2>1, <3>1, <3>2
    <2>2. CASE k = n
        <3>1. r.kind = "create" /\ ok /\ row = is[1]
            BY <1>2, <1>3, <2>2 DEF Creates
        <3>2. row \in ToSet(rows') /\ row.id = created + 1 /\ row.id \in Ids(rows')
            BY <1>18, <3>1
        <3>3. row.id \notin 1..created
            BY <1>6, <3>2
        <3>4. ~Known(row.id)
            BY <1>12, <3>3
        <3>5. Request("delete", row.id, Nothing) \notin Requests
            BY <3>4 DEF Known, Request
        <3>6. \A i \in DOMAIN answers : answers[i].to.kind = "list" => row.id \notin Ids(answers[i].is)
            BY <3>3 DEF ThreadInv, ThreadCallsOK, ThreadAnswerOK, IsList
        <3>7. \A i \in DOMAIN answers' : answers'[i].to.kind = "list" => row.id \notin Ids(answers'[i].is)
            BY <1>2, <1>3, <3>1, <3>6
        <3> QED BY <1>5, <1>11, <3>2, <3>4, <3>5, <3>7
    <2> QED BY <1>2, <2>1, <2>2
<1>20. ChangesOK'
    <2>1. ASSUME NEW k \in DOMAIN answers', Deletes(answers'[k])
          PROVE  answers'[k].to.id \notin Ids(rows')
        <3>1. CASE k = n
            BY <1>2, <1>3, <1>18, <2>1, <3>1 DEF Deletes
        <3>2. CASE k # n
            <4>1. k \in DOMAIN answers /\ answers'[k] = answers[k]
                BY <1>2, <3>2
            <4>2. answers[k].to.id \notin Ids(rows) /\ answers[k].to.id \in 1..created
                BY <1>9, <2>1, <4>1 DEF ThreadInv, ChangesOK, Deletes, Requests
            <4> QED BY <1>6, <1>18, <4>1, <4>2
        <3> QED BY <3>1, <3>2
    <2>2. ASSUME NEW k \in DOMAIN answers', Retitles(answers'[k]), ~answers'[k].overtaken,
                 NEW m \in ToSet(rows'), m.id = answers'[k].to.id
          PROVE  m = answers'[k].is[1] \/ Retitled(answers', k, m.id)
        <3>1. CASE k = n
            BY <1>2, <1>3, <1>18, <2>2, <3>1 DEF Retitles
        <3>2. CASE k # n
            <4>1. k \in DOMAIN answers /\ answers'[k] = answers[k] /\ k < n
                BY <1>2, <3>2
            <4>2. answers[k].to.id \in 1..created
                BY <1>9, <2>2, <4>1 DEF Retitles, Requests
            <4>3. CASE m \in ToSet(rows)
                <5>1. m = answers[k].is[1] \/ Retitled(answers, k, m.id)
                    BY <2>2, <4>1, <4>3 DEF ThreadInv, ChangesOK
                <5>2. Retitled(answers, k, m.id) => Retitled(answers', k, m.id)
                    BY <1>2 DEF Retitled
                <5> QED BY <4>1, <5>1, <5>2
            <4>4. CASE r.kind \in {"rename", "retitle"} /\ ok /\ m.id = r.id
                BY <1>2, <1>3, <4>1, <4>4 DEF Retitled, Retitles
            <4> QED BY <1>6, <1>18, <2>2, <4>1, <4>2, <4>3, <4>4
        <3> QED BY <3>1, <3>2
    <2> QED BY <2>1, <2>2 DEF ChangesOK
<1> DEFINE new == rows'
           q == created'
           was == answers
           now == answers'
<1>21. /\ new \in Seq(Rows) /\ ServesThreads(r, ok, is, rows, new, created, q)
       /\ Grown(was, now, n, r, ok, is)
    BY <1>4, <1>7
<1> HIDE DEF new, q, was, now
<1>22. ASSUME NEW j, j < n
       PROVE  /\ \A list : Ids(list) \subseteq 1..created /\ ThreadsFollow(rows, was, list, j)
                               => ThreadsFollow(new, now, list, j)
              /\ \A gone, t : Accounted(rows, was, gone, t, j) => Accounted(new, now, gone, t, j)
              /\ Doubtful(was, j) => Doubtful(now, j)
    <2>1. ASSUME NEW list, Ids(list) \subseteq 1..created PROVE r.kind = "create" /\ ok => q \notin Ids(list)
        <3>1. r.kind = "create" /\ ok => q = created + 1
            BY DEF ServesThreads, q
        <3> QED BY <1>6, <2>1, <3>1
    <2>2. /\ \A list : /\ r.kind = "create" /\ ok => q \notin Ids(list)
                      /\ ThreadsFollow(rows, was, list, j)
                      => ThreadsFollow(new, now, list, j)
          /\ \A gone, t : Accounted(rows, was, gone, t, j) => Accounted(new, now, gone, t, j)
          /\ Doubtful(was, j) => Doubtful(now, j)
        BY <1>21, <1>22, FollowsAfterReply
    <2> QED BY <2>1, <2>2
<1>23. ListsFollow'
    <2> SUFFICES ASSUME NEW j \in DOMAIN now, now[j].to.kind = "list", now[j].ok, ~now[j].overtaken
                 PROVE  /\ ThreadsFollow(new, now, now[j].is, j)
                        /\ \A t \in Ids(now[j].is) : Accounted(new, now, vanished', t, j)
        BY DEF ListsFollow, new, now
    <2>1. CASE j = n
        <3>1. now[j].is = rows /\ rows = new
            BY <1>2, <1>3, <2>1 DEF ServesThreads, now, new
        <3>2. \A t : ~Created(now, j, t)
            <4>1. \A k \in DOMAIN now : ~(k > j)
                BY <1>2, <2>1 DEF now
            <4> QED BY <4>1 DEF Created
        <3> QED BY <3>1, <3>2 DEF ThreadsFollow, ThreadsLead, Accounted
    <2>2. CASE j # n
        <3> DEFINE list == was[j].is
        <3>1. j \in DOMAIN was /\ now[j] = was[j] /\ j < n
            BY <1>2, <2>2 DEF was, now
        <3>2. /\ ThreadsFollow(rows, was, list, j)
              /\ \A t \in Ids(list) : Accounted(rows, was, vanished, t, j)
            BY <3>1 DEF ThreadInv, ListsFollow, was
        <3>3. Ids(list) \subseteq 1..created
            BY <3>1 DEF ThreadInv, ThreadCallsOK, ThreadAnswerOK, IsList, was
        <3> HIDE DEF list
        <3>4. /\ ThreadsFollow(new, now, list, j)
              /\ \A t \in Ids(list) : Accounted(new, now, vanished, t, j)
            BY <1>22, <3>1, <3>2, <3>3
        <3> QED BY <3>1, <3>4 DEF list
    <2> QED BY <2>1, <2>2
<1>24. ScreenFollows'
    <2>1. 0 < n
        BY <1>2
    <2>3. /\ Doubtful(was, 0) => Doubtful(now, 0)
          /\ ThreadsFollow(rows, was, threads, 0) => ThreadsFollow(new, now, threads, 0)
          /\ \A gone, t : Accounted(rows, was, gone, t, 0) => Accounted(new, now, gone, t, 0)
        BY <1>7, <1>22, <2>1
    <2>4. /\ ~behind => DistinctIds(threads) \/ Doubtful(was, 0)
          /\ ~behind => ThreadsFollow(rows, was, threads, 0)
          /\ \A t \in Ids(threads) : Accounted(rows, was, vanished, t, 0)
          /\ current # Nothing => Accounted(rows, was, vanished, current, 0)
        BY DEF ThreadInv, ScreenFollows, was
    <2>5. /\ ~behind => DistinctIds(threads) \/ Doubtful(now, 0)
          /\ ~behind => ThreadsFollow(new, now, threads, 0)
          /\ \A t \in Ids(threads) : Accounted(new, now, vanished, t, 0)
          /\ current # Nothing => Accounted(new, now, vanished, current, 0)
        BY <2>3, <2>4
    <2> QED BY <2>5 DEF ScreenFollows, new, now
<1> QED BY <1>14, <1>15, <1>16, <1>19, <1>20, <1>23, <1>24 DEF ThreadInv

-----------------------------------------------------------------------------
LEMMA ThreadServerStep ==
    ASSUME ThreadInv,
           \/ ServeList
           \/ \E r \in DOMAIN asked :
                \/ InsertThread(r) \/ ServeDelete(r) \/ ServeRename(r) \/ ServeName(r) \/ Refuse(r)
    PROVE  ThreadInv'
<1>1. /\ created \in Nat /\ created \in 0..MaxThreads /\ MaxThreads \in Nat
      /\ rows \in Seq(Rows) /\ DistinctIds(rows) /\ Ids(rows) \subseteq 1..created
    BY ListAssumption DEF ThreadInv, ListTypeOK, ThreadTables, IsList
<1>2. \A r \in DOMAIN asked : ThreadRequestOK(r, created)
    BY DEF ThreadInv, ThreadCallsOK
<1>3. ASSUME ServeList PROVE ThreadInv'
    <2> DEFINE r == ListRequest
    <2>1. PICK ok \in BOOLEAN : Reply(r, ok, TRUE, IF ok THEN rows ELSE <<>>)
        BY <1>3 DEF ServeList
    <2> DEFINE is == IF ok THEN rows ELSE <<>>
    <2>2. PICK done \in BOOLEAN : done = TRUE
        OBVIOUS
    <2>3. r \in DOMAIN asked /\ Reply(r, ok, done, is) /\ r.kind = "list" /\ UNCHANGED listVars
        BY <1>3, <2>1, <2>2 DEF ServeList, ListRequest, Request
    <2>4. IsList(is, created)
        <3>1. CASE ok
            BY <1>1, <3>1 DEF IsList
        <3>2. CASE ~ok
            <4>1. is = <<>>
                BY <3>2
            <4>2. <<>> \in Seq(Rows) /\ Ids(<<>>) \subseteq 1..created /\ DistinctIds(<<>>)
                BY DEF DistinctIds, Ids
            <4> HIDE DEF is
            <4> QED BY <4>1, <4>2 DEF IsList
        <3> QED BY <3>1, <3>2
    <2>5. is = rows \/ ~ok
        OBVIOUS
    <2> HIDE DEF r, is
    <2>6. UNCHANGED <<rows, created, threads, current, view, creation, deleting, phase, behind, vanished>>
        BY <2>3 DEF listVars
    <2>7. ServesThreads(r, ok, is, rows, rows', created, created')
        BY <2>3, <2>5, <2>6 DEF ServesThreads
    <2>8. ThreadAnswerOK(AnswerTo(r, ok, done, is), created')
        BY <1>2, <2>2, <2>3, <2>4, <2>6 DEF ThreadAnswerOK, AnswerTo, Creates, Retitles
    <2>9. created' \in 0..MaxThreads /\ IsList(rows', created')
        BY <1>1, <2>6 DEF IsList
    <2> QED BY <2>3, <2>5, <2>6, <2>7, <2>8, <2>9, ThreadAfterReply
<1>4. ASSUME NEW r \in DOMAIN asked, InsertThread(r) PROVE ThreadInv'
    <2> DEFINE row == [id |-> created', title |-> "Thread"]
               is == <<row>>
    <2>1. PICK ok \in BOOLEAN, done \in BOOLEAN : ok = TRUE /\ done = FALSE
        OBVIOUS
    <2>2. /\ r.kind = "create" /\ created < MaxThreads /\ created' = created + 1
          /\ rows' = <<row>> \o rows /\ Reply(r, ok, done, is)
          /\ UNCHANGED <<threads, current, view, creation, deleting, phase, behind, vanished>>
        BY <1>4, <2>1 DEF InsertThread
    <2>3. row.id = created' /\ is[1] = row /\ row \in Rows
        BY <1>1, <2>2 DEF Rows
    <2> HIDE DEF row
    <2>4. row.id \notin Ids(rows)
        BY <1>1, <2>2, <2>3
    <2>5. /\ rows' \in Seq(Rows) /\ ToSet(rows') = {row} \cup ToSet(rows)
          /\ Ids(rows') = {row.id} \cup Ids(rows) /\ DistinctIds(rows')
        BY <1>1, <2>2, <2>3, <2>4, RowInFront
    <2>6. created' \in 0..MaxThreads /\ IsList(rows', created')
        BY <1>1, <2>2, <2>3, <2>5 DEF IsList
    <2>7. ServesThreads(r, ok, is, rows, rows', created, created')
        BY <2>1, <2>2, <2>3, <2>5 DEF ServesThreads
    <2>8. ThreadRequestOK(r, created')
        BY <1>1, <1>2, <2>2, ThreadRequests
    <2>9. ThreadAnswerOK(AnswerTo(r, ok, done, is), created')
        BY <2>1, <2>2, <2>3, <2>8 DEF ThreadAnswerOK, AnswerTo, Creates, Retitles
    <2> HIDE DEF is
    <2> QED BY <2>2, <2>6, <2>7, <2>9, ThreadAfterReply
<1>5. ASSUME NEW r \in DOMAIN asked, ServeDelete(r) PROVE ThreadInv'
    <2>1. PICK ok \in BOOLEAN, done \in BOOLEAN : ok = TRUE /\ done = TRUE
        OBVIOUS
    <2> DEFINE is == <<>>
    <2>2. /\ r.kind = "delete" /\ r.id \in Ids(rows) /\ rows' = Without(rows, r.id)
          /\ Reply(r, ok, done, is)
          /\ UNCHANGED <<created, threads, current, view, creation, deleting, phase, behind, vanished>>
        BY <1>5, <2>1 DEF ServeDelete
    <2> HIDE DEF is
    <2>3. /\ rows' \in Seq(Rows) /\ ToSet(rows') = {m \in ToSet(rows) : m.id # r.id}
          /\ Ids(rows') = Ids(rows) \ {r.id} /\ DistinctIds(rows')
        <3> DEFINE w == rows'
                   id == r.id
        <3>1. w = Without(rows, id)
            BY <2>2
        <3> HIDE DEF w, id
        <3>2. /\ w \in Seq(Rows) /\ ToSet(w) = {m \in ToSet(rows) : m.id # id}
              /\ Ids(w) = Ids(rows) \ {id} /\ DistinctIds(w)
            BY <1>1, <3>1, WithoutRow
        <3> QED BY <3>2 DEF w, id
    <2>4. created' \in 0..MaxThreads /\ IsList(rows', created')
        BY <1>1, <2>2, <2>3 DEF IsList
    <2>5. ServesThreads(r, ok, is, rows, rows', created, created')
        BY <2>1, <2>2, <2>3 DEF ServesThreads
    <2>6. ThreadAnswerOK(AnswerTo(r, ok, done, is), created')
        BY <1>2, <2>1, <2>2 DEF ThreadAnswerOK, AnswerTo, Creates, Retitles
    <2> QED BY <2>2, <2>4, <2>5, <2>6, ThreadAfterReply
<1>6. ASSUME NEW r \in DOMAIN asked, ServeRename(r) PROVE ThreadInv'
    <2>1. PICK ok \in BOOLEAN, done \in BOOLEAN : ok = TRUE /\ done = TRUE
        OBVIOUS
    <2> DEFINE row == [id |-> r.id, title |-> r.arg]
               is == <<row>>
               left == Without(rows, r.id)
    <2>2. /\ r.kind \in {"rename", "retitle"} /\ r.id \in Ids(rows) /\ rows' = <<row>> \o left
          /\ Reply(r, ok, done, is)
          /\ UNCHANGED <<created, threads, current, view, creation, deleting, phase, behind, vanished>>
        BY <1>6, <2>1 DEF ServeRename
    <2>3. row.id = r.id /\ row.title = r.arg /\ is[1] = row /\ row \in Rows
        <3>1. r.id \in ThreadIds /\ r.arg \in {"given", "generated"}
            BY <1>1, <1>2, <2>2, RowsOfSeq, ThreadRequests
        <3> QED BY <3>1 DEF Rows, ThreadIds
    <2>4. left = Without(rows, row.id)
        BY <2>3
    <2>5. ThreadAnswerOK(AnswerTo(r, ok, done, is), created')
        BY <1>2, <2>1, <2>2 DEF ThreadAnswerOK, AnswerTo, Creates, Retitles
    <2> HIDE DEF row, left
    <2> DEFINE id == row.id
    <2>6. left = Without(rows, id)
        BY <2>4
    <2> HIDE DEF id
    <2>7. /\ left \in Seq(Rows) /\ ToSet(left) = {m \in ToSet(rows) : m.id # id}
          /\ Ids(left) = Ids(rows) \ {id} /\ DistinctIds(left)
        BY <1>1, <2>6, WithoutRow
    <2>8. row.id \notin Ids(left)
        BY <2>7 DEF id
    <2>9. /\ rows' \in Seq(Rows) /\ ToSet(rows') = {row} \cup ToSet(left)
          /\ Ids(rows') = {row.id} \cup Ids(left) /\ DistinctIds(rows')
        BY <2>2, <2>3, <2>7, <2>8, RowInFront
    <2>10. Ids(rows') = Ids(rows) /\ ToSet(rows') = {row} \cup {m \in ToSet(rows) : m.id # r.id}
        BY <2>2, <2>3, <2>7, <2>9 DEF id
    <2>11. created' \in 0..MaxThreads /\ IsList(rows', created')
        BY <1>1, <2>2, <2>9, <2>10 DEF IsList
    <2>12. ServesThreads(r, ok, is, rows, rows', created, created')
        BY <2>1, <2>2, <2>3, <2>10 DEF ServesThreads
    <2> HIDE DEF is
    <2> QED BY <2>2, <2>5, <2>11, <2>12, ThreadAfterReply
<1>7. ASSUME NEW r \in DOMAIN asked, ServeName(r) \/ Refuse(r) PROVE ThreadInv'
    <2>1. PICK ok \in BOOLEAN, done \in BOOLEAN : done = TRUE /\ (ok = TRUE <=> ServeName(r))
        OBVIOUS
    <2> DEFINE is == <<>>
    <2>2. /\ Reply(r, ok, done, is) /\ UNCHANGED listVars
          /\ ok => r.kind = "name"
          /\ r # ListRequest \/ r.kind = "name"
        BY <1>7, <2>1 DEF ServeName, Refuse
    <2>3. r.kind # "list"
        BY <1>1, <1>2, <2>2, ThreadRequests
    <2> HIDE DEF is
    <2>4. UNCHANGED <<rows, created, threads, current, view, creation, deleting, phase, behind, vanished>>
        BY <2>2 DEF listVars
    <2>5. ServesThreads(r, ok, is, rows, rows', created, created')
        BY <2>2, <2>4 DEF ServesThreads
    <2>6. ThreadAnswerOK(AnswerTo(r, ok, done, is), created')
        BY <1>2, <2>1, <2>2, <2>3, <2>4 DEF ThreadAnswerOK, AnswerTo, Creates, Retitles
    <2>7. created' \in 0..MaxThreads /\ IsList(rows', created')
        BY <1>1, <2>4 DEF IsList
    <2> QED BY <2>2, <2>3, <2>4, <2>5, <2>6, <2>7, ThreadAfterReply
<1> QED BY <1>3, <1>4, <1>5, <1>6, <1>7

-----------------------------------------------------------------------------
LEMMA FunctionIsSeq ==
    ASSUME NEW n \in Nat, NEW f, f = [j \in 1..n |-> f[j]]
    PROVE  f \in Seq({f[j] : j \in DOMAIN f}) /\ Len(f) = n
<1> DEFINE S == {f[j] : j \in DOMAIN f}
<1>1. DOMAIN f = 1..n /\ \A j \in 1..n : f[j] \in S
    OBVIOUS
<1> HIDE DEF S
<1>2. f \in [1..n -> S]
    BY <1>1
<1>3. f \in Seq(S) /\ Len(f) = n
    BY <1>2
<1> QED BY <1>3 DEF S

\* The server goes on with a creation it has begun: its answer changes in its place.
LEMMA AnswerChanges ==
    ASSUME ThreadInv, NEW i \in DOMAIN answers, ~answers[i].done,
           asked' = asked, DOMAIN answers' = DOMAIN answers,
           answers' \in Seq({answers'[j] : j \in DOMAIN answers'}),
           \A j \in DOMAIN answers : IsAnswer(answers'[j]),
           \A j \in DOMAIN answers : answers'[j].to = answers[j].to /\ answers'[j].is = answers[j].is,
           UNCHANGED <<created, threads, current, view, creation, deleting, phase, behind>>,
           \A j \in DOMAIN answers : ThreadAnswerOK(answers'[j], created),
           IsList(rows', created), vanished' \subseteq 1..MaxThreads
    PROVE  /\ Requests' = Requests /\ ThreadCallsOK' /\ ThreadTables' /\ ListTypeOK' /\ ThreadButtons'
           /\ Creates(answers[i]) /\ \A k \in DOMAIN answers : answers[k].to.kind = "create" => k = i
<1>1. Requests' = Requests
    BY DEF Requests
<1>2. CallsOK'
    <2>1. AreAnswers(answers')
        BY DEF AreAnswers
    <2> QED BY <2>1 DEF CallsOK, ThreadInv, ThreadCallsOK
<1>3. Sole({Creating})' /\ Sole(Deletions)' /\ (phase' = "loading" => Sole({ListRequest})')
    BY DEF ThreadInv, ThreadCallsOK, Sole, Creating, Deletions, ListRequest, ThreadIds
<1>4. ThreadCallsOK'
    BY <1>2, <1>3 DEF ThreadInv, ThreadCallsOK
<1>5. ThreadTables' /\ ListTypeOK'
    BY DEF ThreadInv, ListTypeOK, ThreadTables, IsList
<1>6. ThreadButtons'
    BY <1>1 DEF ThreadInv, ThreadButtons
<1>7. Creates(answers[i])
    BY DEF ThreadInv, ThreadCallsOK, ThreadAnswerOK
<1>8. \A k \in DOMAIN answers : answers[k].to.kind = "create" => k = i
    <2>1. created \in Nat /\ ThreadCallsOK
        BY ListAssumption DEF ThreadInv, ListTypeOK
    <2> QED BY <1>7, <2>1, OneCreation
<1> QED BY <1>1, <1>4, <1>5, <1>6, <1>7, <1>8

LEMMA ThreadCreationStep ==
    ASSUME ThreadInv, NEW i \in DOMAIN answers, ThreadReady(i) \/ SandboxFails(i)
    PROVE  ThreadInv'
<1> DEFINE was == answers
           now == answers'
<1>0. /\ Len(answers) \in Nat /\ DOMAIN answers = 1..Len(answers)
      /\ \A j \in DOMAIN answers : IsAnswer(answers[j])
      /\ \A j \in DOMAIN answers : ThreadAnswerOK(answers[j], created) /\ j > 0
    <2>1. CallsOK /\ \A j \in DOMAIN answers : ThreadAnswerOK(answers[j], created)
        BY DEF ThreadInv, ThreadCallsOK
    <2> QED BY <2>1, Sequence DEF CallsOK, AreAnswers
<1>1. CASE ThreadReady(i)
    <2>1. /\ ~answers[i].done /\ answers' = [answers EXCEPT ![i].done = TRUE]
          /\ UNCHANGED <<asked, rows, created, threads, current, view, creation, deleting, phase, behind, vanished>>
        BY <1>1 DEF ThreadReady, listVars
    <2>2. /\ DOMAIN now = DOMAIN was
          /\ \A j \in DOMAIN was : j # i => now[j] = was[j]
          /\ IsAnswer(now[i]) /\ now[i].to = was[i].to /\ now[i].ok = was[i].ok
          /\ now[i].is = was[i].is /\ now[i].overtaken = was[i].overtaken
          /\ now[i].done = TRUE
        BY <1>0, <2>1 DEF IsAnswer, AnswerFields
    <2>3. now \in Seq({now[j] : j \in DOMAIN now})
        <3> DEFINE n == Len(answers)
        <3>1. n \in Nat /\ now = [j \in 1..n |-> now[j]]
            BY <1>0, <2>1
        <3> HIDE DEF n, now
        <3> QED BY <3>1, FunctionIsSeq
    <2> HIDE DEF was, now
    <2>4. \A j \in DOMAIN was : /\ now[j].to = was[j].to /\ now[j].ok = was[j].ok
                               /\ now[j].is = was[j].is /\ now[j].overtaken = was[j].overtaken
                               /\ IsAnswer(now[j]) /\ ThreadAnswerOK(now[j], created)
        <3> SUFFICES ASSUME NEW j \in DOMAIN was
                     PROVE  /\ now[j].to = was[j].to /\ now[j].ok = was[j].ok
                            /\ now[j].is = was[j].is /\ now[j].overtaken = was[j].overtaken
                            /\ IsAnswer(now[j]) /\ ThreadAnswerOK(now[j], created)
            OBVIOUS
        <3>1. IsAnswer(was[j]) /\ ThreadAnswerOK(was[j], created)
            BY <1>0 DEF was
        <3>2. CASE j = i
            BY <2>2, <3>1, <3>2 DEF ThreadAnswerOK, Creates, Retitles
        <3>3. CASE j # i
            BY <2>2, <3>1, <3>3
        <3> QED BY <3>2, <3>3
    <2>5. DOMAIN now = DOMAIN was
        BY <2>2
    <2>6. /\ Requests' = Requests /\ ThreadCallsOK' /\ ThreadTables' /\ ListTypeOK' /\ ThreadButtons'
        <3>1. IsList(rows', created) /\ vanished' \subseteq 1..MaxThreads
            BY <2>1 DEF ThreadInv, ListTypeOK, ThreadTables
        <3> QED BY <2>1, <2>3, <2>4, <2>5, <3>1, AnswerChanges DEF was, now
    <2>7. CreationsOK'
        <3>1. \A t : Known(t)' <=> Known(t)
            BY <2>1, <2>6 DEF Known
        <3>2. \A k \in DOMAIN was : Creates(now[k]) <=> Creates(was[k])
            BY <2>4 DEF Creates
        <3>3. CreationsOK
            BY DEF ThreadInv
        <3> SUFFICES ASSUME NEW k \in DOMAIN now, Creates(now[k]), NEW row, row = now[k].is[1]
                     PROVE  /\ row.id \in Ids(rows')
                            /\ ~now[k].overtaken => row \in ToSet(rows') /\ ~Known(row.id)'
                            /\ Request("delete", row.id, Nothing) \notin Requests'
                            /\ \A j \in DOMAIN now :
                                 now[j].to.kind = "list" /\ row.id \in Ids(now[j].is) => k < j
            BY DEF CreationsOK, now
        <3>4. k \in DOMAIN was /\ Creates(was[k]) /\ row = was[k].is[1] /\ now[k].overtaken = was[k].overtaken
            BY <2>4, <2>5, <3>2
        <3>5. /\ row.id \in Ids(rows)
              /\ ~was[k].overtaken => row \in ToSet(rows) /\ ~Known(row.id)
              /\ Request("delete", row.id, Nothing) \notin Requests
              /\ \A j \in DOMAIN was :
                   was[j].to.kind = "list" /\ row.id \in Ids(was[j].is) => k < j
            BY <3>3, <3>4 DEF CreationsOK, was
        <3> QED BY <2>1, <2>4, <2>5, <2>6, <3>1, <3>4, <3>5
    <2>8. \A j : /\ \A t : Created(now, j, t) <=> Created(was, j, t)
                 /\ \A t : Deleted(now, j, t) <=> Deleted(was, j, t)
                 /\ \A t : Retitled(now, j, t) <=> Retitled(was, j, t)
                 /\ Doubtful(now, j) <=> Doubtful(was, j)
        <3>1. \A k \in DOMAIN was : Creates(now[k]) <=> Creates(was[k])
            BY <2>4 DEF Creates
        <3>2. \A k \in DOMAIN was : Deletes(now[k]) <=> Deletes(was[k])
            BY <2>4 DEF Deletes
        <3>3. \A k \in DOMAIN was : Retitles(now[k]) <=> Retitles(was[k])
            BY <2>4 DEF Retitles
        <3>4. \A j, t : Created(now, j, t) <=> Created(was, j, t)
            BY <2>4, <2>5, <3>1 DEF Created
        <3>5. \A j, t : Deleted(now, j, t) <=> Deleted(was, j, t)
            BY <2>4, <2>5, <3>2 DEF Deleted
        <3>6. \A j, t : Retitled(now, j, t) <=> Retitled(was, j, t)
            BY <2>4, <2>5, <3>3 DEF Retitled
        <3>7. \A j : Doubtful(now, j) <=> Doubtful(was, j)
            BY <2>4, <2>5, <3>3 DEF Doubtful
        <3> QED BY <3>4, <3>5, <3>6, <3>7
    <2>9. ChangesOK'
        <3> SUFFICES ASSUME NEW k \in DOMAIN now
                     PROVE  /\ Deletes(now[k]) => now[k].to.id \notin Ids(rows')
                            /\ Retitles(now[k]) /\ ~now[k].overtaken =>
                                 \A m \in ToSet(rows') :
                                    m.id = now[k].to.id => m = now[k].is[1] \/ Retitled(now, k, m.id)
            BY DEF ChangesOK, now
        <3>1. k \in DOMAIN was /\ rows' = rows
            BY <2>1, <2>5
        <3>2. /\ Deletes(was[k]) => was[k].to.id \notin Ids(rows)
              /\ Retitles(was[k]) /\ ~was[k].overtaken =>
                     \A m \in ToSet(rows) :
                        m.id = was[k].to.id => m = was[k].is[1] \/ Retitled(was, k, m.id)
            BY <3>1 DEF ThreadInv, ChangesOK, was
        <3> QED BY <2>4, <2>8, <3>1, <3>2 DEF Deletes, Retitles
    <2>10. \A table, list, j : ThreadsFollow(table, was, list, j) => ThreadsFollow(table, now, list, j)
        BY <2>8 DEF ThreadsFollow, ThreadsLead
    <2>11. \A table, gone, t, j : Accounted(table, was, gone, t, j) => Accounted(table, now, gone, t, j)
        BY <2>8 DEF Accounted
    <2>12. ListsFollow'
        <3>1. ListsFollow
            BY DEF ThreadInv
        <3> SUFFICES ASSUME NEW j \in DOMAIN now, now[j].to.kind = "list", now[j].ok, ~now[j].overtaken
                     PROVE  /\ ThreadsFollow(rows', now, now[j].is, j)
                            /\ \A t \in Ids(now[j].is) : Accounted(rows', now, vanished', t, j)
            BY DEF ListsFollow, now
        <3> DEFINE list == was[j].is
        <3>2. j \in DOMAIN was /\ now[j].is = list
            BY <2>4, <2>5
        <3>3. /\ ThreadsFollow(rows, was, list, j)
              /\ \A t \in Ids(list) : Accounted(rows, was, vanished, t, j)
            BY <2>4, <3>1, <3>2 DEF ListsFollow, was
        <3> HIDE DEF list
        <3> QED BY <2>1, <2>10, <2>11, <3>2, <3>3
    <2>13. ScreenFollows'
        <3>1. /\ ~behind => DistinctIds(threads) \/ Doubtful(was, 0)
              /\ ~behind => ThreadsFollow(rows, was, threads, 0)
              /\ \A t \in Ids(threads) : Accounted(rows, was, vanished, t, 0)
              /\ current # Nothing => Accounted(rows, was, vanished, current, 0)
            BY DEF ThreadInv, ScreenFollows, was
        <3>2. /\ ~behind => DistinctIds(threads) \/ Doubtful(now, 0)
              /\ ~behind => ThreadsFollow(rows, now, threads, 0)
              /\ \A t \in Ids(threads) : Accounted(rows, now, vanished, t, 0)
              /\ current # Nothing => Accounted(rows, now, vanished, current, 0)
            BY <2>8, <2>10, <2>11, <3>1
        <3>3. rows' = rows /\ threads' = threads /\ current' = current /\ behind' = behind /\ vanished' = vanished
            BY <2>1
        <3>4. /\ ~behind' => DistinctIds(threads') \/ Doubtful(now, 0)
              /\ ~behind' => ThreadsFollow(rows', now, threads', 0)
              /\ \A t \in Ids(threads') : Accounted(rows', now, vanished', t, 0)
              /\ current' # Nothing => Accounted(rows', now, vanished', current', 0)
            BY <3>2, <3>3
        <3> QED BY <3>4 DEF ScreenFollows, now
    <2> QED BY <2>6, <2>7, <2>9, <2>12, <2>13 DEF ThreadInv
<1>2. CASE SandboxFails(i)
    <2> DEFINE id == answers[i].is[1].id
    <2>1. /\ ~answers[i].done /\ rows' = Without(rows, id) /\ vanished' = vanished \cup {id}
          /\ answers' = [j \in DOMAIN answers |->
                            IF j = i THEN [answers[i] EXCEPT !.done = TRUE, !.ok = FALSE]
                            ELSE [answers[j] EXCEPT !.overtaken =
                                     @ \/ (answers[j].to = ListRequest /\ id \in Ids(answers[j].is))]]
          /\ UNCHANGED <<asked, created, threads, current, view, creation, deleting, phase, behind>>
        BY <1>2 DEF SandboxFails
    <2>2. Creates(answers[i]) /\ answers[i].to.kind = "create" /\ i > 0
        BY <1>0, <2>1 DEF ThreadAnswerOK, Creates
    <2>3. /\ id \in Ids(rows) /\ (~answers[i].overtaken => ~Known(id))
          /\ Request("delete", id, Nothing) \notin Requests
        BY <2>2 DEF ThreadInv, CreationsOK
    <2>4. id \in 1..created /\ id \in 1..MaxThreads
        BY <2>3, ListAssumption DEF ThreadInv, ThreadTables, IsList, ListTypeOK
    <2>5. /\ rows' \in Seq(Rows) /\ ToSet(rows') = {m \in ToSet(rows) : m.id # id}
          /\ Ids(rows') = Ids(rows) \ {id} /\ IsList(rows', created)
        <3> DEFINE w == rows'
        <3>1. w = Without(rows, id)
            BY <2>1
        <3>2. rows \in Seq(Rows) /\ DistinctIds(rows) /\ Ids(rows) \subseteq 1..created
            BY DEF ThreadInv, ThreadTables, IsList
        <3> HIDE DEF w, id
        <3>3. /\ w \in Seq(Rows) /\ ToSet(w) = {m \in ToSet(rows) : m.id # id}
              /\ Ids(w) = Ids(rows) \ {id} /\ DistinctIds(w)
            BY <3>1, <3>2, WithoutRow
        <3> QED BY <3>2, <3>3 DEF w, IsList
    <2> HIDE DEF id
    <2>6. DOMAIN now = DOMAIN was
        BY <2>1
    <2>7. ASSUME NEW j \in DOMAIN was
          PROVE  /\ now[j].to = was[j].to /\ now[j].is = was[j].is /\ IsAnswer(now[j])
                 /\ j # i => now[j].ok = was[j].ok /\ now[j].done = was[j].done
                 /\ was[j].overtaken => now[j].overtaken
                 /\ was[j].to # ListRequest => now[j].overtaken = was[j].overtaken
                 /\ was[j].to = ListRequest /\ ~now[j].overtaken =>
                      ~was[j].overtaken /\ id \notin Ids(was[j].is)
        <3> DEFINE meets == was[j].to = ListRequest /\ id \in Ids(was[j].is)
                   a == was[j]
        <3>1. IsAnswer(a)
            BY <1>0
        <3>2. was[j].to = ListRequest => j # i
            BY <2>2 DEF ListRequest, Request
        <3>3. CASE j = i
            <4>1. now[j] = [a EXCEPT !.done = TRUE, !.ok = FALSE]
                BY <2>1, <3>3
            <4> HIDE DEF a
            <4>2. /\ now[j].to = a.to /\ now[j].is = a.is /\ now[j].overtaken = a.overtaken
                  /\ DOMAIN now[j] = AnswerFields /\ now[j].ok = FALSE
                BY <3>1, <4>1 DEF IsAnswer, AnswerFields
            <4> HIDE DEF now
            <4>3. IsAnswer(now[j])
                BY <3>1, <4>2 DEF IsAnswer
            <4> QED BY <3>2, <3>3, <4>2, <4>3 DEF a
        <3>4. CASE j # i
            <4>1. now[j] = [a EXCEPT !.overtaken = a.overtaken \/ meets]
                BY <2>1, <3>4
            <4>2. meets \in BOOLEAN
                OBVIOUS
            <4> HIDE DEF a, meets
            <4>3. /\ now[j].to = a.to /\ now[j].is = a.is /\ now[j].ok = a.ok /\ now[j].done = a.done
                  /\ DOMAIN now[j] = AnswerFields /\ now[j].overtaken = (a.overtaken \/ meets)
                BY <3>1, <4>1 DEF IsAnswer, AnswerFields
            <4> HIDE DEF now
            <4>4. IsAnswer(now[j])
                BY <3>1, <4>3, <4>2 DEF IsAnswer
            <4>5. was[j].to # ListRequest => meets = FALSE
                BY DEF meets
            <4>6. /\ a.overtaken => now[j].overtaken
                  /\ meets = FALSE => now[j].overtaken = a.overtaken
                  /\ ~now[j].overtaken => ~a.overtaken /\ ~meets
                BY <3>1, <4>2, <4>3 DEF IsAnswer
            <4> QED BY <3>4, <4>3, <4>4, <4>5, <4>6 DEF a, meets
        <3> QED BY <3>3, <3>4
    <2>8. /\ now[i].done = TRUE /\ now[i].ok = FALSE /\ now[i].overtaken = was[i].overtaken
        BY <1>0, <2>1 DEF IsAnswer, AnswerFields
    <2>9. now \in Seq({now[j] : j \in DOMAIN now})
        <3> DEFINE n == Len(answers)
        <3>1. n \in Nat /\ now = [j \in 1..n |-> now[j]]
            BY <1>0, <2>1
        <3> HIDE DEF n, now
        <3> QED BY <3>1, FunctionIsSeq
    <2> HIDE DEF was, now
    <2>10. \A j \in DOMAIN was : IsAnswer(now[j]) /\ ThreadAnswerOK(now[j], created)
        <3> SUFFICES ASSUME NEW j \in DOMAIN was PROVE IsAnswer(now[j]) /\ ThreadAnswerOK(now[j], created)
            OBVIOUS
        <3>1. IsAnswer(was[j]) /\ ThreadAnswerOK(was[j], created)
            BY <1>0 DEF was
        <3>2. IsAnswer(now[j])
            BY <2>7 DEF IsAnswer
        <3>3. CASE j = i
            BY <2>7, <2>8, <3>1, <3>2, <3>3 DEF ThreadAnswerOK, Creates, Retitles
        <3>4. CASE j # i
            BY <2>7, <3>1, <3>2, <3>4 DEF ThreadAnswerOK, Creates, Retitles
        <3> QED BY <3>3, <3>4
    <2>11. /\ Requests' = Requests /\ ThreadCallsOK' /\ ThreadTables' /\ ListTypeOK' /\ ThreadButtons'
           /\ \A k \in DOMAIN was : was[k].to.kind = "create" => k = i
        <3>1. vanished' \subseteq 1..MaxThreads
            BY <2>1, <2>4 DEF ThreadInv, ListTypeOK
        <3> QED BY <2>1, <2>5, <2>6, <2>7, <2>9, <2>10, <3>1, AnswerChanges DEF was, now
    <2>12. \A k \in DOMAIN now : ~Creates(now[k])
        BY <2>6, <2>7, <2>8, <2>11 DEF Creates
    <2>13. CreationsOK'
        BY <2>12 DEF CreationsOK, now
    <2>14. \A k \in DOMAIN was : /\ Deletes(now[k]) <=> Deletes(was[k])
        BY <2>2, <2>7, <2>8 DEF Deletes, was
    <2>15. \A k \in DOMAIN was : Retitles(now[k]) <=> Retitles(was[k])
        BY <2>2, <2>7, <2>8 DEF Retitles, was
    <2>16. /\ \A j, t : ~Created(now, j, t)
           /\ \A j, t : Created(was, j, t) => t = id
           /\ \A j, t : Deleted(was, j, t) => Deleted(now, j, t)
           /\ \A j, t : Retitled(was, j, t) => Retitled(now, j, t)
        <3>1. \A j, t : ~Created(now, j, t)
            BY <2>12 DEF Created
        <3>2. \A j, t : Created(was, j, t) => t = id
            BY <2>11 DEF Created, Creates, id, was
        <3>3. \A j, t : Deleted(was, j, t) => Deleted(now, j, t)
            BY <2>6, <2>7, <2>14 DEF Deleted
        <3>4. \A j, t : Retitled(was, j, t) => Retitled(now, j, t)
            BY <2>6, <2>7, <2>15 DEF Retitled
        <3> QED BY <3>1, <3>2, <3>3, <3>4
    <2>17. \A j : Doubtful(was, j) => Doubtful(now, j)
        BY <2>6, <2>7, <2>15 DEF Doubtful
    <2>18. ChangesOK'
        <3> SUFFICES ASSUME NEW k \in DOMAIN now
                     PROVE  /\ Deletes(now[k]) => now[k].to.id \notin Ids(rows')
                            /\ Retitles(now[k]) /\ ~now[k].overtaken =>
                                 \A m \in ToSet(rows') :
                                    m.id = now[k].to.id => m = now[k].is[1] \/ Retitled(now, k, m.id)
            BY DEF ChangesOK, now
        <3>1. k \in DOMAIN was
            BY <2>6
        <3>2. /\ Deletes(was[k]) => was[k].to.id \notin Ids(rows)
              /\ Retitles(was[k]) /\ ~was[k].overtaken =>
                     \A m \in ToSet(rows) :
                        m.id = was[k].to.id => m = was[k].is[1] \/ Retitled(was, k, m.id)
            BY <3>1 DEF ThreadInv, ChangesOK, was
        <3>3. Deletes(now[k]) => now[k].to.id \notin Ids(rows')
            BY <2>5, <2>7, <2>14, <3>1, <3>2
        <3>4. ASSUME Retitles(now[k]), ~now[k].overtaken, NEW m \in ToSet(rows'), m.id = now[k].to.id
              PROVE  m = now[k].is[1] \/ Retitled(now, k, m.id)
            <4>1. m \in ToSet(rows) /\ m.id = was[k].to.id /\ Retitles(was[k]) /\ ~was[k].overtaken
                BY <2>5, <2>7, <2>15, <3>1, <3>4
            <4> QED BY <2>7, <2>16, <3>1, <3>2, <4>1
        <3> QED BY <3>3, <3>4
    <2>19. ASSUME NEW list, NEW j, ThreadsFollow(rows, was, list, j), id \notin Ids(list) \/ Doubtful(was, j)
           PROVE  ThreadsFollow(rows', now, list, j)
        <3>1. CASE Doubtful(was, j)
            BY <2>17, <3>1 DEF ThreadsFollow
        <3>2. CASE ThreadsLead(rows, was, list, j) /\ id \notin Ids(list)
            <4>1. \A t \in Ids(rows') : t \in Ids(list) \/ Created(now, j, t)
                BY <2>5, <2>16, <3>2 DEF ThreadsLead
            <4>2. \A t \in Ids(list) : ~Created(now, j, t) /\ (t \in Ids(rows') \/ Deleted(now, j, t))
                BY <2>5, <2>16, <3>2 DEF ThreadsLead
            <4>3. \A m \in ToSet(rows') : m.id \in Ids(list) => m \in ToSet(list) \/ Retitled(now, j, m.id)
                BY <2>5, <2>16, <3>2 DEF ThreadsLead
            <4> QED BY <4>1, <4>2, <4>3 DEF ThreadsFollow, ThreadsLead
        <3> QED BY <2>19, <3>1, <3>2 DEF ThreadsFollow
    <2>20. \A t, j : Accounted(rows, was, vanished, t, j) => Accounted(rows', now, vanished', t, j)
        BY <2>1, <2>5, <2>16 DEF Accounted
    <2>21. ListsFollow'
        <3>1. ListsFollow
            BY DEF ThreadInv
        <3> SUFFICES ASSUME NEW j \in DOMAIN now, now[j].to.kind = "list", now[j].ok, ~now[j].overtaken
                     PROVE  /\ ThreadsFollow(rows', now, now[j].is, j)
                            /\ \A t \in Ids(now[j].is) : Accounted(rows', now, vanished', t, j)
            BY DEF ListsFollow, now
        <3> DEFINE list == was[j].is
        <3>2. j \in DOMAIN was /\ now[j].is = list /\ was[j].to.kind = "list"
            BY <2>6, <2>7
        <3>3. was[j].to = ListRequest
            <4>1. ThreadAnswerOK(was[j], created)
                BY <1>0, <3>2 DEF was
            <4>2. ThreadRequestOK(was[j].to, created)
                BY <4>1 DEF ThreadAnswerOK
            <4>3. created \in Nat
                BY ListAssumption DEF ThreadInv, ListTypeOK
            <4> QED BY <3>2, <4>2, <4>3, ThreadRequests
        <3>4. j # i
            BY <2>2, <3>2 DEF was
        <3>5. was[j].ok /\ ~was[j].overtaken /\ id \notin Ids(list)
            BY <2>7, <3>2, <3>3, <3>4
        <3>6. /\ ThreadsFollow(rows, was, list, j)
              /\ \A t \in Ids(list) : Accounted(rows, was, vanished, t, j)
            BY <3>1, <3>2, <3>5 DEF ListsFollow, was
        <3> HIDE DEF list
        <3> QED BY <2>19, <2>20, <3>2, <3>5, <3>6
    <2>22. ScreenFollows'
        <3>1. /\ ~behind => DistinctIds(threads) \/ Doubtful(was, 0)
              /\ ~behind => ThreadsFollow(rows, was, threads, 0)
              /\ \A t \in Ids(threads) : Accounted(rows, was, vanished, t, 0)
              /\ current # Nothing => Accounted(rows, was, vanished, current, 0)
            BY DEF ThreadInv, ScreenFollows, was
        <3>2. id \in Ids(threads) => Doubtful(was, 0)
            BY <2>2, <2>3 DEF Known, Doubtful, was
        <3>3. /\ ~behind => DistinctIds(threads) \/ Doubtful(now, 0)
              /\ ~behind => ThreadsFollow(rows', now, threads, 0)
              /\ \A t \in Ids(threads) : Accounted(rows', now, vanished', t, 0)
              /\ current # Nothing => Accounted(rows', now, vanished', current, 0)
            BY <2>17, <2>19, <2>20, <3>1, <3>2
        <3>4. threads' = threads /\ current' = current /\ behind' = behind
            BY <2>1
        <3>5. /\ ~behind' => DistinctIds(threads') \/ Doubtful(now, 0)
              /\ ~behind' => ThreadsFollow(rows', now, threads', 0)
              /\ \A t \in Ids(threads') : Accounted(rows', now, vanished', t, 0)
              /\ current' # Nothing => Accounted(rows', now, vanished', current', 0)
            BY <3>3, <3>4
        <3> QED BY <3>5 DEF ScreenFollows, now
    <2> QED BY <2>11, <2>13, <2>18, <2>21, <2>22 DEF ThreadInv
<1> QED BY <1>1, <1>2

-----------------------------------------------------------------------------
\* The order of the answers stays when the i-th comes back.
LEMMA OrderStays ==
    ASSUME NEW was, NEW now, NEW i, CameBack(was, now, i)
    PROVE  /\ \A l \in DOMAIN now, k \in DOMAIN was \ {i} : k > Old(i, l) => New(i, k) > l
           /\ \A l \in DOMAIN now, k \in DOMAIN now : k > l <=> Old(i, k) > Old(i, l)
           /\ \A k \in DOMAIN was \ {i} : New(i, k) > 0 /\ Old(i, New(i, k)) = k
           /\ \A k \in DOMAIN now : k > 0 /\ Old(i, k) > 0 /\ k \in Nat
           /\ i > 0 /\ ~(i > i)
<1>1. Len(was) \in Nat /\ DOMAIN was = 1..Len(was) /\ DOMAIN now = 1..(Len(was) - 1) /\ i \in 1..Len(was)
    BY DEF CameBack
<1> QED BY <1>1 DEF New, Old

\* A list that was taken before other answers follows the rows when those come back.
LEMMA ListsFollowAfterReceipt ==
    ASSUME ListsFollow, NEW i \in DOMAIN answers, CameBack(answers, answers', i),
           rows' = rows, vanished \subseteq vanished'
    PROVE  ListsFollow'
<1> DEFINE was == answers
           now == answers'
<1>1. CameBack(was, now, i)
    OBVIOUS
<1>2. \A j \in DOMAIN was :
        was[j].to.kind = "list" /\ was[j].ok /\ ~was[j].overtaken =>
            /\ ThreadsFollow(rows, was, was[j].is, j)
            /\ \A t \in Ids(was[j].is) : Accounted(rows, was, vanished, t, j)
    BY DEF ListsFollow
<1> HIDE DEF was, now
<1> SUFFICES ASSUME NEW l \in DOMAIN now, now[l].to.kind = "list", now[l].ok, ~now[l].overtaken
             PROVE  /\ ThreadsFollow(rows, now, now[l].is, l)
                    /\ \A t \in Ids(now[l].is) : Accounted(rows, now, vanished', t, l)
    BY DEF ListsFollow, now
<1> DEFINE j == Old(i, l)
           list == was[j].is
<1>3. /\ j \in DOMAIN was /\ was[j].to.kind = "list" /\ was[j].ok /\ ~was[j].overtaken /\ now[l].is = list
      /\ j < i => was[i].to.kind \notin Changes
    BY <1>1 DEF CameBack, Says
<1>4. /\ \A k \in DOMAIN was \ {i} : k > j => New(i, k) > l
      /\ \A k \in DOMAIN now : k > l => Old(i, k) > j
      /\ i > j => j < i
    <2>1. Len(was) \in Nat /\ DOMAIN was = 1..Len(was) /\ i \in 1..Len(was)
        BY <1>1 DEF CameBack
    <2> QED BY <1>1, <1>3, <2>1, OrderStays
<1>5. i > j => /\ ~Creates(was[i]) /\ ~Deletes(was[i]) /\ ~Retitles(was[i])
               /\ was[i].overtaken => was[i].to.kind # "create"
    BY <1>3, <1>4 DEF Changes, Creates, Deletes, Retitles
<1>6. ThreadsFollow(rows, was, list, j) /\ \A t \in Ids(list) : Accounted(rows, was, vanished, t, j)
    BY <1>2, <1>3
<1> HIDE DEF j, list
<1>7. ThreadsFollow(rows, now, list, l)
    BY <1>1, <1>4, <1>5, <1>6, FollowsAfterReceipt
<1>8. \A t : Deleted(was, j, t) => Deleted(now, l, t)
    BY <1>1, <1>4, <1>5, TidingsStay
<1>9. \A t \in Ids(list) : Accounted(rows, now, vanished', t, l)
    BY <1>6, <1>8 DEF Accounted
<1> QED BY <1>3, <1>7, <1>9

LEMMA ChangesOKAfterReceipt ==
    ASSUME ChangesOK, NEW i \in DOMAIN answers, CameBack(answers, answers', i), rows' = rows
    PROVE  ChangesOK'
<1> DEFINE was == answers
           now == answers'
<1>1. CameBack(was, now, i)
    OBVIOUS
<1>2. \A k \in DOMAIN was :
        /\ Deletes(was[k]) => was[k].to.id \notin Ids(rows)
        /\ Retitles(was[k]) /\ ~was[k].overtaken =>
             \A m \in ToSet(rows) :
                m.id = was[k].to.id => m = was[k].is[1] \/ Retitled(was, k, m.id)
    BY DEF ChangesOK
<1> HIDE DEF was, now
<1> SUFFICES ASSUME NEW l \in DOMAIN now
             PROVE  /\ Deletes(now[l]) => now[l].to.id \notin Ids(rows)
                    /\ Retitles(now[l]) /\ ~now[l].overtaken =>
                         \A m \in ToSet(rows) :
                            m.id = now[l].to.id => m = now[l].is[1] \/ Retitled(now, l, m.id)
    BY DEF ChangesOK, now
<1> DEFINE j == Old(i, l)
<1>3. /\ j \in DOMAIN was /\ Says(now[l], was[j])
      /\ ~now[l].overtaken => ~was[j].overtaken /\ (j < i => was[i].to.kind \notin Changes)
    BY <1>1 DEF CameBack
<1>4. Deletes(now[l]) => now[l].to.id \notin Ids(rows)
    BY <1>2, <1>3 DEF Says, Deletes
<1>5. ASSUME Retitles(now[l]), ~now[l].overtaken, NEW m \in ToSet(rows), m.id = now[l].to.id
      PROVE  m = now[l].is[1] \/ Retitled(now, l, m.id)
    <2>1. Retitles(was[j]) /\ ~was[j].overtaken /\ now[l].is = was[j].is /\ m.id = was[j].to.id
        BY <1>3, <1>5 DEF Says, Retitles
    <2>2. m = was[j].is[1] \/ Retitled(was, j, m.id)
        BY <1>2, <1>3, <2>1
    <2>3. /\ \A k \in DOMAIN was \ {i} : k > j => New(i, k) > l
          /\ i > j => j < i
        <3>1. Len(was) \in Nat /\ DOMAIN was = 1..Len(was) /\ i \in 1..Len(was)
            BY <1>1 DEF CameBack
        <3> QED BY <1>1, <1>3, <3>1, OrderStays
    <2>4. i > j => ~Retitles(was[i])
        BY <1>3, <1>5, <2>3 DEF Changes, Retitles
    <2> HIDE DEF j
    <2>5. Retitled(was, j, m.id) => Retitled(now, l, m.id)
        BY <1>1, <2>3, <2>4, TidingsStay
    <2> QED BY <2>1, <2>2, <2>5
<1> QED BY <1>4, <1>5

LEMMA ThreadAfterReceipt ==
    ASSUME ThreadInv, NEW i \in DOMAIN answers, NEW rs, Received(i, rs),
           rows' = rows, created' = created, vanished \subseteq vanished',
           threads' \in Seq(Rows), Ids(threads') \subseteq 1..created,
           \A q \in rs : ThreadRequestOK(q, created) /\ q.kind \in {"create", "retitle"},
           \A p, q \in rs : p = q,
           Creating \in rs => Creating \notin Requests,
           phase' = "loading" => phase = "loading",
           \A k \in DOMAIN answers \ {i} : \A t :
                Creates(answers[k]) /\ t = answers[k].is[1].id /\ Known(t)' =>
                    Known(t) \/ (k < i /\ answers[i].to.kind = "list")
    PROVE  ThreadTables' /\ ThreadCallsOK' /\ CreationsOK' /\ ChangesOK' /\ ListsFollow'
<1> DEFINE was == answers
           now == answers'
<1>1. CameBack(was, now, i) /\ CallsOK' /\ Sent(rs)
    BY DEF Received
<1>2. Requests' = Others(i) \cup rs /\ Requests = Others(i) \cup {answers[i].to}
    BY RequestsAfterReceipt
<1>3. ThreadTables'
    BY DEF ThreadInv, ThreadTables
<1>4. ListsFollow' /\ ChangesOK'
    BY <1>1, ListsFollowAfterReceipt, ChangesOKAfterReceipt DEF ThreadInv
<1>5. ThreadCallsOK'
    <2>1. \A q \in DOMAIN asked' : ThreadRequestOK(q, created)
        BY <1>1 DEF Sent, ThreadInv, ThreadCallsOK
    <2>2. \A l \in DOMAIN answers' : ThreadAnswerOK(answers'[l], created)
        <3> SUFFICES ASSUME NEW l \in DOMAIN answers' PROVE ThreadAnswerOK(answers'[l], created)
            OBVIOUS
        <3>1. Old(i, l) \in DOMAIN answers /\ Says(answers'[l], answers[Old(i, l)])
            BY <1>1 DEF CameBack
        <3>2. ThreadAnswerOK(answers[Old(i, l)], created)
            BY <3>1 DEF ThreadInv, ThreadCallsOK
        <3> QED BY <3>1, <3>2 DEF ThreadAnswerOK, Says, Creates, Retitles
    <2>3. Acts(i, rs)
        <3>1. i # 0
            BY <1>1 DEF CameBack
        <3> QED BY <3>1 DEF Acts
    <2>4. ASSUME NEW Q, Sole(Q), Q \cap rs = {} \/ Q \cap Requests = {} PROVE Sole(Q)'
        BY <2>3, <2>4, SoleAfterAct
    <2>5. {Creating} \cap rs = {} \/ {Creating} \cap Requests = {}
        OBVIOUS
    <2>6. Deletions \cap rs = {}
        BY DEF Deletions, Request
    <2>7. {ListRequest} \cap rs = {}
        BY DEF ListRequest, Request
    <2>8. Sole({Creating})' /\ Sole(Deletions)' /\ (phase = "loading" => Sole({ListRequest})')
        BY <2>4, <2>5, <2>6, <2>7 DEF ThreadInv, ThreadCallsOK
    <2>9. {Creating}' = {Creating} /\ Deletions' = Deletions /\ {ListRequest}' = {ListRequest}
        BY DEF Creating, Deletions, ListRequest, ThreadIds
    <2> QED BY <1>1, <2>1, <2>2, <2>8, <2>9 DEF ThreadCallsOK
<1>6. CreationsOK'
    <2> HIDE DEF was, now
    <2> SUFFICES ASSUME NEW l \in DOMAIN now, Creates(now[l]), NEW row, row = now[l].is[1]
                 PROVE  /\ row.id \in Ids(rows)
                        /\ ~now[l].overtaken => row \in ToSet(rows) /\ ~Known(row.id)'
                        /\ Request("delete", row.id, Nothing) \notin Requests'
                        /\ \A m \in DOMAIN now :
                             now[m].to.kind = "list" /\ row.id \in Ids(now[m].is) => l < m
        BY DEF CreationsOK, now
    <2> DEFINE k == Old(i, l)
    <2>1. /\ k \in DOMAIN was \ {i} /\ Says(now[l], was[k])
          /\ ~now[l].overtaken => ~was[k].overtaken /\ (k < i => was[k].to.kind \notin Changes)
        BY <1>1 DEF CameBack
    <2>2. Creates(was[k]) /\ row = was[k].is[1] /\ was[k].to.kind \in Changes
        BY <2>1 DEF Says, Creates, Changes
    <2>3. /\ row.id \in Ids(rows)
          /\ ~was[k].overtaken => row \in ToSet(rows) /\ ~Known(row.id)
          /\ Request("delete", row.id, Nothing) \notin Requests
          /\ \A m \in DOMAIN was :
               was[m].to.kind = "list" /\ row.id \in Ids(was[m].is) => k < m
        BY <2>1, <2>2 DEF ThreadInv, CreationsOK, was
    <2>4. Known(row.id)' => Known(row.id) \/ (k < i /\ was[i].to.kind = "list")
        <3> DEFINE t == row.id
        <3>1. t = answers[k].is[1].id /\ k \in DOMAIN answers \ {i} /\ Creates(answers[k])
            BY <2>1, <2>2 DEF was
        <3> HIDE DEF t, k
        <3>2. Known(t)' => Known(t) \/ (k < i /\ answers[i].to.kind = "list")
            BY <3>1
        <3> QED BY <3>2 DEF t, was
    <2>5. Request("delete", row.id, Nothing) \notin Requests'
        BY <1>2, <2>3 DEF Request
    <2>6. ASSUME NEW m \in DOMAIN now, now[m].to.kind = "list", row.id \in Ids(now[m].is) PROVE l < m
        <3>1. Old(i, m) \in DOMAIN was /\ Says(now[m], was[Old(i, m)])
            BY <1>1 DEF CameBack
        <3>2. k < Old(i, m)
            BY <2>3, <2>6, <3>1 DEF Says
        <3>3. DOMAIN was = 1..Len(was) /\ Len(was) \in Nat /\ DOMAIN now = 1..(Len(was) - 1)
            BY <1>1 DEF CameBack
        <3>4. Old(i, m) > k
            BY <2>1, <3>1, <3>2, <3>3
        <3>5. m > l
            BY <1>1, <3>4, OrderStays
        <3> QED BY <3>3, <3>5
    <2> QED BY <2>1, <2>2, <2>3, <2>4, <2>5, <2>6
<1> QED BY <1>3, <1>4, <1>5, <1>6

-----------------------------------------------------------------------------
LEMMA ThreadFacts ==
    ASSUME ThreadInv
    PROVE  /\ created \in Nat /\ MaxThreads \in Nat /\ 1..created \subseteq ThreadIds
           /\ Nothing \notin ThreadIds /\ CallsOK
           /\ \A r \in Requests : ThreadRequestOK(r, created)
           /\ \A i \in DOMAIN answers : ThreadRequestOK(answers[i].to, created) /\ ThreadAnswerOK(answers[i], created)
<1>1. created \in 0..MaxThreads /\ ThreadCallsOK
    BY DEF ThreadInv, ListTypeOK
<1>2. MaxThreads \in Nat /\ Nothing \notin ThreadIds
    BY ListAssumption DEF ThreadIds
<1>3. \A i \in DOMAIN answers : ThreadRequestOK(answers[i].to, created) /\ ThreadAnswerOK(answers[i], created)
    BY <1>1 DEF ThreadCallsOK, ThreadAnswerOK
<1>4. \A r \in Requests : ThreadRequestOK(r, created)
    BY <1>1, <1>3 DEF ThreadCallsOK, Requests
<1>5. 1..created \subseteq ThreadIds /\ created \in Nat
    BY <1>1, <1>2 DEF ThreadIds
<1> QED BY <1>1, <1>2, <1>3, <1>4, <1>5 DEF ThreadCallsOK

LEMMA NothingElse ==
    ASSUME NEW Q, Sole(Q), NEW i \in DOMAIN answers, answers[i].to \in Q
    PROVE  Others(i) \cap Q = {}
BY DEF Sole, Others

LEMMA ButtonsAfterReceipt ==
    ASSUME ThreadInv, NEW i \in DOMAIN answers, NEW rs, Received(i, rs),
           \A q \in rs : q.kind \in {"create", "retitle"},
           creation' = "creating" <=> Creating \in rs \/ (creation = "creating" /\ answers[i].to # Creating),
           deleting' = IF answers[i].to.kind = "delete" THEN Nothing ELSE deleting,
           \/ phase' = "ready"
           \/ phase' = phase /\ Creating \notin rs
           \/ ListRequest \notin Others(i) /\ (phase' = "login" => creation' # "creating")
    PROVE  ThreadButtons'
<1>1. Requests' = Others(i) \cup rs /\ Requests = Others(i) \cup {answers[i].to}
    BY RequestsAfterReceipt
<1>2. /\ creation = "creating" <=> Creating \in Requests
      /\ \A t \in ThreadIds : deleting = t <=> Request("delete", t, Nothing) \in Requests
      /\ phase # "ready" /\ creation = "creating" => ListRequest \notin Requests
      /\ phase = "login" => creation # "creating" /\ ListRequest \notin Requests
    BY DEF ThreadInv, ThreadButtons
<1>3. ListRequest \notin rs /\ \A t : Request("delete", t, Nothing) \notin rs
    BY DEF ListRequest, Request
<1>4. answers[i].to = Creating => Creating \notin Others(i)
    BY NothingElse DEF ThreadInv, ThreadCallsOK
<1>5. creation' = "creating" <=> Creating \in Requests'
    BY <1>1, <1>2, <1>4
<1>6. ASSUME NEW t \in ThreadIds
      PROVE  deleting' = t <=> Request("delete", t, Nothing) \in Requests'
    <2>1. CASE answers[i].to.kind = "delete"
        <3>1. answers[i].to \in Deletions
            <4>1. created \in Nat /\ created \in 0..MaxThreads /\ MaxThreads \in Nat
                BY ListAssumption DEF ThreadInv, ListTypeOK
            <4>2. ThreadRequestOK(answers[i].to, created)
                BY DEF ThreadInv, ThreadCallsOK, ThreadAnswerOK
            <4>3. answers[i].to = Request("delete", answers[i].to.id, Nothing) /\ answers[i].to.id \in 1..created
                BY <2>1, <4>1, <4>2, ThreadRequests
            <4> QED BY <4>1, <4>3 DEF Deletions, ThreadIds
        <3>2. Others(i) \cap Deletions = {}
            BY <3>1, NothingElse DEF ThreadInv, ThreadCallsOK
        <3>3. Request("delete", t, Nothing) \notin Requests'
            BY <1>1, <1>3, <3>2 DEF Deletions
        <3>4. Nothing \notin ThreadIds
            BY ListAssumption DEF ThreadIds
        <3> QED BY <2>1, <3>3, <3>4
    <2>2. CASE answers[i].to.kind # "delete"
        <3>1. answers[i].to # Request("delete", t, Nothing)
            BY <2>2 DEF Request
        <3> QED BY <1>1, <1>2, <1>3, <2>2, <3>1
    <2> QED BY <2>1, <2>2
<1>7. phase' # "ready" /\ creation' = "creating" => ListRequest \notin Requests'
    BY <1>1, <1>2, <1>3
<1>8. phase' = "login" => creation' # "creating" /\ ListRequest \notin Requests'
    BY <1>1, <1>2, <1>3
<1> QED BY <1>5, <1>6, <1>7, <1>8 DEF ThreadButtons, Creating, ListRequest, ThreadIds

\* Nothing new is known when the list gets no new thread.
LEMMA KnownStays ==
    ASSUME ThreadInv, NEW i \in DOMAIN answers, NEW rs, Received(i, rs), Ids(threads') \subseteq Ids(threads),
           \A q \in rs : q.kind = "create" \/ (answers[i].to.kind = "name" /\ q.id = answers[i].to.id)
    PROVE  \A t : Known(t)' => Known(t)
<1>1. Requests' = Others(i) \cup rs /\ Requests = Others(i) \cup {answers[i].to}
    BY RequestsAfterReceipt
<1> SUFFICES ASSUME NEW t, Known(t)' PROVE Known(t)
    OBVIOUS
<1>2. CASE t \in Ids(threads')
    BY <1>2 DEF Known
<1>3. CASE \E q \in Requests' : q.kind \in {"delete", "name", "rename", "retitle"} /\ q.id = t
    BY <1>1, <1>3 DEF Known
<1> QED BY <1>2, <1>3 DEF Known

\* The list on the screen follows the rows when the answer is of no change, or none
\* that it is told of.
LEMMA ScreenStays ==
    ASSUME ScreenFollows, NEW i \in DOMAIN answers, CameBack(answers, answers', i),
           rows' = rows, threads' = threads, current' = current, vanished \subseteq vanished',
           ~behind' => /\ ~behind /\ ~Creates(answers[i]) /\ ~Deletes(answers[i]) /\ ~Retitles(answers[i])
                       /\ answers[i].overtaken => answers[i].to.kind # "create",
           Deletes(answers[i]) => answers[i].to.id \in vanished'
    PROVE  ScreenFollows'
<1> DEFINE was == answers
           now == answers'
           z == 0
<1>1. CameBack(was, now, i) /\ z = 0
    OBVIOUS
<1>2. /\ ~behind => DistinctIds(threads) \/ Doubtful(was, z)
      /\ ~behind => ThreadsFollow(rows, was, threads, z)
      /\ \A t \in Ids(threads) : Accounted(rows, was, vanished, t, z)
      /\ current # Nothing => Accounted(rows, was, vanished, current, z)
    BY DEF ScreenFollows
<1>3. /\ ~behind' => /\ ~behind /\ ~Creates(was[i]) /\ ~Deletes(was[i]) /\ ~Retitles(was[i])
                     /\ was[i].overtaken => was[i].to.kind # "create"
      /\ Deletes(was[i]) => was[i].to.id \in vanished'
    OBVIOUS
<1> HIDE DEF was, now
<1>4. /\ \A k \in DOMAIN was \ {i} : k > z => New(i, k) > z
      /\ \A k \in DOMAIN now : k > z => Old(i, k) > z
    BY <1>1, OrderStays
<1> HIDE DEF z
<1>5. ~behind' => ThreadsFollow(rows, now, threads, z)
    BY <1>1, <1>2, <1>3, <1>4, FollowsAfterReceipt
<1>6. ~behind' => DistinctIds(threads) \/ Doubtful(now, z)
    BY <1>1, <1>2, <1>3, <1>4, TidingsStay
<1>7. ASSUME NEW t, Accounted(rows, was, vanished, t, z) PROVE Accounted(rows, now, vanished', t, z)
    <2>1. Deleted(was, z, t) => Deleted(now, z, t) \/ t \in vanished'
        <3>1. Deletes(was[i]) => was[i].to.id # t \/ t \in vanished'
            BY <1>3
        <3> QED BY <1>1, <1>4, <3>1, TidingsStay
    <2> QED BY <1>7, <2>1 DEF Accounted
<1> QED BY <1>1, <1>2, <1>5, <1>6, <1>7 DEF ScreenFollows, now

\* An answer came that changed nothing on the screen.
LEMMA AnswerIsIgnored ==
    ASSUME ThreadInv, NEW i \in DOMAIN answers, NEW rs, Received(i, rs),
           UNCHANGED <<rows, created, threads, current>>, ListTypeOK', vanished \subseteq vanished',
           \A q \in rs : /\ q = Request("retitle", answers[i].to.id, "generated")
                         /\ answers[i].to.kind = "name",
           phase' = "loading" => phase = "loading",
           \/ phase' = "ready"
           \/ phase' = phase
           \/ ListRequest \notin Others(i) /\ (phase' = "login" => creation' # "creating"),
           creation' = "creating" <=> creation = "creating" /\ answers[i].to # Creating,
           deleting' = IF answers[i].to.kind = "delete" THEN Nothing ELSE deleting,
           ~behind' => /\ ~behind /\ ~Creates(answers[i]) /\ ~Deletes(answers[i]) /\ ~Retitles(answers[i])
                       /\ answers[i].overtaken => answers[i].to.kind # "create",
           Deletes(answers[i]) => answers[i].to.id \in vanished'
    PROVE  ThreadInv'
<1>1. \A q \in rs : ThreadRequestOK(q, created) /\ q.kind = "retitle" /\ q.id = answers[i].to.id /\ q # Creating
    <2> SUFFICES ASSUME NEW q \in rs
                 PROVE  ThreadRequestOK(q, created) /\ q.kind = "retitle" /\ q.id = answers[i].to.id /\ q # Creating
        OBVIOUS
    <2>1. created \in Nat /\ ThreadRequestOK(answers[i].to, created)
        BY ThreadFacts
    <2>2. answers[i].to.id \in 1..created
        BY <2>1, ThreadRequests
    <2> QED BY <2>2 DEF ThreadRequestOK, Request, Creating
<1>2. /\ Creating \notin rs /\ \A p, q \in rs : p = q
      /\ \A q \in rs : q.kind \in {"create", "retitle"}
    BY <1>1
<1>3. threads \in Seq(Rows) /\ Ids(threads) \subseteq 1..created
    BY DEF ThreadInv, ThreadTables
<1>4. \A t : Known(t)' => Known(t)
    BY <1>1, KnownStays
<1>5. ThreadTables' /\ ThreadCallsOK' /\ CreationsOK' /\ ChangesOK' /\ ListsFollow'
    BY <1>1, <1>2, <1>3, <1>4, ThreadAfterReceipt
<1>6. ThreadButtons'
    BY <1>2, ButtonsAfterReceipt
<1>7. ScreenFollows'
    BY ScreenStays DEF ThreadInv, Received
<1> QED BY <1>5, <1>6, <1>7 DEF ThreadInv

-----------------------------------------------------------------------------
\* The creation of a thread that is told in time is told after the i-th answer.
LEMMA CreationToldLater ==
    ASSUME NEW was, NEW now, NEW i, CameBack(was, now, i), ~Doubtful(now, 0)
    PROVE  \A t : Created(now, 0, t) => Created(was, i, t)
<1> SUFFICES ASSUME NEW t, Created(now, 0, t)
             PROVE  Created(was, i, t)
    OBVIOUS
<1>1. PICK k \in DOMAIN now : k > 0 /\ Creates(now[k]) /\ now[k].is[1].id = t
    BY DEF Created
<1> DEFINE m == Old(i, k)
<1>2. /\ m \in DOMAIN was \ {i} /\ Says(now[k], was[m])
      /\ ~now[k].overtaken /\ m < i => was[i].to.kind \notin Changes /\ was[m].to.kind \notin Changes
    BY OrderStays DEF CameBack
<1>3. ~now[k].overtaken
    BY <1>1 DEF Doubtful, Creates
<1>4. Len(was) \in Nat /\ DOMAIN was = 1..Len(was) /\ i \in 1..Len(was)
    BY DEF CameBack
<1> HIDE DEF m
<1>5. Creates(was[m]) /\ was[m].is[1].id = t
    BY <1>1, <1>2 DEF Says, Creates
<1>6. was[m].to.kind \in Changes
    BY <1>5 DEF Creates, Changes
<1>7. m > i
    BY <1>2, <1>3, <1>4, <1>6
<1> QED BY <1>2, <1>5, <1>7 DEF Created

LEMMA ListCameStep ==
    ASSUME ThreadInv, NEW i \in DOMAIN answers, ListCame(i)
    PROVE  ThreadInv'
<1> DEFINE list == answers[i].is
           first == phase = "loading"
           asks == first /\ list = <<>>
           rs == IF asks THEN {Creating} ELSE {}
           was == answers
           now == answers'
<1>1. /\ answers[i].to = ListRequest /\ answers[i].ok /\ threads' = list
      /\ behind' = answers[i].overtaken /\ UNCHANGED <<rows, created, deleting>>
      /\ vanished' = IF answers[i].overtaken THEN vanished \cup (Ids(list) \ Ids(rows)) ELSE vanished
      /\ IF current = Nothing /\ list # <<>> THEN current' = list[1].id /\ view' = "thread"
         ELSE UNCHANGED <<current, view>>
      /\ creation' = IF asks THEN "creating" ELSE creation
      /\ phase' = IF first /\ ~asks THEN "ready" ELSE phase
      /\ Receive(ListBound, i, rs)
    BY DEF ListCame, Creating
<1>2. answers[i].to.kind = "list" /\ answers[i].to # Creating
    BY <1>1 DEF ListRequest, Creating, Request
<1>3. /\ list \in Seq(Rows) /\ DistinctIds(list) /\ Ids(list) \subseteq 1..created
    BY <1>2, ThreadFacts DEF ThreadAnswerOK, IsList
<1>4. first => creation # "creating" /\ Sole({ListRequest})
    <2>1. ListRequest \in Requests
        BY <1>1 DEF Requests
    <2> QED BY <2>1 DEF ThreadInv, ThreadButtons, ThreadCallsOK
<1>5. first => Creating \notin Requests /\ ListRequest \notin Others(i)
    <2>1. first => {ListRequest} \cap Others(i) = {}
        BY <1>1, <1>4, NothingElse
    <2> QED BY <1>4, <2>1 DEF ThreadInv, ThreadButtons
<1>6. /\ \A q \in rs : q = Creating /\ ThreadRequestOK(q, created) /\ q.kind = "create"
      /\ \A p, q \in rs : p = q
      /\ Creating \in rs <=> asks
    BY DEF ThreadRequestOK, Creating, Request
<1>7. phase # "login"
    <2>1. ListRequest \in Requests
        BY <1>1 DEF Requests
    <2> QED BY <2>1 DEF ThreadInv, ThreadButtons
<1>8. Received(i, rs)
    <2> HIDE DEF rs
    <2> QED BY <1>1, ThreadFacts, ClientReceives
<1>9. ListTypeOK'
    <2>1. /\ Ids(list) \subseteq 1..MaxThreads
          /\ list # <<>> => list[1].id \in Ids(list)
        <3>1. 1..created \subseteq 1..MaxThreads
            BY ThreadFacts DEF ThreadIds
        <3>2. list # <<>> => 1 \in DOMAIN list
            BY <1>3
        <3> QED BY <1>3, <3>1, <3>2 DEF Ids
    <2>2. /\ rows' = rows /\ created' = created /\ deleting' = deleting /\ threads' \in Seq(Rows)
          /\ behind' \in BOOLEAN /\ vanished' \subseteq 1..MaxThreads
        <3>1. answers[i].overtaken \in BOOLEAN
            BY ThreadFacts DEF CallsOK, AreAnswers, IsAnswer
        <3> QED BY <1>1, <1>3, <2>1, <3>1 DEF ThreadInv, ListTypeOK
    <2>3. /\ current' \in 1..MaxThreads \cup {Nothing} /\ view' \in {"thread", "kanban", "skills"}
          /\ creation' \in {"idle", "creating", "failed"} /\ phase' \in {"loading", "login", "ready"}
        <3> HIDE DEF list
        <3> QED BY <1>1, <2>1 DEF ThreadInv, ListTypeOK
    <2> QED BY <2>2, <2>3 DEF ThreadInv, ListTypeOK
<1> HIDE DEF list, rs
<1>10. ThreadButtons'
    <2>1. creation' = "creating" <=> Creating \in rs \/ (creation = "creating" /\ answers[i].to # Creating)
        BY <1>1, <1>2, <1>4, <1>6
    <2>2. deleting' = IF answers[i].to.kind = "delete" THEN Nothing ELSE deleting
        BY <1>1, <1>2
    <2>3. \/ phase' = "ready"
          \/ phase' = phase /\ Creating \notin rs
          \/ ListRequest \notin Others(i) /\ (phase' = "login" => creation' # "creating")
        BY <1>1, <1>5, <1>6, <1>7
    <2>4. \A q \in rs : q.kind \in {"create", "retitle"}
        BY <1>6
    <2> QED BY <1>8, <2>1, <2>2, <2>3, <2>4, ButtonsAfterReceipt
<1>11. \A k \in DOMAIN answers \ {i} : \A t :
                Creates(answers[k]) /\ t = answers[k].is[1].id /\ Known(t)' =>
                    Known(t) \/ (k < i /\ answers[i].to.kind = "list")
    <2> SUFFICES ASSUME NEW k \in DOMAIN answers \ {i}, NEW t, Creates(answers[k]), t = answers[k].is[1].id,
                        Known(t)', ~Known(t)
                 PROVE  k < i
        BY <1>2
    <2>1. Requests' = Others(i) \cup rs /\ Requests = Others(i) \cup {answers[i].to}
        BY <1>8, RequestsAfterReceipt
    <2>2. t \in Ids(list)
        BY <1>1, <1>6, <2>1 DEF Known
    <2> QED BY <1>2, <2>2 DEF ThreadInv, CreationsOK, list
<1>12. ThreadTables' /\ ThreadCallsOK' /\ CreationsOK' /\ ChangesOK' /\ ListsFollow'
    <2>1. threads' \in Seq(Rows) /\ Ids(threads') \subseteq 1..created
        BY <1>1, <1>3
    <2>2. rows' = rows /\ created' = created /\ vanished \subseteq vanished' /\ (phase' = "loading" => phase = "loading")
        BY <1>1
    <2>3. Creating \in rs => Creating \notin Requests
        BY <1>5, <1>6
    <2>4. \A q \in rs : ThreadRequestOK(q, created) /\ q.kind \in {"create", "retitle"}
        BY <1>6
    <2> QED BY <1>6, <1>8, <1>11, <2>1, <2>2, <2>3, <2>4, ThreadAfterReceipt
<1>13. ScreenFollows'
    <2> DEFINE z == 0
    <2>1. CameBack(was, now, i) /\ z = 0
        BY <1>8 DEF Received
    <2>2. /\ ~(i > i) /\ i > z
          /\ \A k \in DOMAIN was \ {i} : k > i => New(i, k) > z
          /\ \A k \in DOMAIN was \ {i} : k > z => New(i, k) > z
        BY <2>1, OrderStays
    <2>3. ~Deletes(was[i]) /\ ~Creates(was[i]) /\ ~Retitles(was[i])
        BY <1>2 DEF Deletes, Creates, Retitles
    <2> HIDE DEF was, now
    <2>5. ~Doubtful(now, z) => \A t : Created(now, z, t) => Created(was, i, t)
        BY <2>1, CreationToldLater DEF z
    <2>6. /\ \A t : Created(was, i, t) => Created(now, z, t)
          /\ \A t : Deleted(was, i, t) => Deleted(now, z, t)
          /\ \A t : Retitled(was, i, t) => Retitled(now, z, t)
          /\ Doubtful(was, i) => Doubtful(now, z)
        BY <2>1, <2>2, TidingsStay
    <2>7. \A t : Deleted(was, z, t) => Deleted(now, z, t)
        BY <2>1, <2>2, <2>3, TidingsStay
    <2>8. ~behind' => ThreadsFollow(rows, was, list, i) /\ \A t \in Ids(list) : Accounted(rows, was, vanished, t, i)
        BY <1>1, <1>2 DEF ThreadInv, ListsFollow, was, list
    <2>9. ~behind' => ThreadsFollow(rows, now, list, z)
        <3> SUFFICES ASSUME ~behind', ~Doubtful(now, z) PROVE ThreadsLead(rows, now, list, z)
            BY DEF ThreadsFollow
        <3>1. ThreadsLead(rows, was, list, i)
            BY <2>6, <2>8 DEF ThreadsFollow
        <3> QED BY <2>5, <2>6, <3>1 DEF ThreadsLead
    <2>10. \A t \in Ids(list) : Accounted(rows, now, vanished', t, z)
        <3>1. CASE behind'
            BY <1>1, <3>1 DEF Accounted
        <3>2. CASE ~behind'
            BY <1>1, <2>6, <2>8, <3>2 DEF Accounted
        <3> QED BY <3>1, <3>2
    <2>11. current' # Nothing => Accounted(rows, now, vanished', current', z)
        <3>1. CASE current = Nothing /\ list # <<>>
            <4>1. current' = list[1].id /\ 1 \in DOMAIN list
                BY <1>1, <1>3, <3>1
            <4>2. current' \in Ids(list)
                BY <4>1 DEF Ids
            <4> QED BY <2>10, <4>2
        <3>2. CASE ~(current = Nothing /\ list # <<>>)
            <4>1. current' = current /\ vanished \subseteq vanished'
                BY <1>1, <3>2
            <4>2. current # Nothing => Accounted(rows, was, vanished, current, z)
                BY DEF ThreadInv, ScreenFollows, was, z
            <4> QED BY <2>7, <4>1, <4>2 DEF Accounted
        <3> QED BY <3>1, <3>2
    <2>12. /\ ~behind' => DistinctIds(threads') \/ Doubtful(now, z)
           /\ ~behind' => ThreadsFollow(rows', now, threads', z)
           /\ \A t \in Ids(threads') : Accounted(rows', now, vanished', t, z)
           /\ current' # Nothing => Accounted(rows', now, vanished', current', z)
        BY <1>1, <1>3, <2>9, <2>10, <2>11
    <2> QED BY <2>12 DEF ScreenFollows, now
<1> QED BY <1>9, <1>10, <1>12, <1>13 DEF ThreadInv

\* A list that failed, a change that failed or whose answer was lost, a name.
LEMMA IgnoredAnswerStep ==
    ASSUME ThreadInv, NEW i \in DOMAIN answers,
           \/ ListFailed(i) \/ CreateFailed(i) \/ DeleteFailed(i) \/ RenameFailed(i)
           \/ NameCame(i) \/ NameFailed(i)
    PROVE  ThreadInv'
<1>1. /\ CallsOK /\ ThreadRequestOK(answers[i].to, created) /\ created \in Nat /\ Nothing \notin ThreadIds
      /\ answers[i].ok \in BOOLEAN /\ answers[i].overtaken \in BOOLEAN /\ answers[i].to \in Requests
      /\ 1..created \subseteq ThreadIds
    BY ThreadFacts DEF CallsOK, AreAnswers, IsAnswer, Requests
<1>2. /\ answers[i].to.kind = "list" <=> answers[i].to = ListRequest
      /\ answers[i].to.kind = "create" <=> answers[i].to = Creating
      /\ answers[i].to.kind = "delete" => answers[i].to.id \in 1..created
    BY <1>1, ThreadRequests
<1>3. ListTypeOK /\ behind \in BOOLEAN
    BY DEF ThreadInv, ListTypeOK
<1>4. ASSUME NEW rs, Received(i, rs), UNCHANGED <<rows, created, threads, current, view>>,
             creation' \in {creation, "failed"}, deleting' \in {deleting, Nothing},
             phase' \in {phase, "ready", "login"}, behind' \in BOOLEAN,
             vanished' \in {vanished, vanished \cup {answers[i].to.id}},
             vanished' = vanished \/ answers[i].to.kind = "delete"
      PROVE  ListTypeOK' /\ vanished \subseteq vanished'
    <2>1. answers[i].to.kind = "delete" => answers[i].to.id \in 1..MaxThreads
        BY <1>1, <1>2 DEF ThreadIds
    <2> QED BY <1>3, <1>4, <2>1 DEF ListTypeOK
<1>5. CASE ListFailed(i)
    <2>1. /\ ~answers[i].ok /\ answers[i].to = ListRequest /\ Receive(ListBound, i, {})
          /\ phase' \in IF phase = "loading" THEN {"ready", "login"} ELSE {phase}
          /\ UNCHANGED <<rows, created, threads, current, view, creation, deleting, behind, vanished>>
        BY <1>5 DEF ListFailed
    <2>2. Received(i, {}) /\ answers[i].to.kind = "list"
        BY <1>1, <1>2, <2>1, ClientReceives
    <2>3. phase = "loading" => ListRequest \notin Others(i) /\ creation # "creating"
        <3>1. phase = "loading" => {ListRequest} \cap Others(i) = {}
            BY <2>1, NothingElse DEF ThreadInv, ThreadCallsOK
        <3>2. phase = "loading" => creation # "creating"
            BY <1>1, <2>1 DEF ThreadInv, ThreadButtons
        <3> QED BY <3>1, <3>2
    <2>4. ~Creates(answers[i]) /\ ~Deletes(answers[i]) /\ ~Retitles(answers[i])
        BY <2>1 DEF Creates, Deletes, Retitles
    <2>5. ListTypeOK' /\ vanished \subseteq vanished'
        BY <1>3, <1>4, <2>1, <2>2
    <2>6. answers[i].to # Creating
        BY <1>2, <2>2
    <2>7. /\ phase' = "loading" => phase = "loading"
          /\ \/ phase' = "ready"
             \/ phase' = phase
             \/ ListRequest \notin Others(i) /\ (phase' = "login" => creation' # "creating")
        BY <2>1, <2>3
    <2> QED BY <2>1, <2>2, <2>4, <2>5, <2>6, <2>7, AnswerIsIgnored
<1>6. CASE CreateFailed(i)
    <2>1. /\ answers[i].to.kind = "create" /\ Receive(ListBound, i, {})
          /\ creation' = "failed" /\ phase' \in {"ready", "login"}
          /\ phase' = "login" => phase = "loading"
          /\ behind' = (behind \/ answers[i].ok \/ answers[i].overtaken)
          /\ UNCHANGED <<rows, created, threads, current, view, deleting, vanished>>
        BY <1>6 DEF CreateFailed
    <2>2. Received(i, {}) /\ answers[i].to = Creating
        BY <1>1, <1>2, <2>1, ClientReceives
    <2>3. ~Deletes(answers[i]) /\ ~Retitles(answers[i])
        BY <2>1 DEF Deletes, Retitles
    <2>4. ~behind' => ~behind /\ ~Creates(answers[i]) /\ ~answers[i].overtaken
        BY <2>1 DEF Creates
    <2>5. ListTypeOK' /\ vanished \subseteq vanished'
        BY <1>1, <1>3, <1>4, <2>1, <2>2
    <2>6. phase = "loading" => ListRequest \notin Others(i)
        <3>1. creation = "creating"
            BY <1>1, <2>2 DEF ThreadInv, ThreadButtons
        <3>2. phase = "loading" => ListRequest \notin Requests
            BY <3>1 DEF ThreadInv, ThreadButtons
        <3>3. Requests = Others(i) \cup {answers[i].to}
            BY <2>2, RequestsAfterReceipt DEF ThreadInv
        <3> QED BY <3>2, <3>3
    <2>7. /\ phase' # "loading"
          /\ \/ phase' = "ready"
             \/ ListRequest \notin Others(i) /\ (phase' = "login" => creation' # "creating")
        BY <2>1, <2>6
    <2> QED BY <1>1, <2>1, <2>2, <2>3, <2>4, <2>5, <2>7, AnswerIsIgnored
<1>7. CASE DeleteFailed(i)
    <2>1. /\ answers[i].to.kind = "delete" /\ Receive(ListBound, i, {})
          /\ deleting' = Nothing /\ behind' = (behind \/ answers[i].ok)
          /\ vanished' = IF answers[i].ok THEN vanished \cup {answers[i].to.id} ELSE vanished
          /\ UNCHANGED <<rows, created, threads, current, view, creation, phase>>
        BY <1>7 DEF DeleteFailed
    <2>2. Received(i, {}) /\ answers[i].to # Creating
        BY <1>1, <1>2, <2>1, ClientReceives
    <2>3. ~Creates(answers[i]) /\ ~Retitles(answers[i])
        BY <2>1 DEF Creates, Retitles
    <2>4. /\ ~behind' => ~behind /\ ~Deletes(answers[i])
          /\ Deletes(answers[i]) => answers[i].to.id \in vanished'
        BY <2>1 DEF Deletes
    <2>5. ListTypeOK' /\ vanished \subseteq vanished'
        BY <1>1, <1>3, <1>4, <2>1, <2>2
    <2> QED BY <2>1, <2>2, <2>3, <2>4, <2>5, AnswerIsIgnored
<1>8. CASE RenameFailed(i)
    <2>1. /\ answers[i].to.kind \in {"rename", "retitle"} /\ Receive(ListBound, i, {})
          /\ behind' = (behind \/ answers[i].ok)
          /\ UNCHANGED <<rows, created, threads, current, view, creation, deleting, phase, vanished>>
        BY <1>8 DEF RenameFailed
    <2>2. Received(i, {}) /\ answers[i].to # Creating
        BY <1>1, <1>2, <2>1, ClientReceives
    <2>3. ~Creates(answers[i]) /\ ~Deletes(answers[i])
        BY <2>1 DEF Creates, Deletes
    <2>4. ~behind' => ~behind /\ ~Retitles(answers[i])
        BY <2>1 DEF Retitles
    <2>5. ListTypeOK' /\ vanished \subseteq vanished'
        BY <1>1, <1>3, <1>4, <2>1, <2>2
    <2> QED BY <2>1, <2>2, <2>3, <2>4, <2>5, AnswerIsIgnored
<1>9. CASE NameCame(i) \/ NameFailed(i)
    <2> DEFINE asks == NameCame(i)
               rs == IF asks THEN {Request("retitle", answers[i].to.id, "generated")} ELSE {}
    <2>1. /\ answers[i].to.kind = "name" /\ Receive(ListBound, i, rs)
          /\ UNCHANGED <<rows, created, threads, current, view, creation, deleting, behind, phase, vanished>>
        BY <1>9 DEF NameCame, NameFailed, listVars
    <2>2. \A q \in rs : /\ q = Request("retitle", answers[i].to.id, "generated")
                        /\ answers[i].to.kind = "name"
        BY <2>1
    <2> HIDE DEF rs
    <2>3. Received(i, rs) /\ answers[i].to # Creating
        BY <1>1, <1>2, <2>1, ClientReceives
    <2>4. ~Creates(answers[i]) /\ ~Deletes(answers[i]) /\ ~Retitles(answers[i])
        BY <2>1 DEF Creates, Deletes, Retitles
    <2>5. ListTypeOK' /\ vanished \subseteq vanished'
        BY <1>3, <1>4, <2>1, <2>3
    <2> QED BY <2>1, <2>2, <2>3, <2>4, <2>5, AnswerIsIgnored
<1> QED BY <1>5, <1>6, <1>7, <1>8, <1>9

\* What the answers that are left say to the screen, when the i-th has come.
LEMMA TidingsAfterReceipt ==
    ASSUME NEW was, NEW now, NEW i, CameBack(was, now, i)
    PROVE  /\ \A t : Created(now, 0, t) => Created(was, 0, t)
           /\ \A t : Created(was, 0, t) /\ (Creates(was[i]) => was[i].is[1].id # t) => Created(now, 0, t)
           /\ \A t : Deleted(was, 0, t) /\ (Deletes(was[i]) => was[i].to.id # t) => Deleted(now, 0, t)
           /\ \A t : Retitled(was, 0, t) /\ (Retitles(was[i]) => was[i].to.id # t) => Retitled(now, 0, t)
           /\ \A t : Retitled(was, i, t) => Retitled(now, 0, t)
           /\ Doubtful(was, 0) /\ (was[i].overtaken => Deletes(was[i])) => Doubtful(now, 0)
<1> DEFINE z == 0
<1>1. /\ \A k \in DOMAIN was \ {i} : k > z => New(i, k) > z
      /\ \A k \in DOMAIN was \ {i} : k > i => New(i, k) > z
      /\ \A k \in DOMAIN now : k > z => Old(i, k) > z
      /\ ~(i > i)
    BY OrderStays
<1> HIDE DEF z
<1>2. \A t : Created(now, z, t) => Created(was, z, t)
    BY <1>1, NothingNewToTell
<1>3. /\ \A t : Created(was, z, t) /\ (Creates(was[i]) => was[i].is[1].id # t) => Created(now, z, t)
      /\ \A t : Deleted(was, z, t) /\ (Deletes(was[i]) => was[i].to.id # t) => Deleted(now, z, t)
      /\ \A t : Retitled(was, z, t) /\ (Retitles(was[i]) => was[i].to.id # t) => Retitled(now, z, t)
      /\ Doubtful(was, z) /\ (was[i].overtaken => was[i].to.kind # "create" /\ ~Retitles(was[i]))
            => Doubtful(now, z)
    BY <1>1, TidingsStay
<1>4. \A t : Retitled(was, i, t) => Retitled(now, z, t)
    BY <1>1, TidingsStay
<1>5. Deletes(was[i]) => was[i].to.kind # "create" /\ ~Retitles(was[i])
    BY DEF Deletes, Retitles
<1> QED BY <1>2, <1>3, <1>4, <1>5 DEF z

LEMMA CreateCameStep ==
    ASSUME ThreadInv, NEW i \in DOMAIN answers, CreateCame(i)
    PROVE  ThreadInv'
<1> DEFINE row == answers[i].is[1]
           was == answers
           now == answers'
<1>1. /\ Creates(answers[i]) /\ threads' = answers[i].is \o threads /\ current' = row.id
      /\ view' = "thread" /\ creation' = "idle" /\ phase' = "ready"
      /\ behind' = (behind \/ answers[i].overtaken) /\ Receive(ListBound, i, {})
      /\ UNCHANGED <<rows, created, deleting, vanished>>
    BY DEF CreateCame, Creates
<1>2. /\ CallsOK /\ created \in Nat /\ 1..created \subseteq ThreadIds /\ ThreadAnswerOK(answers[i], created)
      /\ ThreadCallsOK /\ answers[i].overtaken \in BOOLEAN
    BY ThreadFacts DEF ThreadInv, CallsOK, AreAnswers, IsAnswer
<1>3. Received(i, {})
    BY <1>1, <1>2, ClientReceives
<1>4. row \in Rows /\ answers[i].is = <<row>>
    BY <1>1, <1>2 DEF ThreadAnswerOK
<1>5. answers[i].to = Creating /\ \A k \in DOMAIN answers : answers[k].to.kind = "create" => k = i
    BY <1>1, <1>2, OneCreation
<1>6. /\ row.id \in Ids(rows)
      /\ ~answers[i].overtaken => row \in ToSet(rows) /\ ~Known(row.id)
    BY <1>1 DEF ThreadInv, CreationsOK
<1> HIDE DEF row
<1>7. /\ rows \in Seq(Rows) /\ threads \in Seq(Rows) /\ DistinctIds(rows)
      /\ Ids(rows) \subseteq 1..created /\ Ids(threads) \subseteq 1..created
    BY DEF ThreadInv, ThreadTables, IsList
<1>8. /\ threads' \in Seq(Rows) /\ ToSet(threads') = {row} \cup ToSet(threads)
      /\ Ids(threads') = {row.id} \cup Ids(threads)
      /\ DistinctIds(threads) /\ row.id \notin Ids(threads) => DistinctIds(threads')
    <2> DEFINE w == threads'
    <2>1. w = <<row>> \o threads
        BY <1>1, <1>4
    <2> HIDE DEF w
    <2>2. /\ w \in Seq(Rows) /\ ToSet(w) = {row} \cup ToSet(threads)
          /\ Ids(w) = {row.id} \cup Ids(threads)
          /\ DistinctIds(threads) /\ row.id \notin Ids(threads) => DistinctIds(w)
        BY <1>4, <1>7, <2>1, RowInFront
    <2> QED BY <2>2 DEF w
<1>9. ListTypeOK'
    <2>1. row.id \in 1..MaxThreads
        BY <1>4 DEF Rows
    <2>2. ListTypeOK
        BY DEF ThreadInv
    <2> QED BY <1>1, <1>2, <1>8, <2>1, <2>2 DEF ListTypeOK
<1>10. ThreadButtons'
    BY <1>1, <1>3, <1>5, ButtonsAfterReceipt DEF Creating, Request
<1>11. ThreadTables' /\ ThreadCallsOK' /\ CreationsOK' /\ ChangesOK' /\ ListsFollow'
    <2>1. \A k \in DOMAIN answers \ {i} : ~Creates(answers[k])
        BY <1>5 DEF Creates
    <2>2. Ids(threads') \subseteq 1..created
        BY <1>6, <1>7, <1>8
    <2> QED BY <1>1, <1>3, <1>8, <2>1, <2>2, ThreadAfterReceipt
<1>12. /\ ~behind => DistinctIds(threads) \/ Doubtful(was, 0)
       /\ ~behind => ThreadsFollow(rows, was, threads, 0)
       /\ \A t \in Ids(threads) : Accounted(rows, was, vanished, t, 0)
    BY DEF ThreadInv, ScreenFollows
<1>13. CameBack(was, now, i) /\ ~Deletes(was[i]) /\ ~Retitles(was[i])
    BY <1>1, <1>3 DEF Received, Creates, Deletes, Retitles
<1>14. \A k \in DOMAIN now : ~Creates(now[k])
    BY <1>5, <1>13 DEF CameBack, Says, Creates
<1>15. \A t : Created(was, 0, t) => t = row.id
    BY <1>5 DEF Created, Creates, row
<1> HIDE DEF was, now
<1>16. \A t : ~Created(now, 0, t)
    BY <1>14 DEF Created
<1>17. /\ \A t : Deleted(was, 0, t) => Deleted(now, 0, t)
       /\ \A t : Retitled(was, 0, t) => Retitled(now, 0, t)
       /\ ~was[i].overtaken /\ Doubtful(was, 0) => Doubtful(now, 0)
    BY <1>13, TidingsAfterReceipt
<1>18. ASSUME ~behind' PROVE ~behind /\ ~was[i].overtaken /\ row \in ToSet(rows) /\ row.id \notin Ids(threads)
    BY <1>1, <1>6, <1>18 DEF Known, was
<1>19. ~behind' => DistinctIds(threads') \/ Doubtful(now, 0)
    BY <1>8, <1>12, <1>17, <1>18
<1>20. ASSUME ~behind', ~Doubtful(now, 0) PROVE ThreadsLead(rows, now, threads', 0)
    <2>1. ThreadsLead(rows, was, threads, 0)
        BY <1>12, <1>17, <1>18, <1>20 DEF ThreadsFollow
    <2>2. \A t \in Ids(rows) : t \in Ids(threads')
        BY <1>8, <1>15, <2>1 DEF ThreadsLead
    <2>3. \A t \in Ids(threads') : t \in Ids(rows) \/ Deleted(now, 0, t)
        BY <1>6, <1>8, <1>17, <2>1 DEF ThreadsLead
    <2>4. \A m \in ToSet(rows) : m.id = row.id => m = row
        BY <1>7, <1>18, <1>20, RowsOfSeq
    <2>5. \A m \in ToSet(rows) : m.id \in Ids(threads') => m \in ToSet(threads') \/ Retitled(now, 0, m.id)
        BY <1>8, <1>17, <2>1, <2>4 DEF ThreadsLead
    <2> QED BY <1>16, <2>2, <2>3, <2>5 DEF ThreadsLead
<1>21. \A t \in Ids(threads') : Accounted(rows, now, vanished, t, 0)
    BY <1>6, <1>8, <1>12, <1>17 DEF Accounted
<1>22. current' # Nothing => Accounted(rows, now, vanished, current', 0)
    BY <1>1, <1>6 DEF Accounted
<1>23. ScreenFollows'
    BY <1>1, <1>19, <1>20, <1>21, <1>22 DEF ScreenFollows, ThreadsFollow, now
<1> QED BY <1>9, <1>10, <1>11, <1>23 DEF ThreadInv

LEMMA DeleteCameStep ==
    ASSUME ThreadInv, NEW i \in DOMAIN answers, DeleteCame(i)
    PROVE  ThreadInv'
<1> DEFINE id == answers[i].to.id
           was == answers
           now == answers'
<1>1. /\ Deletes(answers[i]) /\ answers[i].to.kind = "delete" /\ threads' = Without(threads, id)
      /\ current' = IF current # id THEN current ELSE IF threads' = <<>> THEN Nothing ELSE threads'[1].id
      /\ deleting' = Nothing /\ Receive(ListBound, i, {})
      /\ UNCHANGED <<rows, created, view, creation, phase, behind, vanished>>
    BY DEF DeleteCame, Deletes
<1>2. CallsOK /\ created \in Nat /\ 1..created \subseteq ThreadIds /\ ThreadRequestOK(answers[i].to, created)
    BY ThreadFacts
<1>3. Received(i, {}) /\ answers[i].to # Creating
    BY <1>1, <1>2, ClientReceives DEF Creating, Request
<1>4. id \notin Ids(rows)
    BY <1>1 DEF ThreadInv, ChangesOK
<1>5. threads \in Seq(Rows) /\ Ids(threads) \subseteq 1..created
    BY DEF ThreadInv, ThreadTables
<1> HIDE DEF id
<1>6. /\ threads' \in Seq(Rows) /\ ToSet(threads') = {m \in ToSet(threads) : m.id # id}
      /\ Ids(threads') = Ids(threads) \ {id} /\ (DistinctIds(threads) => DistinctIds(threads'))
    <2> DEFINE w == threads'
    <2>1. w = Without(threads, id)
        BY <1>1
    <2> HIDE DEF w
    <2>2. /\ w \in Seq(Rows) /\ ToSet(w) = {m \in ToSet(threads) : m.id # id}
          /\ Ids(w) = Ids(threads) \ {id} /\ (DistinctIds(threads) => DistinctIds(w))
        BY <1>5, <2>1, WithoutRow
    <2> QED BY <2>2 DEF w
<1>7. threads' # <<>> => threads'[1].id \in Ids(threads')
    <2>1. threads' # <<>> => 1 \in DOMAIN threads'
        BY <1>6
    <2> QED BY <2>1 DEF Ids
<1>8. ListTypeOK'
    <2>1. current' \in 1..MaxThreads \cup {Nothing}
        BY <1>1, <1>2, <1>5, <1>6, <1>7 DEF ThreadInv, ListTypeOK, ThreadIds
    <2>2. ListTypeOK
        BY DEF ThreadInv
    <2> QED BY <1>1, <1>6, <2>1, <2>2 DEF ListTypeOK
<1>9. ThreadButtons'
    BY <1>1, <1>3, ButtonsAfterReceipt
<1>10. ThreadTables' /\ ThreadCallsOK' /\ CreationsOK' /\ ChangesOK' /\ ListsFollow'
    <2>1. \A t : Known(t)' => Known(t)
        BY <1>3, <1>6, KnownStays
    <2>2. Ids(threads') \subseteq 1..created
        BY <1>5, <1>6
    <2> QED BY <1>1, <1>3, <1>6, <2>1, <2>2, ThreadAfterReceipt
<1>11. /\ ~behind => DistinctIds(threads) \/ Doubtful(was, 0)
       /\ ~behind => ThreadsFollow(rows, was, threads, 0)
       /\ \A t \in Ids(threads) : Accounted(rows, was, vanished, t, 0)
       /\ current # Nothing => Accounted(rows, was, vanished, current, 0)
    BY DEF ThreadInv, ScreenFollows
<1>12. CameBack(was, now, i) /\ Deletes(was[i]) /\ ~Creates(was[i]) /\ ~Retitles(was[i]) /\ was[i].to.id = id
    BY <1>1, <1>3 DEF Received, Creates, Deletes, Retitles, id
<1> HIDE DEF was, now
<1>13. /\ \A t : Created(now, 0, t) <=> Created(was, 0, t)
       /\ \A t : Deleted(was, 0, t) /\ t # id => Deleted(now, 0, t)
       /\ \A t : Retitled(was, 0, t) => Retitled(now, 0, t)
       /\ Doubtful(was, 0) => Doubtful(now, 0)
    BY <1>12, TidingsAfterReceipt
<1>14. ~behind' => DistinctIds(threads') \/ Doubtful(now, 0)
    BY <1>1, <1>6, <1>11, <1>13
<1>15. ASSUME ~behind', ~Doubtful(now, 0) PROVE ThreadsLead(rows, now, threads', 0)
    <2>1. ThreadsLead(rows, was, threads, 0)
        BY <1>1, <1>11, <1>13, <1>15 DEF ThreadsFollow
    <2>2. \A t \in Ids(rows) : t \in Ids(threads') \/ Created(now, 0, t)
        BY <1>4, <1>6, <1>13, <2>1 DEF ThreadsLead
    <2>3. \A t \in Ids(threads') : ~Created(now, 0, t) /\ (t \in Ids(rows) \/ Deleted(now, 0, t))
        BY <1>6, <1>13, <2>1 DEF ThreadsLead
    <2>4. \A m \in ToSet(rows) : m.id \in Ids(threads') => m \in ToSet(threads') \/ Retitled(now, 0, m.id)
        BY <1>6, <1>13, <2>1 DEF ThreadsLead
    <2> QED BY <2>2, <2>3, <2>4 DEF ThreadsLead
<1>16. \A t \in Ids(threads') : Accounted(rows, now, vanished, t, 0)
    BY <1>6, <1>11, <1>13 DEF Accounted
<1>17. current' # Nothing => Accounted(rows, now, vanished, current', 0)
    <2>1. CASE current # id
        BY <1>1, <1>11, <1>13, <2>1 DEF Accounted
    <2>2. CASE current = id
        BY <1>1, <1>7, <1>16, <2>2
    <2> QED BY <2>1, <2>2
<1>18. ScreenFollows'
    BY <1>1, <1>14, <1>15, <1>16, <1>17 DEF ScreenFollows, ThreadsFollow, now
<1> QED BY <1>8, <1>9, <1>10, <1>18 DEF ThreadInv

\* updateThread puts a row of the same id in its place.
LEMMA RowReplaced ==
    ASSUME NEW s \in Seq(Rows), NEW row \in Rows, NEW w,
           w = [k \in DOMAIN s |-> IF s[k].id = row.id THEN row ELSE s[k]]
    PROVE  /\ w \in Seq(Rows) /\ Ids(w) = Ids(s) /\ (DistinctIds(s) => DistinctIds(w))
           /\ \A m \in ToSet(s) : m.id # row.id => m \in ToSet(w)
           /\ row.id \in Ids(s) => row \in ToSet(w)
<1>1. /\ Len(s) \in Nat /\ DOMAIN s = 1..Len(s) /\ DOMAIN w = DOMAIN s
      /\ \A k \in DOMAIN s : s[k] \in Rows /\ w[k] \in Rows /\ w[k].id = s[k].id
    OBVIOUS
<1>2. w \in Seq(Rows)
    BY <1>1
<1>3. Ids(w) = Ids(s) /\ (DistinctIds(s) => DistinctIds(w))
    BY <1>1 DEF Ids, DistinctIds
<1>4. /\ \A k \in DOMAIN s : s[k].id # row.id => w[k] = s[k]
      /\ \A k \in DOMAIN s : s[k].id = row.id => w[k] = row
    OBVIOUS
<1>5. /\ \A m \in ToSet(s) : m.id # row.id => m \in ToSet(w)
      /\ row.id \in Ids(s) => row \in ToSet(w)
    BY <1>1, <1>4 DEF ToSet, Ids
<1> QED BY <1>2, <1>3, <1>5

LEMMA RenameCameStep ==
    ASSUME ThreadInv, NEW i \in DOMAIN answers, RenameCame(i)
    PROVE  ThreadInv'
<1> DEFINE id == answers[i].to.id
           row == answers[i].is[1]
           was == answers
           now == answers'
<1>1. /\ Retitles(answers[i]) /\ answers[i].to.kind \in {"rename", "retitle"}
      /\ threads' = [k \in DOMAIN threads |-> IF threads[k].id = id THEN row ELSE threads[k]]
      /\ behind' = (behind \/ answers[i].overtaken) /\ Receive(ListBound, i, {})
      /\ UNCHANGED <<rows, created, current, view, creation, deleting, phase, vanished>>
    BY DEF RenameCame, Retitles
<1>2. /\ CallsOK /\ created \in Nat /\ 1..created \subseteq ThreadIds /\ answers[i].overtaken \in BOOLEAN
      /\ ThreadRequestOK(answers[i].to, created) /\ ThreadAnswerOK(answers[i], created)
    BY ThreadFacts DEF CallsOK, AreAnswers, IsAnswer
<1>3. Received(i, {}) /\ answers[i].to # Creating
    BY <1>1, <1>2, ClientReceives DEF Creating, Request
<1>4. row \in Rows /\ row.id = id /\ id \in 1..created
    <2>1. id \in 1..created /\ answers[i].to.arg \in {"given", "generated"}
        BY <1>1, <1>2, ThreadRequests
    <2>2. row = [id |-> id, title |-> answers[i].to.arg]
        BY <1>1, <1>2 DEF ThreadAnswerOK
    <2> QED BY <1>2, <2>1, <2>2 DEF Rows, ThreadIds
<1>5. ~answers[i].overtaken => \A m \in ToSet(rows) : m.id = id => m = row \/ Retitled(was, i, m.id)
    BY <1>1 DEF ThreadInv, ChangesOK
<1>6. threads \in Seq(Rows) /\ Ids(threads) \subseteq 1..created
    BY DEF ThreadInv, ThreadTables
<1> HIDE DEF id, row
<1>7. /\ threads' \in Seq(Rows) /\ Ids(threads') = Ids(threads)
      /\ (DistinctIds(threads) => DistinctIds(threads'))
      /\ \A m \in ToSet(threads) : m.id # id => m \in ToSet(threads')
      /\ id \in Ids(threads) => row \in ToSet(threads')
    <2> DEFINE w == threads'
    <2>1. w = [k \in DOMAIN threads |-> IF threads[k].id = row.id THEN row ELSE threads[k]]
        BY <1>1, <1>4
    <2> HIDE DEF w
    <2>2. /\ w \in Seq(Rows) /\ Ids(w) = Ids(threads) /\ (DistinctIds(threads) => DistinctIds(w))
          /\ \A m \in ToSet(threads) : m.id # row.id => m \in ToSet(w)
          /\ row.id \in Ids(threads) => row \in ToSet(w)
        BY <1>4, <1>6, <2>1, RowReplaced
    <2> QED BY <1>4, <2>2 DEF w
<1>8. ListTypeOK'
    BY <1>1, <1>2, <1>7 DEF ThreadInv, ListTypeOK
<1>9. ThreadButtons'
    <2>1. answers[i].to.kind # "delete"
        BY <1>1
    <2> QED BY <1>1, <1>3, <2>1, ButtonsAfterReceipt
<1>10. ThreadTables' /\ ThreadCallsOK' /\ CreationsOK' /\ ChangesOK' /\ ListsFollow'
    <2>1. \A t : Known(t)' => Known(t)
        BY <1>3, <1>7, KnownStays
    <2>2. Ids(threads') \subseteq 1..created
        BY <1>6, <1>7
    <2>3. rows' = rows /\ created' = created /\ vanished \subseteq vanished' /\ phase' = phase
        BY <1>1
    <2>4. threads' \in Seq(Rows)
        BY <1>7
    <2> QED BY <1>3, <2>1, <2>2, <2>3, <2>4, ThreadAfterReceipt
<1>11. /\ ~behind => DistinctIds(threads) \/ Doubtful(was, 0)
       /\ ~behind => ThreadsFollow(rows, was, threads, 0)
       /\ \A t \in Ids(threads) : Accounted(rows, was, vanished, t, 0)
       /\ current # Nothing => Accounted(rows, was, vanished, current, 0)
    BY DEF ThreadInv, ScreenFollows
<1>12. CameBack(was, now, i) /\ Retitles(was[i]) /\ ~Creates(was[i]) /\ ~Deletes(was[i]) /\ was[i].to.id = id
    BY <1>1, <1>3 DEF Received, Creates, Deletes, Retitles, id
<1>13. ~behind' => ~behind /\ ~was[i].overtaken
    BY <1>1
<1>14. ~was[i].overtaken => \A m \in ToSet(rows) : m.id = id => m = row \/ Retitled(was, i, m.id)
    BY <1>5
<1> HIDE DEF was, now
<1>15. /\ \A t : Created(now, 0, t) <=> Created(was, 0, t)
       /\ \A t : Deleted(was, 0, t) => Deleted(now, 0, t)
       /\ \A t : Retitled(was, 0, t) /\ t # id => Retitled(now, 0, t)
       /\ \A t : Retitled(was, i, t) => Retitled(now, 0, t)
       /\ Doubtful(was, 0) /\ ~was[i].overtaken => Doubtful(now, 0)
    BY <1>12, TidingsAfterReceipt
<1>16. ~behind' => DistinctIds(threads') \/ Doubtful(now, 0)
    BY <1>7, <1>11, <1>13, <1>15
<1>17. ASSUME ~behind', ~Doubtful(now, 0) PROVE ThreadsLead(rows, now, threads', 0)
    <2>1. ThreadsLead(rows, was, threads, 0)
        BY <1>11, <1>13, <1>15, <1>17 DEF ThreadsFollow
    <2>2. \A t \in Ids(rows) : t \in Ids(threads') \/ Created(now, 0, t)
        BY <1>7, <1>15, <2>1 DEF ThreadsLead
    <2>3. \A t \in Ids(threads') : ~Created(now, 0, t) /\ (t \in Ids(rows) \/ Deleted(now, 0, t))
        BY <1>7, <1>15, <2>1 DEF ThreadsLead
    <2>4. ASSUME NEW m \in ToSet(rows), m.id \in Ids(threads')
          PROVE  m \in ToSet(threads') \/ Retitled(now, 0, m.id)
        <3>1. CASE m.id = id
            BY <1>7, <1>13, <1>14, <1>15, <1>17, <2>4, <3>1
        <3>2. CASE m.id # id
            BY <1>7, <1>15, <2>1, <2>4, <3>2 DEF ThreadsLead
        <3> QED BY <3>1, <3>2
    <2> QED BY <2>2, <2>3, <2>4 DEF ThreadsLead
<1>18. \A t \in Ids(threads') : Accounted(rows, now, vanished, t, 0)
    BY <1>7, <1>11, <1>15 DEF Accounted
<1>19. current' # Nothing => Accounted(rows, now, vanished, current', 0)
    BY <1>1, <1>11, <1>15 DEF Accounted
<1>20. ScreenFollows'
    BY <1>1, <1>16, <1>17, <1>18, <1>19 DEF ScreenFollows, ThreadsFollow, now
<1> QED BY <1>8, <1>9, <1>10, <1>20 DEF ThreadInv

-----------------------------------------------------------------------------
\* The user asks for something about a thread in the list, or for a new one, or for
\* the list; or looks at something else.
LEMMA ThreadAfterAsking ==
    ASSUME ThreadInv, NEW rs, CallsOK', Sent(rs), answers' = answers,
           UNCHANGED <<rows, created, threads, behind, vanished>>, ListTypeOK', phase' = "ready",
           \A q \in rs : ThreadRequestOK(q, created), \A p, q \in rs : p = q,
           \A q \in rs : q.kind \in {"delete", "name", "rename", "retitle"} => q.id \in Ids(threads),
           Creating \in rs => Creating \notin Requests,
           Deletions \cap rs = {} \/ (Deletions \cap Requests = {} /\ Creating \notin Requests),
           creation' = "creating" <=> creation = "creating" \/ Creating \in rs,
           \A t \in ThreadIds : deleting' = t <=> deleting = t \/ Request("delete", t, Nothing) \in rs,
           current' \in {Nothing, current} \cup Ids(threads)
    PROVE  ThreadInv'
<1>1. Requests' = Requests \cup rs
    BY DEF Requests, Sent
<1>2. ThreadTables'
    BY DEF ThreadInv, ThreadTables
<1>3. ThreadCallsOK'
    <2>1. \A q \in DOMAIN asked' : ThreadRequestOK(q, created)
        BY DEF Sent, ThreadInv, ThreadCallsOK
    <2>2. \A l \in DOMAIN answers' : ThreadAnswerOK(answers'[l], created)
        BY DEF ThreadInv, ThreadCallsOK
    <2>3. Acts(0, rs)
        BY DEF Acts
    <2>4. ASSUME NEW Q, Sole(Q), Q \cap rs = {} \/ Q \cap Requests = {} PROVE Sole(Q)'
        BY <2>3, <2>4, SoleAfterAct
    <2>5. {Creating} \cap rs = {} \/ {Creating} \cap Requests = {}
        OBVIOUS
    <2>6. Sole({Creating})' /\ Sole(Deletions)'
        BY <2>4, <2>5 DEF ThreadInv, ThreadCallsOK
    <2>7. {Creating}' = {Creating} /\ Deletions' = Deletions /\ {ListRequest}' = {ListRequest}
        BY DEF Creating, Deletions, ListRequest, ThreadIds
    <2> QED BY <2>1, <2>2, <2>6, <2>7 DEF ThreadCallsOK
<1>4. ThreadButtons'
    <2>1. creation' = "creating" <=> Creating \in Requests'
        BY <1>1 DEF ThreadInv, ThreadButtons
    <2>2. \A t \in ThreadIds : deleting' = t <=> Request("delete", t, Nothing) \in Requests'
        BY <1>1 DEF ThreadInv, ThreadButtons
    <2> QED BY <2>1, <2>2 DEF ThreadButtons, Creating, ThreadIds
<1>5. CreationsOK'
    <2> SUFFICES ASSUME NEW k \in DOMAIN answers, Creates(answers[k]), NEW row, row = answers[k].is[1]
                 PROVE  /\ row.id \in Ids(rows)
                        /\ ~answers[k].overtaken => row \in ToSet(rows) /\ ~Known(row.id)'
                        /\ Request("delete", row.id, Nothing) \notin Requests'
                        /\ \A i \in DOMAIN answers :
                             answers[i].to.kind = "list" /\ row.id \in Ids(answers[i].is) => k < i
        BY DEF CreationsOK
    <2>1. /\ row.id \in Ids(rows)
          /\ ~answers[k].overtaken => row \in ToSet(rows) /\ ~Known(row.id)
          /\ Request("delete", row.id, Nothing) \notin Requests
          /\ \A i \in DOMAIN answers :
               answers[i].to.kind = "list" /\ row.id \in Ids(answers[i].is) => k < i
        BY DEF ThreadInv, CreationsOK
    <2>2. Known(row.id)' => Known(row.id)
        BY <1>1 DEF Known
    <2>3. Creating \in Requests
        BY ThreadFacts, OneCreation DEF ThreadInv, Requests
    <2>4. row.id \in ThreadIds
        BY <2>1, RowsOfSeq DEF ThreadInv, ThreadTables, IsList
    <2>5. Request("delete", row.id, Nothing) \notin rs
        BY <2>3, <2>4 DEF Deletions
    <2> QED BY <1>1, <2>1, <2>2, <2>5
<1>6. ChangesOK' /\ ListsFollow'
    BY DEF ThreadInv, ChangesOK, ListsFollow
<1>7. ScreenFollows'
    <2>1. \A t \in Ids(threads) : Accounted(rows, answers, vanished, t, 0)
        BY DEF ThreadInv, ScreenFollows
    <2>2. current' # Nothing => Accounted(rows, answers, vanished, current', 0)
        BY <2>1 DEF ThreadInv, ScreenFollows
    <2> QED BY <2>1, <2>2 DEF ThreadInv, ScreenFollows
<1> QED BY <1>2, <1>3, <1>4, <1>5, <1>6, <1>7 DEF ThreadInv

LEMMA ThreadUserStep ==
    ASSUME ThreadInv,
           \/ Login \/ NewThread \/ ShowKanban \/ ShowSkills \/ FirstMessage \/ StreamEnded
           \/ \E t \in ThreadIds : SelectListed(t) \/ DeleteThread(t) \/ SaveTitle(t)
    PROVE  ThreadInv'
<1>1. /\ CallsOK /\ Nothing \notin ThreadIds /\ threads \in Seq(Rows) /\ ListTypeOK
      /\ Ids(threads) \subseteq 1..created /\ Ids(threads) \subseteq ThreadIds
      /\ {current, deleting} \subseteq ThreadIds \cup {Nothing}
    BY ThreadFacts DEF ThreadInv, ListTypeOK, ThreadTables, ThreadIds
<1>2. /\ creation # "creating" => Creating \notin Requests
      /\ deleting = Nothing => Deletions \cap Requests = {}
    <2>1. creation # "creating" => Creating \notin Requests
        BY DEF ThreadInv, ThreadButtons
    <2>2. ASSUME deleting = Nothing, NEW r \in Deletions PROVE r \notin Requests
        <3>1. PICK t \in ThreadIds : r = Request("delete", t, Nothing)
            BY <2>2 DEF Deletions
        <3> QED BY <1>1, <2>2, <3>1 DEF ThreadInv, ThreadButtons
    <2> QED BY <2>1, <2>2
<1>3. Creating.kind = "create" /\ ListRequest.kind = "list" /\ \A r \in Deletions : r.kind = "delete"
    BY DEF Creating, ListRequest, Deletions, Request
<1>4. ASSUME NEW r, Ask(ListBound, {r}), r.kind \notin {"create", "delete"}, ThreadRequestOK(r, created),
             r.kind \in {"name", "rename", "retitle"} => r.id \in Ids(threads),
             UNCHANGED <<rows, created, threads, current, view, creation, deleting, behind, vanished>>,
             phase' = "ready"
      PROVE  ThreadInv'
    <2> DEFINE rs == {r}
    <2>1. ListTypeOK'
        BY <1>1, <1>4 DEF ListTypeOK
    <2>2. /\ Creating \notin rs /\ Deletions \cap rs = {}
          /\ \A t \in ThreadIds : Request("delete", t, Nothing) \notin rs
        BY <1>3, <1>4 DEF Deletions
    <2>3. /\ \A q \in rs : ThreadRequestOK(q, created)
          /\ \A p, q \in rs : p = q
          /\ \A q \in rs : q.kind \in {"delete", "name", "rename", "retitle"} => q.id \in Ids(threads)
        BY <1>4
    <2> HIDE DEF rs
    <2>4. CallsOK' /\ Sent(rs) /\ answers' = answers
        <3>1. Ask(ListBound, rs)
            BY <1>4 DEF rs
        <3> QED BY <1>1, <3>1, UserAsks
    <2> QED BY <1>4, <2>1, <2>2, <2>3, <2>4, ThreadAfterAsking
<1>5. ASSUME Login \/ StreamEnded PROVE ThreadInv'
    <2>1. /\ Ask(ListBound, {ListRequest}) /\ phase' = "ready"
          /\ UNCHANGED <<rows, created, threads, current, view, creation, deleting, behind, vanished>>
        BY <1>5 DEF Login, StreamEnded, ChatShown, listVars
    <2>2. ThreadRequestOK(ListRequest, created)
        BY DEF ThreadRequestOK
    <2> QED BY <1>3, <1>4, <2>1, <2>2
<1>6. ASSUME FirstMessage PROVE ThreadInv'
    <2> DEFINE r == Request("name", current, Nothing)
    <2>1. /\ Ask(ListBound, {r}) /\ phase' = "ready" /\ current \in Ids(threads)
          /\ UNCHANGED <<rows, created, threads, current, view, creation, deleting, behind, vanished>>
        BY <1>6 DEF FirstMessage, ChatShown, listVars
    <2>2. ThreadRequestOK(r, created) /\ r.kind = "name" /\ r.id = current
        BY <1>1, <2>1 DEF ThreadRequestOK, Request
    <2> HIDE DEF r
    <2> QED BY <1>4, <2>1, <2>2
<1>7. ASSUME NEW t \in ThreadIds, SaveTitle(t) PROVE ThreadInv'
    <2> DEFINE r == Request("rename", t, "given")
    <2>1. /\ Ask(ListBound, {r}) /\ phase' = "ready" /\ t \in Ids(threads)
          /\ UNCHANGED <<rows, created, threads, current, view, creation, deleting, behind, vanished>>
        BY <1>7 DEF SaveTitle, listVars
    <2>2. ThreadRequestOK(r, created) /\ r.kind = "rename" /\ r.id = t
        BY <1>1, <2>1 DEF ThreadRequestOK, Request
    <2> HIDE DEF r
    <2> QED BY <1>4, <2>1, <2>2
<1>8. ASSUME NewThread PROVE ThreadInv'
    <2> DEFINE rs == {Creating}
    <2>1. /\ creation # "creating" /\ creation' = "creating" /\ phase = "ready" /\ Ask(ListBound, rs)
          /\ UNCHANGED <<rows, created, threads, current, view, deleting, phase, behind, vanished>>
        BY <1>8 DEF NewThread, Busy, Creating
    <2>2. ListTypeOK'
        BY <1>1, <2>1 DEF ListTypeOK
    <2>3. /\ \A q \in rs : ThreadRequestOK(q, created) /\ q.kind = "create"
          /\ \A p, q \in rs : p = q
          /\ Creating \in rs /\ Creating \notin Requests
        BY <1>2, <1>3, <2>1 DEF ThreadRequestOK
    <2>4. Deletions \cap rs = {} /\ \A t \in ThreadIds : Request("delete", t, Nothing) \notin rs
        BY <1>3 DEF Deletions
    <2> HIDE DEF rs
    <2>5. CallsOK' /\ Sent(rs) /\ answers' = answers
        BY <1>1, <2>1, UserAsks
    <2> QED BY <2>1, <2>2, <2>3, <2>4, <2>5, ThreadAfterAsking
<1>9. ASSUME NEW t \in ThreadIds, DeleteThread(t) PROVE ThreadInv'
    <2> DEFINE r == Request("delete", t, Nothing)
               rs == {r}
    <2>1. /\ creation # "creating" /\ deleting = Nothing /\ deleting' = t /\ phase = "ready"
          /\ t \in Ids(threads) /\ Ask(ListBound, rs)
          /\ UNCHANGED <<rows, created, threads, current, view, creation, phase, behind, vanished>>
        BY <1>9 DEF DeleteThread, Busy
    <2>2. ListTypeOK'
        BY <1>1, <2>1 DEF ListTypeOK, ThreadIds
    <2>3. /\ \A q \in rs : ThreadRequestOK(q, created) /\ q.id \in Ids(threads)
          /\ \A p, q \in rs : p = q
          /\ Creating \notin rs /\ Creating \notin Requests /\ Deletions \cap Requests = {}
        BY <1>1, <1>2, <1>3, <2>1 DEF ThreadRequestOK, Request
    <2>4. \A u \in ThreadIds : deleting' = u <=> deleting = u \/ Request("delete", u, Nothing) \in rs
        BY <1>1, <2>1 DEF Request
    <2> HIDE DEF rs
    <2>5. CallsOK' /\ Sent(rs) /\ answers' = answers
        BY <1>1, <2>1, UserAsks
    <2> QED BY <2>1, <2>2, <2>3, <2>4, <2>5, ThreadAfterAsking
<1>10. ASSUME ShowKanban \/ ShowSkills \/ \E t \in ThreadIds : SelectListed(t) PROVE ThreadInv'
    <2> DEFINE rs == {}
    <2>1. /\ phase' = "ready" /\ current' \in {Nothing, current} \cup Ids(threads)
          /\ view' \in {"thread", "kanban", "skills"} /\ asked' = asked /\ answers' = answers
          /\ UNCHANGED <<rows, created, threads, creation, deleting, behind, vanished>>
        BY <1>10 DEF ShowKanban, ShowSkills, SelectListed, callVars
    <2>2. ListTypeOK'
        BY <1>1, <2>1 DEF ListTypeOK, ThreadIds
    <2>3. CallsOK' /\ Sent(rs)
        BY <1>1, <2>1 DEF CallsOK, Sent
    <2>4. \A q : q \notin rs
        OBVIOUS
    <2> HIDE DEF rs
    <2>5. Deletions \cap rs = {}
        BY <2>4
    <2> QED BY <2>1, <2>2, <2>3, <2>4, <2>5, ThreadAfterAsking
<1> QED BY <1>5, <1>6, <1>7, <1>8, <1>9, <1>10

-----------------------------------------------------------------------------
\* At the start one list is asked for, of which nothing is shown yet.
LEMMA ThreadInitially ==
    ASSUME ListInit, CallsInit(FirstRequests)
    PROVE  ThreadInv
<1> DEFINE r == ListRequest
<1>1. /\ rows \in {<<>>, <<[id |-> 1, title |-> "Thread"]>>} /\ created = Len(rows)
      /\ threads = <<>> /\ current = Nothing /\ view = "thread"
      /\ creation = "idle" /\ deleting = Nothing
      /\ phase = "loading" /\ behind = TRUE /\ vanished = {}
    BY DEF ListInit
<1>2. asked = SetToBag({r}) /\ answers = <<>>
    BY DEF CallsInit, FirstRequests
<1>3. r.kind = "list" /\ r # Creating /\ r \notin Deletions /\ ThreadRequestOK(r, created)
    BY DEF ListRequest, Creating, Deletions, Request, ThreadRequestOK
<1> HIDE DEF r
<1>4. DOMAIN asked = {r} /\ asked[r] = 1 /\ IsABag(asked)
    BY <1>2 DEF SetToBag, IsABag
<1>5. DOMAIN answers = {} /\ AreAnswers(answers) /\ Requests = {r}
    BY <1>2, <1>4 DEF AreAnswers, Requests
<1>6. Nothing \notin ThreadIds /\ MaxThreads \in Nat \ {0}
    BY ListAssumption DEF ThreadIds
<1>7. IsList(rows, created) /\ created \in 0..MaxThreads
    <2>1. [id |-> 1, title |-> "Thread"] \in Rows
        BY <1>6 DEF Rows
    <2>2. CASE rows = <<>>
        BY <1>1, <1>6, <2>2 DEF IsList, DistinctIds, Ids
    <2>3. CASE rows = <<[id |-> 1, title |-> "Thread"]>>
        BY <1>1, <1>6, <2>1, <2>3 DEF IsList, DistinctIds, Ids
    <2> QED BY <1>1, <2>2, <2>3
<1>8. ListTypeOK
    BY <1>1, <1>7 DEF ListTypeOK, IsList
<1>9. Ids(threads) = {} /\ ThreadTables
    BY <1>1, <1>7 DEF ThreadTables, Ids
<1>10. ThreadCallsOK
    BY <1>3, <1>4, <1>5 DEF ThreadCallsOK, CallsOK, Sole
<1>11. ThreadButtons
    <2>1. \A t \in ThreadIds : Request("delete", t, Nothing) \notin Requests
        BY <1>3, <1>5 DEF Deletions
    <2> QED BY <1>1, <1>3, <1>5, <1>6, <2>1 DEF ThreadButtons
<1>12. CreationsOK /\ ChangesOK /\ ListsFollow
    BY <1>5 DEF CreationsOK, ChangesOK, ListsFollow
<1>13. ScreenFollows
    BY <1>1, <1>9 DEF ScreenFollows
<1> QED BY <1>8, <1>9, <1>10, <1>11, <1>12, <1>13 DEF ThreadInv

LEMMA ThreadInvShows ==
    ASSUME ThreadInv
    PROVE  ThreadsAreTheServers
<1>1. /\ \A r \in Requests : r.kind = "create" <=> r = Creating
      /\ \A r \in Requests : r.kind = "delete" => r = Request("delete", r.id, Nothing)
    BY ThreadFacts, ThreadRequests
<1>2. /\ Creating.kind = "create"
      /\ \A t : Request("delete", t, Nothing).kind = "delete" /\ Request("delete", t, Nothing).id = t
    BY DEF Creating, Request
<1>3. creation = "creating" <=> InFlight("create")
    BY <1>1, <1>2 DEF InFlight, ThreadInv, ThreadButtons
<1>4. \A t \in 1..MaxThreads : deleting = t <=> \E r \in Requests : r.kind = "delete" /\ r.id = t
    BY <1>1, <1>2 DEF ThreadInv, ThreadButtons, ThreadIds
<1>5. ASSUME Quiet, ~behind
      PROVE  /\ ToSet(threads) = ToSet(rows) /\ Len(threads) = Len(rows)
             /\ current \in {Nothing} \cup vanished \cup Ids(threads)
    <2>1. DOMAIN answers = {}
        BY <1>5 DEF Quiet
    <2>2. /\ ~Doubtful(answers, 0)
          /\ \A t : ~Created(answers, 0, t) /\ ~Deleted(answers, 0, t) /\ ~Retitled(answers, 0, t)
        BY <2>1 DEF Doubtful, Created, Deleted, Retitled
    <2>3. /\ rows \in Seq(Rows) /\ threads \in Seq(Rows) /\ DistinctIds(rows) /\ DistinctIds(threads)
          /\ ThreadsLead(rows, answers, threads, 0)
        BY <1>5, <2>2 DEF ThreadInv, ThreadTables, IsList, ScreenFollows, ThreadsFollow
    <2>4. Ids(threads) = Ids(rows) /\ \A m \in ToSet(rows) : m.id \in Ids(threads) => m \in ToSet(threads)
        BY <2>2, <2>3 DEF ThreadsLead
    <2>5. \A m \in ToSet(rows) : m \in ToSet(threads)
        BY <2>3, <2>4, RowsOfSeq
    <2>6. ASSUME NEW m \in ToSet(threads) PROVE m \in ToSet(rows)
        <3>1. m.id \in Ids(rows)
            BY <2>3, <2>4, <2>6, RowsOfSeq
        <3>2. PICK n \in ToSet(rows) : n.id = m.id
            BY <2>3, <3>1, RowsOfSeq
        <3>3. m = n
            BY <2>3, <2>5, <2>6, <3>2, RowsOfSeq
        <3> QED BY <3>2, <3>3
    <2>7. ToSet(threads) = ToSet(rows)
        BY <2>5, <2>6
    <2>8. Len(threads) = Len(rows)
        <3>1. /\ \A j, k \in DOMAIN threads : threads[j] = threads[k] => j = k
              /\ \A j, k \in DOMAIN rows : rows[j] = rows[k] => j = k
            BY <2>3 DEF DistinctIds
        <3>2. {threads[k] : k \in DOMAIN threads} = {rows[k] : k \in DOMAIN rows}
            BY <2>7 DEF ToSet
        <3> QED BY <2>3, <3>1, <3>2, SameEntriesSameLength
    <2>9. current # Nothing => current \in Ids(rows) \cup vanished
        BY <2>2 DEF ThreadInv, ScreenFollows, Accounted
    <2> QED BY <2>4, <2>7, <2>8, <2>9
<1> QED BY <1>3, <1>4, <1>5 DEF ThreadsAreTheServers

LEMMA ThreadStep ==
    ASSUME ThreadInv, ListNext \/ UNCHANGED <<callVars, listVars>>
    PROVE  ThreadInv'
<1>1. CASE ListNext
    <2>1. \/ ServeList
          \/ \E r \in DOMAIN asked : \/ InsertThread(r) \/ ServeDelete(r) \/ ServeRename(r)
                                     \/ ServeName(r) \/ Refuse(r)
          \/ \E i \in DOMAIN answers :
                \/ ThreadReady(i) \/ SandboxFails(i) \/ ListCame(i) \/ CreateCame(i) \/ DeleteCame(i)
                \/ RenameCame(i)
                \/ ListFailed(i) \/ CreateFailed(i) \/ DeleteFailed(i) \/ RenameFailed(i)
                \/ NameCame(i) \/ NameFailed(i)
          \/ Login \/ NewThread \/ ShowKanban \/ ShowSkills \/ FirstMessage \/ StreamEnded
          \/ \E t \in ThreadIds : SelectListed(t) \/ DeleteThread(t) \/ SaveTitle(t)
        BY <1>1 DEF ListNext, ThreadIds
    <2> QED BY <2>1, ThreadServerStep, ThreadCreationStep, ListCameStep, CreateCameStep, DeleteCameStep,
               RenameCameStep, IgnoredAnswerStep, ThreadUserStep
<1>2. CASE UNCHANGED <<callVars, listVars>>
    <2>1. /\ UNCHANGED <<asked, answers, rows, created, threads, current, view, creation, deleting, phase>>
          /\ UNCHANGED <<behind, vanished>>
        BY <1>2 DEF callVars, listVars
    <2>2. Requests' = Requests /\ CallsOK'
        BY <2>1 DEF Requests, ThreadInv, ThreadCallsOK, CallsOK
    <2>3. ListTypeOK' /\ ThreadTables'
        BY <2>1 DEF ThreadInv, ListTypeOK, ThreadTables
    <2>4. ThreadCallsOK'
        <3>1. \A Q : Sole(Q) => Sole(Q)'
            BY <2>1 DEF Sole
        <3>2. {Creating}' = {Creating} /\ Deletions' = Deletions /\ {ListRequest}' = {ListRequest}
            BY DEF Creating, Deletions, ListRequest, ThreadIds
        <3> QED BY <2>1, <2>2, <3>1, <3>2 DEF ThreadInv, ThreadCallsOK
    <2>5. ThreadButtons'
        BY <2>1, <2>2 DEF ThreadInv, ThreadButtons, Creating, ListRequest, ThreadIds
    <2>6. CreationsOK' /\ ChangesOK' /\ ListsFollow' /\ ScreenFollows'
        BY <2>1, <2>2 DEF ThreadInv, CreationsOK, ChangesOK, ListsFollow, ScreenFollows, Known
    <2> QED BY <2>3, <2>4, <2>5, <2>6 DEF ThreadInv
<1> QED BY <1>1, <1>2

(***************************************************************************)
(* Whatever is clicked in the sidebar and on the board while creations,    *)
(* deletions, titles and loads of the list are under way, and whatever is  *)
(* refused, lost or undone at the server, the sidebar is busy exactly      *)
(* while its own creation or deletion is under way, and at rest it shows   *)
(* each thread of the server once with its title, unless an answer was     *)
(* lost after it took effect or was overtaken and no list was loaded since *)
(* (store.ts, App.tsx, ThreadSidebar.tsx).                                 *)
(***************************************************************************)
THEOREM SidebarShows == ShellSpec => []SidebarShowsTheServer
<1> DEFINE Inv == part = "list" => ThreadInv
<1>1. ShellInit => Inv
    BY ThreadInitially DEF ShellInit
<1>2. Inv /\ [ShellNext]_<<part, callVars, shellVars>> => Inv'
    <2> SUFFICES ASSUME Inv, [ShellNext]_<<part, callVars, shellVars>> PROVE Inv'
        OBVIOUS
    <2>1. part' = part
        BY DEF ShellNext
    <2>2. part = "list" => ListNext \/ UNCHANGED <<callVars, listVars>>
        BY DEF ShellNext, shellVars
    <2> QED BY <2>1, <2>2, ThreadStep
<1>3. Inv => SidebarShowsTheServer
    BY ThreadInvShows DEF SidebarShowsTheServer
<1> HIDE DEF Inv
<1> QED BY <1>1, <1>2, <1>3, PTL DEF ShellSpec

-----------------------------------------------------------------------------
(* Types: of the part that is exercised, and of those that stay as they are. *)

LEMMA TypesInitially ==
    ASSUME ShellInit
    PROVE  ShellTypeOK
<1>1. ListTypeOK
    <2>1. ListInit /\ MaxThreads \in Nat \ {0}
        BY ListAssumption DEF ShellInit
    <2>2. [id |-> 1, title |-> "Thread"] \in Rows
        BY <2>1 DEF Rows
    <2>3. rows \in Seq(Rows) /\ created \in 0..MaxThreads /\ threads \in Seq(Rows)
        <3>1. CASE rows = <<>>
            BY <2>1, <3>1 DEF ListInit
        <3>2. CASE rows = <<[id |-> 1, title |-> "Thread"]>>
            BY <2>1, <2>2, <3>2 DEF ListInit
        <3> QED BY <2>1, <3>1, <3>2 DEF ListInit
    <2> QED BY <2>1, <2>3 DEF ListInit, ListTypeOK
<1>2. ModelTypeOK
    BY DEF ShellInit, ModelInit, ModelTypeOK
<1>3. EditorTypeOK
    <2>1. EditorInit
        BY DEF ShellInit
    <2>2. skillRows \subseteq SkillRowType
        <3>1. PICK born \in FirstSkills : skillRows = {SkillRow(s, TRUE) : s \in born}
            BY <2>1 DEF EditorInit
        <3>2. born \subseteq SkillIds
            BY SkillEditorAssumption
        <3>3. \A s \in SkillIds : SkillRow(s, TRUE) \in SkillRowType
            BY DEF SkillRow, SkillRowType
        <3> QED BY <3>1, <3>2, <3>3
    <2>3. DOMAIN NoFiles = {}
        BY DEF NoFiles
    <2>4. \A s \in SkillIds : DOMAIN skillFiles[s] \subseteq AllPaths
        <3>1. \A s \in SkillIds : skillFiles[s] \in {NoFiles, [p \in AllPaths |-> s]}
            BY <2>1 DEF EditorInit
        <3> QED BY <2>3, <3>1
    <2> QED BY <2>1, <2>2, <2>3, <2>4 DEF EditorInit, EditorTypeOK
<1>4. McpTypeOK
    <2>1. McpInit
        BY DEF ShellInit
    <2>2. PICK installed \in SUBSET McpIds : mcpRows = {McpRow(m, TRUE, m, Nothing) : m \in installed}
        BY <2>1 DEF McpInit
    <2>3. \A m \in McpIds : McpRow(m, TRUE, m, Nothing) \in McpRowType
        BY DEF McpRow, McpRowType
    <2>4. mcpRows \subseteq McpRowType
        BY <2>2, <2>3
    <2> QED BY <2>1, <2>4 DEF McpInit, McpTypeOK, Empty
<1> QED BY <1>1, <1>2, <1>3, <1>4 DEF ShellTypeOK

PartsInv ==
    /\ part = "list" => ThreadInv
    /\ part = "models" => ModelInv
    /\ EditorsInv

(***************************************************************************)
(* Every variable of the thread list, the model switcher and the two pages *)
(* keeps its type (store.ts, ModelSwitcher.tsx, SkillsPage.tsx,            *)
(* McpManager.tsx).                                                        *)
(***************************************************************************)
THEOREM ShellTyped == ShellSpec => []ShellTypeOK
<1> DEFINE Inv == PartsInv /\ ShellTypeOK
<1>1. ShellInit => Inv
    BY ThreadInitially, ModelInitially, SkillsInitially, McpInitially, TypesInitially
       DEF ShellInit, PartsInv, EditorsInv
<1>2. Inv /\ [ShellNext]_<<part, callVars, shellVars>> => Inv'
    <2> SUFFICES ASSUME Inv, [ShellNext]_<<part, callVars, shellVars>> PROVE Inv'
        OBVIOUS
    <2>1. part' = part
        BY DEF ShellNext
    <2>2. /\ part = "list" => ListNext \/ UNCHANGED <<callVars, listVars>>
          /\ part = "models" => ModelNext \/ UNCHANGED <<callVars, modelVars>>
          /\ part = "skills" => EditorNext \/ UNCHANGED <<callVars, editorVars>>
          /\ part = "mcps" => McpNext \/ UNCHANGED <<callVars, mcpVars>>
        BY DEF ShellNext, shellVars
    <2>3. PartsInv'
        BY <2>1, <2>2, ThreadStep, ModelStep, SkillStep, McpStep DEF PartsInv, EditorsInv
    <2>4. /\ part = "list" \/ UNCHANGED listVars
          /\ part = "models" \/ UNCHANGED modelVars
          /\ part = "skills" \/ UNCHANGED editorVars
          /\ part = "mcps" \/ UNCHANGED mcpVars
        BY DEF ShellNext, shellVars
    <2>5. /\ part = "list" => ListTypeOK'
          /\ part = "models" => ModelTypeOK'
          /\ part = "skills" => EditorTypeOK'
          /\ part = "mcps" => McpTypeOK'
        <3>1. (part = "list" => ListTypeOK') /\ (part = "models" => ModelTypeOK')
            BY <2>1, <2>3 DEF PartsInv, ThreadInv, ModelInv
        <3>2. part = "skills" => EditorTypeOK'
            BY <2>1, <2>3 DEF PartsInv, EditorsInv, SkillInv, SkillTablesOK, SkillScreenOK, SkillList, IsFiles,
                              SkillIdOrNothing, PathOrNothing, EditorTypeOK
        <3>3. part = "mcps" => McpTypeOK'
            BY <2>1, <2>3 DEF PartsInv, EditorsInv, McpInv, McpPageOK, OwnRows, OwnRow, McpIdOrNothing,
                              McpTypeOK
        <3> QED BY <3>1, <3>2, <3>3
    <2>6. ListTypeOK'
        BY <2>4, <2>5 DEF ShellTypeOK, ListTypeOK, listVars
    <2>7. ModelTypeOK'
        BY <2>4, <2>5 DEF ShellTypeOK, ModelTypeOK, modelVars
    <2>8. EditorTypeOK'
        BY <2>4, <2>5 DEF ShellTypeOK, EditorTypeOK, editorVars
    <2>9. McpTypeOK'
        BY <2>4, <2>5 DEF ShellTypeOK, McpTypeOK, mcpVars
    <2> QED BY <2>3, <2>6, <2>7, <2>8, <2>9 DEF ShellTypeOK
<1>3. Inv => ShellTypeOK
    OBVIOUS
<1> HIDE DEF Inv
<1> QED BY <1>1, <1>2, <1>3, PTL DEF ShellSpec
=============================================================================
