----------------------------- MODULE SeqFilterProofs -----------------------------
(***************************************************************************)
(* What SeqFilter's operator keeps of a sequence, how long sequences of    *)
(* the same entries are, and induction over the numbers for a set of them  *)
(* (the library's theorem takes a predicate).                              *)
(***************************************************************************)
EXTENDS SeqFilter, FiniteSetTheorems, SequenceTheorems, WellFoundedInduction, NaturalsInduction, TLAPS

LEMMA LeastNumber ==
    ASSUME NEW S \in SUBSET Nat, S # {}
    PROVE  \E m \in S : \A n \in S : m <= n
<1>1. PICK m \in S : \A n \in S : <<n, m>> \notin OpToRel(<, Nat)
    BY NatLessThanWellFounded, WFMin
<1>2. \A n \in S : ~(n < m)
    BY <1>1 DEF OpToRel
<1> QED BY <1>2

\* A set with 0 and, with each number below n, the next one has all up to n.
LEMMA Upwards ==
    ASSUME NEW n \in Nat, NEW B, 0 \in B, \A k \in 1..n : k - 1 \in B => k \in B
    PROVE  0..n \subseteq B
<1> SUFFICES ASSUME (0..n) \ B # {} PROVE FALSE
    OBVIOUS
<1>1. (0..n) \ B \in SUBSET Nat
    OBVIOUS
<1> DEFINE C == (0..n) \ B
<1>2. C \in SUBSET Nat /\ C # {}
    BY <1>1
<1>3. \A k \in C : k \in 0..n /\ k \notin B
    OBVIOUS
<1>4. \A k \in 0..n : k \notin B => k \in C
    OBVIOUS
<1> HIDE DEF C
<1>5. PICK m \in C : \A k \in C : m <= k
    BY <1>2, LeastNumber
<1>6. m \in 1..n
    BY <1>3, <1>5
<1>7. m - 1 \in B
    BY <1>3, <1>4, <1>5, <1>6
<1> QED BY <1>3, <1>5, <1>6, <1>7

-----------------------------------------------------------------------------
\* f has what is kept of each beginning of s, up to the first m entries.
IsKept(f, s, S, m) ==
    f = [n \in 0..m |-> IF n = 0 THEN <<>>
                        ELSE IF s[n] \in S THEN Append(f[n - 1], s[n]) ELSE f[n - 1]]

LEMMA SomethingIsKept ==
    ASSUME NEW s, NEW S, NEW m \in Nat
    PROVE  \E f : IsKept(f, s, S, m)
<1> DEFINE B == {n \in 0..m : \E f : IsKept(f, s, S, n)}
<1>1. 0 \in B
    <2>1. IsKept([n \in 0..0 |-> <<>>], s, S, 0)
        BY DEF IsKept
    <2> QED BY <2>1
<1>2. ASSUME NEW k \in 1..m, k - 1 \in B
      PROVE  k \in B
    <2>1. PICK f : IsKept(f, s, S, k - 1)
        BY <1>2
    <2> DEFINE x == IF s[k] \in S THEN Append(f[k - 1], s[k]) ELSE f[k - 1]
               g == [n \in 0..k |-> IF n = k THEN x ELSE f[n]]
    <2>2. \A n \in 0..(k - 1) : g[n] = f[n]
        OBVIOUS
    <2>3. \A n \in 0..(k - 1) : f[n] = IF n = 0 THEN <<>>
                        ELSE IF s[n] \in S THEN Append(f[n - 1], s[n]) ELSE f[n - 1]
        BY <2>1 DEF IsKept
    <2>4. \A n \in 0..k : g[n] = IF n = 0 THEN <<>>
                        ELSE IF s[n] \in S THEN Append(g[n - 1], s[n]) ELSE g[n - 1]
        <3> SUFFICES ASSUME NEW n \in 0..k
                     PROVE  g[n] = IF n = 0 THEN <<>>
                        ELSE IF s[n] \in S THEN Append(g[n - 1], s[n]) ELSE g[n - 1]
            OBVIOUS
        <3>1. CASE n = k
            <4>1. g[k] = x /\ g[k - 1] = f[k - 1] /\ k # 0
                BY <2>2
            <4> QED BY <3>1, <4>1
        <3>2. CASE n # k
            <4>1. n \in 0..(k - 1) /\ (n # 0 => n - 1 \in 0..(k - 1))
                BY <3>2
            <4> QED BY <2>2, <2>3, <4>1
        <3> QED BY <3>1, <3>2
    <2>5. IsKept(g, s, S, k)
        <3>1. g = [n \in 0..k |-> g[n]]
            OBVIOUS
        <3> HIDE DEF g
        <3> QED BY <2>4, <3>1 DEF IsKept
    <2> QED BY <2>5
<1> HIDE DEF B
<1>3. 0..m \subseteq B
    BY <1>1, <1>2, Upwards
<1> QED BY <1>3 DEF B

LEMMA KeepingSteps ==
    ASSUME NEW s, NEW S, Len(s) \in Nat
    PROVE  \E f : /\ f[0] = <<>> /\ Keeping(s, S) = f[Len(s)]
                  /\ \A n \in 1..Len(s) :
                        f[n] = IF s[n] \in S THEN Append(f[n - 1], s[n]) ELSE f[n - 1]
<1> DEFINE f == CHOOSE f : IsKept(f, s, S, Len(s))
<1>1. Keeping(s, S) = f[Len(s)]
    BY DEF Keeping, IsKept
<1>2. IsKept(f, s, S, Len(s))
    BY SomethingIsKept
<1> HIDE DEF f
<1>3. \A n \in 0..Len(s) : f[n] = IF n = 0 THEN <<>>
                        ELSE IF s[n] \in S THEN Append(f[n - 1], s[n]) ELSE f[n - 1]
    BY <1>2 DEF IsKept
<1>4. \A n \in 1..Len(s) : n \in 0..Len(s) /\ n # 0
    OBVIOUS
<1> QED BY <1>1, <1>3, <1>4

\* k is s without the entries that are not in S: h says where they were.
Picks(k, s, S, n, h) ==
    /\ h \in [1..Len(k) -> 1..n] /\ \A i \in 1..Len(k) : k[i] = s[h[i]] /\ s[h[i]] \in S
    /\ \A i, j \in 1..Len(k) : i < j => h[i] < h[j]
    /\ \A p \in 1..n : s[p] \in S => \E i \in 1..Len(k) : h[i] = p

LEMMA PicksOneMore ==
    ASSUME NEW T, NEW s \in Seq(T), NEW S, NEW n \in 1..Len(s), NEW k \in Seq(T), NEW h,
           Picks(k, s, S, n - 1, h)
    PROVE  \E g : Picks(IF s[n] \in S THEN Append(k, s[n]) ELSE k, s, S, n, g)
<1>1. Len(k) \in Nat /\ n \in Nat /\ 1..(n - 1) \subseteq 1..n
    OBVIOUS
<1>2. CASE s[n] \notin S
    <2>1. h \in [1..Len(k) -> 1..n]
        BY <1>1 DEF Picks
    <2>2. \A p \in 1..n : s[p] \in S => p \in 1..(n - 1)
        BY <1>2
    <2> QED BY <1>2, <2>1, <2>2 DEF Picks
<1>3. CASE s[n] \in S
    <2> DEFINE l == Append(k, s[n])
               m == Len(k)
               g == [i \in 1..(m + 1) |-> IF i = m + 1 THEN n ELSE h[i]]
    <2>1. Len(l) = m + 1 /\ l[m + 1] = s[n] /\ \A i \in 1..m : l[i] = k[i]
        BY <1>1
    <2>2. g[m + 1] = n /\ \A i \in 1..m : g[i] = h[i]
        BY <1>1
    <2>3. \A i \in 1..(m + 1) : i = m + 1 \/ i \in 1..m
        BY <1>1
    <2>4. \A i \in 1..m : h[i] \in 1..(n - 1)
        BY DEF Picks
    <2>5. g \in [1..(m + 1) -> 1..n]
        BY <1>1, <2>4
    <2> HIDE DEF l, m, g
    <2>6. m \in Nat
        BY <1>1 DEF m
    <2>7. \A i \in 1..Len(l) : l[i] = s[g[i]] /\ s[g[i]] \in S
        BY <1>3, <2>1, <2>2, <2>3 DEF Picks, m
    <2>8. ASSUME NEW i \in 1..Len(l), NEW j \in 1..Len(l), i < j PROVE g[i] < g[j]
        <3>1. i \in 1..m /\ (j = m + 1 \/ j \in 1..m)
            BY <2>1, <2>6, <2>8
        <3> QED BY <1>1, <2>2, <2>4, <2>8, <3>1 DEF Picks, m
    <2>9. ASSUME NEW p \in 1..n, s[p] \in S PROVE \E i \in 1..Len(l) : g[i] = p
        <3>1. CASE p = n
            BY <2>1, <2>2, <2>6, <3>1
        <3>2. CASE p # n
            <4>1. p \in 1..(n - 1)
                BY <1>1, <3>2
            <4>2. PICK i \in 1..m : h[i] = p
                BY <2>9, <4>1 DEF Picks, m
            <4> QED BY <2>1, <2>2, <2>6, <4>2
        <3> QED BY <3>1, <3>2
    <2>10. Picks(l, s, S, n, g)
        BY <2>1, <2>5, <2>7, <2>8, <2>9 DEF Picks
    <2> QED BY <1>3, <2>10 DEF l
<1> QED BY <1>2, <1>3

LEMMA KeepingPicks ==
    ASSUME NEW T, NEW s \in Seq(T), NEW S
    PROVE  Keeping(s, S) \in Seq(T) /\ \E h : Picks(Keeping(s, S), s, S, Len(s), h)
<1>0. Len(s) \in Nat
    OBVIOUS
<1>1. PICK f : /\ f[0] = <<>> /\ Keeping(s, S) = f[Len(s)]
               /\ \A n \in 1..Len(s) :
                    f[n] = IF s[n] \in S THEN Append(f[n - 1], s[n]) ELSE f[n - 1]
    BY <1>0, KeepingSteps
<1> DEFINE B == {n \in 0..Len(s) : f[n] \in Seq(T) /\ \E h : Picks(f[n], s, S, n, h)}
<1>2. 0 \in B
    <2> DEFINE none == [i \in 1..0 |-> 0]
    <2>1. Len(<<>>) = 0 /\ <<>> \in Seq(T) /\ 1..0 = {}
        OBVIOUS
    <2>2. none \in [1..0 -> 1..0]
        BY <2>1
    <2> HIDE DEF none
    <2>3. Picks(<<>>, s, S, 0, none)
        BY <2>1, <2>2 DEF Picks
    <2>4. f[0] \in Seq(T) /\ \E h : Picks(f[0], s, S, 0, h)
        BY <1>1, <2>1, <2>3
    <2>5. 0 \in 0..Len(s)
        BY <1>0
    <2> QED BY <2>4, <2>5
<1>3. ASSUME NEW n \in 1..Len(s), n - 1 \in B
      PROVE  n \in B
    <2> DEFINE k == f[n - 1]
               l == IF s[n] \in S THEN Append(k, s[n]) ELSE k
    <2>1. k \in Seq(T) /\ f[n] = l
        BY <1>1, <1>3
    <2>2. PICK h : Picks(k, s, S, n - 1, h)
        BY <1>3
    <2> HIDE DEF k
    <2>3. \E g : Picks(l, s, S, n, g)
        BY <2>1, <2>2, PicksOneMore
    <2>4. l \in Seq(T)
        BY <1>0, <2>1
    <2>5. n \in 0..Len(s)
        BY <1>0
    <2> QED BY <2>1, <2>3, <2>4, <2>5
<1> HIDE DEF B
<1>4. 0..Len(s) \subseteq B
    BY <1>0, <1>2, <1>3, Upwards
<1>5. Len(s) \in B
    BY <1>0, <1>4
<1> QED BY <1>1, <1>5 DEF B

\* What is kept: the entries in S, each at most as often as before.
LEMMA KeepingKeeps ==
    ASSUME NEW T, NEW s \in Seq(T), NEW S, NEW k, k = Keeping(s, S)
    PROVE  /\ k \in Seq(T) /\ Len(k) \in Nat /\ DOMAIN k = 1..Len(k)
           /\ \A i \in DOMAIN k : \E p \in DOMAIN s : k[i] = s[p] /\ s[p] \in S
           /\ \A p \in DOMAIN s : s[p] \in S => \E i \in DOMAIN k : k[i] = s[p]
           /\ \A i, j \in DOMAIN k : i # j => \E p, q \in DOMAIN s : p # q /\ k[i] = s[p] /\ k[j] = s[q]
<1>1. k \in Seq(T)
    BY KeepingPicks
<1>2. PICK h : Picks(k, s, S, Len(s), h)
    BY KeepingPicks
<1>3. DOMAIN k = 1..Len(k) /\ DOMAIN s = 1..Len(s) /\ Len(k) \in Nat
    BY <1>1
<1>4. \A i \in DOMAIN k : h[i] \in DOMAIN s /\ k[i] = s[h[i]] /\ s[h[i]] \in S
    BY <1>2, <1>3 DEF Picks
<1>5. ASSUME NEW i \in DOMAIN k, NEW j \in DOMAIN k, i # j PROVE h[i] # h[j]
    <2>1. h[i] \in Nat /\ h[j] \in Nat
        BY <1>3, <1>4
    <2>2. (i < j => h[i] < h[j]) /\ (j < i => h[j] < h[i])
        BY <1>2, <1>3 DEF Picks
    <2>3. i \in Nat /\ j \in Nat
        BY <1>3
    <2> QED BY <1>5, <2>1, <2>2, <2>3
<1>6. ASSUME NEW p \in DOMAIN s, s[p] \in S PROVE \E i \in DOMAIN k : k[i] = s[p]
    <2>1. PICK i \in DOMAIN k : h[i] = p
        BY <1>2, <1>3, <1>6 DEF Picks
    <2> QED BY <1>4, <2>1
<1> QED BY <1>1, <1>3, <1>4, <1>5, <1>6

-----------------------------------------------------------------------------
\* Two sequences without repetitions have the same length if they have the same entries.
LEMMA EntriesCounted ==
    ASSUME NEW T, NEW s \in Seq(T), \A j, k \in DOMAIN s : s[j] = s[k] => j = k,
           NEW n, n = Len(s), NEW E, E = {s[k] : k \in DOMAIN s}
    PROVE  n \in Nat /\ Cardinality(E) = n
<1>1. n \in Nat /\ DOMAIN s = 1..n
    OBVIOUS
<1>2. s \in [1..n -> E] /\ \A e \in E : \E k \in 1..n : s[k] = e
    BY <1>1
<1>3. s \in Bijection(1..n, E)
    BY <1>1, <1>2 DEF Bijection, Injection, Surjection, IsInjective
<1>4. ExistsBijection(1..n, E)
    BY <1>3 DEF ExistsBijection
<1> QED BY <1>1, <1>4, FS_CountingElements

LEMMA SameEntriesSameLength ==
    ASSUME NEW T, NEW s \in Seq(T), NEW t \in Seq(T),
           \A j, k \in DOMAIN s : s[j] = s[k] => j = k, \A j, k \in DOMAIN t : t[j] = t[k] => j = k,
           {s[k] : k \in DOMAIN s} = {t[k] : k \in DOMAIN t}
    PROVE  Len(s) = Len(t)
<1> DEFINE m == Len(s)
           n == Len(t)
           E == {s[k] : k \in DOMAIN s}
           F == {t[k] : k \in DOMAIN t}
<1>1. m = Len(s) /\ n = Len(t) /\ E = {s[k] : k \in DOMAIN s} /\ F = {t[k] : k \in DOMAIN t} /\ E = F
    OBVIOUS
<1> HIDE DEF m, n, E, F
<1>2. Cardinality(E) = m
    BY <1>1, EntriesCounted
<1>3. Cardinality(F) = n
    BY <1>1, EntriesCounted
<1> QED BY <1>1, <1>2, <1>3
=================================================================================
