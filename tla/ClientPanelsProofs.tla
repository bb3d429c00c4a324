-------------------------- MODULE ClientPanelsProofs --------------------------
(***************************************************************************)
(* Proofs about the tabs with their viewer (FileTabs), the file tree       *)
(* (WorkspaceTree) and the sections of the right panel (PanelLayout), for  *)
(* any threads, files, directories and heights.                            *)
(***************************************************************************)
EXTENDS MCClientPanels, FiniteSetTheorems, SequenceTheorems, TLAPS

\* What a viewer not carried over from another thread holds: bytes of binary
\* files of its thread, at most one read under way, and at rest the text, the
\* bytes or an error.
ViewerIsFresh ==
    (viewer.path # None /\ ~viewer.carried) =>
        /\ viewer.binary # None => viewer.binary = shownThread /\ IsBinaryFile(viewer.path)
        /\ viewer.loading <=> \E r \in reads : r.live
        /\ \A r \in reads : r.live => r.thread = shownThread /\ r.path = viewer.path
        /\ \A q, r \in reads : q.live /\ r.live => q = r
        /\ viewer.loading \/ viewer.error \/ viewer.binary # None \/ viewer.path \in contents[shownThread]

TabsInv == TabsTypeOK /\ IsFiniteSet(reads) /\ TabsConsistent /\ ViewerIsFresh

-----------------------------------------------------------------------------
\* Tabs and viewer.
ReadsOf == [n : 1..MaxReads, thread : TabThreads, path : Paths, live : BOOLEAN]

Viewers == [path : Paths \cup {None}, loading : BOOLEAN, error : BOOLEAN,
            binary : TabThreads \cup {None}, carried : BOOLEAN]

Dead == {[r EXCEPT !.live = FALSE] : r \in reads}

LEMMA FreshReadIsFree ==
    ASSUME reads \subseteq ReadsOf, IsFiniteSet(reads), Cardinality(reads) < MaxReads
    PROVE  FreshRead \in 1..MaxReads
<1> DEFINE N == {r.n : r \in reads}
           f == [r \in reads |-> r.n]
<1>1. N \subseteq 1..MaxReads
    BY DEF ReadsOf
<1>2. f \in Surjection(reads, N)
    BY DEF Surjection
<1>3. IsFiniteSet(N) /\ Cardinality(N) <= Cardinality(reads)
    <2> HIDE DEF N, f
    <2> QED BY <1>2, FS_Surjection
<1>4. MaxReads \in Nat /\ Cardinality(1..MaxReads) = MaxReads
    <2>1. MaxReads \in Nat
        BY TabsAssumption
    <2>2. Cardinality(1..MaxReads) = IF 1 > MaxReads THEN 0 ELSE MaxReads - 1 + 1
        BY <2>1, FS_Interval
    <2> QED BY <2>1, <2>2
<1>5. Cardinality(reads) \in Nat /\ Cardinality(N) \in Nat
    BY <1>3, FS_CardinalityType
<1>6. N # 1..MaxReads
    <2> HIDE DEF N
    <2> QED BY <1>3, <1>4, <1>5
<1>7. \E n \in 1..MaxReads : \A r \in reads : r.n # n
    BY <1>1, <1>6
<1> QED BY <1>7 DEF FreshRead

LEMMA DeadReads ==
    ASSUME reads \subseteq ReadsOf, IsFiniteSet(reads)
    PROVE  Dead \subseteq ReadsOf /\ IsFiniteSet(Dead) /\ \A r \in Dead : ~r.live
<1> DEFINE f == [r \in reads |-> [r EXCEPT !.live = FALSE]]
<1>1. f \in Surjection(reads, Dead)
    BY DEF Surjection, Dead
<1>2. IsFiniteSet(Dead)
    <2> HIDE DEF f
    <2> QED BY <1>1, FS_Surjection
<1>3. ASSUME NEW r \in reads
      PROVE  [r EXCEPT !.live = FALSE] \in ReadsOf /\ ~[r EXCEPT !.live = FALSE].live
    BY DEF ReadsOf
<1> QED BY <1>2, <1>3 DEF Dead

\* What a rendering leaves: the old viewer, or a new one and no live read but its own.
LEMMA RenderedViewer ==
    ASSUME TabsTypeOK, IsFiniteSet(reads), NEW t \in TabThreads, NEW files, NEW tab, NEW remount \in BOOLEAN,
           files \in [TabThreads -> Seq(Paths)], Rendered(t, files, tab, remount)
    PROVE  LET p == ActiveFile(t, files, tab)
               kept == Kept(p, remount)
               load == p # None /\ (kept => t # shownThread) /\ p \notin contents[t]
                       /\ (kept => viewer.binary = None)
               own == [n |-> FreshRead, thread |-> t, path |-> p, live |-> TRUE]
           IN  /\ p \in Paths \cup {None} /\ viewer' \in Viewers /\ viewer'.path = p
               /\ kept => /\ viewer'.binary = viewer.binary
                          /\ viewer'.carried = (t # shownThread \/ viewer.carried)
                          /\ viewer'.loading = (load \/ viewer.loading)
                          /\ viewer'.error = (~load /\ viewer.error)
               /\ ~kept => /\ viewer'.binary = None /\ viewer'.carried = FALSE
                           /\ viewer'.loading = load /\ viewer'.error = FALSE
               /\ reads' = (IF kept THEN reads ELSE Dead) \cup (IF load THEN {own} ELSE {})
               /\ reads' \subseteq ReadsOf /\ IsFiniteSet(reads')
<1> DEFINE p == ActiveFile(t, files, tab)
           kept == Kept(p, remount)
           old == IF kept THEN viewer ELSE [NoViewer EXCEPT !.path = p]
           left == IF kept THEN reads ELSE Dead
           runs == p # None /\ (kept => t # shownThread)
           load == runs /\ p \notin contents[t] /\ old.binary = None
           own == [n |-> FreshRead, thread |-> t, path |-> p, live |-> TRUE]
<1>1. p \in Paths \cup {None}
    <2>1. files[t] \in Seq(Paths)
        OBVIOUS
    <2>2. ToSet(files[t]) \subseteq Paths
        BY <2>1 DEF ToSet
    <2> QED BY <2>2 DEF ActiveFile
<1>2. viewer \in Viewers /\ reads \subseteq ReadsOf
    BY DEF TabsTypeOK, Viewers, ReadsOf
<1>3. /\ load => Cardinality(reads) < MaxReads
      /\ viewer' = [old EXCEPT !.loading = load \/ @, !.error = ~load /\ @,
                               !.carried = kept /\ (t # shownThread \/ @)]
      /\ reads' = IF load THEN left \cup {own} ELSE left
    BY Zenon DEF Rendered, Dead
<1>4. old \in Viewers /\ old.path = p
    <2>1. CASE kept
        BY <2>1, <1>2 DEF Kept
    <2>2. CASE ~kept
        BY <2>2, <1>1 DEF NoViewer, Viewers
    <2> QED BY <2>1, <2>2
<1>5. kept \in BOOLEAN /\ load \in BOOLEAN
    BY DEF Kept
<1>6. ~kept => old = [path |-> p, loading |-> FALSE, error |-> FALSE, binary |-> None, carried |-> FALSE]
    BY DEF NoViewer
<1>7. kept => old = viewer
    OBVIOUS
<1>8. load <=> (p # None /\ (kept => t # shownThread) /\ p \notin contents[t] /\ (kept => viewer.binary = None))
    BY <1>6, <1>7
<1>9. left \subseteq ReadsOf /\ IsFiniteSet(left)
    BY <1>2, DeadReads
<1>10. load => own \in ReadsOf
    BY <1>1, <1>2, <1>3, FreshReadIsFree DEF ReadsOf
<1>11. reads' = left \cup (IF load THEN {own} ELSE {})
    BY <1>3
<1>12. reads' \subseteq ReadsOf /\ IsFiniteSet(reads')
    <2>1. CASE load
        BY <2>1, <1>3, <1>9, <1>10, FS_AddElement
    <2>2. CASE ~load
        BY <2>2, <1>3, <1>9
    <2> QED BY <2>1, <2>2
<1> HIDE DEF p, kept, old, load, own, left
<1>13. /\ viewer' \in Viewers /\ viewer'.path = p
       /\ viewer'.binary = old.binary
       /\ viewer'.loading = (load \/ old.loading)
       /\ viewer'.error = (~load /\ old.error)
       /\ viewer'.carried = (kept /\ (t # shownThread \/ old.carried))
    BY <1>3, <1>4, <1>5 DEF Viewers
<1> QED BY <1>1, <1>5, <1>6, <1>7, <1>8, <1>11, <1>12, <1>13 DEF p, kept, left, own

\* A rendering of the thread on the screen, or of another one, leaves a viewer
\* that is fresh or carried over.
LEMMA RenderedIsFresh ==
    ASSUME TabsInv, NEW t \in TabThreads, NEW files, NEW tab, NEW remount \in BOOLEAN,
           files \in [TabThreads -> Seq(Paths)], Rendered(t, files, tab, remount),
           shownThread' = t,
           \A p : p = ActiveFile(t, files, tab) /\ p \in contents[t] => p \in contents'[t]
    PROVE  /\ viewer' \in Viewers /\ reads' \subseteq ReadsOf /\ IsFiniteSet(reads')
           /\ viewer'.path = ActiveFile(t, files, tab)
           /\ ViewerIsFresh'
<1> DEFINE p == ActiveFile(t, files, tab)
           kept == Kept(p, remount)
           load == p # None /\ (kept => t # shownThread) /\ p \notin contents[t]
                   /\ (kept => viewer.binary = None)
           own == [n |-> FreshRead, thread |-> t, path |-> p, live |-> TRUE]
<1>1. /\ p \in Paths \cup {None} /\ viewer' \in Viewers /\ viewer'.path = p
      /\ kept => /\ viewer'.binary = viewer.binary
                 /\ viewer'.carried = (t # shownThread \/ viewer.carried)
                 /\ viewer'.loading = (load \/ viewer.loading)
                 /\ viewer'.error = (~load /\ viewer.error)
      /\ ~kept => /\ viewer'.binary = None /\ viewer'.carried = FALSE
                  /\ viewer'.loading = load /\ viewer'.error = FALSE
      /\ reads' = (IF kept THEN reads ELSE Dead) \cup (IF load THEN {own} ELSE {})
      /\ reads' \subseteq ReadsOf /\ IsFiniteSet(reads')
    BY RenderedViewer DEF TabsInv
<1>2. \A r \in Dead : ~r.live
    BY DeadReads DEF TabsInv, TabsTypeOK, ReadsOf
<1>3. own.live = TRUE /\ own.thread = t /\ own.path = p
    OBVIOUS
<1>4. load => p # None /\ p \notin contents[t]
    OBVIOUS
<1>5. ~kept /\ p # None => (load <=> p \notin contents[t])
    OBVIOUS
<1>6. kept => viewer.path = p
    BY DEF Kept
<1>7. kept /\ t = shownThread => ~load
    OBVIOUS
<1>8. p \in contents[t] => p \in contents'[t]
    OBVIOUS
<1> HIDE DEF p, kept, load, own
<1>9. ASSUME viewer'.path # None, ~viewer'.carried
      PROVE  /\ viewer'.binary # None => viewer'.binary = shownThread' /\ IsBinaryFile(viewer'.path)
             /\ viewer'.loading <=> \E r \in reads' : r.live
             /\ \A r \in reads' : r.live => r.thread = shownThread' /\ r.path = viewer'.path
             /\ \A q, r \in reads' : q.live /\ r.live => q = r
             /\ viewer'.loading \/ viewer'.error \/ viewer'.binary # None
                   \/ viewer'.path \in contents'[shownThread']
    <2>1. CASE ~kept
        <3>1. \A r \in reads' : r.live => load /\ r = own
            BY <1>1, <1>2, <2>1
        <3>2. load => own \in reads'
            BY <1>1
        <3>3. viewer'.loading = load /\ viewer'.binary = None
            BY <1>1, <2>1
        <3>4. load \/ p \in contents'[t]
            BY <1>1, <1>5, <1>8, <1>9, <2>1
        <3> QED BY <3>1, <3>2, <3>3, <3>4, <1>1, <1>3
    <2>2. CASE kept
        <3>1. t = shownThread /\ ~viewer.carried /\ viewer.path = p
            BY <1>1, <1>6, <1>9, <2>2
        <3>2. ~load
            BY <2>2, <3>1, <1>7
        <3>3. /\ reads' = reads /\ viewer'.binary = viewer.binary /\ viewer'.loading = viewer.loading
              /\ viewer'.error = viewer.error
            BY <1>1, <2>2, <3>2 DEF TabsInv, TabsTypeOK
        <3>4. viewer.path # None
            BY <1>1, <1>9, <3>1
        <3>5. /\ viewer.binary # None => viewer.binary = shownThread /\ IsBinaryFile(viewer.path)
              /\ viewer.loading <=> \E r \in reads : r.live
              /\ \A r \in reads : r.live => r.thread = shownThread /\ r.path = viewer.path
              /\ \A q, r \in reads : q.live /\ r.live => q = r
              /\ viewer.loading \/ viewer.error \/ viewer.binary # None
                    \/ viewer.path \in contents[shownThread]
            BY <3>1, <3>4 DEF TabsInv, ViewerIsFresh
        <3> QED BY <1>1, <1>8, <3>1, <3>3, <3>5
    <2> QED BY <2>1, <2>2
<1>10. ViewerIsFresh'
    BY <1>9 DEF ViewerIsFresh
<1> QED BY <1>1, <1>10 DEF p

\* The tabs of a thread: the active one is the agent's or that of an open file,
\* and no file has two.
TabsOfThread(files, tab) ==
    /\ tab \in {Agent} \cup ToSet(files)
    /\ \A i, j \in DOMAIN files : files[i] = files[j] => i = j

LEMMA OpenedTabs ==
    ASSUME NEW s \in Seq(Paths), NEW p \in Paths, \A i, j \in DOMAIN s : s[i] = s[j] => i = j
    PROVE  LET files == IF p \in ToSet(s) THEN s ELSE Append(s, p)
           IN  /\ files \in Seq(Paths) /\ TabsOfThread(files, p)
               /\ ToSet(s) \subseteq ToSet(files)
<1>1. CASE p \in ToSet(s)
    BY <1>1 DEF TabsOfThread
<1>2. CASE p \notin ToSet(s)
    <2> DEFINE files == Append(s, p)
    <2>1. /\ files \in Seq(Paths) /\ Len(files) = Len(s) + 1 /\ Len(s) \in Nat
          /\ DOMAIN files = 1..Len(s) + 1 /\ DOMAIN s = 1..Len(s)
          /\ files[Len(s) + 1] = p /\ \A i \in 1..Len(s) : files[i] = s[i]
        OBVIOUS
    <2> HIDE DEF files
    <2>2. \A i \in DOMAIN files : (i \in DOMAIN s /\ files[i] = s[i]) \/ (i = Len(s) + 1 /\ files[i] = p)
        BY <2>1
    <2>3. \A i \in DOMAIN s : s[i] # p
        BY <1>2 DEF ToSet
    <2>4. \A i, j \in DOMAIN files : files[i] = files[j] => i = j
        BY <2>2, <2>3
    <2>5. p \in ToSet(files) /\ ToSet(s) \subseteq ToSet(files)
        BY <2>1 DEF ToSet
    <2> QED BY <1>2, <2>1, <2>4, <2>5 DEF TabsOfThread, files
<1> QED BY <1>1, <1>2

LEMMA RemainingTabs ==
    ASSUME TabsTypeOK, TabsConsistent, NEW t \in TabThreads, NEW p \in ToSet(openFiles[t])
    PROVE  /\ Remaining(t, p) \in Seq(Paths)
           /\ TabsOfThread(Remaining(t, p), NewActive(t, p))
           /\ ToSet(Remaining(t, p)) = ToSet(openFiles[t]) \ {p}
           /\ activeTab[t] = p => NewActive(t, p) # p
<1> DEFINE s == openFiles[t]
           k == TabIndex(t, p)
           rest == Remaining(t, p)
<1>1. s \in Seq(Paths) /\ DOMAIN s = 1..Len(s) /\ Len(s) \in Nat
    BY DEF TabsTypeOK
<1>2. \A i, j \in DOMAIN s : s[i] = s[j] => i = j
    BY DEF TabsConsistent
<1>3. k \in DOMAIN s /\ s[k] = p
    BY DEF TabIndex, ToSet
<1>4. \A i \in DOMAIN s : s[i] = p => i = k
    BY <1>2, <1>3
<1>5. rest = SubSeq(s, 1, k - 1) \o SubSeq(s, k + 1, Len(s))
    BY DEF Remaining, RemoveAt
<1> HIDE DEF s, k, rest
<1>6. /\ SubSeq(s, 1, k - 1) \in Seq(Paths) /\ Len(SubSeq(s, 1, k - 1)) = k - 1
      /\ SubSeq(s, k + 1, Len(s)) \in Seq(Paths) /\ Len(SubSeq(s, k + 1, Len(s))) = Len(s) - k
      /\ \A i \in 1..k - 1 : SubSeq(s, 1, k - 1)[i] = s[i]
      /\ \A i \in 1..Len(s) - k : SubSeq(s, k + 1, Len(s))[i] = s[k + i]
    BY <1>1, <1>3
<1>7. /\ rest \in Seq(Paths) /\ Len(rest) = Len(s) - 1 /\ DOMAIN rest = 1..Len(s) - 1
      /\ \A i \in 1..k - 1 : rest[i] = s[i]
      /\ \A i \in k..Len(s) - 1 : rest[i] = s[i + 1]
    <2> DEFINE a == SubSeq(s, 1, k - 1)
               b == SubSeq(s, k + 1, Len(s))
    <2>1. /\ a \in Seq(Paths) /\ Len(a) = k - 1 /\ b \in Seq(Paths) /\ Len(b) = Len(s) - k
          /\ \A i \in 1..k - 1 : a[i] = s[i]
          /\ \A i \in 1..Len(s) - k : b[i] = s[k + i]
        BY <1>6
    <2>2. rest = a \o b
        BY <1>5
    <2>3. k \in Nat /\ k >= 1 /\ k <= Len(s)
        BY <1>1, <1>3
    <2> HIDE DEF a, b
    <2>4. rest \in Seq(Paths) /\ Len(rest) = Len(a) + Len(b)
        <3>1. a \o b \in Seq(Paths)
            BY <2>1
        <3>2. Len(a \o b) = Len(a) + Len(b)
            BY <2>1
        <3> QED BY <3>1, <3>2, <2>2, Zenon
    <2>5. Len(rest) = Len(s) - 1
        BY <2>1, <2>3, <2>4, <1>1
    <2>6. ASSUME NEW i \in 1..k - 1 PROVE rest[i] = s[i]
        <3>1. rest[i] = a[i]
            BY <2>1, <2>2, <2>3
        <3> QED BY <3>1, <2>1
    <2>7. ASSUME NEW i \in k..Len(s) - 1 PROVE rest[i] = s[i + 1]
        <3>1. i - (k - 1) \in 1..Len(s) - k /\ i = Len(a) + (i - (k - 1)) /\ k + (i - (k - 1)) = i + 1
            BY <2>1, <2>3, <1>1
        <3>2. rest[Len(a) + (i - (k - 1))] = b[i - (k - 1)]
            BY <3>1, <2>1, <2>2, <2>3
        <3>3. b[i - (k - 1)] = s[k + (i - (k - 1))]
            BY <3>1, <2>1
        <3> QED BY <3>1, <3>2, <3>3
    <2> QED BY <2>4, <2>5, <2>6, <2>7
<1>8. \A i \in DOMAIN rest : \E j \in DOMAIN s : j # k /\ rest[i] = s[j] /\ (IF i < k THEN j = i ELSE j = i + 1)
    BY <1>1, <1>3, <1>7
<1>9. \A j \in DOMAIN s : j # k => \E i \in DOMAIN rest : rest[i] = s[j]
    <2> SUFFICES ASSUME NEW j \in DOMAIN s, j # k
                 PROVE  \E i \in DOMAIN rest : rest[i] = s[j]
        OBVIOUS
    <2>1. CASE j < k
        <3>1. j \in DOMAIN rest /\ rest[j] = s[j]
            BY <2>1, <1>1, <1>3, <1>7
        <3> QED BY <3>1
    <2>2. CASE j > k
        <3>1. j - 1 \in DOMAIN rest /\ rest[j - 1] = s[j - 1 + 1] /\ j - 1 + 1 = j
            BY <2>2, <1>1, <1>3, <1>7
        <3> QED BY <3>1
    <2> QED BY <2>1, <2>2, <1>1, <1>3
<1>10. \A i, j \in DOMAIN rest : rest[i] = rest[j] => i = j
    <2> SUFFICES ASSUME NEW i \in DOMAIN rest, NEW j \in DOMAIN rest, rest[i] = rest[j]
                 PROVE  i = j
        OBVIOUS
    <2>1. PICK a \in DOMAIN s : rest[i] = s[a] /\ a # k /\ (IF i < k THEN a = i ELSE a = i + 1)
        BY <1>8
    <2>2. PICK b \in DOMAIN s : rest[j] = s[b] /\ b # k /\ (IF j < k THEN b = j ELSE b = j + 1)
        BY <1>8
    <2>3. a = b
        BY <2>1, <2>2, <1>2
    <2> QED BY <2>1, <2>2, <2>3, <1>1, <1>3, <1>7
<1>11. ToSet(rest) = ToSet(s) \ {p}
    BY <1>3, <1>4, <1>8, <1>9 DEF ToSet
<1>12. NewActive(t, p) \in {Agent} \cup ToSet(rest) /\ (activeTab[t] = p => NewActive(t, p) # p)
    <2>1. CASE activeTab[t] # p
        <3>1. NewActive(t, p) = activeTab[t]
            BY <2>1 DEF NewActive
        <3>2. activeTab[t] \in {Agent} \cup ToSet(s)
            BY DEF TabsConsistent, s
        <3> QED BY <2>1, <3>1, <3>2, <1>11
    <2>2. CASE activeTab[t] = p /\ rest = <<>>
        <3>1. NewActive(t, p) = Agent
            BY <2>2 DEF NewActive, rest
        <3>2. p \in Paths
            BY <1>1, <1>3
        <3>3. Agent \notin Paths
            BY TabsAssumption
        <3> QED BY <3>1, <3>2, <3>3
    <2>3. CASE activeTab[t] = p /\ rest # <<>>
        <3>1. NewActive(t, p) = IF k > 1 THEN rest[k - 1] ELSE rest[1]
            BY <2>3 DEF NewActive, rest, k
        <3>2. 1 \in DOMAIN rest /\ (k > 1 => k - 1 \in DOMAIN rest)
            BY <2>3, <1>1, <1>3, <1>7
        <3>3. NewActive(t, p) \in ToSet(rest)
            BY <3>1, <3>2 DEF ToSet
        <3> QED BY <3>3, <1>11
    <2> QED BY <2>1, <2>2, <2>3
<1> QED BY <1>7, <1>10, <1>11, <1>12 DEF TabsOfThread, rest, s

LEMMA RenderedKeeps ==
    ASSUME TabsInv, NEW t \in TabThreads, NEW files \in [TabThreads -> Seq(Paths)],
           NEW tab \in [TabThreads -> Paths \cup {Agent}], NEW remount \in BOOLEAN,
           Rendered(t, files, tab, remount),
           shownThread' = t, openFiles' = files, activeTab' = tab,
           \A u \in TabThreads : TabsOfThread(files[u], tab[u]),
           contents' \in [TabThreads -> SUBSET Paths], late' \subseteq TabThreads \X Paths,
           \A u \in TabThreads : \A p \in contents'[u] : p \in ToSet(files[u]) \/ <<u, p>> \in late',
           \A p : p = ActiveFile(t, files, tab) /\ p \in contents[t] => p \in contents'[t]
    PROVE  TabsInv'
<1>1. /\ viewer' \in Viewers /\ reads' \subseteq ReadsOf /\ IsFiniteSet(reads')
      /\ viewer'.path = ActiveFile(t, files, tab)
      /\ ViewerIsFresh'
    BY RenderedIsFresh
<1>2. TabsTypeOK'
    BY <1>1 DEF TabsTypeOK, Viewers, ReadsOf
<1>3. TabsConsistent'
    BY <1>1 DEF TabsConsistent, TabsOfThread
<1> QED BY <1>1, <1>2, <1>3 DEF TabsInv

LEMMA TabsFacts ==
    ASSUME TabsInv
    PROVE  /\ shownThread \in TabThreads
           /\ openFiles \in [TabThreads -> Seq(Paths)]
           /\ activeTab \in [TabThreads -> Paths \cup {Agent}]
           /\ contents \in [TabThreads -> SUBSET Paths] /\ late \subseteq TabThreads \X Paths
           /\ \A u \in TabThreads : TabsOfThread(openFiles[u], activeTab[u])
           /\ \A u \in TabThreads : \A p \in contents[u] : p \in ToSet(openFiles[u]) \/ <<u, p>> \in late
BY DEF TabsInv, TabsTypeOK, TabsConsistent, TabsOfThread

LEMMA OpenFileKeeps ==
    ASSUME TabsInv, NEW p \in Paths, OpenFile(p)
    PROVE  TabsInv'
<1> DEFINE t == shownThread
           s == IF p \in ToSet(openFiles[t]) THEN openFiles[t] ELSE Append(openFiles[t], p)
           files == IF p \in ToSet(openFiles[t]) THEN openFiles
                    ELSE [openFiles EXCEPT ![t] = Append(@, p)]
           tab == [activeTab EXCEPT ![t] = p]
<1>1. /\ openFiles' = files /\ activeTab' = tab /\ Rendered(t, files, tab, FALSE)
      /\ shownThread' = t /\ contents' = contents /\ late' = late
    BY DEF OpenFile
<1>2. s \in Seq(Paths) /\ TabsOfThread(s, p) /\ ToSet(openFiles[t]) \subseteq ToSet(s)
    BY TabsFacts, OpenedTabs DEF TabsOfThread
<1>3. /\ files \in [TabThreads -> Seq(Paths)] /\ tab \in [TabThreads -> Paths \cup {Agent}]
      /\ files[t] = s /\ tab[t] = p
      /\ \A u \in TabThreads : u # t => files[u] = openFiles[u] /\ tab[u] = activeTab[u]
    <2>1. openFiles[t] \in Seq(Paths) /\ Append(openFiles[t], p) \in Seq(Paths)
        BY TabsFacts
    <2> QED BY <2>1, TabsFacts
<1> HIDE DEF s, files, tab
<1>4. \A u \in TabThreads : TabsOfThread(files[u], tab[u]) /\ ToSet(openFiles[u]) \subseteq ToSet(files[u])
    BY <1>2, <1>3, TabsFacts
<1>5. \A u \in TabThreads : \A q \in contents'[u] : q \in ToSet(files[u]) \/ <<u, q>> \in late'
    BY <1>1, <1>4, TabsFacts
<1> QED BY <1>1, <1>3, <1>4, <1>5, TabsFacts, RenderedKeeps

LEMMA CloseFileKeeps ==
    ASSUME TabsInv, NEW p \in Paths, CloseFile(p)
    PROVE  TabsInv'
<1> DEFINE t == shownThread
           s == Remaining(t, p)
           files == [openFiles EXCEPT ![t] = s]
           tab == [activeTab EXCEPT ![t] = NewActive(t, p)]
<1>1. /\ openFiles' = files /\ activeTab' = tab /\ Rendered(t, files, tab, FALSE)
      /\ shownThread' = t /\ contents' = [contents EXCEPT ![t] = @ \ {p}] /\ late' = late \ {<<t, p>>}
      /\ p \in ToSet(openFiles[t])
    BY DEF CloseFile
<1>2. t \in TabThreads
    BY TabsFacts
<1>3. /\ s \in Seq(Paths) /\ TabsOfThread(s, NewActive(t, p))
      /\ ToSet(s) = ToSet(openFiles[t]) \ {p}
      /\ activeTab[t] = p => NewActive(t, p) # p
    BY <1>1, <1>2, RemainingTabs DEF TabsInv
<1>4. NewActive(t, p) \in Paths \cup {Agent}
    <2>1. ToSet(s) \subseteq Paths
        BY <1>3 DEF ToSet
    <2> QED BY <2>1, <1>3 DEF TabsOfThread
<1>5. ActiveFile(t, files, tab) # p \/ p = None
    <2>1. files[t] = s
        BY <1>2, TabsFacts
    <2> QED BY <2>1, <1>3 DEF ActiveFile
<1>6. /\ files \in [TabThreads -> Seq(Paths)] /\ tab \in [TabThreads -> Paths \cup {Agent}]
      /\ files[t] = s /\ tab[t] = NewActive(t, p)
      /\ \A u \in TabThreads : u # t => files[u] = openFiles[u] /\ tab[u] = activeTab[u]
    BY <1>2, <1>3, <1>4, TabsFacts
<1>7. contents' \in [TabThreads -> SUBSET Paths] /\ late' \subseteq TabThreads \X Paths
    BY <1>1, TabsFacts
<1>8. /\ contents'[t] = contents[t] \ {p}
      /\ \A u \in TabThreads : u # t => contents'[u] = contents[u]
    BY <1>1, TabsFacts
<1>9. None \notin Paths
    BY TabsAssumption
<1> HIDE DEF s, files, tab
<1>10. \A u \in TabThreads : TabsOfThread(files[u], tab[u])
    BY <1>3, <1>6, TabsFacts
<1>11. \A u \in TabThreads : \A q \in contents'[u] : q \in ToSet(files[u]) \/ <<u, q>> \in late'
    <2> SUFFICES ASSUME NEW u \in TabThreads, NEW q \in contents'[u]
                 PROVE  q \in ToSet(files[u]) \/ <<u, q>> \in late'
        OBVIOUS
    <2>1. q \in ToSet(openFiles[u]) \/ <<u, q>> \in late
        BY <1>8, TabsFacts
    <2>2. u = t => q # p
        BY <1>8
    <2>3. q \in ToSet(openFiles[u]) => q \in ToSet(files[u])
        BY <2>2, <1>3, <1>6
    <2>4. <<u, q>> # <<t, p>>
        BY <2>2
    <2> QED BY <2>1, <2>3, <2>4, <1>1
<1>12. \A q : q = ActiveFile(t, files, tab) /\ q \in contents[t] => q \in contents'[t]
    BY <1>5, <1>8, <1>9
<1> QED BY <1>1, <1>2, <1>6, <1>7, <1>10, <1>11, <1>12, RenderedKeeps

LEMMA SelectTabKeeps ==
    ASSUME TabsInv, NEW x \in Paths \cup {Agent}, SelectTab(x)
    PROVE  TabsInv'
<1> DEFINE tab == [activeTab EXCEPT ![shownThread] = x]
<1>1. /\ activeTab' = tab /\ Rendered(shownThread, openFiles, tab, FALSE)
      /\ x \in {Agent} \cup ToSet(openFiles[shownThread])
      /\ UNCHANGED <<shownThread, openFiles, contents, late>>
    BY DEF SelectTab
<1>2. /\ tab \in [TabThreads -> Paths \cup {Agent}] /\ tab[shownThread] = x
      /\ \A u \in TabThreads : u # shownThread => tab[u] = activeTab[u]
    BY TabsFacts
<1> HIDE DEF tab
<1>3. \A u \in TabThreads : TabsOfThread(openFiles[u], tab[u])
    BY <1>1, <1>2, TabsFacts DEF TabsOfThread
<1> QED BY <1>1, <1>2, <1>3, TabsFacts, RenderedKeeps

LEMMA ShowThreadKeeps ==
    ASSUME TabsInv, NEW t \in TabThreads, ShowThread(t)
    PROVE  TabsInv'
BY TabsFacts, RenderedKeeps DEF ShowThread

LEMMA ReturnKeeps ==
    ASSUME TabsInv, Return
    PROVE  TabsInv'
BY TabsFacts, RenderedKeeps DEF Return

\* The answer to a read, whatever it brings: the text for a thread, bytes for
\* the viewer (its own thread's), or an error.
LEMMA ReadAnswerKeeps ==
    ASSUME TabsInv, NEW r \in reads, reads' = reads \ {r},
           NEW bytes \in {None, r.thread}, NEW fails \in BOOLEAN,
           bytes # None => IsBinaryFile(r.path),
           viewer' = IF r.live
                     THEN [viewer EXCEPT !.binary = IF bytes = None THEN @ ELSE bytes, !.loading = FALSE,
                                         !.error = fails \/ @]
                     ELSE viewer,
           contents' \in [TabThreads -> SUBSET Paths],
           \A u \in TabThreads : contents[u] \subseteq contents'[u],
           bytes # None \/ fails \/ r.path \in contents'[r.thread],
           late' \subseteq TabThreads \X Paths,
           \A u \in TabThreads : \A p \in contents'[u] : p \in ToSet(openFiles[u]) \/ <<u, p>> \in late',
           UNCHANGED <<shownThread, openFiles, activeTab>>
    PROVE  TabsInv'
<1>1. viewer \in Viewers /\ reads \subseteq ReadsOf /\ IsFiniteSet(reads) /\ ViewerIsFresh
    BY DEF TabsInv, TabsTypeOK, Viewers, ReadsOf
<1>2. r.thread \in TabThreads /\ r.live \in BOOLEAN /\ None \notin TabThreads
    BY <1>1, TabsAssumption DEF ReadsOf
<1>3. /\ viewer' \in Viewers /\ viewer'.path = viewer.path /\ viewer'.carried = viewer.carried
      /\ r.live => /\ viewer'.loading = FALSE
                   /\ viewer'.binary = IF bytes = None THEN viewer.binary ELSE bytes
                   /\ viewer'.error = (fails \/ viewer.error)
      /\ ~r.live => viewer' = viewer
    BY <1>1, <1>2 DEF Viewers
<1>4. reads' \subseteq ReadsOf /\ IsFiniteSet(reads')
    BY <1>1, FS_Subset
<1>5. ASSUME viewer'.path # None, ~viewer'.carried
      PROVE  /\ viewer'.binary # None => viewer'.binary = shownThread' /\ IsBinaryFile(viewer'.path)
             /\ viewer'.loading <=> \E q \in reads' : q.live
             /\ \A q \in reads' : q.live => q.thread = shownThread' /\ q.path = viewer'.path
             /\ \A q, s \in reads' : q.live /\ s.live => q = s
             /\ viewer'.loading \/ viewer'.error \/ viewer'.binary # None
                   \/ viewer'.path \in contents'[shownThread']
    <2>1. /\ viewer.binary # None => viewer.binary = shownThread /\ IsBinaryFile(viewer.path)
          /\ viewer.loading <=> \E q \in reads : q.live
          /\ \A q \in reads : q.live => q.thread = shownThread /\ q.path = viewer.path
          /\ \A q, s \in reads : q.live /\ s.live => q = s
          /\ viewer.loading \/ viewer.error \/ viewer.binary # None \/ viewer.path \in contents[shownThread]
        BY <1>1, <1>3, <1>5 DEF ViewerIsFresh
    <2>2. shownThread \in TabThreads
        BY TabsFacts
    <2>3. CASE r.live
        <3>1. r.thread = shownThread /\ r.path = viewer.path
            BY <2>1, <2>3
        <3>2. \A q \in reads' : ~q.live
            BY <2>1, <2>3
        <3>3. viewer'.binary # None => viewer'.binary = shownThread' /\ IsBinaryFile(viewer'.path)
            BY <1>3, <2>1, <2>3, <3>1
        <3>4. viewer'.loading \/ viewer'.error \/ viewer'.binary # None \/ viewer'.path \in contents'[shownThread']
            <4>1. CASE bytes # None
                BY <4>1, <1>3, <2>3
            <4>2. CASE fails
                BY <4>2, <1>3, <2>3
            <4>3. CASE r.path \in contents'[r.thread]
                BY <4>3, <1>3, <3>1
            <4> QED BY <4>1, <4>2, <4>3
        <3>5. ~viewer'.loading
            BY <1>3, <2>3
        <3> QED BY <3>2, <3>3, <3>4, <3>5
    <2>4. CASE ~r.live
        <3>1. viewer' = viewer /\ shownThread' = shownThread
            BY <1>3, <2>4
        <3>2. (\E q \in reads' : q.live) <=> \E q \in reads : q.live
            BY <2>4
        <3>3. viewer.path \in contents[shownThread] => viewer'.path \in contents'[shownThread']
            BY <2>2, <3>1
        <3> QED BY <2>1, <3>1, <3>2, <3>3
    <2> QED BY <2>3, <2>4
<1>6. ViewerIsFresh'
    BY <1>5 DEF ViewerIsFresh
<1>7. TabsTypeOK'
    BY <1>3, <1>4, TabsFacts DEF TabsTypeOK, Viewers, ReadsOf
<1>8. TabsConsistent'
    BY <1>3 DEF TabsInv, TabsConsistent, ActiveFile
<1> QED BY <1>4, <1>6, <1>7, <1>8 DEF TabsInv

LEMMA TextReadKeeps ==
    ASSUME TabsInv, NEW r \in reads, TextRead(r)
    PROVE  TabsInv'
<1>1. viewer \in Viewers /\ r \in ReadsOf /\ r.thread \in TabThreads /\ r.path \in Paths
    BY DEF TabsInv, TabsTypeOK, Viewers, ReadsOf
<1>2. /\ reads' = reads \ {r}
      /\ contents' = [contents EXCEPT ![r.thread] = @ \cup {r.path}]
      /\ late' = IF r.path \in ToSet(openFiles[r.thread]) THEN late ELSE late \cup {<<r.thread, r.path>>}
      /\ viewer' = IF r.live THEN [viewer EXCEPT !.loading = FALSE] ELSE viewer
      /\ UNCHANGED <<shownThread, openFiles, activeTab>>
    BY DEF TextRead
<1>3. viewer' = IF r.live
                THEN [viewer EXCEPT !.binary = IF None = None THEN @ ELSE None, !.loading = FALSE,
                                    !.error = FALSE \/ @]
                ELSE viewer
    BY <1>1, <1>2 DEF Viewers
<1>4. /\ contents' \in [TabThreads -> SUBSET Paths]
      /\ contents'[r.thread] = contents[r.thread] \cup {r.path}
      /\ \A u \in TabThreads : u # r.thread => contents'[u] = contents[u]
    BY <1>1, <1>2, TabsFacts
<1>5. late' \subseteq TabThreads \X Paths /\ late \subseteq late'
    BY <1>1, <1>2, TabsFacts
<1>6. \A u \in TabThreads : \A p \in contents'[u] : p \in ToSet(openFiles[u]) \/ <<u, p>> \in late'
    BY <1>2, <1>4, <1>5, TabsFacts
<1>7. \A u \in TabThreads : contents[u] \subseteq contents'[u]
    BY <1>4
<1>8. r.path \in contents'[r.thread]
    BY <1>4
<1> QED BY <1>2, <1>3, <1>4, <1>5, <1>6, <1>7, <1>8, ReadAnswerKeeps

LEMMA BytesReadKeeps ==
    ASSUME TabsInv, NEW r \in reads, BytesRead(r) \/ ReadFails(r)
    PROVE  TabsInv'
<1>1. viewer \in Viewers /\ r.thread \in TabThreads /\ None \notin TabThreads
    BY TabsAssumption DEF TabsInv, TabsTypeOK, Viewers, ReadsOf
<1>2. reads' = reads \ {r} /\ UNCHANGED <<shownThread, openFiles, activeTab, contents, late>>
    BY DEF BytesRead, ReadFails
<1>3. CASE BytesRead(r)
    <2>1. viewer' = IF r.live
                    THEN [viewer EXCEPT !.binary = IF r.thread = None THEN @ ELSE r.thread, !.loading = FALSE,
                                        !.error = FALSE \/ @]
                    ELSE viewer
        BY <1>1, <1>3 DEF BytesRead, Viewers
    <2>2. IsBinaryFile(r.path) /\ r.thread # None
        BY <1>1, <1>3 DEF BytesRead
    <2> QED BY <1>2, <2>1, <2>2, TabsFacts, ReadAnswerKeeps
<1>4. CASE ReadFails(r)
    <2>1. viewer' = IF r.live
                    THEN [viewer EXCEPT !.binary = IF None = None THEN @ ELSE None, !.loading = FALSE,
                                        !.error = TRUE \/ @]
                    ELSE viewer
        BY <1>1, <1>4 DEF ReadFails, Viewers
    <2> QED BY <1>2, <2>1, TabsFacts, ReadAnswerKeeps
<1> QED BY <1>3, <1>4

LEMMA NoTabs == <<>> \in Seq(Paths) /\ ToSet(<<>>) = {} /\ DOMAIN <<>> = {}
BY DEF ToSet

LEMMA TabsInvInit == TabsInit => TabsInv
<1> SUFFICES ASSUME TabsInit PROVE TabsInv
    OBVIOUS
<1> USE TabsAssumption DEF TabsInit
<1>1. \A t \in TabThreads : openFiles[t] = <<>> /\ activeTab[t] = Agent /\ contents[t] = {}
    OBVIOUS
<1>2. openFiles \in [TabThreads -> Seq(Paths)]
    BY NoTabs
<1>3. viewer \in Viewers /\ viewer.path = None
    BY DEF NoViewer, Viewers
<1>4. TabsTypeOK
    BY <1>2, <1>3 DEF TabsTypeOK, Viewers
<1>5. TabsConsistent
    <2>1. shownThread \in TabThreads
        OBVIOUS
    <2>2. ActiveFile(shownThread, openFiles, activeTab) = None
        BY <1>1, NoTabs, <2>1 DEF ActiveFile
    <2> QED BY <1>1, <1>3, NoTabs, <2>2 DEF TabsConsistent
<1> QED BY <1>3, <1>4, <1>5, FS_EmptySet DEF TabsInv, ViewerIsFresh

LEMMA TabsInvNext == TabsInv /\ [TabsNext]_tabsVars => TabsInv'
<1> SUFFICES ASSUME TabsInv, [TabsNext]_tabsVars PROVE TabsInv'
    OBVIOUS
<1>1. ASSUME NEW p \in Paths, OpenFile(p) \/ CloseFile(p) PROVE TabsInv'
    BY <1>1, OpenFileKeeps, CloseFileKeeps
<1>2. ASSUME NEW x \in Paths \cup {Agent}, SelectTab(x) PROVE TabsInv'
    BY <1>2, SelectTabKeeps
<1>3. ASSUME NEW t \in TabThreads, ShowThread(t) PROVE TabsInv'
    BY <1>3, ShowThreadKeeps
<1>4. CASE Return
    BY <1>4, ReturnKeeps
<1>5. ASSUME NEW r \in reads, TextRead(r) \/ BytesRead(r) \/ ReadFails(r) PROVE TabsInv'
    BY <1>5, TextReadKeeps, BytesReadKeeps
<1>6. CASE UNCHANGED tabsVars
    BY <1>6 DEF tabsVars, TabsInv, TabsTypeOK, TabsConsistent, ViewerIsFresh, ActiveFile
<1> QED BY <1>1, <1>2, <1>3, <1>4, <1>5, <1>6 DEF TabsNext

LEMMA FreshViewerShows == TabsInv => ViewerShowsItsFile
<1> SUFFICES ASSUME TabsInv, viewer.path # None, ~viewer.carried
             PROVE  LET showing == Shows(viewer, TextOf(shownThread, viewer.path))
                    IN  /\ viewer.binary \in {None, shownThread}
                        /\ viewer.loading <=> \E r \in reads : r.live
                        /\ \A r \in reads : r.live => r.thread = shownThread /\ r.path = viewer.path
                        /\ showing # "No content"
                        /\ showing = "nothing" => viewer.path \in EmptyPaths /\ FileType(viewer.path) \in Media
    BY DEF ViewerShowsItsFile
<1> DEFINE text == TextOf(shownThread, viewer.path)
           showing == Shows(viewer, text)
<1>1. /\ viewer.binary # None => viewer.binary = shownThread /\ IsBinaryFile(viewer.path)
      /\ viewer.loading <=> \E r \in reads : r.live
      /\ \A r \in reads : r.live => r.thread = shownThread /\ r.path = viewer.path
      /\ viewer.loading \/ viewer.error \/ viewer.binary # None \/ viewer.path \in contents[shownThread]
    BY DEF TabsInv, ViewerIsFresh
<1>2. text # None <=> viewer.path \in contents[shownThread]
    BY TabsAssumption DEF TextOf, TabsInv, TabsTypeOK
<1>3. viewer.loading \/ viewer.error \/ text # None \/ viewer.binary # None
    BY <1>1, <1>2
<1>4. FileType(viewer.path) # "No content" /\ FileType(viewer.path) # "nothing"
    BY TabsAssumption DEF FileType, TabsInv, TabsTypeOK
<1>5. viewer.loading \in BOOLEAN /\ viewer.error \in BOOLEAN
    BY DEF TabsInv, TabsTypeOK
<1> HIDE DEF text
<1>6. showing # "No content"
    BY <1>3, <1>4, <1>5 DEF Shows
<1>7. showing = "nothing" => viewer.path \in EmptyPaths /\ FileType(viewer.path) \in Media
    BY <1>1, <1>3, <1>4, <1>5 DEF Shows, IsBinaryFile
<1> QED BY <1>1, <1>6, <1>7 DEF text

\* Whatever is opened, closed, selected and answered in whatever thread: every
\* active tab is the agent's or an open file's, no file has two tabs, and the
\* viewer is the active tab's (TabbedPanel's fallback never happens).
THEOREM TabsStayConsistent == TabsSpec => []TabsConsistent
<1>1. TabsInv => TabsConsistent
    BY DEF TabsInv
<1> QED BY <1>1, TabsInvInit, TabsInvNext, PTL DEF TabsSpec

\* A viewer not carried over from another thread spins exactly while its read is
\* under way, holds bytes only of the thread on the screen, and otherwise shows
\* its file or an error.
THEOREM ViewerShows == TabsSpec => []ViewerShowsItsFile
BY FreshViewerShows, TabsInvInit, TabsInvNext, PTL DEF TabsSpec

-----------------------------------------------------------------------------
\* The file tree.
LoadsOf == [from : {"panel", "picker", "history"}, step : {"path", "tree"},
            thread : TreeThreads, dir : Dirs \cup {Root},
            live : BOOLEAN, fresh : BOOLEAN, click : BOOLEAN]

\* Of some requests, those whose answers the panel counts on.
AskedIn(requests) == {l \in requests : l.from = "panel" /\ l.live /\ l.fresh}

\* A request for the path is one for the root, a click one for another directory.
ProperLoads(requests) ==
    /\ requests \subseteq LoadsOf
    /\ \A l \in requests : (l.step = "path" => l.dir = Root) /\ (l.click => l.dir # Root)

\* What the panel believes is true of these requests and this list, and no
\* directory is asked for twice.
TrueOf(requests, files, loaded, loading, spins, fails) ==
    /\ \A d \in loaded : Listing(d) \subseteq files
    /\ \A d : d \in loading <=> \E l \in AskedIn(requests) : l.step = "tree" /\ l.dir = d
    /\ spins <=> \E l \in AskedIn(requests) : l.dir = Root
    /\ ~spins /\ ~fails => Root \in loaded
    /\ \A k, l \in AskedIn(requests) : k.dir = l.dir => k = l

\* The inductive invariant of the file tree.
TreeInv ==
    /\ TreeTypeOK /\ ProperLoads(loads)
    /\ mounted => \A l \in AskedIn(loads) : l.thread = viewed
    /\ mounted /\ ~overtaken =>
          TrueOf(loads, workspaceFiles[viewed], loadedDirs, loadingDirs, refreshing, failed)

LEMMA TreeInvTells == TreeInv => PanelTellsTheTruth
<1> SUFFICES ASSUME TreeInv, mounted, ~overtaken
             PROVE  LET asked == AskedIn(loads)
                    IN  /\ \A d \in loadedDirs : Listing(d) \subseteq workspaceFiles[viewed]
                        /\ loadingDirs = {l.dir : l \in {m \in asked : m.step = "tree"}}
                        /\ refreshing <=> \E l \in asked : l.dir = Root
                        /\ ~refreshing /\ ~failed => Root \in loadedDirs
    BY DEF PanelTellsTheTruth, AskedIn
<1>1. TrueOf(loads, workspaceFiles[viewed], loadedDirs, loadingDirs, refreshing, failed)
    BY DEF TreeInv
<1> QED BY <1>1 DEF TrueOf

\* The directories a listing names are entries.
LEMMA ListingsAreEntries == \A d : Listing(d) \subseteq Entries
BY DEF Listing

\* The FileTree's own state does not matter to the panel: what is true of the
\* requests of a step is true of the loads after it.
LEMMA TreeKeeps ==
    ASSUME NEW t, NEW busy, NEW opened, NEW files, NEW exp, NEW requests,
           Tree(t, busy, opened, files, exp, requests),
           viewed' = t, mounted' = opened, t \in TreeThreads,
           files \in [TreeThreads -> SUBSET Entries], exp \subseteq Dirs, ProperLoads(requests),
           initialized' \subseteq TreeThreads, moves' \in 0..MaxMoves,
           creating' \in BOOLEAN, chat' \in BOOLEAN, mounted' \in BOOLEAN,
           refreshing' \in BOOLEAN, failed' \in BOOLEAN, overtaken' \in BOOLEAN,
           loadedDirs' \subseteq Dirs \cup {Root}, loadingDirs' \subseteq Dirs \cup {Root},
           opened => \A l \in AskedIn(requests) : l.thread = t,
           opened /\ ~overtaken' => TrueOf(requests, files[t], loadedDirs', loadingDirs', refreshing', failed')
    PROVE  TreeInv'
<1> DEFINE drawn == opened /\ ~busy /\ files[t] # {}
           Closed(l) == [l EXCEPT !.click = FALSE]
<1>1. /\ workspaceFiles' = files /\ expanded' = (IF drawn THEN exp ELSE {})
      /\ loads' = IF drawn THEN requests ELSE {Closed(l) : l \in requests}
    BY DEF Tree
<1>2. \A l \in LoadsOf : /\ Closed(l) \in LoadsOf /\ Closed(l).click = FALSE
                         /\ Closed(l).from = l.from /\ Closed(l).step = l.step /\ Closed(l).thread = l.thread
                         /\ Closed(l).dir = l.dir /\ Closed(l).live = l.live /\ Closed(l).fresh = l.fresh
    BY DEF LoadsOf
<1>3. requests \subseteq LoadsOf
    BY DEF ProperLoads
<1> HIDE DEF drawn, Closed
<1>4. ProperLoads(loads')
    BY <1>1, <1>2, <1>3 DEF ProperLoads
<1>5. drawn => AskedIn(loads') = AskedIn(requests)
    BY <1>1
<1>6. ~drawn => AskedIn(loads') = {Closed(l) : l \in AskedIn(requests)}
    BY <1>1, <1>2, <1>3 DEF AskedIn
<1>7. AskedIn(requests) \subseteq LoadsOf
    BY <1>3 DEF AskedIn
<1>8. opened => \A l \in AskedIn(loads') : l.thread = t
    BY <1>2, <1>5, <1>6, <1>7
<1>9. ASSUME opened, ~overtaken'
      PROVE  TrueOf(loads', files[t], loadedDirs', loadingDirs', refreshing', failed')
    <2> DEFINE A == AskedIn(requests)
               B == AskedIn(loads')
    <2>1. /\ \A d \in loadedDirs' : Listing(d) \subseteq files[t]
          /\ \A d : d \in loadingDirs' <=> \E l \in A : l.step = "tree" /\ l.dir = d
          /\ refreshing' <=> \E l \in A : l.dir = Root
          /\ ~refreshing' /\ ~failed' => Root \in loadedDirs'
          /\ \A k, l \in A : k.dir = l.dir => k = l
        BY <1>9 DEF TrueOf
    <2>2. \/ B = A
          \/ B = {Closed(l) : l \in A}
        BY <1>5, <1>6
    <2>3. \A l \in A : Closed(l).step = l.step /\ Closed(l).dir = l.dir
        BY <1>2, <1>7
    <2> HIDE DEF A, B
    <2>4. \A d : (\E l \in B : l.step = "tree" /\ l.dir = d) <=> \E l \in A : l.step = "tree" /\ l.dir = d
        BY <2>2, <2>3
    <2>5. (\E l \in B : l.dir = Root) <=> \E l \in A : l.dir = Root
        BY <2>2, <2>3
    <2>6. \A k, l \in B : k.dir = l.dir => k = l
        BY <2>1, <2>2, <2>3
    <2> QED BY <2>1, <2>4, <2>5, <2>6 DEF TrueOf, B
<1>10. TreeTypeOK'
    BY <1>1, <1>4 DEF TreeTypeOK, ProperLoads, LoadsOf
<1> QED BY <1>1, <1>4, <1>8, <1>9, <1>10 DEF TreeInv

LEMMA TreeFacts ==
    ASSUME TreeInv
    PROVE  /\ viewed \in TreeThreads /\ initialized \subseteq TreeThreads
           /\ creating \in BOOLEAN /\ chat \in BOOLEAN /\ mounted \in BOOLEAN
           /\ refreshing \in BOOLEAN /\ failed \in BOOLEAN /\ overtaken \in BOOLEAN
           /\ workspaceFiles \in [TreeThreads -> SUBSET Entries]
           /\ loadedDirs \subseteq Dirs \cup {Root} /\ loadingDirs \subseteq Dirs \cup {Root}
           /\ expanded \subseteq Dirs /\ moves \in 0..MaxMoves
           /\ ProperLoads(loads)
           /\ mounted => \A l \in AskedIn(loads) : l.thread = viewed
           /\ mounted /\ ~overtaken =>
                 TrueOf(loads, workspaceFiles[viewed], loadedDirs, loadingDirs, refreshing, failed)
BY DEF TreeInv, TreeTypeOK

LEMMA MoveCounts == Move /\ moves \in 0..MaxMoves => moves' \in 0..MaxMoves
BY TreeAssumption DEF Move

LEMMA RootLoads ==
    ASSUME NEW t \in TreeThreads
    PROVE  /\ ProperLoads({PanelLoad(t)}) /\ ProperLoads({PickerLoad(t)}) /\ ProperLoads({HistoryLoad(t)})
           /\ AskedIn({PanelLoad(t)}) = {PanelLoad(t)}
           /\ PanelLoad(t).thread = t /\ PanelLoad(t).dir = Root /\ PanelLoad(t).step = "path"
           /\ AskedIn({PickerLoad(t)}) = {} /\ AskedIn({HistoryLoad(t)}) = {}
BY DEF ProperLoads, AskedIn, LoadsOf, PanelLoad, PickerLoad, HistoryLoad, Load

LEMMA Requests ==
    ASSUME NEW R, NEW S
    PROVE  /\ AskedIn(R \cup S) = AskedIn(R) \cup AskedIn(S)
           /\ ProperLoads(R) /\ ProperLoads(S) => ProperLoads(R \cup S)
           /\ ProperLoads({}) /\ AskedIn({}) = {}
BY DEF AskedIn, ProperLoads

LEMMA OutdatedLoads ==
    ASSUME ProperLoads(loads)
    PROVE  ProperLoads(Outdated(loads)) /\ AskedIn(Outdated(loads)) = {}
<1> DEFINE Old(l) == [l EXCEPT !.fresh = l.from # "panel"]
<1>1. Outdated(loads) = {Old(l) : l \in loads}
    BY DEF Outdated
<1>2. \A l \in LoadsOf : /\ Old(l) \in LoadsOf /\ Old(l).fresh = (l.from # "panel")
                         /\ Old(l).from = l.from /\ Old(l).step = l.step
                         /\ Old(l).dir = l.dir /\ Old(l).click = l.click
    BY DEF LoadsOf
<1>3. \A l \in loads : l \in LoadsOf /\ (l.step = "path" => l.dir = Root) /\ (l.click => l.dir # Root)
    BY DEF ProperLoads
<1> HIDE DEF Old
<1>4. ASSUME NEW o \in Outdated(loads)
      PROVE  /\ o \in LoadsOf /\ (o.step = "path" => o.dir = Root) /\ (o.click => o.dir # Root)
             /\ o.from = "panel" => ~o.fresh
    <2>1. PICK l \in loads : o = Old(l)
        BY <1>1, <1>4
    <2> QED BY <2>1, <1>2, <1>3
<1>5. ProperLoads(Outdated(loads))
    BY <1>4 DEF ProperLoads
<1>6. AskedIn(Outdated(loads)) = {}
    BY <1>4 DEF AskedIn
<1> QED BY <1>5, <1>6

LEMMA RootLoadRequests ==
    ASSUME ProperLoads(loads), NEW t \in TreeThreads
    PROVE  LET R == Outdated(loads) \cup {PanelLoad(t)}
           IN  ProperLoads(R) /\ AskedIn(R) = {PanelLoad(t)} /\ \A l \in AskedIn(R) : l.thread = t
<1> DEFINE O == Outdated(loads)
           P == {PanelLoad(t)}
<1>1. ProperLoads(O) /\ AskedIn(O) = {}
    BY OutdatedLoads
<1>2. ProperLoads(P) /\ AskedIn(P) = P /\ \A l \in P : l.thread = t
    BY RootLoads
<1> HIDE DEF O, P
<1>3. ProperLoads(O \cup P) /\ AskedIn(O \cup P) = AskedIn(O) \cup AskedIn(P)
    BY <1>1, <1>2, Requests
<1>4. AskedIn(O \cup P) = P
    BY <1>1, <1>2, <1>3
<1> QED BY <1>2, <1>3, <1>4 DEF O, P

\* A root load begins with nothing loaded and one request.
LEMMA RootLoadIsTrue ==
    ASSUME NEW t \in TreeThreads, NEW R, AskedIn(R) = {PanelLoad(t)}, NEW files
    PROVE  TrueOf(R, files, {}, {}, TRUE, FALSE)
<1>1. \A l \in AskedIn(R) : l = PanelLoad(t) /\ l.dir = Root /\ l.step = "path"
    BY RootLoads
<1> QED BY <1>1 DEF TrueOf

\* A list that has lost nothing, or nothing but what is below the root's listing.
LEMMA GrowingList ==
    ASSUME NEW R, NEW files, NEW more, NEW loaded, NEW loading, NEW spins, NEW fails,
           TrueOf(R, files, loaded, loading, spins, fails),
           files \subseteq more \/ (Listing(Root) \subseteq more /\ loaded \subseteq {Root})
    PROVE  TrueOf(R, more, loaded, loading, spins, fails)
BY DEF TrueOf

LEMMA ShowKeeps ==
    ASSUME TreeInv, NEW t \in TreeThreads, NEW tab \in BOOLEAN, NEW busy \in BOOLEAN, Show(t, tab, busy),
           moves' \in 0..MaxMoves
    PROVE  TreeInv'
<1> DEFINE mountsChat == tab /\ ~busy /\ ~(ChatShown /\ t = viewed)
           startsOver == mounted /\ t # viewed
           history == IF mountsChat \/ t \notin initialized THEN {HistoryLoad(t)} ELSE {}
           picker == IF mountsChat THEN {PickerLoad(t)} ELSE {}
           panel == IF startsOver THEN {PanelLoad(t)} ELSE {}
           before == IF startsOver THEN Outdated(loads) ELSE loads
           requests == before \cup history \cup picker \cup panel
           files == IF startsOver THEN [workspaceFiles EXCEPT ![t] = {}] ELSE workspaceFiles
<1>1. /\ viewed' = t /\ chat' = tab /\ creating' = busy /\ initialized' = initialized \cup {t}
      /\ IF startsOver THEN BeginRootLoad ELSE KeepPanel
      /\ Tree(t, busy, mounted, files, expanded, requests)
      /\ mounted' = mounted
    BY Zenon DEF Show
<1>2. ProperLoads(requests) /\ AskedIn(requests) = AskedIn(before) \cup (IF startsOver THEN {PanelLoad(t)} ELSE {})
    <2>1. ProperLoads(before) /\ (startsOver => AskedIn(before) = {})
        BY OutdatedLoads, TreeFacts
    <2>2. ProperLoads(history) /\ AskedIn(history) = {}
        BY RootLoads, Requests
    <2>3. ProperLoads(picker) /\ AskedIn(picker) = {}
        BY RootLoads, Requests
    <2>4. ProperLoads(panel) /\ AskedIn(panel) = IF startsOver THEN {PanelLoad(t)} ELSE {}
        BY RootLoads, Requests
    <2> HIDE DEF before, history, picker, panel
    <2>5. ProperLoads(before \cup history) /\ AskedIn(before \cup history) = AskedIn(before)
        BY <2>1, <2>2, Requests
    <2> DEFINE more == before \cup history
    <2>6. ProperLoads(more) /\ AskedIn(more) = AskedIn(before)
        BY <2>5
    <2> HIDE DEF more
    <2>7. ProperLoads(more \cup picker) /\ AskedIn(more \cup picker) = AskedIn(before)
        BY <2>3, <2>6, Requests
    <2> DEFINE most == more \cup picker
    <2>8. ProperLoads(most) /\ AskedIn(most) = AskedIn(before)
        BY <2>7
    <2> HIDE DEF most
    <2>9. ProperLoads(most \cup panel) /\ AskedIn(most \cup panel) = AskedIn(before) \cup AskedIn(panel)
        BY <2>4, <2>8, Requests
    <2> QED BY <2>4, <2>9 DEF most, more
<1>3. files \in [TreeThreads -> SUBSET Entries]
    BY TreeFacts
<1> HIDE DEF mountsChat, history, picker, panel, requests, files
<1>4. CASE startsOver
    <2>1. AskedIn(requests) = {PanelLoad(t)}
        BY <1>2, <1>4, OutdatedLoads, TreeFacts
    <2>2. loadedDirs' = {} /\ loadingDirs' = {} /\ refreshing' = TRUE /\ failed' = FALSE /\ overtaken' = FALSE
        BY <1>1, <1>4 DEF BeginRootLoad
    <2>3. TrueOf(requests, files[t], loadedDirs', loadingDirs', refreshing', failed')
        BY <2>1, <2>2, RootLoadIsTrue
    <2>4. \A l \in AskedIn(requests) : l.thread = t
        BY <2>1, RootLoads
    <2> QED BY <1>1, <1>2, <1>3, <2>2, <2>3, <2>4, TreeFacts, TreeKeeps
<1>5. CASE ~startsOver
    <2>1. AskedIn(requests) = AskedIn(loads)
        BY <1>2, <1>5
    <2>2. UNCHANGED <<loadedDirs, loadingDirs, refreshing, failed, overtaken>>
        BY <1>1, <1>5 DEF KeepPanel
    <2>3. mounted => t = viewed
        BY <1>5
    <2>4. files = workspaceFiles
        BY <1>5 DEF files
    <2>5. mounted /\ ~overtaken' => TrueOf(requests, files[t], loadedDirs', loadingDirs', refreshing', failed')
        BY <2>1, <2>2, <2>3, <2>4, TreeFacts DEF TrueOf
    <2>6. mounted => \A l \in AskedIn(requests) : l.thread = t
        BY <2>1, <2>3, TreeFacts
    <2> QED BY <1>1, <1>2, <1>3, <2>2, <2>5, <2>6, TreeFacts, TreeKeeps
<1> QED BY <1>4, <1>5

LEMMA ToggleFilesKeeps ==
    ASSUME TreeInv, ToggleFiles
    PROVE  TreeInv'
<1>1. /\ moves' \in 0..MaxMoves /\ mounted' = ~mounted
      /\ viewed' = viewed /\ creating' = creating /\ chat' = chat /\ initialized' = initialized
    BY MoveCounts, TreeFacts DEF ToggleFiles
<1>2. {} \subseteq Dirs /\ {} \subseteq Dirs \cup {Root}
    OBVIOUS
<1>3. CASE mounted
    <2> DEFINE Gone(l) == [l EXCEPT !.live = l.from # "panel"]
               requests == {Gone(l) : l \in loads}
    <2>1. /\ loadedDirs' = {} /\ loadingDirs' = {} /\ refreshing' = FALSE /\ failed' = FALSE /\ overtaken' = FALSE
          /\ Tree(viewed, creating, FALSE, workspaceFiles, {}, requests)
        BY <1>3 DEF ToggleFiles
    <2>2. \A l \in LoadsOf : /\ Gone(l) \in LoadsOf /\ Gone(l).step = l.step
                             /\ Gone(l).dir = l.dir /\ Gone(l).click = l.click
        BY DEF LoadsOf
    <2>3. \A l \in loads : l \in LoadsOf /\ (l.step = "path" => l.dir = Root) /\ (l.click => l.dir # Root)
        BY TreeFacts DEF ProperLoads
    <2> HIDE DEF Gone
    <2>4. ProperLoads(requests)
        BY <2>2, <2>3 DEF ProperLoads
    <2> HIDE DEF requests
    <2>5. mounted' = FALSE /\ mounted' \in BOOLEAN
        BY <1>1, <1>3
    <2>6. Tree(viewed, creating, mounted', workspaceFiles, {}, requests)
        BY <2>1, <2>5, Zenon
    <2>7. refreshing' \in BOOLEAN /\ failed' \in BOOLEAN /\ overtaken' \in BOOLEAN
        BY <2>1
    <2> QED BY <1>1, <1>2, <2>1, <2>4, <2>5, <2>6, <2>7, TreeFacts, TreeKeeps
<1>4. CASE ~mounted
    <2> DEFINE requests == Outdated(loads) \cup {PanelLoad(viewed)}
               files == [workspaceFiles EXCEPT ![viewed] = {}]
    <2>1. /\ loadedDirs' = {} /\ loadingDirs' = {} /\ refreshing' = TRUE /\ failed' = FALSE /\ overtaken' = FALSE
          /\ Tree(viewed, creating, TRUE, files, {}, requests)
        BY <1>4 DEF ToggleFiles, BeginRootLoad
    <2>2. /\ ProperLoads(requests) /\ AskedIn(requests) = {PanelLoad(viewed)}
          /\ \A l \in AskedIn(requests) : l.thread = viewed
        BY RootLoadRequests, TreeFacts
    <2>3. files \in [TreeThreads -> SUBSET Entries]
        BY TreeFacts
    <2> HIDE DEF requests, files
    <2>4. TrueOf(requests, files[viewed], loadedDirs', loadingDirs', refreshing', failed')
        BY <2>1, <2>2, RootLoadIsTrue, TreeFacts
    <2>5. mounted' = TRUE /\ mounted' \in BOOLEAN
        BY <1>1, <1>4, TreeFacts
    <2>6. Tree(viewed, creating, mounted', files, {}, requests)
        BY <2>1, <2>5, Zenon
    <2>7. refreshing' \in BOOLEAN /\ failed' \in BOOLEAN /\ overtaken' \in BOOLEAN
        BY <2>1
    <2>8. loadedDirs' \subseteq Dirs \cup {Root} /\ loadingDirs' \subseteq Dirs \cup {Root}
        BY <2>1, <1>2
    <2>9. viewed \in TreeThreads /\ creating' \in BOOLEAN /\ chat' \in BOOLEAN /\ initialized' \subseteq TreeThreads
        BY <1>1, TreeFacts
    <2> QED BY <1>1, <1>2, <2>2, <2>3, <2>4, <2>5, <2>6, <2>7, <2>8, <2>9, TreeKeeps
<1> QED BY <1>3, <1>4

LEMMA RefreshKeeps ==
    ASSUME TreeInv, Refresh
    PROVE  TreeInv'
<1> DEFINE requests == Outdated(loads) \cup {PanelLoad(viewed)}
           files == [workspaceFiles EXCEPT ![viewed] = {}]
<1>1. /\ moves' \in 0..MaxMoves /\ mounted
      /\ loadedDirs' = {} /\ loadingDirs' = {} /\ refreshing' = TRUE /\ failed' = FALSE /\ overtaken' = FALSE
      /\ Tree(viewed, creating, mounted, files, expanded, requests)
      /\ UNCHANGED <<viewed, creating, chat, mounted, initialized>>
    BY MoveCounts, TreeFacts DEF Refresh, BeginRootLoad
<1>2. /\ ProperLoads(requests) /\ AskedIn(requests) = {PanelLoad(viewed)}
      /\ \A l \in AskedIn(requests) : l.thread = viewed
    BY RootLoadRequests, TreeFacts
<1>3. files \in [TreeThreads -> SUBSET Entries]
    BY TreeFacts
<1> HIDE DEF requests, files
<1>4. TrueOf(requests, files[viewed], loadedDirs', loadingDirs', refreshing', failed')
    BY <1>1, <1>2, RootLoadIsTrue, TreeFacts
<1> QED BY <1>1, <1>2, <1>3, <1>4, TreeFacts, TreeKeeps

LEMMA StreamFileKeeps ==
    ASSUME TreeInv, NEW t \in TreeThreads, NEW f \in Files, StreamFile(t, f)
    PROVE  TreeInv'
<1> DEFINE files == [workspaceFiles EXCEPT ![t] = @ \cup {f}]
<1>1. /\ Tree(viewed, creating, mounted, files, expanded, loads)
      /\ UNCHANGED <<viewed, creating, chat, mounted, initialized, moves>>
      /\ UNCHANGED <<loadedDirs, loadingDirs, refreshing, failed, overtaken>>
    BY DEF StreamFile, KeepPanel
<1>2. /\ files \in [TreeThreads -> SUBSET Entries]
      /\ workspaceFiles[viewed] \subseteq files[viewed]
    BY TreeFacts DEF Entries
<1> HIDE DEF files
<1>3. mounted /\ ~overtaken =>
         TrueOf(loads, files[viewed], loadedDirs, loadingDirs, refreshing, failed)
    BY <1>2, GrowingList, TreeFacts
<1> QED BY <1>1, <1>2, <1>3, TreeFacts, TreeKeeps

LEMMA ClickDirKeeps ==
    ASSUME TreeInv, NEW d \in Dirs, ClickDir(d)
    PROVE  TreeInv'
<1> DEFINE loadsIt == d \notin expanded \cup loadedDirs
           exp == IF d \in expanded THEN expanded \ {d}
                  ELSE IF loadsIt THEN expanded ELSE expanded \cup {d}
           asks == Load("panel", "tree", viewed, d, TRUE)
           requests == loads \cup IF loadsIt THEN {asks} ELSE {}
<1>1. /\ Tree(viewed, creating, mounted, workspaceFiles, exp, requests)
      /\ loadingDirs' = IF loadsIt THEN loadingDirs \cup {d} ELSE loadingDirs
      /\ mounted /\ d \notin loadingDirs
      /\ UNCHANGED <<viewed, creating, chat, mounted, initialized, loadedDirs, refreshing, failed, overtaken, moves>>
    BY Zenon DEF ClickDir, Clickable
<1>2. d # Root
    BY TreeAssumption DEF Entries
<1>3. /\ asks \in LoadsOf /\ asks.dir = d /\ asks.step = "tree" /\ asks.thread = viewed
      /\ AskedIn({asks}) = {asks} /\ ProperLoads({asks})
    BY <1>2, TreeFacts DEF LoadsOf, AskedIn, ProperLoads, Load
<1>4. exp \subseteq Dirs /\ loadingDirs' \subseteq Dirs \cup {Root}
    BY <1>1, TreeFacts
<1> HIDE DEF asks, exp
<1>5. ASSUME loadsIt
      PROVE  /\ ProperLoads(requests)
             /\ mounted => \A l \in AskedIn(requests) : l.thread = viewed
             /\ mounted /\ ~overtaken' =>
                   TrueOf(requests, workspaceFiles[viewed], loadedDirs', loadingDirs', refreshing', failed')
    <2>1. ProperLoads(requests) /\ AskedIn(requests) = AskedIn(loads) \cup {asks}
        BY <1>3, <1>5, Requests, TreeFacts
    <2>2. \A l \in AskedIn(requests) : l.thread = viewed
        BY <1>1, <1>3, <2>1, TreeFacts
    <2>3. ASSUME ~overtaken
          PROVE  TrueOf(requests, workspaceFiles[viewed], loadedDirs, loadingDirs \cup {d}, refreshing, failed)
        <3>1. TrueOf(loads, workspaceFiles[viewed], loadedDirs, loadingDirs, refreshing, failed)
            BY <1>1, <2>3, TreeFacts
        <3>2. \A l \in AskedIn(loads) : l.step \in {"path", "tree"} /\ (l.step = "path" => l.dir = Root)
            BY TreeFacts DEF ProperLoads, AskedIn, LoadsOf
        <3>3. \A l \in AskedIn(loads) : l.dir # d
            BY <1>1, <1>2, <3>1, <3>2 DEF TrueOf
        <3> DEFINE A == AskedIn(loads)
                   B == AskedIn(requests)
        <3>4. \A k : k \in B <=> k \in A \/ k = asks
            BY <2>1
        <3>5. /\ \A e : e \in loadingDirs <=> \E k \in A : k.step = "tree" /\ k.dir = e
              /\ refreshing <=> \E k \in A : k.dir = Root
              /\ \A j, k \in A : j.dir = k.dir => j = k
            BY <3>1 DEF TrueOf
        <3>6. \A k \in A : k.dir # d
            BY <3>3
        <3> HIDE DEF A, B
        <3>7. \A e : e \in loadingDirs \cup {d} <=> \E k \in B : k.step = "tree" /\ k.dir = e
            BY <1>3, <3>4, <3>5
        <3>8. refreshing <=> \E k \in B : k.dir = Root
            BY <1>2, <1>3, <3>4, <3>5
        <3>9. \A j, k \in B : j.dir = k.dir => j = k
            BY <1>3, <3>4, <3>5, <3>6
        <3> QED BY <3>1, <3>7, <3>8, <3>9 DEF TrueOf, B
    <2>4. loadingDirs' = loadingDirs \cup {d}
        BY <1>1, <1>5
    <2>5. mounted /\ ~overtaken' =>
             TrueOf(requests, workspaceFiles[viewed], loadedDirs', loadingDirs', refreshing', failed')
        BY <1>1, <2>3, <2>4
    <2>6. mounted => \A l \in AskedIn(requests) : l.thread = viewed
        BY <2>2
    <2> QED BY <2>1, <2>5, <2>6
<1>6. ASSUME ~loadsIt
      PROVE  /\ ProperLoads(requests)
             /\ mounted => \A l \in AskedIn(requests) : l.thread = viewed
             /\ mounted /\ ~overtaken' =>
                   TrueOf(requests, workspaceFiles[viewed], loadedDirs', loadingDirs', refreshing', failed')
    <2>1. requests = loads /\ loadingDirs' = loadingDirs
        BY <1>1, <1>6
    <2>2. /\ ProperLoads(loads)
          /\ mounted => \A l \in AskedIn(loads) : l.thread = viewed
          /\ mounted /\ ~overtaken' =>
                TrueOf(loads, workspaceFiles[viewed], loadedDirs', loadingDirs', refreshing', failed')
        BY <1>1, <2>1, TreeFacts
    <2> HIDE DEF requests, loadsIt
    <2> QED BY <2>1, <2>2
<1> HIDE DEF requests, loadsIt
<1>7. /\ ProperLoads(requests)
      /\ mounted => \A l \in AskedIn(requests) : l.thread = viewed
      /\ mounted /\ ~overtaken' =>
            TrueOf(requests, workspaceFiles[viewed], loadedDirs', loadingDirs', refreshing', failed')
    BY <1>5, <1>6
<1> QED BY <1>1, <1>4, <1>7, TreeFacts, TreeKeeps

LEMMA PathAnswerKeeps ==
    ASSUME TreeInv, NEW l \in loads, NEW ok \in BOOLEAN, PathAnswer(l, ok)
    PROVE  TreeInv'
<1> DEFINE mine == l.from = "panel" /\ l.live
           goesOn == ok /\ ~(mine /\ Root \in loadingDirs)
           next == [l EXCEPT !.step = "tree"]
           requests == (loads \ {l}) \cup IF goesOn THEN {next} ELSE {}
<1>1. /\ l.step = "path"
      /\ Tree(viewed, creating, mounted, workspaceFiles, expanded, requests)
      /\ loadingDirs' = IF mine /\ goesOn THEN loadingDirs \cup {Root} ELSE loadingDirs
      /\ refreshing' = (refreshing /\ (mine => goesOn))
      /\ failed' = (failed \/ (mine /\ l.fresh /\ ~ok))
      /\ overtaken' = (overtaken \/ (mine /\ ~l.fresh))
      /\ UNCHANGED <<viewed, creating, chat, mounted, initialized, loadedDirs, moves>>
    BY Zenon DEF PathAnswer
<1>2. /\ l \in LoadsOf /\ l.dir = Root /\ ~l.click
      /\ loads \subseteq LoadsOf
      /\ \A k \in loads : (k.step = "path" => k.dir = Root) /\ (k.click => k.dir # Root)
    BY <1>1, TreeFacts DEF ProperLoads
<1>3. /\ next \in LoadsOf /\ next.step = "tree" /\ next.dir = Root /\ ~next.click
      /\ next.from = l.from /\ next.live = l.live /\ next.fresh = l.fresh /\ next.thread = l.thread
    BY <1>2 DEF LoadsOf
<1> HIDE DEF next
<1>4. ProperLoads(requests)
    BY <1>2, <1>3 DEF ProperLoads
<1>5. /\ loadingDirs' \subseteq Dirs \cup {Root}
      /\ refreshing' \in BOOLEAN /\ failed' \in BOOLEAN /\ overtaken' \in BOOLEAN
    BY <1>1, TreeFacts
<1>6. mounted => \A k \in AskedIn(requests) : k.thread = viewed
    <2>1. \A k \in AskedIn(requests) : k \in AskedIn(loads) \/ (k = next /\ l \in AskedIn(loads))
        BY <1>3 DEF AskedIn
    <2> QED BY <2>1, <1>3, TreeFacts
<1>7. ASSUME mounted, ~overtaken'
      PROVE  TrueOf(requests, workspaceFiles[viewed], loadedDirs', loadingDirs', refreshing', failed')
    <2>1. /\ TrueOf(loads, workspaceFiles[viewed], loadedDirs, loadingDirs, refreshing, failed)
          /\ mine => l.fresh
        BY <1>1, <1>7, TreeFacts
    <2>2. CASE mine
        <3>1. l \in AskedIn(loads)
            BY <2>1, <2>2 DEF AskedIn
        <3>2. \A k \in AskedIn(loads) : k.dir = Root => k = l
            BY <1>2, <2>1, <3>1 DEF TrueOf
        <3>3. Root \notin loadingDirs
            BY <1>1, <2>1, <3>2 DEF TrueOf
        <3>4. goesOn <=> ok
            BY <3>3
        <3>5. CASE ok
            <4>1. AskedIn(requests) = (AskedIn(loads) \ {l}) \cup {next}
                BY <1>3, <2>1, <2>2, <3>4, <3>5 DEF AskedIn
            <4>2. /\ loadingDirs' = loadingDirs \cup {Root} /\ refreshing' = refreshing /\ failed' = failed
                  /\ loadedDirs' = loadedDirs
                BY <1>1, <2>2, <3>4, <3>5, TreeFacts
            <4> HIDE DEF requests
            <4> QED BY <1>1, <1>2, <1>3, <2>1, <3>1, <3>2, <4>1, <4>2 DEF TrueOf
        <3>6. CASE ~ok
            <4>1. AskedIn(requests) = AskedIn(loads) \ {l}
                BY <3>4, <3>6 DEF AskedIn
            <4>2. /\ loadingDirs' = loadingDirs /\ refreshing' = FALSE /\ failed' = TRUE
                  /\ loadedDirs' = loadedDirs
                BY <1>1, <2>1, <2>2, <3>4, <3>6
            <4> HIDE DEF requests
            <4> QED BY <1>1, <2>1, <3>2, <4>1, <4>2 DEF TrueOf
        <3> QED BY <3>5, <3>6
    <2>3. CASE ~mine
        <3>1. AskedIn(requests) = AskedIn(loads)
            BY <1>3, <2>3 DEF AskedIn
        <3>2. UNCHANGED <<loadingDirs, refreshing, failed, loadedDirs>>
            BY <1>1, <2>3, TreeFacts
        <3> QED BY <2>1, <3>1, <3>2 DEF TrueOf
    <2> QED BY <2>2, <2>3
<1> HIDE DEF mine, goesOn, requests
<1> QED BY <1>1, <1>4, <1>5, <1>6, <1>7, TreeFacts, TreeKeeps

LEMMA TreeAnswerKeeps ==
    ASSUME TreeInv, NEW l \in loads, NEW ok \in BOOLEAN, TreeAnswer(l, ok)
    PROVE  TreeInv'
<1> DEFINE mine == l.from = "panel" /\ l.live
           replacesMore == ok /\ l.from # "panel" /\ l.thread = viewed /\ ~(loadedDirs \subseteq {Root})
           requests == loads \ {l}
           files == IF ok THEN [workspaceFiles EXCEPT ![l.thread] = Merged(l)] ELSE workspaceFiles
           exp == IF l.click THEN expanded \cup {l.dir} ELSE expanded
<1>1. /\ l.step = "tree"
      /\ Tree(viewed, creating, mounted, files, exp, requests)
      /\ loadedDirs' = IF mine /\ ok THEN loadedDirs \cup {l.dir} ELSE loadedDirs
      /\ loadingDirs' = IF mine THEN loadingDirs \ {l.dir} ELSE loadingDirs
      /\ refreshing' = (refreshing /\ ~(mine /\ l.dir = Root))
      /\ failed' = (failed \/ (mine /\ l.fresh /\ l.dir = Root /\ ~ok))
      /\ overtaken' = (overtaken \/ (mine /\ ~l.fresh) \/ replacesMore)
      /\ UNCHANGED <<viewed, creating, chat, mounted, initialized, moves>>
    BY Zenon DEF TreeAnswer
<1>2. l \in LoadsOf /\ (l.click => l.dir # Root) /\ l.thread \in TreeThreads /\ l.dir \in Dirs \cup {Root}
    BY TreeFacts DEF ProperLoads, LoadsOf
<1>3. ProperLoads(requests)
    BY TreeFacts DEF ProperLoads
<1>4. Merged(l) \subseteq Entries
    BY <1>2, ListingsAreEntries, TreeFacts DEF Merged
<1>5. files \in [TreeThreads -> SUBSET Entries] /\ exp \subseteq Dirs
    BY <1>2, <1>4, TreeFacts
<1>6. /\ loadedDirs' \subseteq Dirs \cup {Root} /\ loadingDirs' \subseteq Dirs \cup {Root}
      /\ refreshing' \in BOOLEAN /\ failed' \in BOOLEAN /\ overtaken' \in BOOLEAN
    BY <1>1, <1>2, TreeFacts
<1>7. AskedIn(requests) = AskedIn(loads) \ {l}
    BY DEF AskedIn
<1>8. mounted => \A k \in AskedIn(requests) : k.thread = viewed
    BY <1>7, TreeFacts
<1>9. ASSUME mounted, ~overtaken'
      PROVE  TrueOf(requests, files[viewed], loadedDirs', loadingDirs', refreshing', failed')
    <2>1. /\ TrueOf(loads, workspaceFiles[viewed], loadedDirs, loadingDirs, refreshing, failed)
          /\ (mine => l.fresh) /\ ~replacesMore
        BY <1>1, <1>9, TreeFacts
    <2>2. CASE mine
        <3>1. l \in AskedIn(loads) /\ l.thread = viewed
            BY <1>9, <2>1, <2>2, TreeFacts DEF AskedIn
        <3>2. \A k \in AskedIn(loads) : k.dir = l.dir => k = l
            BY <2>1, <3>1 DEF TrueOf
        <3>3. files[viewed] = IF ok THEN workspaceFiles[viewed] \cup Listing(l.dir) ELSE workspaceFiles[viewed]
            BY <1>2, <2>2, <3>1, TreeFacts DEF Merged
        <3>4. \A e \in loadedDirs' : Listing(e) \subseteq files[viewed]
            BY <1>1, <2>1, <3>3 DEF TrueOf
        <3>5. /\ loadingDirs' = loadingDirs \ {l.dir} /\ refreshing' = (refreshing /\ l.dir # Root)
              /\ failed' = (failed \/ (l.dir = Root /\ ~ok))
              /\ loadedDirs' = IF ok THEN loadedDirs \cup {l.dir} ELSE loadedDirs
            BY <1>1, <2>1, <2>2
        <3> HIDE DEF requests, files
        <3>6. \A e : e \in loadingDirs' <=> \E k \in AskedIn(requests) : k.step = "tree" /\ k.dir = e
            BY <1>7, <2>1, <3>2, <3>5 DEF TrueOf
        <3>7. refreshing' <=> \E k \in AskedIn(requests) : k.dir = Root
            BY <1>7, <2>1, <3>1, <3>2, <3>5 DEF TrueOf
        <3>8. ~refreshing' /\ ~failed' => Root \in loadedDirs'
            BY <2>1, <3>5 DEF TrueOf
        <3>9. \A j, k \in AskedIn(requests) : j.dir = k.dir => j = k
            BY <1>7, <2>1 DEF TrueOf
        <3> QED BY <3>4, <3>6, <3>7, <3>8, <3>9 DEF TrueOf
    <2>3. CASE ~mine
        <3>1. AskedIn(requests) = AskedIn(loads)
            BY <1>7, <2>3 DEF AskedIn
        <3>2. UNCHANGED <<loadingDirs, refreshing, failed, loadedDirs>>
            BY <1>1, <2>3, TreeFacts
        <3>3. \/ workspaceFiles[viewed] \subseteq files[viewed]
              \/ Listing(Root) \subseteq files[viewed] /\ loadedDirs \subseteq {Root}
            BY <1>2, <2>1, TreeFacts DEF Merged
        <3>4. TrueOf(requests, workspaceFiles[viewed], loadedDirs, loadingDirs, refreshing, failed)
            BY <2>1, <3>1 DEF TrueOf
        <3> HIDE DEF requests, files
        <3>5. TrueOf(requests, files[viewed], loadedDirs, loadingDirs, refreshing, failed)
            BY <3>3, <3>4, GrowingList
        <3> QED BY <3>2, <3>5
    <2> QED BY <2>2, <2>3
<1> HIDE DEF mine, replacesMore, requests, files, exp
<1> QED BY <1>1, <1>3, <1>5, <1>6, <1>8, <1>9, TreeFacts, TreeKeeps

LEMMA TreeInvInit == TreeInit => TreeInv
<1> SUFFICES ASSUME TreeInit PROVE TreeInv
    OBVIOUS
<1>1. /\ viewed = FirstViewed /\ viewed \in TreeThreads /\ creating = FALSE /\ chat = TRUE /\ mounted = TRUE
      /\ workspaceFiles = [t \in TreeThreads |-> {}] /\ initialized = {viewed}
      /\ loadedDirs = {} /\ loadingDirs = {} /\ refreshing = TRUE /\ expanded = {}
      /\ loads = {PanelLoad(viewed), PickerLoad(viewed), HistoryLoad(viewed)}
      /\ failed = FALSE /\ overtaken = FALSE /\ moves = 0 /\ MaxMoves \in Nat
    BY TreeAssumption DEF TreeInit
<1> DEFINE panel == {PanelLoad(viewed)}
           picker == {PickerLoad(viewed)}
           history == {HistoryLoad(viewed)}
<1>2. loads = (panel \cup picker) \cup history
    BY <1>1
<1>3. /\ ProperLoads(panel) /\ ProperLoads(picker) /\ ProperLoads(history)
      /\ AskedIn(panel) = panel /\ AskedIn(picker) = {} /\ AskedIn(history) = {}
    BY <1>1, RootLoads
<1> HIDE DEF panel, picker, history
<1>4. ProperLoads(panel \cup picker) /\ AskedIn(panel \cup picker) = panel
    <2>1. /\ ProperLoads(panel) /\ ProperLoads(picker) => ProperLoads(panel \cup picker)
          /\ AskedIn(panel \cup picker) = AskedIn(panel) \cup AskedIn(picker)
        BY Requests, Zenon
    <2> QED BY <2>1, <1>3
<1>5. ProperLoads(loads) /\ AskedIn(loads) = panel
    <2> DEFINE most == panel \cup picker
    <2>1. loads = most \cup history /\ ProperLoads(most) /\ AskedIn(most) = panel
        BY <1>2, <1>4
    <2> HIDE DEF most
    <2>2. /\ ProperLoads(most) /\ ProperLoads(history) => ProperLoads(most \cup history)
          /\ AskedIn(most \cup history) = AskedIn(most) \cup AskedIn(history)
        BY Requests, Zenon
    <2> QED BY <2>1, <2>2, <1>3
<1>6. AskedIn(loads) = {PanelLoad(viewed)}
    BY <1>5 DEF panel
<1>7. \A l \in AskedIn(loads) : l.thread = viewed
    BY <1>1, <1>6, RootLoads
<1>8. TrueOf(loads, workspaceFiles[viewed], loadedDirs, loadingDirs, refreshing, failed)
    BY <1>1, <1>6, RootLoadIsTrue
<1>9. TreeTypeOK
    <2>1. workspaceFiles \in [TreeThreads -> SUBSET Entries]
        BY <1>1
    <2>2. moves \in 0..MaxMoves
        BY <1>1
    <2>3. loads \subseteq LoadsOf
        BY <1>5 DEF ProperLoads
    <2> QED BY <1>1, <2>1, <2>2, <2>3 DEF TreeTypeOK, LoadsOf
<1> QED BY <1>5, <1>7, <1>8, <1>9 DEF TreeInv

LEMMA TreeInvNext == TreeInv /\ [TreeNext]_treeVars => TreeInv'
<1> SUFFICES ASSUME TreeInv, [TreeNext]_treeVars PROVE TreeInv'
    OBVIOUS
<1>1. ASSUME NEW t \in TreeThreads, SelectThread(t) PROVE TreeInv'
    BY <1>1, ShowKeeps, MoveCounts, TreeFacts DEF SelectThread
<1>2. ASSUME NEW t \in TreeThreads, EndCreating(t) PROVE TreeInv'
    <2>1. Show(t, chat \/ t # viewed, FALSE) /\ moves' \in 0..MaxMoves
        BY <1>2, TreeFacts DEF EndCreating
    <2>2. (chat \/ t # viewed) \in BOOLEAN /\ FALSE \in BOOLEAN
        BY TreeFacts
    <2> QED BY <2>1, <2>2, ShowKeeps
<1>3. CASE SelectTabKind
    <2>1. Show(viewed, ~chat, FALSE) /\ moves' \in 0..MaxMoves /\ viewed \in TreeThreads
        BY <1>3, MoveCounts, TreeFacts DEF SelectTabKind
    <2>2. (~chat) \in BOOLEAN /\ FALSE \in BOOLEAN
        BY TreeFacts
    <2> QED BY <2>1, <2>2, ShowKeeps
<1>4. CASE StartCreating
    <2>1. Show(viewed, chat, TRUE) /\ moves' \in 0..MaxMoves /\ viewed \in TreeThreads
        BY <1>4, MoveCounts, TreeFacts DEF StartCreating
    <2>2. chat \in BOOLEAN /\ TRUE \in BOOLEAN
        BY TreeFacts
    <2> QED BY <2>1, <2>2, ShowKeeps
<1>5. CASE ToggleFiles \/ Refresh
    BY <1>5, ToggleFilesKeeps, RefreshKeeps
<1>6. ASSUME NEW d \in Dirs, ClickDir(d) PROVE TreeInv'
    BY <1>6, ClickDirKeeps
<1>7. ASSUME NEW l \in loads, NEW ok \in BOOLEAN, PathAnswer(l, ok) \/ TreeAnswer(l, ok) PROVE TreeInv'
    BY <1>7, PathAnswerKeeps, TreeAnswerKeeps
<1>8. ASSUME NEW t \in TreeThreads, NEW f \in Files, StreamFile(t, f) PROVE TreeInv'
    BY <1>8, StreamFileKeeps
<1>9. CASE UNCHANGED treeVars
    BY <1>9 DEF treeVars, TreeInv, TreeTypeOK, TrueOf
<1> QED BY <1>1, <1>2, <1>3, <1>4, <1>5, <1>6, <1>7, <1>8, <1>9 DEF TreeNext

\* Whatever threads the user goes through and whatever answers come late: until
\* one of them overtakes the panel, its refs say of the thread on the screen what
\* is in its list and what is being asked for, and its spinner turns exactly
\* while the root is loaded.
THEOREM PanelIsTruthful == TreeSpec => []PanelTellsTheTruth
BY TreeInvTells, TreeInvInit, TreeInvNext, PTL DEF TreeSpec

-----------------------------------------------------------------------------
\* The layout. The same room and heights for a panel of height c.
RoomIn(c, o) ==
    LET used == 3 * HEADER_HEIGHT
                + (IF o["files"] /\ (o["tasks"] \/ o["agents"]) THEN HANDLE_HEIGHT ELSE 0)
                + (IF o["tasks"] /\ o["agents"] THEN HANDLE_HEIGHT ELSE 0)
    IN  IF c > used THEN c - used ELSE 0

HeightsIn(c, o, h) ==
    [s \in Sections |->
        IF ~o[s] THEN 0
        ELSE IF h[s] # EqualShare THEN h[s]
        ELSE RoomIn(c, o) \div Cardinality(Opened(o))]

\* HeightsFit of the heights h of sections o.
FitIn(c, o, h) ==
    RoomIn(c, o) >= MIN_CONTENT_HEIGHT * Cardinality(Opened(o)) =>
        /\ h["files"] + h["tasks"] + h["agents"] <= RoomIn(c, o)
        /\ \A s \in Opened(o) : h[s] >= MIN_CONTENT_HEIGHT
        /\ \A s \in Sections \ Opened(o) : h[s] = 0

\* The handle of a drag is between two sections open in its render.
BetweenOpen(r) ==
    \/ r.handle = "below files" /\ r.open["files"] /\ (r.open["tasks"] \/ r.open["agents"])
    \/ r.handle = "below tasks" /\ r.open["tasks"] /\ r.open["agents"]

Third(r) == CHOOSE s \in Sections \ {Upper(r), Lower(r)} : TRUE

\* While nothing has opened or closed since its mouse went down, a drag computes
\* with the sections that are there and has left the third one alone; unless the
\* panel has been resized too, the heights it starts from fit.
DragIsUpToDate ==
    drag # NoDrag =>
        /\ BetweenOpen(drag)
        /\ ~drag.stale => drag.open = open /\ height[Third(drag)] = drag.height[Third(drag)]
        /\ ~drag.stale /\ ~outdated =>
              LET begins == HeightsIn(container, open, drag.height)
              IN  FitIn(container, open, begins) /\ (drag.moved => drag.start = begins)

\* The inductive invariant of the layout.
LayoutInv ==
    /\ LayoutTypeOK
    /\ ~outdated => shown = HeightsIn(container, open, height) /\ FitIn(container, open, shown)
    /\ DragIsUpToDate

LEMMA PanelSizes ==
    /\ HEADER_HEIGHT \in Nat /\ HANDLE_HEIGHT \in Nat /\ MIN_CONTENT_HEIGHT \in Nat
    /\ COLLAPSE_THRESHOLD \in Nat /\ Containers \subseteq Nat
    /\ Deltas \subseteq Int /\ MaxDrags \in Nat /\ EqualShare \notin Int
BY LayoutAssumption

LEMMA SameRoom == \A o : getAvailableContentHeight(o) = RoomIn(container, o)
BY DEF getAvailableContentHeight, RoomIn

LEMMA SameHeights == \A o, h : getContentHeights(o, h) = HeightsIn(container, o, h)
BY SameRoom DEF getContentHeights, HeightsIn

LEMMA RoomIsNat ==
    ASSUME NEW c \in Nat, NEW o
    PROVE  RoomIn(c, o) \in Nat
BY PanelSizes DEF RoomIn

\* How many sections are open.
LEMMA OpenedCount ==
    ASSUME NEW o \in [Sections -> BOOLEAN]
    PROVE  Cardinality(Opened(o)) = (IF o["files"] THEN 1 ELSE 0) + (IF o["tasks"] THEN 1 ELSE 0)
                                    + (IF o["agents"] THEN 1 ELSE 0)
<1> DEFINE f == IF o["files"] THEN {"files"} ELSE {}
           ft == IF o["tasks"] THEN f \cup {"tasks"} ELSE f
           fta == IF o["agents"] THEN ft \cup {"agents"} ELSE ft
<1>1. Opened(o) = fta
    BY DEF Opened, Sections
<1>2. IsFiniteSet(f) /\ Cardinality(f) = IF o["files"] THEN 1 ELSE 0
    BY FS_EmptySet, FS_Singleton
<1>3. "tasks" \notin f
    OBVIOUS
<1>4. "agents" \notin ft
    OBVIOUS
<1> HIDE DEF f
<1>5. IsFiniteSet(ft) /\ Cardinality(ft) = (IF o["files"] THEN 1 ELSE 0) + (IF o["tasks"] THEN 1 ELSE 0)
    BY <1>2, <1>3, FS_AddElement
<1> HIDE DEF ft
<1>6. Cardinality(fta) = (IF o["files"] THEN 1 ELSE 0) + (IF o["tasks"] THEN 1 ELSE 0)
                         + (IF o["agents"] THEN 1 ELSE 0)
    BY <1>4, <1>5, FS_AddElement
<1> QED BY <1>1, <1>6

LEMMA HeightsAreInt ==
    ASSUME NEW c \in Nat, NEW o \in [Sections -> BOOLEAN], NEW h \in [Sections -> Int \cup {EqualShare}]
    PROVE  HeightsIn(c, o, h) \in [Sections -> Int]
<1> DEFINE k == Cardinality(Opened(o))
           share == RoomIn(c, o) \div k
<1>1. \A s \in Sections : o[s] => k \in Nat /\ k > 0
    BY OpenedCount DEF Sections
<1>2. RoomIn(c, o) \in Nat
    BY RoomIsNat
<1> HIDE DEF k
<1>3. \A s \in Sections : o[s] => share \in Int
    BY <1>1, <1>2
<1> HIDE DEF share
<1>4. HeightsIn(c, o, h) = [s \in Sections |-> IF ~o[s] THEN 0 ELSE IF h[s] # EqualShare THEN h[s] ELSE share]
    BY DEF HeightsIn, share, k
<1> QED BY <1>3, <1>4

\* Two or three shares are no more than the whole.
LEMMA Shares ==
    ASSUME NEW n \in Nat
    PROVE  /\ n \div 1 = n /\ n \div 2 \in Nat /\ n \div 3 \in Nat
           /\ 2 * (n \div 2) <= n /\ 3 * (n \div 3) <= n
           /\ \A m \in Nat : (n >= m * 2 => n \div 2 >= m) /\ (n >= m * 3 => n \div 3 >= m)
OBVIOUS

\* Sections that share the room equally fit.
LEMMA EqualSharesFit ==
    ASSUME NEW c \in Nat, NEW o \in [Sections -> BOOLEAN]
    PROVE  FitIn(c, o, HeightsIn(c, o, AllEqual))
<1> DEFINE k == Cardinality(Opened(o))
           n == RoomIn(c, o)
           share == n \div k
           h == HeightsIn(c, o, AllEqual)
<1>1. k = (IF o["files"] THEN 1 ELSE 0) + (IF o["tasks"] THEN 1 ELSE 0) + (IF o["agents"] THEN 1 ELSE 0)
    BY OpenedCount
<1>2. n \in Nat /\ MIN_CONTENT_HEIGHT \in Nat
    BY RoomIsNat, PanelSizes
<1>3. /\ h["files"] = (IF o["files"] THEN share ELSE 0) /\ h["tasks"] = (IF o["tasks"] THEN share ELSE 0)
      /\ h["agents"] = (IF o["agents"] THEN share ELSE 0)
    BY DEF HeightsIn, AllEqual, Sections
<1>4. /\ o["files"] \in BOOLEAN /\ o["tasks"] \in BOOLEAN /\ o["agents"] \in BOOLEAN
      /\ \A s : s \in Opened(o) <=> s \in {"files", "tasks", "agents"} /\ o[s]
    BY DEF Opened, Sections
<1>5. FitIn(c, o, h) <=>
        (n >= MIN_CONTENT_HEIGHT * k =>
            /\ h["files"] + h["tasks"] + h["agents"] <= n
            /\ \A s \in {"files", "tasks", "agents"} : IF o[s] THEN h[s] >= MIN_CONTENT_HEIGHT ELSE h[s] = 0)
    BY <1>4 DEF FitIn, Sections
<1> HIDE DEF k, n, h
<1>6. k \in {1, 2, 3} => /\ share \in Nat
                         /\ (k = 1 => share <= n) /\ (k = 2 => 2 * share <= n) /\ (k = 3 => 3 * share <= n)
    BY <1>2, Shares
<1>7. k \in {1, 2, 3} /\ n >= MIN_CONTENT_HEIGHT * k => share >= MIN_CONTENT_HEIGHT
    BY <1>2, Shares
<1> HIDE DEF share
<1>8. k \in {0, 1, 2, 3}
    BY <1>1
<1>9. ASSUME n >= MIN_CONTENT_HEIGHT * k
      PROVE  /\ h["files"] + h["tasks"] + h["agents"] <= n
             /\ \A s \in {"files", "tasks", "agents"} : IF o[s] THEN h[s] >= MIN_CONTENT_HEIGHT ELSE h[s] = 0
    <2>1. CASE k = 0
        BY <1>1, <1>2, <1>3, <1>4, <2>1
    <2>2. CASE k # 0
        <3>1. share \in Nat /\ share >= MIN_CONTENT_HEIGHT /\ k \in {1, 2, 3}
            BY <1>6, <1>7, <1>8, <1>9, <2>2
        <3>2. h["files"] + h["tasks"] + h["agents"] <= n
            BY <1>1, <1>2, <1>3, <1>4, <1>6, <3>1
        <3> QED BY <1>3, <3>1, <3>2
    <2> QED BY <2>1, <2>2
<1> QED BY <1>5, <1>9 DEF h

\* handleFilesTopResize and handleTasksAgentsResize, when the two have room for
\* their minimum: what one gains the other loses, and neither falls below it.
LEMMA ResizedKeepsTheSum ==
    ASSUME NEW a \in Int, NEW b \in Int, NEW delta \in Int, NEW max \in Int,
           a >= MIN_CONTENT_HEIGHT, b >= MIN_CONTENT_HEIGHT, a + b <= max
    PROVE  LET new == Resized(a, b, delta, max)
           IN  /\ new[1] \in Int /\ new[2] \in Int
               /\ new[1] + new[2] = a + b
               /\ new[1] >= MIN_CONTENT_HEIGHT /\ new[2] >= MIN_CONTENT_HEIGHT
BY PanelSizes DEF Resized, AtLeastMin

LEMMA ResizedIsInt ==
    ASSUME NEW a \in Int, NEW b \in Int, NEW delta \in Int, NEW max \in Int
    PROVE  Resized(a, b, delta, max)[1] \in Int /\ Resized(a, b, delta, max)[2] \in Int
BY PanelSizes DEF Resized, AtLeastMin

DragsOf == [handle : {"none", "below files", "below tasks"}, open : [Sections -> BOOLEAN],
            height : [Sections -> Int \cup {EqualShare}], start : [Sections -> Int],
            moved : BOOLEAN, stale : BOOLEAN]

LEMMA LayoutFacts ==
    ASSUME LayoutInv
    PROVE  /\ container \in Containers /\ container \in Nat /\ outdated \in BOOLEAN /\ drags \in 0..MaxDrags
           /\ open \in [Sections -> BOOLEAN] /\ needs \subseteq {"tasks", "agents"}
           /\ height \in [Sections -> Int \cup {EqualShare}] /\ shown \in [Sections -> Int]
           /\ drag \in DragsOf
           /\ ~outdated => shown = HeightsIn(container, open, height) /\ FitIn(container, open, shown)
BY PanelSizes DEF LayoutInv, LayoutTypeOK, DragsOf

LEMMA NoDragIsADrag == NoDrag \in DragsOf /\ NoDrag.stale = FALSE /\ AllEqual \in [Sections -> Int \cup {EqualShare}]
BY DEF NoDrag, DragsOf, AllEqual

LEMMA RenderFits ==
    ASSUME LayoutInv, NEW o \in [Sections -> BOOLEAN], NEW h \in [Sections -> Int \cup {EqualShare}], Render(o, h)
    PROVE  /\ open' = o /\ height' \in [Sections -> Int \cup {EqualShare}] /\ shown' \in [Sections -> Int]
           /\ o # open => /\ shown' = HeightsIn(container, o, height')
                          /\ FitIn(container, o, shown')
           /\ o = open => /\ height' = h
                          /\ h = height => shown' = shown
                          /\ ~outdated => shown' = HeightsIn(container, o, h)
<1>1. /\ open' = o /\ height' = (IF o # open THEN AllEqual ELSE h)
      /\ shown' = IF o # open \/ height' # height THEN HeightsIn(container, o, height') ELSE shown
    BY SameHeights DEF Render
<1>2. height' \in [Sections -> Int \cup {EqualShare}]
    BY <1>1, NoDragIsADrag
<1>3. shown' \in [Sections -> Int]
    BY <1>1, <1>2, LayoutFacts, HeightsAreInt
<1>4. o # open => FitIn(container, o, shown')
    BY <1>1, LayoutFacts, EqualSharesFit
<1> QED BY <1>1, <1>2, <1>3, <1>4, LayoutFacts

LEMMA ToggleSectionKeeps ==
    ASSUME LayoutInv, NEW s \in Sections, ToggleSection(s)
    PROVE  LayoutInv'
<1> DEFINE o == [open EXCEPT ![s] = ~@]
<1>1. /\ drag = NoDrag /\ Render(o, height) /\ outdated' = FALSE
      /\ container' = container /\ needs' = needs /\ drag' = drag /\ drags' = drags
    BY DEF ToggleSection
<1>2. o \in [Sections -> BOOLEAN] /\ o # open
    BY LayoutFacts
<1> HIDE DEF o
<1>3. /\ open' = o /\ height' \in [Sections -> Int \cup {EqualShare}] /\ shown' \in [Sections -> Int]
      /\ shown' = HeightsIn(container, o, height') /\ FitIn(container, o, shown')
    BY <1>1, <1>2, RenderFits, LayoutFacts
<1>4. LayoutTypeOK'
    BY <1>1, <1>2, <1>3, LayoutFacts DEF LayoutTypeOK, DragsOf
<1>5. drag' = NoDrag
    BY <1>1
<1> QED BY <1>1, <1>3, <1>4, <1>5 DEF LayoutInv, DragIsUpToDate

\* A drag whose handle and sections are another's resizes the same two.
LEMMA SameDrag ==
    ASSUME NEW q, NEW r, q.handle = r.handle, q.open = r.open
    PROVE  /\ BetweenOpen(q) <=> BetweenOpen(r)
           /\ Third(q) = Third(r)
BY DEF BetweenOpen, Third, Upper, Lower

LEMMA NeedsChangeKeeps ==
    ASSUME LayoutInv, NEW n \in SUBSET {"tasks", "agents"}, NeedsChange(n)
    PROVE  LayoutInv'
<1> DEFINE next(s) == IF s \in n /\ s \notin needs THEN TRUE ELSE IF s \notin n THEN FALSE ELSE open[s]
           o == [open EXCEPT !["tasks"] = next("tasks"), !["agents"] = next("agents")]
<1>1. /\ needs' = n /\ Render(o, height) /\ outdated' = (outdated /\ o = open)
      /\ drag' = [drag EXCEPT !.stale = @ \/ (drag # NoDrag /\ o # open)]
      /\ container' = container /\ drags' = drags
    BY Zenon DEF NeedsChange
<1>2. o \in [Sections -> BOOLEAN]
    BY LayoutFacts DEF Sections
<1> HIDE DEF o
<1>3. /\ open' = o /\ height' \in [Sections -> Int \cup {EqualShare}] /\ shown' \in [Sections -> Int]
      /\ o # open => shown' = HeightsIn(container, o, height') /\ FitIn(container, o, shown')
      /\ o = open => height' = height /\ shown' = shown
    BY <1>1, <1>2, RenderFits, LayoutFacts
<1>4. /\ drag' \in DragsOf /\ drag'.handle = drag.handle /\ drag'.open = drag.open
      /\ drag'.height = drag.height /\ drag'.start = drag.start /\ drag'.moved = drag.moved
      /\ drag'.stale = (drag.stale \/ (drag # NoDrag /\ o # open))
    BY <1>1, LayoutFacts DEF DragsOf
<1>5. drag = NoDrag => drag' = NoDrag
    BY <1>1, NoDragIsADrag DEF NoDrag
<1>6. LayoutTypeOK'
    BY <1>1, <1>2, <1>3, <1>4, LayoutFacts DEF LayoutTypeOK, DragsOf
<1>7. ~outdated' => shown' = HeightsIn(container', open', height') /\ FitIn(container', open', shown')
    BY <1>1, <1>3, LayoutFacts
<1>8. DragIsUpToDate'
    <2> SUFFICES ASSUME drag' # NoDrag
                 PROVE  /\ BetweenOpen(drag')
                        /\ ~drag'.stale => drag'.open = open' /\ height'[Third(drag')] = drag'.height[Third(drag')]
                        /\ ~drag'.stale /\ ~outdated' =>
                              LET begins == HeightsIn(container', open', drag'.height)
                              IN  FitIn(container', open', begins) /\ (drag'.moved => drag'.start = begins)
        BY DEF DragIsUpToDate
    <2>1. drag # NoDrag
        BY <1>5
    <2>2. BetweenOpen(drag') /\ Third(drag') = Third(drag)
        BY <1>4, <2>1, SameDrag DEF LayoutInv, DragIsUpToDate
    <2>3. ~drag'.stale => ~drag.stale /\ o = open
        BY <1>4, <2>1
    <2> QED BY <1>1, <1>3, <1>4, <2>1, <2>2, <2>3 DEF LayoutInv, DragIsUpToDate
<1> QED BY <1>6, <1>7, <1>8 DEF LayoutInv

LEMMA WindowResizeKeeps ==
    ASSUME LayoutInv, NEW c \in Containers, WindowResize(c)
    PROVE  LayoutInv'
<1>1. /\ container' = c /\ outdated' = TRUE
      /\ open' = open /\ height' = height /\ shown' = shown /\ needs' = needs /\ drag' = drag /\ drags' = drags
    BY DEF WindowResize
<1>2. LayoutTypeOK'
    BY <1>1, LayoutFacts DEF LayoutTypeOK, DragsOf
<1>3. DragIsUpToDate'
    BY <1>1 DEF LayoutInv, DragIsUpToDate
<1> QED BY <1>1, <1>2, <1>3 DEF LayoutInv

LEMMA CountsOn == \A m \in Nat : \A d \in 0..m : d < m => d + 1 \in 0..m
OBVIOUS

LEMMA MouseDownKeeps ==
    ASSUME LayoutInv, NEW handle \in {"below files", "below tasks"}, MouseDown(handle)
    PROVE  LayoutInv'
<1>1. /\ drags < MaxDrags /\ drags' = drags + 1 /\ HandleShown(handle)
      /\ drag' = [NoDrag EXCEPT !.handle = handle, !.open = open, !.height = height]
      /\ container' = container /\ open' = open /\ height' = height /\ shown' = shown
      /\ needs' = needs /\ outdated' = outdated
    BY DEF MouseDown
<1>2. /\ drag' \in DragsOf /\ drag'.handle = handle /\ drag'.open = open /\ drag'.height = height
      /\ drag'.moved = FALSE /\ drag'.stale = FALSE
    <2>1. open \in [Sections -> BOOLEAN] /\ height \in [Sections -> Int \cup {EqualShare}]
        BY LayoutFacts
    <2>2. /\ drag' = [handle |-> handle, open |-> open, height |-> height, start |-> [s \in Sections |-> 0],
                      moved |-> FALSE, stale |-> FALSE]
        BY <1>1 DEF NoDrag
    <2>3. [s \in Sections |-> 0] \in [Sections -> Int]
        BY NoDragIsADrag DEF NoDrag, DragsOf
    <2> QED BY <2>1, <2>2, <2>3 DEF DragsOf
<1>3. drags' \in 0..MaxDrags
    <2>1. drags \in 0..MaxDrags /\ MaxDrags \in Nat
        BY LayoutFacts, PanelSizes
    <2>2. drags < MaxDrags /\ drags' = drags + 1
        BY <1>1
    <2> QED BY <2>1, <2>2, CountsOn
<1>4. LayoutTypeOK'
    BY <1>1, <1>2, <1>3, LayoutFacts DEF LayoutTypeOK, DragsOf
<1>5. BetweenOpen(drag')
    BY <1>1, <1>2 DEF HandleShown, BetweenOpen
<1>6. ~outdated => FitIn(container, open, HeightsIn(container, open, height))
    BY LayoutFacts
<1>7. DragIsUpToDate'
    BY <1>1, <1>2, <1>5, <1>6 DEF DragIsUpToDate
<1> QED BY <1>1, <1>4, <1>7, LayoutFacts DEF LayoutInv

LEMMA MouseUpKeeps ==
    ASSUME LayoutInv, MouseUp
    PROVE  LayoutInv'
<1>1. /\ drag' = NoDrag /\ container' = container /\ open' = open /\ height' = height /\ shown' = shown
      /\ needs' = needs /\ outdated' = outdated /\ drags' = drags
    BY DEF MouseUp
<1>2. LayoutTypeOK'
    BY <1>1, LayoutFacts, NoDragIsADrag DEF LayoutTypeOK, DragsOf
<1>3. DragIsUpToDate'
    BY <1>1 DEF DragIsUpToDate
<1> QED BY <1>1, <1>2, <1>3, LayoutFacts DEF LayoutInv

\* The two sections of a drag and the third one are the three sections.
LEMMA ThreeSections ==
    ASSUME NEW r \in DragsOf, BetweenOpen(r)
    PROVE  /\ Upper(r) \in Sections /\ Lower(r) \in Sections /\ Third(r) \in Sections
           /\ Upper(r) # Lower(r) /\ Third(r) # Upper(r) /\ Third(r) # Lower(r)
           /\ \A s \in Sections : s = Upper(r) \/ s = Lower(r) \/ s = Third(r)
           /\ r.open[Upper(r)] /\ r.open[Lower(r)]
<1>1. /\ Upper(r) \in Sections /\ Lower(r) \in Sections /\ Upper(r) # Lower(r)
      /\ r.open[Upper(r)] /\ r.open[Lower(r)]
    BY DEF BetweenOpen, Upper, Lower, Sections, DragsOf
<1>2. \E s : s \in Sections \ {Upper(r), Lower(r)}
    BY <1>1 DEF Sections
<1>3. Third(r) \in Sections \ {Upper(r), Lower(r)}
    BY <1>2 DEF Third
<1> QED BY <1>1, <1>3 DEF Sections

LEMMA RoomForTwoIs ==
    ASSUME container \in Nat, NEW r \in DragsOf, BetweenOpen(r)
    PROVE  RoomForTwo(r) = RoomIn(container, r.open) - HeightsIn(container, r.open, r.height)[Third(r)]
<1> DEFINE t == Third(r)
           n == RoomIn(container, r.open)
           b == HeightsIn(container, r.open, r.height)
<1>1. RoomForTwo(r) = IF ~r.open[t] THEN n
                      ELSE IF r.height[t] = EqualShare THEN n - n \div 3
                      ELSE n - r.height[t]
    BY SameRoom DEF RoomForTwo, Third
<1>2. b[t] = IF ~r.open[t] THEN 0 ELSE IF r.height[t] # EqualShare THEN r.height[t]
             ELSE n \div Cardinality(Opened(r.open))
    BY ThreeSections DEF HeightsIn
<1>3. n \in Nat
    BY RoomIsNat
<1>4. r.open[t] => Cardinality(Opened(r.open)) = 3
    <2>1. r.open \in [Sections -> BOOLEAN]
        BY DEF DragsOf
    <2>2. r.open[t] => \A s \in Sections : r.open[s]
        BY ThreeSections
    <2> QED BY <2>1, <2>2, OpenedCount DEF Sections
<1> HIDE DEF t, n
<1> QED BY <1>1, <1>2, <1>3, <1>4 DEF t, n

LEMMA MouseMoveKeeps ==
    ASSUME LayoutInv, NEW delta \in Deltas, MouseMove(delta)
    PROVE  LayoutInv'
<1> DEFINE start == IF drag.moved THEN drag.start ELSE getContentHeights(drag.open, drag.height)
           up == Upper(drag)
           low == Lower(drag)
           third == Third(drag)
           new == Resized(start[up], start[low], delta, RoomForTwo(drag))
           o == [open EXCEPT ![up] = @ /\ new[1] >= COLLAPSE_THRESHOLD,
                             ![low] = @ /\ new[2] >= COLLAPSE_THRESHOLD]
           h == [height EXCEPT ![up] = new[1], ![low] = new[2]]
<1>1. /\ drag # NoDrag
      /\ drag' = [drag EXCEPT !.start = start, !.moved = TRUE, !.stale = @ \/ o # open]
      /\ Render(o, h)
      /\ outdated' = (o = open /\ (outdated \/ drag.stale))
      /\ container' = container /\ needs' = needs /\ drags' = drags
    BY Zenon DEF MouseMove
<1>2. drag \in DragsOf /\ BetweenOpen(drag)
    BY <1>1, LayoutFacts DEF LayoutInv, DragIsUpToDate
<1>3. /\ up \in Sections /\ low \in Sections /\ third \in Sections
      /\ up # low /\ third # up /\ third # low
      /\ \A s \in Sections : s = up \/ s = low \/ s = third
      /\ drag.open[up] /\ drag.open[low]
    BY <1>2, ThreeSections
<1>4. /\ drag.open \in [Sections -> BOOLEAN] /\ drag.height \in [Sections -> Int \cup {EqualShare}]
      /\ drag.start \in [Sections -> Int] /\ drag.moved \in BOOLEAN /\ drag.stale \in BOOLEAN
    BY <1>2 DEF DragsOf
<1> DEFINE begins == HeightsIn(container, drag.open, drag.height)
<1>5. begins \in [Sections -> Int]
    BY <1>4, HeightsAreInt, LayoutFacts
<1>6. start \in [Sections -> Int] /\ (drag.moved => start = drag.start) /\ (~drag.moved => start = begins)
    BY <1>4, <1>5, SameHeights
<1>7. RoomForTwo(drag) = RoomIn(container, drag.open) - begins[third] /\ RoomIn(container, drag.open) \in Nat
    BY <1>2, RoomForTwoIs, RoomIsNat, LayoutFacts
<1> HIDE DEF start, up, low, third, begins
<1>8. delta \in Int /\ start[up] \in Int /\ start[low] \in Int /\ begins[third] \in Int
    BY <1>3, <1>5, <1>6, PanelSizes
<1>9. RoomForTwo(drag) \in Int
    BY <1>7, <1>8
<1>10. new[1] \in Int /\ new[2] \in Int
    BY <1>8, <1>9, ResizedIsInt
<1> HIDE DEF new
<1>11. o \in [Sections -> BOOLEAN] /\ h \in [Sections -> Int \cup {EqualShare}]
    <2>1. open \in [Sections -> BOOLEAN] /\ height \in [Sections -> Int \cup {EqualShare}]
        BY LayoutFacts
    <2>2. h \in [Sections -> Int \cup {EqualShare}]
        BY <1>10, <2>1
    <2>3. o \in [Sections -> BOOLEAN]
        BY <2>1
    <2> QED BY <2>2, <2>3
<1>12. h[up] = new[1] /\ h[low] = new[2] /\ h[third] = height[third]
    BY <1>3, LayoutFacts
<1> HIDE DEF o, h
<1>13. /\ open' = o /\ height' \in [Sections -> Int \cup {EqualShare}] /\ shown' \in [Sections -> Int]
       /\ o # open => shown' = HeightsIn(container, o, height') /\ FitIn(container, o, shown')
       /\ o = open => height' = h /\ (~outdated => shown' = HeightsIn(container, o, h))
    BY <1>1, <1>11, RenderFits
<1>14. /\ drag' \in DragsOf /\ drag'.handle = drag.handle /\ drag'.open = drag.open
       /\ drag'.height = drag.height /\ drag'.start = start /\ drag'.moved = TRUE
       /\ drag'.stale = (drag.stale \/ o # open)
    BY <1>1, <1>2, <1>6 DEF DragsOf
<1>15. LayoutTypeOK'
    BY <1>1, <1>11, <1>13, <1>14, LayoutFacts DEF LayoutTypeOK, DragsOf
<1>16. BetweenOpen(drag') /\ Third(drag') = third
    BY <1>2, <1>14, SameDrag DEF third
<1>17. ASSUME o = open, ~outdated, ~drag.stale
       PROVE  /\ FitIn(container, open, HeightsIn(container, open, h))
              /\ drag.open = open /\ height[third] = drag.height[third]
              /\ start = HeightsIn(container, open, drag.height)
              /\ FitIn(container, open, HeightsIn(container, open, drag.height))
    <2>1. /\ drag.open = open /\ height[third] = drag.height[third]
          /\ begins = HeightsIn(container, open, drag.height)
          /\ FitIn(container, open, begins) /\ start = begins
        BY <1>1, <1>6, <1>17 DEF LayoutInv, DragIsUpToDate, begins, third
    <2> DEFINE n == RoomIn(container, open)
               k == Cardinality(Opened(open))
               set == HeightsIn(container, open, h)
    <2>2. set[up] = new[1] /\ set[low] = new[2] /\ set[third] = begins[third]
        <3>1. new[1] # EqualShare /\ new[2] # EqualShare
            BY <1>10, PanelSizes
        <3>2. \A s \in Sections :
                 /\ set[s] = IF ~open[s] THEN 0 ELSE IF h[s] # EqualShare THEN h[s] ELSE n \div k
                 /\ begins[s] = IF ~open[s] THEN 0 ELSE IF drag.height[s] # EqualShare THEN drag.height[s] ELSE n \div k
            BY <2>1 DEF HeightsIn
        <3> HIDE DEF set, n, k
        <3> QED BY <1>3, <1>12, <2>1, <3>1, <3>2
    <2> HIDE DEF set
    <2>3. ASSUME n >= MIN_CONTENT_HEIGHT * k
          PROVE  /\ set["files"] + set["tasks"] + set["agents"] <= n
                 /\ \A s \in Opened(open) : set[s] >= MIN_CONTENT_HEIGHT
                 /\ \A s \in Sections \ Opened(open) : set[s] = 0
        <3>1. /\ begins["files"] + begins["tasks"] + begins["agents"] <= n
              /\ \A s \in Opened(open) : begins[s] >= MIN_CONTENT_HEIGHT
              /\ \A s \in Sections \ Opened(open) : begins[s] = 0
            BY <2>1, <2>3 DEF FitIn
        <3> HIDE DEF n, k
        <3>2. up \in Opened(open) /\ low \in Opened(open)
            BY <1>3, <2>1 DEF Opened
        <3>3. /\ begins["files"] \in Int /\ begins["tasks"] \in Int /\ begins["agents"] \in Int
              /\ n \in Int /\ RoomForTwo(drag) = n - begins[third]
            BY <1>5, <1>7, <2>1 DEF n, Sections
        <3>4. begins["files"] + begins["tasks"] + begins["agents"] = begins[up] + begins[low] + begins[third]
            BY <1>3, <3>3 DEF Sections
        <3>5. begins[up] + begins[low] <= RoomForTwo(drag)
            BY <1>8, <2>1, <3>1, <3>3, <3>4
        <3>6. begins[up] >= MIN_CONTENT_HEIGHT /\ begins[low] >= MIN_CONTENT_HEIGHT
            BY <3>1, <3>2
        <3>7. /\ new[1] + new[2] = begins[up] + begins[low]
              /\ new[1] >= MIN_CONTENT_HEIGHT /\ new[2] >= MIN_CONTENT_HEIGHT
            BY <1>8, <1>9, <2>1, <3>5, <3>6, ResizedKeepsTheSum DEF new
        <3>8. set["files"] + set["tasks"] + set["agents"] = set[up] + set[low] + set[third]
            BY <1>3, <1>8, <1>10, <2>2 DEF Sections
        <3>9. set["files"] + set["tasks"] + set["agents"] <= n
            BY <1>8, <1>10, <2>1, <2>2, <3>1, <3>3, <3>4, <3>7, <3>8
        <3>10. \A s \in Opened(open) : set[s] >= MIN_CONTENT_HEIGHT
            BY <1>3, <2>2, <3>1, <3>7 DEF Opened
        <3>11. \A s \in Sections \ Opened(open) : set[s] = 0
            BY <1>3, <2>2, <3>1, <3>2
        <3> QED BY <3>9, <3>10, <3>11
    <2>4. FitIn(container, open, set)
        BY <2>3 DEF FitIn
    <2> QED BY <2>1, <2>4 DEF set
<1>18. ~outdated' => shown' = HeightsIn(container', open', height') /\ FitIn(container', open', shown')
    BY <1>1, <1>4, <1>13, <1>17, LayoutFacts
<1>19. DragIsUpToDate'
    <2> SUFFICES ASSUME ~drag'.stale
                 PROVE  /\ drag'.open = open' /\ height'[third] = drag'.height[third]
                        /\ ~outdated' =>
                              LET sets == HeightsIn(container', open', drag'.height)
                              IN  FitIn(container', open', sets) /\ (drag'.moved => drag'.start = sets)
        BY <1>16 DEF DragIsUpToDate
    <2>1. ~drag.stale /\ o = open
        BY <1>14
    <2>2. drag.open = open /\ height[third] = drag.height[third]
        BY <1>1, <2>1 DEF LayoutInv, DragIsUpToDate, third
    <2>3. height' = h /\ open' = open
        BY <1>13, <2>1
    <2>4. ~outdated' => ~outdated
        BY <1>1, <2>1, LayoutFacts
    <2> QED BY <1>1, <1>12, <1>14, <1>17, <2>1, <2>2, <2>3, <2>4
<1> QED BY <1>15, <1>18, <1>19 DEF LayoutInv

LEMMA LayoutInvInit == LayoutInit => LayoutInv
<1> SUFFICES ASSUME LayoutInit PROVE LayoutInv
    OBVIOUS
<1>1. /\ container = Max(Containers) /\ open = [s \in Sections |-> s = "files"] /\ height = AllEqual
      /\ shown = HeightsIn(container, open, AllEqual) /\ needs = {} /\ drag = NoDrag
      /\ outdated = FALSE /\ drags = 0
    BY SameHeights DEF LayoutInit
<1>2. container \in Containers /\ container \in Nat
    <2>1. \E c \in Containers : \A d \in Containers : c >= d
        BY LayoutAssumption
    <2> QED BY <1>1, <2>1, PanelSizes DEF Max
<1>3. open \in [Sections -> BOOLEAN] /\ AllEqual \in [Sections -> Int \cup {EqualShare}] /\ 0 \in 0..MaxDrags
    BY <1>1, NoDragIsADrag, PanelSizes
<1>4. shown \in [Sections -> Int] /\ FitIn(container, open, shown)
    BY <1>1, <1>2, <1>3, HeightsAreInt, EqualSharesFit
<1>5. LayoutTypeOK
    BY <1>1, <1>2, <1>3, <1>4, NoDragIsADrag DEF LayoutTypeOK, DragsOf
<1> QED BY <1>1, <1>4, <1>5 DEF LayoutInv, DragIsUpToDate

LEMMA LayoutInvNext == LayoutInv /\ [LayoutNext]_layoutVars => LayoutInv'
<1> SUFFICES ASSUME LayoutInv, [LayoutNext]_layoutVars PROVE LayoutInv'
    OBVIOUS
<1>1. ASSUME NEW s \in Sections, ToggleSection(s) PROVE LayoutInv'
    BY <1>1, ToggleSectionKeeps
<1>2. ASSUME NEW n \in SUBSET {"tasks", "agents"}, NeedsChange(n) PROVE LayoutInv'
    BY <1>2, NeedsChangeKeeps
<1>3. ASSUME NEW c \in Containers, WindowResize(c) PROVE LayoutInv'
    BY <1>3, WindowResizeKeeps
<1>4. ASSUME NEW handle \in {"below files", "below tasks"}, MouseDown(handle) PROVE LayoutInv'
    BY <1>4, MouseDownKeeps
<1>5. ASSUME NEW delta \in Deltas, MouseMove(delta) PROVE LayoutInv'
    BY <1>5, MouseMoveKeeps
<1>6. CASE MouseUp
    BY <1>6, MouseUpKeeps
<1>7. CASE UNCHANGED layoutVars
    <2>1. /\ container' = container /\ open' = open /\ height' = height /\ shown' = shown
          /\ needs' = needs /\ drag' = drag /\ outdated' = outdated /\ drags' = drags
        BY <1>7 DEF layoutVars
    <2> QED BY <2>1 DEF LayoutInv, LayoutTypeOK, DragIsUpToDate
<1> QED BY <1>1, <1>2, <1>3, <1>4, <1>5, <1>6, <1>7 DEF LayoutNext

LEMMA LayoutInvFits == LayoutInv => HeightsFit
BY LayoutFacts, SameRoom DEF HeightsFit, FitIn

\* In a panel of whatever height and with whatever drags: the open sections fill
\* no more than it has, none below the minimum, whenever there is room for all at
\* the minimum; but for heights that are out of date, as they are after the window
\* was resized, or a drag went on over sections that had opened or closed
\* meanwhile, until a section opens or closes again (RightPanel.tsx).
THEOREM SectionsFit == LayoutSpec => []HeightsFit
BY LayoutInvFits, LayoutInvInit, LayoutInvNext, PTL DEF LayoutSpec

-----------------------------------------------------------------------------
\* The three side by side, each started and then left alone or run.
LEMMA PanelsInvInit == PanelsInit => TabsInv /\ TreeInv /\ LayoutInv
BY TabsInvInit, TreeInvInit, LayoutInvInit DEF PanelsInit

LEMMA PanelsInvNext ==
    TabsInv /\ TreeInv /\ LayoutInv /\ [PanelsNext]_<<part, tabsVars, treeVars, layoutVars>>
        => (TabsInv /\ TreeInv /\ LayoutInv)'
<1> SUFFICES ASSUME TabsInv, TreeInv, LayoutInv, [PanelsNext]_<<part, tabsVars, treeVars, layoutVars>>
             PROVE  TabsInv' /\ TreeInv' /\ LayoutInv'
    OBVIOUS
<1>1. [TabsNext]_tabsVars /\ [TreeNext]_treeVars /\ [LayoutNext]_layoutVars
    BY DEF PanelsNext
<1> QED BY <1>1, TabsInvNext, TreeInvNext, LayoutInvNext

\* Every variable of the tabs, the tree and the layout keeps its type.
THEOREM PanelsAreTyped == PanelsSpec => []PanelsTypeOK
<1>1. TabsInv /\ TreeInv /\ LayoutInv => PanelsTypeOK
    BY DEF TabsInv, TreeInv, LayoutInv, PanelsTypeOK
<1> QED BY <1>1, PanelsInvInit, PanelsInvNext, PTL DEF PanelsSpec
=============================================================================
