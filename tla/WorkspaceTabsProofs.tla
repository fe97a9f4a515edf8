------------------------- MODULE WorkspaceTabsProofs -------------------------
(***************************************************************************)
(* Theorems about WorkspaceTabs, for any hubs, notes and bounds.  First    *)
(* what the operators on histories and tabs keep, then the steps.          *)
(***************************************************************************)
EXTENDS WorkspaceTabs, FiniteSetTheorems, SequenceTheorems, TLAPS

-----------------------------------------------------------------------------
(* Positions of a sequence.                                                *)

LEMMA PositionsFinite ==
  ASSUME NEW n \in Nat, NEW S \in SUBSET (1..n)
  PROVE  IsFiniteSet(S) /\ Cardinality(S) \in 0..n
<1>1. IsFiniteSet(1..n) /\ Cardinality(1..n) = n
  BY FS_Interval
<1>2. IsFiniteSet(S) /\ Cardinality(S) <= n
  BY <1>1, FS_Subset
<1>3. QED
  BY <1>2, FS_CardinalityType

\* More of the positions are up to the greater of two.
LEMMA UpToMonotone ==
  ASSUME NEW n \in Nat, NEW S \in SUBSET (1..n), NEW j \in S, NEW k \in S, j < k
  PROVE  Cardinality(UpTo(S, j)) < Cardinality(UpTo(S, k))
<1>1. UpTo(S, j) \subseteq UpTo(S, k) /\ UpTo(S, j) # UpTo(S, k)
  <2>1. S \subseteq Int /\ j \in Int /\ k \in Int
    OBVIOUS
  <2>2. k \in UpTo(S, k) /\ k \notin UpTo(S, j)
    BY <2>1 DEF UpTo
  <2>3. \A x \in S : x <= j => x <= k
    BY <2>1
  <2>4. QED
    BY <2>2, <2>3 DEF UpTo
<1>2. UpTo(S, j) \in SUBSET (1..n) /\ UpTo(S, k) \in SUBSET (1..n)
  BY DEF UpTo
<1>3. /\ IsFiniteSet(UpTo(S, k)) /\ Cardinality(UpTo(S, k)) \in Nat
      /\ Cardinality(UpTo(S, j)) \in Nat
  BY <1>2, PositionsFinite
<1>4. /\ Cardinality(UpTo(S, j)) <= Cardinality(UpTo(S, k))
      /\ Cardinality(UpTo(S, k)) # Cardinality(UpTo(S, j))
  BY <1>1, <1>3, FS_Subset
<1>5. QED
  BY <1>3, <1>4

\* There is an i-th smallest position, for every i up to their number.
LEMMA NthExists ==
  ASSUME NEW n \in Nat, NEW S \in SUBSET (1..n), NEW i \in 1..Cardinality(S)
  PROVE  Nth(S, i) \in S /\ Cardinality(UpTo(S, Nth(S, i))) = i
<1> DEFINE rank == [k \in S |-> Cardinality(UpTo(S, k))]
           m    == Cardinality(S)
<1>1. IsFiniteSet(S) /\ m \in Nat
  BY PositionsFinite
<1>2. rank \in [S -> 1..m]
  <2> SUFFICES ASSUME NEW k \in S PROVE Cardinality(UpTo(S, k)) \in 1..m
    OBVIOUS
  <2>1. UpTo(S, k) \subseteq S /\ k \in UpTo(S, k)
    BY DEF UpTo
  <2>2. UpTo(S, k) \in SUBSET (1..n)
    BY <2>1
  <2>3. IsFiniteSet(UpTo(S, k)) /\ Cardinality(UpTo(S, k)) \in Nat
    BY <2>2, PositionsFinite
  <2>4. Cardinality(UpTo(S, k)) # 0
    BY <2>1, <2>3, FS_EmptySet
  <2>5. Cardinality(UpTo(S, k)) <= m
    BY <1>1, <2>1, FS_Subset
  <2>6. QED
    BY <1>1, <2>3, <2>4, <2>5
<1>3. \A j, k \in S : rank[j] = rank[k] => j = k
  <2> SUFFICES ASSUME NEW j \in S, NEW k \in S, rank[j] = rank[k] PROVE j = k
    OBVIOUS
  <2>1. j < k => Cardinality(UpTo(S, j)) < Cardinality(UpTo(S, k))
    BY UpToMonotone
  <2>2. k < j => Cardinality(UpTo(S, k)) < Cardinality(UpTo(S, j))
    BY UpToMonotone
  <2>3. Cardinality(UpTo(S, j)) = Cardinality(UpTo(S, k)) /\ Cardinality(UpTo(S, j)) \in Nat
    BY <1>2
  <2>4. QED
    BY <2>1, <2>2, <2>3
<1>4. rank \in Injection(S, 1..m)
  BY <1>2, <1>3 DEF Injection, IsInjective
<1>5. IsFiniteSet(1..m) /\ Cardinality(1..m) = m
  BY <1>1, FS_Interval
<1>6. rank \in Surjection(S, 1..m)
  BY <1>1, <1>4, <1>5, FS_Injection
<1>7. \E k \in S : Cardinality(UpTo(S, k)) = i
  BY <1>6 DEF Surjection
<1>8. QED
  BY <1>7 DEF Nth

LEMMA NthMonotone ==
  ASSUME NEW n \in Nat, NEW S \in SUBSET (1..n),
         NEW i \in 1..Cardinality(S), NEW j \in 1..Cardinality(S)
  PROVE  i < j => Nth(S, i) < Nth(S, j)
<1> DEFINE a == Nth(S, i)
           b == Nth(S, j)
<1>1. Cardinality(S) \in Nat
  BY PositionsFinite
<1>2. a \in S /\ Cardinality(UpTo(S, a)) = i
  BY NthExists
<1>3. b \in S /\ Cardinality(UpTo(S, b)) = j
  BY NthExists
<1> HIDE DEF a, b
<1>4. b < a => Cardinality(UpTo(S, b)) < Cardinality(UpTo(S, a))
  BY <1>2, <1>3, UpToMonotone
<1>5. a = b => i = j
  BY <1>2, <1>3
<1>6. a \in Int /\ b \in Int /\ i \in Int /\ j \in Int
  BY <1>1, <1>2, <1>3
<1>7. i < j => a < b
  BY <1>2, <1>3, <1>4, <1>5, <1>6
<1>8. QED
  BY <1>7 DEF a, b

\* Every position is the i-th smallest for some i.
LEMMA NthOnto ==
  ASSUME NEW n \in Nat, NEW S \in SUBSET (1..n), NEW k \in S
  PROVE  Cardinality(UpTo(S, k)) \in 1..Cardinality(S)
         /\ Nth(S, Cardinality(UpTo(S, k))) = k
<1> DEFINE i == Cardinality(UpTo(S, k))
<1>1. UpTo(S, k) \subseteq S /\ k \in UpTo(S, k) /\ UpTo(S, k) \in SUBSET (1..n)
  <2>1. S \subseteq 1..n /\ k \in Int /\ k <= k
    OBVIOUS
  <2>2. QED
    BY <2>1 DEF UpTo
<1>2. IsFiniteSet(S) /\ Cardinality(S) \in Nat /\ IsFiniteSet(UpTo(S, k)) /\ i \in Nat
  BY <1>1, PositionsFinite
<1>3. i # 0 /\ i <= Cardinality(S)
  <2>1. i # 0
    BY <1>1, <1>2, FS_EmptySet
  <2>2. QED
    BY <1>1, <1>2, <2>1, FS_Subset
<1>4. i \in 1..Cardinality(S)
  BY <1>2, <1>3
<1>5. Nth(S, i) \in S /\ Cardinality(UpTo(S, Nth(S, i))) = i
  BY <1>4, NthExists
<1>6. Nth(S, i) < k => Cardinality(UpTo(S, Nth(S, i))) < i
  BY <1>5, UpToMonotone
<1>7. k < Nth(S, i) => i < Cardinality(UpTo(S, Nth(S, i)))
  BY <1>5, UpToMonotone
<1>8. Nth(S, i) \in Int /\ k \in Int
  <2>1. S \subseteq Int
    OBVIOUS
  <2>2. QED
    BY <1>5, <2>1
<1>9. Nth(S, i) = k
  BY <1>2, <1>5, <1>6, <1>7, <1>8
<1>10. QED
  BY <1>4, <1>9

\* A subsequence: its elements, in order.
LEMMA PickIsSubsequence ==
  ASSUME NEW T, NEW s \in Seq(T), NEW S \in SUBSET (DOMAIN s)
  PROVE  /\ Pick(s, S) \in Seq(T)
         /\ Len(Pick(s, S)) = Cardinality(S) /\ Cardinality(S) \in 0..Len(s)
         /\ DOMAIN Pick(s, S) = 1..Cardinality(S)
         /\ \A i \in 1..Cardinality(S) : Nth(S, i) \in S /\ Pick(s, S)[i] = s[Nth(S, i)]
         /\ \A i, j \in 1..Cardinality(S) : Nth(S, i) = Nth(S, j) => i = j
         /\ \A k \in S : \E i \in 1..Cardinality(S) : Nth(S, i) = k
<1> DEFINE n == Len(s)
           m == Cardinality(S)
<1>1. n \in Nat /\ DOMAIN s = 1..n
  OBVIOUS
<1>2. m \in 0..n /\ S \in SUBSET (1..n)
  BY <1>1, PositionsFinite
<1>3. \A i \in 1..m : Nth(S, i) \in S
  BY <1>1, <1>2, NthExists
<1>4. \A i, j \in 1..m : Nth(S, i) = Nth(S, j) => i = j
  <2> SUFFICES ASSUME NEW i \in 1..m, NEW j \in 1..m, Nth(S, i) = Nth(S, j) PROVE i = j
    OBVIOUS
  <2>1. Cardinality(UpTo(S, Nth(S, i))) = i /\ Cardinality(UpTo(S, Nth(S, j))) = j
    BY <1>1, <1>2, NthExists
  <2>2. QED
    BY <2>1
<1>5. \A k \in S : \E i \in 1..m : Nth(S, i) = k
  BY <1>1, <1>2, NthOnto
<1>6. \A i \in 1..m : s[Nth(S, i)] \in T
  BY <1>1, <1>3
<1>7. Pick(s, S) = [i \in 1..m |-> s[Nth(S, i)]]
  BY DEF Pick
<1>8. Pick(s, S) \in [1..m -> T] /\ DOMAIN Pick(s, S) = 1..m
  BY <1>6, <1>7
<1>9. Pick(s, S) \in Seq(T) /\ Len(Pick(s, S)) = m
  BY <1>2, <1>8
<1>10. QED
  BY <1>1, <1>2, <1>3, <1>4, <1>5, <1>7, <1>8, <1>9

\* The first element stays first if it is picked.
LEMMA PickFirst ==
  ASSUME NEW T, NEW s \in Seq(T), NEW S \in SUBSET (DOMAIN s), 1 \in S
  PROVE  Cardinality(S) >= 1 /\ Pick(s, S)[1] = s[1]
<1>1. Len(s) \in Nat /\ S \in SUBSET (1..Len(s))
  OBVIOUS
<1>2. UpTo(S, 1) = {1}
  BY <1>1 DEF UpTo
<1>3. Cardinality(UpTo(S, 1)) = 1
  BY <1>2, FS_Singleton
<1>4. 1 \in 1..Cardinality(S) /\ Nth(S, 1) = 1
  BY <1>1, <1>3, NthOnto
<1>5. QED
  BY <1>1, <1>4, PickIsSubsequence, PositionsFinite

-----------------------------------------------------------------------------
(* Histories with a current entry.                                         *)

LiveHistories ==
  {h \in [entries : Seq(Uris), index : Nat] :
     h.index \in 1..Len(h.entries) /\ Len(h.entries) <= MaxEntries}

LEMMA LiveIsHistory ==
  ASSUME NEW h \in LiveHistories
  PROVE  h \in Histories /\ HasCurrent(h)
BY WorkspaceAssumption DEF LiveHistories, Histories, HasCurrent, WorkspaceAssumption

LEMMA CurrentIsUri ==
  ASSUME NEW h \in LiveHistories
  PROVE  Current(h) \in Uris /\ Current(h) \in Visited(h)
BY DEF LiveHistories, Current, Visited

LEMMA MakeLive ==
  ASSUME NEW e \in Seq(Uris), NEW i \in 1..Len(e), Len(e) <= MaxEntries
  PROVE  /\ [entries |-> e, index |-> i] \in LiveHistories
         /\ [entries |-> e, index |-> i].entries = e
BY DEF LiveHistories

LEMMA HistoryLive ==
  ASSUME NEW u \in Uris
  PROVE  History(u) \in LiveHistories /\ History(u).entries[1] = u
<1> DEFINE e == <<u>>
<1>1. e \in Seq(Uris) /\ Len(e) = 1 /\ e[1] = u
  OBVIOUS
<1>2. MaxEntries \in Nat /\ 1 <= MaxEntries
  BY WorkspaceAssumption DEF WorkspaceAssumption
<1>3. History(u) = [entries |-> e, index |-> 1]
  BY DEF History
<1> HIDE DEF e
<1>4. 1 \in 1..Len(e) /\ Len(e) <= MaxEntries
  BY <1>1, <1>2
<1>5. /\ [entries |-> e, index |-> 1] \in LiveHistories
      /\ [entries |-> e, index |-> 1].entries = e
  BY <1>1, <1>4, MakeLive
<1>6. QED
  BY <1>1, <1>3, <1>5

LEMMA PushLive ==
  ASSUME NEW h \in LiveHistories, NEW u \in Uris, Fits(h, u)
  PROVE  Push(h, u) \in LiveHistories /\ Push(h, u).entries[1] = h.entries[1]
<1> DEFINE e == SubSeq(h.entries, 1, h.index)
           g == [entries |-> Append(e, u), index |-> h.index + 1]
<1>1. CASE Current(h) = u
  BY <1>1 DEF Push
<1>2. CASE Current(h) # u
  <2>1. /\ h.entries \in Seq(Uris) /\ h.index \in 1..Len(h.entries) /\ h.index \in Nat
        /\ h.index < MaxEntries
    BY <1>2 DEF LiveHistories, Fits
  <2>2. e \in Seq(Uris) /\ Len(e) = h.index /\ e[1] = h.entries[1]
    BY <2>1
  <2> HIDE DEF e
  <2>3. /\ Append(e, u) \in Seq(Uris) /\ Len(Append(e, u)) = h.index + 1
        /\ Append(e, u)[1] = h.entries[1]
    BY <2>1, <2>2
  <2>4. g \in LiveHistories /\ g.entries[1] = h.entries[1]
    BY <2>1, <2>3, WorkspaceAssumption DEF LiveHistories, WorkspaceAssumption
  <2>5. QED
    BY <1>2, <2>4 DEF Push, e
<1>3. QED
  BY <1>1, <1>2

LEMMA StepLive ==
  ASSUME NEW h \in LiveHistories, NEW i \in DOMAIN h.entries
  PROVE  [h EXCEPT !.index = i] \in LiveHistories
<1> DEFINE g == [h EXCEPT !.index = i]
<1>1. h \in [entries : Seq(Uris), index : Nat] /\ i \in 1..Len(h.entries)
  BY DEF LiveHistories
<1>2. g \in [entries : Seq(Uris), index : Nat] /\ g.index = i /\ g.entries = h.entries
  BY <1>1
<1>3. QED
  BY <1>1, <1>2 DEF LiveHistories

\* Notes leave a history that has others: the first stays if it is not one of them.
LEMMA PrunedLive ==
  ASSUME NEW h \in LiveHistories, NEW gone, Staying(h, gone) # {}
  PROVE  /\ Pruned(h, gone) \in LiveHistories
         /\ h.entries[1] \notin gone => Pruned(h, gone).entries[1] = h.entries[1]
<1> DEFINE kept   == Staying(h, gone)
           before == Cardinality(UpTo(kept, h.index))
           picked == Pick(h.entries, kept)
<1>1. /\ h.entries \in Seq(Uris) /\ h.index \in 1..Len(h.entries)
      /\ Len(h.entries) \in Nat /\ Len(h.entries) <= MaxEntries
      /\ DOMAIN h.entries = 1..Len(h.entries)
  BY DEF LiveHistories
<1>2. kept \in SUBSET (DOMAIN h.entries) /\ kept \in SUBSET (1..Len(h.entries))
  BY <1>1 DEF Staying
<1>3. IsFiniteSet(kept) /\ Cardinality(kept) \in Nat /\ Cardinality(kept) # 0
  BY <1>1, <1>2, PositionsFinite, FS_EmptySet
<1>4. UpTo(kept, h.index) \in SUBSET kept
  BY DEF UpTo
<1>5. before \in 0..Cardinality(kept)
  <2>1. UpTo(kept, h.index) \in SUBSET (1..Len(h.entries))
    BY <1>2, <1>4
  <2>2. before \in Nat
    BY <1>1, <2>1, PositionsFinite
  <2>3. before <= Cardinality(kept)
    BY <1>3, <1>4, FS_Subset
  <2>4. QED
    BY <1>3, <2>2, <2>3
<1>6. /\ picked \in Seq(Uris) /\ Len(picked) = Cardinality(kept)
      /\ Cardinality(kept) <= Len(h.entries)
  BY <1>1, <1>2, PickIsSubsequence
<1>7. 1 \in kept => picked[1] = h.entries[1]
  BY <1>1, <1>2, PickFirst
<1>8. h.entries[1] \notin gone => 1 \in kept
  BY <1>1 DEF Staying
<1>9. Pruned(h, gone) = [entries |-> picked, index |-> IF before = 0 THEN 1 ELSE before]
  BY DEF Pruned
<1> HIDE DEF kept, before, picked
<1>10. (IF before = 0 THEN 1 ELSE before) \in 1..Len(picked) /\ Len(picked) <= MaxEntries
  BY <1>1, <1>3, <1>5, <1>6, WorkspaceAssumption DEF WorkspaceAssumption
<1>11. QED
  BY <1>6, <1>7, <1>8, <1>9, <1>10 DEF LiveHistories

LEMMA RemappedLive ==
  ASSUME NEW h \in LiveHistories, NEW old \in Uris, NEW new \in Uris
  PROVE  /\ Remapped(h, old, new) \in LiveHistories
         /\ Remapped(h, old, new).entries[1] = Renamed(h.entries[1], old, new)
<1> DEFINE e == [i \in DOMAIN h.entries |-> Renamed(h.entries[i], old, new)]
<1>1. /\ h.entries \in Seq(Uris) /\ h.index \in 1..Len(h.entries)
      /\ Len(h.entries) \in Nat /\ DOMAIN h.entries = 1..Len(h.entries)
  BY DEF LiveHistories
<1>2. \A i \in 1..Len(h.entries) : Renamed(h.entries[i], old, new) \in Uris
  BY <1>1 DEF Renamed
<1>3. e \in Seq(Uris) /\ Len(e) = Len(h.entries) /\ e[1] = Renamed(h.entries[1], old, new)
  BY <1>1, <1>2
<1>4. Remapped(h, old, new) = [h EXCEPT !.entries = e]
  BY DEF Remapped
<1> HIDE DEF e
<1>5. QED
  BY <1>3, <1>4 DEF LiveHistories

-----------------------------------------------------------------------------
(* Strips: tabs with ids up to n, all different.                           *)

LiveTabs(n) == [id : 1..n, history : LiveHistories]

Strips(n) ==
  {tabs \in Seq(LiveTabs(n)) :
     \A i, j \in DOMAIN tabs : tabs[i].id = tabs[j].id => i = j}

LEMMA TabOfStrip ==
  ASSUME NEW n \in Nat, NEW tabs \in Strips(n), NEW i \in DOMAIN tabs
  PROVE  /\ tabs[i] \in LiveTabs(n) /\ tabs[i].id \in 1..n
         /\ tabs[i].history \in LiveHistories /\ tabs[i].id \in Ids(tabs)
<1>1. tabs \in Seq(LiveTabs(n))
  BY DEF Strips
<1>2. tabs[i] \in LiveTabs(n)
  BY <1>1
<1>3. tabs[i].id \in 1..n /\ tabs[i].history \in LiveHistories
  BY <1>2 DEF LiveTabs
<1>4. QED
  BY <1>2, <1>3 DEF Ids

LEMMA StripTypes ==
  ASSUME NEW n \in 0..MaxTabs, NEW tabs \in Strips(n)
  PROVE  /\ tabs \in Seq(Tabs) /\ ValidTabs(tabs)
         /\ Ids(tabs) \subseteq 1..n /\ Ids(tabs) \subseteq TabIds
<1>1. MaxTabs \in Nat
  BY WorkspaceAssumption DEF WorkspaceAssumption
<1>2. tabs \in Seq(LiveTabs(n))
  BY DEF Strips
<1>3. LiveTabs(n) \subseteq Tabs
  <2>1. LiveHistories \subseteq Histories /\ 1..n \subseteq 1..MaxTabs
    BY <1>1, LiveIsHistory
  <2>2. QED
    BY <2>1 DEF LiveTabs, Tabs, TabIds
<1>4. tabs \in Seq(Tabs)
  BY <1>2, <1>3
<1>5. \A i \in DOMAIN tabs : tabs[i].id \in 1..n /\ HasCurrent(tabs[i].history)
  BY <1>1, TabOfStrip, LiveIsHistory
<1>6. ValidTabs(tabs)
  BY <1>5 DEF ValidTabs, Strips
<1>7. QED
  BY <1>1, <1>4, <1>5, <1>6 DEF Ids, TabIds

LEMMA StripsGrow ==
  ASSUME NEW m \in Nat, NEW n \in Nat, m <= n
  PROVE  Strips(m) \subseteq Strips(n)
<1>1. LiveTabs(m) \subseteq LiveTabs(n)
  BY DEF LiveTabs
<1>2. Seq(LiveTabs(m)) \subseteq Seq(LiveTabs(n))
  BY <1>1
<1>3. QED
  BY <1>2 DEF Strips

LEMMA EmptyStrip ==
  ASSUME NEW n
  PROVE  <<>> \in Strips(n) /\ Ids(<<>>) = {}
<1>1. <<>> \in Seq(LiveTabs(n)) /\ DOMAIN <<>> = {}
  OBVIOUS
<1>2. QED
  BY <1>1 DEF Strips, Ids

LEMMA PositionOfTab ==
  ASSUME NEW n \in Nat, NEW tabs \in Strips(n), NEW id \in Ids(tabs)
  PROVE  /\ Position(tabs, id) \in DOMAIN tabs /\ tabs[Position(tabs, id)].id = id
         /\ \A i \in DOMAIN tabs : tabs[i].id = id => i = Position(tabs, id)
<1>1. \E i \in DOMAIN tabs : tabs[i].id = id
  BY DEF Ids
<1>2. Position(tabs, id) \in DOMAIN tabs /\ tabs[Position(tabs, id)].id = id
  BY <1>1 DEF Position
<1>3. QED
  BY <1>2 DEF Strips

LEMMA UriOfTab ==
  ASSUME NEW n \in Nat, NEW tabs \in Strips(n), NEW id \in Ids(tabs)
  PROVE  UriOf(tabs, id) \in Uris
BY PositionOfTab, TabOfStrip, CurrentIsUri DEF UriOf

\* Tabs whose histories change.
LEMMA SameIds ==
  ASSUME NEW n \in Nat, NEW tabs \in Strips(n), NEW s,
         DOMAIN s = DOMAIN tabs, s = [i \in DOMAIN tabs |-> s[i]],
         \A i \in DOMAIN tabs : s[i] \in LiveTabs(n) /\ s[i].id = tabs[i].id
  PROVE  s \in Strips(n) /\ Ids(s) = Ids(tabs) /\ IdList(s) = IdList(tabs)
<1>1. Len(tabs) \in Nat /\ DOMAIN tabs = 1..Len(tabs)
  BY DEF Strips
<1>2. s \in [1..Len(tabs) -> LiveTabs(n)]
  BY <1>1
<1>3. s \in Seq(LiveTabs(n))
  BY <1>1, <1>2
<1>4. s \in Strips(n)
  BY <1>3 DEF Strips
<1>5. QED
  BY <1>4 DEF Ids, IdList

\* Some elements of a sequence that are tabs with ids of their own.
LEMMA PickedStrip ==
  ASSUME NEW n \in Nat, NEW T, NEW s \in Seq(T), NEW S \in SUBSET (DOMAIN s),
         \A k \in S : s[k] \in LiveTabs(n),
         \A j, k \in S : s[j].id = s[k].id => j = k
  PROVE  Pick(s, S) \in Strips(n) /\ Ids(Pick(s, S)) = {s[k].id : k \in S}
<1> DEFINE p == Pick(s, S)
           m == Cardinality(S)
<1>1. p = [i \in 1..m |-> s[Nth(S, i)]]
  BY DEF Pick
<1>0. m \in Nat
  <2>1. m \in 0..Len(s) /\ Len(s) \in Nat
    BY PickIsSubsequence
  <2>2. QED
    BY <2>1
<1>2. /\ DOMAIN p = 1..m
      /\ \A i \in 1..m : Nth(S, i) \in S /\ p[i] = s[Nth(S, i)]
      /\ \A i, j \in 1..m : Nth(S, i) = Nth(S, j) => i = j
      /\ \A k \in S : \E i \in 1..m : Nth(S, i) = k
  BY PickIsSubsequence
<1> HIDE DEF p, m
<1>3. p \in [1..m -> LiveTabs(n)]
  BY <1>1, <1>2
<1>4. p \in Seq(LiveTabs(n))
  BY <1>0, <1>3
<1>5. \A i, j \in DOMAIN p : p[i].id = p[j].id => i = j
  <2> SUFFICES ASSUME NEW i \in 1..m, NEW j \in 1..m, p[i].id = p[j].id PROVE i = j
    BY <1>2
  <2>1. s[Nth(S, i)].id = s[Nth(S, j)].id /\ Nth(S, i) \in S /\ Nth(S, j) \in S
    BY <1>2
  <2>2. Nth(S, i) = Nth(S, j)
    BY <2>1
  <2>3. QED
    BY <1>2, <2>2
<1>6. p \in Strips(n)
  BY <1>4, <1>5 DEF Strips
<1>7. Ids(p) = {s[k].id : k \in S}
  <2>1. \A i \in 1..m : p[i].id \in {s[k].id : k \in S}
    BY <1>2
  <2>2. \A k \in S : \E i \in 1..m : p[i].id = s[k].id
    BY <1>2
  <2>3. Ids(p) = {p[i].id : i \in 1..m}
    BY <1>2 DEF Ids
  <2>4. QED
    BY <2>1, <2>2, <2>3
<1>8. QED
  BY <1>6, <1>7 DEF p

\* Some of the tabs of a strip.
LEMMA PickedTabs ==
  ASSUME NEW n \in Nat, NEW tabs \in Strips(n), NEW S \in SUBSET (DOMAIN tabs)
  PROVE  Pick(tabs, S) \in Strips(n) /\ Ids(Pick(tabs, S)) = {tabs[k].id : k \in S}
<1>1. tabs \in Seq(LiveTabs(n)) /\ \A i, j \in DOMAIN tabs : tabs[i].id = tabs[j].id => i = j
  BY DEF Strips
<1>2. \A k \in S : tabs[k] \in LiveTabs(n)
  BY <1>1
<1>3. QED
  BY <1>1, <1>2, PickedStrip

LEMMA InsertElements ==
  ASSUME NEW T, NEW s \in Seq(T), NEW e \in T, NEW at \in 1..Len(s) + 1
  PROVE  /\ InsertAt(s, at, e) \in Seq(T) /\ Len(InsertAt(s, at, e)) = Len(s) + 1
         /\ \A k \in 1..Len(s) + 1 :
              InsertAt(s, at, e)[k] =
                IF k < at THEN s[k] ELSE IF k = at THEN e ELSE s[k - 1]
<1> DEFINE a == SubSeq(s, 1, at - 1)
           b == <<e>>
           c == SubSeq(s, at, Len(s))
<1>1. Len(s) \in Nat /\ at \in Nat /\ at >= 1 /\ at <= Len(s) + 1
  OBVIOUS
<1>2. a \in Seq(T) /\ Len(a) = at - 1 /\ \A k \in 1..at - 1 : a[k] = s[k]
  BY <1>1
<1>3. b \in Seq(T) /\ Len(b) = 1 /\ b[1] = e
  OBVIOUS
<1>4. /\ c \in Seq(T) /\ Len(c) = Len(s) - at + 1
      /\ \A k \in 1..Len(s) - at + 1 : c[k] = s[at + k - 1]
  BY <1>1
<1> HIDE DEF a, b, c
<1>5. /\ a \o b \in Seq(T) /\ Len(a \o b) = at
      /\ \A k \in 1..at : (a \o b)[k] = IF k < at THEN s[k] ELSE e
  <2>1. /\ a \o b \in Seq(T) /\ Len(a \o b) = Len(a) + Len(b)
        /\ \A k \in 1..Len(a) + Len(b) :
             (a \o b)[k] = IF k <= Len(a) THEN a[k] ELSE b[k - Len(a)]
    BY <1>2, <1>3, ConcatProperties
  <2>2. QED
    BY <1>1, <1>2, <1>3, <2>1
<1> DEFINE d == a \o b
<1> HIDE DEF d
<1>6. /\ (a \o b) \o c \in Seq(T) /\ Len((a \o b) \o c) = Len(s) + 1
      /\ \A k \in 1..Len(s) + 1 :
           ((a \o b) \o c)[k] = IF k < at THEN s[k] ELSE IF k = at THEN e ELSE s[k - 1]
  <2>1. /\ d \in Seq(T) /\ Len(d) = at
        /\ \A k \in 1..at : d[k] = IF k < at THEN s[k] ELSE e
    BY <1>5 DEF d
  <2>2. /\ d \o c \in Seq(T) /\ Len(d \o c) = Len(s) + 1
        /\ \A k \in 1..Len(s) + 1 : (d \o c)[k] = IF k <= at THEN d[k] ELSE c[k - at]
    <3>1. /\ d \o c \in Seq(T) /\ Len(d \o c) = Len(d) + Len(c)
          /\ \A k \in 1..Len(d) + Len(c) :
               (d \o c)[k] = IF k <= Len(d) THEN d[k] ELSE c[k - Len(d)]
      BY <1>4, <2>1, ConcatProperties
    <3>2. Len(d) + Len(c) = Len(s) + 1
      BY <1>1, <1>4, <2>1
    <3>3. QED
      BY <2>1, <3>1, <3>2
  <2>3. \A k \in 1..Len(s) + 1 :
          (d \o c)[k] = IF k < at THEN s[k] ELSE IF k = at THEN e ELSE s[k - 1]
    BY <1>1, <1>4, <2>1, <2>2
  <2>4. QED
    BY <2>2, <2>3 DEF d
<1>7. QED
  BY <1>6 DEF InsertAt, a, b, c

\* A tab with an id of its own is put somewhere.
LEMMA InsertedTab ==
  ASSUME NEW n \in Nat, NEW tabs \in Strips(n), NEW tab \in LiveTabs(n),
         tab.id \notin Ids(tabs), NEW at \in 1..Len(tabs) + 1
  PROVE  /\ InsertAt(tabs, at, tab) \in Strips(n)
         /\ Ids(InsertAt(tabs, at, tab)) = Ids(tabs) \cup {tab.id}
<1> DEFINE p == InsertAt(tabs, at, tab)
<1>1. tabs \in Seq(LiveTabs(n)) /\ \A i, j \in DOMAIN tabs : tabs[i].id = tabs[j].id => i = j
  BY DEF Strips
<1>2. Len(tabs) \in Nat /\ DOMAIN tabs = 1..Len(tabs) /\ at \in Nat
  BY <1>1
<1>3. /\ p \in Seq(LiveTabs(n)) /\ DOMAIN p = 1..Len(tabs) + 1
      /\ \A k \in 1..Len(tabs) + 1 :
           p[k] = IF k < at THEN tabs[k] ELSE IF k = at THEN tab ELSE tabs[k - 1]
  BY <1>1, InsertElements
<1>4. \A i \in DOMAIN tabs : tabs[i].id # tab.id
  BY DEF Ids
<1> HIDE DEF p
<1>5. \A i, j \in DOMAIN p : p[i].id = p[j].id => i = j
  <2> SUFFICES ASSUME NEW i \in DOMAIN p, NEW j \in DOMAIN p, p[i].id = p[j].id PROVE i = j
    OBVIOUS
  <2> DEFINE f(k) == IF k < at THEN k ELSE k - 1
  <2>1. \A k \in DOMAIN p : k # at => f(k) \in DOMAIN tabs /\ p[k] = tabs[f(k)]
    BY <1>2, <1>3
  <2>2. i = at <=> j = at
    BY <1>2, <1>3, <1>4, <2>1
  <2>3. CASE i # at /\ j # at
    <3>1. f(i) = f(j)
      BY <1>1, <2>1, <2>3
    <3>2. QED
      BY <1>2, <1>3, <2>3, <3>1
  <2>4. QED
    BY <2>2, <2>3
<1>6. p \in Strips(n)
  BY <1>3, <1>5 DEF Strips
<1>7. Ids(p) = Ids(tabs) \cup {tab.id}
  <2>1. \A k \in DOMAIN p : p[k].id \in Ids(tabs) \cup {tab.id}
    <3> SUFFICES ASSUME NEW k \in DOMAIN p PROVE p[k].id \in Ids(tabs) \cup {tab.id}
      OBVIOUS
    <3>1. CASE k < at
      BY <1>2, <1>3, <3>1 DEF Ids
    <3>2. CASE k = at
      BY <1>3, <3>2
    <3>3. CASE k > at
      <4>1. k - 1 \in DOMAIN tabs /\ p[k] = tabs[k - 1]
        BY <1>2, <1>3, <3>3
      <4>2. QED
        BY <4>1 DEF Ids
    <3>4. QED
      BY <1>2, <1>3, <3>1, <3>2, <3>3
  <2>2. \A i \in DOMAIN tabs : \E k \in DOMAIN p : p[k].id = tabs[i].id
    <3> SUFFICES ASSUME NEW i \in DOMAIN tabs PROVE \E k \in DOMAIN p : p[k].id = tabs[i].id
      OBVIOUS
    <3>1. CASE i < at
      BY <1>2, <1>3, <3>1
    <3>2. CASE ~(i < at)
      <4>1. i + 1 \in DOMAIN p /\ p[i + 1] = tabs[i]
        BY <1>2, <1>3, <3>2
      <4>2. QED
        BY <4>1
    <3>3. QED
      BY <3>1, <3>2
  <2>3. at \in DOMAIN p /\ p[at] = tab
    BY <1>2, <1>3
  <2>4. QED
    BY <2>1, <2>2, <2>3 DEF Ids
<1>8. QED
  BY <1>6, <1>7 DEF p

\* A tab that is opened gets the next id.
LEMMA NewTab ==
  ASSUME NEW n \in Nat, NEW u \in Uris
  PROVE  Tab(n + 1, u) \in LiveTabs(n + 1) /\ Tab(n + 1, u).id = n + 1
BY HistoryLive DEF Tab, LiveTabs

LEMMA OpenedTab ==
  ASSUME NEW n \in Nat, NEW tabs \in Strips(n), NEW u \in Uris, NEW at \in 1..Len(tabs) + 1
  PROVE  /\ InsertAt(tabs, at, Tab(n + 1, u)) \in Strips(n + 1)
         /\ Ids(InsertAt(tabs, at, Tab(n + 1, u))) = Ids(tabs) \cup {n + 1}
<1>1. tabs \in Strips(n + 1)
  BY StripsGrow
<1>2. n + 1 \notin Ids(tabs)
  BY TabOfStrip DEF Ids
<1>3. QED
  BY <1>1, <1>2, NewTab, InsertedTab

LEMMA FirstTab ==
  ASSUME NEW n \in Nat, NEW u \in Uris
  PROVE  <<Tab(n + 1, u)>> \in Strips(n + 1) /\ Ids(<<Tab(n + 1, u)>>) = {n + 1}
<1> DEFINE tab == Tab(n + 1, u)
           s   == <<tab>>
<1>1. tab \in LiveTabs(n + 1) /\ tab.id = n + 1
  BY NewTab
<1> HIDE DEF tab
<1>2. s \in Seq(LiveTabs(n + 1)) /\ DOMAIN s = {1} /\ s[1] = tab
  BY <1>1
<1> HIDE DEF s
<1>3. s \in Strips(n + 1) /\ Ids(s) = {n + 1}
  BY <1>1, <1>2 DEF Strips, Ids
<1>4. QED
  BY <1>3 DEF s, tab

\* A tab is taken out, or all the others are.
LEMMA TabTakenOut ==
  ASSUME NEW n \in Nat, NEW tabs \in Strips(n), NEW id
  PROVE  /\ TabsWithout(tabs, id) \in Strips(n)
         /\ Ids(TabsWithout(tabs, id)) = Ids(tabs) \ {id}
         /\ OnlyTab(tabs, id) \in Strips(n)
         /\ Ids(OnlyTab(tabs, id)) = Ids(tabs) \cap {id}
<1> DEFINE S == {i \in DOMAIN tabs : tabs[i].id # id}
           O == {i \in DOMAIN tabs : tabs[i].id = id}
<1>1. TabsWithout(tabs, id) \in Strips(n) /\ Ids(TabsWithout(tabs, id)) = {tabs[k].id : k \in S}
  BY PickedTabs DEF TabsWithout
<1>2. OnlyTab(tabs, id) \in Strips(n) /\ Ids(OnlyTab(tabs, id)) = {tabs[k].id : k \in O}
  BY PickedTabs DEF OnlyTab
<1>3. {tabs[k].id : k \in S} = Ids(tabs) \ {id} /\ {tabs[k].id : k \in O} = Ids(tabs) \cap {id}
  BY DEF Ids
<1>4. QED
  BY <1>1, <1>2, <1>3

LEMMA EnsuredActive ==
  ASSUME NEW n \in Nat, NEW tabs \in Strips(n), NEW id
  PROVE  /\ EnsureActive(tabs, id) \in {NoTab} \cup Ids(tabs)
         /\ tabs # <<>> => EnsureActive(tabs, id) \in Ids(tabs)
         /\ id \in Ids(tabs) => EnsureActive(tabs, id) = id /\ tabs # <<>>
<1>1. tabs \in Seq(LiveTabs(n))
  BY DEF Strips
<1>2. tabs # <<>> => 1 \in DOMAIN tabs
  BY <1>1
<1>3. tabs # <<>> => tabs[1].id \in Ids(tabs)
  BY <1>2, TabOfStrip
<1>4. id \in Ids(tabs) => tabs # <<>>
  BY EmptyStrip
<1>5. QED
  BY <1>3, <1>4 DEF EnsureActive

\* The neighbour of a tab is another tab.
LEMMA NeighborOfTab ==
  ASSUME NEW n \in Nat, NEW tabs \in Strips(n), NEW id \in Ids(tabs)
  PROVE  Neighbor(tabs, id) \in {NoTab} \cup (Ids(tabs) \ {id})
<1> DEFINE i == Position(tabs, id)
<1>1. /\ i \in DOMAIN tabs /\ tabs[i].id = id
      /\ \A k \in DOMAIN tabs : tabs[k].id = id => k = i
  BY PositionOfTab
<1>2. Len(tabs) \in Nat /\ DOMAIN tabs = 1..Len(tabs)
  BY DEF Strips
<1> HIDE DEF i
<1>3. i < Len(tabs) => tabs[i + 1].id \in Ids(tabs) \ {id}
  BY <1>1, <1>2 DEF Ids
<1>4. Len(tabs) # 1 /\ ~(i < Len(tabs)) => tabs[i - 1].id \in Ids(tabs) \ {id}
  BY <1>1, <1>2 DEF Ids
<1>5. QED
  BY <1>3, <1>4 DEF Neighbor, i

LEMMA PushedTabs ==
  ASSUME NEW n \in Nat, NEW tabs \in Strips(n), NEW id, NEW u \in Uris,
         \A i \in DOMAIN tabs : Fits(tabs[i].history, u)
  PROVE  PushOn(tabs, id, u) \in Strips(n) /\ Ids(PushOn(tabs, id, u)) = Ids(tabs)
<1> DEFINE s == PushOn(tabs, id, u)
<1>1. DOMAIN s = DOMAIN tabs /\ s = [i \in DOMAIN tabs |-> s[i]]
  BY DEF PushOn
<1>2. ASSUME NEW i \in DOMAIN tabs PROVE s[i] \in LiveTabs(n) /\ s[i].id = tabs[i].id
  <2>1. tabs[i] \in LiveTabs(n) /\ Push(tabs[i].history, u) \in LiveHistories
    BY TabOfStrip, PushLive
  <2>2. [tabs[i] EXCEPT !.history = Push(@, u)] \in LiveTabs(n)
    BY <2>1 DEF LiveTabs
  <2>3. [tabs[i] EXCEPT !.history = Push(@, u)].id = tabs[i].id
    BY <2>1 DEF LiveTabs
  <2>4. QED
    BY <2>1, <2>2, <2>3 DEF PushOn
<1>3. QED
  BY <1>1, <1>2, SameIds

LEMMA MovedTabs ==
  ASSUME NEW n \in Nat, NEW tabs \in Strips(n), NEW id \in Ids(tabs), NEW step \in Int,
         LET h == tabs[Position(tabs, id)].history IN h.index + step \in DOMAIN h.entries
  PROVE  Moved(tabs, id, step) \in Strips(n) /\ Ids(Moved(tabs, id, step)) = Ids(tabs)
<1> DEFINE s == Moved(tabs, id, step)
<1>1. DOMAIN s = DOMAIN tabs /\ s = [i \in DOMAIN tabs |-> s[i]]
  BY DEF Moved
<1>2. ASSUME NEW i \in DOMAIN tabs PROVE s[i] \in LiveTabs(n) /\ s[i].id = tabs[i].id
  <2> DEFINE h == tabs[i].history
             t == [tabs[i] EXCEPT !.history.index = @ + step]
  <2>1. tabs[i] \in LiveTabs(n) /\ h \in LiveHistories
    BY TabOfStrip
  <2>2. CASE tabs[i].id = id
    <3>1. h.index + step \in DOMAIN h.entries
      BY <2>2, PositionOfTab
    <3>2. [h EXCEPT !.index = h.index + step] \in LiveHistories
      BY <2>1, <3>1, StepLive
    <3>3. t = [tabs[i] EXCEPT !.history = [h EXCEPT !.index = h.index + step]]
      BY <2>1 DEF LiveTabs
    <3>4. t \in LiveTabs(n) /\ t.id = tabs[i].id
      BY <2>1, <3>2, <3>3 DEF LiveTabs
    <3>5. QED
      BY <2>2, <3>4 DEF Moved
  <2>3. CASE tabs[i].id # id
    BY <2>1, <2>3 DEF Moved
  <2>4. QED
    BY <2>2, <2>3
<1>3. QED
  BY <1>1, <1>2, SameIds

LEMMA RemappedStrip ==
  ASSUME NEW n \in Nat, NEW tabs \in Strips(n), NEW old \in Uris, NEW new \in Uris
  PROVE  RemappedTabs(tabs, old, new) \in Strips(n) /\ Ids(RemappedTabs(tabs, old, new)) = Ids(tabs)
<1> DEFINE s == RemappedTabs(tabs, old, new)
<1>1. DOMAIN s = DOMAIN tabs /\ s = [i \in DOMAIN tabs |-> s[i]]
  BY DEF RemappedTabs
<1>2. ASSUME NEW i \in DOMAIN tabs PROVE s[i] \in LiveTabs(n) /\ s[i].id = tabs[i].id
  <2>1. tabs[i] \in LiveTabs(n) /\ Remapped(tabs[i].history, old, new) \in LiveHistories
    BY TabOfStrip, RemappedLive
  <2>2. s[i] = [tabs[i] EXCEPT !.history = Remapped(tabs[i].history, old, new)]
    BY DEF RemappedTabs
  <2>3. QED
    BY <2>1, <2>2 DEF LiveTabs
<1>3. QED
  BY <1>1, <1>2, SameIds

\* A tab stays as long as one of its notes does.
LEMMA PrunedStrip ==
  ASSUME NEW n \in Nat, NEW tabs \in Strips(n), NEW gone
  PROVE  /\ PrunedTabs(tabs, gone) \in Strips(n)
         /\ \A id : id \in Ids(PrunedTabs(tabs, gone)) <=>
              \E k \in DOMAIN tabs : tabs[k].id = id /\ Staying(tabs[k].history, gone) # {}
         /\ Ids(PrunedTabs(tabs, gone)) \subseteq Ids(tabs)
<1> DEFINE s == [i \in DOMAIN tabs |-> [tabs[i] EXCEPT !.history = Pruned(@, gone)]]
           S == {i \in DOMAIN tabs : Staying(tabs[i].history, gone) # {}}
           T == {s[i] : i \in DOMAIN tabs}
<1>1. /\ tabs \in Seq(LiveTabs(n)) /\ \A i, j \in DOMAIN tabs : tabs[i].id = tabs[j].id => i = j
      /\ Len(tabs) \in Nat /\ DOMAIN tabs = 1..Len(tabs)
  BY DEF Strips
<1>2. \A i \in DOMAIN tabs : s[i].id = tabs[i].id
  BY TabOfStrip DEF LiveTabs
<1>3. ASSUME NEW k \in S PROVE s[k] \in LiveTabs(n)
  <2>1. tabs[k] \in LiveTabs(n) /\ Pruned(tabs[k].history, gone) \in LiveHistories
    BY TabOfStrip, PrunedLive
  <2>2. s[k] = [tabs[k] EXCEPT !.history = Pruned(tabs[k].history, gone)]
    OBVIOUS
  <2>3. QED
    BY <2>1, <2>2 DEF LiveTabs
<1>4. s \in Seq(T) /\ S \in SUBSET (DOMAIN s)
  BY <1>1
<1>5. \A j, k \in S : s[j].id = s[k].id => j = k
  BY <1>1, <1>2
<1>6. PrunedTabs(tabs, gone) = Pick(s, S)
  BY DEF PrunedTabs
<1>7. {s[k].id : k \in S} = {tabs[k].id : k \in S}
  BY <1>2
<1> HIDE DEF s, S, T
<1>8. Pick(s, S) \in Strips(n) /\ Ids(Pick(s, S)) = {s[k].id : k \in S}
  BY <1>3, <1>4, <1>5, PickedStrip
<1>9. {tabs[k].id : k \in S} \subseteq Ids(tabs)
  BY DEF S, Ids
<1>10. \A id : id \in {tabs[k].id : k \in S} <=>
          \E k \in DOMAIN tabs : tabs[k].id = id /\ Staying(tabs[k].history, gone) # {}
  BY DEF S
<1>11. QED
  BY <1>6, <1>7, <1>8, <1>9, <1>10

-----------------------------------------------------------------------------
(* Workspaces.                                                             *)

LiveWorkspace(h, ws, n) ==
  /\ ws \in [tabs : Strips(n), home : LiveHistories, active : {NoTab} \cup TabIds]
  /\ ws.home.entries[1] = h
  /\ ws.active \in {NoTab} \cup Ids(ws.tabs)

LiveModel(all, n) ==
  /\ DOMAIN all \subseteq Hubs
  /\ \A h \in DOMAIN all : LiveWorkspace(h, all[h], n)

LEMMA LiveModelGrows ==
  ASSUME NEW m \in Nat, NEW n \in Nat, m <= n, NEW all, LiveModel(all, m)
  PROVE  LiveModel(all, n)
<1>1. Strips(m) \subseteq Strips(n)
  BY StripsGrow
<1>2. QED
  BY <1>1 DEF LiveModel, LiveWorkspace

LEMMA DefaultLive ==
  ASSUME NEW h \in Hubs, NEW n
  PROVE  LiveWorkspace(h, DefaultWorkspace(h), n)
<1>1. h \in Uris
  BY DEF Uris
<1>2. QED
  BY <1>1, EmptyStrip, HistoryLive DEF LiveWorkspace, DefaultWorkspace

LEMMA MirroredLive ==
  ASSUME NEW n \in 0..MaxTabs, NEW all, LiveModel(all, n), NEW hub,
         NEW tabs \in Strips(n), NEW id
  PROVE  /\ LiveModel(Mirrored(all, hub, tabs, id), n)
         /\ DOMAIN Mirrored(all, hub, tabs, id) = DOMAIN all
<1> DEFINE next == Mirrored(all, hub, tabs, id)
           at   == IF id \in Ids(tabs) THEN id ELSE NoTab
<1>1. DOMAIN next = DOMAIN all
  BY DEF Mirrored
<1>2. at \in {NoTab} \cup Ids(tabs) /\ at \in {NoTab} \cup TabIds
  BY StripTypes
<1> HIDE DEF at
<1>3. ASSUME NEW h \in DOMAIN all PROVE LiveWorkspace(h, next[h], n)
  <2>1. LiveWorkspace(h, all[h], n)
    BY DEF LiveModel
  <2>2. CASE hub \in DOMAIN all /\ h = hub
    <3>1. next[h] = [[all[h] EXCEPT !.tabs = tabs] EXCEPT !.active = at]
      BY <2>2 DEF Mirrored, at
    <3>2. QED
      BY <1>2, <2>1, <3>1 DEF LiveWorkspace
  <2>3. CASE ~(hub \in DOMAIN all /\ h = hub)
    BY <2>1, <2>3 DEF Mirrored
  <2>4. QED
    BY <2>2, <2>3
<1>4. QED
  BY <1>1, <1>3 DEF LiveModel

\* The Home history of a hub starts at the hub: it outlives any other notes.
LEMMA PrunedWorkspaceLive ==
  ASSUME NEW n \in 0..MaxTabs, NEW h, NEW ws, LiveWorkspace(h, ws, n), NEW gone, h \notin gone
  PROVE  LiveWorkspace(h, PrunedWorkspace(ws, gone), n)
<1> DEFINE tabs == PrunedTabs(ws.tabs, gone)
           home == Pruned(ws.home, gone)
           at   == IF ws.active \in Ids(tabs) THEN ws.active ELSE NoTab
<1>1. /\ ws.tabs \in Strips(n) /\ ws.home \in LiveHistories
      /\ ws.home.entries[1] = h /\ ws.active \in {NoTab} \cup TabIds
  BY DEF LiveWorkspace
<1>2. 1 \in Staying(ws.home, gone)
  BY <1>1 DEF LiveHistories, Staying
<1>3. home \in LiveHistories /\ home.entries[1] = h
  BY <1>1, <1>2, PrunedLive
<1>4. tabs \in Strips(n)
  BY <1>1, PrunedStrip
<1>5. at \in {NoTab} \cup TabIds /\ at \in {NoTab} \cup Ids(tabs)
  BY <1>1
<1>6. PrunedWorkspace(ws, gone) = [tabs |-> tabs, home |-> home, active |-> at]
  BY DEF PrunedWorkspace
<1> HIDE DEF tabs, home, at
<1>7. QED
  BY <1>3, <1>4, <1>5, <1>6 DEF LiveWorkspace

LEMMA PrunedModelLive ==
  ASSUME NEW n \in 0..MaxTabs, NEW all, LiveModel(all, n), NEW gone
  PROVE  /\ LiveModel(PrunedWorkspaces(all, gone), n)
         /\ DOMAIN PrunedWorkspaces(all, gone) = DOMAIN all \ gone
BY PrunedWorkspaceLive DEF LiveModel, PrunedWorkspaces

LEMMA RemappedWorkspaceLive ==
  ASSUME NEW n \in 0..MaxTabs, NEW h, NEW ws, LiveWorkspace(h, ws, n),
         NEW old \in Uris, NEW new \in Uris
  PROVE  LiveWorkspace(Renamed(h, old, new),
           [ws EXCEPT !.tabs = RemappedTabs(@, old, new), !.home = Remapped(@, old, new)], n)
<1> DEFINE tabs == RemappedTabs(ws.tabs, old, new)
           home == Remapped(ws.home, old, new)
           next == [ws EXCEPT !.tabs = RemappedTabs(@, old, new),
                              !.home = Remapped(@, old, new)]
<1>1. /\ ws.tabs \in Strips(n) /\ ws.home \in LiveHistories
      /\ ws.home.entries[1] = h /\ ws.active \in {NoTab} \cup Ids(ws.tabs)
      /\ ws \in [tabs : Strips(n), home : LiveHistories, active : {NoTab} \cup TabIds]
  BY DEF LiveWorkspace
<1>2. tabs \in Strips(n) /\ Ids(tabs) = Ids(ws.tabs)
  BY <1>1, RemappedStrip
<1>3. home \in LiveHistories /\ home.entries[1] = Renamed(h, old, new)
  BY <1>1, RemappedLive
<1> HIDE DEF tabs, home
<1>4. next = [[ws EXCEPT !.tabs = tabs] EXCEPT !.home = home]
  BY <1>1 DEF tabs, home
<1>5. next \in [tabs : Strips(n), home : LiveHistories, active : {NoTab} \cup TabIds]
      /\ next.tabs = tabs /\ next.home = home /\ next.active = ws.active
  BY <1>1, <1>2, <1>3, <1>4
<1>6. QED
  BY <1>1, <1>2, <1>3, <1>5 DEF LiveWorkspace

-----------------------------------------------------------------------------
(* What is always so, strayed or not: the inductive invariant behind       *)
(* WorkspaceTypeOK and WorkspaceValid.                                     *)

SurfaceLive ==
  /\ opened \in 0..MaxTabs
  /\ LiveModel(workspaces, opened)
  /\ strip \in Strips(opened) /\ stripActive \in {NoTab} \cup TabIds
  /\ shown \in Uris \cup {NoUri}

HubLive(hubs, hub) ==
  /\ hub \in Hubs \cup {NoUri}
  /\ IF hub = NoUri THEN hubs = {} ELSE hub \in hubs

(* A command that closes tabs keeps the tab it was given for in its strip. *)
LiveClosings(n) ==
  {c \in [kind : {"close", "closeOther", "closeRest"}, tab : TabIds,
          before : Strips(n), wasActive : BOOLEAN] : c.tab \in Ids(c.before)}
LiveCommands(n) == LiveClosings(n) \cup [kind : {"switch"}, hub : Hubs]

VaultLive ==
  /\ vaultHubs \subseteq Hubs /\ knownHubs \subseteq Hubs
  /\ scanned \in BOOLEAN /\ changes \in 0..MaxChanges /\ strayed \in BOOLEAN

LiveInv ==
  /\ SurfaceLive
  /\ HubLive(DOMAIN workspaces, activeHub)
  /\ waiting \subseteq LiveCommands(opened)
  /\ VaultLive

LEMMA NoUriIsNoHub == NoUri \notin Hubs /\ NoUri \notin Uris /\ Hubs \subseteq Uris
BY WorkspaceAssumption DEF WorkspaceAssumption, Uris

LEMMA CommandsGrow ==
  ASSUME NEW m \in Nat, NEW n \in Nat, m <= n
  PROVE  LiveCommands(m) \subseteq LiveCommands(n)
<1>1. Strips(m) \subseteq Strips(n)
  BY StripsGrow
<1>2. LiveClosings(m) \subseteq LiveClosings(n)
  BY <1>1 DEF LiveClosings
<1>3. QED
  BY <1>2 DEF LiveCommands

LEMMA LiveWorkspaceParts ==
  ASSUME NEW n, NEW all, LiveModel(all, n), NEW h \in DOMAIN all
  PROVE  /\ h \in Hubs /\ LiveWorkspace(h, all[h], n)
         /\ all[h].tabs \in Strips(n) /\ all[h].home \in LiveHistories
         /\ all[h].active \in {NoTab} \cup TabIds
         /\ all[h].active \in {NoTab} \cup Ids(all[h].tabs)
         /\ all[h].home.entries[1] = h
         /\ Current(all[h].home) \in Uris
<1>1. h \in Hubs /\ LiveWorkspace(h, all[h], n)
  BY DEF LiveModel
<1>2. QED
  BY <1>1, CurrentIsUri DEF LiveWorkspace

LEMMA HomeUriIsUri ==
  ASSUME NEW n, NEW all, LiveModel(all, n), NEW h \in Hubs
  PROVE  HomeUri(all, h) \in Uris
BY LiveWorkspaceParts, NoUriIsNoHub DEF HomeUri

\* The tabs of a workspace, its Home or its active tab are replaced.
LEMMA TabsReplaced ==
  ASSUME NEW n \in Nat, NEW all, LiveModel(all, n), NEW hub \in DOMAIN all,
         NEW ws, LiveWorkspace(hub, ws, n)
  PROVE  /\ LiveModel([all EXCEPT ![hub] = ws], n)
         /\ DOMAIN [all EXCEPT ![hub] = ws] = DOMAIN all
BY DEF LiveModel

LEMMA OnHomeLive ==
  ASSUME SurfaceLive, NEW all, LiveModel(all, opened), NEW hub,
         NEW tabs \in Strips(opened), NEW u \in Uris,
         ShowOnHome(all, hub, tabs, u)
  PROVE  SurfaceLive' /\ DOMAIN workspaces' = DOMAIN all /\ opened' = opened
<1>1. /\ LiveModel(workspaces', opened) /\ DOMAIN workspaces' = DOMAIN all
      /\ opened \in 0..MaxTabs
  BY MirroredLive DEF ShowOnHome, SurfaceLive
<1>2. QED
  BY <1>1 DEF ShowOnHome, SurfaceLive

LEMMA InTabLive ==
  ASSUME SurfaceLive, NEW all, LiveModel(all, opened), NEW hub,
         NEW tabs \in Strips(opened), NEW id, NEW u \in Uris, NEW skip \in BOOLEAN,
         skip \/ \A i \in DOMAIN tabs : Fits(tabs[i].history, u),
         ShowInTab(all, hub, tabs, id, u, skip)
  PROVE  /\ SurfaceLive' /\ DOMAIN workspaces' = DOMAIN all
         /\ opened <= opened' /\ opened' \in Nat
<1>1. MaxTabs \in Nat /\ opened \in 0..MaxTabs /\ opened \in Nat
  BY WorkspaceAssumption DEF WorkspaceAssumption, SurfaceLive
<1>2. opened' \in 0..MaxTabs /\ opened <= opened'
  BY <1>1 DEF ShowInTab
<1>3. strip' \in Strips(opened') /\ stripActive' \in Ids(strip')
  <2>1. CASE tabs = <<>>
    BY <1>1, <2>1, FirstTab DEF ShowInTab
  <2>2. CASE tabs # <<>>
    <3>1. EnsureActive(tabs, id) \in Ids(tabs)
      BY <1>1, <2>2, EnsuredActive
    <3>2. strip' \in Strips(opened) /\ Ids(strip') = Ids(tabs)
      BY <1>1, <2>2, PushedTabs DEF ShowInTab
    <3>3. QED
      BY <2>2, <3>1, <3>2 DEF ShowInTab
  <2>3. QED
    BY <2>1, <2>2
<1>4. LiveModel(all, opened')
  BY <1>1, <1>2, LiveModelGrows
<1>5. LiveModel(workspaces', opened') /\ DOMAIN workspaces' = DOMAIN all
  BY <1>2, <1>3, <1>4, MirroredLive DEF ShowInTab
<1>6. stripActive' \in TabIds
  BY <1>2, <1>3, StripTypes
<1>7. QED
  BY <1>1, <1>2, <1>3, <1>5, <1>6 DEF SurfaceLive, ShowInTab

LEMMA SameLive ==
  ASSUME SurfaceLive, NEW all, LiveModel(all, opened),
         NEW tabs \in Strips(opened), NEW id \in {NoTab} \cup TabIds,
         ShowSame(all, tabs, id)
  PROVE  SurfaceLive' /\ workspaces' = all /\ opened' = opened
BY DEF SurfaceLive, ShowSame

LEMMA NothingLive ==
  ASSUME SurfaceLive, NEW all, LiveModel(all, opened),
         NEW tabs \in Strips(opened), ShowNothing(all, tabs)
  PROVE  SurfaceLive' /\ workspaces' = all /\ opened' = opened
BY DEF SurfaceLive, ShowNothing

LEMMA WaitingLive ==
  ASSUME LiveInv, SurfaceLive', opened <= opened', waiting' \subseteq waiting
  PROVE  waiting' \subseteq LiveCommands(opened')
<1>1. opened \in Nat /\ opened' \in Nat
  BY WorkspaceAssumption DEF WorkspaceAssumption, LiveInv, SurfaceLive
<1>2. QED
  BY <1>1, CommandsGrow DEF LiveInv

LEMMA OnlySurface ==
  ASSUME LiveInv, SurfaceLive', DOMAIN workspaces' = DOMAIN workspaces, opened <= opened',
         UNCHANGED <<activeHub, vaultVars>>, waiting' \subseteq waiting, strayed' \in BOOLEAN
  PROVE  LiveInv'
<1>1. waiting' \subseteq LiveCommands(opened')
  BY WaitingLive
<1>2. QED
  BY <1>1 DEF LiveInv, VaultLive, vaultVars

LEMMA LiveFacts ==
  ASSUME LiveInv
  PROVE  /\ MaxTabs \in Nat /\ opened \in Nat /\ opened \in 0..MaxTabs /\ opened <= opened
         /\ SurfaceLive /\ LiveModel(workspaces, opened) /\ strip \in Strips(opened)
         /\ DOMAIN workspaces \subseteq Hubs /\ strayed \in BOOLEAN
         /\ activeHub # NoUri => activeHub \in DOMAIN workspaces /\ activeHub \in Hubs
         /\ activeHub = NoUri => DOMAIN workspaces = {}
         /\ NoUri \notin DOMAIN workspaces
         /\ Openable \subseteq Uris
BY WorkspaceAssumption, NoUriIsNoHub
DEF WorkspaceAssumption, LiveInv, SurfaceLive, HubLive, LiveModel, VaultLive, Openable, Uris

LEMMA HomeReplaced ==
  ASSUME NEW n \in Nat, NEW all, LiveModel(all, n), NEW hub \in DOMAIN all,
         NEW home \in LiveHistories, home.entries[1] = hub
  PROVE  /\ LiveModel([all EXCEPT ![hub].home = home], n)
         /\ DOMAIN [all EXCEPT ![hub].home = home] = DOMAIN all
         /\ [all EXCEPT ![hub].home = home][hub].home = home
<1> DEFINE ws == [all[hub] EXCEPT !.home = home]
<1>1. LiveWorkspace(hub, all[hub], n)
  BY LiveWorkspaceParts
<1>2. LiveWorkspace(hub, ws, n) /\ ws.home = home
  BY <1>1 DEF LiveWorkspace
<1>3. [all EXCEPT ![hub].home = home] = [all EXCEPT ![hub] = ws]
  OBVIOUS
<1> HIDE DEF ws
<1>4. QED
  BY <1>2, <1>3, TabsReplaced

LEMMA HomeMoved ==
  ASSUME NEW n \in Nat, NEW all, LiveModel(all, n), NEW hub \in DOMAIN all,
         NEW i \in DOMAIN all[hub].home.entries
  PROVE  /\ LiveModel([all EXCEPT ![hub].home.index = i], n)
         /\ DOMAIN [all EXCEPT ![hub].home.index = i] = DOMAIN all
         /\ [all EXCEPT ![hub].home.index = i] =
              [all EXCEPT ![hub].home = [all[hub].home EXCEPT !.index = i]]
<1> DEFINE home == [all[hub].home EXCEPT !.index = i]
<1>1. all[hub].home \in LiveHistories /\ all[hub].home.entries[1] = hub
  BY LiveWorkspaceParts
<1>2. home \in LiveHistories
  BY <1>1, StepLive
<1>3. home.entries[1] = hub
  BY <1>1 DEF LiveHistories
<1>4. [all EXCEPT ![hub].home.index = i] = [all EXCEPT ![hub].home = home]
  OBVIOUS
<1> HIDE DEF home
<1>5. LiveModel([all EXCEPT ![hub].home = home], n)
      /\ DOMAIN [all EXCEPT ![hub].home = home] = DOMAIN all
  BY <1>2, <1>3, HomeReplaced
<1>6. QED
  BY <1>4, <1>5 DEF home

LEMMA OpenMarkdownLive ==
  ASSUME LiveInv, NEW u \in Openable, NEW home \in BOOLEAN, OpenMarkdown(u, home)
  PROVE  LiveInv'
<1>1. u \in Uris
  BY LiveFacts
<1>2. CASE HomeMode(u, home) /\ activeHub \in DOMAIN workspaces
  <2> DEFINE h   == workspaces[activeHub].home
             all == [workspaces EXCEPT ![activeHub].home = Push(@, u)]
  <2>1. h \in LiveHistories /\ h.entries[1] = activeHub
    BY <1>2, LiveFacts, LiveWorkspaceParts
  <2>2. Fits(h, u) /\ ShowOnHome(all, activeHub, strip, u)
    BY <1>2 DEF OpenMarkdown
  <2>3. Push(h, u) \in LiveHistories /\ Push(h, u).entries[1] = activeHub
    BY <1>1, <2>1, <2>2, PushLive
  <2>4. all = [workspaces EXCEPT ![activeHub].home = Push(h, u)]
    OBVIOUS
  <2>5. LiveModel(all, opened) /\ DOMAIN all = DOMAIN workspaces
    BY <1>2, <2>3, <2>4, LiveFacts, HomeReplaced
  <2> HIDE DEF all
  <2>6. SurfaceLive' /\ DOMAIN workspaces' = DOMAIN workspaces /\ opened' = opened
    BY <1>1, <2>2, <2>5, LiveFacts, OnHomeLive
  <2>7. QED
    BY <2>6, LiveFacts, OnlySurface DEF OpenMarkdown
<1>3. CASE HomeMode(u, home) /\ activeHub \notin DOMAIN workspaces
  <2>1. ShowOnHome(workspaces, activeHub, strip, u)
    BY <1>3 DEF OpenMarkdown
  <2>2. SurfaceLive' /\ DOMAIN workspaces' = DOMAIN workspaces /\ opened' = opened
    BY <1>1, <2>1, LiveFacts, OnHomeLive
  <2>3. QED
    BY <2>2, LiveFacts, OnlySurface DEF OpenMarkdown
<1>4. CASE ~HomeMode(u, home)
  <2>1. /\ \A i \in DOMAIN strip : Fits(strip[i].history, u)
        /\ ShowInTab(workspaces, activeHub, strip, stripActive, u, FALSE)
    BY <1>4 DEF OpenMarkdown
  <2>2. SurfaceLive' /\ DOMAIN workspaces' = DOMAIN workspaces /\ opened <= opened'
    BY <1>1, <2>1, LiveFacts, InTabLive
  <2>3. QED
    BY <2>2, LiveFacts, OnlySurface DEF OpenMarkdown
<1>5. QED
  BY <1>2, <1>3, <1>4

\* A tab is added to the strip and the strip copied.
LEMMA AddedTabLive ==
  ASSUME LiveInv, NEW u \in Uris, NEW at \in 1..Len(strip) + 1, NEW id, opened < MaxTabs,
         opened' = opened + 1, strip' = InsertAt(strip, at, Tab(opened + 1, u)),
         workspaces' = Mirrored(workspaces, activeHub, strip', id),
         stripActive' \in {NoTab} \cup TabIds, shown' \in Uris \cup {NoUri}
  PROVE  SurfaceLive' /\ DOMAIN workspaces' = DOMAIN workspaces /\ opened <= opened'
<1>1. /\ opened' \in 0..MaxTabs /\ opened <= opened' /\ opened' \in Nat
      /\ opened \in Nat
  BY LiveFacts
<1>2. strip' \in Strips(opened')
  BY <1>1, LiveFacts, OpenedTab
<1>3. LiveModel(workspaces, opened')
  BY <1>1, LiveFacts, LiveModelGrows
<1>4. LiveModel(workspaces', opened') /\ DOMAIN workspaces' = DOMAIN workspaces
  BY <1>1, <1>2, <1>3, MirroredLive
<1>5. QED
  BY <1>1, <1>2, <1>4 DEF SurfaceLive

LEMMA OpenNewTabLive ==
  ASSUME LiveInv, NEW u \in Openable, NEW at \in 1..Len(strip) + 1, OpenNewTab(u, at)
  PROVE  LiveInv'
<1>1. u \in Uris
  BY LiveFacts
<1>2. stripActive' \in TabIds
  BY LiveFacts DEF OpenNewTab, TabIds
<1>3. SurfaceLive' /\ DOMAIN workspaces' = DOMAIN workspaces /\ opened <= opened'
  BY <1>1, <1>2, AddedTabLive DEF OpenNewTab
<1>4. QED
  BY <1>3, LiveFacts, OnlySurface DEF OpenNewTab

LEMMA OpenBackgroundTabLive ==
  ASSUME LiveInv, NEW u \in Openable, NEW at \in 1..Len(strip) + 1, OpenBackgroundTab(u, at)
  PROVE  LiveInv'
<1>1. u \in Uris
  BY LiveFacts
<1>2. stripActive' \in {NoTab} \cup TabIds /\ shown' \in Uris \cup {NoUri}
  BY DEF OpenBackgroundTab, LiveInv, SurfaceLive
<1>3. SurfaceLive' /\ DOMAIN workspaces' = DOMAIN workspaces /\ opened <= opened'
  BY <1>1, <1>2, AddedTabLive DEF OpenBackgroundTab
<1>4. QED
  BY <1>3, LiveFacts, OnlySurface DEF OpenBackgroundTab

LEMMA ActivateOpenTabLive ==
  ASSUME LiveInv, NEW t \in TabIds, ActivateOpenTab(t)
  PROVE  LiveInv'
<1>1. UriOf(strip, t) \in Uris
  BY LiveFacts, UriOfTab DEF ActivateOpenTab
<1>2. SurfaceLive' /\ DOMAIN workspaces' = DOMAIN workspaces /\ opened <= opened'
  BY <1>1, LiveFacts, InTabLive DEF ActivateOpenTab
<1>3. QED
  BY <1>2, LiveFacts, OnlySurface DEF ActivateOpenTab

LEMMA TabsLeft ==
  ASSUME NEW n \in Nat, NEW tabs \in Strips(n), NEW from \in DOMAIN tabs
  PROVE  Len(TabsWithout(tabs, tabs[from].id)) = Len(tabs) - 1 /\ Len(tabs) \in Nat
<1> DEFINE id   == tabs[from].id
           S    == {i \in DOMAIN tabs : tabs[i].id # id}
           rest == TabsWithout(tabs, id)
<1>1. /\ tabs \in Seq(LiveTabs(n)) /\ \A i, j \in DOMAIN tabs : tabs[i].id = tabs[j].id => i = j
      /\ Len(tabs) \in Nat /\ DOMAIN tabs = 1..Len(tabs) /\ Len(tabs) >= 1
  BY DEF Strips
<1>2. S = (1..Len(tabs)) \ {from}
  BY <1>1
<1>3. IsFiniteSet(1..Len(tabs)) /\ Cardinality(1..Len(tabs)) = Len(tabs)
  BY <1>1, FS_Interval
<1>4. S \in SUBSET (DOMAIN tabs) /\ rest = Pick(tabs, S)
  BY DEF TabsWithout
<1> HIDE DEF S, rest, id
<1>5. Cardinality(S) = Len(tabs) - 1
  <2>1. from \in 1..Len(tabs)
    BY <1>1
  <2>2. Cardinality((1..Len(tabs)) \ {from}) = Len(tabs) - 1
    BY <1>3, <2>1, FS_RemoveElement
  <2>3. QED
    BY <1>2, <2>2
<1>6. Len(rest) = Len(tabs) - 1
  BY <1>1, <1>4, <1>5, PickIsSubsequence
<1>7. QED
  BY <1>1, <1>6 DEF rest, id

\* A tab that is dragged: the others keep their order.
LEMMA DraggedTab ==
  ASSUME NEW n \in Nat, NEW tabs \in Strips(n), NEW from \in DOMAIN tabs,
         NEW at \in 1..Len(tabs)
  PROVE  LET s == InsertAt(TabsWithout(tabs, tabs[from].id), at, tabs[from])
         IN  s \in Strips(n) /\ Ids(s) = Ids(tabs)
<1> DEFINE id   == tabs[from].id
           rest == TabsWithout(tabs, id)
<1>1. Len(rest) = Len(tabs) - 1 /\ Len(tabs) \in Nat
  BY TabsLeft
<1>2. rest \in Strips(n) /\ Ids(rest) = Ids(tabs) \ {id}
  BY TabTakenOut
<1>3. tabs[from] \in LiveTabs(n) /\ id \in Ids(tabs)
  BY TabOfStrip
<1> HIDE DEF rest, id
<1>4. at \in 1..Len(rest) + 1 /\ tabs[from].id \notin Ids(rest)
  BY <1>1, <1>2 DEF id
<1>5. /\ InsertAt(rest, at, tabs[from]) \in Strips(n)
      /\ Ids(InsertAt(rest, at, tabs[from])) = Ids(rest) \cup {tabs[from].id}
  BY <1>2, <1>3, <1>4, InsertedTab
<1>6. QED
  BY <1>2, <1>3, <1>5 DEF rest, id

\* The tabs of a workspace are replaced by others with the same ids.
LEMMA TabsExchanged ==
  ASSUME NEW n \in Nat, NEW all, LiveModel(all, n), NEW hub \in DOMAIN all,
         NEW tabs \in Strips(n), Ids(tabs) = Ids(all[hub].tabs)
  PROVE  /\ LiveModel([all EXCEPT ![hub].tabs = tabs], n)
         /\ DOMAIN [all EXCEPT ![hub].tabs = tabs] = DOMAIN all
<1> DEFINE ws == [all[hub] EXCEPT !.tabs = tabs]
<1>1. LiveWorkspace(hub, all[hub], n)
  BY LiveWorkspaceParts
<1>2. LiveWorkspace(hub, ws, n)
  BY <1>1 DEF LiveWorkspace
<1>3. [all EXCEPT ![hub].tabs = tabs] = [all EXCEPT ![hub] = ws]
  OBVIOUS
<1> HIDE DEF ws
<1>4. QED
  BY <1>2, <1>3, TabsReplaced

LEMMA ReorderLive ==
  ASSUME LiveInv, NEW from \in 1..MaxTabs + 1, NEW before \in 1..MaxTabs + 1,
         Reorder(from, before)
  PROVE  LiveInv'
<1> DEFINE old  == ActiveTabs
           at   == IF from < before THEN before - 1 ELSE before
           tabs == InsertAt(TabsWithout(old, old[from].id), at, old[from])
           all  == [workspaces EXCEPT ![activeHub].tabs = tabs]
<1>1. activeHub \in DOMAIN workspaces /\ old = workspaces[activeHub].tabs
  BY DEF Reorder, ActiveTabs
<1>2. old \in Strips(opened) /\ from \in DOMAIN old /\ before \in 1..Len(old) + 1
  BY <1>1, LiveFacts, LiveWorkspaceParts DEF Reorder
<1>3. Len(old) \in Nat /\ DOMAIN old = 1..Len(old)
  BY <1>2 DEF Strips
<1>4. ShowSame(all, tabs, stripActive)
  BY DEF Reorder
<1> HIDE DEF old
<1>5. at \in 1..Len(old)
  BY <1>2, <1>3
<1> HIDE DEF at
<1>6. tabs \in Strips(opened) /\ Ids(tabs) = Ids(old)
  BY <1>2, <1>5, LiveFacts, DraggedTab
<1> HIDE DEF tabs
<1>7. LiveModel(all, opened) /\ DOMAIN all = DOMAIN workspaces
  BY <1>1, <1>6, LiveFacts, TabsExchanged
<1> HIDE DEF all
<1>8. stripActive \in {NoTab} \cup TabIds
  BY DEF LiveInv, SurfaceLive
<1>9. SurfaceLive' /\ workspaces' = all /\ opened' = opened
  BY <1>4, <1>6, <1>7, <1>8, LiveFacts, SameLive
<1>10. QED
  BY <1>7, <1>9, LiveFacts, OnlySurface DEF Reorder

LEMMA HistoryStepLive ==
  ASSUME LiveInv, NEW step \in {-1, 1}, HistoryStep(step)
  PROVE  LiveInv'
<1>1. CASE stripActive = NoTab
  <2> DEFINE i   == workspaces[activeHub].home.index + step
             all == [workspaces EXCEPT ![activeHub].home.index = @ + step]
  <2>1. /\ activeHub \in DOMAIN workspaces /\ i \in DOMAIN workspaces[activeHub].home.entries
        /\ ShowOnHome(all, activeHub, strip, Current(all[activeHub].home))
    BY <1>1 DEF HistoryStep
  <2>2. all = [workspaces EXCEPT ![activeHub].home.index = i]
    OBVIOUS
  <2> HIDE DEF all, i
  <2>3. LiveModel(all, opened) /\ DOMAIN all = DOMAIN workspaces
    BY <2>1, <2>2, LiveFacts, HomeMoved
  <2>4. Current(all[activeHub].home) \in Uris
    BY <2>1, <2>3, LiveWorkspaceParts
  <2>5. SurfaceLive' /\ DOMAIN workspaces' = DOMAIN workspaces /\ opened' = opened
    BY <2>1, <2>3, <2>4, LiveFacts, OnHomeLive
  <2>6. QED
    BY <2>5, LiveFacts, OnlySurface DEF HistoryStep
<1>2. CASE stripActive # NoTab
  <2> DEFINE h    == strip[Position(strip, stripActive)].history
             tabs == Moved(strip, stripActive, step)
             u    == h.entries[h.index + step]
  <2>1. /\ stripActive \in Ids(strip) /\ h.index + step \in DOMAIN h.entries
        /\ ShowInTab(workspaces, activeHub, tabs, stripActive, u, TRUE)
    BY <1>2 DEF HistoryStep
  <2>2. h \in LiveHistories
    BY <2>1, LiveFacts, PositionOfTab, TabOfStrip
  <2>3. u \in Uris
    <3> HIDE DEF h
    <3>1. h.entries \in Seq(Uris)
      BY <2>2 DEF LiveHistories
    <3>2. QED
      BY <2>1, <3>1
  <2>4. tabs \in Strips(opened)
    BY <2>1, LiveFacts, MovedTabs
  <2> HIDE DEF h, tabs, u
  <2>5. SurfaceLive' /\ DOMAIN workspaces' = DOMAIN workspaces /\ opened <= opened'
    BY <2>1, <2>3, <2>4, LiveFacts, InTabLive
  <2>6. QED
    BY <2>5, LiveFacts, OnlySurface DEF HistoryStep
<1>3. QED
  BY <1>1, <1>2

LEMMA HomeSelectorLive ==
  ASSUME LiveInv, HomeSelector
  PROVE  LiveInv'
<1> DEFINE first == [workspaces EXCEPT ![activeHub].home.index = 1]
           all   == IF stripActive # NoTab THEN workspaces ELSE first
<1>1. activeHub \in DOMAIN workspaces
      /\ ShowOnHome(all, activeHub, strip, Current(all[activeHub].home))
  BY DEF HomeSelector
<1>2. 1 \in DOMAIN workspaces[activeHub].home.entries
  BY <1>1, LiveFacts, LiveWorkspaceParts DEF LiveHistories
<1>3. LiveModel(first, opened) /\ DOMAIN first = DOMAIN workspaces
  BY <1>1, <1>2, LiveFacts, HomeMoved
<1> HIDE DEF first
<1>4. LiveModel(all, opened) /\ DOMAIN all = DOMAIN workspaces
  BY <1>3, LiveFacts
<1> HIDE DEF all
<1>5. Current(all[activeHub].home) \in Uris
  BY <1>1, <1>4, LiveWorkspaceParts
<1>6. SurfaceLive' /\ DOMAIN workspaces' = DOMAIN workspaces /\ opened' = opened
  BY <1>1, <1>4, <1>5, LiveFacts, OnHomeLive
<1>7. QED
  BY <1>6, LiveFacts, OnlySurface DEF HomeSelector

LEMMA SameIdList ==
  ASSUME NEW s, NEW tabs, IdList(s) = IdList(tabs)
  PROVE  Ids(s) = Ids(tabs)
<1>1. DOMAIN IdList(s) = DOMAIN s /\ DOMAIN IdList(tabs) = DOMAIN tabs
  BY DEF IdList
<1>2. \A i \in DOMAIN s : s[i].id = IdList(s)[i]
  BY DEF IdList
<1>3. \A i \in DOMAIN tabs : tabs[i].id = IdList(tabs)[i]
  BY DEF IdList
<1>4. QED
  BY <1>1, <1>2, <1>3 DEF Ids

LEMMA ClosedTabLive ==
  ASSUME LiveInv, NEW t \in TabIds
  PROVE  LiveModel(ClosedTab(t), opened) /\ DOMAIN ClosedTab(t) = DOMAIN workspaces
<1>1. CASE t \in Ids(ActiveTabs)
  <2> DEFINE old  == workspaces[activeHub]
             rest == TabsWithout(old.tabs, t)
             at   == IF old.active = t THEN Neighbor(old.tabs, t) ELSE old.active
             ws   == [[old EXCEPT !.tabs = rest] EXCEPT !.active = at]
  <2>1. activeHub \in DOMAIN workspaces /\ ActiveTabs = old.tabs
    BY <1>1, EmptyStrip DEF ActiveTabs
  <2>2. /\ LiveWorkspace(activeHub, old, opened) /\ old.tabs \in Strips(opened)
        /\ old.active \in {NoTab} \cup Ids(old.tabs)
    BY <2>1, LiveFacts, LiveWorkspaceParts
  <2>3. rest \in Strips(opened) /\ Ids(rest) = Ids(old.tabs) \ {t}
    BY <2>2, LiveFacts, TabTakenOut
  <2>4. Neighbor(old.tabs, t) \in {NoTab} \cup (Ids(old.tabs) \ {t})
    BY <1>1, <2>1, <2>2, LiveFacts, NeighborOfTab
  <2>5. at \in {NoTab} \cup Ids(rest)
    BY <2>2, <2>3, <2>4
  <2>6. at \in {NoTab} \cup TabIds
    BY <2>3, <2>5, LiveFacts, StripTypes
  <2>7. ClosedTab(t) = [workspaces EXCEPT ![activeHub] = ws]
    BY <1>1, <2>1 DEF ClosedTab
  <2> HIDE DEF rest, at
  <2>8. LiveWorkspace(activeHub, ws, opened)
    BY <2>2, <2>3, <2>5, <2>6 DEF LiveWorkspace
  <2> HIDE DEF ws, old
  <2>9. /\ LiveModel([workspaces EXCEPT ![activeHub] = ws], opened)
        /\ DOMAIN [workspaces EXCEPT ![activeHub] = ws] = DOMAIN workspaces
    BY <2>1, <2>8, LiveFacts, TabsReplaced
  <2>10. QED
    BY <2>7, <2>9
<1>2. CASE t \notin Ids(ActiveTabs)
  BY <1>2, LiveFacts DEF ClosedTab
<1>3. QED
  BY <1>1, <1>2

LEMMA ClosingFacts ==
  ASSUME LiveInv, NEW c \in waiting, c.kind # "switch"
  PROVE  /\ c.kind \in {"close", "closeOther", "closeRest"} /\ c.tab \in TabIds
         /\ c.before \in Strips(opened) /\ c.wasActive \in BOOLEAN
         /\ c.tab \in Ids(c.before) /\ c \in LiveClosings(opened)
<1>1. c \in LiveCommands(opened)
  BY DEF LiveInv
<1>2. c \in LiveClosings(opened)
  BY <1>1 DEF LiveCommands
<1>3. QED
  BY <1>2 DEF LiveClosings

LEMMA CloseRequestLive ==
  ASSUME LiveInv, NEW kind \in {"close", "closeOther"}, NEW t \in TabIds,
         CloseRequest(kind, t)
  PROVE  LiveInv'
<1> DEFINE c == [kind |-> kind, tab |-> t, before |-> strip, wasActive |-> stripActive = t]
<1>1. t \in Ids(strip) /\ waiting' = waiting \cup {c}
  BY DEF CloseRequest
<1>2. (stripActive = t) \in BOOLEAN
  OBVIOUS
<1>3. c \in LiveClosings(opened)
  BY <1>1, <1>2, LiveFacts DEF LiveClosings
<1> HIDE DEF c
<1>4. waiting' \subseteq LiveCommands(opened)
  BY <1>1, <1>3 DEF LiveInv, LiveCommands
<1>5. QED
  BY <1>4
  DEF CloseRequest, LiveInv, SurfaceLive, VaultLive, modelVars, stripVars, vaultVars

LEMMA CloseFinishLive ==
  ASSUME LiveInv, NEW c \in waiting, CloseFinish(c)
  PROVE  LiveInv'
<1> DEFINE rest  == TabsWithout(c.before, c.tab)
           all   == ClosedTab(c.tab)
           model == IF activeHub \in DOMAIN all THEN all[activeHub].tabs ELSE rest
           tabs  == IF IdList(model) = IdList(rest) THEN model ELSE rest
           next  == Neighbor(c.before, c.tab)
<1>1. /\ c.tab \in TabIds /\ c.before \in Strips(opened) /\ c.tab \in Ids(c.before)
  BY ClosingFacts DEF CloseFinish
<1>2. LiveModel(all, opened) /\ DOMAIN all = DOMAIN workspaces
  BY <1>1, ClosedTabLive
<1>3. rest \in Strips(opened) /\ Ids(rest) = Ids(c.before) \ {c.tab}
  BY <1>1, LiveFacts, TabTakenOut
<1>4. next \in {NoTab} \cup Ids(rest)
  BY <1>1, <1>3, LiveFacts, NeighborOfTab
<1>5. waiting' \subseteq waiting /\ strayed' \in BOOLEAN /\ UNCHANGED <<activeHub, vaultVars>>
  BY LiveFacts DEF CloseFinish, Late
<1>6. IF ~c.wasActive THEN ShowSame(all, tabs, stripActive)
      ELSE IF next # NoTab
      THEN ShowInTab(all, activeHub, tabs, next, UriOf(tabs, next), TRUE)
      ELSE IF activeHub # NoUri
      THEN ShowOnHome(all, activeHub, tabs, HomeUri(all, activeHub))
      ELSE ShowNothing(all, tabs)
  BY DEF CloseFinish
<1> HIDE DEF all, rest, next
<1>7. model \in Strips(opened)
  BY <1>2, <1>3, LiveWorkspaceParts
<1> HIDE DEF model
<1>8. tabs \in Strips(opened) /\ Ids(tabs) = Ids(rest)
  BY <1>3, <1>7, SameIdList
<1> HIDE DEF tabs
<1>9. SurfaceLive' /\ DOMAIN workspaces' = DOMAIN all /\ opened <= opened'
  <2>1. CASE ~c.wasActive
    <3>1. stripActive \in {NoTab} \cup TabIds
      BY DEF LiveInv, SurfaceLive
    <3>2. QED
      BY <1>2, <1>6, <1>8, <2>1, <3>1, LiveFacts, SameLive
  <2>2. CASE c.wasActive /\ next # NoTab
    <3>1. UriOf(tabs, next) \in Uris
      BY <1>4, <1>8, <2>2, LiveFacts, UriOfTab
    <3>2. ShowInTab(all, activeHub, tabs, next, UriOf(tabs, next), TRUE)
      BY <1>6, <2>2
    <3>3. QED
      BY <1>2, <1>8, <3>1, <3>2, LiveFacts, InTabLive
  <2>3. CASE c.wasActive /\ next = NoTab /\ activeHub # NoUri
    <3>1. HomeUri(all, activeHub) \in Uris
      BY <1>2, <2>3, LiveFacts, HomeUriIsUri
    <3>2. ShowOnHome(all, activeHub, tabs, HomeUri(all, activeHub))
      BY <1>6, <2>3
    <3>3. QED
      BY <1>2, <1>8, <3>1, <3>2, LiveFacts, OnHomeLive
  <2>4. CASE c.wasActive /\ next = NoTab /\ activeHub = NoUri
    BY <1>2, <1>6, <1>8, <2>4, LiveFacts, NothingLive
  <2>5. QED
    BY <2>1, <2>2, <2>3, <2>4
<1>10. QED
  BY <1>2, <1>5, <1>9, OnlySurface

LEMMA CloseOtherShowLive ==
  ASSUME LiveInv, NEW c \in waiting, CloseOtherShow(c)
  PROVE  LiveInv'
<1> DEFINE d == [c EXCEPT !.kind = "closeRest"]
<1>1. /\ c.before \in Strips(opened) /\ c.tab \in Ids(c.before)
      /\ c \in LiveClosings(opened)
  BY ClosingFacts DEF CloseOtherShow
<1>2. UriOf(c.before, c.tab) \in Uris
  BY <1>1, LiveFacts, UriOfTab
<1>3. SurfaceLive' /\ DOMAIN workspaces' = DOMAIN workspaces /\ opened <= opened' /\ opened' \in Nat
  <2>1. CASE stripActive = c.tab
    BY <2>1, LiveFacts DEF CloseOtherShow, SurfaceLive, stripVars
  <2>2. CASE stripActive # c.tab
    <3>1. ShowInTab(workspaces, activeHub, strip, c.tab, UriOf(c.before, c.tab), TRUE)
      BY <2>2 DEF CloseOtherShow
    <3>2. QED
      BY <1>2, <3>1, LiveFacts, InTabLive
  <2>3. QED
    BY <2>1, <2>2
<1>4. waiting' = (waiting \ {c}) \cup {d}
  BY DEF CloseOtherShow
<1>5. d \in LiveClosings(opened)
  BY <1>1 DEF LiveClosings
<1> HIDE DEF d
<1>6. waiting' \subseteq LiveCommands(opened)
  BY <1>4, <1>5 DEF LiveInv, LiveCommands
<1>7. waiting' \subseteq LiveCommands(opened')
  BY <1>3, <1>6, LiveFacts, CommandsGrow
<1>8. strayed' \in BOOLEAN /\ UNCHANGED <<activeHub, vaultVars>>
  BY LiveFacts DEF CloseOtherShow
<1>9. QED
  BY <1>3, <1>7, <1>8 DEF LiveInv, VaultLive, vaultVars

LEMMA CloseOtherFinishLive ==
  ASSUME LiveInv, NEW c \in waiting, CloseOtherFinish(c)
  PROVE  LiveInv'
<1> DEFINE some == IF c.tab \in Ids(ActiveTabs) THEN ActiveTabs ELSE c.before
           tabs == OnlyTab(some, c.tab)
           old  == workspaces[activeHub]
           kept == OnlyTab(old.tabs, c.tab)
           at   == IF old.active = NoTab THEN NoTab ELSE c.tab
           ws   == [[old EXCEPT !.tabs = kept] EXCEPT !.active = at]
           all  == IF c.tab \notin Ids(ActiveTabs) THEN workspaces
                   ELSE [workspaces EXCEPT ![activeHub] = ws]
<1>1. c.tab \in TabIds /\ c.before \in Strips(opened) /\ c.tab \in Ids(c.before)
  BY ClosingFacts DEF CloseOtherFinish
<1>2. ShowSame(all, tabs, stripActive)
  BY DEF CloseOtherFinish
<1>3. c.tab \in Ids(ActiveTabs) => activeHub \in DOMAIN workspaces /\ ActiveTabs = old.tabs
  BY EmptyStrip DEF ActiveTabs
<1>4. some \in Strips(opened)
  BY <1>1, <1>3, LiveFacts, LiveWorkspaceParts
<1>5. tabs \in Strips(opened)
  BY <1>4, LiveFacts, TabTakenOut
<1>6. LiveModel(all, opened) /\ DOMAIN all = DOMAIN workspaces
  <2>1. CASE c.tab \in Ids(ActiveTabs)
    <3>1. activeHub \in DOMAIN workspaces /\ c.tab \in Ids(old.tabs)
      BY <1>3, <2>1
    <3>2. LiveWorkspace(activeHub, old, opened) /\ old.tabs \in Strips(opened)
      BY <3>1, LiveFacts, LiveWorkspaceParts
    <3>3. kept \in Strips(opened) /\ Ids(kept) = Ids(old.tabs) \cap {c.tab}
      BY <3>2, LiveFacts, TabTakenOut
    <3>4. at \in {NoTab} \cup Ids(kept) /\ at \in {NoTab} \cup TabIds
      BY <1>1, <3>1, <3>3
    <3> HIDE DEF kept, at
    <3>5. LiveWorkspace(activeHub, ws, opened)
      BY <3>2, <3>3, <3>4 DEF LiveWorkspace
    <3> HIDE DEF ws
    <3>6. QED
      BY <2>1, <3>1, <3>5, LiveFacts, TabsReplaced
  <2>2. CASE c.tab \notin Ids(ActiveTabs)
    BY <2>2, LiveFacts
  <2>3. QED
    BY <2>1, <2>2
<1> HIDE DEF all, tabs
<1>7. stripActive \in {NoTab} \cup TabIds
  BY DEF LiveInv, SurfaceLive
<1>8. SurfaceLive' /\ workspaces' = all /\ opened' = opened
  BY <1>2, <1>5, <1>6, <1>7, LiveFacts, SameLive
<1>9. waiting' \subseteq waiting /\ strayed' \in BOOLEAN /\ UNCHANGED <<activeHub, vaultVars>>
  BY LiveFacts DEF CloseOtherFinish, Late
<1>10. QED
  BY <1>6, <1>8, <1>9, LiveFacts, OnlySurface

LEMMA CloseAllLive ==
  ASSUME LiveInv, CloseAll
  PROVE  LiveInv'
<1>1. <<>> \in Strips(opened)
  BY EmptyStrip
<1>2. SurfaceLive' /\ DOMAIN workspaces' = DOMAIN workspaces /\ opened' = opened
  <2>1. CASE activeHub \in DOMAIN workspaces
    <3>1. HomeUri(workspaces, activeHub) \in Uris
      BY <2>1, LiveFacts, HomeUriIsUri
    <3>2. QED
      BY <1>1, <2>1, <3>1, LiveFacts, OnHomeLive DEF CloseAll
  <2>2. CASE activeHub \notin DOMAIN workspaces
    BY <1>1, <2>2, LiveFacts, NothingLive DEF CloseAll
  <2>3. QED
    BY <2>1, <2>2
<1>3. QED
  BY <1>2, LiveFacts, OnlySurface DEF CloseAll

LEMMA SwitchRequestLive ==
  ASSUME LiveInv, NEW h \in Hubs, SwitchRequest(h)
  PROVE  LiveInv'
<1>1. [kind |-> "switch", hub |-> h] \in LiveCommands(opened)
  BY DEF LiveCommands
<1>2. waiting' \subseteq LiveCommands(opened)
  BY <1>1 DEF SwitchRequest, LiveInv
<1>3. QED
  BY <1>2
  DEF SwitchRequest, LiveInv, SurfaceLive, VaultLive, modelVars, stripVars, vaultVars

LEMMA SwitchFinishLive ==
  ASSUME LiveInv, NEW c \in waiting, SwitchFinish(c)
  PROVE  LiveInv'
<1> DEFINE left == StripKept(c.hub)
           ws   == IF c.hub \in DOMAIN left THEN left[c.hub] ELSE DefaultWorkspace(c.hub)
           all  == [h \in DOMAIN workspaces \cup {c.hub} |->
                      IF h = c.hub THEN ws ELSE left[h]]
<1>1. c.hub \in Hubs
  <2>1. c \in LiveCommands(opened) /\ c.kind = "switch"
    BY DEF LiveInv, SwitchFinish
  <2>2. QED
    BY <2>1 DEF LiveCommands, LiveClosings
<1>2. ShowOnHome(all, c.hub, ws.tabs, Current(ws.home))
  BY DEF SwitchFinish
<1>3. LiveModel(left, opened) /\ DOMAIN left = DOMAIN workspaces
  BY LiveFacts, MirroredLive DEF StripKept
<1> HIDE DEF left
<1>4. LiveWorkspace(c.hub, ws, opened)
  BY <1>1, <1>3, LiveWorkspaceParts, DefaultLive
<1> HIDE DEF ws
<1>5. LiveModel(all, opened) /\ DOMAIN all = DOMAIN workspaces \cup {c.hub}
  BY <1>1, <1>3, <1>4 DEF LiveModel
<1>6. ws.tabs \in Strips(opened) /\ Current(ws.home) \in Uris
  BY <1>4, CurrentIsUri DEF LiveWorkspace
<1> HIDE DEF all
<1>7. SurfaceLive' /\ DOMAIN workspaces' = DOMAIN all /\ opened' = opened
  BY <1>2, <1>5, <1>6, LiveFacts, OnHomeLive
<1>8. /\ activeHub' = c.hub /\ waiting' \subseteq waiting /\ strayed' \in BOOLEAN
      /\ UNCHANGED vaultVars
  BY LiveFacts DEF SwitchFinish
<1>9. waiting' \subseteq LiveCommands(opened')
  BY <1>7, <1>8, LiveFacts, WaitingLive
<1>10. HubLive(DOMAIN workspaces', activeHub')
  BY <1>1, <1>5, <1>7, <1>8, NoUriIsNoHub DEF HubLive
<1>11. QED
  BY <1>7, <1>8, <1>9, <1>10 DEF LiveInv, VaultLive, vaultVars

LEMMA AnotherActive ==
  ASSUME NEW hubs \in SUBSET Hubs, NEW hub, HubLive(hubs, hub), NEW gone,
         NEW next \in ActiveAmong(hubs \ gone, hub)
  PROVE  HubLive(hubs \ gone, next)
BY NoUriIsNoHub DEF HubLive, ActiveAmong

\* The vault changes, the commands that wait do not.
LEMMA ChangedVault ==
  ASSUME LiveInv, SurfaceLive', HubLive(DOMAIN workspaces', activeHub'), opened <= opened',
         changes < MaxChanges, changes' = changes + 1, vaultHubs' \subseteq Hubs,
         strayed' \in BOOLEAN, UNCHANGED <<knownHubs, scanned, waiting>>
  PROVE  LiveInv'
<1>1. changes' \in 0..MaxChanges
  BY WorkspaceAssumption DEF WorkspaceAssumption, LiveInv, VaultLive
<1>2. waiting' \subseteq LiveCommands(opened')
  BY WaitingLive
<1>3. QED
  BY <1>1, <1>2 DEF LiveInv, VaultLive

LEMMA RemovedExternallyLive ==
  ASSUME LiveInv, NEW u \in Uris, RemovedExternally(u)
  PROVE  LiveInv'
<1> DEFINE tabs == PrunedTabs(strip, {u})
           id   == EnsureActive(tabs, stripActive)
           all  == PrunedWorkspaces(workspaces, {u})
<1>1. IF shown # u THEN ShowSame(all, tabs, id)
      ELSE IF tabs = <<>> THEN ShowNothing(all, tabs)
      ELSE ShowInTab(all, activeHub', tabs, id, UriOf(tabs, id), TRUE)
  BY DEF RemovedExternally
<1>2. tabs \in Strips(opened)
  BY LiveFacts, PrunedStrip
<1>3. LiveModel(all, opened) /\ DOMAIN all = DOMAIN workspaces \ {u}
  BY LiveFacts, PrunedModelLive
<1> HIDE DEF tabs, all
<1>4. id \in {NoTab} \cup Ids(tabs) /\ (tabs # <<>> => id \in Ids(tabs))
  BY <1>2, LiveFacts, EnsuredActive
<1> HIDE DEF id
<1>5. SurfaceLive' /\ DOMAIN workspaces' = DOMAIN all /\ opened <= opened'
  <2>1. CASE shown # u
    <3>1. id \in {NoTab} \cup TabIds
      BY <1>2, <1>4, LiveFacts, StripTypes
    <3>2. QED
      BY <1>1, <1>2, <1>3, <2>1, <3>1, LiveFacts, SameLive
  <2>2. CASE shown = u /\ tabs = <<>>
    BY <1>1, <1>2, <1>3, <2>2, LiveFacts, NothingLive
  <2>3. CASE shown = u /\ tabs # <<>>
    <3>1. UriOf(tabs, id) \in Uris
      BY <1>2, <1>4, <2>3, LiveFacts, UriOfTab
    <3>2. ShowInTab(all, activeHub', tabs, id, UriOf(tabs, id), TRUE)
      BY <1>1, <2>3
    <3>3. QED
      BY <1>2, <1>3, <3>1, <3>2, LiveFacts, InTabLive
  <2>4. QED
    BY <2>1, <2>2, <2>3
<1>6. HubLive(DOMAIN workspaces', activeHub')
  BY <1>3, <1>5, LiveFacts, AnotherActive DEF RemovedExternally, LiveInv
<1>7. vaultHubs' \subseteq Hubs
  BY DEF RemovedExternally, LiveInv, VaultLive
<1>8. strayed' \in BOOLEAN
  BY LiveFacts DEF RemovedExternally
<1>9. QED
  BY <1>5, <1>6, <1>7, <1>8, ChangedVault DEF RemovedExternally

LEMMA ActiveReplaced ==
  ASSUME NEW n \in 0..MaxTabs, NEW all, LiveModel(all, n), NEW hub \in DOMAIN all,
         NEW id \in {NoTab} \cup Ids(all[hub].tabs)
  PROVE  /\ LiveModel([all EXCEPT ![hub].active = id], n)
         /\ DOMAIN [all EXCEPT ![hub].active = id] = DOMAIN all
<1> DEFINE ws == [all[hub] EXCEPT !.active = id]
<1>1. LiveWorkspace(hub, all[hub], n) /\ all[hub].tabs \in Strips(n)
  BY LiveWorkspaceParts
<1>2. id \in {NoTab} \cup TabIds
  BY <1>1, StripTypes
<1>3. LiveWorkspace(hub, ws, n)
  BY <1>1, <1>2 DEF LiveWorkspace
<1>4. [all EXCEPT ![hub].active = id] = [all EXCEPT ![hub] = ws]
  OBVIOUS
<1>5. n \in Nat
  BY WorkspaceAssumption DEF WorkspaceAssumption
<1> HIDE DEF ws
<1>6. QED
  BY <1>3, <1>4, <1>5, TabsReplaced

LEMMA DeletedInTreeLive ==
  ASSUME LiveInv, NEW u \in Uris, DeletedInTree(u)
  PROVE  LiveInv'
<1> DEFINE tabs == PrunedTabs(strip, {u})
           id   == IF stripActive = NoTab THEN NoTab ELSE EnsureActive(tabs, stripActive)
           at   == IF activeHub \in DOMAIN workspaces /\ id \in Ids(ActiveTabs) \cup {NoTab}
                   THEN [workspaces EXCEPT ![activeHub].active = id] ELSE workspaces
           all  == PrunedWorkspaces(at, {u})
<1>1. IF shown # u THEN ShowSame(all, tabs, id)
      ELSE IF id # NoTab
      THEN ShowInTab(all, activeHub', tabs, id, UriOf(tabs, id), TRUE)
      ELSE IF activeHub \notin {NoUri, u}
      THEN ShowOnHome(all, activeHub', tabs, HomeUri(all, activeHub))
      ELSE ShowNothing(all, tabs)
  BY DEF DeletedInTree
<1>2. tabs \in Strips(opened)
  BY LiveFacts, PrunedStrip
<1> HIDE DEF tabs
<1>3. id \in {NoTab} \cup Ids(tabs)
  BY <1>2, LiveFacts, EnsuredActive
<1> HIDE DEF id
<1>4. LiveModel(at, opened) /\ DOMAIN at = DOMAIN workspaces
  BY LiveFacts, ActiveReplaced DEF ActiveTabs
<1> HIDE DEF at
<1>5. LiveModel(all, opened) /\ DOMAIN all = DOMAIN workspaces \ {u}
  <2>1. opened \in 0..MaxTabs
    BY LiveFacts
  <2>2. LiveModel(all, opened) /\ DOMAIN all = DOMAIN at \ {u}
    BY <1>4, <2>1, PrunedModelLive
  <2>3. QED
    BY <1>4, <2>2
<1> HIDE DEF all
<1>6. SurfaceLive' /\ DOMAIN workspaces' = DOMAIN all /\ opened <= opened'
  <2>1. CASE shown # u
    <3>1. id \in {NoTab} \cup TabIds
      BY <1>2, <1>3, LiveFacts, StripTypes
    <3>2. QED
      BY <1>1, <1>2, <1>5, <2>1, <3>1, LiveFacts, SameLive
  <2>2. CASE shown = u /\ id # NoTab
    <3>1. UriOf(tabs, id) \in Uris
      BY <1>2, <1>3, <2>2, LiveFacts, UriOfTab
    <3>2. ShowInTab(all, activeHub', tabs, id, UriOf(tabs, id), TRUE)
      BY <1>1, <2>2
    <3>3. QED
      BY <1>2, <1>5, <3>1, <3>2, LiveFacts, InTabLive
  <2>3. CASE shown = u /\ id = NoTab /\ activeHub \notin {NoUri, u}
    <3>1. HomeUri(all, activeHub) \in Uris
      BY <1>5, <2>3, LiveFacts, HomeUriIsUri
    <3>2. ShowOnHome(all, activeHub', tabs, HomeUri(all, activeHub))
      BY <1>1, <2>3
    <3>3. QED
      BY <1>2, <1>5, <3>1, <3>2, LiveFacts, OnHomeLive
  <2>4. CASE shown = u /\ id = NoTab /\ activeHub \in {NoUri, u}
    BY <1>1, <1>2, <1>5, <2>4, LiveFacts, NothingLive
  <2>5. QED
    BY <2>1, <2>2, <2>3, <2>4
<1>7. HubLive(DOMAIN workspaces', activeHub')
  <2>1. activeHub' \in ActiveAmong(DOMAIN workspaces \ {u}, activeHub)
    BY DEF DeletedInTree
  <2>2. DOMAIN workspaces \in SUBSET Hubs /\ HubLive(DOMAIN workspaces, activeHub)
    BY LiveFacts DEF LiveInv
  <2>3. HubLive(DOMAIN workspaces \ {u}, activeHub')
    BY <2>1, <2>2, AnotherActive
  <2>4. QED
    BY <1>5, <1>6, <2>3
<1>8. vaultHubs' \subseteq Hubs
  BY DEF DeletedInTree, LiveInv, VaultLive
<1>9. strayed' \in BOOLEAN
  BY LiveFacts DEF DeletedInTree
<1>10. QED
  BY <1>6, <1>7, <1>8, <1>9, ChangedVault DEF DeletedInTree

\* The first entry of a Home history is its hub: a hub with a workspace is in use.
LEMMA UnusedHasNoWorkspace ==
  ASSUME LiveInv, NEW v, ~InUse(v)
  PROVE  v \notin DOMAIN workspaces
<1>1. ASSUME v \in DOMAIN workspaces PROVE InUse(v)
  <2>1. workspaces[v].home \in LiveHistories /\ workspaces[v].home.entries[1] = v
    BY <1>1, LiveFacts, LiveWorkspaceParts
  <2>2. v \in Visited(workspaces[v].home)
    BY <2>1 DEF LiveHistories, Visited
  <2>3. QED
    BY <1>1, <2>2 DEF InUse
<1>2. QED
  BY <1>1

LEMMA RenamedInTreeLive ==
  ASSUME LiveInv, NEW u \in Uris, NEW v \in Uris, RenamedInTree(u, v)
  PROVE  LiveInv'
<1> DEFINE hubs == {Renamed(g, u, v) : g \in DOMAIN workspaces}
           R(ws) == [ws EXCEPT !.tabs = RemappedTabs(@, u, v), !.home = Remapped(@, u, v)]
           all  == [h \in hubs |-> R(workspaces[Renamed(h, v, u)])]
<1>1. v \notin DOMAIN workspaces
  BY UnusedHasNoWorkspace DEF RenamedInTree
<1>2. u \in Hubs <=> v \in Hubs
  BY DEF RenamedInTree
<1>3. ASSUME NEW g \in DOMAIN workspaces
      PROVE  /\ Renamed(g, u, v) \in Hubs /\ Renamed(Renamed(g, u, v), v, u) = g
             /\ LiveWorkspace(Renamed(g, u, v), R(workspaces[g]), opened)
  <2>1. LiveWorkspace(g, workspaces[g], opened) /\ g \in Hubs /\ opened \in 0..MaxTabs
    BY LiveFacts, LiveWorkspaceParts
  <2>2. Renamed(g, u, v) \in Hubs /\ Renamed(Renamed(g, u, v), v, u) = g
    BY <1>1, <1>2, <2>1 DEF Renamed
  <2>3. LiveWorkspace(Renamed(g, u, v), R(workspaces[g]), opened)
    BY <2>1, RemappedWorkspaceLive
  <2>4. QED
    BY <2>2, <2>3
<1>4. workspaces' = all /\ activeHub' = Renamed(activeHub, u, v)
  BY DEF RenamedInTree
<1> HIDE DEF R
<1>5. LiveModel(all, opened) /\ DOMAIN all = hubs
  BY <1>3 DEF LiveModel
<1> HIDE DEF all
<1>6. strip' \in Strips(opened)
  BY LiveFacts, RemappedStrip DEF RenamedInTree
<1>7. shown' \in Uris \cup {NoUri}
  BY DEF RenamedInTree, Renamed, LiveInv, SurfaceLive
<1>8. opened' = opened /\ stripActive' = stripActive
  BY DEF RenamedInTree
<1>9. SurfaceLive'
  BY <1>4, <1>5, <1>6, <1>7, <1>8 DEF LiveInv, SurfaceLive
<1>10. HubLive(DOMAIN workspaces', activeHub')
  <2>1. activeHub = NoUri => activeHub' = NoUri /\ hubs = {}
    BY <1>4, LiveFacts, NoUriIsNoHub DEF Renamed
  <2>2. activeHub # NoUri => activeHub \in DOMAIN workspaces
    BY LiveFacts
  <2>3. activeHub # NoUri => activeHub' \in hubs /\ activeHub' \in Hubs
    BY <1>3, <1>4, <2>2
  <2>4. QED
    BY <1>4, <1>5, <2>1, <2>3, NoUriIsNoHub DEF HubLive
<1>11. vaultHubs' \subseteq Hubs
  BY <1>2 DEF RenamedInTree, Renamed, LiveInv, VaultLive
<1>12. opened <= opened' /\ strayed' \in BOOLEAN
  BY <1>8, LiveFacts DEF RenamedInTree
<1>13. QED
  BY <1>9, <1>10, <1>11, <1>12, ChangedVault DEF RenamedInTree

LEMMA HubChangedLive ==
  ASSUME LiveInv, NEW h \in Hubs, HubChanged(h)
  PROVE  LiveInv'
<1>1. SurfaceLive' /\ HubLive(DOMAIN workspaces', activeHub') /\ opened <= opened'
  BY LiveFacts DEF HubChanged, LiveInv, SurfaceLive, modelVars, stripVars
<1>2. vaultHubs' \subseteq Hubs /\ strayed' \in BOOLEAN
  BY DEF HubChanged, LiveInv, VaultLive
<1>3. QED
  BY <1>1, <1>2, ChangedVault DEF HubChanged

LEMMA ScanLive ==
  ASSUME LiveInv, ScanStart \/ ScanEnd
  PROVE  LiveInv'
BY DEF ScanStart, ScanEnd, LiveInv, SurfaceLive, VaultLive, modelVars, stripVars

LEMMA ProjectStripLive ==
  ASSUME LiveInv, ProjectStrip
  PROVE  LiveInv'
<1>1. ActiveTabs \in Strips(opened) /\ workspaces[activeHub].active \in {NoTab} \cup TabIds
  BY LiveFacts, LiveWorkspaceParts DEF ProjectStrip, ActiveTabs
<1>2. SurfaceLive' /\ workspaces' = workspaces /\ opened' = opened
  BY <1>1, LiveFacts, SameLive DEF ProjectStrip
<1>3. QED
  BY <1>2, LiveFacts, OnlySurface DEF ProjectStrip

\* The workspaces after hubs came and went: one per known hub.
LEMMA SyncedModel ==
  ASSUME LiveInv
  PROVE  LET kept == PrunedWorkspaces(workspaces, DOMAIN workspaces \ knownHubs)
             all  == [h \in knownHubs |-> IF h \in DOMAIN kept THEN kept[h]
                                          ELSE DefaultWorkspace(h)]
         IN  /\ LiveModel(all, opened) /\ DOMAIN all = knownHubs
             /\ DOMAIN kept = DOMAIN workspaces \cap knownHubs
<1> DEFINE kept == PrunedWorkspaces(workspaces, DOMAIN workspaces \ knownHubs)
           all  == [h \in knownHubs |-> IF h \in DOMAIN kept THEN kept[h]
                                        ELSE DefaultWorkspace(h)]
<1>1. /\ LiveModel(kept, opened)
      /\ DOMAIN kept = DOMAIN workspaces \ (DOMAIN workspaces \ knownHubs)
  BY LiveFacts, PrunedModelLive
<1>2. DOMAIN kept = DOMAIN workspaces \cap knownHubs
  BY <1>1
<1> HIDE DEF kept
<1>3. knownHubs \subseteq Hubs
  BY DEF LiveInv, VaultLive
<1>4. LiveModel(all, opened) /\ DOMAIN all = knownHubs
  BY <1>1, <1>3, DefaultLive DEF LiveModel
<1>5. QED
  BY <1>2, <1>4 DEF kept

LEMMA SyncHubsLive ==
  ASSUME LiveInv, SyncHubs
  PROVE  LiveInv'
<1> DEFINE kept == PrunedWorkspaces(workspaces, DOMAIN workspaces \ knownHubs)
           all  == [h \in knownHubs |-> IF h \in DOMAIN kept THEN kept[h]
                                        ELSE DefaultWorkspace(h)]
<1>1. /\ LiveModel(all, opened) /\ DOMAIN all = knownHubs
      /\ DOMAIN kept = DOMAIN workspaces \cap knownHubs
  BY SyncedModel
<1>2. /\ activeHub' \in
           IF activeHub = NoUri THEN knownHubs
           ELSE ActiveAmong(IF DOMAIN kept = {} THEN knownHubs ELSE DOMAIN kept, activeHub)
      /\ IF activeHub = NoUri
         THEN workspaces' = Mirrored(all, activeHub', strip, stripActive)
         ELSE workspaces' = all
      /\ IF activeHub' = NoUri \/ activeHub = NoUri
         THEN UNCHANGED <<strip, stripActive>>
         ELSE strip' = all[activeHub'].tabs /\ stripActive' = all[activeHub'].active
      /\ UNCHANGED <<shown, opened, vaultVars>>
      /\ DOMAIN workspaces # knownHubs
  BY DEF SyncHubs
<1>3. knownHubs \subseteq Hubs /\ HubLive(DOMAIN workspaces, activeHub)
  BY DEF LiveInv, VaultLive
<1> HIDE DEF all, kept
<1>4. HubLive(knownHubs, activeHub')
  BY <1>1, <1>2, <1>3, NoUriIsNoHub DEF HubLive, ActiveAmong
<1>5. LiveModel(workspaces', opened) /\ DOMAIN workspaces' = knownHubs
  BY <1>1, <1>2, LiveFacts, MirroredLive
<1>6. /\ strip' \in Strips(opened) /\ stripActive' \in {NoTab} \cup TabIds
  <2>1. CASE activeHub' = NoUri \/ activeHub = NoUri
    BY <1>2, <2>1 DEF LiveInv, SurfaceLive
  <2>2. CASE ~(activeHub' = NoUri \/ activeHub = NoUri)
    BY <1>1, <1>2, <1>4, <2>2, LiveWorkspaceParts DEF HubLive
  <2>3. QED
    BY <2>1, <2>2
<1>7. SurfaceLive'
  BY <1>2, <1>5, <1>6 DEF LiveInv, SurfaceLive
<1>8. waiting' \subseteq waiting \cup [kind : {"switch"}, hub : Hubs]
  BY <1>3 DEF SyncHubs
<1>9. waiting' \subseteq LiveCommands(opened')
  BY <1>2, <1>8 DEF LiveInv, LiveCommands
<1>10. strayed' \in BOOLEAN
  BY LiveFacts DEF SyncHubs
<1>11. QED
  BY <1>2, <1>4, <1>5, <1>7, <1>9, <1>10 DEF LiveInv, VaultLive, vaultVars

-----------------------------------------------------------------------------

LEMMA LiveInitially ==
  ASSUME WorkspaceInit
  PROVE  LiveInv
<1>1. MaxTabs \in Nat /\ MaxChanges \in Nat /\ opened = 0
  BY WorkspaceAssumption DEF WorkspaceAssumption, WorkspaceInit
<1>2. strip \in Strips(opened)
  BY EmptyStrip DEF WorkspaceInit
<1>3. LiveModel(workspaces, opened) /\ DOMAIN workspaces = vaultHubs
  BY DefaultLive DEF WorkspaceInit, LiveModel
<1>4. HubLive(DOMAIN workspaces, activeHub)
  BY <1>3, NoUriIsNoHub DEF WorkspaceInit, HubLive
<1>5. shown \in Uris \cup {NoUri}
  BY <1>4, NoUriIsNoHub DEF WorkspaceInit, HubLive
<1>6. SurfaceLive
  BY <1>1, <1>2, <1>3, <1>5 DEF SurfaceLive, WorkspaceInit
<1>7. VaultLive
  <2>1. changes \in 0..MaxChanges
    BY <1>1 DEF WorkspaceInit
  <2>2. scanned = TRUE /\ strayed = FALSE /\ vaultHubs \subseteq Hubs /\ knownHubs \subseteq Hubs
    BY DEF WorkspaceInit
  <2>3. scanned \in BOOLEAN /\ strayed \in BOOLEAN
    BY <2>2, Zenon
  <2>4. QED
    BY <2>1, <2>2, <2>3 DEF VaultLive
<1>8. QED
  BY <1>4, <1>6, <1>7 DEF LiveInv, WorkspaceInit

LEMMA LiveStep ==
  ASSUME LiveInv, [WorkspaceNext]_workspaceVars
  PROVE  LiveInv'
<1>1. CASE UNCHANGED workspaceVars
  BY <1>1 DEF workspaceVars, modelVars, stripVars, vaultVars, LiveInv, SurfaceLive, VaultLive
<1>2. CASE \E u \in Openable, home \in BOOLEAN : OpenMarkdown(u, home)
  BY <1>2, OpenMarkdownLive
<1>3. CASE \E u \in Openable : \E at \in 1..Len(strip) + 1 : OpenNewTab(u, at)
  BY <1>3, OpenNewTabLive
<1>4. CASE \E u \in Openable : \E at \in 1..Len(strip) + 1 : OpenBackgroundTab(u, at)
  BY <1>4, OpenBackgroundTabLive
<1>5. CASE \E t \in TabIds : ActivateOpenTab(t)
  BY <1>5, ActivateOpenTabLive
<1>6. CASE \E from, before \in 1..MaxTabs + 1 : Reorder(from, before)
  BY <1>6, ReorderLive
<1>7. CASE \E back \in BOOLEAN : HistoryStep(IF back THEN -1 ELSE 1)
  BY <1>7, HistoryStepLive
<1>8. CASE HomeSelector
  BY <1>8, HomeSelectorLive
<1>9. CASE \E kind \in {"close", "closeOther"}, t \in TabIds : CloseRequest(kind, t)
  BY <1>9, CloseRequestLive
<1>10. CASE \E c \in waiting : CloseFinish(c)
  BY <1>10, CloseFinishLive
<1>11. CASE \E c \in waiting : CloseOtherShow(c)
  BY <1>11, CloseOtherShowLive
<1>12. CASE \E c \in waiting : CloseOtherFinish(c)
  BY <1>12, CloseOtherFinishLive
<1>13. CASE CloseAll
  BY <1>13, CloseAllLive
<1>14. CASE \E h \in Hubs : SwitchRequest(h)
  BY <1>14, SwitchRequestLive
<1>15. CASE \E c \in waiting : SwitchFinish(c)
  BY <1>15, SwitchFinishLive
<1>16. CASE \E u \in Uris : RemovedExternally(u)
  BY <1>16, RemovedExternallyLive
<1>17. CASE \E u \in Uris : DeletedInTree(u)
  BY <1>17, DeletedInTreeLive
<1>18. CASE \E u, v \in Uris : RenamedInTree(u, v)
  BY <1>18, RenamedInTreeLive
<1>19. CASE \E h \in Hubs : HubChanged(h)
  BY <1>19, HubChangedLive
<1>20. CASE ScanStart \/ ScanEnd
  BY <1>20, ScanLive
<1>21. CASE SyncHubs
  BY <1>21, SyncHubsLive
<1>22. CASE ProjectStrip
  BY <1>22, ProjectStripLive
<1>23. QED
  BY <1>1, <1>2, <1>3, <1>4, <1>5, <1>6, <1>7, <1>8, <1>9, <1>10, <1>11, <1>12, <1>13,
     <1>14, <1>15, <1>16, <1>17, <1>18, <1>19, <1>20, <1>21, <1>22 DEF WorkspaceNext

\* Every reachable state has live workspaces, a live strip and live commands.
THEOREM WorkspaceLive == WorkspaceSpec => []LiveInv
<1>1. WorkspaceInit => LiveInv
  BY LiveInitially
<1>2. LiveInv /\ [WorkspaceNext]_workspaceVars => LiveInv'
  BY LiveStep
<1>3. QED
  BY <1>1, <1>2, PTL DEF WorkspaceSpec

LEMMA LiveIsTyped ==
  ASSUME LiveInv
  PROVE  WorkspaceTypeOK
<1>1. DOMAIN workspaces \subseteq Hubs
  BY LiveFacts
<1>2. ASSUME NEW h \in DOMAIN workspaces PROVE workspaces[h] \in States
  <2>1. /\ workspaces[h] \in [tabs : Strips(opened), home : LiveHistories,
                              active : {NoTab} \cup TabIds]
    BY LiveFacts DEF LiveModel, LiveWorkspace
  <2>2. Strips(opened) \subseteq Seq(Tabs) /\ LiveHistories \subseteq Histories
    BY LiveFacts, StripTypes, LiveIsHistory
  <2>3. QED
    BY <2>1, <2>2 DEF States
<1>3. strip \in Seq(Tabs)
  BY LiveFacts, StripTypes
<1>4. ASSUME NEW c \in waiting PROVE c \in Commands
  <2>1. c \in LiveCommands(opened)
    BY DEF LiveInv
  <2>2. Strips(opened) \subseteq Seq(Tabs)
    BY LiveFacts, StripTypes
  <2>3. QED
    BY <2>1, <2>2 DEF LiveCommands, LiveClosings, Commands
<1>5. QED
  BY <1>1, <1>2, <1>3, <1>4 DEF LiveInv, SurfaceLive, HubLive, VaultLive, WorkspaceTypeOK

\* Every variable keeps its type: the workspaces and the strip hold tabs
\* with an id that was given and a history within its bounds.
THEOREM WorkspaceTypeCorrect == WorkspaceSpec => []WorkspaceTypeOK
<1>1. LiveInv => WorkspaceTypeOK
  BY LiveIsTyped
<1>2. QED
  BY <1>1, WorkspaceLive, PTL

LEMMA LiveIsValid ==
  ASSUME LiveInv
  PROVE  WorkspaceValid
<1>1. ASSUME NEW h \in DOMAIN workspaces PROVE ValidWorkspace(h, workspaces[h])
  <2>1. /\ workspaces[h].tabs \in Strips(opened) /\ workspaces[h].home \in LiveHistories
        /\ workspaces[h].home.entries[1] = h
        /\ workspaces[h].active \in {NoTab} \cup Ids(workspaces[h].tabs)
    BY LiveFacts, LiveWorkspaceParts
  <2>2. HasCurrent(workspaces[h].home) /\ ValidTabs(workspaces[h].tabs)
    BY <2>1, LiveFacts, StripTypes, LiveIsHistory
  <2>3. QED
    BY <2>1, <2>2 DEF ValidWorkspace
<1>2. QED
  BY <1>1, LiveFacts DEF WorkspaceValid

\* The workspace model passes the checks of validateWorkspaceModel in every
\* reachable state: whatever is opened, closed late, switched, pruned, renamed
\* or synced, in whatever order.
THEOREM WorkspacesStayValid == WorkspaceSpec => []WorkspaceValid
<1>1. LiveInv => WorkspaceValid
  BY LiveIsValid
<1>2. QED
  BY <1>1, WorkspaceLive, PTL

-----------------------------------------------------------------------------
(* What the operators do to the history of each tab.                       *)

HistoryOf(tabs, id) == tabs[Position(tabs, id)].history

LEMMA HistoryOfTab ==
  ASSUME NEW n \in Nat, NEW tabs \in Strips(n)
  PROVE  /\ \A i \in DOMAIN tabs : HistoryOf(tabs, tabs[i].id) = tabs[i].history
         /\ \A id \in Ids(tabs) : /\ HistoryOf(tabs, id) \in LiveHistories
                                  /\ \E i \in DOMAIN tabs : /\ tabs[i].id = id
                                                            /\ HistoryOf(tabs, id) = tabs[i].history
<1>1. \A i \in DOMAIN tabs : tabs[i].id \in Ids(tabs)
  BY DEF Ids
<1>2. \A i \in DOMAIN tabs : Position(tabs, tabs[i].id) = i
  BY <1>1, PositionOfTab
<1>3. \A i \in DOMAIN tabs : HistoryOf(tabs, tabs[i].id) = tabs[i].history
  BY <1>2 DEF HistoryOf
<1>4. ASSUME NEW id \in Ids(tabs)
      PROVE  /\ HistoryOf(tabs, id) \in LiveHistories
             /\ \E i \in DOMAIN tabs : /\ tabs[i].id = id
                                       /\ HistoryOf(tabs, id) = tabs[i].history
  BY PositionOfTab, TabOfStrip DEF HistoryOf
<1>5. QED
  BY <1>3, <1>4

LEMMA PickedHistories ==
  ASSUME NEW n \in Nat, NEW tabs \in Strips(n), NEW S \in SUBSET (DOMAIN tabs)
  PROVE  \A id \in Ids(Pick(tabs, S)) : HistoryOf(Pick(tabs, S), id) = HistoryOf(tabs, id)
<1> DEFINE p == Pick(tabs, S)
<1>1. p \in Strips(n)
  BY PickedTabs
<1>2. tabs \in Seq(LiveTabs(n))
  BY DEF Strips
<1>3. /\ DOMAIN p = 1..Cardinality(S)
      /\ \A i \in 1..Cardinality(S) : Nth(S, i) \in S /\ p[i] = tabs[Nth(S, i)]
  BY <1>2, PickIsSubsequence
<1> HIDE DEF p
<1>4. ASSUME NEW id \in Ids(p) PROVE HistoryOf(p, id) = HistoryOf(tabs, id)
  <2>1. PICK i \in DOMAIN p : p[i].id = id /\ HistoryOf(p, id) = p[i].history
    BY <1>1, HistoryOfTab
  <2>2. p[i] = tabs[Nth(S, i)] /\ Nth(S, i) \in DOMAIN tabs
    BY <1>3, <2>1
  <2>3. QED
    BY <2>1, <2>2, HistoryOfTab
<1>5. QED
  BY <1>4 DEF p

LEMMA TakenOutHistories ==
  ASSUME NEW n \in Nat, NEW tabs \in Strips(n), NEW id
  PROVE  /\ \A k \in Ids(TabsWithout(tabs, id)) : HistoryOf(TabsWithout(tabs, id), k) = HistoryOf(tabs, k)
         /\ \A k \in Ids(OnlyTab(tabs, id)) : HistoryOf(OnlyTab(tabs, id), k) = HistoryOf(tabs, k)
BY PickedHistories DEF TabsWithout, OnlyTab

LEMMA InsertedHistories ==
  ASSUME NEW n \in Nat, NEW tabs \in Strips(n), NEW tab \in LiveTabs(n),
         tab.id \notin Ids(tabs), NEW at \in 1..Len(tabs) + 1
  PROVE  LET s == InsertAt(tabs, at, tab)
         IN  /\ HistoryOf(s, tab.id) = tab.history
             /\ \A id \in Ids(tabs) : HistoryOf(s, id) = HistoryOf(tabs, id)
<1> DEFINE s == InsertAt(tabs, at, tab)
<1>1. s \in Strips(n)
  BY InsertedTab
<1>0. tabs \in Seq(LiveTabs(n))
  BY DEF Strips
<1>2. Len(tabs) \in Nat /\ DOMAIN tabs = 1..Len(tabs)
  BY <1>0
<1>3. /\ s \in Seq(LiveTabs(n)) /\ DOMAIN s = 1..Len(tabs) + 1
      /\ \A k \in 1..Len(tabs) + 1 :
           s[k] = IF k < at THEN tabs[k] ELSE IF k = at THEN tab ELSE tabs[k - 1]
  BY <1>0, InsertElements
<1> HIDE DEF s
<1>4. at \in DOMAIN s /\ s[at] = tab
  BY <1>2, <1>3
<1>5. HistoryOf(s, tab.id) = tab.history
  BY <1>1, <1>4, HistoryOfTab
<1>6. ASSUME NEW id \in Ids(tabs) PROVE HistoryOf(s, id) = HistoryOf(tabs, id)
  <2>1. PICK i \in DOMAIN tabs : tabs[i].id = id /\ HistoryOf(tabs, id) = tabs[i].history
    BY HistoryOfTab
  <2>2. \E k \in DOMAIN s : s[k] = tabs[i]
    <3>1. CASE i < at
      BY <1>2, <1>3, <3>1
    <3>2. CASE ~(i < at)
      <4>1. i + 1 \in DOMAIN s /\ ~(i + 1 < at) /\ i + 1 # at /\ (i + 1) - 1 = i
        BY <1>2, <1>3, <3>2
      <4>2. QED
        BY <1>3, <4>1
    <3>3. QED
      BY <3>1, <3>2
  <2>3. QED
    BY <1>1, <2>1, <2>2, HistoryOfTab
<1>7. QED
  BY <1>5, <1>6 DEF s

LEMMA DraggedHistories ==
  ASSUME NEW n \in Nat, NEW tabs \in Strips(n), NEW from \in DOMAIN tabs,
         NEW at \in 1..Len(tabs)
  PROVE  LET s == InsertAt(TabsWithout(tabs, tabs[from].id), at, tabs[from])
         IN  \A id \in Ids(tabs) : HistoryOf(s, id) = HistoryOf(tabs, id)
<1> DEFINE id   == tabs[from].id
           rest == TabsWithout(tabs, id)
           s    == InsertAt(rest, at, tabs[from])
<1>1. rest \in Strips(n) /\ Ids(rest) = Ids(tabs) \ {id}
  BY TabTakenOut
<1>2. tabs[from] \in LiveTabs(n) /\ id \in Ids(tabs) /\ HistoryOf(tabs, id) = tabs[from].history
  BY TabOfStrip, HistoryOfTab
<1>3. \A k \in Ids(rest) : HistoryOf(rest, k) = HistoryOf(tabs, k)
  BY TakenOutHistories
<1>4. Len(rest) = Len(tabs) - 1 /\ Len(tabs) \in Nat
  BY TabsLeft
<1> HIDE DEF rest
<1>5. at \in 1..Len(rest) + 1
  BY <1>4
<1>6. HistoryOf(s, id) = tabs[from].history /\ \A k \in Ids(rest) : HistoryOf(s, k) = HistoryOf(rest, k)
  BY <1>1, <1>2, <1>5, InsertedHistories
<1> HIDE DEF id, s
<1>7. \A k \in Ids(tabs) : HistoryOf(s, k) = HistoryOf(tabs, k)
  BY <1>1, <1>2, <1>3, <1>6
<1>8. QED
  BY <1>7 DEF s, rest, id

LEMMA PushedHistories ==
  ASSUME NEW n \in Nat, NEW tabs \in Strips(n), NEW id, NEW u \in Uris,
         \A i \in DOMAIN tabs : Fits(tabs[i].history, u)
  PROVE  \A k \in Ids(tabs) : HistoryOf(PushOn(tabs, id, u), k) =
                                IF k = id THEN Push(HistoryOf(tabs, k), u) ELSE HistoryOf(tabs, k)
<1> DEFINE s == PushOn(tabs, id, u)
<1>1. s \in Strips(n) /\ DOMAIN s = DOMAIN tabs
  BY PushedTabs DEF PushOn
<1>2. ASSUME NEW i \in DOMAIN tabs
      PROVE  /\ s[i].id = tabs[i].id
             /\ s[i].history = IF tabs[i].id = id THEN Push(tabs[i].history, u) ELSE tabs[i].history
  <2>1. tabs[i] \in LiveTabs(n)
    BY TabOfStrip
  <2>2. QED
    BY <2>1 DEF PushOn, LiveTabs
<1> HIDE DEF s
<1>3. ASSUME NEW k \in Ids(tabs)
      PROVE  HistoryOf(s, k) = IF k = id THEN Push(HistoryOf(tabs, k), u) ELSE HistoryOf(tabs, k)
  <2>1. PICK i \in DOMAIN tabs : tabs[i].id = k /\ HistoryOf(tabs, k) = tabs[i].history
    BY HistoryOfTab
  <2>2. HistoryOf(s, k) = s[i].history
    BY <1>1, <1>2, <2>1, HistoryOfTab
  <2>3. QED
    BY <1>2, <2>1, <2>2
<1>4. QED
  BY <1>3 DEF s

LEMMA MovedHistories ==
  ASSUME NEW n \in Nat, NEW tabs \in Strips(n), NEW id \in Ids(tabs), NEW step \in Int,
         LET h == tabs[Position(tabs, id)].history IN h.index + step \in DOMAIN h.entries
  PROVE  /\ \A k \in Ids(tabs) \ {id} : HistoryOf(Moved(tabs, id, step), k) = HistoryOf(tabs, k)
         /\ Current(HistoryOf(Moved(tabs, id, step), id)) =
              HistoryOf(tabs, id).entries[HistoryOf(tabs, id).index + step]
<1> DEFINE s == Moved(tabs, id, step)
<1>1. s \in Strips(n) /\ DOMAIN s = DOMAIN tabs
  BY MovedTabs DEF Moved
<1>2. ASSUME NEW i \in DOMAIN tabs
      PROVE  /\ s[i].id = tabs[i].id
             /\ tabs[i].id # id => s[i].history = tabs[i].history
             /\ tabs[i].id = id => /\ s[i].history.entries = tabs[i].history.entries
                                   /\ s[i].history.index = tabs[i].history.index + step
  <2>1. tabs[i] \in LiveTabs(n) /\ tabs[i].history \in LiveHistories
    BY TabOfStrip
  <2>2. CASE tabs[i].id # id
    BY <2>1, <2>2 DEF Moved
  <2>3. CASE tabs[i].id = id
    <3> DEFINE h == tabs[i].history
               g == [h EXCEPT !.index = h.index + step]
    <3>1. s[i] = [tabs[i] EXCEPT !.history.index = @ + step]
      BY <2>3 DEF Moved
    <3>2. [tabs[i] EXCEPT !.history.index = @ + step] = [tabs[i] EXCEPT !.history = g]
      BY <2>1 DEF LiveTabs
    <3>3. g.entries = h.entries /\ g.index = h.index + step
      BY <2>1 DEF LiveHistories
    <3> HIDE DEF g
    <3>4. s[i].history = g /\ s[i].id = tabs[i].id
      BY <2>1, <3>1, <3>2 DEF LiveTabs
    <3>5. QED
      BY <2>3, <3>3, <3>4
  <2>4. QED
    BY <2>2, <2>3
<1> HIDE DEF s
<1>3. ASSUME NEW k \in Ids(tabs)
      PROVE  \E i \in DOMAIN tabs : /\ tabs[i].id = k /\ HistoryOf(tabs, k) = tabs[i].history
                                    /\ HistoryOf(s, k) = s[i].history
  <2>1. PICK i \in DOMAIN tabs : tabs[i].id = k /\ HistoryOf(tabs, k) = tabs[i].history
    BY HistoryOfTab
  <2>2. HistoryOf(s, k) = s[i].history
    BY <1>1, <1>2, <2>1, HistoryOfTab
  <2>3. QED
    BY <2>1, <2>2
<1>4. \A k \in Ids(tabs) \ {id} : HistoryOf(s, k) = HistoryOf(tabs, k)
  BY <1>2, <1>3
<1>5. /\ HistoryOf(s, id).entries = HistoryOf(tabs, id).entries
      /\ HistoryOf(s, id).index = HistoryOf(tabs, id).index + step
  BY <1>2, <1>3
<1>6. QED
  BY <1>4, <1>5 DEF s, Current

LEMMA RemappedHistories ==
  ASSUME NEW n \in Nat, NEW tabs \in Strips(n), NEW old \in Uris, NEW new \in Uris
  PROVE  \A k \in Ids(tabs) :
           HistoryOf(RemappedTabs(tabs, old, new), k) = Remapped(HistoryOf(tabs, k), old, new)
<1> DEFINE s == RemappedTabs(tabs, old, new)
<1>1. s \in Strips(n) /\ DOMAIN s = DOMAIN tabs
  BY RemappedStrip DEF RemappedTabs
<1>2. ASSUME NEW i \in DOMAIN tabs
      PROVE  s[i].id = tabs[i].id /\ s[i].history = Remapped(tabs[i].history, old, new)
  <2>1. tabs[i] \in LiveTabs(n)
    BY TabOfStrip
  <2>2. QED
    BY <2>1 DEF RemappedTabs, LiveTabs
<1> HIDE DEF s
<1>3. ASSUME NEW k \in Ids(tabs)
      PROVE  HistoryOf(s, k) = Remapped(HistoryOf(tabs, k), old, new)
  <2>1. PICK i \in DOMAIN tabs : tabs[i].id = k /\ HistoryOf(tabs, k) = tabs[i].history
    BY HistoryOfTab
  <2>2. HistoryOf(s, k) = s[i].history
    BY <1>1, <1>2, <2>1, HistoryOfTab
  <2>3. QED
    BY <1>2, <2>1, <2>2
<1>4. QED
  BY <1>3 DEF s

LEMMA PrunedHistories ==
  ASSUME NEW n \in Nat, NEW tabs \in Strips(n), NEW gone
  PROVE  /\ \A k \in Ids(PrunedTabs(tabs, gone)) :
              HistoryOf(PrunedTabs(tabs, gone), k) = Pruned(HistoryOf(tabs, k), gone)
         /\ \A k \in Ids(tabs) : k \in Ids(PrunedTabs(tabs, gone))
                                   <=> Staying(HistoryOf(tabs, k), gone) # {}
<1> DEFINE s == [i \in DOMAIN tabs |-> [tabs[i] EXCEPT !.history = Pruned(@, gone)]]
           S == {i \in DOMAIN tabs : Staying(tabs[i].history, gone) # {}}
           T == {s[i] : i \in DOMAIN tabs}
           p == PrunedTabs(tabs, gone)
<1>1. Len(tabs) \in Nat /\ DOMAIN tabs = 1..Len(tabs)
  BY DEF Strips
<1>2. \A i \in DOMAIN tabs : s[i].id = tabs[i].id /\ s[i].history = Pruned(tabs[i].history, gone)
  BY TabOfStrip DEF LiveTabs
<1>3. s \in Seq(T) /\ S \in SUBSET (DOMAIN s) /\ DOMAIN s = DOMAIN tabs
  BY <1>1
<1>4. p = Pick(s, S)
  BY DEF PrunedTabs
<1>5. /\ p \in Strips(n)
      /\ \A id : id \in Ids(p) <=>
           \E k \in DOMAIN tabs : tabs[k].id = id /\ Staying(tabs[k].history, gone) # {}
  <2> HIDE DEF s, S, T
  <2>1. PrunedTabs(tabs, gone) \in Strips(n)
    BY PrunedStrip
  <2>2. ASSUME NEW id, id \in Ids(PrunedTabs(tabs, gone))
        PROVE  \E k \in DOMAIN tabs : tabs[k].id = id /\ Staying(tabs[k].history, gone) # {}
    BY <2>2, PrunedStrip
  <2>3. ASSUME NEW id, NEW k \in DOMAIN tabs, tabs[k].id = id, Staying(tabs[k].history, gone) # {}
        PROVE  id \in Ids(PrunedTabs(tabs, gone))
    BY <2>3, PrunedStrip
  <2>4. QED
    BY <2>1, <2>2, <2>3
<1> HIDE DEF s, p, T, S
<1>6. /\ DOMAIN p = 1..Cardinality(S)
      /\ \A i \in 1..Cardinality(S) : Nth(S, i) \in S /\ p[i] = s[Nth(S, i)]
  BY <1>3, <1>4, PickIsSubsequence
<1>7. ASSUME NEW k \in Ids(p) PROVE HistoryOf(p, k) = Pruned(HistoryOf(tabs, k), gone)
  <2>1. PICK i \in DOMAIN p : p[i].id = k /\ HistoryOf(p, k) = p[i].history
    BY <1>5, HistoryOfTab
  <2> DEFINE j == Nth(S, i)
  <2>2. j \in DOMAIN tabs /\ p[i] = s[j]
    BY <1>3, <1>6, <2>1
  <2> HIDE DEF j
  <2>3. HistoryOf(tabs, k) = tabs[j].history
    BY <1>2, <2>1, <2>2, HistoryOfTab
  <2>4. QED
    BY <1>2, <2>1, <2>2, <2>3
<1>8. ASSUME NEW k \in Ids(tabs) PROVE k \in Ids(p) <=> Staying(HistoryOf(tabs, k), gone) # {}
  <2>1. PICK i \in DOMAIN tabs : tabs[i].id = k /\ HistoryOf(tabs, k) = tabs[i].history
    BY HistoryOfTab
  <2>2. \A j \in DOMAIN tabs : tabs[j].id = k => j = i
    BY <2>1 DEF Strips
  <2>3. QED
    BY <1>5, <2>1, <2>2
<1>9. QED
  BY <1>7, <1>8 DEF p

LEMMA PushCurrent ==
  ASSUME NEW h \in LiveHistories, NEW u \in Uris
  PROVE  Current(Push(h, u)) = u
<1> DEFINE e == SubSeq(h.entries, 1, h.index)
<1>1. CASE Current(h) = u
  BY <1>1 DEF Push
<1>2. CASE Current(h) # u
  <2>1. h.entries \in Seq(Uris) /\ h.index \in 1..Len(h.entries)
    BY DEF LiveHistories
  <2>2. e \in Seq(Uris) /\ Len(e) = h.index /\ h.index \in Nat
    BY <2>1
  <2>3. Push(h, u) = [entries |-> Append(e, u), index |-> h.index + 1]
    BY <1>2 DEF Push
  <2> HIDE DEF e
  <2>4. Append(e, u)[h.index + 1] = u
    BY <2>2
  <2>5. Push(h, u).entries = Append(e, u) /\ Push(h, u).index = h.index + 1
    BY <2>3
  <2>6. QED
    BY <2>4, <2>5 DEF Current
<1>3. QED
  BY <1>1, <1>2

\* The current note stays current as long as it stays, and no gone note is left.
LEMMA PrunedCurrent ==
  ASSUME NEW h \in LiveHistories, NEW gone
  PROVE  /\ Current(h) \notin gone =>
              Staying(h, gone) # {} /\ Current(Pruned(h, gone)) = Current(h)
         /\ Staying(h, gone) # {} => Visited(Pruned(h, gone)) \cap gone = {}
         /\ Staying(h, gone) = {} => Visited(h) \subseteq gone
<1> DEFINE kept   == Staying(h, gone)
           before == Cardinality(UpTo(kept, h.index))
           picked == Pick(h.entries, kept)
<1>1. /\ h.entries \in Seq(Uris) /\ h.index \in 1..Len(h.entries)
      /\ Len(h.entries) \in Nat /\ DOMAIN h.entries = 1..Len(h.entries)
  BY DEF LiveHistories
<1>2. /\ kept \in SUBSET (DOMAIN h.entries) /\ kept \in SUBSET (1..Len(h.entries))
      /\ \A i \in DOMAIN h.entries : i \in kept <=> h.entries[i] \notin gone
  BY <1>1 DEF Staying
<1>3. Pruned(h, gone) = [entries |-> picked, index |-> IF before = 0 THEN 1 ELSE before]
  BY DEF Pruned
<1> HIDE DEF kept, picked
<1>4. /\ Cardinality(kept) \in Nat /\ DOMAIN picked = 1..Cardinality(kept)
      /\ \A i \in 1..Cardinality(kept) : Nth(kept, i) \in kept /\ picked[i] = h.entries[Nth(kept, i)]
  <2>1. Cardinality(kept) \in 0..Len(h.entries)
    BY <1>1, <1>2, PositionsFinite
  <2>2. QED
    BY <1>1, <1>2, <2>1, PickIsSubsequence DEF picked
<1>5. ASSUME Current(h) \notin gone
      PROVE  kept # {} /\ Current(Pruned(h, gone)) = Current(h)
  <2>1. h.index \in kept
    BY <1>1, <1>2, <1>5 DEF Current
  <2>2. before \in 1..Cardinality(kept) /\ Nth(kept, before) = h.index
    BY <1>1, <1>2, <2>1, NthOnto
  <2> HIDE DEF before
  <2>3. before # 0 /\ picked[before] = h.entries[h.index]
    BY <1>4, <2>2
  <2>4. QED
    BY <1>3, <2>1, <2>3 DEF Current
<1>6. Visited(Pruned(h, gone)) \cap gone = {}
  <2>1. Visited(Pruned(h, gone)) = {picked[i] : i \in DOMAIN picked}
    BY <1>3 DEF Visited
  <2>2. \A i \in DOMAIN picked : picked[i] \notin gone
    BY <1>2, <1>4
  <2>3. QED
    BY <2>1, <2>2
<1>7. kept = {} => Visited(h) \subseteq gone
  BY <1>2 DEF Visited
<1>8. QED
  BY <1>5, <1>6, <1>7 DEF kept

LEMMA RemappedCurrent ==
  ASSUME NEW h \in LiveHistories, NEW old, NEW new
  PROVE  /\ Current(Remapped(h, old, new)) = Renamed(Current(h), old, new)
         /\ Visited(Remapped(h, old, new)) = {Renamed(x, old, new) : x \in Visited(h)}
<1> DEFINE e == [i \in DOMAIN h.entries |-> Renamed(h.entries[i], old, new)]
           g == Remapped(h, old, new)
<1>1. h.index \in DOMAIN h.entries
  BY DEF LiveHistories
<1>2. g.entries = e /\ g.index = h.index
  BY DEF Remapped, LiveHistories
<1> HIDE DEF g
<1>3. Current(g) = Renamed(Current(h), old, new)
  BY <1>1, <1>2 DEF Current
<1>4. Visited(g) = {Renamed(x, old, new) : x \in Visited(h)}
  BY <1>2 DEF Visited
<1>5. QED
  BY <1>3, <1>4 DEF g

-----------------------------------------------------------------------------
(* Strip, workspaces and editor agree.                                     *)

Apart(all) ==
  \A g, h \in DOMAIN all : g # h => Ids(all[g].tabs) \cap Ids(all[h].tabs) = {}

ApartFrom(all, hub, tabs) ==
  \A g \in DOMAIN all : g # hub => Ids(all[g].tabs) \cap Ids(tabs) = {}

(* The current note of a surface: of its tab, or of Home.                  *)
Surface(all, hub, tabs, id, show) ==
  IF id \in Ids(tabs) THEN UriOf(tabs, id)
  ELSE IF hub # NoUri THEN Current(all[hub].home) ELSE show

Agree(all, hub, tabs, id, show, busy) ==
  /\ hub # NoUri => tabs = all[hub].tabs
  /\ id \in {NoTab} \cup Ids(tabs)
  /\ Apart(all)
  /\ \/ busy \/ show = NoUri
     \/ /\ show = Surface(all, hub, tabs, id, show)
        /\ hub # NoUri => id = all[hub].active

Switching == \E c \in waiting : c.kind = "switch"

(* As long as no step has strayed: the strip is that of the active hub,    *)
(* and unless a switch waits or the editor is empty, the editor shows the  *)
(* current note of the surface that is active in the strip and the model.  *)
Coherent == Agree(workspaces, activeHub, strip, stripActive, shown, Switching)

CoherentInv == ~strayed => Coherent

LEMMA MirroredParts ==
  ASSUME NEW n, NEW all, LiveModel(all, n), NEW hub, NEW tabs, NEW id,
         NEW h \in DOMAIN all
  PROVE  LET next == Mirrored(all, hub, tabs, id)
         IN  /\ next[h].home = all[h].home
             /\ h # hub => next[h] = all[h]
             /\ h = hub => /\ next[h].tabs = tabs
                           /\ next[h].active = IF id \in Ids(tabs) THEN id ELSE NoTab
<1> DEFINE next == Mirrored(all, hub, tabs, id)
           at   == IF id \in Ids(tabs) THEN id ELSE NoTab
<1>1. LiveWorkspace(h, all[h], n)
  BY DEF LiveModel
<1>2. CASE h = hub
  <2>1. next[h] = [[all[h] EXCEPT !.tabs = tabs] EXCEPT !.active = at]
    BY <1>2 DEF Mirrored
  <2> HIDE DEF at
  <2>2. /\ next[h].home = all[h].home /\ next[h].tabs = tabs /\ next[h].active = at
    BY <1>1, <2>1 DEF LiveWorkspace
  <2>3. QED
    BY <1>2, <2>2 DEF at
<1>3. CASE h # hub
  BY <1>3 DEF Mirrored
<1>4. QED
  BY <1>2, <1>3

LEMMA AgreeMirrored ==
  ASSUME NEW n \in 0..MaxTabs, NEW all, LiveModel(all, n), NEW hub, HubLive(DOMAIN all, hub),
         NEW tabs \in Strips(n), Apart(all), ApartFrom(all, hub, tabs),
         NEW id \in {NoTab} \cup Ids(tabs), NEW show, NEW busy \in BOOLEAN,
         busy \/ show = NoUri \/ show = Surface(all, hub, tabs, id, show)
  PROVE  Agree(Mirrored(all, hub, tabs, id), hub, tabs, id, show, busy)
<1> DEFINE next == Mirrored(all, hub, tabs, id)
<1>1. DOMAIN next = DOMAIN all
  BY MirroredLive
<1>2. \A h \in DOMAIN all : /\ next[h].home = all[h].home
                            /\ h # hub => next[h] = all[h]
                            /\ h = hub => next[h].tabs = tabs
                            /\ h = hub => next[h].active = IF id \in Ids(tabs) THEN id ELSE NoTab
  BY MirroredParts
<1>3. hub # NoUri => hub \in DOMAIN all
  BY DEF HubLive
<1> HIDE DEF next
<1>4. hub # NoUri => tabs = next[hub].tabs /\ id = next[hub].active
  BY <1>2, <1>3
<1>5. Apart(next)
  BY <1>1, <1>2 DEF Apart, ApartFrom
<1>6. Surface(next, hub, tabs, id, show) = Surface(all, hub, tabs, id, show)
  BY <1>2, <1>3 DEF Surface
<1>7. QED
  BY <1>4, <1>5, <1>6 DEF Agree, next

-----------------------------------------------------------------------------
(* What every step does that does not stray: strip, workspaces and editor  *)
(* agree again, tabs that go away were closed or went with their notes,    *)
(* and the tabs that are not shown keep their notes.                       *)

Losses == \A t \in AllTabs \ AllTabs' : Closes(t) \/ GoesWithItsNotes(t)

Places ==
  \A h \in DOMAIN workspaces \cap DOMAIN workspaces' :
    KeepsPlace(workspaces[h].tabs, workspaces'[h].tabs, stripActive')

GoodStep == Coherent' /\ Losses /\ Places

LEMMA UriOfHistory ==
  ASSUME NEW tabs, NEW t
  PROVE  UriOf(tabs, t) = Current(HistoryOf(tabs, t))
BY DEF UriOf, HistoryOf

LEMMA KeepsSame ==
  ASSUME NEW before, NEW after, NEW active,
         \A t \in Ids(before) \cap Ids(after) :
           t # active => HistoryOf(after, t) = HistoryOf(before, t)
  PROVE  KeepsPlace(before, after, active)
BY DEF KeepsPlace, UriOf, HistoryOf

LEMMA CoherentFacts ==
  ASSUME LiveInv, Coherent
  PROVE  /\ activeHub # NoUri => /\ strip = workspaces[activeHub].tabs /\ strip = ActiveTabs
                                 /\ activeHub \in DOMAIN workspaces
         /\ activeHub = NoUri => DOMAIN workspaces = {} /\ AllTabs = Ids(strip)
         /\ stripActive \in {NoTab} \cup Ids(strip) /\ NoTab \notin Ids(strip)
         /\ Apart(workspaces) /\ ApartFrom(workspaces, activeHub, strip)
         /\ \A h \in DOMAIN workspaces : Ids(workspaces[h].tabs) \subseteq 1..opened
         /\ \A t \in AllTabs : t \in Ids(strip) \/ \E h \in DOMAIN workspaces \ {activeHub} :
                                                      t \in Ids(workspaces[h].tabs)
         /\ Ids(strip) \subseteq 1..opened
         /\ \/ Switching \/ shown = NoUri
            \/ /\ shown = Surface(workspaces, activeHub, strip, stripActive, shown)
               /\ activeHub # NoUri => stripActive = workspaces[activeHub].active
<1>1. activeHub # NoUri => /\ strip = workspaces[activeHub].tabs /\ strip = ActiveTabs
                           /\ activeHub \in DOMAIN workspaces
  BY LiveFacts DEF Coherent, Agree, ActiveTabs
<1>2. activeHub = NoUri => DOMAIN workspaces = {} /\ AllTabs = Ids(strip)
  BY LiveFacts DEF AllTabs
<1>3. \A h \in DOMAIN workspaces : Ids(workspaces[h].tabs) \subseteq 1..opened
  BY LiveFacts, LiveWorkspaceParts, StripTypes
<1>4. Ids(strip) \subseteq 1..opened /\ NoTab \notin Ids(strip)
  BY LiveFacts, StripTypes DEF NoTab
<1>5. Apart(workspaces) /\ ApartFrom(workspaces, activeHub, strip)
  BY <1>1, <1>2 DEF Coherent, Agree, Apart, ApartFrom
<1>6. \A t \in AllTabs : t \in Ids(strip) \/ \E h \in DOMAIN workspaces \ {activeHub} :
                                               t \in Ids(workspaces[h].tabs)
  BY <1>1, LiveFacts DEF AllTabs
<1>7. QED
  BY <1>1, <1>2, <1>3, <1>4, <1>5, <1>6 DEF Coherent, Agree

LEMMA SurfaceStep ==
  ASSUME LiveInv, Coherent, SurfaceLive', activeHub' = activeHub,
         NEW all, LiveModel(all, opened'), DOMAIN all = DOMAIN workspaces,
         \A h \in DOMAIN all : h # activeHub => all[h].tabs = workspaces[h].tabs,
         activeHub \in DOMAIN all => Ids(all[activeHub].tabs) \subseteq Ids(strip),
         workspaces' = Mirrored(all, activeHub, strip', stripActive'),
         stripActive' \in {NoTab} \cup Ids(strip'),
         Ids(strip') \subseteq Ids(strip) \cup {opened + 1},
         \A t \in Ids(strip) \cap Ids(strip') :
           t # stripActive' => HistoryOf(strip', t) = HistoryOf(strip, t),
         \/ Switching' \/ shown' = NoUri
         \/ shown' = Surface(all, activeHub, strip', stripActive', shown')
  PROVE  /\ Coherent' /\ Places
         /\ \A t \in AllTabs \ AllTabs' : t \in Ids(strip) \ Ids(strip')
         /\ Ids(strip) \subseteq Ids(strip') => Losses
<1>1. /\ opened \in Nat /\ opened' \in 0..MaxTabs /\ strip' \in Strips(opened')
      /\ HubLive(DOMAIN all, activeHub)
  BY LiveFacts DEF SurfaceLive, LiveInv
<1>2. Apart(all) /\ ApartFrom(all, activeHub, strip')
  <2>1. ASSUME NEW g \in DOMAIN all, g # activeHub PROVE Ids(all[g].tabs) \cap Ids(strip') = {}
    <3>1. Ids(all[g].tabs) \cap Ids(strip) = {} /\ Ids(all[g].tabs) \subseteq 1..opened
      BY <2>1, CoherentFacts DEF ApartFrom
    <3>2. opened + 1 \notin 1..opened
      BY <1>1
    <3>3. QED
      BY <3>1, <3>2
  <2>2. ASSUME NEW g \in DOMAIN all, NEW h \in DOMAIN all, g # h
        PROVE  Ids(all[g].tabs) \cap Ids(all[h].tabs) = {}
    <3>1. Ids(workspaces[g].tabs) \cap Ids(workspaces[h].tabs) = {}
      BY <2>2, CoherentFacts DEF Apart
    <3>2. activeHub \in DOMAIN all => workspaces[activeHub].tabs = strip
      BY LiveFacts, CoherentFacts
    <3>3. QED
      BY <2>2, <3>1, <3>2
  <2>3. QED
    BY <2>1, <2>2 DEF Apart, ApartFrom
<1>3. Coherent'
  <2>1. Switching' \in BOOLEAN
    BY DEF Switching
  <2>2. Agree(workspaces', activeHub, strip', stripActive', shown', Switching')
    BY <1>1, <1>2, <2>1, AgreeMirrored
  <2>3. QED
    BY <2>2 DEF Coherent
<1>4. /\ DOMAIN workspaces' = DOMAIN workspaces
      /\ \A h \in DOMAIN workspaces : h # activeHub => workspaces'[h].tabs = workspaces[h].tabs
      /\ activeHub \in DOMAIN workspaces => workspaces'[activeHub].tabs = strip'
  BY <1>1, MirroredLive, MirroredParts
<1>5. Places
  <2>1. ASSUME NEW h \in DOMAIN workspaces
        PROVE  KeepsPlace(workspaces[h].tabs, workspaces'[h].tabs, stripActive')
    <3>1. CASE h # activeHub
      BY <1>4, <3>1, KeepsSame
    <3>2. CASE h = activeHub
      <4>1. workspaces[h].tabs = strip /\ workspaces'[h].tabs = strip'
        BY <1>4, <3>2, LiveFacts, CoherentFacts
      <4>2. KeepsPlace(strip, strip', stripActive')
        BY KeepsSame
      <4>3. QED
        BY <4>1, <4>2
    <3>3. QED
      BY <3>1, <3>2
  <2>2. QED
    BY <2>1 DEF Places
<1>6. \A t \in AllTabs \ AllTabs' : t \in Ids(strip) \ Ids(strip')
  BY <1>4, CoherentFacts DEF AllTabs
<1>7. QED
  BY <1>3, <1>5, <1>6 DEF Losses

LEMMA CurrentOfNew ==
  ASSUME NEW u \in Uris
  PROVE  Current(History(u)) = u
BY DEF Current, History

(* What showing a note in a tab leaves behind.                             *)
InTab(all, hub, tabs, id, u) ==
  /\ stripActive' \in Ids(strip') /\ shown' = UriOf(strip', stripActive') /\ shown' = u
  /\ Ids(tabs) \subseteq Ids(strip') /\ Ids(strip') \subseteq Ids(tabs) \cup {opened + 1}
  /\ id \in Ids(tabs) => stripActive' = id
  /\ \A t \in Ids(tabs) : t # stripActive' => HistoryOf(strip', t) = HistoryOf(tabs, t)
  /\ workspaces' = Mirrored(all, hub, strip', stripActive') /\ opened <= opened'

LEMMA ShownInTab ==
  ASSUME SurfaceLive, NEW all, NEW hub, NEW tabs \in Strips(opened), NEW id, NEW u \in Uris,
         NEW skip \in BOOLEAN, skip \/ \A i \in DOMAIN tabs : Fits(tabs[i].history, u),
         skip /\ tabs # <<>> => u = UriOf(tabs, EnsureActive(tabs, id)),
         ShowInTab(all, hub, tabs, id, u, skip)
  PROVE  InTab(all, hub, tabs, id, u)
<1>1. opened \in Nat
  BY WorkspaceAssumption DEF WorkspaceAssumption, SurfaceLive
<1>2. shown' = u /\ workspaces' = Mirrored(all, hub, strip', stripActive') /\ opened <= opened'
  BY <1>1 DEF ShowInTab
<1>3. CASE tabs = <<>>
  <2> DEFINE tab == Tab(opened + 1, u)
  <2>1. strip' = <<tab>> /\ stripActive' = opened + 1
    BY <1>3 DEF ShowInTab
  <2>2. <<tab>> \in Strips(opened + 1) /\ Ids(<<tab>>) = {opened + 1}
    BY <1>1, FirstTab
  <2>3. tab.id = opened + 1 /\ tab.history = History(u)
    BY DEF Tab
  <2> HIDE DEF tab
  <2>4. HistoryOf(<<tab>>, opened + 1) = History(u)
    <3>1. 1 \in DOMAIN <<tab>> /\ <<tab>>[1] = tab
      OBVIOUS
    <3>2. HistoryOf(<<tab>>, <<tab>>[1].id) = <<tab>>[1].history
      BY <1>1, <2>2, <3>1, HistoryOfTab
    <3>3. QED
      BY <2>3, <3>1, <3>2
  <2>5. UriOf(strip', stripActive') = u
    BY <2>1, <2>4, UriOfHistory, CurrentOfNew
  <2>6. Ids(tabs) = {}
    BY <1>3, EmptyStrip
  <2>7. QED
    BY <1>2, <2>1, <2>2, <2>5, <2>6 DEF InTab
<1>4. CASE tabs # <<>>
  <2> DEFINE k == EnsureActive(tabs, id)
  <2>1. k \in Ids(tabs) /\ (id \in Ids(tabs) => k = id)
    BY <1>1, <1>4, EnsuredActive
  <2>2. stripActive' = k /\ strip' = IF skip THEN tabs ELSE PushOn(tabs, k, u)
    BY <1>4 DEF ShowInTab
  <2>3. skip => u = UriOf(tabs, k)
    BY <1>4
  <2> HIDE DEF k
  <2>4. CASE skip
    BY <1>2, <2>1, <2>2, <2>3, <2>4 DEF InTab
  <2>5. CASE ~skip
    <3>1. \A i \in DOMAIN tabs : Fits(tabs[i].history, u)
      BY <2>5
    <3>2. Ids(strip') = Ids(tabs)
      BY <1>1, <2>2, <2>5, <3>1, PushedTabs
    <3>3. \A t \in Ids(tabs) : HistoryOf(strip', t) =
                                 IF t = k THEN Push(HistoryOf(tabs, t), u) ELSE HistoryOf(tabs, t)
      BY <1>1, <2>2, <2>5, <3>1, PushedHistories
    <3>4. HistoryOf(tabs, k) \in LiveHistories
      BY <1>1, <2>1, HistoryOfTab
    <3>5. UriOf(strip', k) = u
      BY <2>1, <3>3, <3>4, UriOfHistory, PushCurrent
    <3>6. QED
      BY <1>2, <2>1, <2>2, <3>2, <3>3, <3>5 DEF InTab
  <2>6. QED
    BY <2>4, <2>5
<1>5. QED
  BY <1>3, <1>4

\* A step that shows a note in a tab.
LEMMA InTabStep ==
  ASSUME LiveInv, Coherent, activeHub' = activeHub, SurfaceLive',
         NEW all, LiveModel(all, opened), DOMAIN all = DOMAIN workspaces,
         \A h \in DOMAIN all : h # activeHub => all[h].tabs = workspaces[h].tabs,
         activeHub \in DOMAIN all => Ids(all[activeHub].tabs) \subseteq Ids(strip),
         NEW tabs \in Strips(opened), Ids(tabs) \subseteq Ids(strip), NEW id, NEW u,
         InTab(all, activeHub, tabs, id, u),
         \A t \in Ids(tabs) : HistoryOf(tabs, t) = HistoryOf(strip, t) \/ t = id
  PROVE  /\ Coherent' /\ Places
         /\ \A t \in AllTabs \ AllTabs' : t \in Ids(strip) \ Ids(tabs)
         /\ Ids(strip) \subseteq Ids(tabs) => Losses
<1>1. opened \in Nat /\ opened' \in Nat /\ opened <= opened'
  BY WorkspaceAssumption, LiveFacts DEF InTab, SurfaceLive, WorkspaceAssumption
<1>2. /\ stripActive' \in {NoTab} \cup Ids(strip')
      /\ Ids(strip') \subseteq Ids(strip) \cup {opened + 1}
      /\ workspaces' = Mirrored(all, activeHub, strip', stripActive')
  BY DEF InTab
<1>3. shown' = Surface(all, activeHub, strip', stripActive', shown')
  BY DEF InTab, Surface
<1>4. LiveModel(all, opened')
  BY <1>1, LiveModelGrows
<1>5. ASSUME NEW t \in Ids(strip) \cap Ids(strip'), t # stripActive'
      PROVE  HistoryOf(strip', t) = HistoryOf(strip, t)
  <2>1. Ids(strip) \subseteq 1..opened /\ opened + 1 \notin 1..opened
    BY <1>1, CoherentFacts
  <2>2. t \in Ids(tabs)
    BY <2>1 DEF InTab
  <2>3. t # id
    BY <1>5, <2>2 DEF InTab
  <2>4. QED
    BY <1>5, <2>2, <2>3 DEF InTab
<1>6. \A t \in Ids(strip) \cap Ids(strip') :
        t # stripActive' => HistoryOf(strip', t) = HistoryOf(strip, t)
  BY <1>5
<1>7. /\ Coherent' /\ Places
      /\ \A t \in AllTabs \ AllTabs' : t \in Ids(strip) \ Ids(strip')
      /\ Ids(strip) \subseteq Ids(strip') => Losses
  BY <1>1, <1>2, <1>3, <1>4, <1>6, SurfaceStep
<1>8. Ids(tabs) \subseteq Ids(strip')
  BY DEF InTab
<1>9. QED
  BY <1>7, <1>8

\* A step that shows a note on Home.
LEMMA OnHomeStep ==
  ASSUME LiveInv, Coherent, activeHub' = activeHub,
         NEW all, LiveModel(all, opened), DOMAIN all = DOMAIN workspaces,
         \A h \in DOMAIN all : h # activeHub => all[h].tabs = workspaces[h].tabs,
         activeHub \in DOMAIN all => Ids(all[activeHub].tabs) \subseteq Ids(strip),
         NEW tabs \in Strips(opened), Ids(tabs) \subseteq Ids(strip),
         NEW u \in Uris, activeHub # NoUri => u = Current(all[activeHub].home),
         ShowOnHome(all, activeHub, tabs, u),
         \A t \in Ids(tabs) : HistoryOf(tabs, t) = HistoryOf(strip, t)
  PROVE  /\ Coherent' /\ Places
         /\ \A t \in AllTabs \ AllTabs' : t \in Ids(strip) \ Ids(tabs)
         /\ Ids(strip) \subseteq Ids(tabs) => Losses
<1>1. SurfaceLive /\ SurfaceLive' /\ opened' = opened
  BY LiveFacts, OnHomeLive
<1>2. /\ strip' = tabs /\ stripActive' = NoTab /\ shown' = u
      /\ workspaces' = Mirrored(all, activeHub, strip', stripActive')
  BY DEF ShowOnHome
<1>3. NoTab \notin Ids(tabs)
  BY CoherentFacts
<1>4. shown' = Surface(all, activeHub, strip', stripActive', shown')
  BY <1>2, <1>3 DEF Surface
<1>5. /\ Coherent' /\ Places
      /\ \A t \in AllTabs \ AllTabs' : t \in Ids(strip) \ Ids(strip')
      /\ Ids(strip) \subseteq Ids(strip') => Losses
  BY <1>1, <1>2, <1>4, SurfaceStep
<1>6. QED
  BY <1>2, <1>5

LEMMA HomeOnly ==
  ASSUME NEW n, NEW all, LiveModel(all, n), NEW hub \in DOMAIN all, NEW home
  PROVE  LET next == [all EXCEPT ![hub].home = home]
         IN  /\ \A h \in DOMAIN all : next[h].tabs = all[h].tabs
             /\ next[hub].home = home
<1> DEFINE next == [all EXCEPT ![hub].home = home]
<1>1. \A h \in DOMAIN all : h # hub => next[h] = all[h]
  OBVIOUS
<1>2. next[hub] = [all[hub] EXCEPT !.home = home]
  OBVIOUS
<1>3. LiveWorkspace(hub, all[hub], n)
  BY DEF LiveModel
<1> HIDE DEF next
<1>4. next[hub].tabs = all[hub].tabs /\ next[hub].home = home
  BY <1>2, <1>3 DEF LiveWorkspace
<1>5. QED
  BY <1>1, <1>4 DEF next

LEMMA OpenMarkdownStep ==
  ASSUME LiveInv, Coherent, NEW u \in Openable, NEW home \in BOOLEAN, OpenMarkdown(u, home)
  PROVE  GoodStep
<1>1. u \in Uris /\ activeHub' = activeHub
  BY LiveFacts DEF OpenMarkdown
<1>2. CASE HomeMode(u, home) /\ activeHub \in DOMAIN workspaces
  <2> DEFINE h   == workspaces[activeHub].home
             all == [workspaces EXCEPT ![activeHub].home = Push(h, u)]
  <2>1. h \in LiveHistories /\ h.entries[1] = activeHub
    BY <1>2, LiveFacts, LiveWorkspaceParts
  <2>2. Fits(h, u) /\ ShowOnHome(all, activeHub, strip, u)
    BY <1>2 DEF OpenMarkdown
  <2>3. Push(h, u) \in LiveHistories /\ Push(h, u).entries[1] = activeHub
    BY <1>1, <2>1, <2>2, PushLive
  <2>4. Current(Push(h, u)) = u
    BY <1>1, <2>1, PushCurrent
  <2> HIDE DEF h
  <2>5. LiveModel(all, opened) /\ DOMAIN all = DOMAIN workspaces
    BY <1>2, <2>3, LiveFacts, HomeReplaced
  <2>6. (\A g \in DOMAIN workspaces : all[g].tabs = workspaces[g].tabs)
        /\ all[activeHub].home = Push(h, u)
    BY <1>2, LiveFacts, HomeOnly
  <2> HIDE DEF all
  <2>7. u = Current(all[activeHub].home)
    BY <2>4, <2>6
  <2>8. Ids(all[activeHub].tabs) \subseteq Ids(strip)
    BY <1>2, <2>6, LiveFacts, CoherentFacts
  <2>9. strip \in Strips(opened)
    BY LiveFacts
  <2>10. Coherent' /\ Places /\ Losses
    BY <1>1, <2>2, <2>5, <2>6, <2>7, <2>8, <2>9, OnHomeStep
  <2>11. QED
    BY <2>10 DEF GoodStep
<1>3. CASE HomeMode(u, home) /\ activeHub \notin DOMAIN workspaces
  <2>1. ShowOnHome(workspaces, activeHub, strip, u) /\ activeHub = NoUri
    BY <1>3, LiveFacts DEF OpenMarkdown
  <2>2. Coherent' /\ Places /\ Losses
    BY <1>1, <1>3, <2>1, LiveFacts, OnHomeStep
  <2>3. QED
    BY <2>2 DEF GoodStep
<1>4. CASE ~HomeMode(u, home)
  <2>1. /\ \A i \in DOMAIN strip : Fits(strip[i].history, u)
        /\ ShowInTab(workspaces, activeHub, strip, stripActive, u, FALSE)
    BY <1>4 DEF OpenMarkdown
  <2>2. SurfaceLive' /\ SurfaceLive /\ strip \in Strips(opened) /\ LiveModel(workspaces, opened)
    BY <1>1, <2>1, LiveFacts, InTabLive
  <2>3. InTab(workspaces, activeHub, strip, stripActive, u)
    BY <1>1, <2>1, <2>2, ShownInTab
  <2>4. activeHub \in DOMAIN workspaces => Ids(workspaces[activeHub].tabs) \subseteq Ids(strip)
    BY LiveFacts, CoherentFacts
  <2>5. Coherent' /\ Places /\ Losses
    BY <1>1, <2>2, <2>3, <2>4, InTabStep
  <2>6. QED
    BY <2>5 DEF GoodStep
<1>5. QED
  BY <1>2, <1>3, <1>4

\* A new tab has the id given last and the note it was opened with.
LEMMA AddedTabHistories ==
  ASSUME LiveInv, NEW u \in Uris, NEW at \in 1..Len(strip) + 1
  PROVE  LET s == InsertAt(strip, at, Tab(opened + 1, u))
         IN  /\ Ids(s) = Ids(strip) \cup {opened + 1}
             /\ HistoryOf(s, opened + 1) = History(u)
             /\ \A t \in Ids(strip) : HistoryOf(s, t) = HistoryOf(strip, t)
<1> DEFINE n   == opened + 1
           tab == Tab(n, u)
<1>1. opened \in Nat /\ n \in Nat /\ opened <= n /\ strip \in Strips(opened)
  BY LiveFacts
<1>2. strip \in Strips(n) /\ Ids(strip) \subseteq 1..opened
  BY <1>1, StripsGrow, LiveFacts, StripTypes
<1>3. tab \in LiveTabs(n) /\ tab.id = n /\ tab.history = History(u)
  BY <1>1, NewTab DEF Tab
<1>4. n \notin Ids(strip)
  BY <1>1, <1>2
<1> HIDE DEF n, tab
<1>5. /\ HistoryOf(InsertAt(strip, at, tab), tab.id) = tab.history
      /\ \A t \in Ids(strip) : HistoryOf(InsertAt(strip, at, tab), t) = HistoryOf(strip, t)
  BY <1>1, <1>2, <1>3, <1>4, InsertedHistories
<1>6. Ids(InsertAt(strip, at, tab)) = Ids(strip) \cup {n}
  BY <1>1, <1>2, <1>3, <1>4, InsertedTab
<1>7. QED
  BY <1>3, <1>5, <1>6 DEF n, tab

LEMMA OpenNewTabStep ==
  ASSUME LiveInv, Coherent, NEW u \in Openable, NEW at \in 1..Len(strip) + 1, OpenNewTab(u, at)
  PROVE  GoodStep
<1>1. u \in Uris /\ LiveInv'
  BY LiveFacts, OpenNewTabLive
<1>2. SurfaceLive' /\ opened \in Nat /\ opened' = opened + 1 /\ opened' \in Nat /\ opened <= opened'
  BY <1>1, LiveFacts DEF LiveInv, OpenNewTab
<1>3. /\ Ids(strip') = Ids(strip) \cup {opened + 1} /\ HistoryOf(strip', opened + 1) = History(u)
      /\ \A t \in Ids(strip) : HistoryOf(strip', t) = HistoryOf(strip, t)
  BY <1>1, AddedTabHistories DEF OpenNewTab
<1>4. /\ stripActive' = opened + 1 /\ shown' = u /\ activeHub' = activeHub
      /\ workspaces' = Mirrored(workspaces, activeHub, strip', stripActive')
  BY DEF OpenNewTab
<1>5. shown' = Surface(workspaces, activeHub, strip', stripActive', shown')
  BY <1>1, <1>3, <1>4, UriOfHistory, CurrentOfNew DEF Surface
<1>6. LiveModel(workspaces, opened')
  BY <1>2, LiveFacts, LiveModelGrows
<1>7. activeHub \in DOMAIN workspaces => Ids(workspaces[activeHub].tabs) \subseteq Ids(strip)
  BY LiveFacts, CoherentFacts
<1>8. Coherent' /\ Places /\ Losses
  BY <1>2, <1>3, <1>4, <1>5, <1>6, <1>7, SurfaceStep
<1>9. QED
  BY <1>8 DEF GoodStep

\* The surface on which no tab is added shows what it showed.
LEMMA OpenBackgroundTabStep ==
  ASSUME LiveInv, Coherent, NEW u \in Openable, NEW at \in 1..Len(strip) + 1,
         OpenBackgroundTab(u, at)
  PROVE  GoodStep
<1>1. u \in Uris /\ LiveInv'
  BY LiveFacts, OpenBackgroundTabLive
<1>2. SurfaceLive' /\ opened \in Nat /\ opened' = opened + 1 /\ opened' \in Nat /\ opened <= opened'
  BY <1>1, LiveFacts DEF LiveInv, OpenBackgroundTab
<1>3. /\ Ids(strip') = Ids(strip) \cup {opened + 1}
      /\ \A t \in Ids(strip) : HistoryOf(strip', t) = HistoryOf(strip, t)
  BY <1>1, AddedTabHistories DEF OpenBackgroundTab
<1>4. /\ stripActive' = stripActive /\ shown' = shown /\ activeHub' = activeHub
      /\ workspaces' = Mirrored(workspaces, activeHub, strip', stripActive')
      /\ waiting' = waiting
  BY DEF OpenBackgroundTab
<1>5. stripActive \in {NoTab} \cup Ids(strip) /\ NoTab \notin Ids(strip)
  BY CoherentFacts
<1>6. stripActive \in Ids(strip) <=> stripActive \in Ids(strip')
  BY <1>2, <1>3, <1>5 DEF NoTab
<1>7. Surface(workspaces, activeHub, strip', stripActive', shown')
        = Surface(workspaces, activeHub, strip, stripActive, shown)
  BY <1>3, <1>4, <1>6, UriOfHistory DEF Surface
<1>8. Switching' \/ shown' = NoUri
      \/ shown' = Surface(workspaces, activeHub, strip', stripActive', shown')
  BY <1>4, <1>7, CoherentFacts DEF Switching
<1>9. LiveModel(workspaces, opened')
  BY <1>2, LiveFacts, LiveModelGrows
<1>10. activeHub \in DOMAIN workspaces => Ids(workspaces[activeHub].tabs) \subseteq Ids(strip)
  BY LiveFacts, CoherentFacts
<1>11. stripActive' \in {NoTab} \cup Ids(strip')
  BY <1>3, <1>4, <1>5
<1>12. Coherent' /\ Places /\ Losses
  BY <1>2, <1>3, <1>4, <1>8, <1>9, <1>10, <1>11, SurfaceStep
<1>13. QED
  BY <1>12 DEF GoodStep

LEMMA ActivateOpenTabStep ==
  ASSUME LiveInv, Coherent, NEW t \in TabIds, ActivateOpenTab(t)
  PROVE  GoodStep
<1>1. /\ t \in Ids(strip) /\ activeHub' = activeHub
      /\ ShowInTab(workspaces, activeHub, strip, t, UriOf(strip, t), TRUE)
  BY DEF ActivateOpenTab
<1>2. UriOf(strip, t) \in Uris /\ EnsureActive(strip, t) = t
  BY <1>1, LiveFacts, UriOfTab, EnsuredActive
<1>3. SurfaceLive' /\ SurfaceLive /\ strip \in Strips(opened) /\ LiveModel(workspaces, opened)
  BY <1>1, <1>2, LiveFacts, InTabLive
<1>4. InTab(workspaces, activeHub, strip, t, UriOf(strip, t))
  BY <1>1, <1>2, <1>3, ShownInTab
<1>5. activeHub \in DOMAIN workspaces => Ids(workspaces[activeHub].tabs) \subseteq Ids(strip)
  BY LiveFacts, CoherentFacts
<1>6. Coherent' /\ Places /\ Losses
  BY <1>1, <1>3, <1>4, <1>5, InTabStep
<1>7. QED
  BY <1>6 DEF GoodStep

\* A step that changes the tabs and not what is shown.
LEMMA SameStep ==
  ASSUME LiveInv, Coherent, activeHub' = activeHub,
         NEW all, DOMAIN all = DOMAIN workspaces,
         \A h \in DOMAIN all : h # activeHub => all[h].tabs = workspaces[h].tabs,
         NEW tabs, Ids(tabs) \subseteq Ids(strip),
         activeHub \in DOMAIN all => all[activeHub].tabs = tabs,
         NEW id \in {NoTab} \cup Ids(tabs), ShowSame(all, tabs, id),
         \A t \in Ids(tabs) : HistoryOf(tabs, t) = HistoryOf(strip, t),
         \/ Switching' \/ shown = NoUri
         \/ /\ shown = Surface(all, activeHub, tabs, id, shown)
            /\ activeHub # NoUri => id = all[activeHub].active
  PROVE  /\ Coherent' /\ Places
         /\ \A t \in AllTabs \ AllTabs' : t \in Ids(strip) \ Ids(tabs)
         /\ Ids(strip) \subseteq Ids(tabs) => Losses
<1>1. /\ strip' = tabs /\ stripActive' = id /\ workspaces' = all /\ shown' = shown
  BY DEF ShowSame
<1>2. Apart(all)
  <2>1. ASSUME NEW g \in DOMAIN all, NEW h \in DOMAIN all, g # h
        PROVE  Ids(all[g].tabs) \cap Ids(all[h].tabs) = {}
    <3>1. Ids(workspaces[g].tabs) \cap Ids(workspaces[h].tabs) = {}
      BY <2>1, CoherentFacts DEF Apart
    <3>2. activeHub \in DOMAIN all => workspaces[activeHub].tabs = strip
      BY LiveFacts, CoherentFacts
    <3>3. QED
      BY <2>1, <3>1, <3>2
  <2>2. QED
    BY <2>1 DEF Apart
<1>3. Agree(all, activeHub, tabs, id, shown, Switching')
  BY <1>2, LiveFacts DEF Agree
<1>4. Coherent'
  BY <1>1, <1>3 DEF Coherent
<1>5. Places
  <2>1. ASSUME NEW h \in DOMAIN workspaces
        PROVE  KeepsPlace(workspaces[h].tabs, all[h].tabs, id)
    <3>1. CASE h # activeHub
      BY <3>1, KeepsSame
    <3>2. CASE h = activeHub
      <4>1. workspaces[h].tabs = strip /\ all[h].tabs = tabs
        BY <3>2, LiveFacts, CoherentFacts
      <4>2. KeepsPlace(strip, tabs, id)
        BY KeepsSame
      <4>3. QED
        BY <4>1, <4>2
    <3>3. QED
      BY <3>1, <3>2
  <2>2. QED
    BY <1>1, <2>1 DEF Places
<1>6. \A t \in AllTabs \ AllTabs' : t \in Ids(strip) \ Ids(tabs)
  BY <1>1, CoherentFacts DEF AllTabs
<1>7. QED
  BY <1>4, <1>5, <1>6 DEF Losses

LEMMA TabsOnly ==
  ASSUME NEW n, NEW all, LiveModel(all, n), NEW hub \in DOMAIN all, NEW tabs
  PROVE  LET next == [all EXCEPT ![hub].tabs = tabs]
         IN  /\ \A h \in DOMAIN all : h # hub => next[h] = all[h]
             /\ next[hub].tabs = tabs /\ next[hub].home = all[hub].home
             /\ next[hub].active = all[hub].active
<1> DEFINE next == [all EXCEPT ![hub].tabs = tabs]
<1>1. \A h \in DOMAIN all : h # hub => next[h] = all[h]
  OBVIOUS
<1>2. next[hub] = [all[hub] EXCEPT !.tabs = tabs]
  OBVIOUS
<1>3. LiveWorkspace(hub, all[hub], n)
  BY DEF LiveModel
<1> HIDE DEF next
<1>4. /\ next[hub].tabs = tabs /\ next[hub].home = all[hub].home
      /\ next[hub].active = all[hub].active
  BY <1>2, <1>3 DEF LiveWorkspace
<1>5. QED
  BY <1>1, <1>4 DEF next

LEMMA ReorderStep ==
  ASSUME LiveInv, Coherent, NEW from \in 1..MaxTabs + 1, NEW before \in 1..MaxTabs + 1,
         Reorder(from, before)
  PROVE  GoodStep
<1> DEFINE at   == IF from < before THEN before - 1 ELSE before
           tabs == InsertAt(TabsWithout(strip, strip[from].id), at, strip[from])
           all  == [workspaces EXCEPT ![activeHub].tabs = tabs]
<1>1. /\ activeHub \in DOMAIN workspaces /\ activeHub # NoUri /\ ActiveTabs = strip
      /\ activeHub' = activeHub
  BY LiveFacts, CoherentFacts DEF Reorder
<1>2. strip \in Strips(opened) /\ from \in DOMAIN strip /\ before \in 1..Len(strip) + 1
  BY <1>1, LiveFacts DEF Reorder
<1>3. Len(strip) \in Nat /\ DOMAIN strip = 1..Len(strip)
  BY <1>2 DEF Strips
<1>4. ShowSame(all, tabs, stripActive) /\ waiting' = waiting
  BY <1>1 DEF Reorder
<1>5. at \in 1..Len(strip)
  BY <1>2, <1>3
<1> HIDE DEF at
<1>6. Ids(tabs) = Ids(strip) /\ \A t \in Ids(strip) : HistoryOf(tabs, t) = HistoryOf(strip, t)
  BY <1>2, <1>5, LiveFacts, DraggedTab, DraggedHistories
<1> HIDE DEF tabs
<1>7. /\ DOMAIN all = DOMAIN workspaces
      /\ \A h \in DOMAIN all : h # activeHub => all[h].tabs = workspaces[h].tabs
      /\ all[activeHub].tabs = tabs /\ all[activeHub].home = workspaces[activeHub].home
      /\ all[activeHub].active = workspaces[activeHub].active
  BY <1>1, LiveFacts, TabsOnly
<1> HIDE DEF all
<1>8. stripActive \in {NoTab} \cup Ids(tabs)
  BY <1>6, CoherentFacts
<1>9. Surface(all, activeHub, tabs, stripActive, shown)
        = Surface(workspaces, activeHub, strip, stripActive, shown)
  BY <1>6, <1>7, UriOfHistory DEF Surface
<1>10. \/ Switching' \/ shown = NoUri
       \/ /\ shown = Surface(all, activeHub, tabs, stripActive, shown)
          /\ activeHub # NoUri => stripActive = all[activeHub].active
  BY <1>4, <1>7, <1>9, CoherentFacts DEF Switching
<1>11. Coherent' /\ Places /\ Losses
  BY <1>1, <1>4, <1>6, <1>7, <1>8, <1>10, SameStep
<1>12. QED
  BY <1>11 DEF GoodStep

LEMMA HistoryStepStep ==
  ASSUME LiveInv, Coherent, NEW step \in {-1, 1}, HistoryStep(step)
  PROVE  GoodStep
<1>1. activeHub' = activeHub
  BY DEF HistoryStep
<1>2. CASE stripActive = NoTab
  <2> DEFINE i    == workspaces[activeHub].home.index + step
             home == [workspaces[activeHub].home EXCEPT !.index = i]
             all  == [workspaces EXCEPT ![activeHub].home.index = @ + step]
  <2>1. /\ activeHub \in DOMAIN workspaces /\ i \in DOMAIN workspaces[activeHub].home.entries
        /\ ShowOnHome(all, activeHub, strip, Current(all[activeHub].home))
    BY <1>2 DEF HistoryStep
  <2>2. all = [workspaces EXCEPT ![activeHub].home.index = i]
    OBVIOUS
  <2> HIDE DEF i, all
  <2>3. /\ LiveModel(all, opened) /\ DOMAIN all = DOMAIN workspaces
        /\ all = [workspaces EXCEPT ![activeHub].home = home]
    BY <2>1, <2>2, LiveFacts, HomeMoved
  <2> HIDE DEF home
  <2>4. \A h \in DOMAIN workspaces : all[h].tabs = workspaces[h].tabs
    BY <2>1, <2>3, LiveFacts, HomeOnly
  <2>5. Current(all[activeHub].home) \in Uris
    BY <2>1, <2>3, LiveWorkspaceParts
  <2>6. Ids(all[activeHub].tabs) \subseteq Ids(strip) /\ strip \in Strips(opened)
    BY <2>1, <2>4, LiveFacts, CoherentFacts
  <2>7. Coherent' /\ Places /\ Losses
    BY <1>1, <2>1, <2>3, <2>4, <2>5, <2>6, OnHomeStep
  <2>8. QED
    BY <2>7 DEF GoodStep
<1>3. CASE stripActive # NoTab
  <2> DEFINE h    == strip[Position(strip, stripActive)].history
             tabs == Moved(strip, stripActive, step)
             u    == h.entries[h.index + step]
  <2>1. /\ stripActive \in Ids(strip) /\ h.index + step \in DOMAIN h.entries
        /\ ShowInTab(workspaces, activeHub, tabs, stripActive, u, TRUE)
    BY <1>3 DEF HistoryStep
  <2>2. h \in LiveHistories /\ h = HistoryOf(strip, stripActive)
    BY <2>1, LiveFacts, PositionOfTab, TabOfStrip DEF HistoryOf
  <2>3. u \in Uris
    <3> HIDE DEF h
    <3>1. h.entries \in Seq(Uris)
      BY <2>2 DEF LiveHistories
    <3>2. QED
      BY <2>1, <3>1
  <2>4. tabs \in Strips(opened) /\ Ids(tabs) = Ids(strip)
    BY <2>1, LiveFacts, MovedTabs
  <2>5. /\ \A k \in Ids(strip) \ {stripActive} : HistoryOf(tabs, k) = HistoryOf(strip, k)
        /\ Current(HistoryOf(tabs, stripActive)) =
             HistoryOf(strip, stripActive).entries[HistoryOf(strip, stripActive).index + step]
    BY <2>1, LiveFacts, MovedHistories
  <2> HIDE DEF tabs
  <2>6. UriOf(tabs, stripActive) = u
    BY <2>2, <2>5, UriOfHistory
  <2> HIDE DEF h, u
  <2>7. EnsureActive(tabs, stripActive) = stripActive
    BY <2>1, <2>4, LiveFacts, EnsuredActive
  <2>8. SurfaceLive' /\ SurfaceLive /\ LiveModel(workspaces, opened)
    BY <2>1, <2>3, <2>4, LiveFacts, InTabLive
  <2>9. InTab(workspaces, activeHub, tabs, stripActive, u)
    BY <2>1, <2>3, <2>4, <2>6, <2>7, <2>8, ShownInTab
  <2>10. activeHub \in DOMAIN workspaces => Ids(workspaces[activeHub].tabs) \subseteq Ids(strip)
    BY LiveFacts, CoherentFacts
  <2>11. \A t \in Ids(tabs) : HistoryOf(tabs, t) = HistoryOf(strip, t) \/ t = stripActive
    BY <2>4, <2>5
  <2>12. Coherent' /\ Places /\ Losses
    BY <1>1, <2>4, <2>8, <2>9, <2>10, <2>11, InTabStep
  <2>13. QED
    BY <2>12 DEF GoodStep
<1>4. QED
  BY <1>2, <1>3

LEMMA HomeSelectorStep ==
  ASSUME LiveInv, Coherent, HomeSelector
  PROVE  GoodStep
<1> DEFINE home  == [workspaces[activeHub].home EXCEPT !.index = 1]
           first == [workspaces EXCEPT ![activeHub].home.index = 1]
           all   == IF stripActive # NoTab THEN workspaces ELSE first
<1>1. /\ activeHub \in DOMAIN workspaces /\ activeHub' = activeHub
      /\ ShowOnHome(all, activeHub, strip, Current(all[activeHub].home))
  BY DEF HomeSelector
<1>2. 1 \in DOMAIN workspaces[activeHub].home.entries
  BY <1>1, LiveFacts, LiveWorkspaceParts DEF LiveHistories
<1>3. /\ LiveModel(first, opened) /\ DOMAIN first = DOMAIN workspaces
      /\ first = [workspaces EXCEPT ![activeHub].home = home]
  BY <1>1, <1>2, LiveFacts, HomeMoved
<1> HIDE DEF first, home
<1>4. \A h \in DOMAIN workspaces : first[h].tabs = workspaces[h].tabs
  BY <1>1, <1>3, LiveFacts, HomeOnly
<1>5. /\ LiveModel(all, opened) /\ DOMAIN all = DOMAIN workspaces
      /\ \A h \in DOMAIN workspaces : all[h].tabs = workspaces[h].tabs
  BY <1>3, <1>4, LiveFacts
<1> HIDE DEF all
<1>6. Current(all[activeHub].home) \in Uris
  BY <1>1, <1>5, LiveWorkspaceParts
<1>7. Ids(all[activeHub].tabs) \subseteq Ids(strip) /\ strip \in Strips(opened)
  BY <1>1, <1>5, LiveFacts, CoherentFacts
<1>8. Coherent' /\ Places /\ Losses
  BY <1>1, <1>5, <1>6, <1>7, OnHomeStep
<1>9. QED
  BY <1>8 DEF GoodStep

LEMMA CloseAllStep ==
  ASSUME LiveInv, Coherent, CloseAll
  PROVE  GoodStep
<1>1. <<>> \in Strips(opened) /\ Ids(<<>>) = {}
  BY EmptyStrip
<1>2. Losses
  BY DEF Losses, Closes
<1>3. activeHub' = activeHub
  BY DEF CloseAll
<1>4. CASE activeHub \in DOMAIN workspaces
  <2>1. HomeUri(workspaces, activeHub) = Current(workspaces[activeHub].home)
        /\ HomeUri(workspaces, activeHub) \in Uris
    BY <1>4, LiveFacts, LiveWorkspaceParts DEF HomeUri
  <2>2. ShowOnHome(workspaces, activeHub, <<>>, HomeUri(workspaces, activeHub))
    BY <1>4 DEF CloseAll
  <2>3. Ids(workspaces[activeHub].tabs) \subseteq Ids(strip)
    BY <1>4, LiveFacts, CoherentFacts
  <2>4. Coherent' /\ Places
    BY <1>1, <1>3, <2>1, <2>2, <2>3, LiveFacts, OnHomeStep
  <2>5. QED
    BY <1>2, <2>4 DEF GoodStep
<1>5. CASE activeHub \notin DOMAIN workspaces
  <2>1. activeHub = NoUri /\ DOMAIN workspaces = {}
    BY <1>5, LiveFacts
  <2>2. strip' = <<>> /\ stripActive' = NoTab /\ workspaces' = workspaces /\ shown' = NoUri
    BY <1>5 DEF CloseAll, ShowNothing
  <2>3. Coherent'
    BY <1>3, <2>1, <2>2 DEF Coherent, Agree, Apart
  <2>4. Places
    BY <2>1 DEF Places
  <2>5. QED
    BY <1>2, <2>3, <2>4 DEF GoodStep
<1>6. QED
  BY <1>4, <1>5

LEMMA StillStep ==
  ASSUME LiveInv, Coherent, UNCHANGED <<modelVars, stripVars>>, Switching => Switching'
  PROVE  GoodStep
<1>1. UNCHANGED <<workspaces, activeHub, strip, stripActive, shown>>
  BY DEF modelVars, stripVars
<1>2. Agree(workspaces, activeHub, strip, stripActive, shown, Switching')
  BY DEF Coherent, Agree
<1>3. Coherent'
  BY <1>1, <1>2 DEF Coherent
<1>4. Places
  BY <1>1, KeepsSame DEF Places
<1>5. AllTabs' = AllTabs
  BY <1>1 DEF AllTabs
<1>6. QED
  BY <1>3, <1>4, <1>5 DEF GoodStep, Losses

LEMMA CloseRequestStep ==
  ASSUME LiveInv, Coherent, NEW kind \in {"close", "closeOther"}, NEW t \in TabIds,
         CloseRequest(kind, t)
  PROVE  GoodStep
<1>1. Switching => Switching'
  BY DEF Switching, CloseRequest
<1>2. QED
  BY <1>1, StillStep DEF CloseRequest

LEMMA SwitchRequestStep ==
  ASSUME LiveInv, Coherent, NEW h \in Hubs, SwitchRequest(h)
  PROVE  GoodStep
<1>1. Switching => Switching'
  BY DEF Switching, SwitchRequest
<1>2. QED
  BY <1>1, StillStep DEF SwitchRequest

LEMMA VaultStep ==
  ASSUME LiveInv, Coherent, (\E h \in Hubs : HubChanged(h)) \/ ScanStart \/ ScanEnd
  PROVE  GoodStep
<1>1. UNCHANGED <<modelVars, stripVars, waiting>>
  BY DEF HubChanged, ScanStart, ScanEnd
<1>2. Switching => Switching'
  BY <1>1 DEF Switching
<1>3. QED
  BY <1>1, <1>2, StillStep

LEMMA SameIdListWithout ==
  ASSUME NEW n \in Nat, NEW a \in Strips(n), NEW b, IdList(a) = IdList(b), NEW t
  PROVE  IdList(TabsWithout(a, t)) = IdList(TabsWithout(b, t))
<1> DEFINE S(s) == {i \in DOMAIN s : s[i].id # t}
<1>1. DOMAIN a = DOMAIN b /\ \A i \in DOMAIN a : a[i].id = b[i].id
  <2>1. DOMAIN IdList(a) = DOMAIN a /\ DOMAIN IdList(b) = DOMAIN b
    BY DEF IdList
  <2>2. (\A i \in DOMAIN a : a[i].id = IdList(a)[i]) /\ (\A i \in DOMAIN b : b[i].id = IdList(b)[i])
    BY DEF IdList
  <2>3. QED
    BY <2>1, <2>2
<1>2. S(a) = S(b)
  BY <1>1
<1> DEFINE m == Cardinality(S(a))
<1>3. TabsWithout(a, t) = [i \in 1..m |-> a[Nth(S(a), i)]]
  BY DEF TabsWithout, Pick
<1>4. TabsWithout(b, t) = [i \in 1..m |-> b[Nth(S(a), i)]]
  BY <1>2 DEF TabsWithout, Pick
<1> HIDE DEF m
<1>5. IdList(TabsWithout(a, t)) = [i \in 1..m |-> a[Nth(S(a), i)].id]
  BY <1>3 DEF IdList
<1>6. IdList(TabsWithout(b, t)) = [i \in 1..m |-> b[Nth(S(a), i)].id]
  BY <1>4 DEF IdList
<1>7. \A i \in 1..m : Nth(S(a), i) \in DOMAIN a
  <2>1. Len(a) \in Nat /\ DOMAIN a = 1..Len(a) /\ S(a) \in SUBSET (1..Len(a))
    BY DEF Strips
  <2>2. QED
    BY <2>1, NthExists DEF m
<1>8. QED
  BY <1>1, <1>5, <1>6, <1>7

LEMMA ClosedTabParts ==
  ASSUME LiveInv, Coherent, NEW t \in Ids(strip)
  PROVE  /\ DOMAIN ClosedTab(t) = DOMAIN workspaces
         /\ \A h \in DOMAIN workspaces : h # activeHub => ClosedTab(t)[h] = workspaces[h]
         /\ activeHub \in DOMAIN workspaces =>
              /\ ClosedTab(t)[activeHub].tabs = TabsWithout(strip, t)
              /\ ClosedTab(t)[activeHub].home = workspaces[activeHub].home
              /\ workspaces[activeHub].active # t =>
                   ClosedTab(t)[activeHub].active = workspaces[activeHub].active
<1>1. CASE activeHub \in DOMAIN workspaces
  <2> DEFINE old  == workspaces[activeHub]
             rest == TabsWithout(strip, t)
             at   == IF old.active = t THEN Neighbor(strip, t) ELSE old.active
             ws   == [[old EXCEPT !.tabs = rest] EXCEPT !.active = at]
  <2>1. ActiveTabs = strip /\ old.tabs = strip
    BY <1>1, LiveFacts, CoherentFacts
  <2>2. ClosedTab(t) = [workspaces EXCEPT ![activeHub] = ws]
    BY <1>1, <2>1 DEF ClosedTab
  <2>3. LiveWorkspace(activeHub, old, opened)
    BY <1>1, LiveFacts, LiveWorkspaceParts
  <2> HIDE DEF rest
  <2>4. ws.tabs = rest /\ ws.home = old.home /\ ws.active = at
    BY <2>3 DEF LiveWorkspace
  <2> HIDE DEF ws
  <2>5. QED
    BY <1>1, <2>2, <2>4 DEF rest
<1>2. CASE activeHub \notin DOMAIN workspaces
  <2>1. ClosedTab(t) = workspaces
    BY <1>2, EmptyStrip DEF ClosedTab, ActiveTabs
  <2>2. QED
    BY <1>2, <2>1
<1>3. QED
  BY <1>1, <1>2

LEMMA CloseFinishStep ==
  ASSUME LiveInv, Coherent, NEW c \in waiting, CloseFinish(c), ~strayed'
  PROVE  GoodStep
<1> DEFINE t     == c.tab
           rest  == TabsWithout(c.before, t)
           all   == ClosedTab(t)
           model == IF activeHub \in DOMAIN all THEN all[activeHub].tabs ELSE rest
           tabs  == IF IdList(model) = IdList(rest) THEN model ELSE rest
           next  == Neighbor(c.before, t)
           left  == TabsWithout(strip, t)
<1>1. /\ t \in TabIds /\ c.before \in Strips(opened) /\ t \in Ids(c.before)
      /\ c.kind = "close" /\ c.wasActive \in BOOLEAN
  BY ClosingFacts DEF CloseFinish
<1>2. /\ IdList(c.before) = IdList(strip)
      /\ activeHub \notin DOMAIN workspaces => c.before = strip
      /\ ~c.wasActive => stripActive # t
  BY <1>1 DEF CloseFinish, Late
<1>3. /\ IF ~c.wasActive THEN ShowSame(all, tabs, stripActive)
         ELSE IF next # NoTab
         THEN ShowInTab(all, activeHub, tabs, next, UriOf(tabs, next), TRUE)
         ELSE IF activeHub # NoUri
         THEN ShowOnHome(all, activeHub, tabs, HomeUri(all, activeHub))
         ELSE ShowNothing(all, tabs)
      /\ waiting' = waiting \ {c} /\ activeHub' = activeHub
  BY DEF CloseFinish
<1>4. Ids(c.before) = Ids(strip) /\ IdList(rest) = IdList(left)
  BY <1>1, <1>2, LiveFacts, SameIdList, SameIdListWithout
<1>5. LiveModel(all, opened) /\ DOMAIN all = DOMAIN workspaces
  BY <1>1, ClosedTabLive
<1>6. /\ \A h \in DOMAIN workspaces : h # activeHub => all[h] = workspaces[h]
      /\ activeHub \in DOMAIN workspaces =>
           /\ all[activeHub].tabs = left /\ all[activeHub].home = workspaces[activeHub].home
           /\ workspaces[activeHub].active # t =>
                all[activeHub].active = workspaces[activeHub].active
  BY <1>1, <1>4, ClosedTabParts
<1>7. next \in {NoTab} \cup (Ids(strip) \ {t})
  BY <1>1, <1>4, LiveFacts, NeighborOfTab
<1>8. left \in Strips(opened) /\ Ids(left) = Ids(strip) \ {t}
      /\ \A k \in Ids(left) : HistoryOf(left, k) = HistoryOf(strip, k)
  BY LiveFacts, TabTakenOut, TakenOutHistories
<1> HIDE DEF all, next
<1>9. tabs = left
  <2>1. CASE activeHub \in DOMAIN workspaces
    <3>1. model = left
      BY <1>5, <1>6, <2>1
    <3>2. QED
      BY <1>4, <3>1
  <2>2. CASE activeHub \notin DOMAIN workspaces
    <3>1. rest = left
      BY <1>2, <2>2
    <3>2. model = rest
      BY <1>5, <2>2
    <3>3. QED
      BY <3>1, <3>2
  <2>3. QED
    BY <2>1, <2>2
<1> HIDE DEF tabs, model, rest, left
<1>10. Ids(tabs) = Ids(strip) \ {t} /\ Ids(tabs) \subseteq Ids(strip) /\ tabs \in Strips(opened)
       /\ \A k \in Ids(tabs) : HistoryOf(tabs, k) = HistoryOf(strip, k)
  BY <1>8, <1>9
<1>11. /\ \A h \in DOMAIN all : h # activeHub => all[h].tabs = workspaces[h].tabs
       /\ activeHub \in DOMAIN all => /\ all[activeHub].tabs = tabs
                                      /\ Ids(all[activeHub].tabs) \subseteq Ids(strip)
  BY <1>5, <1>6, <1>9, <1>10
<1> HIDE DEF t
<1>12. /\ Coherent' /\ Places
       /\ \A k \in AllTabs \ AllTabs' : k \in Ids(strip) \ Ids(tabs)
  <2>1. CASE ~c.wasActive
    <3>1. ShowSame(all, tabs, stripActive) /\ stripActive # t
      BY <1>2, <1>3, <2>1 DEF t
    <3>2. stripActive \in {NoTab} \cup Ids(tabs) /\ (stripActive \in Ids(tabs) <=> stripActive \in Ids(strip))
      BY <1>10, <3>1, CoherentFacts
    <3>3. Switching => Switching'
      BY <1>1, <1>3 DEF Switching
    <3>4. activeHub # NoUri => activeHub \in DOMAIN workspaces
      BY LiveFacts
    <3>5. Surface(all, activeHub, tabs, stripActive, shown)
            = Surface(workspaces, activeHub, strip, stripActive, shown)
      BY <1>6, <1>10, <3>2, <3>4, UriOfHistory DEF Surface
    <3>6. activeHub # NoUri /\ stripActive = workspaces[activeHub].active
            => stripActive = all[activeHub].active
      BY <1>6, <3>1, <3>4 DEF t
    <3>7. \/ Switching' \/ shown = NoUri
          \/ /\ shown = Surface(all, activeHub, tabs, stripActive, shown)
             /\ activeHub # NoUri => stripActive = all[activeHub].active
      BY <3>3, <3>5, <3>6, CoherentFacts
    <3>8. QED
      BY <1>3, <1>5, <1>10, <1>11, <3>1, <3>2, <3>7, SameStep
  <2>2. CASE c.wasActive /\ next # NoTab
    <3>1. next \in Ids(tabs)
      BY <1>7, <1>10, <2>2 DEF t
    <3>2. UriOf(tabs, next) \in Uris /\ EnsureActive(tabs, next) = next
      BY <1>10, <3>1, LiveFacts, UriOfTab, EnsuredActive
    <3>3. ShowInTab(all, activeHub, tabs, next, UriOf(tabs, next), TRUE)
      BY <1>3, <2>2
    <3>4. SurfaceLive' /\ SurfaceLive
      BY <1>5, <1>10, <3>2, <3>3, LiveFacts, InTabLive
    <3>5. InTab(all, activeHub, tabs, next, UriOf(tabs, next))
      BY <1>10, <3>2, <3>3, <3>4, ShownInTab
    <3>6. QED
      BY <1>3, <1>5, <1>10, <1>11, <3>4, <3>5, InTabStep
  <2>3. CASE c.wasActive /\ next = NoTab /\ activeHub # NoUri
    <3>1. activeHub \in DOMAIN all
      BY <1>5, <2>3, LiveFacts
    <3>2. HomeUri(all, activeHub) \in Uris /\ HomeUri(all, activeHub) = Current(all[activeHub].home)
      BY <1>5, <3>1, LiveWorkspaceParts DEF HomeUri
    <3>3. ShowOnHome(all, activeHub, tabs, HomeUri(all, activeHub))
      BY <1>3, <2>3
    <3>4. QED
      BY <1>3, <1>5, <1>10, <1>11, <3>2, <3>3, OnHomeStep
  <2>4. CASE c.wasActive /\ next = NoTab /\ activeHub = NoUri
    <3>1. DOMAIN workspaces = {} /\ DOMAIN all = {}
      BY <1>5, <2>4, LiveFacts
    <3>2. strip' = tabs /\ stripActive' = NoTab /\ workspaces' = all /\ shown' = NoUri
      BY <1>3, <2>4 DEF ShowNothing
    <3>3. Coherent'
      BY <1>3, <2>4, <3>1, <3>2 DEF Coherent, Agree, Apart
    <3>4. Places
      BY <3>1 DEF Places
    <3>5. \A k \in AllTabs \ AllTabs' : k \in Ids(strip) \ Ids(tabs)
      BY <2>4, <3>2, CoherentFacts DEF AllTabs
    <3>6. QED
      BY <3>3, <3>4, <3>5
  <2>5. QED
    BY <1>1, <2>1, <2>2, <2>3, <2>4
<1>13. Losses
  <2>1. ASSUME NEW k \in AllTabs \ AllTabs' PROVE Closes(k)
    <3>1. k = c.tab
      BY <1>10, <1>12, <2>1 DEF t
    <3>2. c \in waiting \ waiting'
      BY <1>3
    <3>3. QED
      BY <1>1, <3>1, <3>2 DEF Closes
  <2>2. QED
    BY <2>1 DEF Losses
<1>14. QED
  BY <1>12, <1>13 DEF GoodStep

LEMMA CloseOtherShowStep ==
  ASSUME LiveInv, Coherent, NEW c \in waiting, CloseOtherShow(c), ~strayed'
  PROVE  GoodStep
<1>1. /\ c.kind = "closeOther" /\ c.before \in Strips(opened) /\ c.tab \in Ids(c.before)
      /\ c.before = strip /\ activeHub' = activeHub
  BY ClosingFacts DEF CloseOtherShow
<1>2. CASE stripActive = c.tab
  <2>1. UNCHANGED <<modelVars, stripVars>>
    BY <1>2 DEF CloseOtherShow, modelVars, stripVars
  <2>2. Switching => Switching'
    BY <1>1 DEF Switching, CloseOtherShow
  <2>3. QED
    BY <2>1, <2>2, StillStep
<1>3. CASE stripActive # c.tab
  <2> DEFINE u == UriOf(strip, c.tab)
  <2>1. ShowInTab(workspaces, activeHub, strip, c.tab, u, TRUE) /\ c.tab \in Ids(strip)
    BY <1>1, <1>3 DEF CloseOtherShow
  <2>2. u \in Uris /\ EnsureActive(strip, c.tab) = c.tab
    BY <2>1, LiveFacts, UriOfTab, EnsuredActive
  <2>3. SurfaceLive' /\ SurfaceLive /\ strip \in Strips(opened) /\ LiveModel(workspaces, opened)
    BY <2>1, <2>2, LiveFacts, InTabLive
  <2>4. InTab(workspaces, activeHub, strip, c.tab, u)
    BY <2>1, <2>2, <2>3, ShownInTab
  <2>5. activeHub \in DOMAIN workspaces => Ids(workspaces[activeHub].tabs) \subseteq Ids(strip)
    BY LiveFacts, CoherentFacts
  <2> HIDE DEF u
  <2>6. Coherent' /\ Places /\ Losses
    BY <1>1, <2>3, <2>4, <2>5, InTabStep
  <2>7. QED
    BY <2>6 DEF GoodStep
<1>4. QED
  BY <1>2, <1>3

LEMMA CloseOtherFinishStep ==
  ASSUME LiveInv, Coherent, NEW c \in waiting, CloseOtherFinish(c), ~strayed'
  PROVE  GoodStep
<1> DEFINE t    == c.tab
           some == IF t \in Ids(ActiveTabs) THEN ActiveTabs ELSE c.before
           tabs == OnlyTab(strip, t)
           old  == workspaces[activeHub]
           at   == IF old.active = NoTab THEN NoTab ELSE t
           ws   == [[old EXCEPT !.tabs = OnlyTab(old.tabs, t)] EXCEPT !.active = at]
           all  == IF t \notin Ids(ActiveTabs) THEN workspaces
                   ELSE [workspaces EXCEPT ![activeHub] = ws]
<1>1. /\ t \in TabIds /\ c.before \in Strips(opened) /\ t \in Ids(c.before)
      /\ c.kind = "closeRest"
  BY ClosingFacts DEF CloseOtherFinish
<1>2. /\ IdList(c.before) = IdList(strip)
      /\ activeHub \notin DOMAIN workspaces => c.before = strip
      /\ stripActive \in {t, NoTab}
  BY <1>1 DEF CloseOtherFinish, Late
<1>3. /\ ShowSame(all, OnlyTab(some, t), stripActive)
      /\ waiting' = waiting \ {c} /\ activeHub' = activeHub
  BY DEF CloseOtherFinish
<1>4. t \in Ids(strip)
  BY <1>1, <1>2, SameIdList
<1>5. activeHub \in DOMAIN workspaces => ActiveTabs = strip /\ old.tabs = strip
  BY LiveFacts, CoherentFacts
<1>6. activeHub \notin DOMAIN workspaces => Ids(ActiveTabs) = {} /\ activeHub = NoUri
  BY EmptyStrip, LiveFacts DEF ActiveTabs
<1>7. some = strip
  BY <1>2, <1>4, <1>5, <1>6
<1> HIDE DEF some
<1>8. /\ tabs \in Strips(opened) /\ Ids(tabs) = {t}
      /\ \A k \in Ids(tabs) : HistoryOf(tabs, k) = HistoryOf(strip, k)
  BY <1>4, LiveFacts, TabTakenOut, TakenOutHistories
<1>9. /\ DOMAIN all = DOMAIN workspaces
      /\ \A h \in DOMAIN all : h # activeHub => all[h].tabs = workspaces[h].tabs
      /\ activeHub \in DOMAIN workspaces => /\ all[activeHub].tabs = tabs
                                            /\ all[activeHub].home = old.home
                                            /\ all[activeHub].active = at
  <2>1. CASE activeHub \in DOMAIN workspaces
    <3>1. LiveWorkspace(activeHub, old, opened)
      BY <2>1, LiveFacts, LiveWorkspaceParts
    <3>2. all = [workspaces EXCEPT ![activeHub] = ws]
      BY <1>4, <1>5, <2>1
    <3>3. ws.tabs = OnlyTab(old.tabs, t) /\ ws.home = old.home /\ ws.active = at
      BY <3>1 DEF LiveWorkspace
    <3> HIDE DEF ws, all
    <3>4. QED
      BY <1>5, <2>1, <3>2, <3>3
  <2>2. CASE activeHub \notin DOMAIN workspaces
    BY <1>6, <2>2
  <2>3. QED
    BY <2>1, <2>2
<1> HIDE DEF all, tabs, ws
<1>10. ShowSame(all, tabs, stripActive)
  BY <1>3, <1>7 DEF tabs
<1>11. stripActive \in {NoTab} \cup Ids(tabs) /\ (stripActive \in Ids(tabs) <=> stripActive \in Ids(strip))
  BY <1>2, <1>4, <1>8, CoherentFacts
<1>12. Switching => Switching'
  BY <1>1, <1>3 DEF Switching
<1>13. activeHub # NoUri => activeHub \in DOMAIN workspaces
  BY LiveFacts
<1>14. Surface(all, activeHub, tabs, stripActive, shown)
         = Surface(workspaces, activeHub, strip, stripActive, shown)
  BY <1>8, <1>9, <1>11, <1>13, UriOfHistory DEF Surface
<1>15. activeHub # NoUri /\ stripActive = workspaces[activeHub].active
         => stripActive = all[activeHub].active
  BY <1>2, <1>9, <1>13
<1>16. \/ Switching' \/ shown = NoUri
       \/ /\ shown = Surface(all, activeHub, tabs, stripActive, shown)
          /\ activeHub # NoUri => stripActive = all[activeHub].active
  BY <1>12, <1>14, <1>15, CoherentFacts
<1>17. Ids(tabs) \subseteq Ids(strip)
  BY <1>4, <1>8
<1>18. /\ Coherent' /\ Places
       /\ \A k \in AllTabs \ AllTabs' : k \in Ids(strip) \ Ids(tabs)
  BY <1>3, <1>8, <1>9, <1>10, <1>11, <1>16, <1>17, SameStep
<1>19. Losses
  <2>1. ASSUME NEW k \in AllTabs \ AllTabs' PROVE Closes(k)
    <3>1. k # c.tab
      BY <1>8, <1>18, <2>1
    <3>2. c \in waiting \ waiting'
      BY <1>3
    <3>3. QED
      BY <1>1, <3>1, <3>2 DEF Closes
  <2>2. QED
    BY <2>1 DEF Losses
<1>20. QED
  BY <1>18, <1>19 DEF GoodStep

LEMMA ProjectStripStep ==
  ASSUME LiveInv, Coherent, ProjectStrip
  PROVE  GoodStep
<1> DEFINE id == workspaces[activeHub].active
<1>1. /\ activeHub \in DOMAIN workspaces /\ activeHub # NoUri /\ strip = workspaces[activeHub].tabs
      /\ ShowSame(workspaces, strip, id) /\ activeHub' = activeHub /\ waiting' = waiting
  BY LiveFacts, CoherentFacts DEF ProjectStrip
<1>2. id \in {NoTab} \cup Ids(strip)
  BY <1>1, LiveFacts, LiveWorkspaceParts
<1>3. \/ Switching' \/ shown = NoUri
      \/ /\ shown = Surface(workspaces, activeHub, strip, id, shown)
         /\ activeHub # NoUri => id = workspaces[activeHub].active
  BY <1>1, CoherentFacts DEF Switching
<1> HIDE DEF id
<1>4. Coherent' /\ Places /\ Losses
  BY <1>1, <1>2, <1>3, SameStep
<1>5. QED
  BY <1>4 DEF GoodStep

\* The hub that is entered finds its tabs, the one that is left keeps its own.
LEMMA SwitchFinishStep ==
  ASSUME LiveInv, Coherent, NEW c \in waiting, SwitchFinish(c), ~strayed'
  PROVE  GoodStep
<1> DEFINE left == StripKept(c.hub)
           ws   == IF c.hub \in DOMAIN left THEN left[c.hub] ELSE DefaultWorkspace(c.hub)
           all  == [h \in DOMAIN workspaces \cup {c.hub} |->
                      IF h = c.hub THEN ws ELSE left[h]]
<1>1. c.hub \in Hubs /\ c.hub # NoUri
  <2>1. c \in LiveCommands(opened) /\ c.kind = "switch"
    BY DEF LiveInv, SwitchFinish
  <2>2. QED
    BY <2>1, NoUriIsNoHub DEF LiveCommands, LiveClosings
<1>2. /\ ShowOnHome(all, c.hub, ws.tabs, Current(ws.home))
      /\ activeHub' = c.hub /\ ~(activeHub = NoUri /\ strip # <<>>)
  BY DEF SwitchFinish
<1>3. LiveModel(left, opened) /\ DOMAIN left = DOMAIN workspaces
  BY LiveFacts, MirroredLive DEF StripKept
<1>4. \A h \in DOMAIN workspaces : left[h].tabs = workspaces[h].tabs
  BY LiveFacts, CoherentFacts, MirroredParts DEF StripKept
<1> HIDE DEF left
<1>5. LiveWorkspace(c.hub, ws, opened)
  BY <1>1, <1>3, LiveWorkspaceParts, DefaultLive
<1>6. /\ c.hub \in DOMAIN workspaces => ws.tabs = workspaces[c.hub].tabs
      /\ c.hub \notin DOMAIN workspaces => ws.tabs = <<>>
  BY <1>3, <1>4 DEF DefaultWorkspace
<1> HIDE DEF ws
<1>7. LiveModel(all, opened) /\ DOMAIN all = DOMAIN workspaces \cup {c.hub}
  BY <1>1, <1>3, <1>5 DEF LiveModel
<1>8. /\ all[c.hub] = ws
      /\ \A h \in DOMAIN workspaces : all[h].tabs = workspaces[h].tabs
      /\ c.hub \notin DOMAIN workspaces => Ids(all[c.hub].tabs) = {}
  BY <1>4, <1>6, EmptyStrip
<1> HIDE DEF all
<1>9. Apart(all)
  <2>1. ASSUME NEW g \in DOMAIN all, NEW h \in DOMAIN all, g # h
        PROVE  Ids(all[g].tabs) \cap Ids(all[h].tabs) = {}
    <3>1. CASE g \in DOMAIN workspaces /\ h \in DOMAIN workspaces
      BY <1>8, <2>1, <3>1, CoherentFacts DEF Apart
    <3>2. CASE ~(g \in DOMAIN workspaces /\ h \in DOMAIN workspaces)
      BY <1>7, <1>8, <3>2
    <3>3. QED
      BY <3>1, <3>2
  <2>2. QED
    BY <2>1 DEF Apart
<1>10. ApartFrom(all, c.hub, ws.tabs)
  BY <1>7, <1>8, <1>9 DEF Apart, ApartFrom
<1>11. /\ strip' = ws.tabs /\ stripActive' = NoTab /\ shown' = Current(ws.home)
       /\ workspaces' = Mirrored(all, c.hub, ws.tabs, NoTab)
  BY <1>2 DEF ShowOnHome
<1>12. ws.tabs \in Strips(opened) /\ NoTab \notin Ids(ws.tabs)
  BY <1>5, LiveFacts, StripTypes DEF LiveWorkspace, NoTab
<1>13. Current(ws.home) = Surface(all, c.hub, ws.tabs, NoTab, Current(ws.home))
  BY <1>1, <1>8, <1>12 DEF Surface
<1>14. HubLive(DOMAIN all, c.hub) /\ Switching' \in BOOLEAN /\ opened \in 0..MaxTabs
  BY <1>1, <1>7, LiveFacts DEF HubLive, Switching
<1>15. Agree(workspaces', c.hub, strip', stripActive', shown', Switching')
  BY <1>7, <1>9, <1>10, <1>11, <1>12, <1>13, <1>14, AgreeMirrored
<1>16. Coherent'
  BY <1>2, <1>15 DEF Coherent
<1>17. /\ DOMAIN workspaces \subseteq DOMAIN workspaces'
       /\ \A h \in DOMAIN workspaces : workspaces'[h].tabs = workspaces[h].tabs
  BY <1>7, <1>8, <1>11, <1>12, LiveFacts, MirroredLive, MirroredParts
<1>18. Places
  BY <1>17, KeepsSame DEF Places
<1>19. AllTabs \subseteq AllTabs'
  <2>1. ASSUME NEW t \in AllTabs PROVE \E h \in DOMAIN workspaces : t \in Ids(workspaces[h].tabs)
    <3>1. CASE activeHub = NoUri
      BY <1>2, <3>1, EmptyStrip, CoherentFacts
    <3>2. CASE activeHub # NoUri
      BY <3>2, CoherentFacts
    <3>3. QED
      BY <3>1, <3>2
  <2>2. QED
    BY <1>17, <2>1 DEF AllTabs
<1>20. QED
  BY <1>16, <1>18, <1>19 DEF GoodStep, Losses

-----------------------------------------------------------------------------
(* Notes leave the histories.                                              *)

\* A tab that stays keeps its note until that note is gone.
LEMMA PrunedKeeps ==
  ASSUME NEW n \in Nat, NEW tabs \in Strips(n), NEW gone, NEW active
  PROVE  KeepsPlace(tabs, PrunedTabs(tabs, gone), active)
<1> DEFINE p == PrunedTabs(tabs, gone)
<1>1. ASSUME NEW t \in Ids(tabs) \cap Ids(p), UriOf(tabs, t) \in Visited(HistoryOf(p, t))
      PROVE  UriOf(tabs, t) = Current(HistoryOf(p, t))
  <2> DEFINE h == HistoryOf(tabs, t)
  <2>1. h \in LiveHistories /\ UriOf(tabs, t) = Current(h)
    BY <1>1, HistoryOfTab, UriOfHistory
  <2>2. HistoryOf(p, t) = Pruned(h, gone) /\ Staying(h, gone) # {}
    BY <1>1, PrunedHistories
  <2> HIDE DEF h
  <2>3. Current(h) \notin gone
    BY <1>1, <2>1, <2>2, PrunedCurrent
  <2>4. Current(Pruned(h, gone)) = Current(h)
    BY <2>1, <2>3, PrunedCurrent
  <2>5. QED
    BY <2>1, <2>2, <2>4
<1>2. QED
  BY <1>1 DEF KeepsPlace, HistoryOf

LEMMA PrunedShows ==
  ASSUME NEW n \in Nat, NEW tabs \in Strips(n), NEW gone, NEW id \in Ids(tabs),
         UriOf(tabs, id) \notin gone
  PROVE  id \in Ids(PrunedTabs(tabs, gone)) /\ UriOf(PrunedTabs(tabs, gone), id) = UriOf(tabs, id)
<1> DEFINE h == HistoryOf(tabs, id)
<1>1. h \in LiveHistories /\ UriOf(tabs, id) = Current(h)
  BY HistoryOfTab, UriOfHistory
<1>2. Staying(h, gone) # {} /\ Current(Pruned(h, gone)) = Current(h)
  BY <1>1, PrunedCurrent
<1>3. id \in Ids(PrunedTabs(tabs, gone))
  BY <1>2, PrunedHistories
<1>4. HistoryOf(PrunedTabs(tabs, gone), id) = Pruned(h, gone)
  BY <1>3, PrunedHistories
<1> HIDE DEF h
<1>5. QED
  BY <1>1, <1>2, <1>3, <1>4, UriOfHistory

\* A tab goes away only when every note it has visited is gone.
LEMMA PrunedAway ==
  ASSUME NEW n \in Nat, NEW tabs \in Strips(n), NEW gone, NEW id \in Ids(tabs)
  PROVE  /\ Visited(HistoryOf(tabs, id)) # {}
         /\ id \notin Ids(PrunedTabs(tabs, gone)) => Visited(HistoryOf(tabs, id)) \subseteq gone
<1>1. HistoryOf(tabs, id) \in LiveHistories
  BY HistoryOfTab
<1>2. Visited(HistoryOf(tabs, id)) # {}
  BY <1>1, CurrentIsUri
<1>3. id \notin Ids(PrunedTabs(tabs, gone)) => Staying(HistoryOf(tabs, id), gone) = {}
  BY PrunedHistories
<1>4. QED
  BY <1>1, <1>2, <1>3, PrunedCurrent

IsPruned(all, gone, next) ==
  /\ DOMAIN next = DOMAIN all \ gone
  /\ \A h \in DOMAIN next :
       /\ next[h].tabs = PrunedTabs(all[h].tabs, gone)
       /\ next[h].active = IF all[h].active \in Ids(next[h].tabs)
                           THEN all[h].active ELSE NoTab
       /\ Current(all[h].home) \notin gone => Current(next[h].home) = Current(all[h].home)
  /\ Apart(all) => Apart(next)

LEMMA PrunedParts ==
  ASSUME NEW n \in 0..MaxTabs, NEW all, LiveModel(all, n), NEW gone
  PROVE  /\ LiveModel(PrunedWorkspaces(all, gone), n)
         /\ IsPruned(all, gone, PrunedWorkspaces(all, gone))
<1> DEFINE next == PrunedWorkspaces(all, gone)
<1>1. LiveModel(next, n) /\ DOMAIN next = DOMAIN all \ gone
  BY PrunedModelLive
<1>2. n \in Nat
  BY WorkspaceAssumption DEF WorkspaceAssumption
<1>3. ASSUME NEW h \in DOMAIN next
      PROVE  /\ next[h].tabs = PrunedTabs(all[h].tabs, gone)
             /\ next[h].home = Pruned(all[h].home, gone)
             /\ next[h].active = IF all[h].active \in Ids(next[h].tabs)
                                 THEN all[h].active ELSE NoTab
  <2>1. next[h] = PrunedWorkspace(all[h], gone)
    BY DEF PrunedWorkspaces
  <2> HIDE DEF next
  <2>2. QED
    BY <2>1 DEF PrunedWorkspace
<1> HIDE DEF next
<1>4. \A h \in DOMAIN next : all[h].home \in LiveHistories /\ all[h].tabs \in Strips(n)
  BY <1>1, LiveWorkspaceParts
<1>5. ASSUME NEW h \in DOMAIN next, Current(all[h].home) \notin gone
      PROVE  Current(next[h].home) = Current(all[h].home)
  BY <1>3, <1>4, <1>5, PrunedCurrent
<1>6. \A h \in DOMAIN next : Ids(next[h].tabs) \subseteq Ids(all[h].tabs)
  BY <1>2, <1>3, <1>4, PrunedStrip
<1>7. Apart(all) => Apart(next)
  BY <1>1, <1>6 DEF Apart
<1>8. IsPruned(all, gone, next)
  BY <1>1, <1>3, <1>5, <1>7 DEF IsPruned
<1>9. QED
  BY <1>1, <1>8 DEF next

LEMMA PrunedApart ==
  ASSUME NEW n \in 0..MaxTabs, NEW all, LiveModel(all, n), NEW gone,
         NEW hub, NEW tabs \in Strips(n), ApartFrom(all, hub, tabs)
  PROVE  ApartFrom(PrunedWorkspaces(all, gone), hub, PrunedTabs(tabs, gone))
<1> DEFINE next == PrunedWorkspaces(all, gone)
<1>1. n \in Nat
  BY WorkspaceAssumption DEF WorkspaceAssumption
<1>2. IsPruned(all, gone, next)
  BY PrunedParts
<1> HIDE DEF next
<1>3. \A h \in DOMAIN next : Ids(next[h].tabs) \subseteq Ids(all[h].tabs)
  BY <1>1, <1>2, LiveWorkspaceParts, PrunedStrip DEF IsPruned
<1>4. Ids(PrunedTabs(tabs, gone)) \subseteq Ids(tabs)
  BY <1>1, PrunedStrip
<1>5. ApartFrom(next, hub, PrunedTabs(tabs, gone))
  BY <1>2, <1>3, <1>4 DEF ApartFrom, IsPruned
<1>6. QED
  BY <1>5 DEF next

LEMMA PrunedLosses ==
  ASSUME LiveInv, NEW u \in Uris, changes' # changes,
         strip' = PrunedTabs(strip, {u}), DOMAIN workspaces' = DOMAIN workspaces \ {u},
         \A h \in DOMAIN workspaces' : workspaces'[h].tabs = PrunedTabs(workspaces[h].tabs, {u})
  PROVE  Losses
<1>1. ASSUME NEW t \in AllTabs \ AllTabs' PROVE GoesWithItsNotes(t)
  <2>1. CASE u \in DOMAIN workspaces /\ t \in Ids(workspaces[u].tabs)
    <3>1. u \in DOMAIN workspaces \ DOMAIN workspaces'
      BY <2>1
    <3>2. QED
      BY <2>1, <3>1 DEF GoesWithItsNotes
  <2>2. CASE ~(u \in DOMAIN workspaces /\ t \in Ids(workspaces[u].tabs))
    <3> DEFINE V(s) == Visited(s[Position(s, t)].history)
               S    == {s \in AllStrips : t \in Ids(s)}
    <3>1. \A s \in AllStrips : s \in Strips(opened)
      BY LiveFacts, LiveWorkspaceParts DEF AllStrips
    <3>2. opened \in Nat
      BY LiveFacts
    <3>3. ASSUME NEW s \in S PROVE V(s) = {u}
      <4>1. t \notin Ids(PrunedTabs(s, {u}))
        <5>1. CASE s = strip
          BY <1>1, <5>1 DEF AllTabs
        <5>2. CASE s # strip
          <6>1. PICK h \in DOMAIN workspaces : s = workspaces[h].tabs
            BY <5>2 DEF AllStrips
          <6>2. h \in DOMAIN workspaces'
            BY <2>2, <6>1
          <6>3. t \notin Ids(workspaces'[h].tabs)
            BY <1>1, <6>2 DEF AllTabs
          <6>4. QED
            BY <6>1, <6>2, <6>3
        <5>3. QED
          BY <5>1, <5>2
      <4>2. /\ Visited(HistoryOf(s, t)) # {}
            /\ Visited(HistoryOf(s, t)) \subseteq {u}
        BY <3>1, <3>2, <4>1, PrunedAway
      <4>3. QED
        BY <4>2 DEF HistoryOf
    <3>4. S # {}
      BY <1>1 DEF AllTabs, AllStrips
    <3>5. VisitedBy(t) = UNION {V(s) : s \in S}
      BY DEF VisitedBy
    <3> HIDE DEF S, V
    <3>6. VisitedBy(t) = {u}
      BY <3>3, <3>4, <3>5
    <3>7. QED
      BY <3>6 DEF GoesWithItsNotes
  <2>3. QED
    BY <2>1, <2>2
<1>2. QED
  BY <1>1 DEF Losses

\* A hub whose workspace stays is active still.
LEMMA ActiveStays ==
  ASSUME LiveInv, NEW u, u # activeHub,
         activeHub' \in ActiveAmong(DOMAIN workspaces \ {u}, activeHub)
  PROVE  activeHub' = activeHub
BY LiveFacts DEF ActiveAmong

LEMMA PrunedStep ==
  ASSUME LiveInv, Coherent, NEW u \in Uris, u # activeHub, activeHub' = activeHub,
         changes' # changes,
         NEW all, LiveModel(all, opened), DOMAIN all = DOMAIN workspaces,
         \A h \in DOMAIN all : all[h].tabs = workspaces[h].tabs,
         strip' = PrunedTabs(strip, {u}), stripActive' \in {NoTab} \cup Ids(strip'),
         NEW next, next = PrunedWorkspaces(all, {u}),
         \/ Switching' \/ shown' = NoUri
         \/ shown' = Surface(next, activeHub, strip', stripActive', shown'),
         \/ workspaces' = Mirrored(next, activeHub, strip', stripActive')
         \/ workspaces' = next /\ \/ Switching' \/ shown' = NoUri
                                  \/ activeHub # NoUri => stripActive' = next[activeHub].active
  PROVE  GoodStep
<1>1. opened \in 0..MaxTabs /\ opened \in Nat /\ strip \in Strips(opened)
  BY LiveFacts
<1>2. Apart(all) /\ ApartFrom(all, activeHub, strip)
  BY CoherentFacts DEF Apart, ApartFrom
<1>3. /\ LiveModel(next, opened) /\ DOMAIN next = DOMAIN workspaces \ {u}
      /\ \A h \in DOMAIN next : next[h].tabs = PrunedTabs(workspaces[h].tabs, {u})
      /\ Apart(next) /\ ApartFrom(next, activeHub, strip')
  <2>1. LiveModel(next, opened) /\ IsPruned(all, {u}, next)
    BY <1>1, PrunedParts
  <2>2. ApartFrom(next, activeHub, PrunedTabs(strip, {u}))
    BY <1>1, <1>2, PrunedApart
  <2>3. QED
    BY <1>2, <2>1, <2>2 DEF IsPruned
<1>4. strip' \in Strips(opened)
  BY <1>1, PrunedStrip
<1>5. HubLive(DOMAIN next, activeHub) /\ (activeHub # NoUri => activeHub \in DOMAIN next)
  BY <1>3, LiveFacts DEF HubLive
<1>6. activeHub # NoUri => strip' = next[activeHub].tabs
  BY <1>3, <1>5, CoherentFacts
<1>7. Switching' \in BOOLEAN
  BY DEF Switching
<1>8. /\ Coherent' /\ DOMAIN workspaces' = DOMAIN next
      /\ \A h \in DOMAIN next : workspaces'[h].tabs = next[h].tabs
  <2>1. CASE workspaces' = Mirrored(next, activeHub, strip', stripActive')
    <3>1. Agree(workspaces', activeHub, strip', stripActive', shown', Switching')
      BY <1>1, <1>3, <1>4, <1>5, <1>7, <2>1, AgreeMirrored
    <3>2. Coherent'
      BY <3>1 DEF Coherent
    <3>3. /\ DOMAIN workspaces' = DOMAIN next
          /\ \A h \in DOMAIN next : workspaces'[h].tabs = next[h].tabs
      <4>1. DOMAIN workspaces' = DOMAIN next
        BY <1>1, <1>3, <1>4, <2>1, MirroredLive
      <4>2. ASSUME NEW h \in DOMAIN next PROVE workspaces'[h].tabs = next[h].tabs
        <5>1. /\ h # activeHub => workspaces'[h] = next[h]
              /\ h = activeHub => workspaces'[h].tabs = strip'
          BY <1>3, <2>1, MirroredParts
        <5>2. h = activeHub => strip' = next[h].tabs
          BY <1>6, <1>3, NoUriIsNoHub, LiveWorkspaceParts
        <5>3. QED
          BY <5>1, <5>2
      <4>3. QED
        BY <4>1, <4>2
    <3>4. QED
      BY <3>2, <3>3
  <2>2. CASE /\ workspaces' = next
             /\ \/ Switching' \/ shown' = NoUri
                \/ activeHub # NoUri => stripActive' = next[activeHub].active
    <3>1. Agree(next, activeHub, strip', stripActive', shown', Switching')
      BY <1>3, <1>6, <2>2 DEF Agree
    <3>2. QED
      BY <2>2, <3>1 DEF Coherent
  <2>3. QED
    BY <2>1, <2>2
<1>9. Losses
  BY <1>3, <1>8, PrunedLosses
<1>10. Places
  <2>1. ASSUME NEW h \in DOMAIN workspaces \cap DOMAIN workspaces'
        PROVE  KeepsPlace(workspaces[h].tabs, workspaces'[h].tabs, stripActive')
    <3>1. workspaces[h].tabs \in Strips(opened)
      BY LiveFacts, LiveWorkspaceParts
    <3>2. workspaces'[h].tabs = PrunedTabs(workspaces[h].tabs, {u})
      BY <1>3, <1>8
    <3>3. QED
      BY <1>1, <3>1, <3>2, PrunedKeeps
  <2>2. QED
    BY <2>1 DEF Places
<1>11. QED
  BY <1>8, <1>9, <1>10 DEF GoodStep

\* A note that is open goes away: the tab that was active, or the one that
\* takes its place, shows its current note.
LEMMA RemovedExternallyStep ==
  ASSUME LiveInv, Coherent, NEW u \in Uris, RemovedExternally(u), ~strayed'
  PROVE  GoodStep
<1> DEFINE tabs == PrunedTabs(strip, {u})
           id   == EnsureActive(tabs, stripActive)
           all  == PrunedWorkspaces(workspaces, {u})
<1>1. /\ IF shown # u THEN ShowSame(all, tabs, id)
         ELSE IF tabs = <<>> THEN ShowNothing(all, tabs)
         ELSE ShowInTab(all, activeHub', tabs, id, UriOf(tabs, id), TRUE)
      /\ waiting' = waiting /\ changes' = changes + 1
      /\ activeHub' \in ActiveAmong(DOMAIN workspaces \ {u}, activeHub)
      /\ u # activeHub /\ stripActive # NoTab
  BY DEF RemovedExternally
<1>2. /\ opened \in Nat /\ strip \in Strips(opened) /\ tabs \in Strips(opened)
      /\ LiveModel(workspaces, opened) /\ opened \in 0..MaxTabs
  BY LiveFacts, PrunedStrip
<1>3. activeHub' = activeHub /\ changes' # changes
  <2>1. MaxChanges \in Nat /\ changes \in 0..MaxChanges
    BY WorkspaceAssumption DEF WorkspaceAssumption, LiveInv, VaultLive
  <2>2. changes' # changes
    BY <1>1, <2>1
  <2>3. activeHub' = activeHub
    BY <1>1, ActiveStays
  <2>4. QED
    BY <2>2, <2>3
<1>4. id \in {NoTab} \cup Ids(tabs) /\ (tabs # <<>> => id \in Ids(tabs))
      /\ (stripActive \in Ids(tabs) => id = stripActive)
  BY <1>2, EnsuredActive
<1>5. stripActive \in Ids(strip)
  BY <1>1, CoherentFacts
<1>6. LiveModel(all, opened) /\ IsPruned(workspaces, {u}, all)
  BY <1>2, PrunedParts
<1> HIDE DEF id, all
<1>7. \A h \in DOMAIN all : all[h].active = IF workspaces[h].active \in Ids(all[h].tabs)
                                             THEN workspaces[h].active ELSE NoTab
  BY <1>6 DEF IsPruned
<1>8. /\ DOMAIN all = DOMAIN workspaces \ {u}
      /\ \A h \in DOMAIN all : all[h].tabs = PrunedTabs(workspaces[h].tabs, {u})
  BY <1>6 DEF IsPruned
<1>9. strip' = tabs
  <2>1. CASE shown = u /\ tabs # <<>>
    BY <1>1, <2>1 DEF ShowInTab
  <2>2. CASE ~(shown = u /\ tabs # <<>>)
    BY <1>1, <2>2 DEF ShowSame, ShowNothing
  <2>3. QED
    BY <2>1, <2>2
<1>10. CASE shown # u
  <2>1. stripActive' = id /\ workspaces' = all /\ shown' = shown
    BY <1>1, <1>10 DEF ShowSame
  <2>2. ASSUME ~Switching', shown # NoUri
        PROVE  /\ shown = Surface(all, activeHub, tabs, id, shown)
               /\ activeHub # NoUri => id = all[activeHub].active
    <3>1. ~Switching
      BY <1>1, <2>2 DEF Switching
    <3>2. /\ shown = Surface(workspaces, activeHub, strip, stripActive, shown)
          /\ activeHub # NoUri => stripActive = workspaces[activeHub].active
      BY <2>2, <3>1, CoherentFacts
    <3>3. shown = UriOf(strip, stripActive)
      BY <1>5, <3>2 DEF Surface
    <3>4. stripActive \in Ids(tabs) /\ UriOf(tabs, stripActive) = shown
      BY <1>2, <1>5, <1>10, <3>3, PrunedShows
    <3>5. id = stripActive
      BY <1>4, <3>4
    <3>6. activeHub # NoUri => activeHub \in DOMAIN all /\ all[activeHub].tabs = tabs
      BY <1>1, <1>8, CoherentFacts
    <3>7. activeHub # NoUri => all[activeHub].active = stripActive
      BY <1>7, <3>2, <3>4, <3>6
    <3> HIDE DEF tabs
    <3>8. QED
      BY <3>4, <3>5, <3>7 DEF Surface
  <2>3. \/ Switching' \/ shown' = NoUri
        \/ shown' = Surface(all, activeHub, strip', stripActive', shown')
    BY <1>9, <2>1, <2>2
  <2>4. \/ Switching' \/ shown' = NoUri
        \/ activeHub # NoUri => stripActive' = all[activeHub].active
    BY <2>1, <2>2
  <2>5. stripActive' \in {NoTab} \cup Ids(strip')
    BY <1>4, <1>9, <2>1
  <2>6. QED
    BY <1>1, <1>2, <1>3, <1>9, <2>1, <2>3, <2>4, <2>5, PrunedStep DEF all
<1>11. CASE shown = u /\ tabs = <<>>
  <2>1. stripActive' = NoTab /\ workspaces' = all /\ shown' = NoUri
    BY <1>1, <1>11 DEF ShowNothing
  <2>2. QED
    BY <1>1, <1>2, <1>3, <1>9, <2>1, PrunedStep DEF all
<1>12. CASE shown = u /\ tabs # <<>>
  <2>1. /\ stripActive' = EnsureActive(tabs, id) /\ shown' = UriOf(tabs, id)
        /\ workspaces' = Mirrored(all, activeHub, strip', stripActive')
    BY <1>1, <1>3, <1>12 DEF ShowInTab
  <2>2. EnsureActive(tabs, id) = id /\ id \in Ids(tabs)
    BY <1>2, <1>4, <1>12, EnsuredActive
  <2>3. shown' = Surface(all, activeHub, strip', stripActive', shown')
        /\ stripActive' \in {NoTab} \cup Ids(strip')
    BY <1>9, <2>1, <2>2 DEF Surface
  <2>4. QED
    BY <1>1, <1>2, <1>3, <1>9, <2>1, <2>3, PrunedStep DEF all
<1>13. QED
  BY <1>10, <1>11, <1>12

LEMMA ActiveOnly ==
  ASSUME NEW n, NEW all, LiveModel(all, n), NEW hub \in DOMAIN all, NEW id
  PROVE  LET next == [all EXCEPT ![hub].active = id]
         IN  /\ \A h \in DOMAIN all : next[h].tabs = all[h].tabs /\ next[h].home = all[h].home
             /\ next[hub].active = id
<1> DEFINE next == [all EXCEPT ![hub].active = id]
<1>1. \A h \in DOMAIN all : h # hub => next[h] = all[h]
  OBVIOUS
<1>2. next[hub] = [all[hub] EXCEPT !.active = id]
  OBVIOUS
<1>3. LiveWorkspace(hub, all[hub], n)
  BY DEF LiveModel
<1> HIDE DEF next
<1>4. /\ next[hub].tabs = all[hub].tabs /\ next[hub].home = all[hub].home
      /\ next[hub].active = id
  BY <1>2, <1>3 DEF LiveWorkspace
<1>5. QED
  BY <1>1, <1>4 DEF next

\* A note is deleted in the vault tree: Home stays when no tab was active.
LEMMA DeletedInTreeStep ==
  ASSUME LiveInv, Coherent, NEW u \in Uris, DeletedInTree(u), ~strayed'
  PROVE  GoodStep
<1> DEFINE tabs == PrunedTabs(strip, {u})
           id   == IF stripActive = NoTab THEN NoTab ELSE EnsureActive(tabs, stripActive)
           at   == IF activeHub \in DOMAIN workspaces /\ id \in Ids(ActiveTabs) \cup {NoTab}
                   THEN [workspaces EXCEPT ![activeHub].active = id] ELSE workspaces
           all  == PrunedWorkspaces(at, {u})
<1>1. /\ IF shown # u THEN ShowSame(all, tabs, id)
         ELSE IF id # NoTab
         THEN ShowInTab(all, activeHub', tabs, id, UriOf(tabs, id), TRUE)
         ELSE IF activeHub \notin {NoUri, u}
         THEN ShowOnHome(all, activeHub', tabs, HomeUri(all, activeHub))
         ELSE ShowNothing(all, tabs)
      /\ waiting' = waiting /\ changes' = changes + 1
      /\ activeHub' \in ActiveAmong(DOMAIN workspaces \ {u}, activeHub)
      /\ u # activeHub
  BY DEF DeletedInTree
<1>2. /\ opened \in Nat /\ strip \in Strips(opened) /\ tabs \in Strips(opened)
      /\ LiveModel(workspaces, opened) /\ opened \in 0..MaxTabs
      /\ Ids(tabs) \subseteq Ids(strip)
  BY LiveFacts, PrunedStrip
<1>3. activeHub' = activeHub /\ changes' # changes
  <2>1. MaxChanges \in Nat /\ changes \in 0..MaxChanges
    BY WorkspaceAssumption DEF WorkspaceAssumption, LiveInv, VaultLive
  <2>2. changes' # changes
    BY <1>1, <2>1
  <2>3. activeHub' = activeHub
    BY <1>1, ActiveStays
  <2>4. QED
    BY <2>2, <2>3
<1>4. stripActive \in {NoTab} \cup Ids(strip) /\ NoTab \notin Ids(strip)
  BY CoherentFacts
<1>5. id \in {NoTab} \cup Ids(tabs) /\ (stripActive \in {NoTab} \cup Ids(tabs) => id = stripActive)
  BY <1>2, <1>4, EnsuredActive
<1>6. activeHub # NoUri => /\ activeHub \in DOMAIN workspaces /\ ActiveTabs = strip
                           /\ workspaces[activeHub].tabs = strip
  BY CoherentFacts
<1> HIDE DEF id
<1>7. /\ LiveModel(at, opened) /\ DOMAIN at = DOMAIN workspaces
      /\ \A h \in DOMAIN at : at[h].tabs = workspaces[h].tabs
      /\ \A h \in DOMAIN at : at[h].home = workspaces[h].home
      /\ activeHub # NoUri => at[activeHub].active = id
  <2>1. CASE activeHub = NoUri
    <3>1. DOMAIN workspaces = {}
      BY <2>1, LiveFacts
    <3>2. QED
      BY <1>2, <2>1, <3>1
  <2>2. CASE activeHub # NoUri
    <3>1. id \in {NoTab} \cup Ids(workspaces[activeHub].tabs)
      BY <1>2, <1>5, <1>6, <2>2
    <3>2. at = [workspaces EXCEPT ![activeHub].active = id]
      BY <1>6, <2>2, <3>1
    <3> HIDE DEF at, tabs
    <3>3. LiveModel(at, opened) /\ DOMAIN at = DOMAIN workspaces
      BY <1>2, <1>6, <2>2, <3>1, <3>2, ActiveReplaced
    <3>4. /\ \A h \in DOMAIN workspaces : at[h].tabs = workspaces[h].tabs
                                          /\ at[h].home = workspaces[h].home
          /\ at[activeHub].active = id
      BY <1>2, <1>6, <2>2, <3>2, ActiveOnly
    <3>5. QED
      BY <3>3, <3>4
  <2>3. QED
    BY <2>1, <2>2
<1> HIDE DEF at
<1>8. LiveModel(all, opened) /\ IsPruned(at, {u}, all)
  BY <1>2, <1>7, PrunedParts
<1>9. all = PrunedWorkspaces(at, {u})
  OBVIOUS
<1> HIDE DEF all
<1>10. activeHub # NoUri => /\ activeHub \in DOMAIN all /\ activeHub \in DOMAIN at
                            /\ all[activeHub].tabs = tabs
                            /\ all[activeHub].active = id
  <2>1. u # activeHub
    BY <1>1
  <2>2. activeHub # NoUri => activeHub \in DOMAIN at /\ activeHub \in DOMAIN all
    BY <1>6, <1>7, <1>8, <2>1 DEF IsPruned
  <2>3. activeHub # NoUri => all[activeHub].tabs = tabs
    BY <1>6, <1>7, <1>8, <2>2 DEF IsPruned
  <2>4. activeHub # NoUri => all[activeHub].active = id
    <3> HIDE DEF tabs
    <3>1. activeHub # NoUri => all[activeHub].active = IF id \in Ids(tabs) THEN id ELSE NoTab
      BY <1>7, <1>8, <2>2, <2>3 DEF IsPruned
    <3>2. QED
      BY <1>5, <3>1
  <2>5. QED
    BY <2>2, <2>3, <2>4
<1>11. activeHub # NoUri /\ Current(workspaces[activeHub].home) # u =>
         Current(all[activeHub].home) = Current(workspaces[activeHub].home)
  BY <1>7, <1>8, <1>10 DEF IsPruned
<1>12. CASE shown # u
  <2>1. stripActive' = id /\ workspaces' = all /\ shown' = shown /\ strip' = tabs
    BY <1>1, <1>12 DEF ShowSame
  <2>2. ASSUME ~Switching', shown # NoUri
        PROVE  shown = Surface(all, activeHub, tabs, id, shown)
    <3>1. ~Switching
      BY <1>1, <2>2 DEF Switching
    <3>2. shown = Surface(workspaces, activeHub, strip, stripActive, shown)
      BY <2>2, <3>1, CoherentFacts
    <3>3. CASE stripActive = NoTab
      <4>1. id = NoTab /\ NoTab \notin Ids(tabs)
        BY <1>2, <1>4, <1>5, <3>3
      <4>2. activeHub # NoUri => shown = Current(workspaces[activeHub].home)
        BY <1>4, <3>2, <3>3 DEF Surface
      <4>3. activeHub # NoUri => shown = Current(all[activeHub].home)
        BY <1>11, <1>12, <4>2
      <4> HIDE DEF tabs
      <4>4. QED
        BY <4>1, <4>3 DEF Surface
    <3>4. CASE stripActive # NoTab
      <4>1. stripActive \in Ids(strip)
        BY <1>4, <3>4
      <4>2. shown = UriOf(strip, stripActive)
        BY <3>2, <4>1 DEF Surface
      <4>3. stripActive \in Ids(tabs) /\ UriOf(tabs, stripActive) = shown
        BY <1>2, <1>12, <4>1, <4>2, PrunedShows
      <4>4. id = stripActive
        BY <1>5, <4>3
      <4> HIDE DEF tabs
      <4>5. QED
        BY <4>3, <4>4 DEF Surface
    <3>5. QED
      BY <3>3, <3>4
  <2>3. \/ Switching' \/ shown' = NoUri
        \/ shown' = Surface(all, activeHub, strip', stripActive', shown')
    BY <2>1, <2>2
  <2>4. activeHub # NoUri => stripActive' = all[activeHub].active
    BY <1>10, <2>1
  <2>5. stripActive' \in {NoTab} \cup Ids(strip')
    BY <1>5, <2>1
  <2>6. QED
    BY <1>1, <1>3, <1>7, <1>9, <2>1, <2>3, <2>4, <2>5, PrunedStep
<1>13. CASE shown = u /\ id # NoTab
  <2>1. EnsureActive(tabs, id) = id /\ id \in Ids(tabs) /\ tabs # <<>>
    BY <1>2, <1>5, <1>13, EnsuredActive
  <2>2. /\ strip' = tabs /\ stripActive' = id /\ shown' = UriOf(tabs, id)
        /\ workspaces' = Mirrored(all, activeHub, strip', stripActive')
    BY <1>1, <1>3, <1>13, <2>1 DEF ShowInTab
  <2>3. shown' = Surface(all, activeHub, strip', stripActive', shown')
        /\ stripActive' \in {NoTab} \cup Ids(strip')
    BY <2>1, <2>2 DEF Surface
  <2>4. QED
    BY <1>1, <1>3, <1>7, <1>9, <2>2, <2>3, PrunedStep
<1>14. CASE shown = u /\ id = NoTab /\ activeHub # NoUri
  <2>1. /\ strip' = tabs /\ stripActive' = NoTab /\ shown' = HomeUri(all, activeHub)
        /\ workspaces' = Mirrored(all, activeHub, strip', stripActive')
    BY <1>1, <1>3, <1>14 DEF ShowOnHome
  <2>2. HomeUri(all, activeHub) = Current(all[activeHub].home) /\ NoTab \notin Ids(tabs)
    BY <1>2, <1>4, <1>10, <1>14 DEF HomeUri
  <2>3. shown' = Surface(all, activeHub, strip', stripActive', shown')
    BY <1>14, <2>1, <2>2 DEF Surface
  <2>4. QED
    BY <1>1, <1>3, <1>7, <1>9, <2>1, <2>3, PrunedStep
<1>15. CASE shown = u /\ id = NoTab /\ activeHub = NoUri
  <2>1. strip' = tabs /\ stripActive' = NoTab /\ workspaces' = all /\ shown' = NoUri
    BY <1>1, <1>15 DEF ShowNothing
  <2>2. QED
    BY <1>1, <1>3, <1>7, <1>9, <2>1, PrunedStep
<1>16. QED
  BY <1>12, <1>13, <1>14, <1>15

-----------------------------------------------------------------------------
(* A note is renamed.                                                      *)

LEMMA RemappedKeeps ==
  ASSUME NEW n \in Nat, NEW tabs \in Strips(n), NEW u \in Uris, NEW v \in Uris, NEW active
  PROVE  KeepsPlace(tabs, RemappedTabs(tabs, u, v), active)
<1> DEFINE p == RemappedTabs(tabs, u, v)
<1>1. ASSUME NEW t \in Ids(tabs), UriOf(tabs, t) \in Visited(HistoryOf(p, t))
      PROVE  UriOf(tabs, t) = Current(HistoryOf(p, t))
  <2> DEFINE h == HistoryOf(tabs, t)
  <2>1. h \in LiveHistories /\ UriOf(tabs, t) = Current(h)
    BY <1>1, HistoryOfTab, UriOfHistory
  <2>2. HistoryOf(p, t) = Remapped(h, u, v)
    BY <1>1, RemappedHistories
  <2> HIDE DEF h
  <2>3. /\ Current(Remapped(h, u, v)) = Renamed(Current(h), u, v)
        /\ Visited(Remapped(h, u, v)) = {Renamed(x, u, v) : x \in Visited(h)}
    BY <2>1, RemappedCurrent
  <2>4. PICK x \in Visited(h) : Current(h) = Renamed(x, u, v)
    BY <1>1, <2>1, <2>2, <2>3
  <2>5. Renamed(Current(h), u, v) = Current(h)
    BY <2>4 DEF Renamed
  <2>6. QED
    BY <2>1, <2>2, <2>3, <2>5
<1>2. QED
  BY <1>1 DEF KeepsPlace, HistoryOf

LEMMA RemappedShows ==
  ASSUME NEW n \in Nat, NEW tabs \in Strips(n), NEW u \in Uris, NEW v \in Uris, NEW id \in Ids(tabs)
  PROVE  UriOf(RemappedTabs(tabs, u, v), id) = Renamed(UriOf(tabs, id), u, v)
<1> DEFINE h == HistoryOf(tabs, id)
<1>1. h \in LiveHistories /\ UriOf(tabs, id) = Current(h)
  BY HistoryOfTab, UriOfHistory
<1>2. HistoryOf(RemappedTabs(tabs, u, v), id) = Remapped(h, u, v)
  BY RemappedHistories
<1> HIDE DEF h
<1>3. Current(Remapped(h, u, v)) = Renamed(Current(h), u, v)
  BY <1>1, RemappedCurrent
<1>4. QED
  BY <1>1, <1>2, <1>3, UriOfHistory

\* The workspaces move with their hub and keep their tabs.
LEMMA RemappedParts ==
  ASSUME LiveInv, NEW u \in Uris, NEW v \in Uris, RenamedInTree(u, v)
  PROVE  /\ DOMAIN workspaces' = {Renamed(g, u, v) : g \in DOMAIN workspaces}
         /\ v \notin DOMAIN workspaces
         /\ \A g \in DOMAIN workspaces :
              /\ workspaces'[Renamed(g, u, v)].tabs = RemappedTabs(workspaces[g].tabs, u, v)
              /\ workspaces'[Renamed(g, u, v)].home = Remapped(workspaces[g].home, u, v)
              /\ workspaces'[Renamed(g, u, v)].active = workspaces[g].active
              /\ Ids(workspaces'[Renamed(g, u, v)].tabs) = Ids(workspaces[g].tabs)
<1>1. v \notin DOMAIN workspaces
  BY UnusedHasNoWorkspace DEF RenamedInTree
<1>2. DOMAIN workspaces' = {Renamed(g, u, v) : g \in DOMAIN workspaces}
  BY DEF RenamedInTree
<1>3. ASSUME NEW g \in DOMAIN workspaces
      PROVE  /\ workspaces'[Renamed(g, u, v)].tabs = RemappedTabs(workspaces[g].tabs, u, v)
             /\ workspaces'[Renamed(g, u, v)].home = Remapped(workspaces[g].home, u, v)
             /\ workspaces'[Renamed(g, u, v)].active = workspaces[g].active
             /\ Ids(workspaces'[Renamed(g, u, v)].tabs) = Ids(workspaces[g].tabs)
  <2> DEFINE ws   == workspaces[g]
             tabs == RemappedTabs(ws.tabs, u, v)
             home == Remapped(ws.home, u, v)
             next == workspaces'[Renamed(g, u, v)]
  <2>1. Renamed(Renamed(g, u, v), v, u) = g
    BY <1>1 DEF Renamed
  <2>2. next = [ws EXCEPT !.tabs = tabs, !.home = home]
    <3>1. Renamed(g, u, v) \in {Renamed(f, u, v) : f \in DOMAIN workspaces}
      OBVIOUS
    <3>2. QED
      BY <2>1, <3>1 DEF RenamedInTree
  <2>3. LiveWorkspace(g, ws, opened) /\ ws.tabs \in Strips(opened) /\ opened \in Nat
    BY LiveFacts, LiveWorkspaceParts
  <2>4. Ids(tabs) = Ids(ws.tabs)
    BY <2>3, RemappedStrip
  <2> HIDE DEF tabs, home, next, ws
  <2>5. next.tabs = tabs /\ next.home = home /\ next.active = ws.active
    BY <2>2, <2>3 DEF LiveWorkspace
  <2>6. QED
    BY <2>4, <2>5 DEF tabs, home, next, ws
<1>4. QED
  BY <1>1, <1>2, <1>3

LEMMA RenamedInTreeStep ==
  ASSUME LiveInv, Coherent, NEW u \in Uris, NEW v \in Uris, RenamedInTree(u, v)
  PROVE  GoodStep
<1> DEFINE R(x) == Renamed(x, u, v)
<1>1. /\ strip' = RemappedTabs(strip, u, v) /\ stripActive' = stripActive
      /\ shown' = R(shown) /\ activeHub' = R(activeHub) /\ waiting' = waiting
  BY DEF RenamedInTree
<1>2. /\ opened \in Nat /\ strip \in Strips(opened) /\ Ids(strip') = Ids(strip)
  BY <1>1, LiveFacts, RemappedStrip
<1>3. /\ DOMAIN workspaces' = {R(g) : g \in DOMAIN workspaces}
      /\ v \notin DOMAIN workspaces
      /\ \A g \in DOMAIN workspaces :
           /\ workspaces'[R(g)].tabs = RemappedTabs(workspaces[g].tabs, u, v)
           /\ workspaces'[R(g)].home = Remapped(workspaces[g].home, u, v)
           /\ workspaces'[R(g)].active = workspaces[g].active
           /\ Ids(workspaces'[R(g)].tabs) = Ids(workspaces[g].tabs)
  BY RemappedParts
<1>4. \A g, h \in DOMAIN workspaces : R(g) = R(h) => g = h
  BY <1>3 DEF Renamed
<1>5. /\ activeHub # NoUri => activeHub \in DOMAIN workspaces /\ strip = workspaces[activeHub].tabs
      /\ stripActive \in {NoTab} \cup Ids(strip)
  BY CoherentFacts
<1>6. (activeHub = NoUri <=> activeHub' = NoUri) /\ (shown = NoUri => shown' = NoUri)
  BY <1>1, NoUriIsNoHub DEF Renamed
<1> HIDE DEF R
<1>7. Apart(workspaces')
  <2>1. ASSUME NEW a \in DOMAIN workspaces', NEW b \in DOMAIN workspaces', a # b
        PROVE  Ids(workspaces'[a].tabs) \cap Ids(workspaces'[b].tabs) = {}
    <3>1. PICK g \in DOMAIN workspaces : a = R(g)
      BY <1>3
    <3>2. PICK h \in DOMAIN workspaces : b = R(h)
      BY <1>3
    <3>3. Ids(workspaces[g].tabs) \cap Ids(workspaces[h].tabs) = {}
      BY <2>1, <3>1, <3>2, CoherentFacts DEF Apart
    <3>4. QED
      BY <1>3, <3>1, <3>2, <3>3
  <2>2. QED
    BY <2>1 DEF Apart
<1>8. ASSUME ~Switching', shown' # NoUri
      PROVE  /\ shown' = Surface(workspaces', activeHub', strip', stripActive', shown')
             /\ activeHub' # NoUri => stripActive' = workspaces'[activeHub'].active
  <2>1. ~Switching /\ shown # NoUri
    BY <1>1, <1>6, <1>8 DEF Switching
  <2>2. /\ shown = Surface(workspaces, activeHub, strip, stripActive, shown)
        /\ activeHub # NoUri => stripActive = workspaces[activeHub].active
    BY <2>1, CoherentFacts
  <2>3. stripActive \in Ids(strip) => UriOf(strip', stripActive) = R(UriOf(strip, stripActive))
    BY <1>1, <1>2, RemappedShows DEF R
  <2>4. activeHub # NoUri => /\ workspaces'[activeHub'].active = workspaces[activeHub].active
                             /\ Current(workspaces'[activeHub'].home)
                                  = R(Current(workspaces[activeHub].home))
    <3>1. activeHub # NoUri => workspaces[activeHub].home \in LiveHistories
      BY <1>5, LiveFacts, LiveWorkspaceParts
    <3>2. activeHub # NoUri => workspaces'[activeHub'].home = Remapped(workspaces[activeHub].home, u, v)
      BY <1>1, <1>3, <1>5
    <3>3. activeHub # NoUri => workspaces'[activeHub'].active = workspaces[activeHub].active
      BY <1>1, <1>3, <1>5
    <3>4. QED
      BY <3>1, <3>2, <3>3, RemappedCurrent DEF R
  <2>5. shown' = Surface(workspaces', activeHub', strip', stripActive', shown')
    BY <1>1, <1>2, <1>6, <2>2, <2>3, <2>4 DEF Surface
  <2>6. QED
    BY <1>1, <1>6, <2>2, <2>4, <2>5
<1>9. activeHub' # NoUri => strip' = workspaces'[activeHub'].tabs
  BY <1>1, <1>3, <1>5, <1>6
<1>10. Coherent'
  <2>1. Agree(workspaces', activeHub', strip', stripActive', shown', Switching')
    BY <1>1, <1>2, <1>5, <1>7, <1>8, <1>9 DEF Agree
  <2>2. QED
    BY <2>1 DEF Coherent
<1>11. AllTabs \subseteq AllTabs'
  <2>1. ASSUME NEW h \in DOMAIN workspaces
        PROVE  Ids(workspaces[h].tabs) \subseteq AllTabs'
    <3>1. R(h) \in DOMAIN workspaces' /\ Ids(workspaces'[R(h)].tabs) = Ids(workspaces[h].tabs)
      BY <1>3
    <3>2. QED
      BY <3>1 DEF AllTabs
  <2>2. Ids(strip) \subseteq AllTabs'
    BY <1>2 DEF AllTabs
  <2>3. QED
    BY <2>1, <2>2 DEF AllTabs
<1>12. Places
  <2>1. ASSUME NEW h \in DOMAIN workspaces \cap DOMAIN workspaces'
        PROVE  KeepsPlace(workspaces[h].tabs, workspaces'[h].tabs, stripActive')
    <3>1. PICK g \in DOMAIN workspaces : h = R(g)
      BY <1>3
    <3>2. h # v
      BY <1>3
    <3>3. g = h
      BY <3>1, <3>2 DEF R, Renamed
    <3>4. workspaces'[h].tabs = RemappedTabs(workspaces[h].tabs, u, v)
      BY <1>3, <3>1, <3>3
    <3>5. workspaces[h].tabs \in Strips(opened)
      BY LiveFacts, LiveWorkspaceParts
    <3>6. QED
      BY <1>2, <3>4, <3>5, RemappedKeeps
  <2>2. QED
    BY <2>1 DEF Places
<1>13. QED
  BY <1>10, <1>11, <1>12 DEF GoodStep, Losses

-----------------------------------------------------------------------------
(* Hubs come and go.                                                       *)

LeftHubs == DOMAIN workspaces \ knownHubs

IsSynced(next) ==
  /\ LiveModel(next, opened) /\ DOMAIN next = knownHubs
  /\ \A h \in knownHubs \ DOMAIN workspaces : next[h] = DefaultWorkspace(h)
  /\ \A h \in knownHubs \cap DOMAIN workspaces :
       /\ next[h].tabs = PrunedTabs(workspaces[h].tabs, LeftHubs)
       /\ next[h].active = IF workspaces[h].active \in Ids(next[h].tabs)
                           THEN workspaces[h].active ELSE NoTab
       /\ Current(workspaces[h].home) \notin LeftHubs =>
            Current(next[h].home) = Current(workspaces[h].home)
  /\ Apart(next)

\* The known hubs keep their workspaces, the new ones start empty.
LEMMA SyncedParts ==
  ASSUME LiveInv, Coherent
  PROVE  LET kept == PrunedWorkspaces(workspaces, LeftHubs)
         IN  IsSynced([h \in knownHubs |-> IF h \in DOMAIN kept THEN kept[h]
                                           ELSE DefaultWorkspace(h)])
<1> DEFINE kept == PrunedWorkspaces(workspaces, LeftHubs)
           all  == [h \in knownHubs |-> IF h \in DOMAIN kept THEN kept[h]
                                        ELSE DefaultWorkspace(h)]
<1>1. /\ LiveModel(all, opened) /\ DOMAIN all = knownHubs
      /\ DOMAIN kept = DOMAIN workspaces \cap knownHubs
  BY SyncedModel DEF LeftHubs
<1>2. IsPruned(workspaces, LeftHubs, kept)
  BY LiveFacts, PrunedParts
<1>3. Apart(kept)
  BY <1>2, CoherentFacts DEF IsPruned
<1> HIDE DEF kept
<1>4. /\ \A h \in knownHubs \cap DOMAIN workspaces : all[h] = kept[h] /\ h \in DOMAIN kept
      /\ \A h \in knownHubs \ DOMAIN workspaces : all[h] = DefaultWorkspace(h)
  BY <1>1
<1> HIDE DEF all
<1>5. ASSUME NEW h \in knownHubs \cap DOMAIN workspaces
      PROVE  /\ all[h].tabs = PrunedTabs(workspaces[h].tabs, LeftHubs)
             /\ all[h].active = IF workspaces[h].active \in Ids(all[h].tabs)
                                THEN workspaces[h].active ELSE NoTab
             /\ Current(workspaces[h].home) \notin LeftHubs =>
                  Current(all[h].home) = Current(workspaces[h].home)
  BY <1>2, <1>4 DEF IsPruned
<1>6. \A h \in knownHubs \ DOMAIN workspaces : Ids(all[h].tabs) = {}
  <2>1. Ids(<<>>) = {}
    BY EmptyStrip
  <2>2. ASSUME NEW h \in knownHubs \ DOMAIN workspaces PROVE all[h].tabs = <<>>
    <3>1. all[h] = DefaultWorkspace(h)
      BY <1>4
    <3>2. QED
      BY <3>1 DEF DefaultWorkspace
  <2>3. QED
    BY <2>1, <2>2
<1>7. Apart(all)
  <2>1. ASSUME NEW g \in knownHubs, NEW h \in knownHubs, g # h
        PROVE  Ids(all[g].tabs) \cap Ids(all[h].tabs) = {}
    <3>1. CASE g \in DOMAIN workspaces /\ h \in DOMAIN workspaces
      BY <1>3, <1>4, <2>1, <3>1 DEF Apart
    <3>2. CASE ~(g \in DOMAIN workspaces /\ h \in DOMAIN workspaces)
      BY <1>6, <3>2
    <3>3. QED
      BY <3>1, <3>2
  <2>2. QED
    BY <1>1, <2>1 DEF Apart
<1>8. IsSynced(all)
  BY <1>1, <1>4, <1>5, <1>7 DEF IsSynced
<1>9. QED
  BY <1>8 DEF all, kept

\* A tab goes with its hub or with the Today notes it has visited.
LEMMA SyncedLosses ==
  ASSUME LiveInv, Coherent, NEW all, IsSynced(all), activeHub # NoUri, workspaces' = all
  PROVE  Losses
<1>1. DOMAIN workspaces' = knownHubs /\ DOMAIN workspaces \subseteq Hubs
  BY LiveFacts DEF IsSynced
<1>2. ASSUME NEW t \in AllTabs \ AllTabs' PROVE GoesWithItsNotes(t)
  <2>1. CASE \E h \in LeftHubs : t \in Ids(workspaces[h].tabs)
    BY <1>1, <2>1 DEF GoesWithItsNotes, LeftHubs
  <2>2. CASE \A h \in LeftHubs : t \notin Ids(workspaces[h].tabs)
    <3> DEFINE V(s) == Visited(s[Position(s, t)].history)
               S    == {s \in AllStrips : t \in Ids(s)}
    <3>1. ASSUME NEW s \in S PROVE V(s) \subseteq LeftHubs
      <4>1. PICK h \in DOMAIN workspaces : s = workspaces[h].tabs
        BY CoherentFacts DEF AllStrips
      <4>2. h \in knownHubs
        BY <2>2, <4>1 DEF LeftHubs
      <4>3. t \notin Ids(workspaces'[h].tabs)
        BY <1>1, <1>2, <4>2 DEF AllTabs
      <4>4. t \notin Ids(PrunedTabs(s, LeftHubs))
        BY <4>1, <4>2, <4>3 DEF IsSynced
      <4>5. s \in Strips(opened) /\ opened \in Nat
        BY <4>1, LiveFacts, LiveWorkspaceParts
      <4>6. Visited(HistoryOf(s, t)) \subseteq LeftHubs
        BY <4>4, <4>5, PrunedAway
      <4>7. QED
        BY <4>6 DEF HistoryOf
    <3>2. VisitedBy(t) = UNION {V(s) : s \in S}
      BY DEF VisitedBy
    <3> HIDE DEF S, V
    <3>3. VisitedBy(t) \subseteq LeftHubs
      BY <3>1, <3>2
    <3>4. QED
      BY <1>1, <3>3 DEF GoesWithItsNotes, LeftHubs
  <2>3. QED
    BY <2>1, <2>2
<1>3. QED
  BY <1>2 DEF Losses

LEMMA SyncHubsStep ==
  ASSUME LiveInv, Coherent, SyncHubs, ~strayed'
  PROVE  GoodStep
<1> DEFINE kept == PrunedWorkspaces(workspaces, LeftHubs)
           all  == [h \in knownHubs |-> IF h \in DOMAIN kept THEN kept[h]
                                        ELSE DefaultWorkspace(h)]
<1>1. /\ activeHub' \in
           IF activeHub = NoUri THEN knownHubs
           ELSE ActiveAmong(IF DOMAIN kept = {} THEN knownHubs ELSE DOMAIN kept, activeHub)
      /\ IF activeHub = NoUri
         THEN workspaces' = Mirrored(all, activeHub', strip, stripActive)
         ELSE workspaces' = all
      /\ IF activeHub' = NoUri \/ activeHub = NoUri
         THEN UNCHANGED <<strip, stripActive>>
         ELSE strip' = all[activeHub'].tabs /\ stripActive' = all[activeHub'].active
      /\ shown' = shown
  BY DEF SyncHubs, LeftHubs
<1>2. waiting' \in IF activeHub \in knownHubs \cup {NoUri} \/ knownHubs = {}
                   THEN {waiting}
                   ELSE {waiting \cup {[kind |-> "switch", hub |-> h]} : h \in knownHubs}
  BY DEF SyncHubs
<1>3. /\ activeHub = NoUri /\ stripActive = NoTab => shown \in {NoUri, activeHub'}
      /\ shown \notin LeftHubs
  BY DEF SyncHubs, LeftHubs
<1>4. IsSynced(all) /\ DOMAIN kept = DOMAIN workspaces \cap knownHubs
  BY SyncedParts, SyncedModel DEF LeftHubs
<1> HIDE DEF all, kept
<1>5. LiveModel(all, opened) /\ DOMAIN all = knownHubs /\ Apart(all)
  BY <1>4 DEF IsSynced
<1>6. /\ opened \in 0..MaxTabs /\ opened \in Nat /\ strip \in Strips(opened)
      /\ knownHubs \subseteq Hubs /\ NoUri \notin knownHubs /\ Switching' \in BOOLEAN
  BY LiveFacts, NoUriIsNoHub DEF LiveInv, VaultLive, Switching
<1>7. /\ stripActive \in {NoTab} \cup Ids(strip) /\ NoTab \notin Ids(strip)
      /\ activeHub # NoUri => activeHub \in DOMAIN workspaces /\ strip = workspaces[activeHub].tabs
      /\ activeHub = NoUri => DOMAIN workspaces = {} /\ AllTabs = Ids(strip)
  BY CoherentFacts
<1>9. ASSUME waiting' = waiting, ~Switching', shown # NoUri
      PROVE  /\ shown = Surface(workspaces, activeHub, strip, stripActive, shown)
             /\ activeHub # NoUri => stripActive = workspaces[activeHub].active
  <2>1. ~Switching
    BY <1>9 DEF Switching
  <2>2. QED
    BY <1>9, <2>1, CoherentFacts
<1>10. CASE activeHub = NoUri
  <2>1. /\ activeHub' \in knownHubs /\ waiting' = waiting
        /\ workspaces' = Mirrored(all, activeHub', strip, stripActive)
        /\ strip' = strip /\ stripActive' = stripActive
    BY <1>1, <1>2, <1>10
  <2>2. \A h \in DOMAIN all : all[h] = DefaultWorkspace(h)
    BY <1>4, <1>5, <1>7, <1>10 DEF IsSynced
  <2>3. ApartFrom(all, activeHub', strip)
    BY <2>2, EmptyStrip DEF ApartFrom, DefaultWorkspace
  <2>4. HubLive(DOMAIN all, activeHub')
    BY <1>5, <1>6, <2>1 DEF HubLive
  <2>5. Current(all[activeHub'].home) = activeHub'
    BY <1>5, <1>6, <2>1, <2>2, CurrentOfNew, NoUriIsNoHub DEF DefaultWorkspace
  <2>6. ASSUME ~Switching', shown # NoUri
        PROVE  shown = Surface(all, activeHub', strip, stripActive, shown)
    <3>1. CASE stripActive = NoTab
      BY <1>3, <1>6, <1>7, <1>10, <2>1, <2>5, <2>6, <3>1 DEF Surface
    <3>2. CASE stripActive # NoTab
      BY <1>7, <1>9, <2>1, <2>6, <3>2 DEF Surface
    <3>3. QED
      BY <3>1, <3>2
  <2>7. Agree(Mirrored(all, activeHub', strip, stripActive), activeHub', strip, stripActive,
              shown, Switching')
    BY <1>5, <1>6, <1>7, <2>3, <2>4, <2>6, AgreeMirrored
  <2>8. Coherent'
    BY <1>1, <2>1, <2>7 DEF Coherent
  <2>9. Losses
    BY <1>7, <1>10, <2>1 DEF Losses, AllTabs
  <2>10. Places
    BY <1>7, <1>10 DEF Places
  <2>11. QED
    BY <2>8, <2>9, <2>10 DEF GoodStep
<1>11. CASE activeHub # NoUri
  <2>1. workspaces' = all /\ activeHub \in DOMAIN workspaces
    BY <1>1, <1>7, <1>11
  <2>2. ASSUME activeHub' # NoUri
        PROVE  /\ strip' = all[activeHub'].tabs /\ stripActive' = all[activeHub'].active
               /\ activeHub' \in knownHubs
    <3>1. strip' = all[activeHub'].tabs /\ stripActive' = all[activeHub'].active
      BY <1>1, <1>11, <2>2
    <3>2. activeHub' \in knownHubs
      BY <1>1, <1>4, <1>11, <2>2 DEF ActiveAmong
    <3>3. QED
      BY <3>1, <3>2
  <2>3. activeHub' = NoUri => /\ strip' = strip /\ stripActive' = stripActive
                              /\ knownHubs = {}
    <3>1. activeHub' = NoUri => strip' = strip /\ stripActive' = stripActive
      BY <1>1
    <3>2. activeHub' = NoUri => knownHubs = {}
      BY <1>1, <1>4, <1>6, <1>11 DEF ActiveAmong
    <3>3. QED
      BY <3>1, <3>2
  <2>4. stripActive' \in {NoTab} \cup Ids(strip')
    <3>1. CASE activeHub' = NoUri
      BY <1>7, <2>3, <3>1
    <3>2. CASE activeHub' # NoUri
      BY <1>5, <2>2, <3>2, LiveWorkspaceParts
    <3>3. QED
      BY <3>1, <3>2
  <2>5. ASSUME ~Switching', shown # NoUri
        PROVE  /\ shown = Surface(all, activeHub', strip', stripActive', shown)
               /\ activeHub' # NoUri => stripActive' = all[activeHub'].active
    <3>1. CASE activeHub \in knownHubs
      <4>1. activeHub' = activeHub /\ waiting' = waiting
        BY <1>1, <1>2, <1>4, <1>7, <1>11, <3>1 DEF ActiveAmong
      <4>2. /\ shown = Surface(workspaces, activeHub, strip, stripActive, shown)
            /\ stripActive = workspaces[activeHub].active
        BY <1>9, <1>11, <2>5, <4>1
      <4>3. strip' = all[activeHub].tabs /\ stripActive' = all[activeHub].active
        BY <1>11, <2>2, <4>1
      <4>4. strip' = PrunedTabs(strip, LeftHubs)
        BY <1>4, <1>7, <1>11, <3>1, <4>3 DEF IsSynced
      <4>5. stripActive' = IF stripActive \in Ids(strip') THEN stripActive ELSE NoTab
        BY <1>4, <1>7, <1>11, <3>1, <4>2, <4>3 DEF IsSynced
      <4>6. CASE stripActive \in Ids(strip)
        <5>1. UriOf(strip, stripActive) = shown
          BY <4>2, <4>6 DEF Surface
        <5>2. stripActive \in Ids(strip') /\ UriOf(strip', stripActive) = shown
          BY <1>3, <1>6, <4>4, <4>6, <5>1, PrunedShows
        <5>3. QED
          BY <4>1, <4>3, <4>5, <5>2 DEF Surface
      <4>7. CASE stripActive = NoTab
        <5>1. shown = Current(workspaces[activeHub].home)
          BY <1>7, <1>11, <4>2, <4>7 DEF Surface
        <5>2. Current(all[activeHub].home) = shown
          BY <1>3, <1>4, <1>7, <1>11, <3>1, <5>1 DEF IsSynced
        <5>3. Ids(strip') \subseteq Ids(strip)
          BY <1>6, <4>4, PrunedStrip
        <5>4. stripActive' = NoTab /\ NoTab \notin Ids(strip')
          BY <1>7, <4>5, <4>7, <5>3
        <5>5. QED
          BY <1>11, <4>1, <4>3, <5>2, <5>4 DEF Surface
      <4>8. QED
        BY <1>7, <4>6, <4>7
    <3>2. CASE activeHub \notin knownHubs /\ knownHubs # {}
      <4>1. PICK h \in knownHubs : waiting' = waiting \cup {[kind |-> "switch", hub |-> h]}
        BY <1>2, <1>11, <3>2
      <4>2. Switching'
        <5> DEFINE c == [kind |-> "switch", hub |-> h]
        <5>1. c \in waiting' /\ c.kind = "switch"
          BY <4>1
        <5> HIDE DEF c
        <5>2. QED
          BY <5>1 DEF Switching
      <4>3. QED
        BY <2>5, <4>2
    <3>3. CASE knownHubs = {}
      <4>1. activeHub' = NoUri /\ waiting' = waiting
        BY <1>2, <2>2, <3>3
      <4>2. shown = Surface(workspaces, activeHub, strip, stripActive, shown)
        BY <1>9, <2>5, <4>1
      <4>3. QED
        BY <2>3, <4>1, <4>2 DEF Surface
    <3>4. QED
      BY <3>1, <3>2, <3>3
  <2>6. Agree(all, activeHub', strip', stripActive', shown, Switching')
    BY <1>5, <2>2, <2>4, <2>5 DEF Agree
  <2>7. Coherent'
    BY <1>1, <2>1, <2>6 DEF Coherent
  <2>8. Losses
    BY <1>4, <1>11, <2>1, SyncedLosses
  <2>9. Places
    <3>1. ASSUME NEW h \in DOMAIN workspaces \cap DOMAIN workspaces'
          PROVE  KeepsPlace(workspaces[h].tabs, workspaces'[h].tabs, stripActive')
      <4>1. workspaces[h].tabs \in Strips(opened) /\ h \in knownHubs
        BY <1>5, <2>1, LiveFacts, LiveWorkspaceParts
      <4>2. workspaces'[h].tabs = PrunedTabs(workspaces[h].tabs, LeftHubs)
        BY <1>4, <2>1, <4>1 DEF IsSynced
      <4>3. QED
        BY <1>6, <4>1, <4>2, PrunedKeeps
    <3>2. QED
      BY <3>1 DEF Places
  <2>10. QED
    BY <2>7, <2>8, <2>9 DEF GoodStep
<1>12. QED
  BY <1>10, <1>11

-----------------------------------------------------------------------------
(* Every step that does not stray is a good one.                           *)

LEMMA StrayedStays ==
  ASSUME LiveInv, WorkspaceNext, strayed
  PROVE  strayed'
<1>1. CASE \E u \in Openable, home \in BOOLEAN : OpenMarkdown(u, home)
  BY <1>1 DEF OpenMarkdown
<1>2. CASE \E u \in Openable : \E at \in 1..Len(strip) + 1 :
             OpenNewTab(u, at) \/ OpenBackgroundTab(u, at)
  BY <1>2 DEF OpenNewTab, OpenBackgroundTab
<1>3. CASE \E t \in TabIds : ActivateOpenTab(t)
  BY <1>3 DEF ActivateOpenTab
<1>4. CASE \E from, before \in 1..MaxTabs + 1 : Reorder(from, before)
  BY <1>4 DEF Reorder
<1>5. CASE \E back \in BOOLEAN : HistoryStep(IF back THEN -1 ELSE 1)
  BY <1>5 DEF HistoryStep
<1>6. CASE HomeSelector \/ CloseAll \/ ScanStart \/ ScanEnd \/ ProjectStrip
  BY <1>6 DEF HomeSelector, CloseAll, ScanStart, ScanEnd, ProjectStrip
<1>7. CASE \E kind \in {"close", "closeOther"}, t \in TabIds : CloseRequest(kind, t)
  BY <1>7 DEF CloseRequest
<1>8. CASE \E c \in waiting : \/ CloseFinish(c) \/ CloseOtherShow(c)
                              \/ CloseOtherFinish(c) \/ SwitchFinish(c)
  BY <1>8 DEF CloseFinish, CloseOtherShow, CloseOtherFinish, SwitchFinish
<1>9. CASE \E h \in Hubs : SwitchRequest(h) \/ HubChanged(h)
  BY <1>9 DEF SwitchRequest, HubChanged
<1>10. CASE \E u \in Uris : RemovedExternally(u) \/ DeletedInTree(u)
  BY <1>10 DEF RemovedExternally, DeletedInTree
<1>11. CASE \E u, v \in Uris : RenamedInTree(u, v)
  BY <1>11 DEF RenamedInTree
<1>12. CASE SyncHubs
  BY <1>12 DEF SyncHubs
<1>13. QED
  BY <1>1, <1>2, <1>3, <1>4, <1>5, <1>6, <1>7, <1>8, <1>9, <1>10, <1>11, <1>12
     DEF WorkspaceNext

LEMMA GoodNext ==
  ASSUME LiveInv, CoherentInv, WorkspaceNext, ~strayed'
  PROVE  GoodStep
<1>1. Coherent
  BY StrayedStays DEF CoherentInv
<1>2. CASE \E u \in Openable, home \in BOOLEAN : OpenMarkdown(u, home)
  BY <1>1, <1>2, OpenMarkdownStep
<1>3. CASE \E u \in Openable : \E at \in 1..Len(strip) + 1 : OpenNewTab(u, at)
  BY <1>1, <1>3, OpenNewTabStep
<1>4. CASE \E u \in Openable : \E at \in 1..Len(strip) + 1 : OpenBackgroundTab(u, at)
  BY <1>1, <1>4, OpenBackgroundTabStep
<1>5. CASE \E t \in TabIds : ActivateOpenTab(t)
  BY <1>1, <1>5, ActivateOpenTabStep
<1>6. CASE \E from, before \in 1..MaxTabs + 1 : Reorder(from, before)
  BY <1>1, <1>6, ReorderStep
<1>7. CASE \E back \in BOOLEAN : HistoryStep(IF back THEN -1 ELSE 1)
  BY <1>1, <1>7, HistoryStepStep
<1>8. CASE HomeSelector
  BY <1>1, <1>8, HomeSelectorStep
<1>9. CASE \E kind \in {"close", "closeOther"}, t \in TabIds : CloseRequest(kind, t)
  BY <1>1, <1>9, CloseRequestStep
<1>10. CASE \E c \in waiting : CloseFinish(c)
  BY <1>1, <1>10, CloseFinishStep
<1>11. CASE \E c \in waiting : CloseOtherShow(c)
  BY <1>1, <1>11, CloseOtherShowStep
<1>12. CASE \E c \in waiting : CloseOtherFinish(c)
  BY <1>1, <1>12, CloseOtherFinishStep
<1>13. CASE CloseAll
  BY <1>1, <1>13, CloseAllStep
<1>14. CASE \E h \in Hubs : SwitchRequest(h)
  BY <1>1, <1>14, SwitchRequestStep
<1>15. CASE \E c \in waiting : SwitchFinish(c)
  BY <1>1, <1>15, SwitchFinishStep
<1>16. CASE \E u \in Uris : RemovedExternally(u)
  BY <1>1, <1>16, RemovedExternallyStep
<1>17. CASE \E u \in Uris : DeletedInTree(u)
  BY <1>1, <1>17, DeletedInTreeStep
<1>18. CASE \E u, v \in Uris : RenamedInTree(u, v)
  BY <1>1, <1>18, RenamedInTreeStep
<1>19. CASE (\E h \in Hubs : HubChanged(h)) \/ ScanStart \/ ScanEnd
  BY <1>1, <1>19, VaultStep
<1>20. CASE SyncHubs
  BY <1>1, <1>20, SyncHubsStep
<1>21. CASE ProjectStrip
  BY <1>1, <1>21, ProjectStripStep
<1>22. QED
  BY <1>2, <1>3, <1>4, <1>5, <1>6, <1>7, <1>8, <1>9, <1>10, <1>11, <1>12, <1>13,
     <1>14, <1>15, <1>16, <1>17, <1>18, <1>19, <1>20, <1>21 DEF WorkspaceNext

LEMMA CoherentInitially ==
  ASSUME WorkspaceInit
  PROVE  CoherentInv
<1>1. /\ strip = <<>> /\ stripActive = NoTab /\ shown = activeHub
      /\ workspaces = [h \in vaultHubs |-> DefaultWorkspace(h)]
      /\ activeHub \in IF vaultHubs = {} THEN {NoUri} ELSE vaultHubs
      /\ vaultHubs \subseteq Hubs
  BY DEF WorkspaceInit
<1>2. Ids(<<>>) = {}
  BY EmptyStrip
<1>3. ASSUME NEW h \in vaultHubs
      PROVE  /\ workspaces[h].tabs = <<>> /\ workspaces[h].active = NoTab
             /\ Current(workspaces[h].home) = h
  <2>1. workspaces[h] = DefaultWorkspace(h) /\ h \in Uris
    BY <1>1, NoUriIsNoHub
  <2>2. /\ workspaces[h].tabs = <<>> /\ workspaces[h].active = NoTab
        /\ workspaces[h].home = History(h)
    BY <2>1 DEF DefaultWorkspace
  <2>3. QED
    BY <2>1, <2>2, CurrentOfNew
<1>4. activeHub # NoUri => activeHub \in vaultHubs
  BY <1>1
<1>5. Apart(workspaces)
  BY <1>1, <1>2, <1>3 DEF Apart
<1>6. shown = NoUri \/ shown = Surface(workspaces, activeHub, strip, stripActive, shown)
  BY <1>1, <1>2, <1>3, <1>4 DEF Surface
<1>7. Coherent
  BY <1>1, <1>3, <1>4, <1>5, <1>6 DEF Coherent, Agree
<1>8. QED
  BY <1>7 DEF CoherentInv

LEMMA CoherentStep ==
  ASSUME LiveInv, CoherentInv, [WorkspaceNext]_workspaceVars
  PROVE  CoherentInv'
<1>1. CASE WorkspaceNext
  BY <1>1, GoodNext DEF CoherentInv, GoodStep
<1>2. CASE UNCHANGED workspaceVars
  <2>1. UNCHANGED <<modelVars, stripVars, waiting, strayed>>
    BY <1>2 DEF workspaceVars
  <2>2. Switching => Switching'
    BY <2>1 DEF Switching
  <2>3. Coherent => Coherent'
    BY <2>1, <2>2, StillStep DEF GoodStep
  <2>4. QED
    BY <2>1, <2>3 DEF CoherentInv
<1>3. QED
  BY <1>1, <1>2

\* As long as no step strays, the strip is that of the active hub, no tab is
\* in two strips, and an editor that is not empty shows the current note of
\* the active surface or waits for a switch between hubs.
THEOREM WorkspaceCoherent == WorkspaceSpec => []CoherentInv
<1>1. WorkspaceInit => CoherentInv
  BY CoherentInitially
<1>2. LiveInv /\ CoherentInv /\ [WorkspaceNext]_workspaceVars => CoherentInv'
  BY CoherentStep
<1>3. QED
  BY <1>1, <1>2, WorkspaceLive, PTL DEF WorkspaceSpec

\* With every command done and every effect run, the note in the editor is the
\* current note of the active tab or of Home: opens, closes that come late,
\* drags, switches, renames and removals leave no other note behind.
THEOREM EditorFollowsSurface == WorkspaceSpec => []EditorShowsSurface
<1>1. ASSUME LiveInv, CoherentInv PROVE EditorShowsSurface
  <2>1. ASSUME Settled, ~strayed PROVE shown \in {NoUri, SurfaceUri}
    <3>1. ~Switching /\ Coherent
      BY <1>1, <2>1 DEF Settled, Switching, CoherentInv
    <3>2. shown = NoUri \/ shown = Surface(workspaces, activeHub, strip, stripActive, shown)
      BY <1>1, <3>1, CoherentFacts
    <3>3. SurfaceUri = Surface(workspaces, activeHub, strip, stripActive, shown)
      BY DEF SurfaceUri, Surface
    <3>4. QED
      BY <3>2, <3>3
  <2>2. QED
    BY <2>1 DEF EditorShowsSurface
<1>2. LiveInv /\ CoherentInv => EditorShowsSurface
  BY <1>1
<1>3. QED
  BY <1>2, WorkspaceLive, WorkspaceCoherent, PTL

\* No tab turns up in the strips of two hubs, whichever hubs are switched,
\* synced or renamed while commands wait.
THEOREM TabsStayWithOneHub == WorkspaceSpec => []TabsOfOneHub
<1>1. LiveInv /\ CoherentInv => TabsOfOneHub
  BY CoherentFacts DEF CoherentInv, TabsOfOneHub, Apart
<1>2. QED
  BY <1>1, WorkspaceLive, WorkspaceCoherent, PTL

\* No step that does not stray costs a tab: what goes away was closed, or every
\* note it had visited is gone, or its hub is.
THEOREM TabsAreKept == WorkspaceSpec => TabsStay
<1> DEFINE Kept == \A t \in AllTabs \ AllTabs' :
                     Closes(t) \/ GoesWithItsNotes(t) \/ strayed'
<1>1. ASSUME LiveInv, CoherentInv, WorkspaceNext PROVE Kept
  BY <1>1, GoodNext DEF GoodStep, Losses
<1>2. LiveInv /\ CoherentInv /\ [WorkspaceNext]_workspaceVars => [Kept]_workspaceVars
  BY <1>1
<1>3. QED
  BY <1>2, WorkspaceLive, WorkspaceCoherent, PTL DEF WorkspaceSpec, TabsStay

\* Whatever leaves or renames entries of the histories, a tab that is not
\* shown keeps its note until that note is gone or renamed.
THEOREM OthersAreKept == WorkspaceSpec => OthersKeepPlace
<1> DEFINE Kept == ~strayed' => \A h \in DOMAIN workspaces \cap DOMAIN workspaces' :
                     KeepsPlace(workspaces[h].tabs, workspaces'[h].tabs, stripActive')
<1>1. ASSUME LiveInv, CoherentInv, WorkspaceNext PROVE Kept
  BY <1>1, GoodNext DEF GoodStep, Places
<1>2. LiveInv /\ CoherentInv /\ [WorkspaceNext]_workspaceVars => [Kept]_workspaceVars
  BY <1>1
<1>3. QED
  BY <1>2, WorkspaceLive, WorkspaceCoherent, PTL DEF WorkspaceSpec, OthersKeepPlace
=============================================================================
