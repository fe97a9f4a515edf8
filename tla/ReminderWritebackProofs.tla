------------------------ MODULE ReminderWritebackProofs ------------------------
(***************************************************************************)
(* Theorems about ReminderWriteback, for any number of workers, notes,     *)
(* locks and edits: its type, mutual exclusion on each note, that a worker *)
(* strikes a line that reads as the reminder it was asked for, and that    *)
(* removals of one note take turns (RemovalTurns).                         *)
(***************************************************************************)
EXTENDS ReminderWriteback, ReminderIndexProofs, SequenceTheorems

---------------------------------------------------------------------------
(* What a stored reminder says about the text it was scanned from.         *)

\* The stored text has the token the id names on a line with the stored anchor.
\* It is all the resolver has to go by when the anchor is not unique.
Faithful(r, id) ==
  \A i \in Live(r.print) :
    r.print[i].tok = id.tok /\ Ordinal(r.print, i) = id.ord => r.print[i].anchor = r.anchor

FaithfulIndex(idx) == \A id \in DOMAIN idx : Faithful(idx[id], id)

\* Live tokens of one note with the same text have different ordinals
\* (scanner.rs: the ordinal counts the earlier ones).
LEMMA OrdinalInjective ==
  ASSUME NEW content, IsNote(content), NEW i \in Live(content), NEW k \in Live(content),
         content[i].tok = content[k].tok, Ordinal(content, i) = Ordinal(content, k)
  PROVE  i = k
<1>1. PICK n \in 0..MaxLines : content \in [1..n -> Lines]
  BY DEF IsNote
<1>2. n \in Nat /\ Live(content) \subseteq 1..n
  BY <1>1, IndexAssumption DEF IndexAssumption, Live
<1>3. ASSUME NEW a \in Live(content), NEW b \in Live(content), a < b,
             content[a].tok = content[b].tok, Ordinal(content, a) = Ordinal(content, b)
      PROVE  FALSE
  <2> DEFINE A == {j \in Live(content) : j < a /\ content[j].tok = content[a].tok}
             B == {j \in Live(content) : j < b /\ content[j].tok = content[b].tok}
  <2>1. a \in 1..n /\ b \in 1..n /\ \A j \in Live(content) : j \in 1..n
    BY <1>2
  <2>2. A \subseteq B
    BY <1>2, <1>3, <2>1
  <2>3. IsFiniteSet(1..n) /\ B \subseteq 1..n
    BY <1>2, FS_Interval
  <2>4. IsFiniteSet(B)
    BY <2>3, FS_Subset
  <2>5. Cardinality(B) = Cardinality(A)
    BY <1>3 DEF Ordinal
  <2>6. A = B
    BY <2>2, <2>4, <2>5, FS_Subset
  <2>7. a \in B /\ a \notin A
    BY <1>3, <2>1
  <2> QED
    BY <2>6, <2>7
<1>4. i \in 1..n /\ k \in 1..n
  BY <1>2
<1>5. ~(i < k) /\ ~(k < i)
  BY <1>3
<1> QED
  BY <1>4, <1>5

\* The fingerprint has the same live tokens at the same ordinals.
LEMMA TextOfOrdinal ==
  ASSUME NEW content, NEW i
  PROVE  /\ Live(TextOf(content)) = Live(content)
         /\ \A j \in DOMAIN content : /\ TextOf(content)[j].tok = content[j].tok
                                      /\ TextOf(content)[j].anchor = content[j].anchor
         /\ i \in DOMAIN content => Ordinal(TextOf(content), i) = Ordinal(content, i)
<1>1. /\ DOMAIN TextOf(content) = DOMAIN content
      /\ \A j \in DOMAIN content : /\ TextOf(content)[j].tok = content[j].tok
                                   /\ TextOf(content)[j].anchor = content[j].anchor
                                   /\ TextOf(content)[j].struck = content[j].struck
  BY DEF TextOf
<1>2. Live(TextOf(content)) = Live(content)
  BY <1>1 DEF Live
<1>3. ASSUME i \in DOMAIN content
      PROVE  Ordinal(TextOf(content), i) = Ordinal(content, i)
  <2>1. {j \in Live(TextOf(content)) : j < i /\ TextOf(content)[j].tok = TextOf(content)[i].tok}
          = {j \in Live(content) : j < i /\ content[j].tok = content[i].tok}
    BY <1>1, <1>2, <1>3 DEF Live
  <2> QED
    BY <2>1 DEF Ordinal
<1> QED
  BY <1>1, <1>2, <1>3

\* A scanned reminder is faithful.
LEMMA ScanFileFaithful ==
  ASSUME NEW path, NEW content, IsNote(content), NEW time, NEW lead
  PROVE  FaithfulIndex(ScanFile(path, content, time, lead))
<1> SUFFICES ASSUME NEW id \in DOMAIN ScanFile(path, content, time, lead)
             PROVE  Faithful(ScanFile(path, content, time, lead)[id], id)
  BY DEF FaithfulIndex
<1> DEFINE k == LineNamed(content, id)
           r == ScanFile(path, content, time, lead)[id]
<1>1. PICK i \in Live(content) : id = TokenId(path, content, i)
  BY DEF ScanFile
<1>2. \E j \in Live(content) : content[j].tok = id.tok /\ Ordinal(content, j) = id.ord
  BY <1>1 DEF TokenId
<1>3. k \in Live(content) /\ content[k].tok = id.tok /\ Ordinal(content, k) = id.ord
  BY <1>2 DEF LineNamed
<1>4. r.anchor = content[k].anchor /\ r.print = TextOf(content)
  BY DEF ScanFile, FreshReminder
<1> HIDE DEF k, r
<1>5. ASSUME NEW j \in Live(content), TextOf(content)[j].tok = id.tok,
             Ordinal(TextOf(content), j) = id.ord
      PROVE  TextOf(content)[j].anchor = content[k].anchor
  <2>1. j \in DOMAIN content
    BY DEF Live
  <2>2. content[j].tok = id.tok /\ Ordinal(content, j) = id.ord
    BY <1>5, <2>1, TextOfOrdinal
  <2>3. j = k
    BY <1>3, <2>2, OrdinalInjective
  <2> QED
    BY <2>1, <2>3, TextOfOrdinal
<1>6. Live(TextOf(content)) = Live(content)
  BY TextOfOrdinal
<1>7. Faithful(r, id)
  BY <1>4, <1>5, <1>6 DEF Faithful
<1> QED
  BY <1>7 DEF r

LEMMA JoinNotesFaithful ==
  ASSUME NEW f, \A p \in DOMAIN f : FaithfulIndex(f[p]) /\ \A id \in DOMAIN f[p] : id.path = p
  PROVE  FaithfulIndex(JoinNotes(f))
<1> SUFFICES ASSUME NEW id \in DOMAIN JoinNotes(f)
             PROVE  Faithful(JoinNotes(f)[id], id)
  BY DEF FaithfulIndex
<1>1. PICK p \in DOMAIN f : id \in DOMAIN f[p]
  BY DEF JoinNotes
<1>2. JoinNotes(f)[id] = f[p][id]
  BY <1>1 DEF JoinNotes
<1> QED
  BY <1>1, <1>2 DEF FaithfulIndex

LEMMA ScanVaultFaithful ==
  ASSUME NEW ns, DOMAIN ns = Paths, \A p \in Paths : IsNote(ns[p]),
         NEW time \in Times, NEW lead \in Nat
  PROVE  FaithfulIndex(ScanVault(ns, time, lead))
BY JoinNotesFaithful, ScanFileFaithful, ScanFileSound DEF ScanVault

LEMMA RescanFaithful ==
  ASSUME NEW ns, DOMAIN ns = Paths, \A p \in Paths : IsNote(ns[p]), NEW changed,
         NEW time \in Times, NEW lead \in Nat, NEW prior, FaithfulIndex(prior)
  PROVE  FaithfulIndex(RescanChangedFiles(ns, prior, changed, time, lead))
<1> DEFINE f == [p \in DOMAIN ns |->
                   IF p \in changed THEN ScanFile(p, ns[p], time, lead)
                                    ELSE RemindersOf(prior, p)]
<1>1. \A p : /\ FaithfulIndex(RemindersOf(prior, p))
             /\ \A id \in DOMAIN RemindersOf(prior, p) : id.path = p
  BY DEF RemindersOf, FaithfulIndex
<1>2. \A p \in Paths : \A id \in DOMAIN ScanFile(p, ns[p], time, lead) : id.path = p
  BY DEF ScanFile, TokenId
<1>3. ASSUME NEW p \in DOMAIN f
      PROVE  FaithfulIndex(f[p]) /\ \A id \in DOMAIN f[p] : id.path = p
  BY <1>1, <1>2, ScanFileFaithful
<1> QED
  BY <1>3, JoinNotesFaithful DEF RescanChangedFiles

\* Merging keeps each fresh reminder's text and anchor (merge.rs:148-186).
LEMMA MergeFaithful ==
  ASSUME NEW prior, NEW fresh, IsIndex(fresh), FaithfulIndex(fresh)
  PROVE  FaithfulIndex(Merge(prior, fresh))
<1>1. ASSUME NEW c \in DOMAIN fresh, NEW r
      PROVE  Carry(r, fresh[c]).print = fresh[c].print /\ Carry(r, fresh[c]).anchor = fresh[c].anchor
  BY DEF Carry, IsIndex, Reminders
<1>2. ASSUME NEW c \in DOMAIN fresh
      PROVE  /\ Merge(prior, fresh)[c].print = fresh[c].print
             /\ Merge(prior, fresh)[c].anchor = fresh[c].anchor
  BY <1>1 DEF Merge
<1>3. DOMAIN Merge(prior, fresh) = DOMAIN fresh
  BY DEF Merge
<1> QED
  BY <1>2, <1>3 DEF FaithfulIndex, Faithful

LEMMA ApplyRemoveResultFaithful ==
  ASSUME NEW idx, IsIndex(idx), FaithfulIndex(idx), NEW id, NEW outcome
  PROVE  FaithfulIndex(ApplyRemoveResult(idx, id, outcome))
<1>1. FaithfulIndex(Drop(idx, id))
  BY DEF FaithfulIndex, Drop
<1>2. ASSUME id \in DOMAIN idx
      PROVE  FaithfulIndex([idx EXCEPT ![id].state = "stale"])
  <2> DEFINE struck == [idx EXCEPT ![id].state = "stale"]
  <2>1. \A other \in DOMAIN idx : /\ struck[other].print = idx[other].print
                                  /\ struck[other].anchor = idx[other].anchor
    BY <1>2 DEF IsIndex, Reminders
  <2>2. DOMAIN struck = DOMAIN idx
    OBVIOUS
  <2> HIDE DEF struck
  <2>3. FaithfulIndex(struck)
    BY <2>1, <2>2 DEF FaithfulIndex, Faithful
  <2> QED
    BY <2>3 DEF struck
<1> QED
  BY <1>1, <1>2 DEF ApplyRemoveResult

\* What the resolver selects reads as the reminder does (resolve.rs:29-82).
LEMMA ResolveSameText ==
  ASSUME NEW content, NEW id, NEW r, Faithful(r, id), NEW i \in Resolve(content, id, r)
  PROVE  /\ i \in DOMAIN content /\ ~content[i].struck
         /\ content[i].tok = id.tok /\ content[i].anchor = r.anchor
<1>1. i \in Candidates(content, id)
  BY DEF Resolve
<1>2. i \in Live(content) /\ i \in DOMAIN content /\ ~content[i].struck /\ content[i].tok = id.tok
  BY <1>1 DEF Candidates, Live
<1>3. CASE content[i].anchor = r.anchor
  BY <1>2, <1>3
<1>4. CASE content[i].anchor # r.anchor
  <2>1. TextOf(content) = r.print /\ Ordinal(content, i) = id.ord
    BY <1>4 DEF Resolve
  <2>2. i \in Live(r.print) /\ r.print[i].tok = id.tok /\ Ordinal(r.print, i) = id.ord
    BY <1>2, <2>1, TextOfOrdinal
  <2>3. r.print[i].anchor = r.anchor
    BY <2>2 DEF Faithful
  <2> QED
    BY <1>2, <1>4, <2>1, <2>3, TextOfOrdinal
<1> QED
  BY <1>3, <1>4

---------------------------------------------------------------------------
(* The invariant.                                                          *)

\* The steps at which a worker has a lock, of its own or in common with others,
\* that the map still has: cleanup by one never drops the lock of another.
Holding == Critical \cup {"acquire", "cleanup"}

Wanted == \A w \in Workers :
  /\ pc[w] # "idle" => goal[w] \in Ids /\ Faithful(stored[w], goal[w])
  /\ pc[w] = "idle" => lockOf[w] = NoLock

Locked == \A w \in Workers :
  /\ pc[w] \in Holding => lockOf[w] # NoLock /\ lockMap[goal[w].path] = lockOf[w]
  /\ pc[w] \in Critical => holder[lockOf[w]] = w

\* The line to strike is one of the note as it was read.
Aimed == \A w \in Workers : pc[w] = "write" => line[w] \in DOMAIN buffer[w]

IndexGood == SoundIndex(index, 0) /\ FaithfulIndex(index)

Inv == TypeOK /\ IndexGood /\ Wanted /\ Locked /\ Aimed /\ StrikesSameText

---------------------------------------------------------------------------
(* The shape of notes.                                                     *)

LEMMA NotesAre ==
  ASSUME NEW ns \in InitialNotes
  PROVE  DOMAIN ns = Paths /\ \A p \in Paths : IsNote(ns[p])
BY WritebackAssumption DEF WritebackAssumption, IsNote

LEMMA StrikeNote ==
  ASSUME NEW c, IsNote(c), NEW i \in DOMAIN c
  PROVE  IsNote(Strike(c, i))
<1>1. PICK n \in 0..MaxLines : c \in [1..n -> Lines]
  BY DEF IsNote
<1>2. Strike(c, i) \in [1..n -> Lines]
  BY <1>1 DEF Strike, Lines
<1> QED
  BY <1>2 DEF IsNote

\* Len of a note.
LEMMA LenNote ==
  ASSUME NEW c, NEW n \in 0..MaxLines, c \in [1..n -> Lines]
  PROVE  Len(c) = n
<1>1. n \in Nat
  BY IndexAssumption DEF IndexAssumption
<1>2. c \in Seq(Lines)
  BY <1>1, SeqDef
<1>3. Len(c) \in Nat /\ DOMAIN c = 1..Len(c) /\ DOMAIN c = 1..n
  BY <1>2, LenProperties
<1> QED
  BY <1>1, <1>3

\* Edits make notes of notes.
LEMMA EditsAreNotes ==
  ASSUME NEW c, IsNote(c), NEW uid \in Uids, NEW d \in EditsOf(c, uid)
  PROVE  IsNote(d)
<1>1. PICK n \in 0..MaxLines : c \in [1..n -> Lines]
  BY DEF IsNote
<1>2. Len(c) = n /\ n \in Nat /\ MaxLines \in Nat /\ n <= MaxLines /\ DOMAIN c = 1..n
  BY <1>1, LenNote, IndexAssumption DEF IndexAssumption
<1>3. CASE d \in Inserted(c, uid)
  <2>1. n # MaxLines
    BY <1>2, <1>3 DEF Inserted
  <2>2. PICK i \in 1..(n + 1) :
          d \in {InsertAt(c, i, l) : l \in {m \in Lines : m.uid = uid /\ ~m.struck}}
    BY <1>2, <1>3, <2>1 DEF Inserted
  <2>3. PICK l \in Lines : d = InsertAt(c, i, l)
    BY <2>2
  <2>4. d = [j \in 1..(n + 1) |-> IF j < i THEN c[j] ELSE IF j = i THEN l ELSE c[j - 1]]
    BY <1>2, <2>3 DEF InsertAt
  <2>5. ASSUME NEW j \in 1..(n + 1) PROVE d[j] \in Lines
    <3>1. d[j] = IF j < i THEN c[j] ELSE IF j = i THEN l ELSE c[j - 1]
      BY <2>4
    <3>2. CASE j < i
      BY <1>1, <1>2, <2>2, <3>1, <3>2
    <3>3. CASE j = i
      BY <1>2, <2>2, <2>3, <3>1, <3>3
    <3>4. CASE i < j
      <4>1. j - 1 \in 1..n /\ ~(j < i) /\ j # i
        BY <1>2, <2>2, <3>4
      <4> QED
        BY <1>1, <3>1, <4>1
    <3> QED
      BY <1>2, <2>2, <3>2, <3>3, <3>4
  <2>6. d \in [1..(n + 1) -> Lines]
    BY <2>4, <2>5
  <2>7. n + 1 \in 0..MaxLines
    BY <1>2, <2>1
  <2> QED
    BY <2>6, <2>7 DEF IsNote
<1>4. CASE \E i \in DOMAIN c : d = Without(c, i)
  <2>1. PICK i \in 1..n : d = Without(c, i)
    BY <1>2, <1>4
  <2>2. d = [j \in 1..(n - 1) |-> IF j < i THEN c[j] ELSE c[j + 1]]
    BY <1>2, <2>1 DEF Without
  <2>3. \A j \in 1..(n - 1) : d[j] \in Lines
    BY <1>1, <1>2, <2>1, <2>2
  <2>4. d \in [1..(n - 1) -> Lines]
    BY <2>2, <2>3
  <2>5. n - 1 \in 0..MaxLines
    BY <1>2, <2>1
  <2> QED
    BY <2>4, <2>5 DEF IsNote
<1>5. CASE d \in Rewritten(c)
  <2>1. PICK i \in DOMAIN c :
          d \in {[c EXCEPT ![i] = l] : l \in {m \in Lines : m.uid = c[i].uid /\ m.tok = c[i].tok}}
    BY <1>5 DEF Rewritten
  <2>2. PICK l \in Lines : d = [c EXCEPT ![i] = l]
    BY <2>1
  <2>3. d \in [1..n -> Lines]
    BY <1>1, <2>2
  <2> QED
    BY <2>3 DEF IsNote
<1>6. CASE d \in Swapped(c)
  <2>1. PICK i \in DOMAIN c : d \in {[c EXCEPT ![i] = c[j], ![j] = c[i]] : j \in DOMAIN c}
    BY <1>6 DEF Swapped
  <2>3. PICK j \in DOMAIN c : d = [c EXCEPT ![i] = c[j], ![j] = c[i]]
    BY <2>1
  <2>2. d \in [1..n -> Lines]
    BY <1>1, <2>3
  <2> QED
    BY <2>2 DEF IsNote
<1> QED
  BY <1>3, <1>4, <1>5, <1>6 DEF EditsOf

---------------------------------------------------------------------------
(* The index.                                                              *)

LEMMA InitIndexGood == Init => IndexGood
<1> SUFFICES ASSUME Init PROVE IndexGood
  OBVIOUS
<1>1. DOMAIN notes = Paths /\ \A p \in Paths : IsNote(notes[p])
  BY NotesAre DEF Init
<1>2. Time \in Times /\ Lead \in Nat
  BY WritebackAssumption DEF WritebackAssumption
<1>3. SoundIndex(ScanVault(notes, Time, Lead), 0)
  BY <1>1, <1>2, ScanVaultSound
<1>4. FaithfulIndex(ScanVault(notes, Time, Lead))
  BY <1>1, <1>2, ScanVaultFaithful
<1> QED
  BY <1>3, <1>4 DEF Init, IndexGood

LEMMA RescanGood ==
  ASSUME Inv, NEW fresh, fresh = RescanChangedFiles(notes, index, touched, Time, Lead)
  PROVE  SoundIndex(Merge(index, fresh), 0) /\ FaithfulIndex(Merge(index, fresh))
<1>1. DOMAIN notes = Paths /\ \A p \in Paths : IsNote(notes[p])
  BY DEF Inv, TypeOK
<1>2. Time \in Times /\ Lead \in Nat
  BY WritebackAssumption DEF WritebackAssumption
<1>3. SoundIndex(index, 0) /\ FaithfulIndex(index)
  BY DEF Inv, IndexGood
<1>4. SoundIndex(fresh, 0) /\ FaithfulIndex(fresh)
  BY <1>1, <1>2, <1>3, RescanChangedFilesSound, RescanFaithful
<1> QED
  BY <1>3, <1>4, MergeSound, MergeFaithful DEF SoundIndex

---------------------------------------------------------------------------
(* Every action keeps the invariant.                                       *)

LEMMA InitInv == Init => Inv
<1> SUFFICES ASSUME Init PROVE Inv
  OBVIOUS
<1>1. IndexGood
  BY InitIndexGood
<1>2. DOMAIN notes = Paths /\ \A p \in Paths : IsNote(notes[p])
  BY NotesAre DEF Init
<1>3. << >> \in [1..0 -> Lines] /\ 0 \in 0..MaxLines /\ 0 \in 0..MaxEdits
  BY IndexAssumption, WritebackAssumption DEF IndexAssumption, WritebackAssumption
<1>4. IsNote(<< >>)
  BY <1>3 DEF IsNote
<1>5. TypeOK
  BY <1>1, <1>2, <1>3, <1>4 DEF Init, TypeOK, Steps, IndexGood, SoundIndex
<1>6. Wanted /\ Locked /\ Aimed /\ StrikesSameText
  BY DEF Init, Wanted, Locked, Aimed, StrikesSameText, Holding, Critical
<1> QED
  BY <1>1, <1>5, <1>6 DEF Inv

\* Steps that leave the index alone.
LEMMA IndexAside ==
  ASSUME Inv, UNCHANGED index
  PROVE  IndexGood'
BY DEF Inv, IndexGood

LEMMA LookupInv ==
  ASSUME Inv, NEW w \in Workers, NEW id, Lookup(w, id)
  PROVE  Inv'
<1>1. id \in Ids /\ index[id] \in Reminders /\ Faithful(index[id], id)
  BY DEF Lookup, Inv, TypeOK, IsIndex, IndexGood, FaithfulIndex
<1>2. TypeOK'
  BY <1>1 DEF Inv, TypeOK, Lookup, Goto, Steps, loopVars, lockVars
<1>3. IndexGood'
  BY IndexAside DEF Lookup, loopVars
<1>4. Wanted'
  BY <1>1 DEF Inv, TypeOK, Wanted, Lookup, Goto, lockVars
<1>5. Locked'
  BY DEF Inv, TypeOK, Locked, Lookup, Goto, lockVars, Holding, Critical
<1>6. Aimed' /\ StrikesSameText'
  BY DEF Inv, TypeOK, Aimed, StrikesSameText, Lookup, Goto
<1> QED
  BY <1>2, <1>3, <1>4, <1>5, <1>6 DEF Inv

\* A worker joins the lock that the map has, or makes one that nobody has.
LEMMA ForNoteInv ==
  ASSUME Inv, NEW w \in Workers, ForNote(w)
  PROVE  Inv'
<1> DEFINE p == goal[w].path
<1>1. goal[w] \in Ids /\ p \in Paths
  BY DEF ForNote, Inv, Wanted, Ids
<1>2. PICK l \in IF lockMap[p] = NoLock THEN FreeLocks ELSE {lockMap[p]} :
        /\ lockMap' = [lockMap EXCEPT ![p] = l]
        /\ lockOf' = [lockOf EXCEPT ![w] = l]
  BY DEF ForNote
<1>3. l \in LockIds /\ l # NoLock /\ (lockMap[p] # NoLock => l = lockMap[p])
  BY <1>1, <1>2, WritebackAssumption DEF WritebackAssumption, FreeLocks, Inv, TypeOK
<1>4. /\ pc[w] = "forNote" /\ pc' = [pc EXCEPT ![w] = "acquire"]
      /\ UNCHANGED <<notes, loopVars, goal, stored, buffer, line, result, holder, edits, struckBy>>
  BY DEF ForNote, Goto
<1> HIDE DEF p
<1>5. TypeOK'
  BY <1>1, <1>2, <1>3, <1>4 DEF Inv, TypeOK, Steps, loopVars
<1>6. IndexGood'
  BY <1>4, IndexAside DEF loopVars
<1>7. Wanted'
  BY <1>2, <1>3, <1>4 DEF Inv, TypeOK, Wanted
<1>8. Locked'
  <2> SUFFICES ASSUME NEW v \in Workers
               PROVE  /\ pc'[v] \in Holding => lockOf'[v] # NoLock /\ lockMap'[goal[v].path] = lockOf'[v]
                      /\ pc'[v] \in Critical => holder[lockOf'[v]] = v
    BY <1>4 DEF Locked
  <2>1. CASE v = w
    BY <1>1, <1>2, <1>3, <1>4, <2>1 DEF Inv, TypeOK, Critical, p
  <2>2. CASE v # w
    BY <1>1, <1>2, <1>3, <1>4, <2>2 DEF Inv, TypeOK, Locked, Holding, Critical
  <2> QED
    BY <2>1, <2>2
<1>9. Aimed' /\ StrikesSameText'
  BY <1>4 DEF Inv, TypeOK, Aimed, StrikesSameText
<1> QED
  BY <1>5, <1>6, <1>7, <1>8, <1>9 DEF Inv

LEMMA AcquireInv ==
  ASSUME Inv, NEW w \in Workers, Acquire(w)
  PROVE  Inv'
<1>1. /\ pc[w] = "acquire" /\ pc' = [pc EXCEPT ![w] = "read"]
      /\ holder[lockOf[w]] = NoWorker /\ holder' = [holder EXCEPT ![lockOf[w]] = w]
      /\ UNCHANGED <<notes, loopVars, goal, stored, buffer, line, result, lockOf, lockMap, edits, struckBy>>
  BY DEF Acquire, Goto
<1>2. lockOf[w] \in LockIds
  BY <1>1 DEF Inv, TypeOK, Locked, Holding
<1>3. TypeOK'
  BY <1>1, <1>2 DEF Inv, TypeOK, Steps, loopVars
<1>4. IndexGood'
  BY <1>1, IndexAside DEF loopVars
<1>5. Wanted'
  BY <1>1 DEF Inv, TypeOK, Wanted
<1>6. Locked'
  <2> SUFFICES ASSUME NEW v \in Workers
               PROVE  /\ pc'[v] \in Holding => lockOf[v] # NoLock /\ lockMap[goal[v].path] = lockOf[v]
                      /\ pc'[v] \in Critical => holder'[lockOf[v]] = v
    BY <1>1 DEF Locked
  <2>1. CASE v = w
    BY <1>1, <1>2, <2>1 DEF Inv, TypeOK, Locked, Holding, Critical
  <2>2. CASE v # w
    <3>1. v # NoWorker
      BY WritebackAssumption DEF WritebackAssumption
    <3> QED
      BY <1>1, <1>2, <2>2, <3>1 DEF Inv, TypeOK, Locked, Holding, Critical
  <2> QED
    BY <2>1, <2>2
<1>7. Aimed' /\ StrikesSameText'
  BY <1>1 DEF Inv, TypeOK, Aimed, StrikesSameText
<1> QED
  BY <1>3, <1>4, <1>5, <1>6, <1>7 DEF Inv

\* A step from one step of a critical section to another with the same lock.
LEMMA StaysLocked ==
  ASSUME Inv, NEW w \in Workers, NEW step \in Critical \cup {"write"},
         pc[w] \in Critical, Goto(w, step),
         UNCHANGED <<goal, stored, lockVars>>
  PROVE  Wanted' /\ Locked'
<1>1. Wanted'
  BY DEF Inv, TypeOK, Wanted, Goto, lockVars, Critical
<1>2. Locked'
  BY DEF Inv, TypeOK, Locked, Goto, lockVars, Holding, Critical
<1> QED
  BY <1>1, <1>2

\* What a returning resolve_and_strike leaves.
LEMMA DecideRight ==
  ASSUME Inv, NEW w \in Workers, NEW outcome \in {"removed", "stale"}, Decide(w, outcome),
         pc[w] \in Critical, UNCHANGED <<goal, stored, lockVars>>
  PROVE  /\ pc' \in [Workers -> Steps]
         /\ DOMAIN buffer' = Workers /\ \A v \in Workers : IsNote(buffer'[v])
         /\ line' \in [Workers -> 0..MaxLines]
         /\ result' \in [Workers -> {"removed", "stale"}]
         /\ Wanted' /\ Locked' /\ Aimed' /\ StrikesSameText'
<1>1. << >> \in [1..0 -> Lines] /\ 0 \in 0..MaxLines
  BY IndexAssumption DEF IndexAssumption
<1>2. IsNote(<< >>)
  BY <1>1 DEF IsNote
<1>3. Goto(w, "record")
  BY DEF Decide
<1>4. Wanted' /\ Locked'
  BY <1>3, StaysLocked DEF Critical
<1>5. Aimed' /\ StrikesSameText'
  BY <1>3 DEF Inv, TypeOK, Aimed, StrikesSameText, Decide, Goto
<1> QED
  BY <1>1, <1>2, <1>3, <1>4, <1>5 DEF Inv, TypeOK, Decide, Goto, Steps

\* The resolver's line has the text that the stored reminder has.
LEMMA ReadInv ==
  ASSUME Inv, NEW w \in Workers, Read(w)
  PROVE  Inv'
<1> DEFINE content == notes[goal[w].path]
           lines == Resolve(content, goal[w], stored[w])
<1>1. /\ pc[w] = "read" /\ UNCHANGED <<notes, loopVars, goal, stored, lockVars, edits, struckBy>>
      /\ \/ Decide(w, "removed")
         \/ Decide(w, "stale")
         \/ \E i \in lines : /\ buffer' = [buffer EXCEPT ![w] = content]
                             /\ line' = [line EXCEPT ![w] = i]
                             /\ Goto(w, "write")
                             /\ UNCHANGED result
  BY DEF Read
<1>2. IndexGood'
  BY <1>1, IndexAside DEF loopVars
<1>3. pc[w] \in Critical
  BY <1>1 DEF Critical
<1>4. CASE Decide(w, "removed") \/ Decide(w, "stale")
  <2>1. /\ pc' \in [Workers -> Steps]
        /\ DOMAIN buffer' = Workers /\ \A v \in Workers : IsNote(buffer'[v])
        /\ line' \in [Workers -> 0..MaxLines]
        /\ result' \in [Workers -> {"removed", "stale"}]
        /\ Wanted' /\ Locked' /\ Aimed' /\ StrikesSameText'
    BY <1>1, <1>3, <1>4, DecideRight
  <2>2. TypeOK'
    BY <1>1, <2>1 DEF Inv, TypeOK, loopVars, lockVars
  <2> QED
    BY <1>2, <2>1, <2>2 DEF Inv
<1>5. ASSUME NEW i \in lines,
             buffer' = [buffer EXCEPT ![w] = content], line' = [line EXCEPT ![w] = i],
             Goto(w, "write"), UNCHANGED result
      PROVE  Inv'
  <2>1. goal[w] \in Ids /\ Faithful(stored[w], goal[w]) /\ goal[w].path \in Paths
    BY <1>1 DEF Inv, Wanted, Ids
  <2>2. IsNote(content)
    BY <2>1 DEF Inv, TypeOK
  <2>3. /\ i \in DOMAIN content /\ ~content[i].struck
        /\ content[i].tok = goal[w].tok /\ content[i].anchor = stored[w].anchor
    BY <2>1, ResolveSameText
  <2>4. i \in 0..MaxLines
    <3>1. PICK n \in 0..MaxLines : content \in [1..n -> Lines]
      BY <2>2 DEF IsNote
    <3> QED
      BY <2>3, <3>1, IndexAssumption DEF IndexAssumption
  <2> HIDE DEF content, lines
  <2>5. TypeOK'
    BY <1>1, <1>5, <2>2, <2>4 DEF Inv, TypeOK, Goto, Steps, loopVars, lockVars
  <2>6. Wanted' /\ Locked'
    BY <1>1, <1>3, <1>5, StaysLocked
  <2>7. Aimed' /\ StrikesSameText'
    BY <1>1, <1>5, <2>3 DEF Inv, TypeOK, Aimed, StrikesSameText, Goto
  <2> QED
    BY <1>2, <2>5, <2>6, <2>7 DEF Inv
<1> QED
  BY <1>1, <1>4, <1>5

LEMMA FailsInv ==
  ASSUME Inv, NEW w \in Workers, ReadFails(w) \/ WriteFails(w)
  PROVE  Inv'
<1>1. /\ pc[w] \in Critical /\ Decide(w, "stale")
      /\ UNCHANGED <<notes, loopVars, goal, stored, lockVars, edits, struckBy>>
  BY DEF ReadFails, WriteFails, Critical
<1>2. IndexGood'
  BY <1>1, IndexAside DEF loopVars
<1>3. /\ pc' \in [Workers -> Steps]
      /\ DOMAIN buffer' = Workers /\ \A v \in Workers : IsNote(buffer'[v])
      /\ line' \in [Workers -> 0..MaxLines]
      /\ result' \in [Workers -> {"removed", "stale"}]
      /\ Wanted' /\ Locked' /\ Aimed' /\ StrikesSameText'
  BY <1>1, DecideRight
<1>4. TypeOK'
  BY <1>1, <1>3 DEF Inv, TypeOK, loopVars, lockVars
<1> QED
  BY <1>2, <1>3, <1>4 DEF Inv

LEMMA WriteInv ==
  ASSUME Inv, NEW w \in Workers, Write(w)
  PROVE  Inv'
<1> DEFINE p == goal[w].path
<1>1. /\ pc[w] = "write" /\ Decide(w, "removed") /\ UNCHANGED <<index, goal, stored, lockVars, edits>>
      /\ notes' = [notes EXCEPT ![p] = Strike(buffer[w], line[w])]
      /\ touched' = touched \cup {p}
      /\ struckBy' = struckBy \cup {[path |-> p, uid |-> buffer[w][line[w]].uid]}
  BY DEF Write
<1>2. p \in Paths
  BY <1>1 DEF Inv, Wanted, Ids
<1>3. line[w] \in DOMAIN buffer[w] /\ buffer[w][line[w]].uid \in Uids
  BY <1>1 DEF Inv, Aimed, TypeOK, IsNote, Lines
<1>4. IsNote(Strike(buffer[w], line[w]))
  BY <1>3, StrikeNote DEF Inv, TypeOK
<1>5. IndexGood'
  BY <1>1, IndexAside
<1> HIDE DEF p
<1>6. /\ pc' \in [Workers -> Steps]
      /\ DOMAIN buffer' = Workers /\ \A v \in Workers : IsNote(buffer'[v])
      /\ line' \in [Workers -> 0..MaxLines]
      /\ result' \in [Workers -> {"removed", "stale"}]
      /\ Wanted' /\ Locked' /\ Aimed' /\ StrikesSameText'
  BY <1>1, DecideRight DEF Critical
<1>7. DOMAIN notes' = Paths /\ \A q \in Paths : IsNote(notes'[q])
  BY <1>1, <1>4 DEF Inv, TypeOK
<1>8. touched' \subseteq Paths /\ struckBy' \subseteq [path : Paths, uid : Uids]
  BY <1>1, <1>2, <1>3 DEF Inv, TypeOK
<1>9. TypeOK'
  BY <1>1, <1>6, <1>7, <1>8 DEF Inv, TypeOK, lockVars
<1> QED
  BY <1>5, <1>6, <1>9 DEF Inv

\* Steps that leave notes, buffers and stored reminders alone.
LEMMA TextAside ==
  ASSUME Inv, NEW w \in Workers, NEW step \in Steps \ {"write"}, Goto(w, step),
         UNCHANGED <<goal, stored, buffer, line>>
  PROVE  Aimed' /\ StrikesSameText'
BY DEF Inv, TypeOK, Aimed, StrikesSameText, Goto

LEMMA RecordInv ==
  ASSUME Inv, NEW w \in Workers, Record(w)
  PROVE  Inv'
<1>1. /\ pc[w] = "record" /\ Goto(w, "unlock")
      /\ index' = ApplyRemoveResult(index, goal[w], result[w])
      /\ UNCHANGED <<notes, touched, goal, stored, buffer, line, result, lockVars, edits, struckBy>>
  BY DEF Record
<1>2. IndexGood'
  BY <1>1, ApplyRemoveResultSound, ApplyRemoveResultFaithful DEF Inv, IndexGood, SoundIndex
<1>3. IsIndex(index')
  BY <1>2 DEF IndexGood, SoundIndex
<1>4. TypeOK'
  BY <1>1, <1>3 DEF Inv, TypeOK, Goto, Steps, lockVars
<1>5. Wanted' /\ Locked'
  BY <1>1, StaysLocked DEF Critical
<1>6. Aimed' /\ StrikesSameText'
  BY <1>1, TextAside DEF Steps
<1> QED
  BY <1>2, <1>4, <1>5, <1>6 DEF Inv

LEMMA UnlockInv ==
  ASSUME Inv, NEW w \in Workers, Unlock(w)
  PROVE  Inv'
<1>1. /\ pc[w] = "unlock" /\ Goto(w, "cleanup")
      /\ holder' = [holder EXCEPT ![lockOf[w]] = NoWorker]
      /\ UNCHANGED <<notes, loopVars, goal, stored, buffer, line, result, lockOf, lockMap, edits, struckBy>>
  BY DEF Unlock
<1>2. lockOf[w] \in LockIds /\ holder[lockOf[w]] = w
  BY <1>1 DEF Inv, TypeOK, Locked, Holding, Critical
<1>3. TypeOK'
  BY <1>1, <1>2 DEF Inv, TypeOK, Goto, Steps, loopVars
<1>4. IndexGood'
  BY <1>1, IndexAside DEF loopVars
<1>5. Wanted'
  BY <1>1 DEF Inv, TypeOK, Wanted, Goto
<1>6. Locked'
  <2> SUFFICES ASSUME NEW v \in Workers
               PROVE  /\ pc'[v] \in Holding => lockOf[v] # NoLock /\ lockMap[goal[v].path] = lockOf[v]
                      /\ pc'[v] \in Critical => holder'[lockOf[v]] = v
    BY <1>1 DEF Locked
  <2>1. CASE v = w
    BY <1>1, <2>1 DEF Inv, TypeOK, Locked, Goto, Holding, Critical
  <2>2. CASE v # w
    BY <1>1, <1>2, <2>2 DEF Inv, TypeOK, Locked, Goto, Holding, Critical
  <2> QED
    BY <2>1, <2>2
<1>7. Aimed' /\ StrikesSameText'
  BY <1>1, TextAside DEF Steps
<1> QED
  BY <1>3, <1>4, <1>5, <1>6, <1>7 DEF Inv

\* Two owners of a lock and the map's entry make three (Arc::strong_count).
LEMMA SharedLockCount ==
  ASSUME Inv, NEW v \in Workers, NEW w \in Workers, v # w, NEW p \in Paths,
         lockOf[v] = lockMap[p], lockOf[w] = lockMap[p]
  PROVE  StrongCount(lockMap[p]) # 2
<1> DEFINE l  == lockMap[p]
           ws == {u \in Workers : lockOf[u] = l}
           ps == {q \in Paths : lockMap[q] = l}
<1>1. IsFiniteSet(Workers) /\ IsFiniteSet(Paths)
  BY WritebackAssumption DEF WritebackAssumption
<1>2. IsFiniteSet(ws) /\ IsFiniteSet(ps)
  BY <1>1, FS_Subset
<1>3. {v, w} \subseteq ws /\ {p} \subseteq ps
  OBVIOUS
<1>4. Cardinality({v}) = 1 /\ IsFiniteSet({v}) /\ Cardinality({p}) = 1
  BY FS_Singleton
<1>5. Cardinality({v} \cup {w}) = 2
  <2>1. w \notin {v}
    OBVIOUS
  <2>2. Cardinality({v} \cup {w}) = Cardinality({v}) + 1
    BY <1>4, <2>1, FS_AddElement
  <2> QED
    BY <1>4, <2>2
<1>6. {v} \cup {w} = {v, w}
  OBVIOUS
<1>7. 2 <= Cardinality(ws)
  BY <1>2, <1>3, <1>5, <1>6, FS_Subset
<1>8. 1 <= Cardinality(ps)
  BY <1>2, <1>3, <1>4, FS_Subset
<1>9. Cardinality(ws) \in Nat /\ Cardinality(ps) \in Nat
  BY <1>2, FS_CardinalityType
<1>10. StrongCount(l) = Cardinality(ws) + Cardinality(ps)
  BY DEF StrongCount
<1> HIDE DEF l, ws, ps
<1>11. StrongCount(l) # 2
  BY <1>7, <1>8, <1>9, <1>10
<1> QED
  BY <1>11 DEF l

\* The entry is dropped only when no other worker has a clone of it
\* (writeback.rs:81-95).
LEMMA CleanupInv ==
  ASSUME Inv, NEW w \in Workers, CleanupIfIdle(w)
  PROVE  Inv'
<1> DEFINE p == goal[w].path
<1>1. /\ pc[w] = "cleanup" /\ Goto(w, "drop")
      /\ lockMap' = IF lockMap[p] = lockOf[w] /\ StrongCount(lockOf[w]) = 2
                    THEN [lockMap EXCEPT ![p] = NoLock] ELSE lockMap
      /\ UNCHANGED <<notes, loopVars, goal, stored, buffer, line, result, lockOf, holder, edits, struckBy>>
  BY DEF CleanupIfIdle
<1>2. p \in Paths /\ lockMap[p] = lockOf[w]
  BY <1>1 DEF Inv, Wanted, Locked, Holding, Ids
<1> HIDE DEF p
<1>3. TypeOK'
  BY <1>1, <1>2 DEF Inv, TypeOK, Goto, Steps, loopVars
<1>4. IndexGood'
  BY <1>1, IndexAside DEF loopVars
<1>5. Wanted'
  BY <1>1 DEF Inv, TypeOK, Wanted, Goto
<1>6. Locked'
  <2> SUFFICES ASSUME NEW v \in Workers
               PROVE  /\ pc'[v] \in Holding => lockOf[v] # NoLock /\ lockMap'[goal[v].path] = lockOf[v]
                      /\ pc'[v] \in Critical => holder[lockOf[v]] = v
    BY <1>1 DEF Locked
  <2>1. CASE v = w
    BY <1>1, <2>1 DEF Inv, TypeOK, Goto, Holding, Critical
  <2>2. CASE v # w
    <3>1. pc'[v] = pc[v]
      BY <1>1, <2>2 DEF Goto, Inv, TypeOK
    <3>2. CASE lockMap' = lockMap
      BY <3>1, <3>2 DEF Inv, Locked
    <3>3. CASE lockMap' # lockMap /\ goal[v].path = p /\ pc[v] \in Holding
      <4>1. lockOf[v] = lockMap[p]
        BY <3>3 DEF Inv, Locked
      <4>2. StrongCount(lockMap[p]) = 2
        BY <1>1, <1>2, <3>3
      <4> QED
        BY <1>2, <2>2, <4>1, <4>2, SharedLockCount
    <3>4. CASE lockMap' # lockMap /\ goal[v].path # p
      BY <1>1, <3>1, <3>4 DEF Inv, TypeOK, Locked
    <3>5. CASE pc[v] \notin Holding
      BY <3>1, <3>5 DEF Holding
    <3> QED
      BY <3>2, <3>3, <3>4, <3>5
  <2> QED
    BY <2>1, <2>2
<1>7. Aimed' /\ StrikesSameText'
  BY <1>1, TextAside DEF Steps
<1> QED
  BY <1>3, <1>4, <1>5, <1>6, <1>7 DEF Inv

LEMMA DropLocalsInv ==
  ASSUME Inv, NEW w \in Workers, DropLocals(w)
  PROVE  Inv'
<1>1. /\ pc[w] = "drop" /\ pc' = [pc EXCEPT ![w] = "idle"]
      /\ lockOf' = [lockOf EXCEPT ![w] = NoLock]
      /\ goal' = [goal EXCEPT ![w] = NoId]
      /\ stored' = [stored EXCEPT ![w] = NoReminder]
      /\ result' = [result EXCEPT ![w] = "removed"]
      /\ UNCHANGED <<notes, loopVars, buffer, line, lockMap, holder, edits, struckBy>>
  BY DEF DropLocals, Goto
<1>2. TypeOK'
  BY <1>1 DEF Inv, TypeOK, Steps, loopVars
<1>3. IndexGood'
  BY <1>1, IndexAside DEF loopVars
<1>4. Wanted'
  BY <1>1 DEF Inv, TypeOK, Wanted
<1>5. Locked'
  BY <1>1 DEF Inv, TypeOK, Locked, Holding, Critical
<1>6. Aimed' /\ StrikesSameText'
  BY <1>1 DEF Inv, TypeOK, Aimed, StrikesSameText
<1> QED
  BY <1>2, <1>3, <1>4, <1>5, <1>6 DEF Inv

LEMMA RescanInv ==
  ASSUME Inv, Rescan
  PROVE  Inv'
<1>1. /\ index' = Merge(index, RescanChangedFiles(notes, index, touched, Time, Lead))
      /\ touched' = {} /\ UNCHANGED <<notes, workerVars, lockVars, edits, struckBy>>
  BY DEF Rescan
<1>2. IndexGood'
  BY <1>1, RescanGood DEF IndexGood
<1>3. IsIndex(index')
  BY <1>2 DEF IndexGood, SoundIndex
<1>4. TypeOK'
  BY <1>1, <1>3 DEF Inv, TypeOK, workerVars, lockVars
<1>5. Wanted' /\ Locked' /\ Aimed' /\ StrikesSameText'
  BY <1>1 DEF Inv, Wanted, Locked, Aimed, StrikesSameText, workerVars, lockVars
<1> QED
  BY <1>2, <1>4, <1>5 DEF Inv

LEMMA EditNoteInv ==
  ASSUME Inv, NEW p \in Paths, EditNote(p)
  PROVE  Inv'
<1>1. PICK c \in EditsOf(notes[p], NewUid[edits + 1]) :
        /\ notes' = [notes EXCEPT ![p] = c]
        /\ struckBy' \subseteq struckBy
  BY DEF EditNote
<1>2. /\ edits < MaxEdits /\ edits' = edits + 1 /\ touched' = touched \cup {p}
      /\ UNCHANGED <<index, workerVars, lockVars>>
  BY DEF EditNote
<1>3. edits + 1 \in 1..MaxEdits /\ edits' \in 0..MaxEdits
  BY <1>2, WritebackAssumption DEF Inv, TypeOK, WritebackAssumption
<1>4. NewUid[edits + 1] \in Uids
  BY <1>3, WritebackAssumption DEF WritebackAssumption
<1>5. IsNote(c)
  BY <1>1, <1>4, EditsAreNotes DEF Inv, TypeOK
<1>6. TypeOK'
  BY <1>1, <1>2, <1>3, <1>5 DEF Inv, TypeOK, workerVars, lockVars
<1>7. IndexGood'
  BY <1>2, IndexAside
<1>8. Wanted' /\ Locked' /\ Aimed' /\ StrikesSameText'
  BY <1>2 DEF Inv, Wanted, Locked, Aimed, StrikesSameText, workerVars, lockVars
<1> QED
  BY <1>6, <1>7, <1>8 DEF Inv

---------------------------------------------------------------------------
(* Strikes.                                                                *)

\* What a worker is about to write has every strike of the workers before it.
BufferKeeps ==
  \A w \in Workers : pc[w] = "write" =>
    \A s \in struckBy : s.path = goal[w].path => s.uid \in StillStruck(buffer[w])

StrikeInv == NoStrikeLost /\ BufferKeeps

\* A strike adds to what is struck in a note.
LEMMA StrikeStrikes ==
  ASSUME NEW c, IsNote(c), NEW i \in DOMAIN c
  PROVE  StillStruck(c) \cup {c[i].uid} \subseteq StillStruck(Strike(c, i))
<1> DEFINE d == Strike(c, i)
<1>1. PICK n \in 0..MaxLines : c \in [1..n -> Lines]
  BY DEF IsNote
<1>2. /\ DOMAIN d = DOMAIN c
      /\ \A j \in DOMAIN c : d[j].uid = c[j].uid /\ (c[j].struck => d[j].struck)
      /\ d[i].struck
  BY <1>1 DEF Strike, Lines
<1> HIDE DEF d
<1> SUFFICES StillStruck(c) \cup {c[i].uid} \subseteq StillStruck(d)
  BY DEF d
<1> QED
  BY <1>2 DEF StillStruck

\* Steps that strike nothing and prepare no write.
LEMMA StrikesAside ==
  ASSUME Inv, StrikeInv, UNCHANGED <<notes, struckBy>>,
         \A w \in Workers : pc'[w] = "write" =>
           pc[w] = "write" /\ goal'[w] = goal[w] /\ buffer'[w] = buffer[w]
  PROVE  StrikeInv'
BY DEF StrikeInv, NoStrikeLost, BufferKeeps

LEMMA ReadStrikes ==
  ASSUME Inv, StrikeInv, NEW w \in Workers, Read(w)
  PROVE  StrikeInv'
<1> DEFINE content == notes[goal[w].path]
<1>1. /\ UNCHANGED <<notes, goal, struckBy>>
      /\ \/ Decide(w, "removed") \/ Decide(w, "stale")
         \/ buffer' = [buffer EXCEPT ![w] = content] /\ Goto(w, "write")
  BY DEF Read
<1>2. CASE Decide(w, "removed") \/ Decide(w, "stale")
  BY <1>1, <1>2, StrikesAside DEF Decide, Goto, Inv, TypeOK
<1>3. CASE buffer' = [buffer EXCEPT ![w] = content] /\ Goto(w, "write")
  <2>1. /\ buffer'[w] = content
        /\ \A v \in Workers \ {w} : buffer'[v] = buffer[v] /\ pc'[v] = pc[v]
    BY <1>3 DEF Inv, TypeOK, Goto
  <2>2. BufferKeeps'
    BY <1>1, <2>1 DEF StrikeInv, NoStrikeLost, BufferKeeps
  <2> QED
    BY <1>1, <2>2 DEF StrikeInv, NoStrikeLost
<1> QED
  BY <1>1, <1>2, <1>3

\* Only one worker writes a note that was read before, so nothing it read has
\* been struck since.
LEMMA WriteStrikes ==
  ASSUME Inv, StrikeInv, NEW w \in Workers, Write(w)
  PROVE  StrikeInv'
<1> DEFINE p == goal[w].path
           new == [path |-> p, uid |-> buffer[w][line[w]].uid]
<1>1. /\ pc[w] = "write" /\ Decide(w, "removed") /\ goal' = goal
      /\ notes' = [notes EXCEPT ![p] = Strike(buffer[w], line[w])]
      /\ struckBy' = struckBy \cup {new}
  BY DEF Write
<1>2. p \in Paths /\ new.path = p /\ new.uid = buffer[w][line[w]].uid
  BY <1>1 DEF Inv, Wanted, Ids
<1>3. StillStruck(buffer[w]) \cup {new.uid} \subseteq StillStruck(Strike(buffer[w], line[w]))
  BY <1>1, <1>2, StrikeStrikes DEF Inv, Aimed, TypeOK
<1>4. /\ \A v \in Workers \ {w} : buffer'[v] = buffer[v] /\ pc'[v] = pc[v]
      /\ pc'[w] = "record"
  BY <1>1 DEF Inv, TypeOK, Decide, Goto
<1>5. \A v \in Workers \ {w} : pc[v] = "write" => goal[v].path # p
  BY <1>1 DEF Inv, Locked, Holding, Critical
<1> HIDE DEF p, new
<1>6. NoStrikeLost'
  <2> SUFFICES ASSUME NEW s \in struckBy' PROVE s.uid \in StillStruck(notes'[s.path])
    BY DEF NoStrikeLost
  <2>1. CASE s = new
    BY <1>1, <1>2, <1>3, <2>1 DEF Inv, TypeOK
  <2>2. CASE s \in struckBy /\ s.path = p
    BY <1>1, <1>2, <1>3, <2>2 DEF Inv, TypeOK, StrikeInv, BufferKeeps, p
  <2>3. CASE s \in struckBy /\ s.path # p
    BY <1>1, <2>3 DEF Inv, TypeOK, StrikeInv, NoStrikeLost
  <2> QED
    BY <1>1, <2>1, <2>2, <2>3
<1>7. BufferKeeps'
  BY <1>1, <1>2, <1>4, <1>5 DEF StrikeInv, BufferKeeps
<1> QED
  BY <1>6, <1>7 DEF StrikeInv

LEMMA EditStrikes ==
  ASSUME Inv, StrikeInv, NEW p \in Paths, EditNote(p)
  PROVE  StrikeInv'
<1>1. PICK c : /\ notes' = [notes EXCEPT ![p] = c]
               /\ struckBy' = {s \in struckBy : s.path = p => s.uid \in StillStruck(c)}
  BY DEF EditNote
<1>2. UNCHANGED <<pc, goal, buffer>>
  BY DEF EditNote, workerVars
<1>3. NoStrikeLost'
  BY <1>1 DEF Inv, TypeOK, StrikeInv, NoStrikeLost
<1>4. BufferKeeps'
  BY <1>1, <1>2 DEF StrikeInv, BufferKeeps
<1> QED
  BY <1>3, <1>4 DEF StrikeInv

LEMMA StrikeStep ==
  ASSUME Inv, StrikeInv, [Next]_vars
  PROVE  StrikeInv'
<1> USE DEF loopVars, workerVars, lockVars
<1>1. ASSUME NEW w \in Workers,
             \/ ForNote(w) \/ Acquire(w) \/ Record(w)
             \/ Unlock(w) \/ CleanupIfIdle(w) \/ DropLocals(w)
             \/ \E id \in DOMAIN index : Lookup(w, id)
      PROVE  StrikeInv'
  <2>1. PICK step \in Steps \ {"write"} : pc' = [pc EXCEPT ![w] = step]
    BY <1>1 DEF ForNote, Acquire, Record, Unlock, CleanupIfIdle, DropLocals, Lookup, Goto, Steps
  <2>2. /\ UNCHANGED <<notes, struckBy, buffer>>
        /\ \A v \in Workers \ {w} : goal'[v] = goal[v]
    BY <1>1 DEF ForNote, Acquire, Record, Unlock, CleanupIfIdle, DropLocals, Lookup, Inv, TypeOK
  <2> QED
    BY <2>1, <2>2, StrikesAside DEF Inv, TypeOK
<1>2. ASSUME NEW w \in Workers, ReadFails(w) \/ WriteFails(w) PROVE StrikeInv'
  BY <1>2, StrikesAside DEF ReadFails, WriteFails, Decide, Goto, Inv, TypeOK
<1>3. CASE Rescan
  BY <1>3, StrikesAside DEF Rescan
<1>4. CASE UNCHANGED vars
  BY <1>4, StrikesAside DEF vars
<1> QED
  BY <1>1, <1>2, <1>3, <1>4, ReadStrikes, WriteStrikes, EditStrikes DEF Next, WorkerStep

---------------------------------------------------------------------------
(* Claims of a rescan.                                                     *)

\* Where the fingerprint did not change, neither did the anchor an id stands for.
Agree(prior, fresh) ==
  \A c \in DOMAIN prior \cap DOMAIN fresh :
    prior[c].print = fresh[c].print => prior[c].anchor = fresh[c].anchor

LEMMA RescanAgrees ==
  ASSUME NEW ns, DOMAIN ns = Paths, \A p \in Paths : IsNote(ns[p]), NEW changed,
         NEW time \in Times, NEW lead \in Nat, NEW prior, FaithfulIndex(prior)
  PROVE  Agree(prior, RescanChangedFiles(ns, prior, changed, time, lead))
<1> DEFINE f == [p \in DOMAIN ns |->
                   IF p \in changed THEN ScanFile(p, ns[p], time, lead)
                                    ELSE RemindersOf(prior, p)]
           fresh == RescanChangedFiles(ns, prior, changed, time, lead)
<1> SUFFICES ASSUME NEW c \in DOMAIN prior, c \in DOMAIN fresh,
                    prior[c].print = fresh[c].print
             PROVE  prior[c].anchor = fresh[c].anchor
  BY DEF Agree
<1>1. PICK p \in Paths : c \in DOMAIN f[p]
  BY DEF RescanChangedFiles, JoinNotes
<1>2. c.path = p
  BY <1>1 DEF ScanFile, TokenId, RemindersOf
<1>3. fresh[c] = f[p][c]
  BY <1>2 DEF RescanChangedFiles, JoinNotes
<1>4. CASE p \notin changed
  BY <1>1, <1>3, <1>4 DEF RemindersOf
<1>5. CASE p \in changed
  <2> DEFINE content == ns[p]
             k == LineNamed(content, c)
  <2>1. fresh[c] = ScanFile(p, content, time, lead)[c] /\ c \in DOMAIN ScanFile(p, content, time, lead)
    BY <1>1, <1>3, <1>5
  <2>2. PICK i \in Live(content) : c = TokenId(p, content, i)
    BY <2>1 DEF ScanFile
  <2>3. \E j \in Live(content) : content[j].tok = c.tok /\ Ordinal(content, j) = c.ord
    BY <2>2 DEF TokenId
  <2>4. k \in Live(content) /\ content[k].tok = c.tok /\ Ordinal(content, k) = c.ord
    BY <2>3 DEF LineNamed
  <2>5. fresh[c] = FreshReminder(content, k, time, lead)
    BY <2>1 DEF ScanFile
  <2> HIDE DEF content, k, fresh
  <2>6. fresh[c].anchor = content[k].anchor /\ fresh[c].print = TextOf(content)
    BY <2>5 DEF FreshReminder
  <2>7. k \in DOMAIN content
    BY <2>4 DEF Live
  <2>8. /\ k \in Live(TextOf(content)) /\ TextOf(content)[k].tok = c.tok
        /\ Ordinal(TextOf(content), k) = c.ord /\ TextOf(content)[k].anchor = content[k].anchor
    BY <2>4, <2>7, TextOfOrdinal
  <2>9. Faithful(prior[c], c)
    BY DEF FaithfulIndex
  <2> QED
    BY <2>6, <2>8, <2>9 DEF Faithful
<1> QED
  BY <1>4, <1>5

\* With twin tokens, every claim is for a line with the same anchor.
LEMMA ClaimSameAnchor ==
  ASSUME NEW prior, NEW fresh, Agree(prior, fresh),
         NEW id \in DOMAIN prior, NEW c \in Claims(prior, fresh, id),
         DuplicateKey(prior, fresh, id)
  PROVE  fresh[c].anchor = prior[id].anchor
BY DEF Claims, ByAnchor, ByOrdinal, AnchorMatches, SameContent, Agree

LEMMA FewClaims ==
  ASSUME NEW prior, NEW fresh, NEW id \in DOMAIN prior
  PROVE  Cardinality(Claims(prior, fresh, id)) <= 1
<1>1. ASSUME NEW S, S \subseteq {id} PROVE Cardinality(S) <= 1
  BY <1>1, SingletonBound
<1>2. CASE ~DuplicateKey(prior, fresh, id)
  BY <1>1, <1>2 DEF Claims
<1>3. CASE DuplicateKey(prior, fresh, id) /\ Cardinality(ByAnchor(prior, fresh, id)) = 1
  BY <1>3 DEF Claims
<1>4. CASE DuplicateKey(prior, fresh, id) /\ Cardinality(ByAnchor(prior, fresh, id)) # 1
  BY <1>1, <1>4 DEF Claims, ByOrdinal
<1> QED
  BY <1>2, <1>3, <1>4

\* A claim is for a token of the same text in the same note.
LEMMA ClaimSameContent ==
  ASSUME NEW prior, NEW fresh, NEW id, NEW c \in Claims(prior, fresh, id)
  PROVE  c \in DOMAIN fresh /\ c.path = id.path /\ c.tok = id.tok
BY DEF Claims, ByAnchor, ByOrdinal, AnchorMatches, SameContent

\* No two reminders claim one: two that claim by anchor would have the same
\* unique one, and by ordinal a reminder claims its own id only, whose anchor is
\* then its own.
LEMMA ClaimsApart ==
  ASSUME NEW prior, NEW fresh, IsIndex(prior), Agree(prior, fresh),
         NEW a \in DOMAIN prior, NEW b \in DOMAIN prior,
         NEW c \in Claims(prior, fresh, a), c \in Claims(prior, fresh, b)
  PROVE  a = b
<1>1. c \in DOMAIN fresh /\ c.path = a.path /\ c.tok = a.tok /\ c.path = b.path /\ c.tok = b.tok
  BY ClaimSameContent
<1>2. SameContent(prior, a) = SameContent(prior, b) /\ SameContent(fresh, a) = SameContent(fresh, b)
  BY <1>1 DEF SameContent
<1>3. a \in SameContent(prior, a) /\ b \in SameContent(prior, a)
  BY <1>1 DEF SameContent
<1>4. DuplicateKey(prior, fresh, a) <=> DuplicateKey(prior, fresh, b)
  BY <1>2 DEF DuplicateKey
<1>5. CASE ~DuplicateKey(prior, fresh, a)
  <2>1. IsFiniteSet(SameContent(prior, a)) /\ ~(Cardinality(SameContent(prior, a)) > 1)
    BY <1>5, SameContentFinite DEF DuplicateKey
  <2> QED
    BY <1>3, <2>1, AtMostOne
<1>6. CASE DuplicateKey(prior, fresh, a)
  <2>1. prior[a].anchor = fresh[c].anchor /\ prior[b].anchor = fresh[c].anchor
    BY <1>4, <1>6, ClaimSameAnchor
  <2> DEFINE S == AnchorMatches(prior, a, fresh[c].anchor)
  <2>2. a \in S /\ b \in S /\ IsFiniteSet(S)
    BY <1>3, <2>1, AnchorMatchesFinite DEF AnchorMatches
  <2>3. S = AnchorMatches(prior, b, fresh[c].anchor)
    BY <1>2 DEF AnchorMatches
  <2>4. CASE Cardinality(S) = 1
    <3> HIDE DEF S
    <3> QED
      BY <2>2, <2>4, AtMostOne
  <2>5. CASE Cardinality(S) # 1
    <3>1. ByAnchor(prior, fresh, a) = {} /\ ByAnchor(prior, fresh, b) = {}
      BY <2>1, <2>3, <2>5 DEF ByAnchor
    <3>2. Cardinality({}) = 0
      BY FS_EmptySet
    <3>3. c \in ByOrdinal(prior, fresh, a) /\ c \in ByOrdinal(prior, fresh, b)
      BY <1>4, <1>6, <3>1, <3>2 DEF Claims
    <3> QED
      BY <3>3 DEF ByOrdinal
  <2> QED
    BY <2>4, <2>5
<1> QED
  BY <1>5, <1>6

LEMMA RescanClaims ==
  ASSUME Inv
  PROVE  MergeIsSafe
<1> DEFINE fresh == Rescanned
<1>1. DOMAIN notes = Paths /\ \A p \in Paths : IsNote(notes[p])
  BY DEF Inv, TypeOK
<1>2. Time \in Times /\ Lead \in Nat
  BY WritebackAssumption DEF WritebackAssumption
<1>3. FaithfulIndex(index) /\ IsIndex(index)
  BY DEF Inv, IndexGood, TypeOK
<1>4. Agree(index, fresh)
  BY <1>1, <1>2, <1>3, RescanAgrees DEF Rescanned
<1> HIDE DEF fresh
<1>5. ASSUME NEW id \in DOMAIN index, NEW c \in Claims(index, fresh, id)
      PROVE  /\ Claimants(index, fresh, c) = {id}
             /\ DuplicateKey(index, fresh, id) => fresh[c].anchor = index[id].anchor
  <2>1. DuplicateKey(index, fresh, id) => fresh[c].anchor = index[id].anchor
    BY <1>4, ClaimSameAnchor
  <2>2. id \in Claimants(index, fresh, c)
    BY ClaimSameContent DEF Claimants, SameContent
  <2>3. ASSUME NEW other \in Claimants(index, fresh, c) PROVE other = id
    <3>1. other \in DOMAIN index /\ c \in Claims(index, fresh, other)
      BY DEF Claimants, SameContent
    <3> QED
      BY <1>3, <1>4, <3>1, ClaimsApart
  <2> QED
    BY <2>1, <2>2, <2>3
<1>6. \A id \in DOMAIN index : Cardinality(Claims(index, fresh, id)) <= 1
  BY FewClaims
<1> QED
  BY <1>5, <1>6 DEF MergeIsSafe, fresh

---------------------------------------------------------------------------
(* Removals of one note take turns.                                        *)

Busy(w) == pc[w] \in {"write", "record"}

\* The turn of a note is that of the one worker that is busy with it.
TurnsAre ==
  /\ turns = [p \in Paths |-> turns[p]]
  /\ \A p \in Paths : (\A w \in Workers : Busy(w) => goal[w].path # p) => turns[p] = Turns!NoTurn
  /\ \A w \in Workers : Busy(w) => goal[w].path \in Paths /\ turns[goal[w].path] = TurnOf(w)
  /\ MutualExclusion
  /\ \A w \in Workers : pc[w] # "idle" => goal[w] \in Ids /\ goal[w].path \in Paths

LEMMA OneTurnEach == Inv => TurnsAre
<1> SUFFICES ASSUME Inv PROVE TurnsAre
  OBVIOUS
<1>1. MutualExclusion
  BY DEF Inv, Locked, Holding, MutualExclusion
<1>2. \A w \in Workers : pc[w] # "idle" => goal[w] \in Ids /\ goal[w].path \in Paths
  BY DEF Inv, Wanted, Ids
<1>3. turns = [p \in Paths |-> turns[p]]
  BY DEF turns
<1>4. ASSUME NEW p \in Paths, \A w \in Workers : Busy(w) => goal[w].path # p
      PROVE  turns[p] = Turns!NoTurn
  <2>1. Removing(p) = {}
    BY <1>4 DEF Removing, Busy
  <2> QED
    BY <2>1 DEF turns, Turns!NoTurn
<1>5. ASSUME NEW w \in Workers, Busy(w)
      PROVE  goal[w].path \in Paths /\ turns[goal[w].path] = TurnOf(w)
  <2>1. goal[w].path \in Paths
    BY <1>2, <1>5 DEF Busy
  <2>2. w \in Removing(goal[w].path)
    BY <1>5 DEF Removing, Busy
  <2>3. \A v \in Removing(goal[w].path) : v = w
    BY <1>1, <1>5 DEF MutualExclusion, Removing, Busy, Critical
  <2>4. (CHOOSE v \in Removing(goal[w].path) : TRUE) = w
    BY <2>2, <2>3
  <2>5. turns[goal[w].path] = TurnOf(CHOOSE v \in Removing(goal[w].path) : TRUE)
    BY <2>1, <2>2 DEF turns
  <2> QED
    BY <2>1, <2>4, <2>5
<1> QED
  BY <1>1, <1>2, <1>3, <1>4, <1>5 DEF TurnsAre

\* What a worker that is busy holds does not change.
StaysBusy(w) ==
  /\ Busy(w)' <=> Busy(w)
  /\ Busy(w) => UNCHANGED <<pc[w], goal[w], buffer[w], line[w], result[w]>>

\* Steps outside a worker's turn are no steps of a turn.
LEMMA SameTurns ==
  ASSUME TurnsAre, TurnsAre', \A w \in Workers : StaysBusy(w)
  PROVE  turns' = turns
<1>1. ASSUME NEW p \in Paths PROVE turns'[p] = turns[p]
  <2>1. CASE \E w \in Workers : Busy(w) /\ goal[w].path = p
    <3>1. PICK w \in Workers : Busy(w) /\ goal[w].path = p
      BY <2>1
    <3>2. Busy(w)' /\ goal'[w].path = p /\ TurnOf(w)' = TurnOf(w)
      BY <3>1 DEF StaysBusy, TurnOf
    <3>3. turns'[p] = TurnOf(w)'
      BY <3>2 DEF TurnsAre
    <3>4. turns[p] = TurnOf(w)
      BY <3>1 DEF TurnsAre
    <3> QED
      BY <3>2, <3>3, <3>4
  <2>2. CASE \A w \in Workers : Busy(w) => goal[w].path # p
    <3>1. \A w \in Workers : Busy(w)' => goal'[w].path # p
      BY <2>2 DEF StaysBusy
    <3>2. turns'[p] = Turns!NoTurn
      BY <3>1 DEF TurnsAre, Turns!NoTurn
    <3> QED
      BY <2>2, <3>2 DEF TurnsAre
  <2> QED
    BY <2>1, <2>2
<1>2. turns = [p \in Paths |-> turns[p]] /\ turns' = [p \in Paths |-> turns'[p]]
  BY DEF TurnsAre
<1> QED
  BY <1>1, <1>2

\* A step of one worker in its turn changes the turn of its note alone.
LEMMA OwnTurn ==
  ASSUME TurnsAre, TurnsAre', NEW w \in Workers, pc[w] \in Critical, goal' = goal,
         \A v \in Workers \ {w} : StaysBusy(v)
  PROVE  /\ goal[w] \in Ids /\ goal[w].path \in Paths
         /\ turns[goal[w].path] = IF Busy(w) THEN TurnOf(w) ELSE Turns!NoTurn
         /\ pc'[w] \in Critical =>
              turns' = [turns EXCEPT ![goal[w].path] =
                          IF Busy(w)' THEN TurnOf(w)' ELSE Turns!NoTurn]
<1>1. goal[w] \in Ids /\ goal[w].path \in Paths
  BY DEF TurnsAre, Critical
<1>2. \A v \in Workers \ {w} : pc[v] \in Critical => goal[v].path # goal[w].path
  BY DEF TurnsAre, MutualExclusion
<1>3. turns[goal[w].path] = IF Busy(w) THEN TurnOf(w) ELSE Turns!NoTurn
  <2>1. CASE Busy(w)
    BY <2>1 DEF TurnsAre
  <2>2. CASE ~Busy(w)
    <3>1. \A v \in Workers : Busy(v) => goal[v].path # goal[w].path
      BY <1>2, <2>2 DEF Busy, Critical
    <3> QED
      BY <1>1, <2>2, <3>1 DEF TurnsAre
  <2> QED
    BY <2>1, <2>2
<1>4. ASSUME pc'[w] \in Critical, NEW p \in Paths
      PROVE  turns'[p] = IF p = goal[w].path THEN IF Busy(w)' THEN TurnOf(w)' ELSE Turns!NoTurn
                         ELSE turns[p]
  <2>1. CASE p = goal[w].path
    <3>1. CASE Busy(w)'
      BY <2>1, <3>1 DEF TurnsAre
    <3>2. CASE ~Busy(w)'
      <4>1. \A v \in Workers : Busy(v)' => goal'[v].path # p
        BY <1>2, <2>1, <3>2 DEF StaysBusy, Busy, Critical
      <4>2. turns'[p] = Turns!NoTurn
        BY <4>1 DEF TurnsAre, Turns!NoTurn
      <4> QED
        BY <2>1, <3>2, <4>2
    <3> QED
      BY <3>1, <3>2
  <2>2. CASE p # goal[w].path
    <3>1. CASE \E v \in Workers : Busy(v) /\ goal[v].path = p
      <4>1. PICK v \in Workers : Busy(v) /\ goal[v].path = p
        BY <3>1
      <4>2. v # w
        BY <2>2, <4>1
      <4>3. Busy(v)' /\ goal'[v].path = p /\ TurnOf(v)' = TurnOf(v)
        BY <4>1, <4>2 DEF StaysBusy, TurnOf
      <4>4. turns'[p] = TurnOf(v)'
        BY <4>3 DEF TurnsAre
      <4>5. turns[p] = TurnOf(v)
        BY <4>1 DEF TurnsAre
      <4> QED
        BY <2>2, <4>3, <4>4, <4>5
    <3>2. CASE \A v \in Workers : Busy(v) => goal[v].path # p
      <4>1. \A v \in Workers : Busy(v)' => goal'[v].path # p
        BY <2>2, <3>2 DEF StaysBusy
      <4>2. turns'[p] = Turns!NoTurn
        BY <4>1 DEF TurnsAre, Turns!NoTurn
      <4> QED
        BY <2>2, <3>2, <4>2 DEF TurnsAre
    <3> QED
      BY <3>1, <3>2
  <2> QED
    BY <2>1, <2>2
<1>5. turns = [p \in Paths |-> turns[p]] /\ turns' = [p \in Paths |-> turns'[p]]
  BY DEF TurnsAre
<1>6. DOMAIN turns = Paths
  BY <1>5
<1>7. ASSUME pc'[w] \in Critical
      PROVE  turns' = [turns EXCEPT ![goal[w].path] =
                         IF Busy(w)' THEN TurnOf(w)' ELSE Turns!NoTurn]
  BY <1>4, <1>5, <1>6, <1>7
<1> QED
  BY <1>1, <1>3, <1>7

\* Every step of the threads, the loop and the users is one of a turn, or one
\* that no turn sees.
LEMMA TurnsStep ==
  ASSUME Inv, Inv', [Next]_vars
  PROVE  [Turns!TurnsNext]_Turns!turnVars
<1>1. TurnsAre
  BY OneTurnEach
<1>2. TurnsAre'
  BY OneTurnEach, PTL
<1>3. ASSUME NEW w \in Workers, WorkerStep(w)
      PROVE  [Turns!TurnsNext]_Turns!turnVars
  <2>1. CASE ForNote(w) \/ Acquire(w) \/ Unlock(w) \/ CleanupIfIdle(w) \/ DropLocals(w)
    <3>1. \A v \in Workers : StaysBusy(v)
      BY <2>1 DEF StaysBusy, Busy, ForNote, Acquire, Unlock, CleanupIfIdle, DropLocals, Goto, Inv, TypeOK
    <3>2. UNCHANGED <<notes, index>>
      BY <2>1 DEF ForNote, Acquire, Unlock, CleanupIfIdle, DropLocals, loopVars
    <3>3. turns' = turns
      BY <1>1, <1>2, <3>1, SameTurns
    <3> QED
      BY <3>2, <3>3 DEF Turns!turnVars
  <2>2. CASE Read(w) \/ ReadFails(w) \/ Write(w) \/ WriteFails(w) \/ Record(w)
    <3> DEFINE id == goal[w]
    <3>1. pc[w] \in Critical /\ pc'[w] \in Critical /\ goal' = goal
      BY <2>2 DEF Read, ReadFails, Write, WriteFails, Record, Decide, Goto, Critical, Inv, TypeOK
    <3>2. \A v \in Workers \ {w} : StaysBusy(v)
      BY <2>2 DEF StaysBusy, Busy, Read, ReadFails, Write, WriteFails, Record, Decide, Goto, Inv, TypeOK
    <3>3. /\ id \in Ids /\ id.path \in Paths
          /\ turns[id.path] = IF Busy(w) THEN TurnOf(w) ELSE Turns!NoTurn
          /\ turns' = [turns EXCEPT ![id.path] = IF Busy(w)' THEN TurnOf(w)' ELSE Turns!NoTurn]
      BY <1>1, <1>2, <3>1, <3>2, OwnTurn
    <3>4. CASE Read(w)
      <4>1. pc[w] = "read" /\ UNCHANGED <<notes, index>>
        BY <3>4 DEF Read, loopVars
      <4>2. turns[id.path] = Turns!NoTurn
        BY <3>3, <4>1 DEF Busy
      <4>3. CASE /\ Candidates(notes[id.path], id) = {}
                 /\ Decide(w, "removed")
        <5>1. pc'[w] = "record" /\ result'[w] = "removed"
          BY <4>3 DEF Decide, Goto, Inv, TypeOK
        <5>2. Busy(w)' /\ TurnOf(w)' = Turns!Decided(id, "removed")
          BY <3>1, <5>1 DEF Busy, TurnOf, Turns!Decided
        <5>3. Turns!Decline(id)
          BY <3>3, <4>1, <4>2, <4>3, <5>2 DEF Turns!Decline
        <5> QED
          BY <3>3, <5>3 DEF Turns!TurnsNext
      <4>4. CASE Decide(w, "stale")
        <5>1. pc'[w] = "record" /\ result'[w] = "stale"
          BY <4>4 DEF Decide, Goto, Inv, TypeOK
        <5>2. Busy(w)' /\ TurnOf(w)' = Turns!Decided(id, "stale")
          BY <3>1, <5>1 DEF Busy, TurnOf, Turns!Decided
        <5>3. Turns!Decline(id)
          BY <3>3, <4>1, <4>2, <5>2 DEF Turns!Decline
        <5> QED
          BY <3>3, <5>3 DEF Turns!TurnsNext
      <4>5. CASE \E i \in Resolve(notes[id.path], id, stored[w]) :
                   /\ buffer' = [buffer EXCEPT ![w] = notes[id.path]]
                   /\ line' = [line EXCEPT ![w] = i]
                   /\ Goto(w, "write")
        <5>1. PICK i \in Resolve(notes[id.path], id, stored[w]) :
                   /\ buffer' = [buffer EXCEPT ![w] = notes[id.path]]
                   /\ line' = [line EXCEPT ![w] = i]
                   /\ Goto(w, "write")
          BY <4>5
        <5>2. i \in Candidates(notes[id.path], id)
          BY <5>1 DEF Resolve
        <5>3. pc'[w] = "write" /\ buffer'[w] = notes[id.path] /\ line'[w] = i
          BY <5>1 DEF Goto, Inv, TypeOK
        <5>4. Busy(w)' /\ TurnOf(w)' = Turns!Found(id, notes[id.path], i)
          BY <3>1, <5>3 DEF Busy, TurnOf, Turns!Found
        <5>5. Turns!Find(id)
          BY <3>3, <4>1, <4>2, <5>2, <5>4 DEF Turns!Find
        <5> QED
          BY <3>3, <5>5 DEF Turns!TurnsNext
      <4> QED
        BY <3>4, <4>3, <4>4, <4>5 DEF Read
    <3>5. CASE ReadFails(w)
      <4>1. pc[w] = "read" /\ UNCHANGED <<notes, index>>
        BY <3>5 DEF ReadFails, loopVars
      <4>2. turns[id.path] = Turns!NoTurn
        BY <3>3, <4>1 DEF Busy
      <4>3. pc'[w] = "record" /\ result'[w] = "stale"
        BY <3>5 DEF ReadFails, Decide, Goto, Inv, TypeOK
      <4>4. Busy(w)' /\ TurnOf(w)' = Turns!Decided(id, "stale")
        BY <3>1, <4>3 DEF Busy, TurnOf, Turns!Decided
      <4>5. Turns!Decline(id)
        BY <3>3, <4>1, <4>2, <4>4 DEF Turns!Decline
      <4> QED
        BY <3>3, <4>5 DEF Turns!TurnsNext
    <3>6. CASE Write(w)
      <4>1. pc[w] = "write" /\ UNCHANGED index
        BY <3>6 DEF Write
      <4>2. turns[id.path] = Turns!Found(id, buffer[w], line[w])
        BY <3>3, <4>1 DEF Busy, TurnOf, Turns!Found
      <4>3. pc'[w] = "record" /\ result'[w] = "removed"
        BY <3>6 DEF Write, Decide, Goto, Inv, TypeOK
      <4>4. Busy(w)' /\ TurnOf(w)' = Turns!Decided(id, "removed")
        BY <3>1, <4>3 DEF Busy, TurnOf, Turns!Decided
      <4>5. notes' = [notes EXCEPT ![id.path] = Strike(buffer[w], line[w])]
        BY <3>6 DEF Write
      <4>6. /\ turns[id.path].step = "found" /\ turns[id.path].id = id
            /\ turns[id.path].note = buffer[w] /\ turns[id.path].line = line[w]
        BY <4>2 DEF Turns!Found
      <4>7. turns' = [turns EXCEPT ![id.path] = Turns!Decided(id, "removed")]
        BY <3>3, <4>4
      <4>8. Turns!StrikeFound(id.path)
        BY <4>1, <4>5, <4>6, <4>7 DEF Turns!StrikeFound
      <4> QED
        BY <3>3, <4>8 DEF Turns!TurnsNext
    <3>7. CASE WriteFails(w)
      <4>1. pc[w] = "write" /\ UNCHANGED <<notes, index>>
        BY <3>7 DEF WriteFails, loopVars
      <4>2. turns[id.path] = Turns!Found(id, buffer[w], line[w])
        BY <3>3, <4>1 DEF Busy, TurnOf, Turns!Found
      <4>3. pc'[w] = "record" /\ result'[w] = "stale"
        BY <3>7 DEF WriteFails, Decide, Goto, Inv, TypeOK
      <4>4. Busy(w)' /\ TurnOf(w)' = Turns!Decided(id, "stale")
        BY <3>1, <4>3 DEF Busy, TurnOf, Turns!Decided
      <4>5. turns[id.path].step = "found" /\ turns[id.path].id = id
        BY <4>2 DEF Turns!Found
      <4>6. turns' = [turns EXCEPT ![id.path] = Turns!Decided(id, "stale")]
        BY <3>3, <4>4
      <4>7. Turns!GiveUp(id.path)
        BY <4>1, <4>5, <4>6 DEF Turns!GiveUp
      <4> QED
        BY <3>3, <4>7 DEF Turns!TurnsNext
    <3>8. CASE Record(w)
      <4>1. pc[w] = "record" /\ UNCHANGED notes
        BY <3>8 DEF Record
      <4>2. turns[id.path] = Turns!Decided(id, result[w])
        BY <3>3, <4>1 DEF Busy, TurnOf, Turns!Decided
      <4>3. ~Busy(w)'
        BY <3>8 DEF Record, Goto, Busy, Inv, TypeOK
      <4>4. index' = ApplyRemoveResult(index, id, result[w])
        BY <3>8 DEF Record
      <4>5. Turns!RecordOutcome(id.path)
        BY <3>3, <4>1, <4>2, <4>3, <4>4 DEF Turns!RecordOutcome, Turns!Decided
      <4> QED
        BY <3>3, <4>5 DEF Turns!TurnsNext
    <3> QED
      BY <2>2, <3>4, <3>5, <3>6, <3>7, <3>8
  <2> QED
    BY <1>3, <2>1, <2>2 DEF WorkerStep
<1>4. ASSUME NEW w \in Workers, NEW id \in DOMAIN index, Lookup(w, id)
      PROVE  [Turns!TurnsNext]_Turns!turnVars
  <2>1. \A v \in Workers : StaysBusy(v)
    BY <1>4 DEF StaysBusy, Busy, Lookup, Goto, Inv, TypeOK
  <2>2. UNCHANGED <<notes, index>>
    BY <1>4 DEF Lookup, loopVars
  <2>3. turns' = turns
    BY <1>1, <1>2, <2>1, SameTurns
  <2> QED
    BY <2>2, <2>3 DEF Turns!turnVars
<1>5. CASE Rescan \/ \E p \in Paths : EditNote(p)
  <2>1. \A v \in Workers : StaysBusy(v)
    BY <1>5 DEF StaysBusy, Busy, Rescan, EditNote, workerVars
  <2>2. turns' = turns
    BY <1>1, <1>2, <2>1, SameTurns
  <2>3. CASE Rescan
    <3>1. Turns!Reindex
      BY <2>2, <2>3 DEF Rescan, Turns!Reindex
    <3> QED
      BY <3>1 DEF Turns!TurnsNext
  <2>4. CASE \E p \in Paths : EditNote(p)
    <3>1. PICK p \in Paths : EditNote(p)
      BY <2>4
    <3>2. PICK c : notes' = [notes EXCEPT ![p] = c]
      BY <3>1 DEF EditNote
    <3>3. notes'[p] = c
      BY <3>2 DEF Inv, TypeOK
    <3>4. Turns!EditOf(p)
      BY <2>2, <3>1, <3>2, <3>3 DEF EditNote, Turns!EditOf
    <3> QED
      BY <3>4 DEF Turns!TurnsNext
  <2> QED
    BY <1>5, <2>3, <2>4
<1>6. CASE UNCHANGED vars
  <2>1. \A v \in Workers : StaysBusy(v)
    BY <1>6 DEF StaysBusy, Busy, vars, workerVars
  <2>2. turns' = turns
    BY <1>1, <1>2, <2>1, SameTurns
  <2> QED
    BY <1>6, <2>2 DEF Turns!turnVars, vars, loopVars
<1> QED
  BY <1>3, <1>4, <1>5, <1>6 DEF Next

---------------------------------------------------------------------------
(* Theorems.                                                               *)

\* The inductive invariant of removals.
THEOREM WritebackInvariance == Spec => []Inv
<1>1. Inv /\ [Next]_vars => Inv'
  <2> SUFFICES ASSUME Inv, [Next]_vars PROVE Inv'
    OBVIOUS
  <2>1. CASE \E w \in Workers : WorkerStep(w)
    BY <2>1, ForNoteInv, AcquireInv, ReadInv, FailsInv, WriteInv, RecordInv, UnlockInv,
       CleanupInv, DropLocalsInv DEF WorkerStep
  <2>2. CASE \E w \in Workers, id \in DOMAIN index : Lookup(w, id)
    BY <2>2, LookupInv
  <2>3. CASE Rescan
    BY <2>3, RescanInv
  <2>4. CASE \E p \in Paths : EditNote(p)
    BY <2>4, EditNoteInv
  <2>5. CASE UNCHANGED vars
    <3>1. UNCHANGED <<notes, loopVars, workerVars, lockVars, edits, struckBy>>
      BY <2>5 DEF vars
    <3>2. TypeOK'
      BY <3>1 DEF Inv, TypeOK, loopVars, workerVars, lockVars
    <3>3. IndexGood' /\ Wanted' /\ Locked' /\ Aimed' /\ StrikesSameText'
      BY <3>1 DEF Inv, IndexGood, Wanted, Locked, Aimed, StrikesSameText,
         loopVars, workerVars, lockVars
    <3> QED
      BY <3>2, <3>3 DEF Inv
  <2> QED
    BY <2>1, <2>2, <2>3, <2>4, <2>5 DEF Next
<1> QED
  BY <1>1, InitInv, PTL DEF Spec

\* The type of a removal's state, for any number of workers, notes and edits.
THEOREM WritebackTypeCorrect == Spec => []TypeOK
<1>1. Inv => TypeOK
  BY DEF Inv
<1> QED
  BY <1>1, WritebackInvariance, PTL

\* One worker at a time reads and replaces a note, although lock entries are
\* dropped and made again (writeback.rs:5-11, 81-95).
THEOREM OneWorkerPerNote == Spec => []MutualExclusion
<1>1. Inv => MutualExclusion
  BY DEF Inv, Locked, MutualExclusion, Holding
<1> QED
  BY <1>1, WritebackInvariance, PTL

\* The line about to be struck reads as the reminder did, whatever edits and
\* rescans came in between (resolve.rs:11-18).
THEOREM StrikesWhatWasShown == Spec => []StrikesSameText
<1>1. Inv => StrikesSameText
  BY DEF Inv
<1> QED
  BY <1>1, WritebackInvariance, PTL

\* No strike of a worker is taken back by another worker's write, although each
\* writes a whole note that it read before (writeback.rs:5-11).
THEOREM StrikesStay == Spec => []NoStrikeLost
<1>1. Init => StrikeInv
  BY DEF Init, StrikeInv, NoStrikeLost, BufferKeeps
<1>2. Inv /\ StrikeInv /\ [Next]_vars => StrikeInv'
  BY StrikeStep
<1>3. StrikeInv => NoStrikeLost
  BY DEF StrikeInv
<1> QED
  BY <1>1, <1>2, <1>3, WritebackInvariance, PTL DEF Spec

\* A rescan at any time carries the state of a reminder to one token at most, of
\* one reminder at most to each, and between twins only where the line reads the
\* same, for notes of any length (merge.rs:14-18).
THEOREM RescansCarrySafely == Spec => []MergeIsSafe
BY RescanClaims, WritebackInvariance, PTL

\* Removals of one note take turns, from the read of the note to the record of
\* the outcome, however many threads, locks, edits and rescans there are; and an
\* outcome is "removed" only if the line was struck or was not there
\* (writeback.rs:5-11, 140-142).
THEOREM RemovalsTakeTurns == Spec => ImplementsTurns
<1>1. Init => Turns!TurnsInit
  <2> SUFFICES ASSUME Init PROVE Turns!TurnsInit
    OBVIOUS
  <2>1. \A p \in Paths : Removing(p) = {}
    BY DEF Init, Removing
  <2> QED
    BY <2>1 DEF Turns!TurnsInit, Turns!NoTurn, turns
<1>2. Inv /\ Inv' /\ [Next]_vars => [Turns!TurnsNext]_Turns!turnVars
  BY TurnsStep
<1> QED
  BY <1>1, <1>2, WritebackInvariance, PTL DEF Spec, ImplementsTurns, Turns!TurnsSpec
=============================================================================
