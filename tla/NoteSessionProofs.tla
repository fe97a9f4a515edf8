------------------------- MODULE NoteSessionProofs -------------------------
(***************************************************************************)
(* Theorems about NoteSession, for any notes, texts, saves and opens.      *)
(***************************************************************************)
EXTENDS NoteSession, TLAPS

(* The generation counter lets at most one pending open take effect. *)
OneLive == \A o1, o2 \in opens : o1.live /\ o2.live => o1 = o2

(* A pending open that will be shown is the one the user gave last. *)
LiveIsWanted == \A o \in opens : o.live /\ ~o.background => o.uri = wanted

(* What a reconciliation has read is a note. *)
ReadIsNote == reading # NoBody => reading.uri \in Notes

NoteInv == NoteTypeOK /\ ReadIsNote /\ OneLive /\ LiveIsWanted /\ LastOpenWins

LEMMA BodyType ==
  /\ NoBody \in Bodies
  /\ \A n \in Notes \cup {NoNote}, t \in Text : Body(n, t) \in Bodies
  /\ \A b \in Bodies : b.uri \in Notes \cup {NoNote} /\ b.md \in Text
BY DEF NoBody, Body, Bodies, Text

(* The inductive invariant holds when the app starts. *)
THEOREM NoteInitInv == NoteInit => NoteInv
<1> SUFFICES ASSUME NoteInit PROVE NoteInv
  OBVIOUS
<1>1. NoteTypeOK
  <2>1. 0 \in 0..MaxFailures /\ {} \in Text
    BY NoteAssumption DEF Text
  <2>2. <<>> \in Seq(Jobs)
    OBVIOUS
  <2>3. /\ disk \in [Notes -> Text] /\ cache \in [Notes -> {NoText} \cup Text]
        /\ chain \in Seq(Jobs) /\ failures \in 0..MaxFailures
    BY <2>1, <2>2 DEF NoteInit
  <2>4. QED
    BY <2>1, <2>3, BodyType DEF NoteInit, NoteTypeOK
<1>2. ReadIsNote /\ OneLive /\ LiveIsWanted /\ LastOpenWins
  BY DEF NoteInit, ReadIsNote, OneLive, LiveIsWanted, LastOpenWins
<1>3. QED
  BY <1>1, <1>2 DEF NoteInv

-----------------------------------------------------------------------------
(* The types.                                                              *)

LEMMA JobType ==
  /\ ActiveJob \in Jobs
  /\ \A n \in Notes \cup {NoNote}, t \in Text : OutgoingJob(n, t) \in Jobs
BY DEF ActiveJob, OutgoingJob, Jobs, Text

(* A queue whose first save is replaced, taken off, or that gets another. *)
LEMMA ChainType ==
  ASSUME chain \in Seq(Jobs)
  PROVE  /\ \A job \in Jobs : Append(chain, job) \in Seq(Jobs)
         /\ chain # <<>> =>
              /\ Tail(chain) \in Seq(Jobs)
              /\ Head(chain) \in Jobs
              /\ \A job \in Jobs : [chain EXCEPT ![1] = job] \in Seq(Jobs)
<1>1. \A job \in Jobs : Append(chain, job) \in Seq(Jobs)
  OBVIOUS
<1>2. ASSUME chain # <<>> PROVE Tail(chain) \in Seq(Jobs) /\ Head(chain) \in Jobs
  BY <1>2
<1>3. ASSUME chain # <<>>, NEW job \in Jobs
      PROVE  [chain EXCEPT ![1] = job] \in Seq(Jobs)
  BY <1>3
<1>4. QED
  BY <1>1, <1>2, <1>3

LEMMA JobFields ==
  ASSUME NEW job \in Jobs
  PROVE  /\ job.uri \in Notes \cup {NoNote} /\ job.md \in Text
         /\ job.kind \in {"active", "outgoing"}
         /\ \A a \in {"queued", "writing", "written"} : [job EXCEPT !.at = a] \in Jobs
BY DEF Jobs

LEMMA SaveType ==
  ASSUME NoteTypeOK,
         JobStart \/ JobWrite \/ JobFail \/ JobFinish \/ AutosaveFire \/ Flush
  PROVE  NoteTypeOK'
<1> USE DEF conflictVars, editorVars, ghostVars, NoteTypeOK
<1>1. ASSUME JobStart PROVE NoteTypeOK'
  <2>1. chain' \in Seq(Jobs)
    <3> DEFINE job == Head(chain)
               taken == [kind |-> "active", uri |-> selected, md |-> editor,
                         at |-> "writing"]
    <3>1. job \in Jobs /\ taken \in Jobs /\ [job EXCEPT !.at = "writing"] \in Jobs
      BY <1>1, ChainType, JobFields DEF JobStart, Jobs
    <3>2. \/ chain' = Tail(chain)
          \/ chain' = [chain EXCEPT ![1] = taken]
          \/ chain' = [chain EXCEPT ![1] = [job EXCEPT !.at = "writing"]]
      BY <1>1 DEF JobStart
    <3> HIDE DEF job, taken
    <3>3. QED
      BY <1>1, <3>1, <3>2, ChainType DEF JobStart
  <2>2. QED
    BY <1>1, <2>1 DEF JobStart
<1>2. ASSUME JobWrite PROVE NoteTypeOK'
  <2>1. Head(chain) \in Jobs /\ [Head(chain) EXCEPT !.at = "written"] \in Jobs
    BY <1>2, ChainType, JobFields DEF JobWrite
  <2>2. chain' \in Seq(Jobs)
    BY <1>2, <2>1, ChainType DEF JobWrite
  <2>3. disk' \in [Notes -> Text]
    BY <1>2, <2>1, JobFields DEF JobWrite
  <2>4. QED
    BY <1>2, <2>2, <2>3 DEF JobWrite
<1>3. ASSUME JobFail PROVE NoteTypeOK'
  BY <1>3, ChainType, NoteAssumption DEF JobFail
<1>4. ASSUME JobFinish PROVE NoteTypeOK'
  <2> DEFINE job == Head(chain)
  <2>1. job \in Jobs /\ job.uri \in Notes \cup {NoNote} /\ job.md \in Text
    BY <1>4, ChainType, JobFields DEF JobFinish
  <2>2. persisted' \in {persisted, Body(job.uri, job.md)}
    BY <1>4 DEF JobFinish
  <2>3. cache' = cache \/ cache' = [cache EXCEPT ![job.uri] = job.md]
    BY <1>4 DEF JobFinish
  <2>4. excused' \in BOOLEAN
    BY <1>4 DEF JobFinish
  <2>5. chain' \in Seq(Jobs)
    BY <1>4, ChainType DEF JobFinish
  <2> HIDE DEF job
  <2>6. persisted' \in Bodies
    BY <2>1, <2>2, BodyType
  <2>7. cache' \in [Notes -> {NoText} \cup Text]
    BY <2>1, <2>3
  <2>8. QED
    BY <1>4, <2>4, <2>5, <2>6, <2>7 DEF JobFinish
<1>5. ASSUME AutosaveFire PROVE NoteTypeOK'
  BY <1>5, ChainType, JobType DEF AutosaveFire
<1>6. ASSUME Flush PROVE NoteTypeOK'
  BY <1>6, ChainType, JobType DEF Flush
<1>7. QED
  BY <1>1, <1>2, <1>3, <1>4, <1>5, <1>6

LEMMA OpenRequestType ==
  ASSUME NoteTypeOK, NEW n \in Notes, NEW background \in BOOLEAN,
         OpenRequest(n, background)
  PROVE  NoteTypeOK'
<1> USE DEF NoteTypeOK
<1>1. CacheAtLeave \in [Notes -> {NoText} \cup Text]
  BY DEF CacheAtLeave, Leaving
<1>2. Superseded \subseteq Opens
  BY DEF Superseded, Opens
<1>3. opens' \subseteq Opens
  <2> DEFINE new == [uri |-> n, background |-> background, live |-> TRUE, md |-> NoText]
  <2>1. new \in Opens
    BY DEF Opens
  <2>2. opens' = Superseded \/ opens' = Superseded \cup {new}
    BY DEF OpenRequest
  <2> HIDE DEF new
  <2>3. QED
    BY <1>2, <2>1, <2>2
<1>4. chain' \in Seq(Jobs)
  BY ChainType, JobType DEF OpenRequest
<1>5. /\ selected' \in Notes \cup {NoNote} /\ editor' \in Text
      /\ persisted' \in Bodies /\ tabs' \subseteq Notes
  <2>1. CASE UNCHANGED <<selected, editor, persisted>> /\ tabs' \in {tabs, tabs \cup {n}}
    BY <2>1
  <2>2. CASE CacheAtLeave[n] # NoText /\ Show(n, CacheAtLeave[n]) /\ tabs' \in {tabs, tabs \cup {n}}
    BY <2>2, <1>1, BodyType DEF Show
  <2>3. QED
    BY <2>1, <2>2 DEF OpenRequest
<1>6. /\ blocking' \in Bodies /\ soft' \in Bodies /\ merging' \in Bodies
      /\ deferred' \in Notes \cup {NoNote}
  BY BodyType DEF OpenRequest, Kept
<1>7. timer' \in BOOLEAN
  BY DEF OpenRequest, AutosaveDue
<1>8. cache' \in [Notes -> {NoText} \cup Text] /\ wanted' \in Notes \cup {NoNote}
  BY <1>1 DEF OpenRequest
<1>9. UNCHANGED <<disk, skip, reading, placed, excused, failures>>
  BY DEF OpenRequest
<1>10. QED
  BY <1>3, <1>4, <1>5, <1>6, <1>7, <1>8, <1>9

LEMMA OpenType ==
  ASSUME NoteTypeOK,
         \/ \E o \in opens : OpenRead(o) \/ OpenFinish(o)
         \/ \E n \in Notes : CloseTab(n)
  PROVE  NoteTypeOK'
<1> USE DEF conflictVars, editorVars, ghostVars, NoteTypeOK
<1>1. ASSUME NEW o \in opens, OpenRead(o) PROVE NoteTypeOK'
  <2>1. [o EXCEPT !.md = disk[o.uri]] \in Opens
    BY DEF Opens
  <2>2. opens' \subseteq Opens
    BY <1>1, <2>1 DEF OpenRead
  <2>3. QED
    BY <1>1, <2>2 DEF OpenRead
<1>2. ASSUME NEW o \in opens, OpenFinish(o) PROVE NoteTypeOK'
  <2>1. o.uri \in Notes /\ o.md \in Text
    BY <1>2 DEF OpenFinish, Opens
  <2>2. opens' \subseteq Opens
    BY <1>2 DEF OpenFinish
  <2>3. cache' \in [Notes -> {NoText} \cup Text]
    BY <1>2, <2>1 DEF OpenFinish
  <2>4. /\ selected' \in Notes \cup {NoNote} /\ editor' \in Text
        /\ persisted' \in Bodies
    <3>1. CASE UNCHANGED <<selected, editor, persisted>>
      BY <3>1
    <3>2. CASE Show(o.uri, o.md)
      BY <3>2, <2>1, BodyType DEF Show
    <3>3. QED
      BY <1>2, <3>1, <3>2 DEF OpenFinish
  <2>5. tabs' \subseteq Notes /\ timer' \in BOOLEAN
    BY <1>2, <2>1 DEF OpenFinish
  <2>6. QED
    BY <1>2, <2>2, <2>3, <2>4, <2>5 DEF OpenFinish
<1>3. ASSUME NEW n \in Notes, CloseTab(n) PROVE NoteTypeOK'
  BY <1>3 DEF CloseTab
<1>4. QED
  BY <1>1, <1>2, <1>3

LEMMA MergedType ==
  ASSUME NEW base, NEW local \in Text, NEW onDisk \in Text
  PROVE  Merged(base, local, onDisk) \in Text
BY DEF Merged, Text

LEMMA TakeBodyType ==
  ASSUME NoteTypeOK, NEW md \in Text, reading.uri \in Notes, TakeBody(md)
  PROVE  NoteTypeOK'
<1> USE DEF NoteTypeOK
<1>1. /\ selected' \in Notes \cup {NoNote} /\ editor' \in Text
      /\ persisted' \in Bodies
  BY BodyType DEF TakeBody, Show
<1>2. cache' \in [Notes -> {NoText} \cup Text]
  BY DEF TakeBody
<1>3. blocking' \in Bodies /\ soft' \in Bodies /\ reading' \in Bodies
  BY BodyType DEF TakeBody, ClearConflictsOf, Without
<1>4. excused' \in BOOLEAN /\ timer' \in BOOLEAN
  BY DEF TakeBody, Judge
<1>5. UNCHANGED <<disk, tabs, deferred, skip, merging, chain, opens, placed,
                  wanted, failures>>
  BY DEF TakeBody
<1>6. QED
  BY <1>1, <1>2, <1>3, <1>4, <1>5

(* A note that has been read is one of the notes. *)
LEMMA ReadingType ==
  ASSUME NoteTypeOK, ReadOfShown
  PROVE  reading.md \in Text
BY BodyType DEF NoteTypeOK, ReadOfShown

LEMMA ReconcileType ==
  ASSUME NoteTypeOK, ReadIsNote,
         \/ \E n \in Notes : ReconcileRead(n)
         \/ ReconcileBackground \/ ReconcileNoop \/ ReconcileReload
         \/ ReconcileMerge \/ ReconcileDefer \/ ReconcileSoft \/ DeferFire
  PROVE  NoteTypeOK'
<1> USE DEF conflictVars, editorVars, ghostVars, NoteTypeOK, ReadIsNote
<1>1. ASSUME NEW n \in Notes, ReconcileRead(n) PROVE NoteTypeOK'
  <2>1. reading' \in Bodies
    BY <1>1, BodyType DEF ReconcileRead
  <2>2. QED
    BY <1>1, <2>1 DEF ReconcileRead
<1>2. ASSUME ReconcileBackground PROVE NoteTypeOK'
  <2>1. cache' \in [Notes -> {NoText} \cup Text]
    BY <1>2, BodyType DEF ReconcileBackground
  <2>2. reading' \in Bodies /\ excused' \in BOOLEAN
    BY <1>2, BodyType DEF ReconcileBackground, Judge
  <2>3. QED
    BY <1>2, <2>1, <2>2 DEF ReconcileBackground
<1>3. ASSUME ReconcileNoop PROVE NoteTypeOK'
  <2>1. soft' \in Bodies /\ reading' \in Bodies
    BY <1>3, BodyType DEF ReconcileNoop, Without
  <2>2. QED
    BY <1>3, <2>1 DEF ReconcileNoop
<1>4. ASSUME ReconcileReload PROVE NoteTypeOK'
  BY <1>4, ReadingType, TakeBodyType DEF ReconcileReload, ReadOfShown
<1>5. ASSUME ReconcileMerge PROVE NoteTypeOK'
  <2>1. Merged(persisted.md, editor, reading.md) \in Text
    BY <1>5, ReadingType, MergedType DEF ReconcileMerge
  <2>2. QED
    BY <1>5, <2>1, TakeBodyType DEF ReconcileMerge, ReadOfShown
<1>6. ASSUME ReconcileDefer PROVE NoteTypeOK'
  <2>1. /\ reading' \in Bodies /\ excused' \in BOOLEAN
        /\ deferred' \in Notes \cup {NoNote}
    BY <1>6, BodyType DEF ReconcileDefer, Judge
  <2>2. QED
    BY <1>6, <2>1 DEF ReconcileDefer
<1>7. ASSUME ReconcileSoft PROVE NoteTypeOK'
  <2>1. /\ blocking' \in Bodies /\ soft' \in Bodies /\ reading' \in Bodies
        /\ excused' \in BOOLEAN /\ timer' \in BOOLEAN
    BY <1>7, BodyType DEF ReconcileSoft, Judge, AutosaveDue
  <2>2. QED
    BY <1>7, <2>1 DEF ReconcileSoft
<1>8. ASSUME DeferFire PROVE NoteTypeOK'
  <2>1. deferred' \in Notes \cup {NoNote} /\ skip' \subseteq Notes
    BY <1>8 DEF DeferFire
  <2>2. QED
    BY <1>8, <2>1 DEF DeferFire
<1>9. QED
  BY <1>1, <1>2, <1>3, <1>4, <1>5, <1>6, <1>7, <1>8

LEMMA ConflictType ==
  ASSUME NoteTypeOK, ResolveReload \/ KeepLocal \/ Elevate \/ EnterMerge \/ DismissSoft
  PROVE  NoteTypeOK'
<1> USE BodyType DEF conflictVars, editorVars, ghostVars, NoteTypeOK
<1>1. ASSUME ResolveReload PROVE NoteTypeOK'
  <2>1. /\ selected' \in Notes \cup {NoNote} /\ editor' \in Text
        /\ persisted' \in Bodies
    BY <1>1 DEF ResolveReload, Show
  <2>2. /\ cache' \in [Notes -> {NoText} \cup Text] /\ timer' \in BOOLEAN
        /\ excused' \in BOOLEAN
    BY <1>1 DEF ResolveReload
  <2>3. blocking' \in Bodies /\ soft' \in Bodies /\ merging' \in Bodies
    BY <1>1 DEF ResolveReload, Answered
  <2>4. QED
    BY <1>1, <2>1, <2>2, <2>3 DEF ResolveReload
<1>2. ASSUME KeepLocal PROVE NoteTypeOK'
  <2>1. /\ persisted' \in Bodies /\ blocking' \in Bodies /\ soft' \in Bodies
        /\ merging' \in Bodies /\ timer' \in BOOLEAN
    BY <1>2 DEF KeepLocal, Answered, AutosaveDue
  <2>2. QED
    BY <1>2, <2>1 DEF KeepLocal
<1>3. ASSUME Elevate PROVE NoteTypeOK'
  BY <1>3 DEF Elevate
<1>4. ASSUME EnterMerge PROVE NoteTypeOK'
  BY <1>4 DEF EnterMerge
<1>5. ASSUME DismissSoft PROVE NoteTypeOK'
  BY <1>5 DEF DismissSoft
<1>6. QED
  BY <1>1, <1>2, <1>3, <1>4, <1>5

LEMMA ApplyMergedType ==
  ASSUME NoteTypeOK, ApplyMerged
  PROVE  NoteTypeOK'
<1> USE DEF NoteTypeOK
<1> DEFINE body == editor \cup merging.md
<1>1. body \in Text /\ merging.uri \in Notes \cup {NoNote}
  BY BodyType DEF Text
<1>2. /\ editor' = body /\ cache' = [cache EXCEPT ![merging.uri] = body]
      /\ chain' = Append(chain, OutgoingJob(merging.uri, body))
  BY DEF ApplyMerged
<1> HIDE DEF body
<1>3. editor' \in Text /\ cache' \in [Notes -> {NoText} \cup Text]
  BY <1>1, <1>2
<1>4. chain' \in Seq(Jobs)
  BY <1>1, <1>2, ChainType, JobType
<1>5. /\ persisted' \in Bodies /\ blocking' \in Bodies /\ soft' \in Bodies
      /\ merging' \in Bodies
  BY BodyType DEF ApplyMerged
<1>6. timer' \in BOOLEAN /\ excused' \in BOOLEAN
  BY DEF ApplyMerged, AutosaveDue
<1>7. QED
  BY <1>3, <1>4, <1>5, <1>6 DEF ApplyMerged

LEMMA NoteTypeStep ==
  ASSUME NoteTypeOK, ReadIsNote, [NoteNext]_noteVars
  PROVE  NoteTypeOK'
<1>1. ASSUME NEW m \in UserMarks, Type(m) PROVE NoteTypeOK'
  <2>1. m \in Marks
    BY DEF Marks
  <2>2. editor' \in Text /\ placed' \subseteq Marks
    BY <1>1, <2>1 DEF Type, NoteTypeOK, Text
  <2>3. timer' \in BOOLEAN /\ excused' \in BOOLEAN
    BY <1>1 DEF Type, AutosaveDue, NoteTypeOK
  <2>4. QED
    BY <1>1, <2>2, <2>3 DEF Type, NoteTypeOK, conflictVars
<1>2. ASSUME NEW m \in ExternalMarks, ExternalEdit(m) PROVE NoteTypeOK'
  <2>1. m \in Marks /\ Place[m].note \in Notes
    BY NoteAssumption DEF Marks
  <2>2. disk' \in [Notes -> Text] /\ placed' \subseteq Marks
    BY <1>2, <2>1 DEF ExternalEdit, NoteTypeOK, Text
  <2>3. QED
    BY <1>2, <2>2 DEF ExternalEdit, NoteTypeOK, conflictVars, editorVars
<1>3. CASE UNCHANGED noteVars
  BY <1>3 DEF noteVars, conflictVars, editorVars, ghostVars, NoteTypeOK
<1>4. QED
  BY <1>1, <1>2, <1>3, SaveType, OpenRequestType, OpenType, ReconcileType,
     ConflictType, ApplyMergedType DEF NoteNext

-----------------------------------------------------------------------------
(* The opens.                                                              *)

(* Every step but the opening of a note leaves opens, wanted and selected. *)
LEMMA OpensKept ==
  ASSUME [NoteNext]_noteVars, NoteTypeOK, ReadIsNote
  PROVE  \/ UNCHANGED <<opens, wanted, selected>>
         \/ \E n \in Notes, background \in BOOLEAN : OpenRequest(n, background)
         \/ \E o \in opens : OpenRead(o)
         \/ \E o \in opens : OpenFinish(o)
<1> USE DEF noteVars, editorVars, ghostVars
<1>1. ASSUME NEW md, ReadOfShown, TakeBody(md) PROVE UNCHANGED <<opens, wanted, selected>>
  BY <1>1 DEF TakeBody, Show, ReadOfShown
<1>2. ASSUME ReconcileReload \/ ReconcileMerge PROVE UNCHANGED <<opens, wanted, selected>>
  BY <1>1, <1>2 DEF ReconcileReload, ReconcileMerge
<1>3. ASSUME ResolveReload \/ KeepLocal \/ Elevate \/ EnterMerge \/ DismissSoft
             \/ ApplyMerged
      PROVE  UNCHANGED <<opens, wanted, selected>>
  BY <1>3 DEF ResolveReload, KeepLocal, Elevate, EnterMerge, DismissSoft,
              ApplyMerged, Show
<1>4. ASSUME JobStart \/ JobWrite \/ JobFail \/ JobFinish \/ AutosaveFire \/ Flush
      PROVE  UNCHANGED <<opens, wanted, selected>>
  BY <1>4 DEF JobStart, JobWrite, JobFail, JobFinish, AutosaveFire, Flush
<1>5. ASSUME \/ \E n \in Notes : CloseTab(n) \/ ReconcileRead(n)
             \/ ReconcileBackground \/ ReconcileNoop \/ ReconcileDefer
             \/ ReconcileSoft \/ DeferFire
      PROVE  UNCHANGED <<opens, wanted, selected>>
  BY <1>5 DEF CloseTab, ReconcileRead, ReconcileBackground, ReconcileNoop,
              ReconcileDefer, ReconcileSoft, DeferFire
<1>6. ASSUME \/ \E m \in UserMarks : Type(m)
             \/ \E m \in ExternalMarks : ExternalEdit(m)
      PROVE  UNCHANGED <<opens, wanted, selected>>
  BY <1>6 DEF Type, ExternalEdit
<1>7. QED
  BY <1>2, <1>3, <1>4, <1>5, <1>6 DEF NoteNext

LEMMA ReadIsNoteStep ==
  ASSUME NoteTypeOK, ReadIsNote, [NoteNext]_noteVars
  PROVE  ReadIsNote'
<1> USE DEF noteVars, editorVars, ghostVars
<1>1. ASSUME NEW n \in Notes, ReconcileRead(n) PROVE ReadIsNote'
  BY <1>1 DEF ReconcileRead, ReadIsNote, Body
<1>2. ASSUME ReconcileBackground \/ ReconcileNoop \/ ReconcileReload
             \/ ReconcileMerge \/ ReconcileDefer \/ ReconcileSoft
      PROVE  reading' = NoBody
  BY <1>2 DEF ReconcileBackground, ReconcileNoop, ReconcileReload,
              ReconcileMerge, ReconcileDefer, ReconcileSoft, TakeBody
<1>3. ASSUME ResolveReload \/ KeepLocal \/ Elevate \/ EnterMerge \/ DismissSoft
             \/ ApplyMerged \/ DeferFire
      PROVE  reading' = reading
  BY <1>3 DEF ResolveReload, KeepLocal, Elevate, EnterMerge, DismissSoft,
              ApplyMerged, DeferFire
<1>4. ASSUME JobStart \/ JobWrite \/ JobFail \/ JobFinish \/ AutosaveFire \/ Flush
      PROVE  reading' = reading
  BY <1>4 DEF JobStart, JobWrite, JobFail, JobFinish, AutosaveFire, Flush
<1>5. ASSUME \/ \E n \in Notes : CloseTab(n)
             \/ \E n \in Notes, background \in BOOLEAN : OpenRequest(n, background)
             \/ \E o \in opens : OpenRead(o)
             \/ \E o \in opens : OpenFinish(o)
      PROVE  reading' = reading
  BY <1>5 DEF CloseTab, OpenRequest, OpenRead, OpenFinish
<1>6. ASSUME \/ \E m \in UserMarks : Type(m)
             \/ \E m \in ExternalMarks : ExternalEdit(m)
      PROVE  reading' = reading
  BY <1>6 DEF Type, ExternalEdit
<1>7. ASSUME reading' \in {reading, NoBody} PROVE ReadIsNote'
  BY <1>7 DEF ReadIsNote, NoBody, Body
<1>8. QED
  BY <1>1, <1>2, <1>3, <1>4, <1>5, <1>6, <1>7 DEF NoteNext

LEMMA OpensStep ==
  ASSUME NoteInv, [NoteNext]_noteVars
  PROVE  OneLive' /\ LiveIsWanted' /\ LastOpenWins'
<1> USE DEF NoteInv, OneLive, LiveIsWanted, LastOpenWins
<1>1. ASSUME UNCHANGED <<opens, wanted, selected>>
      PROVE  OneLive' /\ LiveIsWanted' /\ LastOpenWins'
  BY <1>1
<1>2. ASSUME NEW n \in Notes, NEW background \in BOOLEAN, OpenRequest(n, background)
      PROVE  OneLive' /\ LiveIsWanted' /\ LastOpenWins'
  <2> DEFINE new == [uri |-> n, background |-> background, live |-> TRUE, md |-> NoText]
  <2>1. \A o \in Superseded : o.live = FALSE
    BY DEF Superseded, NoteTypeOK, Opens
  <2>2. new.live = TRUE /\ new.background = background /\ new.uri = n
    OBVIOUS
  <2>3. wanted' = IF background THEN selected ELSE n
    BY <1>2 DEF OpenRequest
  <2>4. \/ opens' = Superseded \cup {new} /\ selected' = selected
        \/ opens' = Superseded /\ selected' = wanted'
    BY <1>2, <2>3 DEF OpenRequest, Show
  <2> HIDE DEF new
  <2>5. QED
    BY <2>1, <2>2, <2>3, <2>4
<1>3. ASSUME NEW o \in opens, OpenRead(o)
      PROVE  OneLive' /\ LiveIsWanted' /\ LastOpenWins'
  <2> DEFINE new == [o EXCEPT !.md = disk[o.uri]]
  <2>1. new.live = o.live /\ new.background = o.background /\ new.uri = o.uri
    BY DEF NoteTypeOK, Opens
  <2>2. opens' = (opens \ {o}) \cup {new} /\ UNCHANGED <<selected, wanted>>
    BY <1>3 DEF OpenRead, editorVars, ghostVars
  <2> HIDE DEF new
  <2>3. QED
    BY <2>1, <2>2
<1>4. ASSUME NEW o \in opens, OpenFinish(o)
      PROVE  OneLive' /\ LiveIsWanted' /\ LastOpenWins'
  <2>1. opens' = opens \ {o} /\ wanted' = wanted
    BY <1>4 DEF OpenFinish, ghostVars
  <2>2. selected' = IF o.live /\ ~o.background THEN o.uri ELSE selected
    BY <1>4 DEF OpenFinish, Proceeds, Show, editorVars
  <2>3. QED
    BY <2>1, <2>2
<1>5. QED
  BY <1>1, <1>2, <1>3, <1>4, OpensKept

(* The inductive invariant holds in every state. *)
THEOREM NoteInvariant == NoteSpec => []NoteInv
<1>1. NoteInv /\ [NoteNext]_noteVars => NoteInv'
  BY NoteTypeStep, ReadIsNoteStep, OpensStep DEF NoteInv
<1>2. QED
  BY NoteInitInv, <1>1, PTL DEF NoteSpec

(* Every variable keeps its type, whatever the notes, texts and opens. *)
THEOREM NoteTypes == NoteSpec => []NoteTypeOK
BY NoteInvariant, PTL DEF NoteInv

(* Once no live open is pending, the note the user asked for last is the   *)
(* one in the editor: the generation check of the open command is enough,  *)
(* for any number of reads that overlap and end in any order.              *)
THEOREM OpensEndAtTheLast == NoteSpec => []LastOpenWins
BY NoteInvariant, PTL DEF NoteInv

-----------------------------------------------------------------------------
(* The queue of saves, without its order: the saves in it, and those that  *)
(* wait behind the first.                                                  *)

Entries(queue) == {queue[i] : i \in 1..Len(queue)}
Saves == Entries(chain)
Later == Entries(Tail(chain))

(* Only the first save of the queue has begun. *)
OneRuns == chain # <<>> => \A job \in Later : job.at = "queued"

LEMMA EntriesOfAppend ==
  ASSUME NEW S, NEW queue \in Seq(S), NEW job \in S
  PROVE  Entries(Append(queue, job)) = Entries(queue) \cup {job}
<1> DEFINE longer == Append(queue, job)
<1>1. Len(longer) = Len(queue) + 1 /\ Len(queue) \in Nat
  OBVIOUS
<1>2. \A i \in 1..Len(queue) : longer[i] = queue[i]
  OBVIOUS
<1>3. longer[Len(queue) + 1] = job
  OBVIOUS
<1> HIDE DEF longer
<1>4. \A x : x \in Entries(longer) <=> x \in Entries(queue) \/ x = job
  <2>1. ASSUME NEW i \in 1..Len(longer)
        PROVE  i \in 1..Len(queue) \/ i = Len(queue) + 1
    BY <1>1
  <2>2. 1..Len(queue) \subseteq 1..Len(longer) /\ Len(queue) + 1 \in 1..Len(longer)
    BY <1>1
  <2>3. QED
    BY <1>2, <1>3, <2>1, <2>2 DEF Entries
<1>5. QED
  BY <1>4 DEF longer

LEMMA EntriesOfTail ==
  ASSUME NEW S, NEW queue \in Seq(S), queue # <<>>
  PROVE  /\ Entries(queue) = {Head(queue)} \cup Entries(Tail(queue))
         /\ \A job \in S :
              /\ Head([queue EXCEPT ![1] = job]) = job
              /\ Tail([queue EXCEPT ![1] = job]) = Tail(queue)
              /\ [queue EXCEPT ![1] = job] # <<>>
<1>1. Len(queue) \in Nat /\ Len(queue) # 0
  OBVIOUS
<1>2. Len(Tail(queue)) = Len(queue) - 1 /\ Head(queue) = queue[1]
  BY <1>1
<1>3. \A i \in 1..Len(Tail(queue)) : Tail(queue)[i] = queue[i + 1]
  BY <1>1
<1>4. \A x : x \in Entries(queue) <=> x = queue[1] \/ x \in Entries(Tail(queue))
  <2>1. ASSUME NEW i \in 1..Len(queue)
        PROVE  i = 1 \/ (i - 1 \in 1..Len(Tail(queue)) /\ (i - 1) + 1 = i)
    BY <1>1, <1>2
  <2>2. /\ 1 \in 1..Len(queue)
        /\ \A i \in 1..Len(Tail(queue)) : i + 1 \in 1..Len(queue)
    BY <1>1, <1>2
  <2>3. ASSUME NEW x \in Entries(queue)
        PROVE  x = queue[1] \/ x \in Entries(Tail(queue))
    <3>1. PICK i \in 1..Len(queue) : x = queue[i]
      BY <2>3 DEF Entries
    <3>2. CASE i = 1
      BY <3>1, <3>2
    <3>3. CASE i - 1 \in 1..Len(Tail(queue)) /\ (i - 1) + 1 = i
      BY <3>1, <3>3, <1>3 DEF Entries
    <3>4. QED
      BY <2>1, <3>2, <3>3
  <2>4. QED
    BY <1>3, <2>2, <2>3 DEF Entries
<1>5. ASSUME NEW job \in S
      PROVE  /\ Head([queue EXCEPT ![1] = job]) = job
             /\ Tail([queue EXCEPT ![1] = job]) = Tail(queue)
             /\ [queue EXCEPT ![1] = job] # <<>>
  BY <1>1
<1>6. QED
  BY <1>2, <1>4, <1>5

LEMMA QueueGrows ==
  ASSUME chain \in Seq(Jobs), OneRuns, NEW job \in Jobs, job.at = "queued",
         chain' = Append(chain, job)
  PROVE  Saves' = Saves \cup {job} /\ OneRuns'
<1>1. Saves' = Saves \cup {job}
  BY EntriesOfAppend DEF Saves
<1>2. CASE chain = <<>>
  <2>1. chain' = <<job>> /\ Tail(<<job>>) = <<>>
    BY <1>2
  <2>2. Later' = {}
    BY <2>1 DEF Later, Entries
  <2>3. QED
    BY <1>1, <2>2 DEF OneRuns
<1>3. CASE chain # <<>>
  <2>1. Tail(chain') = Append(Tail(chain), job) /\ Tail(chain) \in Seq(Jobs)
    BY <1>3
  <2>2. \A queue \in Seq(Jobs) :
          Entries(Append(queue, job)) = Entries(queue) \cup {job}
    BY EntriesOfAppend
  <2>3. Later' = Later \cup {job}
    BY <2>1, <2>2 DEF Later
  <2>4. QED
    BY <1>1, <1>3, <2>3 DEF OneRuns
<1>4. QED
  BY <1>2, <1>3

LEMMA QueueParts ==
  ASSUME chain \in Seq(Jobs), OneRuns, chain # <<>>
  PROVE  /\ Saves = {Head(chain)} \cup Later
         /\ Head(chain) \in Jobs /\ Later \subseteq Jobs
         /\ \A job \in Later : job.at = "queued"
<1>1. Saves = {Head(chain)} \cup Later
  BY EntriesOfTail DEF Saves, Later
<1>2. Head(chain) \in Jobs /\ Tail(chain) \in Seq(Jobs)
  OBVIOUS
<1>3. Later \subseteq Jobs
  BY <1>2 DEF Later, Entries
<1>4. QED
  BY <1>1, <1>2, <1>3 DEF OneRuns

LEMMA SavesAreJobs ==
  ASSUME chain \in Seq(Jobs)
  PROVE  Saves \subseteq Jobs
BY DEF Saves, Entries

LEMMA QueueShrinks ==
  ASSUME chain \in Seq(Jobs), OneRuns, chain # <<>>, chain' = Tail(chain)
  PROVE  Saves' = Later /\ OneRuns'
<1>1. Saves' = Later
  BY DEF Saves, Later
<1>2. Tail(chain) \in Seq(Jobs)
  OBVIOUS
<1>3. ASSUME chain' # <<>> PROVE Later' \subseteq Later
  BY <1>2, <1>3, EntriesOfTail DEF Later
<1>4. QED
  BY <1>1, <1>3 DEF OneRuns

LEMMA QueueMoves ==
  ASSUME chain \in Seq(Jobs), OneRuns, chain # <<>>, NEW job \in Jobs,
         chain' = [chain EXCEPT ![1] = job]
  PROVE  Saves' = {job} \cup Later /\ OneRuns'
<1>1. chain' \in Seq(Jobs) /\ chain' # <<>>
  OBVIOUS
<1>2. Head(chain') = job /\ Tail(chain') = Tail(chain)
  BY EntriesOfTail
<1>3. Entries(chain') = {Head(chain')} \cup Entries(Tail(chain'))
  BY <1>1, EntriesOfTail
<1>4. QED
  BY <1>2, <1>3 DEF Saves, Later, OneRuns

-----------------------------------------------------------------------------
(* Which notes the app knows.  A note is known once its body is cached; all *)
(* the app holds of notes, live reads apart, it holds of known ones.       *)

Typed(t) == t \cap UserMarks
Known(n) == cache[n] # NoText
KnownIn(body) == body = NoBody \/ (body.uri \in Notes /\ Known(body.uri))

(* The saves that carry a text: all but the autosaves that wait. *)
WithText == Saves \ {ActiveJob}

SavesKnown ==
  \A job \in WithText :
    job.uri \in Notes /\ Known(job.uri) /\ (job.at = "queued" => job.kind = "outgoing")

ShownKnown == selected # NoNote => Known(selected)
TabsKnown == \A n \in tabs : Known(n)
ReadKnown == KnownIn(reading)
ConflictsKnown == KnownIn(blocking) /\ KnownIn(soft) /\ KnownIn(merging)
OpensNew == \A o \in opens : o.live => ~Known(o.uri)
NewUntouched == \A n \in Notes : ~Known(n) => Typed(disk[n]) = {}

(* The merge view of the note that is shown goes with its conflict. *)
MergeOfShown ==
  merging # NoBody /\ merging.uri = selected
    => blocking = NoBody \/ blocking.uri = selected

KnownInv ==
  /\ OneRuns /\ SavesKnown
  /\ ShownKnown /\ TabsKnown /\ ReadKnown /\ ConflictsKnown
  /\ OpensNew /\ NewUntouched
  /\ MergeOfShown

(* No step but the end of an open makes a note known, none unknown. *)
KnownSame == \A n \in Notes : Known(n)' <=> Known(n)

LEMMA TextIsNoText == \A t \in Text : t # NoText
BY NoteAssumption DEF NoteAssumption

LEMMA NoBodyIsNoNote == NoBody.uri = NoNote /\ NoNote \notin Notes
BY NoteAssumption DEF NoteAssumption, NoBody, Body

LEMMA KnownPut ==
  ASSUME NoteTypeOK, NEW n \in Notes, Known(n), NEW t \in Text,
         cache' = [cache EXCEPT ![n] = t]
  PROVE  KnownSame
BY TextIsNoText DEF NoteTypeOK, Known, KnownSame

LEMMA KnownFrame ==
  ASSUME NoteTypeOK, KnownInv, KnownSame
  PROVE  /\ selected' = selected => ShownKnown'
         /\ tabs' \subseteq tabs => TabsKnown'
         /\ reading' \in {reading, NoBody} => ReadKnown'
         /\ {blocking', soft', merging'} \subseteq
              {blocking, soft, merging, reading, NoBody} => ConflictsKnown'
         /\ opens' = opens => OpensNew'
         /\ disk' = disk => NewUntouched'
         /\ chain' = chain => OneRuns' /\ SavesKnown'
         /\ /\ selected' = selected /\ merging' \in {merging, NoBody}
            /\ blocking' \in {blocking, NoBody}
            => MergeOfShown'
<1> USE DEF NoteTypeOK, KnownInv, KnownSame
<1>1. selected' = selected => ShownKnown'
  BY DEF ShownKnown
<1>2. tabs' \subseteq tabs => TabsKnown'
  BY DEF TabsKnown
<1>3. ASSUME NEW b \in {blocking, soft, merging, reading, NoBody}
      PROVE  b = NoBody \/ (b.uri \in Notes /\ Known(b.uri)')
  BY <1>3 DEF ReadKnown, ConflictsKnown, KnownIn
<1>4. reading' \in {reading, NoBody} => ReadKnown'
  BY <1>3 DEF ReadKnown, KnownIn, Known
<1>5. {blocking', soft', merging'} \subseteq
        {blocking, soft, merging, reading, NoBody} => ConflictsKnown'
  BY <1>3 DEF ConflictsKnown, KnownIn, Known
<1>6. opens' = opens => OpensNew'
  BY DEF OpensNew, Opens
<1>7. disk' = disk => NewUntouched'
  BY DEF NewUntouched
<1>8. chain' = chain => OneRuns' /\ SavesKnown'
  BY DEF OneRuns, SavesKnown, WithText, Saves, Later
<1>9. selected' = selected /\ merging' \in {merging, NoBody}
        /\ blocking' \in {blocking, NoBody} => MergeOfShown'
  BY DEF MergeOfShown
<1>10. QED
  BY <1>1, <1>2, <1>4, <1>5, <1>6, <1>7, <1>8, <1>9

LEMMA SavesKnownMore ==
  ASSUME NoteTypeOK, KnownInv, KnownSame,
         \A job \in Saves' :
           \/ job \in Saves \cup {ActiveJob}
           \/ /\ job.uri \in Notes /\ Known(job.uri)
              /\ job.at = "queued" => job.kind = "outgoing"
  PROVE  SavesKnown'
BY DEF KnownInv, KnownSame, SavesKnown, WithText

(* A step that leaves the cache alone, and all it holds elsewhere too. *)
LEMMA KnownKeeps ==
  ASSUME NoteTypeOK, KnownInv, cache' = cache
  PROVE  KnownSame
BY DEF KnownSame, Known

LEMMA TypingKnown ==
  ASSUME NoteTypeOK, KnownInv,
         \/ \E m \in UserMarks : Type(m)
         \/ \E m \in ExternalMarks : ExternalEdit(m)
  PROVE  KnownInv'
<1> USE DEF conflictVars, editorVars, ghostVars
<1>1. ASSUME NEW m \in UserMarks, Type(m) PROVE KnownInv'
  BY <1>1, KnownKeeps, KnownFrame DEF Type, KnownInv
<1>2. ASSUME NEW m \in ExternalMarks, ExternalEdit(m) PROVE KnownInv'
  <2>1. \A n \in Notes : Typed(disk[n])' = Typed(disk[n])
    BY <1>2, NoteAssumption DEF ExternalEdit, NoteTypeOK, Typed, NoteAssumption
  <2>2. NewUntouched'
    BY <1>2, <2>1 DEF ExternalEdit, KnownInv, NewUntouched, Known
  <2>3. QED
    BY <1>2, <2>2, KnownKeeps, KnownFrame DEF ExternalEdit, KnownInv
<1>3. QED
  BY <1>1, <1>2

LEMMA ActiveJobQueued == ActiveJob \in Jobs /\ ActiveJob.at = "queued"
BY JobType DEF ActiveJob

LEMMA OutgoingJobQueued ==
  ASSUME NEW n \in Notes \cup {NoNote}, NEW t \in Text
  PROVE  LET job == OutgoingJob(n, t)
         IN  /\ job \in Jobs /\ job.at = "queued" /\ job.kind = "outgoing"
             /\ job.uri = n /\ job.md = t /\ job # ActiveJob
BY JobType DEF OutgoingJob, ActiveJob

LEMMA AutosaveKnown ==
  ASSUME NoteTypeOK, KnownInv, AutosaveFire \/ Flush
  PROVE  KnownInv'
<1> USE DEF conflictVars, editorVars, ghostVars
<1>1. KnownSame
  BY KnownKeeps DEF AutosaveFire, Flush
<1>2. CASE chain' = chain
  BY <1>1, <1>2, KnownFrame DEF AutosaveFire, Flush, KnownInv
<1>3. CASE chain' = Append(chain, ActiveJob)
  <2>1. Saves' = Saves \cup {ActiveJob} /\ OneRuns'
    BY <1>3, ActiveJobQueued, QueueGrows DEF NoteTypeOK, KnownInv
  <2>2. SavesKnown'
    BY <1>1, <2>1, SavesKnownMore
  <2>3. QED
    BY <1>1, <2>1, <2>2, KnownFrame DEF AutosaveFire, Flush, KnownInv
<1>4. QED
  BY <1>2, <1>3 DEF AutosaveFire, Flush

(* The first save, when it has a text. *)
LEMMA FirstSave ==
  ASSUME NoteTypeOK, KnownInv, chain # <<>>
  PROVE  LET job == Head(chain)
         IN  /\ Saves = {job} \cup Later /\ job \in Jobs /\ Later \subseteq Jobs
             /\ \A k \in Later : k.at = "queued"
             /\ job.at # "queued" \/ job.kind = "outgoing"
                  => /\ job \in WithText /\ job.uri \in Notes
                     /\ Known(job.uri) /\ job.md \in Text
<1> DEFINE job == Head(chain)
<1>1. /\ Saves = {job} \cup Later /\ job \in Jobs /\ Later \subseteq Jobs
      /\ \A k \in Later : k.at = "queued"
  BY QueueParts DEF NoteTypeOK, KnownInv
<1> HIDE DEF job
<1>2. ASSUME job.at # "queued" \/ job.kind = "outgoing" PROVE job \in WithText
  BY <1>1, <1>2 DEF WithText, ActiveJob
<1>3. QED
  BY <1>1, <1>2 DEF KnownInv, SavesKnown, Jobs, job

(* How the first save leaves the queue, or goes on to its next step.       *)
JobStarts(job) ==
  \/ Saves' = Later /\ job.kind = "active" /\ ActiveSkips
  \/ Saves' = Later /\ job.kind = "outgoing" /\ OutgoingSkips(job)
  \/ \E next \in Jobs :
       /\ Saves' = {next} \cup Later /\ next.at = "writing"
       /\ \/ /\ job.kind = "active" /\ ~ActiveSkips
             /\ next.uri = selected /\ next.md = editor
          \/ /\ job.kind = "outgoing" /\ ~OutgoingSkips(job)
             /\ next.uri = job.uri /\ next.md = job.md

LEMMA JobStartQueue ==
  ASSUME NoteTypeOK, KnownInv, JobStart
  PROVE  JobStarts(Head(chain)) /\ OneRuns'
<1> DEFINE job == Head(chain)
           taken == [kind |-> "active", uri |-> selected, md |-> editor,
                     at |-> "writing"]
           next == [job EXCEPT !.at = "writing"]
<1>1. chain \in Seq(Jobs) /\ chain # <<>> /\ job \in Jobs /\ OneRuns
  BY FirstSave DEF JobStart, NoteTypeOK, KnownInv
<1>2. /\ taken \in Jobs /\ taken.uri = selected /\ taken.at = "writing"
      /\ taken.md = editor
  BY DEF NoteTypeOK, Jobs
<1>3. /\ next \in Jobs /\ next.uri = job.uri /\ next.at = "writing"
      /\ next.md = job.md
  BY <1>1 DEF Jobs
<1>4. \/ job.kind = "active" /\ ActiveSkips /\ chain' = Tail(chain)
      \/ job.kind = "active" /\ ~ActiveSkips /\ chain' = [chain EXCEPT ![1] = taken]
      \/ job.kind = "outgoing" /\ OutgoingSkips(job) /\ chain' = Tail(chain)
      \/ job.kind = "outgoing" /\ ~OutgoingSkips(job) /\ chain' = [chain EXCEPT ![1] = next]
  BY DEF JobStart
<1> HIDE DEF job, taken, next
<1>5. ASSUME chain' = Tail(chain),
             \/ job.kind = "active" /\ ActiveSkips
             \/ job.kind = "outgoing" /\ OutgoingSkips(job)
      PROVE  JobStarts(Head(chain)) /\ OneRuns'
  <2>1. Saves' = Later /\ OneRuns'
    BY <1>1, <1>5, QueueShrinks
  <2>2. JobStarts(job)
    BY <1>5, <2>1 DEF JobStarts
  <2>3. QED
    BY <2>1, <2>2 DEF job
<1>6. CASE job.kind = "active" /\ ~ActiveSkips /\ chain' = [chain EXCEPT ![1] = taken]
  <2>1. Saves' = {taken} \cup Later /\ OneRuns'
    BY <1>1, <1>2, <1>6, QueueMoves
  <2>2. JobStarts(job)
    BY <1>2, <1>6, <2>1 DEF JobStarts
  <2>3. QED
    BY <2>1, <2>2 DEF job
<1>7. CASE job.kind = "outgoing" /\ ~OutgoingSkips(job) /\ chain' = [chain EXCEPT ![1] = next]
  <2>1. Saves' = {next} \cup Later /\ OneRuns'
    BY <1>1, <1>3, <1>7, QueueMoves
  <2>2. JobStarts(job)
    BY <1>3, <1>7, <2>1 DEF JobStarts
  <2>3. QED
    BY <2>1, <2>2 DEF job
<1>8. QED
  BY <1>4, <1>5, <1>6, <1>7

LEMMA JobWriteQueue ==
  ASSUME NoteTypeOK, KnownInv, JobWrite
  PROVE  /\ OneRuns'
         /\ \E next \in Jobs :
              /\ Saves' = {next} \cup Later /\ next.at = "written"
              /\ next.uri = Head(chain).uri /\ next.md = Head(chain).md
<1> DEFINE job == Head(chain)
           next == [job EXCEPT !.at = "written"]
<1>1. chain \in Seq(Jobs) /\ chain # <<>> /\ job \in Jobs /\ OneRuns
  BY FirstSave DEF JobWrite, NoteTypeOK, KnownInv
<1>2. /\ next \in Jobs /\ next.uri = job.uri /\ next.at = "written"
      /\ next.md = job.md
  BY <1>1 DEF Jobs
<1>3. chain' = [chain EXCEPT ![1] = next]
  BY DEF JobWrite
<1> HIDE DEF next
<1>4. Saves' = {next} \cup Later /\ OneRuns'
  BY <1>1, <1>2, <1>3, QueueMoves
<1>5. QED
  BY <1>2, <1>4

LEMMA JobEndQueue ==
  ASSUME NoteTypeOK, KnownInv, JobFail \/ JobFinish
  PROVE  Saves' = Later /\ OneRuns'
BY QueueShrinks DEF JobFail, JobFinish, NoteTypeOK, KnownInv

LEMMA JobStartKnown ==
  ASSUME NoteTypeOK, KnownInv, JobStart
  PROVE  KnownInv'
<1> USE DEF conflictVars, editorVars, ghostVars
<1> DEFINE job == Head(chain)
<1>1. KnownSame
  BY KnownKeeps DEF JobStart
<1>2. /\ Saves = {job} \cup Later
      /\ job.kind = "outgoing" => job.uri \in Notes /\ Known(job.uri)
  BY FirstSave DEF JobStart
<1>3. JobStarts(job) /\ OneRuns'
  BY JobStartQueue
<1> HIDE DEF job
<1>4. ~ActiveSkips => selected \in Notes /\ Known(selected)
  BY DEF ActiveSkips, NoteTypeOK, KnownInv, ShownKnown
<1>5. ASSUME Saves' = Later PROVE SavesKnown'
  BY <1>1, <1>2, <1>5, SavesKnownMore
<1>6. ASSUME NEW next \in Jobs, Saves' = {next} \cup Later, next.at = "writing",
             next.uri \in Notes, Known(next.uri)
      PROVE  SavesKnown'
  BY <1>1, <1>2, <1>6, SavesKnownMore
<1>7. SavesKnown'
  BY <1>2, <1>3, <1>4, <1>5, <1>6 DEF JobStarts
<1>8. QED
  BY <1>1, <1>3, <1>7, KnownFrame DEF JobStart, KnownInv

LEMMA JobWriteKnown ==
  ASSUME NoteTypeOK, KnownInv, JobWrite
  PROVE  KnownInv'
<1> USE DEF conflictVars, editorVars, ghostVars
<1> DEFINE job == Head(chain)
<1>1. KnownSame
  BY KnownKeeps DEF JobWrite
<1>2. Saves = {job} \cup Later /\ job.uri \in Notes /\ Known(job.uri)
  BY FirstSave DEF JobWrite
<1>3. PICK next \in Jobs : /\ Saves' = {next} \cup Later /\ next.at = "written"
                           /\ next.uri = job.uri
  BY JobWriteQueue
<1>4. SavesKnown'
  BY <1>1, <1>2, <1>3, SavesKnownMore
<1>5. NewUntouched'
  BY <1>1, <1>2 DEF JobWrite, NoteTypeOK, KnownInv, NewUntouched, KnownSame
<1>6. QED
  BY <1>1, <1>4, <1>5, JobWriteQueue, KnownFrame DEF JobWrite, KnownInv

LEMMA JobEndKnown ==
  ASSUME NoteTypeOK, KnownInv, JobFail \/ JobFinish
  PROVE  KnownInv'
<1> USE DEF conflictVars, editorVars, ghostVars
<1> DEFINE job == Head(chain)
<1>1. /\ Saves = {job} \cup Later
      /\ job.uri \in Notes /\ Known(job.uri) /\ job.md \in Text
  BY FirstSave DEF JobFail, JobFinish
<1>2. cache' = cache \/ cache' = [cache EXCEPT ![job.uri] = job.md]
  BY DEF JobFail, JobFinish
<1>3. KnownSame
  BY <1>1, <1>2, KnownKeeps, KnownPut
<1>4. SavesKnown'
  BY <1>1, <1>3, JobEndQueue, SavesKnownMore
<1>5. QED
  BY <1>3, <1>4, JobEndQueue, KnownFrame DEF JobFail, JobFinish, KnownInv

LEMMA CacheAtLeaveKnown ==
  ASSUME NoteTypeOK, KnownInv
  PROVE  /\ CacheAtLeave \in [Notes -> {NoText} \cup Text]
         /\ \A n \in Notes : CacheAtLeave[n] # NoText <=> Known(n)
         /\ selected \in Notes => CacheAtLeave[selected] = editor
         /\ \A n \in Notes : n # selected => CacheAtLeave[n] = cache[n]
BY TextIsNoText, NoteAssumption
   DEF CacheAtLeave, Leaving, NoteTypeOK, KnownInv, ShownKnown, Known, NoteAssumption

LEMMA OpenRequestKnown ==
  ASSUME NoteTypeOK, KnownInv, NEW n \in Notes, NEW background \in BOOLEAN,
         OpenRequest(n, background)
  PROVE  KnownInv'
<1>1. KnownSame /\ cache' = CacheAtLeave
  BY CacheAtLeaveKnown DEF OpenRequest, KnownSame, Known
<1>2. OneRuns' /\ SavesKnown'
  <2>1. CASE ~LeavesDirty
    BY <1>1, <2>1, KnownFrame DEF OpenRequest
  <2>2. CASE LeavesDirty
    <3>1. selected \in Notes /\ Known(selected) /\ editor \in Text
      BY <2>2 DEF LeavesDirty, Leaving, NoteTypeOK, KnownInv, ShownKnown
    <3> DEFINE job == OutgoingJob(selected, editor)
    <3>2. job \in Jobs /\ job.at = "queued" /\ job.kind = "outgoing" /\ job.uri = selected
      BY <3>1, OutgoingJobQueued
    <3>3. chain' = Append(chain, job)
      BY <2>2 DEF OpenRequest
    <3> HIDE DEF job
    <3>4. Saves' = Saves \cup {job} /\ OneRuns'
      BY <3>2, <3>3, QueueGrows DEF NoteTypeOK, KnownInv
    <3>5. QED
      BY <1>1, <3>1, <3>2, <3>4, SavesKnownMore
  <2>3. QED
    BY <2>1, <2>2
<1>3. ShownKnown' /\ TabsKnown' /\ OpensNew'
  <2>1. \A o \in Superseded : o.live = FALSE
    BY DEF Superseded, NoteTypeOK, Opens
  <2>2. CASE /\ CacheAtLeave[n] = NoText
             /\ opens' = Superseded \cup {[uri |-> n, background |-> background,
                                           live |-> TRUE, md |-> NoText]}
             /\ UNCHANGED <<selected, editor, persisted, tabs>>
    <3>1. ~Known(n)'
      BY <1>1, <2>2 DEF Known
    <3>2. OpensNew'
      BY <2>1, <2>2, <3>1 DEF OpensNew
    <3>3. QED
      BY <1>1, <2>2, <3>2, KnownFrame
  <2>3. CASE /\ CacheAtLeave[n] # NoText
             /\ opens' = Superseded
             /\ selected' \in {selected, n} /\ tabs' \subseteq tabs \cup {n}
    <3>1. Known(n)'
      BY <1>1, <2>3 DEF Known
    <3>2. OpensNew'
      BY <2>1, <2>3 DEF OpensNew
    <3>3. TabsKnown' /\ ShownKnown'
      BY <1>1, <2>3, <3>1 DEF KnownInv, NoteTypeOK, TabsKnown, ShownKnown, KnownSame
    <3>4. QED
      BY <3>2, <3>3
  <2>4. QED
    BY <2>2, <2>3 DEF OpenRequest, Show
<1>4. ConflictsKnown' /\ ReadKnown' /\ NewUntouched'
  BY <1>1, KnownFrame DEF OpenRequest, Kept
<1>5. MergeOfShown'
  BY DEF OpenRequest, MergeOfShown
<1>6. QED
  BY <1>2, <1>3, <1>4, <1>5 DEF KnownInv

LEMMA OpenFinishKnown ==
  ASSUME NoteTypeOK, OneLive, KnownInv, NEW o \in opens, OpenFinish(o)
  PROVE  KnownInv'
<1> USE DEF conflictVars, editorVars, ghostVars
<1>1. o.uri \in Notes /\ o.md \in Text
  BY DEF OpenFinish, NoteTypeOK, Opens
<1>2. CASE ~o.live
  <2>1. KnownSame
    BY <1>2, KnownKeeps DEF OpenFinish, Proceeds
  <2>2. OpensNew'
    BY <1>2, <2>1 DEF OpenFinish, KnownInv, OpensNew, KnownSame, NoteTypeOK, Opens
  <2>3. QED
    BY <1>2, <2>1, <2>2, KnownFrame DEF OpenFinish, Proceeds, KnownInv
<1>3. CASE o.live
  <2>1. /\ cache' = [cache EXCEPT ![o.uri] = o.md]
        /\ selected' \in {selected, o.uri} /\ tabs' \subseteq tabs \cup {o.uri}
        /\ UNCHANGED <<disk, conflictVars, chain, reading>>
        /\ opens' = opens \ {o}
    BY <1>3 DEF OpenFinish, Proceeds, Show
  <2>2. ~Known(o.uri) /\ Known(o.uri)'
    BY <1>1, <1>3, <2>1, TextIsNoText DEF KnownInv, OpensNew, Known, NoteTypeOK
  <2>3. \A n \in Notes : Known(n)' <=> Known(n) \/ n = o.uri
    BY <1>1, <2>1, <2>2 DEF Known, NoteTypeOK
  <2>4. OpensNew'
    BY <1>3, <2>1 DEF OneLive, OpensNew
  <2>5. ShownKnown' /\ TabsKnown' /\ NewUntouched'
    BY <1>1, <2>1, <2>3
       DEF KnownInv, NoteTypeOK, ShownKnown, TabsKnown, NewUntouched
  <2>6. ReadKnown' /\ ConflictsKnown'
    BY <2>1, <2>3 DEF KnownInv, ReadKnown, ConflictsKnown, KnownIn
  <2>7. OneRuns' /\ SavesKnown'
    BY <2>1, <2>3 DEF KnownInv, OneRuns, SavesKnown, WithText, Saves, Later
  <2>8. MergeOfShown'
    <3>1. merging = NoBody \/ merging.uri # o.uri
      BY <2>2 DEF KnownInv, ConflictsKnown, KnownIn
    <3>2. QED
      BY <2>1, <3>1 DEF KnownInv, MergeOfShown
  <2>9. QED
    BY <2>4, <2>5, <2>6, <2>7, <2>8 DEF KnownInv
<1>4. QED
  BY <1>2, <1>3

LEMMA OpensKnown ==
  ASSUME NoteTypeOK, KnownInv,
         \/ \E o \in opens : OpenRead(o)
         \/ \E n \in Notes : CloseTab(n)
  PROVE  KnownInv'
<1> USE DEF conflictVars, editorVars, ghostVars
<1>1. KnownSame
  BY KnownKeeps DEF OpenRead, CloseTab
<1>2. ASSUME NEW o \in opens, OpenRead(o) PROVE KnownInv'
  <2> DEFINE next == [o EXCEPT !.md = disk[o.uri]]
  <2>1. next.live = o.live /\ next.uri = o.uri
    BY DEF NoteTypeOK, Opens
  <2>2. opens' = (opens \ {o}) \cup {next}
    BY <1>2 DEF OpenRead
  <2> HIDE DEF next
  <2>3. OpensNew'
    BY <1>1, <2>1, <2>2 DEF KnownInv, OpensNew, KnownSame, NoteTypeOK, Opens
  <2>4. QED
    BY <1>1, <1>2, <2>3, KnownFrame DEF OpenRead, KnownInv
<1>3. ASSUME NEW n \in Notes, CloseTab(n) PROVE KnownInv'
  BY <1>1, <1>3, KnownFrame DEF CloseTab, KnownInv
<1>4. QED
  BY <1>2, <1>3

LEMMA TakeBodyKnown ==
  ASSUME NoteTypeOK, KnownInv, NEW md \in Text, ReadOfShown, TakeBody(md)
  PROVE  KnownInv'
<1>1. reading.uri \in Notes /\ Known(reading.uri)
  BY DEF KnownInv, ReadKnown, KnownIn, ReadOfShown
<1>2. KnownSame
  BY <1>1, KnownPut DEF TakeBody
<1>3. selected' = selected
  BY DEF TakeBody, Show, ReadOfShown
<1>4. /\ {blocking', soft', merging'} \subseteq {blocking, soft, merging, reading, NoBody}
      /\ reading' = NoBody /\ merging' = merging /\ blocking' \in {blocking, NoBody}
  BY DEF TakeBody, ClearConflictsOf, Without
<1>5. UNCHANGED <<disk, tabs, chain, opens>>
  BY DEF TakeBody
<1>6. QED
  BY <1>2, <1>3, <1>4, <1>5, KnownFrame DEF KnownInv

LEMMA ReconcileKnown ==
  ASSUME NoteTypeOK, KnownInv,
         \/ \E n \in Notes : ReconcileRead(n)
         \/ ReconcileBackground \/ ReconcileNoop \/ ReconcileReload
         \/ ReconcileMerge \/ ReconcileDefer \/ ReconcileSoft \/ DeferFire
  PROVE  KnownInv'
<1> USE DEF conflictVars, editorVars, ghostVars
<1>1. ASSUME NEW n \in Notes, ReconcileRead(n) PROVE KnownInv'
  <2>1. KnownSame
    BY <1>1, KnownKeeps DEF ReconcileRead
  <2>2. ReadKnown'
    BY <1>1, <2>1, NoBodyIsNoNote DEF ReconcileRead, KnownInv, ReadKnown, KnownIn, Body,
                      ShownKnown, TabsKnown, KnownSame, Known
  <2>3. QED
    BY <1>1, <2>1, <2>2, KnownFrame DEF ReconcileRead, KnownInv
<1>2. ASSUME ReconcileBackground PROVE KnownInv'
  <2>1. reading.uri \in Notes /\ Known(reading.uri) /\ reading.md \in Text
    BY <1>2, BodyType DEF ReconcileBackground, NoteTypeOK, KnownInv, ReadKnown, KnownIn
  <2>2. KnownSame
    BY <1>2, <2>1, KnownPut DEF ReconcileBackground
  <2>3. QED
    BY <1>2, <2>2, KnownFrame DEF ReconcileBackground, KnownInv
<1>3. ASSUME ReconcileReload PROVE KnownInv'
  BY <1>3, ReadingType, TakeBodyKnown DEF ReconcileReload
<1>4. ASSUME ReconcileMerge PROVE KnownInv'
  <2>1. Merged(persisted.md, editor, reading.md) \in Text
    BY <1>4, ReadingType, MergedType DEF ReconcileMerge, NoteTypeOK
  <2>2. QED
    BY <1>4, <2>1, TakeBodyKnown DEF ReconcileMerge
<1>5. ASSUME ReconcileNoop \/ ReconcileDefer \/ ReconcileSoft \/ DeferFire
      PROVE  KnownInv'
  <2>1. KnownSame
    BY <1>5, KnownKeeps DEF ReconcileNoop, ReconcileDefer, ReconcileSoft, DeferFire
  <2>2. /\ {blocking', soft', merging'} \subseteq {blocking, soft, merging, reading, NoBody}
        /\ blocking' \in {blocking, NoBody} /\ reading' \in {reading, NoBody}
        /\ UNCHANGED <<selected, tabs, merging, opens, disk, chain>>
    BY <1>5 DEF ReconcileNoop, ReconcileDefer, ReconcileSoft, DeferFire, Without
  <2>3. QED
    BY <2>1, <2>2, KnownFrame DEF KnownInv
<1>6. QED
  BY <1>1, <1>2, <1>3, <1>4, <1>5

LEMMA ConflictKnown ==
  ASSUME NoteTypeOK, KnownInv,
         ResolveReload \/ KeepLocal \/ Elevate \/ EnterMerge \/ DismissSoft
  PROVE  KnownInv'
<1> USE DEF conflictVars, editorVars, ghostVars
<1>1. KnownSame /\ selected' = selected
  <2>1. CASE ResolveReload /\ blocking.uri = selected
    <3>1. selected \in Notes /\ Known(selected) /\ blocking.md \in Text
      BY <2>1, BodyType DEF ResolveReload, NoteTypeOK, KnownInv, ShownKnown
    <3>2. QED
      BY <2>1, <3>1, KnownPut DEF ResolveReload, Show
  <2>2. CASE ~(ResolveReload /\ blocking.uri = selected)
    BY <2>2, KnownKeeps DEF ResolveReload, KeepLocal, Elevate, EnterMerge, DismissSoft
  <2>3. QED
    BY <2>1, <2>2
<1>2. /\ {blocking', soft', merging'} \subseteq {blocking, soft, merging, reading, NoBody}
      /\ UNCHANGED <<tabs, reading, opens, disk, chain>>
  BY DEF ResolveReload, KeepLocal, Elevate, EnterMerge, DismissSoft, Answered
<1>3. MergeOfShown'
  <2>1. CASE ResolveReload \/ KeepLocal \/ DismissSoft
    <3>1. merging' \in {merging, NoBody} /\ blocking' \in {blocking, NoBody}
      BY <2>1 DEF ResolveReload, KeepLocal, DismissSoft, Answered
    <3>2. QED
      BY <1>1, <3>1, KnownFrame
  <2>2. CASE Elevate \/ EnterMerge
    BY <1>1, <2>2 DEF Elevate, EnterMerge, MergeOfShown
  <2>3. QED
    BY <2>1, <2>2
<1>4. QED
  BY <1>1, <1>2, <1>3, KnownFrame DEF KnownInv

LEMMA ApplyMergedKnown ==
  ASSUME NoteTypeOK, KnownInv, ApplyMerged
  PROVE  KnownInv'
<1> DEFINE body == editor \cup merging.md
           job  == OutgoingJob(merging.uri, body)
<1>1. merging.uri \in Notes /\ Known(merging.uri) /\ body \in Text
  BY BodyType DEF ApplyMerged, NoteTypeOK, KnownInv, ConflictsKnown, KnownIn, Text
<1>2. cache' = [cache EXCEPT ![merging.uri] = body] /\ chain' = Append(chain, job)
  BY DEF ApplyMerged
<1>3. job \in Jobs /\ job.at = "queued" /\ job.kind = "outgoing" /\ job.uri = merging.uri
  BY <1>1, OutgoingJobQueued
<1> HIDE DEF body, job
<1>4. KnownSame
  BY <1>1, <1>2, KnownPut
<1>5. Saves' = Saves \cup {job} /\ OneRuns'
  BY <1>2, <1>3, QueueGrows DEF NoteTypeOK, KnownInv
<1>6. SavesKnown'
  BY <1>1, <1>3, <1>4, <1>5, SavesKnownMore
<1>7. /\ {blocking', soft', merging'} \subseteq {blocking, soft, merging, reading, NoBody}
      /\ blocking' = NoBody /\ merging' = NoBody
      /\ UNCHANGED <<selected, tabs, reading, opens, disk>>
  BY DEF ApplyMerged
<1>8. QED
  BY <1>4, <1>5, <1>6, <1>7, KnownFrame DEF KnownInv

LEMMA KnownInitially == NoteInit => KnownInv
<1> SUFFICES ASSUME NoteInit PROVE KnownInv
  OBVIOUS
<1>1. Saves = {} /\ OneRuns
  BY DEF NoteInit, Saves, Entries, OneRuns
<1>2. QED
  BY <1>1, NoteAssumption
     DEF NoteInit, KnownInv, SavesKnown, WithText, ShownKnown, TabsKnown, ReadKnown,
         ConflictsKnown, KnownIn, OpensNew, NewUntouched, Typed, MergeOfShown

LEMMA KnownStep ==
  ASSUME NoteInv, KnownInv, [NoteNext]_noteVars
  PROVE  KnownInv'
<1>1. CASE UNCHANGED noteVars
  <2>1. KnownSame
    BY <1>1, KnownKeeps DEF noteVars, editorVars, NoteInv
  <2>2. QED
    BY <1>1, <2>1, KnownFrame
       DEF noteVars, editorVars, conflictVars, NoteInv, KnownInv
<1>2. CASE NoteNext
  BY <1>2, TypingKnown, AutosaveKnown, JobStartKnown, JobWriteKnown, JobEndKnown,
     OpenRequestKnown, OpenFinishKnown, OpensKnown, ReconcileKnown, ConflictKnown,
     ApplyMergedKnown DEF NoteNext, NoteInv
<1>3. QED
  BY <1>1, <1>2

(* Whatever the app holds of a note, it holds of one whose body it caches:  *)
(* no read that is still awaited is for a note with a cached text, and no   *)
(* note has been typed in before its first open has ended.                  *)
THEOREM NotesAreKnown == NoteSpec => []KnownInv
<1>1. NoteInv /\ KnownInv /\ [NoteNext]_noteVars => KnownInv'
  BY KnownStep
<1>2. QED
  BY <1>1, KnownInitially, NoteInvariant, PTL DEF NoteSpec

-----------------------------------------------------------------------------
(* Every text that is held anywhere is made of marks placed before, so a    *)
(* new mark makes a text differ from all others.                           *)

NotesPlaced ==
  \A n \in Notes : disk[n] \subseteq placed /\ (Known(n) => cache[n] \subseteq placed)
EditorPlaced == editor \subseteq placed
BodiesPlaced ==
  \A body \in {persisted, blocking, soft, merging, reading} : body.md \subseteq placed
SavesPlaced == \A job \in Saves : job.md \subseteq placed
OpensPlaced == \A o \in opens : o.md # NoText => o.md \subseteq placed

PlacedInv == NotesPlaced /\ EditorPlaced /\ BodiesPlaced /\ SavesPlaced /\ OpensPlaced

LEMMA PlacedFrame ==
  ASSUME PlacedInv, placed \subseteq placed'
  PROVE  /\ UNCHANGED <<disk, cache>> => NotesPlaced'
         /\ editor' = editor => EditorPlaced'
         /\ {persisted', blocking', soft', merging', reading'} \subseteq
              {persisted, blocking, soft, merging, reading, NoBody} => BodiesPlaced'
         /\ chain' = chain => SavesPlaced'
         /\ opens' = opens => OpensPlaced'
<1> USE DEF PlacedInv
<1>1. UNCHANGED <<disk, cache>> => NotesPlaced'
  BY DEF NotesPlaced, Known
<1>2. NoBody.md = {}
  BY DEF NoBody, Body
<1>3. ASSUME {persisted', blocking', soft', merging', reading'} \subseteq
               {persisted, blocking, soft, merging, reading, NoBody}
      PROVE  BodiesPlaced'
  BY <1>2, <1>3 DEF BodiesPlaced
<1>4. QED
  BY <1>1, <1>3 DEF EditorPlaced, SavesPlaced, Saves, OpensPlaced

LEMMA TypingPlaced ==
  ASSUME NoteTypeOK, PlacedInv,
         \/ \E m \in UserMarks : Type(m)
         \/ \E m \in ExternalMarks : ExternalEdit(m)
  PROVE  PlacedInv'
<1> USE DEF conflictVars, editorVars, ghostVars
<1>1. ASSUME NEW m \in UserMarks, Type(m) PROVE PlacedInv'
  <2>1. placed' = placed \cup {m} /\ editor' = editor \cup {m}
    BY <1>1 DEF Type
  <2>2. EditorPlaced'
    BY <2>1 DEF PlacedInv, EditorPlaced
  <2>3. QED
    BY <1>1, <2>1, <2>2, PlacedFrame DEF Type, PlacedInv
<1>2. ASSUME NEW m \in ExternalMarks, ExternalEdit(m) PROVE PlacedInv'
  <2>1. placed' = placed \cup {m} /\ cache' = cache
    BY <1>2 DEF ExternalEdit
  <2>2. NotesPlaced'
    BY <1>2, <2>1 DEF ExternalEdit, NoteTypeOK, PlacedInv, NotesPlaced, Known
  <2>3. QED
    BY <1>2, <2>1, <2>2, PlacedFrame DEF ExternalEdit, PlacedInv
<1>3. QED
  BY <1>1, <1>2

LEMMA SavesPlacedStep ==
  ASSUME NoteTypeOK, KnownInv, PlacedInv,
         JobStart \/ JobWrite \/ JobFail \/ JobFinish \/ AutosaveFire \/ Flush
  PROVE  PlacedInv'
<1> USE DEF conflictVars, editorVars, ghostVars
<1> DEFINE job == Head(chain)
<1>1. ASSUME chain # <<>> PROVE Saves = {job} \cup Later /\ job.md \subseteq placed
  BY <1>1, FirstSave DEF PlacedInv, SavesPlaced
<1>2. ASSUME JobStart PROVE PlacedInv'
  <2>1. JobStarts(job)
    BY <1>2, JobStartQueue
  <2>2. SavesPlaced'
    BY <1>1, <1>2, <2>1 DEF JobStart, JobStarts, PlacedInv, SavesPlaced, EditorPlaced
  <2>3. QED
    BY <1>2, <2>2, PlacedFrame DEF JobStart, PlacedInv
<1>3. ASSUME JobWrite PROVE PlacedInv'
  <2>1. PICK next \in Jobs : Saves' = {next} \cup Later /\ next.md = job.md
    BY <1>3, JobWriteQueue
  <2>2. SavesPlaced'
    BY <1>1, <1>3, <2>1 DEF JobWrite, PlacedInv, SavesPlaced
  <2>3. NotesPlaced'
    BY <1>1, <1>3 DEF JobWrite, NoteTypeOK, PlacedInv, NotesPlaced, Known
  <2>4. QED
    BY <1>3, <2>2, <2>3, PlacedFrame DEF JobWrite, PlacedInv
<1>4. ASSUME JobFail \/ JobFinish PROVE PlacedInv'
  <2>1. SavesPlaced'
    BY <1>1, <1>4, JobEndQueue DEF JobFail, JobFinish, PlacedInv, SavesPlaced
  <2>2. /\ cache' = cache \/ cache' = [cache EXCEPT ![job.uri] = job.md]
        /\ persisted' \in {persisted, Body(job.uri, job.md)} /\ disk' = disk
    BY <1>4 DEF JobFail, JobFinish
  <2>3. job.md \subseteq placed
    BY <1>1, <1>4 DEF JobFail, JobFinish
  <2> HIDE DEF job
  <2>4. NotesPlaced'
    BY <1>4, <2>2, <2>3 DEF JobFail, JobFinish, NoteTypeOK, PlacedInv, NotesPlaced, Known
  <2>5. BodiesPlaced'
    <3>1. UNCHANGED <<blocking, soft, merging, reading, placed>>
      BY <1>4 DEF JobFail, JobFinish
    <3>2. persisted'.md \subseteq placed
      BY <2>2, <2>3 DEF PlacedInv, BodiesPlaced, Body
    <3>3. QED
      BY <3>1, <3>2 DEF PlacedInv, BodiesPlaced
  <2>6. QED
    BY <1>4, <2>1, <2>4, <2>5, PlacedFrame DEF JobFail, JobFinish, PlacedInv
<1>5. ASSUME AutosaveFire \/ Flush PROVE PlacedInv'
  <2>1. CASE chain' = chain
    BY <1>5, <2>1, PlacedFrame DEF AutosaveFire, Flush, PlacedInv
  <2>2. CASE chain' = Append(chain, ActiveJob)
    <3>1. Saves' = Saves \cup {ActiveJob} /\ ActiveJob.md = {}
      BY <2>2, ActiveJobQueued, QueueGrows DEF NoteTypeOK, KnownInv, ActiveJob
    <3>2. SavesPlaced'
      BY <1>5, <3>1 DEF AutosaveFire, Flush, PlacedInv, SavesPlaced
    <3>3. QED
      BY <1>5, <3>2, PlacedFrame DEF AutosaveFire, Flush, PlacedInv
  <2>3. QED
    BY <1>5, <2>1, <2>2 DEF AutosaveFire, Flush
<1>6. QED
  BY <1>2, <1>3, <1>4, <1>5

(* The save that an open leaves behind, if the note was not saved.         *)
LEMMA OpenRequestQueue ==
  ASSUME NoteTypeOK, KnownInv, NEW n \in Notes, NEW background \in BOOLEAN,
         OpenRequest(n, background)
  PROVE  LET job == OutgoingJob(selected, editor)
         IN  IF LeavesDirty
             THEN /\ selected \in Notes
                  /\ job.at = "queued" /\ job.uri = selected /\ job.md = editor
                  /\ Saves' = Saves \cup {job} /\ WithText' = WithText \cup {job}
             ELSE Saves' = Saves /\ WithText' = WithText
<1> DEFINE job == OutgoingJob(selected, editor)
<1>1. /\ job \in Jobs /\ job.at = "queued" /\ job.uri = selected
      /\ job.md = editor /\ job # ActiveJob
  <2>1. selected \in Notes \cup {NoNote} /\ editor \in Text
    BY DEF NoteTypeOK
  <2>2. QED
    BY <2>1, OutgoingJobQueued
<1>2. LeavesDirty => selected \in Notes
  BY DEF LeavesDirty, Leaving, NoteTypeOK
<1>3. chain' = IF LeavesDirty THEN Append(chain, job) ELSE chain
  BY DEF OpenRequest
<1> HIDE DEF job
<1>4. CASE LeavesDirty
  <2>1. Saves' = Saves \cup {job}
    BY <1>1, <1>3, <1>4, QueueGrows DEF NoteTypeOK, KnownInv
  <2>2. WithText' = WithText \cup {job}
    BY <1>1, <2>1 DEF WithText
  <2>3. QED
    BY <1>1, <1>2, <1>4, <2>1, <2>2 DEF job
<1>5. CASE ~LeavesDirty
  BY <1>3, <1>5 DEF Saves, WithText
<1>6. QED
  BY <1>4, <1>5

LEMMA OpensPlacedStep ==
  ASSUME NoteTypeOK, KnownInv, PlacedInv,
         \/ \E n \in Notes, background \in BOOLEAN : OpenRequest(n, background)
         \/ \E o \in opens : OpenRead(o) \/ OpenFinish(o)
         \/ \E n \in Notes : CloseTab(n)
  PROVE  PlacedInv'
<1> USE DEF conflictVars, editorVars, ghostVars
<1>1. ASSUME NEW n \in Notes, NEW background \in BOOLEAN, OpenRequest(n, background)
      PROVE  PlacedInv'
  <2>1. placed' = placed /\ disk' = disk /\ cache' = CacheAtLeave
    BY <1>1 DEF OpenRequest
  <2>2. \A k \in Notes : CacheAtLeave[k] # NoText => CacheAtLeave[k] \subseteq placed
    BY CacheAtLeaveKnown DEF PlacedInv, NotesPlaced, EditorPlaced, NoteTypeOK
  <2>3. NotesPlaced'
    BY <2>1, <2>2 DEF PlacedInv, NotesPlaced, Known
  <2>4. SavesPlaced'
    BY <1>1, <2>1, OpenRequestQueue DEF PlacedInv, SavesPlaced, EditorPlaced
  <2>5. \/ UNCHANGED <<editor, persisted>>
        \/ editor' \subseteq placed /\ persisted'.md = editor'
    BY <1>1, <2>2 DEF OpenRequest, Show, Body
  <2>6. EditorPlaced' /\ BodiesPlaced'
    <3>1. {blocking', soft', merging', reading'} \subseteq {blocking, soft, merging, reading, NoBody}
      BY <1>1 DEF OpenRequest, Kept
    <3>2. NoBody.md = {}
      BY DEF NoBody, Body
    <3>3. QED
      BY <2>1, <2>5, <3>1, <3>2 DEF PlacedInv, EditorPlaced, BodiesPlaced
  <2>7. OpensPlaced'
    <3>1. ASSUME NEW o \in Superseded PROVE o.md # NoText => o.md \subseteq placed
      <4>1. PICK k \in opens : o = [k EXCEPT !.live = FALSE]
        BY DEF Superseded
      <4>2. o.md = k.md
        BY <4>1 DEF NoteTypeOK, Opens
      <4>3. QED
        BY <4>2 DEF PlacedInv, OpensPlaced
    <3>2. QED
      BY <1>1, <2>1, <3>1 DEF OpenRequest, OpensPlaced
  <2>8. QED
    BY <2>3, <2>4, <2>6, <2>7 DEF PlacedInv
<1>2. ASSUME NEW o \in opens, OpenRead(o) PROVE PlacedInv'
  <2> DEFINE next == [o EXCEPT !.md = disk[o.uri]]
  <2>1. next.md = disk[o.uri] /\ o.uri \in Notes
    BY DEF NoteTypeOK, Opens
  <2>2. opens' = (opens \ {o}) \cup {next}
    BY <1>2 DEF OpenRead
  <2> HIDE DEF next
  <2>3. OpensPlaced'
    BY <1>2, <2>1, <2>2 DEF OpenRead, PlacedInv, NotesPlaced, OpensPlaced
  <2>4. QED
    BY <1>2, <2>3, PlacedFrame DEF OpenRead, PlacedInv
<1>3. ASSUME NEW o \in opens, OpenFinish(o) PROVE PlacedInv'
  <2>1. o.uri \in Notes /\ o.md \subseteq placed
    BY <1>3 DEF OpenFinish, NoteTypeOK, Opens, PlacedInv, OpensPlaced
  <2>2. /\ cache' = cache \/ cache' = [cache EXCEPT ![o.uri] = o.md]
        /\ UNCHANGED <<disk, placed, blocking, soft, merging, reading, chain>>
        /\ opens' \subseteq opens
    BY <1>3 DEF OpenFinish
  <2>3. NotesPlaced'
    BY <2>1, <2>2 DEF NoteTypeOK, PlacedInv, NotesPlaced, Known
  <2>4. \/ UNCHANGED <<editor, persisted>>
        \/ editor' = o.md /\ persisted'.md = o.md
    BY <1>3 DEF OpenFinish, Show, Body
  <2>5. EditorPlaced' /\ BodiesPlaced'
    BY <2>1, <2>2, <2>4 DEF PlacedInv, EditorPlaced, BodiesPlaced
  <2>6. SavesPlaced' /\ OpensPlaced'
    BY <2>2 DEF PlacedInv, SavesPlaced, Saves, OpensPlaced
  <2>7. QED
    BY <2>3, <2>5, <2>6 DEF PlacedInv
<1>4. ASSUME NEW n \in Notes, CloseTab(n) PROVE PlacedInv'
  BY <1>4, PlacedFrame DEF CloseTab, PlacedInv
<1>5. QED
  BY <1>1, <1>2, <1>3, <1>4

LEMMA TakeBodyPlaced ==
  ASSUME NoteTypeOK, PlacedInv, NEW md, md \subseteq placed, TakeBody(md)
  PROVE  PlacedInv'
<1>1. /\ cache' = [cache EXCEPT ![reading.uri] = md] /\ editor' = md
      /\ persisted'.md = md
      /\ UNCHANGED <<disk, placed, merging, chain, opens>>
  BY DEF TakeBody, Show, Body
<1>2. {blocking', soft', reading'} \subseteq {blocking, soft, NoBody} /\ NoBody.md = {}
  BY DEF TakeBody, ClearConflictsOf, Without, NoBody, Body
<1>3. NotesPlaced'
  BY <1>1 DEF NoteTypeOK, PlacedInv, NotesPlaced, Known
<1>4. EditorPlaced' /\ BodiesPlaced'
  BY <1>1, <1>2 DEF PlacedInv, EditorPlaced, BodiesPlaced
<1>5. QED
  BY <1>1, <1>3, <1>4, PlacedFrame DEF PlacedInv

LEMMA ReconcilePlaced ==
  ASSUME NoteTypeOK, KnownInv, PlacedInv,
         \/ \E n \in Notes : ReconcileRead(n)
         \/ ReconcileBackground \/ ReconcileNoop \/ ReconcileReload
         \/ ReconcileMerge \/ ReconcileDefer \/ ReconcileSoft \/ DeferFire
  PROVE  PlacedInv'
<1> USE DEF conflictVars, editorVars, ghostVars
<1>1. ASSUME NEW n \in Notes, ReconcileRead(n) PROVE PlacedInv'
  <2>1. reading'.md = disk[n] /\ UNCHANGED <<persisted, blocking, soft, merging, placed>>
    BY <1>1 DEF ReconcileRead, Body
  <2>2. BodiesPlaced'
    BY <2>1 DEF PlacedInv, NotesPlaced, BodiesPlaced
  <2>3. QED
    BY <1>1, <2>2, PlacedFrame DEF ReconcileRead, PlacedInv
<1>2. reading.md \subseteq placed
  BY DEF PlacedInv, BodiesPlaced
<1>3. ASSUME ReconcileBackground PROVE PlacedInv'
  <2>1. NotesPlaced'
    BY <1>2, <1>3 DEF ReconcileBackground, NoteTypeOK, PlacedInv, NotesPlaced, Known
  <2>2. QED
    BY <1>3, <2>1, PlacedFrame DEF ReconcileBackground, PlacedInv
<1>4. ASSUME ReconcileReload PROVE PlacedInv'
  BY <1>2, <1>4, TakeBodyPlaced DEF ReconcileReload
<1>5. ASSUME ReconcileMerge PROVE PlacedInv'
  <2>1. Merged(persisted.md, editor, reading.md) \subseteq placed
    BY <1>2 DEF Merged, PlacedInv, EditorPlaced
  <2>2. QED
    BY <1>5, <2>1, TakeBodyPlaced DEF ReconcileMerge
<1>6. ASSUME ReconcileNoop \/ ReconcileDefer \/ ReconcileSoft \/ DeferFire
      PROVE  PlacedInv'
  <2>1. /\ {persisted', blocking', soft', merging', reading'} \subseteq
             {persisted, blocking, soft, merging, reading, NoBody}
        /\ UNCHANGED <<placed, disk, cache, editor, chain, opens>>
    BY <1>6 DEF ReconcileNoop, ReconcileDefer, ReconcileSoft, DeferFire, Without
  <2>2. QED
    BY <2>1, PlacedFrame DEF PlacedInv
<1>7. QED
  BY <1>1, <1>3, <1>4, <1>5, <1>6

LEMMA ConflictPlaced ==
  ASSUME NoteTypeOK, PlacedInv,
         ResolveReload \/ KeepLocal \/ Elevate \/ EnterMerge \/ DismissSoft
  PROVE  PlacedInv'
<1> USE DEF conflictVars, editorVars, ghostVars
<1>1. CASE ResolveReload /\ blocking.uri = selected
  <2>1. /\ cache' = [cache EXCEPT ![selected] = blocking.md] /\ editor' = blocking.md
        /\ persisted'.md = blocking.md
        /\ {blocking', soft', merging', reading'} \subseteq {blocking, soft, merging, reading, NoBody}
        /\ UNCHANGED <<disk, placed, chain, opens>>
    BY <1>1 DEF ResolveReload, Show, Body, Answered
  <2>2. NoBody.md = {} /\ blocking.md \subseteq placed
    BY DEF NoBody, Body, PlacedInv, BodiesPlaced
  <2>3. NotesPlaced'
    BY <2>1, <2>2 DEF NoteTypeOK, PlacedInv, NotesPlaced, Known
  <2>4. EditorPlaced' /\ BodiesPlaced'
    BY <2>1, <2>2 DEF PlacedInv, EditorPlaced, BodiesPlaced
  <2>5. QED
    BY <2>1, <2>3, <2>4, PlacedFrame DEF PlacedInv
<1>2. CASE ~(ResolveReload /\ blocking.uri = selected)
  <2>1. /\ {persisted', blocking', soft', merging', reading'} \subseteq
             {persisted, blocking, soft, merging, reading, NoBody}
        /\ UNCHANGED <<placed, disk, cache, editor, chain, opens>>
    BY <1>2 DEF ResolveReload, KeepLocal, Elevate, EnterMerge, DismissSoft, Answered
  <2>2. QED
    BY <2>1, PlacedFrame DEF PlacedInv
<1>3. QED
  BY <1>1, <1>2

LEMMA ApplyMergedQueue ==
  ASSUME NoteTypeOK, KnownInv, ApplyMerged
  PROVE  LET job == OutgoingJob(merging.uri, editor')
         IN  /\ job.at = "queued" /\ job.uri = merging.uri /\ job.md = editor'
             /\ Saves' = Saves \cup {job} /\ WithText' = WithText \cup {job}
<1> DEFINE job == OutgoingJob(merging.uri, editor')
<1>1. editor' \in Text /\ merging.uri \in Notes \cup {NoNote}
  BY BodyType DEF ApplyMerged, NoteTypeOK, Text
<1>2. /\ job \in Jobs /\ job.at = "queued" /\ job.uri = merging.uri
      /\ job.md = editor' /\ job # ActiveJob
  BY <1>1, OutgoingJobQueued
<1>3. chain' = Append(chain, job)
  BY DEF ApplyMerged
<1> HIDE DEF job
<1>4. Saves' = Saves \cup {job}
  BY <1>2, <1>3, QueueGrows DEF NoteTypeOK, KnownInv
<1>5. WithText' = WithText \cup {job}
  BY <1>2, <1>4 DEF WithText
<1>6. QED
  BY <1>2, <1>4, <1>5 DEF job

LEMMA ApplyMergedPlaced ==
  ASSUME NoteTypeOK, KnownInv, PlacedInv, ApplyMerged
  PROVE  PlacedInv'
<1>1. /\ editor' = editor \cup merging.md /\ cache' = [cache EXCEPT ![merging.uri] = editor']
      /\ {persisted', blocking', soft', merging', reading'} \subseteq
             {persisted, blocking, soft, merging, reading, NoBody}
      /\ UNCHANGED <<disk, placed, opens>>
  BY DEF ApplyMerged
<1>2. EditorPlaced'
  BY <1>1 DEF PlacedInv, EditorPlaced, BodiesPlaced
<1>3. NotesPlaced'
  BY <1>1, <1>2 DEF NoteTypeOK, PlacedInv, NotesPlaced, Known, EditorPlaced
<1>4. SavesPlaced'
  BY <1>1, <1>2, ApplyMergedQueue DEF PlacedInv, SavesPlaced, EditorPlaced
<1>5. QED
  BY <1>1, <1>2, <1>3, <1>4, PlacedFrame DEF PlacedInv

LEMMA PlacedInitially == NoteInit => PlacedInv
<1> SUFFICES ASSUME NoteInit PROVE PlacedInv
  OBVIOUS
<1>1. Saves = {} /\ NoBody.md = {}
  BY DEF NoteInit, Saves, Entries, NoBody, Body
<1>2. QED
  BY <1>1 DEF NoteInit, PlacedInv, NotesPlaced, Known, EditorPlaced, BodiesPlaced,
              SavesPlaced, OpensPlaced

LEMMA PlacedStep ==
  ASSUME NoteInv, KnownInv, PlacedInv, [NoteNext]_noteVars
  PROVE  PlacedInv'
<1>1. CASE UNCHANGED noteVars
  BY <1>1, PlacedFrame
     DEF noteVars, editorVars, conflictVars, ghostVars, PlacedInv
<1>2. CASE NoteNext
  BY <1>2, TypingPlaced, SavesPlacedStep, OpensPlacedStep, ReconcilePlaced,
     ConflictPlaced, ApplyMergedPlaced DEF NoteNext, NoteInv
<1>3. QED
  BY <1>1, <1>2

-----------------------------------------------------------------------------
(* The text the app holds of a note has all that was typed in it and saved *)
(* or is being saved, as long as no step has been taken that may cost it.  *)

(* The editor's text, or the one that is cached.                           *)
Current(n) == IF selected = n THEN editor ELSE cache[n]

Covers(job) == Typed(Current(job.uri)) \subseteq job.md

SavedIsShown == selected # NoNote => persisted.uri = selected

DiskShown == \A n \in Notes : Known(n) => Typed(disk[n]) \subseteq Current(n)
SavesShown == \A job \in WithText : Typed(job.md) \subseteq Current(job.uri)

(* What a conflict shows of the disk is in every save of the note, too.     *)
ConflictSaved(c) ==
  c # NoBody => /\ Typed(c.md) \subseteq disk[c.uri]
                /\ \A job \in WithText : job.uri = c.uri => Typed(c.md) \subseteq job.md
ConflictsSaved == ConflictSaved(blocking) /\ ConflictSaved(soft)

(* Another note is about to take the editor: its text has gone to the cache. *)
Leaves == TypedUnderOpen
LeftIsCached == Leaves /\ selected # NoNote => Typed(cache[selected]) = Typed(editor)

(* The text of a note, as it is now, waits in the queue.                   *)
Snapshot(n) == cache[n] = Current(n) /\ OutgoingJob(n, cache[n]) \in WithText

(* Nothing more is going to be saved for n but what the queue has.         *)
AtRest(n) == selected # n \/ persisted.md = editor \/ Leaves

(* A save under way that is behind the text has the rest behind it.        *)
LateHasSnapshot ==
  \A job \in WithText :
    job.at # "queued" /\ AtRest(job.uri) => Covers(job) \/ Snapshot(job.uri)

(* A save that waits and will not be skipped.                              *)
Pending(job) == job.at = "queued" /\ job.md = cache[job.uri]

(* A text that is taken for saved is in every save that is to come.        *)
PendingCovers ==
  persisted.md = editor
    => \A job \in WithText : Pending(job) /\ job.uri = selected => Covers(job)

TextParts ==
  /\ SavedIsShown /\ DiskShown /\ SavesShown /\ ConflictsSaved
  /\ LeftIsCached /\ LateHasSnapshot /\ PendingCovers
TextInv == ~excused => TextParts

(* No note loses what was typed in it.                                     *)
TextsKept == \A n \in Notes : Known(n) => Typed(Current(n)) \subseteq Current(n)'

TextStep == TextParts' /\ (TextsKept \/ Replaces)

LEMMA WithTextJobs ==
  ASSUME NoteTypeOK, KnownInv, NEW job \in WithText
  PROVE  /\ job \in Jobs /\ job \in Saves /\ job.uri \in Notes /\ Known(job.uri)
         /\ job.md \in Text
         /\ job.at = "queued" => job.kind = "outgoing"
<1>1. job \in Jobs
  BY SavesAreJobs DEF NoteTypeOK, WithText
<1>2. QED
  BY <1>1 DEF KnownInv, SavesKnown, WithText, Jobs

(* The texts, their saves and opens are as before: only conflicts change.  *)
textVars == <<disk, selected, editor, cache, persisted, opens>>

LEMMA TextsStay ==
  ASSUME NoteTypeOK, KnownInv, TextParts, UNCHANGED textVars, WithText' = WithText,
         ConflictSaved(blocking)' /\ ConflictSaved(soft)'
  PROVE  TextStep
<1> USE DEF textVars
<1>1. SavedIsShown' /\ DiskShown' /\ SavesShown'
  BY DEF TextParts, SavedIsShown, DiskShown, SavesShown, Current, Known
<1>2. LeftIsCached' /\ LateHasSnapshot' /\ PendingCovers'
  BY DEF TextParts, LeftIsCached, LateHasSnapshot, PendingCovers, Current, Covers,
         Snapshot, AtRest, Pending, Leaves, TypedUnderOpen
<1>3. TextsKept
  BY DEF TextsKept, Current, Typed
<1>4. QED
  BY <1>1, <1>2, <1>3 DEF TextStep, TextParts, ConflictsSaved

LEMMA ConflictStays ==
  ASSUME TextParts, disk' = disk, WithText' = WithText
  PROVE  /\ blocking' \in {blocking, soft, NoBody} => ConflictSaved(blocking)'
         /\ soft' \in {blocking, soft, NoBody} => ConflictSaved(soft)'
BY DEF TextParts, ConflictsSaved, ConflictSaved

LEMMA SavesTell ==
  ASSUME NoteTypeOK
  PROVE  \A n : SavePending(n) <=> \E job \in Saves : job.kind = "active" \/ job.uri = n
BY DEF SavePending, Saves, Entries

LEMMA ConflictText ==
  ASSUME NoteTypeOK, KnownInv, TextParts, ~excused',
         \/ \E n \in Notes : ReconcileRead(n) \/ CloseTab(n)
         \/ ReconcileNoop \/ ReconcileDefer \/ ReconcileSoft \/ DeferFire
         \/ ResolveReload \/ Elevate \/ EnterMerge \/ DismissSoft
  PROVE  TextStep
<1> USE DEF conflictVars, editorVars, ghostVars
<1>1. CASE ReconcileSoft
  <2>1. UNCHANGED textVars /\ chain' = chain
    BY <1>1 DEF ReconcileSoft, textVars
  <2>2. WithText' = WithText /\ disk' = disk
    BY <2>1 DEF WithText, Saves, textVars
  <2>3. ~SavePending(reading.uri) /\ reading.md = disk[reading.uri]
    BY <1>1 DEF ReconcileSoft, Judge
  <2>4. \A job \in WithText : job.uri # reading.uri
    BY <2>3, SavesTell DEF WithText
  <2>5. soft' = reading /\ blocking' = NoBody
    BY <1>1 DEF ReconcileSoft
  <2>6. ConflictSaved(soft)' /\ ConflictSaved(blocking)'
    BY <2>2, <2>3, <2>4, <2>5 DEF ConflictSaved, Typed
  <2>7. QED
    BY <2>1, <2>2, <2>6, TextsStay
<1>2. CASE ~ReconcileSoft
  <2>1. /\ UNCHANGED textVars /\ chain' = chain
        /\ {blocking', soft'} \subseteq {blocking, soft, NoBody}
    BY <1>2 DEF ReconcileRead, CloseTab, ReconcileNoop, ReconcileDefer, DeferFire,
                ResolveReload, Elevate, EnterMerge, DismissSoft, Without, Judge, textVars
  <2>2. WithText' = WithText /\ disk' = disk
    BY <2>1 DEF WithText, Saves, textVars
  <2>3. QED
    BY <2>1, <2>2, ConflictStays, TextsStay
<1>3. QED
  BY <1>1, <1>2

(* The user's own version is kept: what was saved of it covers the disk's. *)
LEMMA KeepLocalText ==
  ASSUME NoteTypeOK, KnownInv, TextParts, KeepLocal
  PROVE  TextStep
<1> USE DEF conflictVars, editorVars, ghostVars
<1>1. WithText' = WithText /\ disk' = disk
  BY DEF KeepLocal, WithText, Saves
<1>2. CASE blocking.uri # selected
  <2>1. UNCHANGED textVars /\ UNCHANGED <<blocking, soft>>
    BY <1>2 DEF KeepLocal, textVars
  <2>2. QED
    BY <1>1, <2>1, ConflictStays, TextsStay
<1>3. CASE blocking.uri = selected
  <2>1. /\ persisted' = blocking /\ blocking' = NoBody /\ soft' = NoBody
        /\ UNCHANGED <<disk, selected, editor, cache, opens>>
        /\ selected # NoNote
    BY <1>3 DEF KeepLocal
  <2>2. ASSUME NEW job \in WithText, job.uri = selected, blocking.md = editor
        PROVE  Covers(job)
    <3>1. Typed(blocking.md) \subseteq job.md
      BY <1>3, <2>1, <2>2, NoBodyIsNoNote DEF TextParts, ConflictsSaved, ConflictSaved
    <3>2. QED
      BY <2>2, <3>1 DEF Covers, Current
  <2>3. \A n : Current(n)' = Current(n)
    BY <2>1 DEF Current
  <2>4. LateHasSnapshot'
    <3>1. ASSUME NEW job \in WithText, job.at # "queued", AtRest(job.uri)'
          PROVE  Covers(job) \/ Snapshot(job.uri)
      <4>1. AtRest(job.uri) \/ (job.uri = selected /\ blocking.md = editor)
        BY <2>1, <3>1 DEF AtRest, Leaves, TypedUnderOpen
      <4>2. QED
        BY <2>2, <3>1, <4>1 DEF TextParts, LateHasSnapshot
    <3>2. QED
      BY <1>1, <2>1, <2>3, <3>1 DEF LateHasSnapshot, Covers, Snapshot
  <2>5. PendingCovers'
    BY <1>1, <2>1, <2>2, <2>3 DEF PendingCovers, Covers, Pending
  <2>6. SavedIsShown' /\ DiskShown' /\ SavesShown' /\ LeftIsCached'
    BY <1>1, <1>3, <2>1, <2>3
       DEF TextParts, SavedIsShown, DiskShown, SavesShown, LeftIsCached, Known,
           Leaves, TypedUnderOpen
  <2>7. ConflictsSaved' /\ TextsKept
    BY <1>1, <2>1, <2>3, ConflictStays DEF ConflictsSaved, TextsKept, Typed
  <2>8. QED
    BY <2>4, <2>5, <2>6, <2>7 DEF TextStep, TextParts
<1>4. QED
  BY <1>2, <1>3

LEMMA TypeText ==
  ASSUME NoteTypeOK, KnownInv, PlacedInv, TextParts, ~excused',
         NEW m \in UserMarks, Type(m)
  PROVE  TextStep
<1> USE DEF conflictVars, editorVars, ghostVars
<1>1. /\ editor' = editor \cup {m} /\ m \notin placed /\ ~Leaves /\ Leaves' = Leaves
      /\ UNCHANGED <<disk, selected, persisted, cache, blocking, soft>>
  BY DEF Type, Leaves, TypedUnderOpen
<1>2. WithText' = WithText
  BY DEF Type, WithText, Saves
<1>3. persisted'.md # editor'
  BY <1>1 DEF PlacedInv, BodiesPlaced
<1>4. \A n \in Notes : Current(n) \subseteq Current(n)' /\ (n # selected => Current(n)' = Current(n))
  BY <1>1 DEF Current
<1>5. SavedIsShown' /\ DiskShown' /\ SavesShown'
  <2>1. \A job \in WithText : job.uri \in Notes
    BY WithTextJobs
  <2>2. QED
    BY <1>1, <1>2, <1>4, <2>1 DEF TextParts, SavedIsShown, DiskShown, SavesShown, Known
<1>6. ConflictsSaved'
  BY <1>1, <1>2, ConflictStays DEF ConflictsSaved
<1>7. LeftIsCached' /\ PendingCovers'
  BY <1>1, <1>3 DEF LeftIsCached, PendingCovers
<1>8. LateHasSnapshot'
  <2>1. ASSUME NEW job \in WithText, job.at # "queued", AtRest(job.uri)'
        PROVE  (Covers(job) \/ Snapshot(job.uri))'
    <3>1. job.uri # selected /\ job.uri \in Notes
      BY <1>1, <1>3, <2>1, WithTextJobs DEF AtRest
    <3>2. Current(job.uri)' = Current(job.uri) /\ cache' = cache
      BY <1>1, <1>4, <3>1
    <3>3. Covers(job) \/ Snapshot(job.uri)
      BY <2>1, <3>1 DEF TextParts, LateHasSnapshot, AtRest
    <3>4. QED
      BY <1>2, <3>2, <3>3 DEF Covers, Snapshot
  <2>2. QED
    BY <1>2, <2>1 DEF LateHasSnapshot
<1>9. TextsKept
  BY <1>4 DEF TextsKept, Typed
<1>10. QED
  BY <1>5, <1>6, <1>7, <1>8, <1>9 DEF TextStep, TextParts

LEMMA ExternalText ==
  ASSUME NoteTypeOK, KnownInv, TextParts, NEW m \in ExternalMarks, ExternalEdit(m)
  PROVE  TextStep
<1> USE DEF conflictVars, editorVars, ghostVars
<1>1. /\ UNCHANGED <<selected, editor, cache, persisted, opens, blocking, soft>>
      /\ WithText' = WithText
  BY DEF ExternalEdit, WithText, Saves
<1>2. \A n \in Notes : Typed(disk[n])' = Typed(disk[n]) /\ disk[n] \subseteq disk'[n]
  BY NoteAssumption DEF ExternalEdit, NoteTypeOK, Typed, NoteAssumption
<1>3. SavedIsShown' /\ DiskShown' /\ SavesShown'
  BY <1>1, <1>2 DEF TextParts, SavedIsShown, DiskShown, SavesShown, Current, Known
<1>4. LeftIsCached' /\ LateHasSnapshot' /\ PendingCovers'
  BY <1>1 DEF TextParts, LeftIsCached, LateHasSnapshot, PendingCovers, Current,
              Covers, Snapshot, AtRest, Pending, Leaves, TypedUnderOpen
<1>5. ConflictsSaved'
  <2>1. (blocking # NoBody => blocking.uri \in Notes) /\ (soft # NoBody => soft.uri \in Notes)
    BY DEF KnownInv, ConflictsKnown, KnownIn
  <2>2. QED
    BY <1>1, <1>2, <2>1 DEF TextParts, ConflictsSaved, ConflictSaved
<1>6. TextsKept
  BY <1>1 DEF TextsKept, Current, Typed
<1>7. QED
  BY <1>3, <1>4, <1>5, <1>6 DEF TextStep, TextParts

LEMMA AutosaveText ==
  ASSUME NoteTypeOK, KnownInv, TextParts, AutosaveFire \/ Flush
  PROVE  TextStep
<1> USE DEF conflictVars, editorVars, ghostVars
<1>1. chain' = chain \/ chain' = Append(chain, ActiveJob)
  BY DEF AutosaveFire, Flush
<1>2. CASE chain' = Append(chain, ActiveJob)
  <2>1. Saves' = Saves \cup {ActiveJob}
    BY <1>2, ActiveJobQueued, QueueGrows DEF NoteTypeOK, KnownInv
  <2>2. WithText' = WithText
    BY <2>1 DEF WithText
  <2>3. UNCHANGED textVars /\ UNCHANGED <<blocking, soft>> /\ disk' = disk
    BY DEF AutosaveFire, Flush, textVars
  <2>4. QED
    BY <2>2, <2>3, ConflictStays, TextsStay
<1>3. CASE chain' = chain
  <2>1. WithText' = WithText
    BY <1>3 DEF WithText, Saves
  <2>2. UNCHANGED textVars /\ UNCHANGED <<blocking, soft>> /\ disk' = disk
    BY DEF AutosaveFire, Flush, textVars
  <2>3. QED
    BY <2>1, <2>2, ConflictStays, TextsStay
<1>4. QED
  BY <1>1, <1>2, <1>3

(* Only the first save changes, and the others have not begun.             *)
LEMMA LaterText ==
  ASSUME NoteTypeOK, KnownInv, chain # <<>>
  PROVE  /\ Later \ {ActiveJob} \subseteq WithText
         /\ \A job \in Later \ {ActiveJob} : job.at = "queued" /\ job.kind = "outgoing"
BY FirstSave DEF WithText, KnownInv, SavesKnown

LEMMA JobStartText ==
  ASSUME NoteTypeOK, KnownInv, TextParts, JobStart
  PROVE  TextStep
<1> USE DEF conflictVars, editorVars, ghostVars
<1> DEFINE job == Head(chain)
<1>1. UNCHANGED <<disk, selected, editor, cache, persisted, opens, blocking, soft>>
  BY DEF JobStart
<1>2. /\ job \in Saves /\ job.at = "queued"
      /\ Later \ {ActiveJob} \subseteq WithText
      /\ \A k \in Later \ {ActiveJob} : k.at = "queued"
      /\ job.kind = "outgoing" => job \in WithText
  BY FirstSave, LaterText DEF JobStart
<1>3. JobStarts(job)
  BY JobStartQueue
<1> HIDE DEF job
<1>4. /\ \A n : Current(n)' = Current(n)
      /\ Leaves' = Leaves
      /\ \A n : AtRest(n)' = AtRest(n)
  BY <1>1 DEF Current, Leaves, TypedUnderOpen, AtRest
<1>5. SavedIsShown' /\ DiskShown' /\ LeftIsCached' /\ TextsKept
  BY <1>1, <1>4 DEF TextParts, SavedIsShown, DiskShown, LeftIsCached, TextsKept, Known, Typed
<1>6. CASE Saves' = Later
  <2>1. WithText' \subseteq WithText /\ \A k \in WithText' : k.at = "queued"
    BY <1>2, <1>6 DEF WithText
  <2>2. SavesShown' /\ ConflictsSaved'
    BY <1>1, <1>4, <2>1 DEF TextParts, SavesShown, ConflictsSaved, ConflictSaved
  <2>3. LateHasSnapshot' /\ PendingCovers'
    BY <1>1, <1>4, <2>1
       DEF TextParts, LateHasSnapshot, PendingCovers, Pending, Covers
  <2>4. QED
    BY <1>5, <2>2, <2>3 DEF TextStep, TextParts
<1>7. ASSUME NEW next \in Jobs, Saves' = {next} \cup Later, next.at = "writing",
             Typed(next.md) \subseteq Current(next.uri),
             \A c \in {blocking, soft} :
               c # NoBody /\ c.uri = next.uri => Typed(c.md) \subseteq next.md,
             AtRest(next.uri) => Covers(next)
      PROVE  TextStep
  <2>1. /\ WithText' \subseteq WithText \cup {next}
        /\ \A k \in WithText' : k.at = "queued" \/ k = next
    BY <1>2, <1>7 DEF WithText
  <2>2. SavesShown'
    BY <1>4, <1>7, <2>1 DEF TextParts, SavesShown
  <2>3. ConflictsSaved'
    BY <1>1, <1>7, <2>1 DEF TextParts, ConflictsSaved, ConflictSaved
  <2>4. LateHasSnapshot'
    BY <1>4, <1>7, <2>1 DEF LateHasSnapshot, Covers
  <2>5. PendingCovers'
    <3>1. \A k \in WithText' : Pending(k)' => k \in WithText /\ Pending(k)
      BY <1>1, <1>7, <2>1 DEF Pending
    <3>2. QED
      BY <1>1, <1>4, <3>1 DEF TextParts, PendingCovers, Covers
  <2>6. QED
    BY <1>5, <2>2, <2>3, <2>4, <2>5 DEF TextStep, TextParts
<1>8. ASSUME NEW next \in Jobs, Saves' = {next} \cup Later, next.at = "writing",
             ~ActiveSkips, next.uri = selected, next.md = editor
      PROVE  TextStep
  <2>1. Known(selected) /\ selected \in Notes
    BY <1>8 DEF ActiveSkips, KnownInv, ShownKnown, NoteTypeOK
  <2>2. Typed(disk[selected]) \subseteq editor
    BY <2>1 DEF TextParts, DiskShown, Current
  <2>3. \A c \in {blocking, soft} :
          c # NoBody /\ c.uri = next.uri => Typed(c.md) \subseteq next.md
    BY <1>8, <2>2 DEF TextParts, ConflictsSaved, ConflictSaved, Typed
  <2>4. Typed(next.md) \subseteq Current(next.uri) /\ Covers(next)
    BY <1>8 DEF Current, Covers, Typed
  <2>5. QED
    BY <1>7, <1>8, <2>3, <2>4
<1>9. ASSUME NEW next \in Jobs, Saves' = {next} \cup Later, next.at = "writing",
             job.kind = "outgoing", ~OutgoingSkips(job),
             next.uri = job.uri, next.md = job.md
      PROVE  TextStep
  <2>1. job \in WithText /\ Known(job.uri) /\ job.uri \in Notes
    BY <1>2, <1>9, WithTextJobs
  <2>2. cache[job.uri] = job.md /\ Pending(job)
    BY <1>2, <1>9, <2>1 DEF OutgoingSkips, Known, Pending
  <2>3. Typed(next.md) \subseteq Current(next.uri)
    BY <1>9, <2>1 DEF TextParts, SavesShown
  <2>4. \A c \in {blocking, soft} :
          c # NoBody /\ c.uri = next.uri => Typed(c.md) \subseteq next.md
    BY <1>9, <2>1 DEF TextParts, ConflictsSaved, ConflictSaved
  <2>5. ASSUME AtRest(job.uri) PROVE Typed(Current(job.uri)) \subseteq job.md
    <3>1. CASE selected # job.uri
      BY <2>2, <3>1 DEF Current, Typed
    <3>2. CASE selected = job.uri /\ persisted.md = editor
      BY <2>1, <2>2, <3>2 DEF TextParts, PendingCovers, Covers
    <3>3. CASE selected = job.uri /\ Leaves
      <4>1. Typed(editor) = Typed(job.md)
        BY <2>1, <2>2, <3>3, NoBodyIsNoNote DEF TextParts, LeftIsCached
      <4>2. QED
        BY <3>3, <4>1 DEF Current, Typed
    <3>4. QED
      BY <2>5, <3>1, <3>2, <3>3 DEF AtRest
  <2>6. AtRest(next.uri) => Covers(next)
    BY <1>9, <2>5 DEF Covers
  <2>7. QED
    BY <1>7, <1>9, <2>3, <2>4, <2>6
<1>10. QED
  BY <1>3, <1>6, <1>8, <1>9 DEF JobStarts

LEMMA JobWriteText ==
  ASSUME NoteTypeOK, KnownInv, TextParts, JobWrite
  PROVE  TextStep
<1> USE DEF conflictVars, editorVars, ghostVars
<1> DEFINE job == Head(chain)
<1>1. /\ UNCHANGED <<selected, editor, cache, persisted, opens, blocking, soft>>
      /\ disk' = [disk EXCEPT ![job.uri] = job.md]
      /\ job.at # "queued"
  BY DEF JobWrite
<1>2. /\ job \in WithText /\ job.uri \in Notes
      /\ Later \ {ActiveJob} \subseteq WithText
      /\ \A k \in Later \ {ActiveJob} : k.at = "queued"
  BY FirstSave, LaterText DEF JobWrite
<1>3. PICK next \in Jobs : /\ Saves' = {next} \cup Later /\ next.at = "written"
                           /\ next.uri = job.uri /\ next.md = job.md
  BY JobWriteQueue
<1> HIDE DEF job
<1>4. /\ \A n : Current(n)' = Current(n)
      /\ Leaves' = Leaves
      /\ \A n : AtRest(n)' = AtRest(n)
  BY <1>1 DEF Current, Leaves, TypedUnderOpen, AtRest
<1>5. /\ WithText' \subseteq WithText \cup {next} /\ Later \ {ActiveJob} \subseteq WithText'
      /\ \A k \in WithText' : (k \in WithText /\ k.at = "queued") \/ k = next
  BY <1>2, <1>3 DEF WithText
<1>6. SavedIsShown' /\ LeftIsCached' /\ TextsKept
  BY <1>1, <1>4 DEF TextParts, SavedIsShown, LeftIsCached, TextsKept, Typed
<1>7. DiskShown'
  <2>1. Typed(job.md) \subseteq Current(job.uri)
    BY <1>2 DEF TextParts, SavesShown
  <2>2. QED
    BY <1>1, <1>2, <1>4, <2>1 DEF NoteTypeOK, TextParts, DiskShown, Known
<1>8. SavesShown'
  BY <1>2, <1>3, <1>4, <1>5 DEF TextParts, SavesShown
<1>9. ConflictsSaved'
  <2>1. ASSUME NEW c \in {blocking, soft} PROVE ConflictSaved(c)'
                                               \/ c' # c
    <3>1. CASE c = NoBody
      BY <3>1 DEF ConflictSaved
    <3>2. CASE c # NoBody
      <4>1. /\ Typed(c.md) \subseteq disk[c.uri] /\ c.uri \in Notes
            /\ \A k \in WithText : k.uri = c.uri => Typed(c.md) \subseteq k.md
        BY <3>2 DEF TextParts, ConflictsSaved, ConflictSaved, KnownInv, ConflictsKnown, KnownIn
      <4>2. Typed(c.md) \subseteq disk'[c.uri]
        BY <1>1, <1>2, <4>1 DEF NoteTypeOK
      <4>3. \A k \in WithText' : k.uri = c.uri => Typed(c.md) \subseteq k.md
        BY <1>2, <1>3, <1>5, <4>1
      <4>4. QED
        BY <4>2, <4>3 DEF ConflictSaved
    <3>3. QED
      BY <3>1, <3>2
  <2>2. QED
    BY <1>1, <2>1 DEF ConflictsSaved
<1>10. LateHasSnapshot'
  <2>1. AtRest(next.uri) => Covers(next) \/ Snapshot(next.uri)
    BY <1>1, <1>2, <1>3 DEF TextParts, LateHasSnapshot, Covers
  <2>2. Snapshot(next.uri) => Snapshot(next.uri)'
    <3>1. ASSUME NEW t, OutgoingJob(next.uri, t) \in WithText
          PROVE  OutgoingJob(next.uri, t) \in WithText'
      <4>1. OutgoingJob(next.uri, t) # job /\ OutgoingJob(next.uri, t) # ActiveJob
        BY <1>1 DEF OutgoingJob, ActiveJob
      <4>2. Saves = {job} \cup Later
        BY FirstSave DEF JobWrite, job
      <4>3. QED
        BY <1>5, <3>1, <4>1, <4>2 DEF WithText
    <3>2. QED
      BY <1>1, <1>4, <3>1 DEF Snapshot
  <2>3. Covers(next) => Covers(next)'
    BY <1>4 DEF Covers
  <2>4. QED
    BY <1>4, <1>5, <2>1, <2>2, <2>3 DEF LateHasSnapshot
<1>11. PendingCovers'
  <2>1. \A k \in WithText' : Pending(k)' => k \in WithText /\ Pending(k)
    BY <1>1, <1>3, <1>5 DEF Pending
  <2>2. QED
    BY <1>1, <1>4, <2>1 DEF TextParts, PendingCovers, Covers
<1>12. QED
  BY <1>6, <1>7, <1>8, <1>9, <1>10, <1>11 DEF TextStep, TextParts

LEMMA JobFailText ==
  ASSUME NoteTypeOK, KnownInv, TextParts, JobFail
  PROVE  TextStep
<1> USE DEF conflictVars, editorVars, ghostVars
<1>1. UNCHANGED <<disk, selected, editor, cache, persisted, opens, blocking, soft>>
  BY DEF JobFail
<1>2. WithText' \subseteq WithText /\ \A k \in WithText' : k.at = "queued"
  BY JobEndQueue, LaterText DEF JobFail, WithText
<1>3. \A n : Current(n)' = Current(n)
  BY <1>1 DEF Current
<1>4. SavedIsShown' /\ DiskShown' /\ LeftIsCached' /\ TextsKept
  BY <1>1, <1>3 DEF TextParts, SavedIsShown, DiskShown, LeftIsCached, TextsKept, Known,
                    Typed, Leaves, TypedUnderOpen
<1>5. SavesShown' /\ ConflictsSaved'
  BY <1>1, <1>2, <1>3 DEF TextParts, SavesShown, ConflictsSaved, ConflictSaved
<1>6. LateHasSnapshot' /\ PendingCovers'
  BY <1>1, <1>2, <1>3 DEF TextParts, LateHasSnapshot, PendingCovers, Pending, Covers
<1>7. QED
  BY <1>4, <1>5, <1>6 DEF TextStep, TextParts

(* Behind a save that ends nothing else of its note waits, or the step is  *)
(* one of those that may cost text.                                        *)
LEMMA NothingBehind ==
  ASSUME NoteTypeOK, KnownInv, JobFinish, ~excused'
  PROVE  \A k \in Later : k.kind = "outgoing" /\ k.uri = Head(chain).uri
                            => k.md = Head(chain).md
<1>1. chain \in Seq(Jobs) /\ chain # <<>> /\ ~SnapshotQueuedBehind(Head(chain))
  BY DEF JobFinish, NoteTypeOK
<1>2. /\ Len(chain) \in Nat /\ Len(Tail(chain)) = Len(chain) - 1
      /\ \A i \in 1..Len(Tail(chain)) : Tail(chain)[i] = chain[i + 1]
  BY <1>1
<1>3. \A i \in 1..Len(Tail(chain)) : i + 1 \in 2..Len(chain)
  BY <1>2
<1>4. QED
  BY <1>1, <1>2, <1>3 DEF Later, Entries, SnapshotQueuedBehind

LEMMA JobFinishText ==
  ASSUME NoteTypeOK, KnownInv, TextParts, JobFinish, ~excused'
  PROVE  TextStep
<1> USE DEF conflictVars, editorVars, ghostVars
<1> DEFINE job == Head(chain)
<1>1. /\ UNCHANGED <<disk, selected, editor, opens, blocking, soft>>
      /\ persisted' = IF selected = job.uri THEN Body(job.uri, job.md) ELSE persisted
      /\ cache' = IF Remembers(job) THEN [cache EXCEPT ![job.uri] = job.md] ELSE cache
      /\ job.at # "queued"
  BY DEF JobFinish
<1>2. /\ job \in WithText /\ job.uri \in Notes /\ Known(job.uri)
      /\ Saves = {job} \cup Later
      /\ job \in Jobs
  BY FirstSave DEF JobFinish
<1>3. /\ WithText' = Later \ {ActiveJob} /\ WithText' \subseteq WithText
      /\ \A k \in WithText' : k.at = "queued" /\ k.kind = "outgoing"
  BY JobEndQueue, LaterText DEF JobFinish, WithText
<1>4. \A k \in WithText' : k.uri = job.uri => k.md = job.md
  BY <1>3, NothingBehind
<1> HIDE DEF job
<1>5. \A n \in Notes : n # selected => cache'[n] = cache[n]
  <2>1. CASE job.kind = "active"
    BY <1>1, <1>2, <2>1 DEF Remembers, NoteTypeOK
  <2>2. CASE job.kind = "outgoing"
    BY <1>1, <1>2, <2>2 DEF Remembers, NoteTypeOK, Known
  <2>3. QED
    BY <1>2, <2>1, <2>2 DEF Jobs
<1>6. /\ \A n \in Notes : Current(n)' = Current(n)
      /\ Leaves' = Leaves
  BY <1>1, <1>5 DEF Current, Leaves, TypedUnderOpen
<1>7. SavedIsShown'
  BY <1>1 DEF TextParts, SavedIsShown, Body
<1>8. DiskShown' /\ TextsKept
  <2>1. KnownSame
    BY <1>1, <1>2, KnownPut, KnownKeeps DEF Jobs
  <2>2. QED
    BY <1>1, <1>6, <2>1 DEF TextParts, DiskShown, TextsKept, KnownSame, Typed
<1>9. SavesShown' /\ ConflictsSaved'
  <2>1. \A k \in WithText' : k.uri \in Notes
    BY <1>3, WithTextJobs
  <2>2. QED
    BY <1>1, <1>3, <1>6, <2>1 DEF TextParts, SavesShown, ConflictsSaved, ConflictSaved
<1>10. LateHasSnapshot'
  BY <1>3 DEF LateHasSnapshot
<1>11. LeftIsCached'
  <2>1. CASE selected # job.uri \/ ~Remembers(job)
    <3>1. selected # NoNote => cache'[selected] = cache[selected]
      BY <1>1, <1>2, <2>1 DEF NoteTypeOK
    <3>2. QED
      BY <1>1, <1>6, <3>1 DEF TextParts, LeftIsCached
  <2>2. CASE selected = job.uri /\ Remembers(job) /\ Leaves
    <3>1. cache'[selected] = job.md
      BY <1>1, <1>2, <2>2 DEF NoteTypeOK
    <3>2. Covers(job) \/ Snapshot(job.uri)
      BY <1>1, <1>2, <2>2 DEF TextParts, LateHasSnapshot, AtRest
    <3>3. CASE Covers(job)
      <4>1. Typed(editor) \subseteq job.md /\ Typed(job.md) \subseteq editor
        BY <1>2, <2>2, <3>3 DEF TextParts, SavesShown, Covers, Current
      <4>2. Typed(job.md) = Typed(editor)
        BY <4>1 DEF Typed
      <4>3. QED
        BY <1>1, <3>1, <4>2 DEF LeftIsCached
    <3>4. CASE Snapshot(job.uri)
      <4> DEFINE rest == OutgoingJob(job.uri, cache[job.uri])
      <4>1. rest \in WithText /\ cache[job.uri] = editor
        BY <2>2, <3>4 DEF Snapshot, Current
      <4>2. rest # job /\ rest.uri = job.uri /\ rest.md = cache[job.uri]
        BY <1>1 DEF OutgoingJob
      <4> HIDE DEF rest
      <4>3. rest \in WithText'
        BY <1>2, <1>3, <4>1, <4>2 DEF WithText
      <4>4. cache'[selected] = editor
        BY <1>4, <3>1, <4>1, <4>2, <4>3
      <4>5. QED
        BY <1>1, <4>4 DEF LeftIsCached
    <3>5. QED
      BY <3>2, <3>3, <3>4
  <2>3. CASE ~Leaves
    BY <1>6, <2>3 DEF LeftIsCached
  <2>4. QED
    BY <2>1, <2>2, <2>3
<1>12. PendingCovers'
  <2>1. CASE selected # job.uri
    <3>1. \A k \in WithText' : Pending(k)' => k \in WithText /\ (k.uri = selected => Pending(k))
      BY <1>1, <1>2, <1>3, <2>1, WithTextJobs DEF Pending, NoteTypeOK
    <3>2. persisted' = persisted /\ \A k \in WithText' : k.uri \in Notes
      BY <1>1, <1>3, <2>1, WithTextJobs
    <3>3. QED
      BY <1>1, <1>6, <3>1, <3>2 DEF TextParts, PendingCovers, Covers
  <2>2. CASE selected = job.uri
    <3>1. persisted'.md = job.md
      BY <1>1, <2>2 DEF Body
    <3>2. ASSUME NEW k \in WithText', k.uri = selected, job.md = editor
          PROVE  Covers(k)'
      <4>1. k.md = editor
        BY <1>4, <2>2, <3>2
      <4>2. Current(k.uri)' = editor
        BY <1>1, <3>2 DEF Current
      <4>3. QED
        BY <4>1, <4>2 DEF Covers, Typed
    <3>3. selected' = selected /\ editor' = editor
      BY <1>1
    <3>4. QED
      BY <3>1, <3>2, <3>3 DEF PendingCovers
  <2>3. QED
    BY <2>1, <2>2
<1>13. QED
  BY <1>7, <1>8, <1>9, <1>10, <1>11, <1>12 DEF TextStep, TextParts

(* When a note is opened, every text goes to the cache as it is.           *)
LEMMA OpenRequestTexts ==
  ASSUME NoteTypeOK, KnownInv, NEW n \in Notes, NEW background \in BOOLEAN,
         OpenRequest(n, background)
  PROVE  \A k \in Notes : Known(k) => /\ cache'[k] = Current(k)
                                      /\ Current(k)' = Current(k)
<1>1. cache' = CacheAtLeave
  BY DEF OpenRequest
<1>2. \A k \in Notes : Known(k) => cache'[k] = Current(k)
  BY <1>1, CacheAtLeaveKnown DEF Current
<1>3. \/ selected' = selected /\ editor' = editor
      \/ /\ selected' = n /\ editor' = cache'[n] /\ cache'[n] # NoText
  BY <1>1 DEF OpenRequest, Show
<1>4. QED
  BY <1>2, <1>3 DEF Current

LEMMA OpenRequestText ==
  ASSUME NoteTypeOK, KnownInv, TextParts, NEW n \in Notes, NEW background \in BOOLEAN,
         OpenRequest(n, background)
  PROVE  TextStep
<1> DEFINE rest == OutgoingJob(selected, editor)
<1>1. \A k \in Notes : Known(k) => cache'[k] = Current(k) /\ Current(k)' = Current(k)
  BY OpenRequestTexts
<1>2. \A k \in Notes : Known(k)' <=> Known(k)
  BY CacheAtLeaveKnown DEF OpenRequest, Known
<1>3. /\ disk' = disk /\ blocking' \in {blocking, NoBody} /\ soft' \in {soft, NoBody}
  BY DEF OpenRequest, Kept
<1>4. /\ WithText \subseteq WithText'
      /\ \A job \in WithText' \ WithText :
           job = rest /\ job.at = "queued" /\ job.uri = selected /\ job.md = editor
      /\ LeavesDirty => rest \in WithText'
      /\ LeavesDirty => selected \in Notes
  BY OpenRequestQueue
<1> HIDE DEF rest
<1>5. \A job \in WithText' : job.uri \in Notes /\ Known(job.uri)
  <2>1. selected \in Notes => Known(selected)
    BY NoBodyIsNoNote DEF KnownInv, ShownKnown
  <2>2. ASSUME NEW job \in WithText' \ WithText PROVE job.uri \in Notes
    BY <2>2, OpenRequestQueue
  <2>3. QED
    BY <1>4, <2>1, <2>2, WithTextJobs
<1>6. SavedIsShown'
  BY DEF OpenRequest, Show, Body, TextParts, SavedIsShown
<1>7. DiskShown' /\ TextsKept
  BY <1>1, <1>2, <1>3 DEF TextParts, DiskShown, TextsKept, Typed
<1>8. SavesShown'
  <2>1. ASSUME NEW job \in WithText' PROVE Typed(job.md) \subseteq Current(job.uri)
    <3>1. CASE job \in WithText
      BY <3>1 DEF TextParts, SavesShown
    <3>2. CASE job \notin WithText
      BY <1>4, <2>1, <3>2 DEF Current, Typed
    <3>3. QED
      BY <3>1, <3>2
  <2>2. QED
    BY <1>1, <1>5, <2>1 DEF SavesShown
<1>9. ConflictsSaved'
  <2>1. ASSUME NEW c \in {blocking, soft}, c # NoBody
        PROVE  /\ Typed(c.md) \subseteq disk[c.uri]
               /\ \A job \in WithText' : job.uri = c.uri => Typed(c.md) \subseteq job.md
    <3>1. /\ Typed(c.md) \subseteq disk[c.uri]
          /\ \A job \in WithText : job.uri = c.uri => Typed(c.md) \subseteq job.md
          /\ c.uri \in Notes /\ Known(c.uri)
      BY <2>1 DEF TextParts, ConflictsSaved, ConflictSaved, KnownInv, ConflictsKnown, KnownIn
    <3>2. Typed(disk[c.uri]) \subseteq Current(c.uri)
      BY <3>1 DEF TextParts, DiskShown
    <3>3. c.uri = selected => Typed(c.md) \subseteq editor
      BY <3>1, <3>2 DEF Current, Typed
    <3>4. QED
      BY <1>4, <3>1, <3>3
  <2>2. QED
    BY <1>3, <2>1 DEF ConflictsSaved, ConflictSaved
<1>10. \A k \in Notes : Known(k) => cache'[k] = Current(k)'
  BY <1>1
<1>11. LeftIsCached'
  <2>1. ShownKnown' /\ selected' \in Notes \cup {NoNote}
    BY OpenRequestKnown, OpenRequestType DEF KnownInv, NoteTypeOK
  <2>2. ASSUME selected' # NoNote PROVE cache'[selected'] = editor'
    <3>1. selected' \in Notes /\ Known(selected)'
      BY <2>1, <2>2 DEF ShownKnown
    <3>2. \A k \in Notes : k = selected' => Known(k) /\ Current(k)' = editor'
      BY <1>2, <3>1 DEF Current, Known
    <3>3. QED
      BY <1>10, <3>1, <3>2
  <2>3. QED
    BY <2>2 DEF LeftIsCached
<1>12. LateHasSnapshot'
  <2>1. ASSUME NEW job \in WithText', job.at # "queued", ~Covers(job)
        PROVE  OutgoingJob(job.uri, Current(job.uri)) \in WithText'
    <3>1. job \in WithText
      BY <1>4, <2>1
    <3>2. CASE AtRest(job.uri)
      BY <1>4, <2>1, <3>1, <3>2 DEF TextParts, LateHasSnapshot, Snapshot
    <3>3. CASE ~AtRest(job.uri)
      <4>1. selected = job.uri /\ persisted.md # editor
        BY <3>3 DEF AtRest
      <4>2. LeavesDirty
        BY <1>5, <2>1, <4>1, NoBodyIsNoNote DEF LeavesDirty, Leaving, Body
      <4>3. QED
        BY <1>4, <4>1, <4>2 DEF rest, Current
    <3>4. QED
      BY <3>2, <3>3
  <2>2. ASSUME NEW job \in WithText', job.at # "queued"
        PROVE  (Covers(job) \/ Snapshot(job.uri))'
    <3>1. job.uri \in Notes /\ Known(job.uri)
      BY <1>5
    <3>2. cache'[job.uri] = Current(job.uri) /\ Current(job.uri)' = Current(job.uri)
      BY <1>1, <3>1
    <3>3. QED
      BY <2>1, <2>2, <3>2 DEF Covers, Snapshot
  <2>3. QED
    BY <2>2 DEF LateHasSnapshot
<1>13. PendingCovers'
  <2>1. ASSUME NEW job \in WithText', Pending(job)' PROVE Covers(job)'
    BY <1>1, <1>5, <2>1 DEF Pending, Covers, Typed
  <2>2. QED
    BY <2>1 DEF PendingCovers
<1>14. QED
  BY <1>6, <1>7, <1>8, <1>9, <1>11, <1>12, <1>13 DEF TextStep, TextParts

LEMMA OpenReadText ==
  ASSUME NoteTypeOK, KnownInv, TextParts, NEW o \in opens, OpenRead(o)
  PROVE  TextStep
<1> USE DEF conflictVars, editorVars, ghostVars
<1> DEFINE next == [o EXCEPT !.md = disk[o.uri]]
<1>1. /\ UNCHANGED <<disk, selected, editor, cache, persisted, blocking, soft>>
      /\ WithText' = WithText
      /\ opens' = (opens \ {o}) \cup {next}
  BY DEF OpenRead, WithText, Saves
<1>2. next.live = o.live /\ next.background = o.background
  BY DEF NoteTypeOK, Opens
<1> HIDE DEF next
<1>3. Leaves' = Leaves
  BY <1>1, <1>2 DEF Leaves, TypedUnderOpen
<1>4. SavedIsShown' /\ DiskShown' /\ SavesShown' /\ ConflictsSaved' /\ LeftIsCached'
  BY <1>1, <1>3 DEF TextParts, SavedIsShown, DiskShown, SavesShown, ConflictsSaved,
                    ConflictSaved, LeftIsCached, Current, Known
<1>5. LateHasSnapshot' /\ PendingCovers'
  BY <1>1, <1>3 DEF TextParts, LateHasSnapshot, PendingCovers, Current, Covers,
                    Snapshot, AtRest, Pending
<1>6. TextsKept
  BY <1>1 DEF TextsKept, Current, Typed
<1>7. QED
  BY <1>4, <1>5, <1>6 DEF TextStep, TextParts

(* The note that takes the editor has no typed text yet, and the one that  *)
(* leaves it has its own in the cache.                                     *)
LEMMA OpenFinishText ==
  ASSUME NoteTypeOK, OneLive, KnownInv, TextParts, NEW o \in opens, OpenFinish(o)
  PROVE  TextStep
<1> USE DEF conflictVars, editorVars, ghostVars
<1>1. /\ UNCHANGED <<disk, blocking, soft>> /\ WithText' = WithText
      /\ opens' = opens \ {o}
      /\ o.uri \in Notes /\ o.md \in Text
  BY DEF OpenFinish, WithText, Saves, NoteTypeOK, Opens
<1>2. CASE ~o.live
  <2>1. UNCHANGED <<selected, editor, cache, persisted>> /\ Leaves' = Leaves
    BY <1>1, <1>2 DEF OpenFinish, Proceeds, Leaves, TypedUnderOpen
  <2>2. SavedIsShown' /\ DiskShown' /\ SavesShown' /\ ConflictsSaved' /\ LeftIsCached'
    BY <1>1, <2>1 DEF TextParts, SavedIsShown, DiskShown, SavesShown, ConflictsSaved,
                      ConflictSaved, LeftIsCached, Current, Known
  <2>3. LateHasSnapshot' /\ PendingCovers'
    BY <1>1, <2>1 DEF TextParts, LateHasSnapshot, PendingCovers, Current, Covers,
                      Snapshot, AtRest, Pending
  <2>4. TextsKept
    BY <2>1 DEF TextsKept, Current, Typed
  <2>5. QED
    BY <2>2, <2>3, <2>4 DEF TextStep, TextParts
<1>3. CASE o.live
  <2>1. /\ cache' = [cache EXCEPT ![o.uri] = o.md]
        /\ \/ o.background /\ UNCHANGED <<selected, editor, persisted>>
           \/ ~o.background /\ Show(o.uri, o.md)
    BY <1>3 DEF OpenFinish, Proceeds
  <2>2. /\ ~Known(o.uri) /\ ~Leaves'
        /\ Leaves <=> ~o.background
    BY <1>1, <1>3 DEF KnownInv, OpensNew, OneLive, Leaves, TypedUnderOpen, NoteTypeOK, Opens
  <2>3. \A n \in Notes : (Known(n) => Known(n)' /\ n # o.uri)
                         /\ (Known(n)' => Known(n) \/ n = o.uri)
    BY <1>1, <2>1, <2>2 DEF NoteTypeOK, Known
  <2>4. selected # o.uri
    BY <1>1, <2>2, NoBodyIsNoNote DEF KnownInv, ShownKnown
  <2>5. /\ \A n \in Notes : Known(n) => cache'[n] = cache[n]
        /\ cache'[o.uri] = o.md
    BY <1>1, <2>1, <2>3 DEF NoteTypeOK
  <2>6. \A n \in Notes : Known(n) => Typed(Current(n))' = Typed(Current(n))
    <3>1. CASE o.background
      BY <2>1, <2>5, <3>1 DEF Current, Typed
    <3>2. CASE ~o.background
      <4>1. selected' = o.uri /\ editor' = o.md
        BY <2>1, <3>2 DEF Show
      <4>2. selected \in Notes => Typed(cache[selected]) = Typed(editor)
        BY <2>2, <3>2, NoBodyIsNoNote DEF TextParts, LeftIsCached
      <4>3. QED
        BY <2>3, <2>5, <4>1, <4>2 DEF Current, Typed
    <3>3. QED
      BY <3>1, <3>2
  <2>7. Typed(disk[o.uri]) = {}
    BY <1>1, <2>2 DEF KnownInv, NewUntouched
  <2>8. \A job \in WithText : job.uri \in Notes /\ Known(job.uri) /\ job.uri # o.uri
    BY <2>3, WithTextJobs
  <2>9. SavedIsShown'
    BY <2>1 DEF Show, Body, TextParts, SavedIsShown
  <2>10. DiskShown' /\ TextsKept
    <3>1. ASSUME NEW n \in Notes, Known(n)
          PROVE  Typed(disk[n]) \subseteq Current(n)' /\ Typed(Current(n)) \subseteq Current(n)'
      BY <2>6, <3>1 DEF TextParts, DiskShown, Typed
    <3>2. QED
      BY <1>1, <2>3, <2>7, <3>1 DEF DiskShown, TextsKept
  <2>11. SavesShown'
    <3>1. ASSUME NEW job \in WithText PROVE Typed(job.md) \subseteq Current(job.uri)'
      <4>1. Typed(job.md) \subseteq Typed(Current(job.uri))
        BY DEF TextParts, SavesShown, Typed
      <4>2. QED
        BY <2>6, <2>8, <4>1 DEF Typed
    <3>2. QED
      BY <1>1, <3>1 DEF SavesShown
  <2>12. ConflictsSaved' /\ LeftIsCached'
    BY <1>1, <2>2 DEF TextParts, ConflictsSaved, ConflictSaved, LeftIsCached
  <2>13. LateHasSnapshot'
    <3>1. ASSUME NEW job \in WithText, job.at # "queued", AtRest(job.uri)'
          PROVE  (Covers(job) \/ Snapshot(job.uri))'
      <4>1. AtRest(job.uri)
        BY <2>1, <2>2, <3>1 DEF AtRest
      <4>2. Typed(Current(job.uri))' = Typed(Current(job.uri))
            /\ cache'[job.uri] = cache[job.uri]
        BY <2>5, <2>6, <2>8
      <4>3. CASE Covers(job)
        BY <4>2, <4>3 DEF Covers
      <4>4. CASE Snapshot(job.uri)
        <5>1. Current(job.uri)' = cache[job.uri]
          <6>1. CASE o.background
            BY <2>1, <4>2, <4>4, <6>1 DEF Current, Snapshot
          <6>2. CASE ~o.background
            BY <2>1, <2>8, <4>2, <6>2 DEF Current, Show
          <6>3. QED
            BY <6>1, <6>2
        <5>2. QED
          BY <1>1, <4>2, <4>4, <5>1 DEF Snapshot
      <4>5. QED
        BY <3>1, <4>1, <4>3, <4>4 DEF TextParts, LateHasSnapshot
    <3>2. QED
      BY <1>1, <3>1 DEF LateHasSnapshot
  <2>14. PendingCovers'
    <3>1. CASE o.background
      <4>1. \A job \in WithText : /\ Pending(job)' = Pending(job)
                                  /\ Covers(job)' = Covers(job)
        BY <2>5, <2>6, <2>8 DEF Pending, Covers
      <4>2. QED
        BY <1>1, <2>1, <3>1, <4>1 DEF TextParts, PendingCovers
    <3>2. CASE ~o.background
      BY <1>1, <2>1, <2>8, <3>2 DEF PendingCovers, Show
    <3>3. QED
      BY <3>1, <3>2
  <2>15. QED
    BY <2>9, <2>10, <2>11, <2>12, <2>13, <2>14 DEF TextStep, TextParts
<1>4. QED
  BY <1>2, <1>3

LEMMA BackgroundText ==
  ASSUME NoteTypeOK, KnownInv, TextParts, ReconcileBackground, ~excused'
  PROVE  TextStep
<1>1. /\ UNCHANGED <<disk, selected, editor, persisted, opens, blocking, soft>>
      /\ cache' = [cache EXCEPT ![reading.uri] = reading.md]
      /\ selected # reading.uri /\ WithText' = WithText
  BY DEF ReconcileBackground, conflictVars, WithText, Saves
<1>2. reading.uri \in Notes /\ Known(reading.uri) /\ reading.md \in Text
  BY BodyType DEF ReconcileBackground, NoteTypeOK, KnownInv, ReadKnown, KnownIn
<1>3. KnownSame
  BY <1>1, <1>2, KnownPut
<1>4. ~SavePending(reading.uri) /\ reading.md = disk[reading.uri]
  BY DEF ReconcileBackground, Judge
<1>5. \A job \in WithText : job.uri \in Notes /\ job.uri # reading.uri
  BY <1>4, SavesTell, WithTextJobs DEF WithText
<1>6. /\ \A n \in Notes : n # reading.uri => cache'[n] = cache[n] /\ Current(n)' = Current(n)
      /\ \A n \in Notes : n = reading.uri => Current(n)' = disk[n]
      /\ Leaves' = Leaves
  BY <1>1, <1>2, <1>4 DEF NoteTypeOK, Current, Leaves, TypedUnderOpen
<1>7. SavedIsShown' /\ ConflictsSaved'
  BY <1>1 DEF TextParts, SavedIsShown, ConflictsSaved, ConflictSaved
<1>8. DiskShown'
  <2>1. ASSUME NEW n \in Notes, Known(n) PROVE Typed(disk[n]) \subseteq Current(n)'
    <3>1. CASE n = reading.uri
      BY <1>6, <3>1 DEF Typed
    <3>2. CASE n # reading.uri
      BY <1>6, <2>1, <3>2 DEF TextParts, DiskShown
    <3>3. QED
      BY <3>1, <3>2
  <2>2. QED
    BY <1>1, <1>3, <2>1 DEF DiskShown, KnownSame
<1>9. SavesShown'
  BY <1>1, <1>5, <1>6 DEF TextParts, SavesShown
<1>10. LeftIsCached'
  <2>1. selected # NoNote => cache'[selected] = cache[selected]
    BY <1>1, <1>6 DEF NoteTypeOK
  <2>2. QED
    BY <1>1, <1>6, <2>1 DEF TextParts, LeftIsCached
<1>11. LateHasSnapshot' /\ PendingCovers'
  <2>1. ASSUME NEW job \in WithText
        PROVE  /\ Covers(job)' = Covers(job) /\ Pending(job)' = Pending(job)
               /\ Snapshot(job.uri)' = Snapshot(job.uri)
               /\ AtRest(job.uri)' = AtRest(job.uri)
    BY <1>1, <1>5, <1>6 DEF Covers, Pending, Snapshot, AtRest
  <2>2. QED
    BY <1>1, <2>1 DEF TextParts, LateHasSnapshot, PendingCovers
<1>12. Replaces
  BY DEF Replaces
<1>13. QED
  BY <1>7, <1>8, <1>9, <1>10, <1>11, <1>12 DEF TextStep, TextParts

(* A body that the disk gives takes the editor: it has all that is on disk, *)
(* and no save of the note is under way.                                   *)
LEMMA TakeBodyText ==
  ASSUME NoteTypeOK, KnownInv, TextParts, NEW md \in Text, ReadOfShown, TakeBody(md),
         Typed(disk[selected]) \subseteq md, ~excused',
         ReconcileReload \/ ReconcileMerge
  PROVE  TextStep
<1>1. /\ UNCHANGED <<disk, selected, opens>> /\ WithText' = WithText
      /\ editor' = md /\ persisted'.md = md /\ persisted'.uri = selected
      /\ cache' = [cache EXCEPT ![selected] = md]
      /\ blocking' \in {blocking, NoBody} /\ soft' \in {soft, NoBody}
  BY DEF TakeBody, Show, ReadOfShown, Body, ClearConflictsOf, Without, WithText, Saves
<1>2. selected \in Notes /\ Known(selected)
  BY DEF ReadOfShown, KnownInv, ReadKnown, KnownIn
<1>3. KnownSame
  BY <1>1, <1>2, KnownPut
<1>4. ~SavePending(selected)
  BY DEF TakeBody, Judge, ReadOfShown
<1>5. \A job \in WithText : job.uri \in Notes /\ job.uri # selected
  BY <1>4, SavesTell, WithTextJobs DEF WithText
<1>6. /\ \A n \in Notes : n # selected => cache'[n] = cache[n] /\ Current(n)' = Current(n)
      /\ Current(selected)' = md /\ cache'[selected] = md
      /\ Leaves' = Leaves
  BY <1>1, <1>2 DEF NoteTypeOK, Current, Leaves, TypedUnderOpen
<1>7. SavedIsShown' /\ LeftIsCached'
  BY <1>1, <1>6 DEF SavedIsShown, LeftIsCached
<1>8. ConflictsSaved'
  BY <1>1, ConflictStays DEF ConflictsSaved
<1>9. DiskShown'
  <2>1. ASSUME NEW n \in Notes, Known(n) PROVE Typed(disk[n]) \subseteq Current(n)'
    <3>1. CASE n = selected
      BY <1>1, <3>1 DEF Current
    <3>2. CASE n # selected
      BY <1>6, <2>1, <3>2 DEF TextParts, DiskShown
    <3>3. QED
      BY <3>1, <3>2
  <2>2. QED
    BY <1>1, <1>3, <2>1 DEF DiskShown, KnownSame
<1>10. SavesShown'
  BY <1>1, <1>5, <1>6 DEF TextParts, SavesShown
<1>11. LateHasSnapshot' /\ PendingCovers'
  <2>1. ASSUME NEW job \in WithText
        PROVE  /\ Covers(job)' = Covers(job)
               /\ Snapshot(job.uri)' = Snapshot(job.uri)
               /\ AtRest(job.uri)
    BY <1>1, <1>5, <1>6 DEF Covers, Snapshot, AtRest
  <2>2. LateHasSnapshot'
    BY <1>1, <2>1 DEF TextParts, LateHasSnapshot
  <2>3. PendingCovers'
    BY <1>1, <1>5 DEF PendingCovers
  <2>4. QED
    BY <2>2, <2>3
<1>12. Replaces
  BY DEF Replaces
<1>13. QED
  BY <1>7, <1>8, <1>9, <1>10, <1>11, <1>12 DEF TextStep, TextParts

(* The merge of two texts has what they share.                             *)
LEMMA MergedKeeps ==
  ASSUME NEW base, NEW local, NEW onDisk, NEW m \in local \cap onDisk
  PROVE  m \in Merged(base, local, onDisk)
BY DEF Merged

LEMMA ReloadText ==
  ASSUME NoteTypeOK, KnownInv, TextParts, ReconcileReload \/ ReconcileMerge, ~excused'
  PROVE  TextStep
<1>1. ReadOfShown /\ reading.md \in Text
  BY ReadingType DEF ReconcileReload, ReconcileMerge
<1>2. selected \in Notes /\ Known(selected)
  BY <1>1 DEF ReadOfShown, KnownInv, ReadKnown, KnownIn
<1>3. reading.md = disk[selected]
  BY <1>1 DEF ReconcileReload, ReconcileMerge, TakeBody, Judge, ReadOfShown
<1>4. Typed(disk[selected]) \subseteq editor
  BY <1>2 DEF TextParts, DiskShown, Current
<1>5. CASE ReconcileReload
  BY <1>1, <1>3, <1>5, TakeBodyText DEF ReconcileReload, Typed
<1>6. CASE ReconcileMerge
  <2> DEFINE md == Merged(persisted.md, editor, reading.md)
  <2>1. md \in Text /\ TakeBody(md)
    BY <1>1, <1>6, MergedType DEF ReconcileMerge, NoteTypeOK
  <2>2. Typed(disk[selected]) \subseteq md
    BY <1>3, <1>4, MergedKeeps DEF Typed
  <2> HIDE DEF md
  <2>3. QED
    BY <1>1, <1>6, <2>1, <2>2, TakeBodyText
<1>7. QED
  BY <1>5, <1>6

(* A merge that is applied to its own note adds text everywhere at once.   *)
LEMMA ApplyMergedText ==
  ASSUME NoteTypeOK, KnownInv, TextParts, ApplyMerged, ~excused'
  PROVE  TextStep
<1>1. merging.uri = selected /\ selected \in Notes /\ Known(selected)
  BY DEF ApplyMerged, KnownInv, ConflictsKnown, KnownIn
<1>2. /\ UNCHANGED <<disk, selected, opens>> /\ editor' = editor \cup merging.md
      /\ cache' = [cache EXCEPT ![selected] = editor']
      /\ persisted' = IF blocking # NoBody THEN blocking ELSE persisted
      /\ blocking' = NoBody /\ soft' = NoBody /\ merging # NoBody
      /\ editor' \in Text
  BY <1>1, ApplyMergedType DEF ApplyMerged, NoteTypeOK
<1>3. PICK more : /\ more = OutgoingJob(selected, editor')
                  /\ more.at = "queued" /\ more.uri = selected /\ more.md = editor'
                  /\ WithText' = WithText \cup {more}
  BY <1>1, ApplyMergedQueue
<1>4. KnownSame
  BY <1>1, <1>2, KnownPut
<1>5. /\ \A n \in Notes : n # selected => cache'[n] = cache[n] /\ Current(n)' = Current(n)
      /\ Current(selected)' = editor' /\ cache'[selected] = editor' /\ Current(selected) = editor
      /\ Leaves' = Leaves
  BY <1>1, <1>2 DEF NoteTypeOK, Current, Leaves, TypedUnderOpen
<1>6. \A n \in Notes : Current(n) \subseteq Current(n)'
  <2>1. ASSUME NEW n \in Notes PROVE Current(n) \subseteq Current(n)'
    BY <1>2, <1>5 DEF Current
  <2>2. QED
    BY <2>1
<1>7. \A job \in WithText : job.uri \in Notes
  BY WithTextJobs
<1>8. SavedIsShown'
  BY <1>1, <1>2 DEF TextParts, SavedIsShown, KnownInv, MergeOfShown
<1>9. ConflictsSaved' /\ LeftIsCached'
  BY <1>2, <1>5 DEF ConflictsSaved, ConflictSaved, LeftIsCached
<1>10. DiskShown' /\ TextsKept
  BY <1>2, <1>4, <1>6 DEF TextParts, DiskShown, TextsKept, KnownSame, Typed
<1>11. SavesShown'
  <2>1. Typed(more.md) \subseteq Current(more.uri)'
    BY <1>2, <1>3 DEF Current, Typed
  <2>2. ASSUME NEW job \in WithText PROVE Typed(job.md) \subseteq Current(job.uri)'
    BY <1>6, <1>7 DEF TextParts, SavesShown
  <2>3. QED
    BY <1>3, <2>1, <2>2 DEF SavesShown
<1>12. LateHasSnapshot'
  <2>1. ASSUME NEW job \in WithText, job.at # "queued", AtRest(job.uri)'
        PROVE  (Covers(job) \/ Snapshot(job.uri))'
    <3>1. CASE job.uri = selected
      BY <1>2, <1>3, <1>5, <3>1 DEF Snapshot, Current
    <3>2. CASE job.uri # selected
      <4>1. /\ AtRest(job.uri) /\ cache'[job.uri] = cache[job.uri]
            /\ Current(job.uri)' = Current(job.uri)
        BY <1>5, <1>7, <3>2 DEF AtRest
      <4>2. QED
        BY <1>3, <2>1, <4>1 DEF TextParts, LateHasSnapshot, Covers, Snapshot
    <3>3. QED
      BY <3>1, <3>2
  <2>2. QED
    BY <1>3, <2>1 DEF LateHasSnapshot
<1>13. PendingCovers'
  <2>1. ASSUME NEW job, job.uri = selected, Pending(job)' PROVE Covers(job)'
    BY <1>2, <1>5, <2>1 DEF Pending, Covers, Current, Typed
  <2>2. QED
    BY <1>2, <2>1 DEF PendingCovers
<1>14. QED
  BY <1>8, <1>9, <1>10, <1>11, <1>12, <1>13 DEF TextStep, TextParts

(* Once a step that may cost text has been taken, it stays taken.          *)
LEMMA ExcusedStays ==
  ASSUME NoteTypeOK, [NoteNext]_noteVars, ~excused'
  PROVE  ~excused
<1> USE DEF noteVars, ghostVars
<1>1. ASSUME \/ \E m \in UserMarks : Type(m)
             \/ \E m \in ExternalMarks : ExternalEdit(m)
             \/ AutosaveFire \/ Flush \/ JobStart \/ JobWrite \/ JobFail \/ JobFinish
      PROVE  ~excused
  BY <1>1 DEF Type, ExternalEdit, AutosaveFire, Flush, JobStart, JobWrite, JobFail, JobFinish
<1>2. ASSUME \/ \E n \in Notes, background \in BOOLEAN : OpenRequest(n, background)
             \/ \E o \in opens : OpenRead(o) \/ OpenFinish(o)
             \/ \E n \in Notes : CloseTab(n) \/ ReconcileRead(n)
      PROVE  ~excused
  BY <1>2 DEF OpenRequest, OpenRead, OpenFinish, CloseTab, ReconcileRead
<1>3. ASSUME ReconcileBackground \/ ReconcileNoop \/ ReconcileReload \/ ReconcileMerge
               \/ ReconcileDefer \/ ReconcileSoft \/ DeferFire
      PROVE  ~excused
  BY <1>3 DEF ReconcileBackground, ReconcileNoop, ReconcileReload, ReconcileMerge,
              ReconcileDefer, ReconcileSoft, DeferFire, TakeBody, Judge
<1>4. ASSUME ResolveReload \/ KeepLocal \/ Elevate \/ EnterMerge \/ DismissSoft \/ ApplyMerged
      PROVE  ~excused
  BY <1>4 DEF ResolveReload, KeepLocal, Elevate, EnterMerge, DismissSoft, ApplyMerged
<1>5. QED
  BY <1>1, <1>2, <1>3, <1>4 DEF NoteNext

LEMMA TextInitially == NoteInit => TextInv
<1> SUFFICES ASSUME NoteInit PROVE TextParts
  BY DEF TextInv
<1>1. WithText = {} /\ Leaves = FALSE
  BY DEF NoteInit, WithText, Saves, Entries, Leaves, TypedUnderOpen
<1>2. QED
  BY <1>1 DEF NoteInit, TextParts, SavedIsShown, DiskShown, SavesShown, ConflictsSaved,
         ConflictSaved, LeftIsCached, LateHasSnapshot, PendingCovers, Known, Typed

LEMMA TextNext ==
  ASSUME NoteInv, KnownInv, PlacedInv, TextInv, [NoteNext]_noteVars, ~excused'
  PROVE  TextStep
<1>1. NoteTypeOK /\ OneLive /\ TextParts
  BY ExcusedStays DEF NoteInv, TextInv
<1>2. CASE UNCHANGED noteVars
  <2>1. UNCHANGED textVars /\ WithText' = WithText /\ UNCHANGED <<disk, blocking, soft>>
    BY <1>2 DEF noteVars, editorVars, conflictVars, textVars, WithText, Saves
  <2>2. QED
    BY <1>1, <2>1, ConflictStays, TextsStay
<1>3. ASSUME \/ \E m \in UserMarks : Type(m)
             \/ \E m \in ExternalMarks : ExternalEdit(m)
             \/ AutosaveFire \/ Flush \/ JobStart \/ JobWrite \/ JobFail \/ JobFinish
      PROVE  TextStep
  BY <1>1, <1>3, TypeText, ExternalText, AutosaveText, JobStartText, JobWriteText,
     JobFailText, JobFinishText
<1>4. ASSUME \/ \E n \in Notes, background \in BOOLEAN : OpenRequest(n, background)
             \/ \E o \in opens : OpenRead(o) \/ OpenFinish(o)
      PROVE  TextStep
  BY <1>1, <1>4, OpenRequestText, OpenReadText, OpenFinishText
<1>5. ASSUME \/ \E n \in Notes : CloseTab(n) \/ ReconcileRead(n)
             \/ ReconcileNoop \/ ReconcileDefer \/ ReconcileSoft \/ DeferFire
             \/ ResolveReload \/ Elevate \/ EnterMerge \/ DismissSoft
      PROVE  TextStep
  BY <1>1, <1>5, ConflictText
<1>6. ASSUME ReconcileBackground \/ ReconcileReload \/ ReconcileMerge \/ KeepLocal \/ ApplyMerged
      PROVE  TextStep
  BY <1>1, <1>6, BackgroundText, ReloadText, KeepLocalText, ApplyMergedText
<1>7. QED
  BY <1>2, <1>3, <1>4, <1>5, <1>6 DEF NoteNext

(* Until a step is taken that may cost text, the app shows or caches, for   *)
(* every note, all that was typed in it and is on disk or in a save, and    *)
(* what a save under way lacks waits behind it.                             *)
THEOREM PlacedAndShown == NoteSpec => []PlacedInv /\ []TextInv
<1>1. NoteInv /\ KnownInv /\ PlacedInv /\ [NoteNext]_noteVars => PlacedInv'
  BY PlacedStep
<1>2. NoteInv /\ KnownInv /\ PlacedInv /\ TextInv /\ [NoteNext]_noteVars => TextInv'
  BY TextNext DEF TextInv, TextStep
<1>3. QED
  BY <1>1, <1>2, PlacedInitially, TextInitially, NoteInvariant, NotesAreKnown, PTL DEF NoteSpec

(* A body that is cached is replaced by another, never dropped.            *)
LEMMA KnownStays ==
  ASSUME NoteInv, KnownInv, [NoteNext]_noteVars, NEW n \in Notes, Known(n)
  PROVE  Known(n)'
<1> USE DEF noteVars, editorVars
<1>1. NoteTypeOK /\ ReadIsNote /\ OneLive
  BY DEF NoteInv
<1>2. ASSUME NEW k, NEW t \in Text, cache' = [cache EXCEPT ![k] = t] PROVE Known(n)'
  BY <1>1, <1>2, TextIsNoText DEF NoteTypeOK, Known
<1>3. CASE UNCHANGED cache
  BY <1>3 DEF Known
<1>4. CASE JobFinish
  BY <1>1, <1>2, <1>3, <1>4, FirstSave DEF JobFinish
<1>5. ASSUME NEW k \in Notes, NEW background \in BOOLEAN, OpenRequest(k, background)
      PROVE  Known(n)'
  BY <1>1, <1>5, CacheAtLeaveKnown DEF OpenRequest, Known
<1>6. ASSUME NEW o \in opens, OpenFinish(o) PROVE Known(n)'
  <2>1. o.md \in Text
    BY <1>1, <1>6 DEF OpenFinish, NoteTypeOK, Opens
  <2>2. QED
    BY <1>2, <1>3, <1>6, <2>1 DEF OpenFinish
<1>7. CASE ReconcileBackground \/ ReconcileReload
  <2>1. reading.md \in Text
    BY <1>1, BodyType DEF NoteTypeOK
  <2>2. QED
    BY <1>2, <1>7, <2>1 DEF ReconcileBackground, ReconcileReload, TakeBody
<1>8. CASE ReconcileMerge
  <2>1. Merged(persisted.md, editor, reading.md) \in Text
    BY <1>1, <1>8, ReadingType, MergedType DEF ReconcileMerge, NoteTypeOK
  <2>2. QED
    BY <1>2, <1>8, <2>1 DEF ReconcileMerge, TakeBody
<1>9. CASE ResolveReload
  <2>1. blocking.md \in Text
    BY <1>1, BodyType DEF NoteTypeOK
  <2>2. QED
    BY <1>2, <1>3, <1>9, <2>1 DEF ResolveReload
<1>10. CASE ApplyMerged
  <2>1. editor' \in Text /\ cache' = [cache EXCEPT ![merging.uri] = editor']
    BY <1>1, <1>10, ApplyMergedType DEF ApplyMerged, NoteTypeOK
  <2>2. QED
    BY <1>2, <2>1
<1>11. ASSUME \/ \E m \in UserMarks : Type(m)
              \/ \E m \in ExternalMarks : ExternalEdit(m)
              \/ AutosaveFire \/ Flush \/ JobStart \/ JobWrite \/ JobFail
              \/ \E o \in opens : OpenRead(o)
              \/ \E k \in Notes : CloseTab(k) \/ ReconcileRead(k)
       PROVE  UNCHANGED cache
  BY <1>11 DEF Type, ExternalEdit, AutosaveFire, Flush, JobStart, JobWrite, JobFail,
               OpenRead, CloseTab, ReconcileRead
<1>12. ASSUME ReconcileNoop \/ ReconcileDefer \/ ReconcileSoft \/ DeferFire
                \/ KeepLocal \/ Elevate \/ EnterMerge \/ DismissSoft
       PROVE  UNCHANGED cache
  BY <1>12 DEF ReconcileNoop, ReconcileDefer, ReconcileSoft, DeferFire, KeepLocal,
               Elevate, EnterMerge, DismissSoft
<1>13. QED
  BY <1>3, <1>4, <1>5, <1>6, <1>7, <1>8, <1>9, <1>10, <1>11, <1>12 DEF NoteNext

(* A mark that is held somewhere is in the text the app has of its note.   *)
LEMMA HeldIsShown ==
  ASSUME NoteTypeOK, KnownInv, TextParts, NEW m \in UserMarks, Held(m)
  PROVE  LET n == Place[m].note
         IN  n \in Notes /\ Known(n) /\ m \in Typed(Current(n))
<1> DEFINE n == Place[m].note
<1>1. n \in Notes
  BY NoteAssumption DEF Marks
<1>2. \/ m \in disk[n]
      \/ selected = n /\ m \in editor
      \/ selected # n /\ Known(n) /\ m \in cache[n]
  BY DEF Held, Known
<1> HIDE DEF n
<1>3. Known(n)
  BY <1>1, <1>2, NoBodyIsNoNote DEF KnownInv, NewUntouched, ShownKnown, Typed
<1>4. m \in Typed(Current(n))
  BY <1>1, <1>2, <1>3 DEF TextParts, DiskShown, Current, Typed
<1>5. QED
  BY <1>1, <1>3, <1>4 DEF n

LEMMA ShownIsHeld ==
  ASSUME NEW m, Known(Place[m].note), m \in Current(Place[m].note)
  PROVE  Held(m)
BY DEF Held, Known, Current

(* A step drops typed text only by a reconciliation, or as one of those    *)
(* that are excused.                                                       *)
LEMMA DropsAreReplacements ==
  ASSUME NoteInv, KnownInv, PlacedInv, TextInv, [NoteNext]_noteVars, Drops
  PROVE  excused' \/ Replaces
<1>1. SUFFICES ASSUME ~excused', ~Replaces PROVE FALSE
  OBVIOUS
<1>2. NoteTypeOK /\ TextParts /\ TextsKept
  BY <1>1, ExcusedStays, TextNext DEF NoteInv, TextInv, TextStep
<1>3. PICK m \in UserMarks : Held(m) /\ ~Held(m)'
  BY DEF Drops
<1>4. PICK n \in Notes : n = Place[m].note /\ Known(n) /\ m \in Typed(Current(n))
  BY <1>2, <1>3, HeldIsShown
<1>5. Known(n)' /\ m \in Current(n)'
  BY <1>2, <1>4, KnownStays DEF TextsKept
<1>6. Held(m)'
  BY <1>4, <1>5, ShownIsHeld DEF Held, Known, Current
<1>7. QED
  BY <1>3, <1>6

(* No text the user has typed is lost by leaving a note, by saving it or by *)
(* opening another: only a reconciliation that puts the disk's body in its  *)
(* place, or an excused step, drops it.                                    *)
THEOREM TypedTextIsKept == NoteSpec => TextOutlivesSaves
<1>1. NoteInv /\ KnownInv /\ PlacedInv /\ TextInv /\ [NoteNext]_noteVars
        => [Drops => excused' \/ Replaces]_noteVars
  BY DropsAreReplacements
<1>2. QED
  BY <1>1, NoteInvariant, NotesAreKnown, PlacedAndShown, PTL DEF NoteSpec, TextOutlivesSaves

-----------------------------------------------------------------------------
(* Typed text that is not saved is watched.                                *)

(* The saves of the open note that run or will not be skipped.             *)
Going(job) == job.at # "queued" \/ Pending(job)
GoingHere == {job \in WithText : job.uri = selected /\ Going(job)}

(* Something will save the text or has told the user.                      *)
Prompted == timer \/ ActiveJob \in Saves \/ blocking.uri = selected \/ failures > 0

Secured == Prompted \/ \E job \in GoingHere : Covers(job)

(* A late save alone would bring the saved text behind the editor's, so     *)
(* that nothing is going on is part of what is invariant.                  *)
Watched ==
  \/ Secured
  \/ /\ GoingHere = {}
     /\ \/ selected = NoNote
        \/ Typed(editor) \subseteq persisted.md
        \/ disk[selected] # persisted.md

WatchInv == ~excused => Watched

LEMMA WatchedStays ==
  ASSUME Watched, UNCHANGED <<selected, editor, persisted>>, GoingHere' = GoingHere,
         Prompted => Prompted', selected # NoNote => disk'[selected] = disk[selected]
  PROVE  Watched'
<1>1. \A job \in GoingHere : Covers(job)' = Covers(job)
  BY DEF GoingHere, Covers, Current
<1>2. Secured => Secured'
  BY <1>1 DEF Secured
<1>3. QED
  BY <1>2 DEF Watched

TextSaved == persisted.md = editor

(* A note that is taken for saved: each save of it has the text, or has it *)
(* behind it.                                                              *)
LEMMA SavedIsWatched ==
  NoteTypeOK /\ KnownInv /\ TextParts /\ TextSaved => Watched
<1> SUFFICES ASSUME NoteTypeOK, KnownInv, TextParts, persisted.md = editor
             PROVE  Watched
  BY DEF TextSaved
<1>1. ASSUME NEW job \in GoingHere PROVE Secured
  <2>1. job \in WithText /\ job.uri = selected /\ Going(job)
    BY <1>1 DEF GoingHere
  <2>2. CASE Covers(job)
    BY <1>1, <2>2 DEF Secured
  <2>3. CASE ~Covers(job)
    <3>1. job.at # "queued" /\ Snapshot(selected)
      BY <2>1, <2>3 DEF TextParts, PendingCovers, LateHasSnapshot, AtRest, Going
    <3> DEFINE rest == OutgoingJob(selected, cache[selected])
    <3>2. /\ rest \in WithText /\ rest.uri = selected /\ rest.md = cache[selected]
          /\ rest.at = "queued" /\ cache[selected] = Current(selected)
      BY <3>1 DEF Snapshot, OutgoingJob
    <3> HIDE DEF rest
    <3>3. rest \in GoingHere /\ Covers(rest)
      BY <3>2 DEF GoingHere, Going, Pending, Covers, Typed
    <3>4. QED
      BY <3>3 DEF Secured
  <2>4. QED
    BY <2>2, <2>3
<1>2. Typed(editor) \subseteq persisted.md
  BY DEF Typed
<1>3. QED
  BY <1>1, <1>2 DEF Watched

LEMMA SavedIsWatchedThen ==
  NoteTypeOK' /\ KnownInv' /\ TextParts' /\ TextSaved' => Watched'
BY SavedIsWatched, PTL

LEMMA TypingWatched ==
  ASSUME NoteTypeOK, KnownInv, PlacedInv, TextParts, Watched,
         \/ \E m \in UserMarks : Type(m)
         \/ \E m \in ExternalMarks : ExternalEdit(m)
  PROVE  Watched'
<1> USE DEF conflictVars, editorVars, ghostVars
<1>1. ASSUME NEW m \in UserMarks, Type(m) PROVE Watched'
  <2>1. /\ editor' = editor \cup {m} /\ m \notin placed /\ selected \in Notes
        /\ UNCHANGED <<selected, persisted, blocking>>
        /\ timer' = AutosaveDue(selected, editor', persisted, blocking)
    BY <1>1, NoteAssumption DEF Type, Marks
  <2>2. persisted.md # editor' /\ persisted.uri = selected /\ selected # NoNote
    BY <2>1, NoBodyIsNoNote DEF PlacedInv, BodiesPlaced, TextParts, SavedIsShown
  <2>3. timer' \/ blocking'.uri = selected'
    BY <2>1, <2>2 DEF AutosaveDue
  <2>4. QED
    BY <2>3 DEF Watched, Secured, Prompted
<1>2. ASSUME NEW m \in ExternalMarks, ExternalEdit(m) PROVE Watched'
  <2>1. /\ UNCHANGED <<selected, editor, persisted, cache, timer, chain, blocking, failures>>
        /\ disk' = [disk EXCEPT ![Place[m].note] = @ \cup {m}] /\ m \notin placed
    BY <1>2 DEF ExternalEdit
  <2>2. GoingHere' = GoingHere /\ (Prompted' <=> Prompted)
    BY <2>1 DEF GoingHere, Going, Pending, WithText, Saves, Prompted
  <2>3. CASE selected = NoNote \/ selected # Place[m].note
    BY <2>1, <2>2, <2>3, WatchedStays DEF NoteTypeOK
  <2>4. CASE selected = Place[m].note /\ selected # NoNote
    <3>1. m \in disk'[selected] /\ m \notin persisted.md
      BY <2>1, <2>4 DEF NoteTypeOK, PlacedInv, BodiesPlaced
    <3>2. disk'[selected] # persisted.md
      BY <3>1
    <3>3. Secured => Secured'
      BY <2>1, <2>2 DEF Secured, Covers, Current
    <3>4. QED
      BY <2>1, <2>2, <3>2, <3>3 DEF Watched
  <2>5. QED
    BY <2>3, <2>4
<1>3. QED
  BY <1>1, <1>2

LEMMA AutosaveWatched ==
  ASSUME NoteTypeOK, KnownInv, Watched, AutosaveFire \/ Flush
  PROVE  Watched'
<1> USE DEF conflictVars, editorVars, ghostVars
<1>1. \/ chain' = Append(chain, ActiveJob)
      \/ blocking'.uri = selected'
  BY DEF AutosaveFire, Flush
<1>2. ASSUME chain' = Append(chain, ActiveJob) PROVE ActiveJob \in Saves'
  <2>1. Saves' = Saves \cup {ActiveJob}
    BY <1>2, ActiveJobQueued, QueueGrows DEF NoteTypeOK, KnownInv
  <2>2. QED
    BY <2>1
<1>3. Prompted'
  BY <1>1, <1>2 DEF Prompted
<1>4. QED
  BY <1>3 DEF Watched, Secured

(* The first save starts: it takes the editor's text, or there is nothing  *)
(* to save, or a snapshot is written that is the one the cache has.        *)
LEMMA JobStartWatched ==
  ASSUME NoteTypeOK, KnownInv, TextParts, Watched,
         NoteTypeOK', KnownInv', TextParts', JobStart
  PROVE  Watched'
<1> USE DEF conflictVars, editorVars, ghostVars
<1> DEFINE job == Head(chain)
<1>1. /\ UNCHANGED <<disk, selected, editor, cache, persisted, timer, blocking, failures>>
      /\ job.at = "queued"
  BY DEF JobStart
<1>2. /\ Saves = {job} \cup Later /\ job \in Jobs
      /\ \A k \in Later : k.at = "queued"
      /\ job.kind = "outgoing" => job \in WithText
  BY FirstSave DEF JobStart
<1>3. JobStarts(job)
  BY JobStartQueue
<1>4. job.kind = "outgoing" => ActiveJob # job
  BY DEF ActiveJob
<1> HIDE DEF job
<1>5. \A k : Going(k)' = Going(k) /\ Covers(k)' = Covers(k)
  BY <1>1 DEF Going, Pending, Covers, Current
<1>6. CASE Saves' = Later /\ job.kind = "active" /\ ActiveSkips
  <2>1. CASE selected = NoNote
    <3>1. GoingHere' = {}
      <4>1. \A k \in WithText' : k \in WithText
        BY <1>2, <1>6 DEF WithText
      <4>2. QED
        BY <1>1, <2>1, <4>1, WithTextJobs, NoBodyIsNoNote DEF GoingHere
    <3>2. QED
      BY <1>1, <2>1, <3>1 DEF Watched
  <2>2. CASE blocking.uri = selected
    BY <1>1, <2>2 DEF Watched, Secured, Prompted
  <2>3. CASE persisted = Body(selected, editor)
    BY <1>1, <2>3, SavedIsWatchedThen DEF TextSaved, Body
  <2>4. QED
    BY <1>6, <2>1, <2>2, <2>3 DEF ActiveSkips
<1>7. CASE Saves' = Later /\ job.kind = "outgoing" /\ OutgoingSkips(job)
  <2>1. CASE blocking.uri = selected
    BY <1>1, <2>1 DEF Watched, Secured, Prompted
  <2>2. CASE blocking.uri # selected
    <3>1. job \notin GoingHere
      BY <1>1, <1>7, <2>2 DEF OutgoingSkips, GoingHere, Going, Pending
    <3>2. WithText' = WithText \ {job} \/ WithText' = WithText
      BY <1>2, <1>7 DEF WithText
    <3>3. GoingHere' = GoingHere
      BY <1>1, <1>5, <3>1, <3>2 DEF GoingHere
    <3>4. Prompted => Prompted'
      BY <1>1, <1>2, <1>4, <1>7 DEF Prompted
    <3>5. QED
      BY <1>1, <3>3, <3>4, WatchedStays
  <2>3. QED
    BY <2>1, <2>2
<1>8. ASSUME NEW next \in Jobs, Saves' = {next} \cup Later, next.at = "writing",
             job.kind = "active", next.uri = selected, next.md = editor
      PROVE  Watched'
  <2>1. next \in GoingHere'
    BY <1>1, <1>8 DEF GoingHere, Going, WithText, ActiveJob
  <2>2. Covers(next)'
    BY <1>1, <1>8 DEF Covers, Current, Typed
  <2>3. QED
    BY <2>1, <2>2 DEF Watched, Secured
<1>9. ASSUME NEW next \in Jobs, Saves' = {next} \cup Later, next.at = "writing",
             job.kind = "outgoing", ~OutgoingSkips(job),
             next.uri = job.uri, next.md = job.md
      PROVE  Watched'
  <2>1. job \in WithText /\ Known(job.uri)
    BY <1>2, <1>9, WithTextJobs
  <2>2. Going(job) /\ Going(next) /\ (Covers(next) <=> Covers(job))
    BY <1>1, <1>9, <2>1 DEF OutgoingSkips, Known, Going, Pending, Covers
  <2>3. /\ WithText' = {next} \cup (Later \ {ActiveJob})
        /\ WithText = {job} \cup (Later \ {ActiveJob})
    BY <1>2, <1>4, <1>9 DEF WithText, ActiveJob
  <2>4. Prompted => Prompted'
    BY <1>1, <1>2, <1>4, <1>9 DEF Prompted
  <2>5. Secured => Secured'
    <3>1. ASSUME NEW k \in GoingHere, Covers(k) PROVE Secured'
      <4>1. CASE k = job
        BY <1>1, <1>5, <1>9, <2>2, <2>3, <3>1, <4>1 DEF GoingHere, Secured
      <4>2. CASE k # job
        BY <1>1, <1>5, <2>3, <3>1, <4>2 DEF GoingHere, Secured
      <4>3. QED
        BY <4>1, <4>2
    <3>2. QED
      BY <2>4, <3>1 DEF Secured
  <2>6. GoingHere = {} => GoingHere' = {}
    BY <1>1, <1>5, <1>9, <2>2, <2>3 DEF GoingHere
  <2>7. QED
    BY <1>1, <2>5, <2>6 DEF Watched
<1>10. QED
  BY <1>3, <1>6, <1>7, <1>8, <1>9 DEF JobStarts

LEMMA JobWriteWatched ==
  ASSUME NoteTypeOK, KnownInv, Watched, JobWrite
  PROVE  Watched'
<1> USE DEF conflictVars, editorVars, ghostVars
<1> DEFINE job == Head(chain)
<1>1. /\ UNCHANGED <<selected, editor, cache, persisted, timer, blocking, failures>>
      /\ disk' = [disk EXCEPT ![job.uri] = job.md]
      /\ job.at # "queued"
  BY DEF JobWrite
<1>2. job \in WithText /\ job.uri \in Notes /\ Saves = {job} \cup Later
  BY FirstSave DEF JobWrite
<1>3. PICK next \in Jobs : /\ Saves' = {next} \cup Later /\ next.at = "written"
                           /\ next.uri = job.uri /\ next.md = job.md
  BY JobWriteQueue
<1> HIDE DEF job
<1>4. \A k : Going(k)' = Going(k) /\ Covers(k)' = Covers(k)
  BY <1>1 DEF Going, Pending, Covers, Current
<1>5. /\ WithText' = {next} \cup (Later \ {ActiveJob})
      /\ WithText = {job} \cup (Later \ {ActiveJob})
      /\ job # ActiveJob
  BY <1>1, <1>2, <1>3 DEF WithText, ActiveJob
<1>6. Prompted => Prompted'
  BY <1>1, <1>2, <1>3, <1>5 DEF Prompted
<1>7. Going(job) /\ Going(next) /\ (Covers(next) <=> Covers(job))
  BY <1>1, <1>3 DEF Going, Covers
<1>8. Secured => Secured'
  <2>1. ASSUME NEW k \in GoingHere, Covers(k) PROVE Secured'
    <3>1. CASE k = job
      BY <1>1, <1>3, <1>4, <1>5, <1>7, <2>1, <3>1 DEF GoingHere, Secured
    <3>2. CASE k # job
      BY <1>1, <1>4, <1>5, <2>1, <3>2 DEF GoingHere, Secured
    <3>3. QED
      BY <3>1, <3>2
  <2>2. QED
    BY <1>6, <2>1 DEF Secured
<1>9. GoingHere = {} => GoingHere' = {} /\ (selected # NoNote => disk'[selected] = disk[selected])
  <2>1. ASSUME GoingHere = {} PROVE job.uri # selected
    BY <1>5, <1>7, <2>1 DEF GoingHere
  <2>2. GoingHere = {} => GoingHere' = {}
    BY <1>1, <1>3, <1>4, <1>5, <2>1 DEF GoingHere
  <2>3. GoingHere = {} /\ selected # NoNote => disk'[selected] = disk[selected]
    BY <1>1, <1>2, <2>1 DEF NoteTypeOK
  <2>4. QED
    BY <2>2, <2>3
<1>10. QED
  BY <1>1, <1>8, <1>9 DEF Watched

LEMMA JobFailWatched ==
  ASSUME NoteTypeOK, JobFail
  PROVE  Watched'
<1>1. failures' > 0
  BY NoteAssumption DEF JobFail, NoteTypeOK
<1>2. QED
  BY <1>1 DEF Watched, Secured, Prompted

(* A save ends: what it wrote is taken for saved, and if it was behind the *)
(* text, something else has it.                                            *)
LEMMA JobFinishWatched ==
  ASSUME NoteTypeOK, KnownInv, TextParts, Watched, JobFinish, ~excused'
  PROVE  Watched'
<1> USE DEF conflictVars, editorVars, ghostVars
<1> DEFINE job == Head(chain)
<1>1. /\ UNCHANGED <<disk, selected, editor, timer, blocking, failures>>
      /\ persisted' = IF selected = job.uri THEN Body(job.uri, job.md) ELSE persisted
      /\ cache' = IF Remembers(job) THEN [cache EXCEPT ![job.uri] = job.md] ELSE cache
      /\ job.at # "queued"
  BY DEF JobFinish
<1>2. /\ job \in WithText /\ job.uri \in Notes /\ Saves = {job} \cup Later
  BY FirstSave DEF JobFinish
<1>3. /\ Saves' = Later
      /\ WithText' = Later \ {ActiveJob} /\ WithText = {job} \cup WithText'
      /\ \A k \in WithText' : k.at = "queued" /\ k.kind = "outgoing"
      /\ job # ActiveJob
  BY <1>1, <1>2, JobEndQueue, LaterText DEF JobFinish, WithText, ActiveJob
<1>4. \A k \in WithText' : k.uri = job.uri => k.md = job.md
  BY <1>3, NothingBehind
<1> HIDE DEF job
<1>5. Prompted => Prompted'
  BY <1>1, <1>2, <1>3 DEF Prompted
<1>6. CASE job.uri # selected
  <2>1. selected # NoNote => cache'[selected] = cache[selected]
    BY <1>1, <1>2, <1>6 DEF NoteTypeOK
  <2>2. ASSUME NEW k \in WithText', k.uri = selected PROVE Going(k)' = Going(k)
    <3>1. selected # NoNote
      BY <1>3, <2>2, WithTextJobs, NoBodyIsNoNote
    <3>2. QED
      BY <2>1, <2>2, <3>1 DEF Going, Pending
  <2>3. GoingHere' = GoingHere
    BY <1>1, <1>3, <1>6, <2>2 DEF GoingHere
  <2>4. QED
    BY <1>1, <1>5, <1>6, <2>3, WatchedStays
<1>7. CASE job.uri = selected
  <2>1. persisted'.md = job.md
    BY <1>1, <1>7 DEF Body
  <2>2. job \in GoingHere
    BY <1>1, <1>2, <1>7 DEF GoingHere, Going
  <2>3. CASE Prompted
    BY <1>5, <2>3 DEF Watched, Secured
  <2>4. ASSUME NEW k \in GoingHere, Covers(k) PROVE Watched'
    <3>1. k.md = job.md /\ k.uri = selected
      BY <1>3, <1>4, <1>7, <2>4 DEF GoingHere
    <3>2. Typed(editor) \subseteq job.md
      BY <2>4, <3>1 DEF Covers, Current
    <3>3. \A l \in GoingHere' : Covers(l)'
      BY <1>1, <1>4, <1>7, <3>2 DEF GoingHere, Covers, Current, Typed
    <3>4. (Typed(editor) \subseteq persisted.md)'
      BY <1>1, <2>1, <3>2 DEF Typed
    <3>5. QED
      BY <3>3, <3>4 DEF Watched, Secured
  <2>5. QED
    BY <2>2, <2>3, <2>4 DEF Watched, Secured
<1>8. QED
  BY <1>6, <1>7

LEMMA OpenRequestWatched ==
  ASSUME NoteTypeOK, KnownInv, TextParts, Watched,
         NoteTypeOK', KnownInv', TextParts',
         NEW n \in Notes, NEW background \in BOOLEAN, OpenRequest(n, background)
  PROVE  Watched'
<1>1. \/ UNCHANGED <<selected, editor, persisted>>
      \/ persisted'.md = editor'
  BY DEF OpenRequest, Show, Body
<1>2. CASE persisted'.md = editor'
  BY <1>2, SavedIsWatchedThen DEF TextSaved
<1>3. CASE UNCHANGED <<selected, editor, persisted>> /\ persisted'.md # editor' /\ selected # NoNote
  <2>1. LeavesDirty
    BY <1>3 DEF LeavesDirty, Leaving, Body
  <2>2. PICK rest : /\ rest.at = "queued" /\ rest.uri = selected /\ rest.md = editor
                    /\ rest \in WithText' /\ selected \in Notes
    BY <2>1, OpenRequestQueue
  <2>3. cache'[selected] = editor
    BY <2>2, CacheAtLeaveKnown DEF OpenRequest
  <2>4. rest \in GoingHere' /\ Covers(rest)'
    BY <1>3, <2>2, <2>3 DEF GoingHere, Going, Pending, Covers, Current, Typed
  <2>5. QED
    BY <2>4 DEF Watched, Secured
<1>4. CASE UNCHANGED <<selected, editor, persisted>> /\ selected = NoNote
  <2>1. \A job \in WithText' : job.uri \in Notes
    BY DEF KnownInv, SavesKnown
  <2>2. GoingHere' = {}
    BY <1>4, <2>1, NoBodyIsNoNote DEF GoingHere
  <2>3. QED
    BY <1>4, <2>2 DEF Watched
<1>5. QED
  BY <1>1, <1>2, <1>3, <1>4

LEMMA OpenReadWatched ==
  ASSUME Watched, \/ \E o \in opens : OpenRead(o)
                  \/ \E n \in Notes : CloseTab(n) \/ ReconcileRead(n)
                  \/ ReconcileNoop \/ DeferFire \/ EnterMerge \/ DismissSoft
                  \/ UNCHANGED noteVars
  PROVE  Watched'
<1> USE DEF conflictVars, editorVars, ghostVars
<1>1. UNCHANGED <<disk, selected, editor, persisted, cache, chain, timer, blocking, failures>>
  BY DEF OpenRead, CloseTab, ReconcileRead, ReconcileNoop, DeferFire, EnterMerge,
         DismissSoft, noteVars
<1>2. GoingHere' = GoingHere /\ Prompted' = Prompted
  BY <1>1 DEF GoingHere, Going, Pending, WithText, Saves, Prompted
<1>3. QED
  BY <1>1, <1>2, WatchedStays

LEMMA OpenFinishWatched ==
  ASSUME NoteTypeOK, KnownInv, TextParts, Watched,
         NoteTypeOK', KnownInv', TextParts', NEW o \in opens, OpenFinish(o)
  PROVE  Watched'
<1> USE DEF conflictVars, editorVars, ghostVars
<1>1. UNCHANGED <<disk, chain, blocking, failures>>
  BY DEF OpenFinish
<1>2. CASE Show(o.uri, o.md)
  BY <1>2, SavedIsWatchedThen DEF Show, Body, TextSaved
<1>3. CASE ~o.live
  <2>1. UNCHANGED <<selected, editor, persisted, cache, timer>>
    BY <1>3 DEF OpenFinish, Proceeds
  <2>2. GoingHere' = GoingHere /\ Prompted' = Prompted
    BY <1>1, <2>1 DEF GoingHere, Going, Pending, WithText, Saves, Prompted
  <2>3. QED
    BY <1>1, <2>1, <2>2, WatchedStays
<1>4. CASE o.live /\ UNCHANGED <<selected, editor, persisted, timer>>
  <2>1. o.uri \in Notes /\ ~Known(o.uri)
    BY <1>4 DEF KnownInv, OpensNew, NoteTypeOK, Opens
  <2>2. cache' = [cache EXCEPT ![o.uri] = o.md]
    BY <1>4 DEF OpenFinish, Proceeds
  <2>3. \A job \in WithText : job.uri \in Notes /\ job.uri # o.uri
    BY <2>1, WithTextJobs
  <2>4. \A job \in WithText : Going(job)' = Going(job)
    BY <2>2, <2>3 DEF Going, Pending, NoteTypeOK
  <2>5. WithText' = WithText /\ Prompted' = Prompted
    BY <1>1, <1>4 DEF WithText, Saves, Prompted
  <2>6. GoingHere' = GoingHere
    BY <1>4, <2>4, <2>5 DEF GoingHere
  <2>7. QED
    BY <1>1, <1>4, <2>5, <2>6, WatchedStays
<1>5. QED
  BY <1>2, <1>3, <1>4 DEF OpenFinish, Proceeds

(* A reconciliation judges a note that has no save under way: it takes the *)
(* disk's body, or leaves a difference to the disk.                        *)
LEMMA ReconcileWatched ==
  ASSUME NoteTypeOK, KnownInv, TextParts, Watched,
         NoteTypeOK', KnownInv', TextParts', ~excused',
         ReconcileBackground \/ ReconcileReload \/ ReconcileMerge
           \/ ReconcileDefer \/ ReconcileSoft
  PROVE  Watched'
<1> USE DEF conflictVars, editorVars, ghostVars
<1>1. CASE ReconcileReload \/ ReconcileMerge
  <2>1. persisted'.md = editor'
    BY <1>1 DEF ReconcileReload, ReconcileMerge, TakeBody, Show, Body
  <2>2. QED
    BY <2>1, SavedIsWatchedThen DEF TextSaved
<1>2. ASSUME ReconcileBackground \/ ReconcileDefer \/ ReconcileSoft
      PROVE  /\ UNCHANGED <<disk, selected, editor, persisted, chain, failures>>
             /\ ~SavePending(reading.uri) /\ reading.md = disk[reading.uri]
  BY <1>2 DEF ReconcileBackground, ReconcileDefer, ReconcileSoft, Judge
<1>3. WithText' = WithText /\ Saves' = Saves
  BY <1>1, <1>2 DEF WithText, Saves, ReconcileReload, ReconcileMerge, TakeBody
<1>4. CASE ReconcileBackground
  <2>1. /\ cache' = [cache EXCEPT ![reading.uri] = reading.md]
        /\ UNCHANGED <<timer, blocking>> /\ reading.uri \in Notes
    BY <1>4 DEF ReconcileBackground, KnownInv, ReadKnown, KnownIn
  <2>2. \A job \in WithText : job.uri \in Notes /\ job.uri # reading.uri
    BY <1>2, <1>4, SavesTell, WithTextJobs DEF WithText
  <2>3. \A job \in WithText : Going(job)' = Going(job)
    BY <2>1, <2>2 DEF Going, Pending, NoteTypeOK
  <2>4. GoingHere' = GoingHere /\ Prompted' = Prompted
    BY <1>2, <1>3, <1>4, <2>1, <2>3 DEF GoingHere, Prompted
  <2>5. QED
    BY <1>2, <1>4, <2>4, WatchedStays
<1>5. CASE ReconcileDefer \/ ReconcileSoft
  <2>1. ReadOfShown /\ Conflicts
    BY <1>5 DEF ReconcileDefer, ReconcileSoft, MergeFails
  <2>2. disk[selected] # persisted.md
    BY <1>2, <1>5, <2>1 DEF ReadOfShown, Conflicts, UpToDate, Dirty
  <2>3. \A job \in WithText : job.uri # selected
    BY <1>2, <1>5, <2>1, SavesTell DEF WithText, ReadOfShown
  <2>4. GoingHere' = {}
    BY <1>2, <1>3, <1>5, <2>3 DEF GoingHere
  <2>5. QED
    BY <1>2, <1>5, <2>2, <2>4 DEF Watched
<1>6. QED
  BY <1>1, <1>4, <1>5

LEMMA AnswerWatched ==
  ASSUME NoteTypeOK, KnownInv, TextParts, Watched,
         NoteTypeOK', KnownInv', TextParts', ~excused',
         ResolveReload \/ KeepLocal \/ Elevate
  PROVE  Watched'
<1> USE DEF conflictVars, editorVars, ghostVars
<1>1. CASE Elevate
  <2>1. blocking'.uri = selected'
    BY <1>1 DEF Elevate
  <2>2. QED
    BY <2>1 DEF Watched, Secured, Prompted
<1>2. CASE KeepLocal /\ blocking.uri = selected
  <2>1. /\ selected' = selected /\ editor' = editor /\ persisted' = blocking
        /\ timer' = AutosaveDue(selected, editor, persisted', NoBody)
        /\ selected \in Notes
    BY <1>2 DEF KeepLocal, NoteTypeOK
  <2>2. timer' \/ persisted'.md = editor'
    BY <1>2, <2>1, NoBodyIsNoNote DEF AutosaveDue
  <2>3. CASE timer'
    BY <2>3 DEF Watched, Secured, Prompted
  <2>4. CASE persisted'.md = editor'
    BY <2>4, SavedIsWatchedThen DEF TextSaved
  <2>5. QED
    BY <2>2, <2>3, <2>4
<1>3. CASE ResolveReload \/ (KeepLocal /\ blocking.uri # selected)
  <2>1. UNCHANGED <<disk, selected, editor, persisted, cache, chain, timer, blocking, failures>>
    BY <1>3 DEF ResolveReload, KeepLocal
  <2>2. GoingHere' = GoingHere /\ Prompted' = Prompted
    BY <2>1 DEF GoingHere, Going, Pending, WithText, Saves, Prompted
  <2>3. QED
    BY <2>1, <2>2, WatchedStays
<1>4. QED
  BY <1>1, <1>2, <1>3

LEMMA ApplyMergedWatched ==
  ASSUME NoteTypeOK, KnownInv, ApplyMerged, ~excused'
  PROVE  Watched'
<1>1. merging.uri = selected /\ selected \in Notes /\ selected' = selected
  BY DEF ApplyMerged, KnownInv, ConflictsKnown, KnownIn
<1>2. PICK more : /\ more.at = "queued" /\ more.uri = selected /\ more.md = editor'
                  /\ more \in WithText'
  BY <1>1, ApplyMergedQueue
<1>3. cache'[selected] = editor'
  BY <1>1 DEF ApplyMerged, NoteTypeOK
<1>4. more \in GoingHere' /\ Covers(more)'
  BY <1>1, <1>2, <1>3 DEF GoingHere, Going, Pending, Covers, Current, Typed
<1>5. QED
  BY <1>4 DEF Watched, Secured

LEMMA WatchInitially == NoteInit => WatchInv
<1> SUFFICES ASSUME NoteInit PROVE Watched
  BY DEF WatchInv
<1>1. GoingHere = {} /\ selected = NoNote
  BY DEF NoteInit, GoingHere, WithText, Saves, Entries
<1>2. QED
  BY <1>1 DEF Watched

LEMMA WatchStep ==
  ASSUME NoteInv, KnownInv, PlacedInv, TextInv, WatchInv, [NoteNext]_noteVars,
         NoteInv', KnownInv', TextInv'
  PROVE  WatchInv'
<1> SUFFICES ASSUME ~excused' PROVE Watched'
  BY DEF WatchInv
<1>1. /\ NoteTypeOK /\ OneLive /\ TextParts /\ Watched
      /\ NoteTypeOK' /\ TextParts'
  BY ExcusedStays DEF NoteInv, TextInv, WatchInv
<1>2. ASSUME \/ \E m \in UserMarks : Type(m)
             \/ \E m \in ExternalMarks : ExternalEdit(m)
             \/ AutosaveFire \/ Flush \/ JobStart \/ JobWrite \/ JobFail \/ JobFinish
      PROVE  Watched'
  BY <1>1, <1>2, TypingWatched, AutosaveWatched, JobStartWatched, JobWriteWatched,
     JobFailWatched, JobFinishWatched
<1>3. ASSUME \/ \E n \in Notes, background \in BOOLEAN : OpenRequest(n, background)
             \/ \E o \in opens : OpenRead(o) \/ OpenFinish(o)
             \/ \E n \in Notes : CloseTab(n) \/ ReconcileRead(n)
             \/ ReconcileNoop \/ DeferFire \/ EnterMerge \/ DismissSoft
             \/ UNCHANGED noteVars
      PROVE  Watched'
  BY <1>1, <1>3, OpenRequestWatched, OpenReadWatched, OpenFinishWatched
<1>4. ASSUME ReconcileBackground \/ ReconcileReload \/ ReconcileMerge
               \/ ReconcileDefer \/ ReconcileSoft
               \/ ResolveReload \/ KeepLocal \/ Elevate \/ ApplyMerged
      PROVE  Watched'
  BY <1>1, <1>4, ReconcileWatched, AnswerWatched, ApplyMergedWatched
<1>5. QED
  BY <1>2, <1>3, <1>4 DEF NoteNext

LEMMA WatchedIsWaiting ==
  ASSUME NoteInv, KnownInv, WatchInv
  PROVE  DirtyIsWatched
<1> SUFFICES ASSUME ~excused, selected # NoNote,
                    (editor \cap UserMarks) \ persisted.md # {}
             PROVE  Waits(selected)
  BY DEF DirtyIsWatched
<1>1. Watched /\ NoteTypeOK
  BY DEF WatchInv, NoteInv
<1>2. CASE Secured
  <2>1. ASSUME ActiveJob \in Saves PROVE SavePending(selected)
    BY <1>1, <2>1, SavesTell DEF ActiveJob
  <2>2. ASSUME NEW job \in GoingHere PROVE SavePending(selected)
    BY <1>1, SavesTell DEF GoingHere, WithText
  <2>3. QED
    BY <1>2, <2>1, <2>2 DEF Secured, Prompted, Waits
<1>3. CASE ~Secured
  BY <1>1, <1>3 DEF Watched, Typed, Waits
<1>4. QED
  BY <1>2, <1>3

(* Typed text that is not saved is always watched: the timer or a save of   *)
(* the note will write it, the user has been shown a conflict or a failed   *)
(* save, or the next probe finds the disk changed.                         *)
THEOREM TypedTextIsWatched == NoteSpec => []DirtyIsWatched
<1>1. /\ NoteInv /\ KnownInv /\ PlacedInv /\ TextInv /\ WatchInv /\ [NoteNext]_noteVars
      /\ NoteInv' /\ KnownInv' /\ TextInv'
      => WatchInv'
  BY WatchStep
<1>2. NoteInv /\ KnownInv /\ WatchInv => DirtyIsWatched
  BY WatchedIsWaiting
<1>3. QED
  BY <1>1, <1>2, WatchInitially, NoteInvariant, NotesAreKnown, PlacedAndShown, PTL
     DEF NoteSpec

-----------------------------------------------------------------------------
(* The three-way merge.                                                    *)

(* A mark that one text has and the other lacks changes its paragraph.     *)
LEMMA MarkChanges ==
  ASSUME NEW from \in Text, NEW to \in Text, NEW m \in Marks, ~(m \in from <=> m \in to)
  PROVE  Place[m].paragraph \in Changed(from, to)
<1> DEFINE p == Place[m].paragraph
<1>1. p \in Paragraphs
  BY DEF Paragraphs
<1>2. (m \in Within(from, p) <=> m \in from) /\ (m \in Within(to, p) <=> m \in to)
  BY DEF Within
<1>3. Within(from, p) # Within(to, p)
  BY <1>2
<1> HIDE DEF p
<1>4. p \in Changed(from, to)
  BY <1>1, <1>3 DEF Changed
<1>5. QED
  BY <1>4 DEF p

(* Where the merge does not give up, it has what both sides added and lacks *)
(* what either took out: no change of the user or of the disk is lost in it. *)
THEOREM MergeTakesBoth ==
  ASSUME NEW base \in Text, NEW local \in Text, NEW onDisk \in Text,
         Mergeable(base, local, onDisk)
  PROVE  Merged(base, local, onDisk) =
           {m \in local \cup onDisk : m \in base => m \in local /\ m \in onDisk}
<1> DEFINE here == Changed(base, local)
           both == {m \in local \cup onDisk : m \in base => m \in local /\ m \in onDisk}
<1>1. ASSUME NEW m \in Marks PROVE m \in Merged(base, local, onDisk) <=> m \in both
  <2> DEFINE p == Place[m].paragraph
  <2>1. m \in Merged(base, local, onDisk)
          <=> (m \in local /\ p \in here) \/ (m \in onDisk /\ p \notin here)
    BY DEF Merged
  <2>2. CASE local = onDisk
    <3>1. p \notin here => (m \in base <=> m \in local)
      BY MarkChanges
    <3>2. QED
      BY <2>1, <2>2, <3>1, MarkChanges
  <2>3. CASE here \cap Changed(base, onDisk) = {}
    <3>1. CASE p \in here
      <4>1. m \in base <=> m \in onDisk
        BY <2>3, <3>1, MarkChanges
      <4>2. QED
        BY <2>1, <3>1, <4>1
    <3>2. CASE p \notin here
      <4>1. m \in base <=> m \in local
        BY <3>2, MarkChanges
      <4>2. QED
        BY <2>1, <3>2, <4>1
    <3>3. QED
      BY <3>1, <3>2
  <2>4. QED
    BY <2>2, <2>3 DEF Mergeable
<1>2. Merged(base, local, onDisk) \subseteq Marks /\ both \subseteq Marks
  BY MergedType DEF Text
<1>3. QED
  BY <1>1, <1>2
=============================================================================
