---------------------------- MODULE NoteSession ----------------------------
(***************************************************************************)
(* The open note of the desktop app: editor text, autosave, the queue of   *)
(* saves, the cache of note bodies and the reconciliation with the disk    *)
(* (apps/desktop/src/hooks: workspacePersistence/, workspaceFsWatch*.ts,   *)
(* useDiskConflictState.ts, useMergeViewState.ts and                       *)
(* workspaceOpenMarkdownCommand.ts).                                       *)
(*                                                                         *)
(* A text is a set of marks.  Every mark is a change somebody makes once,  *)
(* at a fixed paragraph of a fixed note: the user types the UserMarks, git *)
(* and other programs add the ExternalMarks.  The code runs on one thread: *)
(* an action is what happens between two awaits.                           *)
(***************************************************************************)
EXTENDS Naturals, Sequences, FiniteSets

CONSTANTS
  Notes,          \* notes of the vault, by URI
  UserMarks,      \* changes the user types
  ExternalMarks,  \* changes other programs write to the vault
  Place,          \* Place[m]: the note and the paragraph of mark m
  NoNote,         \* null as a note
  NoText,         \* no body in the cache
  MaxChain,       \* bound on saves queued or running
  MaxOpens,       \* bound on pending reads of notes to open
  MaxFailures     \* bound on saves that fail

Marks == UserMarks \cup ExternalMarks
Text  == SUBSET Marks

ASSUME NoteAssumption ==
  /\ NoNote \notin Notes
  /\ \A t \in Text : t # NoText
  /\ UserMarks \cap ExternalMarks = {}
  /\ DOMAIN Place = Marks
  /\ \A m \in Marks : Place[m].note \in Notes
  /\ MaxChain \in Nat /\ MaxOpens \in Nat /\ MaxFailures \in Nat

VARIABLES
  disk,       \* disk[n]: the note as the vault has it
  selected,   \* selectedUriRef: the note in the editor
  editor,     \* the editor's text
  persisted,  \* lastPersistedRef: the text the app takes to be on disk
  cache,      \* inboxContentByUriRef
  tabs,       \* notes in the history of some tab
  blocking,   \* diskConflictRef: the conflict that stops saves
  soft,       \* diskConflictSoftRef: the conflict shown as a banner
  timer,      \* the autosave timer runs
  chain,      \* saveChainRef: saves in their order, the first one runs
  opens,      \* open commands that read their note
  reading,    \* what the running reconciliation has read
  deferred,   \* the note whose conflict waits for the user to pause
  skip,       \* skipRecencyDeferForUriRef
  merging,    \* the conflict in the merge view
  placed,     \* history: marks typed or written so far
  wanted,     \* history: the note the last open command is to leave selected
  excused,    \* history: a step that may cost typed text has been taken
  failures    \* number of failed saves

conflictVars == <<blocking, soft, deferred, skip, merging>>
editorVars   == <<selected, editor, persisted, cache>>
ghostVars    == <<placed, wanted, excused>>
noteVars     == <<disk, editorVars, tabs, conflictVars, timer, chain, opens,
                  reading, ghostVars, failures>>

(* A body of a note, as lastPersisted, a conflict or a read holds it. *)
Body(n, t) == [uri |-> n, md |-> t]
NoBody     == Body(NoNote, {})
Bodies     == [uri : Notes \cup {NoNote}, md : Text]

Jobs == [kind : {"active", "outgoing"}, uri : Notes \cup {NoNote}, md : Text,
         at : {"queued", "writing", "written"}]

Opens == [uri : Notes, background : BOOLEAN, live : BOOLEAN,
          md : {NoText} \cup Text]

NoteTypeOK ==
  /\ disk \in [Notes -> Text]
  /\ selected \in Notes \cup {NoNote}
  /\ editor \in Text
  /\ persisted \in Bodies
  /\ cache \in [Notes -> {NoText} \cup Text]
  /\ tabs \subseteq Notes
  /\ blocking \in Bodies /\ soft \in Bodies
  /\ timer \in BOOLEAN
  /\ chain \in Seq(Jobs)
  /\ opens \subseteq Opens
  /\ reading \in Bodies
  /\ deferred \in Notes \cup {NoNote}
  /\ skip \subseteq Notes
  /\ merging \in Bodies
  /\ placed \subseteq Marks
  /\ wanted \in Notes \cup {NoNote}
  /\ excused \in BOOLEAN
  /\ failures \in 0..MaxFailures

NoteInit ==
  /\ disk = [n \in Notes |-> {}]
  /\ selected = NoNote /\ editor = {} /\ persisted = NoBody
  /\ cache = [n \in Notes |-> NoText]
  /\ tabs = {}
  /\ blocking = NoBody /\ soft = NoBody
  /\ timer = FALSE
  /\ chain = <<>>
  /\ opens = {}
  /\ reading = NoBody
  /\ deferred = NoNote /\ skip = {}
  /\ merging = NoBody
  /\ placed = {} /\ wanted = NoNote /\ excused = FALSE
  /\ failures = 0

-----------------------------------------------------------------------------
(* The three-way merge of saved, typed and disk text.                      *)

Paragraphs == {Place[m].paragraph : m \in Marks}
Within(t, p) == {m \in t : Place[m].paragraph = p}

(* Paragraphs that differ between two texts: the hunks of a line diff. *)
Changed(from, to) == {p \in Paragraphs : Within(from, p) # Within(to, p)}

Mergeable(base, local, onDisk) ==
  \/ local = onDisk
  \/ Changed(base, local) \cap Changed(base, onDisk) = {}

Merged(base, local, onDisk) ==
  {m \in local : Place[m].paragraph \in Changed(base, local)}
    \cup {m \in onDisk : Place[m].paragraph \notin Changed(base, local)}

-----------------------------------------------------------------------------
(* Typing, autosave and the queue of saves.                                *)

(* Whether the autosave effect arms the timer, for the state it sees. *)
AutosaveDue(note, text, saved, conflict) ==
  /\ note # NoNote
  /\ conflict.uri # note
  /\ saved.uri = note
  /\ saved.md # text

OutgoingJob(n, t) == [kind |-> "outgoing", uri |-> n, md |-> t, at |-> "queued"]
ActiveJob == [kind |-> "active", uri |-> NoNote, md |-> {}, at |-> "queued"]

(* The user types although another note is about to take the editor. *)
TypedUnderOpen == \E o \in opens : o.live /\ ~o.background

(* The user changes the open note; every change restarts the debounce. *)
Type(m) ==
  /\ m \in UserMarks \ placed
  /\ selected = Place[m].note
  /\ editor' = editor \cup {m}
  /\ placed' = placed \cup {m}
  /\ timer' = AutosaveDue(selected, editor', persisted, blocking)
  /\ excused' = (excused \/ TypedUnderOpen)
  /\ UNCHANGED <<disk, selected, persisted, cache, tabs, conflictVars, chain,
                 opens, reading, wanted, failures>>

(* Git or another program changes a note in the vault. *)
ExternalEdit(m) ==
  /\ m \in ExternalMarks \ placed
  /\ disk' = [disk EXCEPT ![Place[m].note] = @ \cup {m}]
  /\ placed' = placed \cup {m}
  /\ UNCHANGED <<editorVars, tabs, conflictVars, timer, chain, opens, reading,
                 wanted, excused, failures>>

AutosaveFire ==
  /\ timer
  /\ Len(chain) < MaxChain
  /\ timer' = FALSE
  /\ chain' = Append(chain, ActiveJob)
  /\ UNCHANGED <<disk, editorVars, tabs, conflictVars, opens, reading,
                 ghostVars, failures>>

(* The save shortcut, and every command that flushes first. *)
Flush ==
  /\ selected # NoNote
  /\ Len(chain) < MaxChain
  /\ timer' = FALSE
  /\ chain' = IF blocking.uri = selected THEN chain ELSE Append(chain, ActiveJob)
  /\ UNCHANGED <<disk, editorVars, tabs, conflictVars, opens, reading,
                 ghostVars, failures>>

\* Mutant of ActiveSkips: the last save is compared by its URI alone.
ActiveSkipsByUri ==
  \/ selected = NoNote
  \/ blocking.uri = selected
  \/ persisted.uri = selected

(* The first save runs up to its write: nothing to do for a note that is   *)
(* saved or in conflict, or for a snapshot the cache no longer agrees with. *)
ActiveSkips ==
  \/ selected = NoNote
  \/ blocking.uri = selected
  \/ persisted = Body(selected, editor)

OutgoingSkips(job) ==
  \/ blocking.uri = job.uri
  \/ cache[job.uri] \notin {NoText, job.md}

JobStart ==
  /\ chain # <<>> /\ Head(chain).at = "queued"
  /\ LET job == Head(chain)
     IN  \/ /\ job.kind = "active"
            /\ chain' = IF ActiveSkips THEN Tail(chain)
                        ELSE [chain EXCEPT ![1] =
                                [kind |-> "active", uri |-> selected,
                                 md |-> editor, at |-> "writing"]]
         \/ /\ job.kind = "outgoing"
            /\ chain' = IF OutgoingSkips(job) THEN Tail(chain)
                        ELSE [chain EXCEPT ![1] = [job EXCEPT !.at = "writing"]]
  /\ UNCHANGED <<disk, editorVars, tabs, conflictVars, timer, opens, reading,
                 ghostVars, failures>>

JobWrite ==
  /\ chain # <<>> /\ Head(chain).at = "writing"
  /\ disk' = [disk EXCEPT ![Head(chain).uri] = Head(chain).md]
  /\ chain' = [chain EXCEPT ![1] = [Head(chain) EXCEPT !.at = "written"]]
  /\ UNCHANGED <<editorVars, tabs, conflictVars, timer, opens, reading,
                 ghostVars, failures>>

(* The write fails: an error is shown and the queue goes on. *)
JobFail ==
  /\ chain # <<>> /\ Head(chain).at = "writing"
  /\ failures < MaxFailures
  /\ failures' = failures + 1
  /\ chain' = Tail(chain)
  /\ UNCHANGED <<disk, editorVars, tabs, conflictVars, timer, opens, reading,
                 ghostVars>>

(* What the app remembers of a finished save, if its note is still open    *)
(* (and for a snapshot: if the cache has not moved on).                    *)
Remembers(job) ==
  IF job.kind = "active" THEN selected = job.uri
  ELSE cache[job.uri] \in {NoText, job.md}

(* The note was left with more text, and that snapshot is still queued. *)
SnapshotQueuedBehind(job) ==
  \E i \in 2..Len(chain) :
    chain[i].kind = "outgoing" /\ chain[i].uri = job.uri /\ chain[i].md # job.md

JobFinish ==
  /\ chain # <<>> /\ Head(chain).at = "written"
  /\ LET job == Head(chain)
     IN  /\ persisted' = IF selected = job.uri THEN Body(job.uri, job.md)
                         ELSE persisted
         /\ cache' = IF Remembers(job) THEN [cache EXCEPT ![job.uri] = job.md]
                     ELSE cache
         /\ excused' = (excused \/ SnapshotQueuedBehind(job))
  /\ chain' = Tail(chain)
  /\ UNCHANGED <<disk, selected, editor, tabs, conflictVars, timer, opens,
                 reading, placed, wanted, failures>>

-----------------------------------------------------------------------------
(* Opening notes.                                                          *)

(* The conflict of another note is dropped when a note is opened. *)
StaleFor(n, conflict) == conflict.uri \notin {n, NoNote}
Kept(n, conflict) == IF StaleFor(n, conflict) THEN NoBody ELSE conflict

(* The note is shown: the editor takes the body, and takes it for saved.   *)
Show(n, md) ==
  /\ selected' = n
  /\ editor' = md
  /\ persisted' = Body(n, md)

Superseded == {[o EXCEPT !.live = FALSE] : o \in opens}

Leaving == selected # NoNote
LeavesDirty == Leaving /\ persisted # Body(selected, editor)

\* Mutants of CacheAtLeave: the text of the note that is left is not kept; it is
\* kept even if no note is left.
CacheAtLeaveUnchanged == cache
CacheAtLeaveAny ==
  [n \in Notes \cup {selected} |-> IF n = selected THEN editor ELSE cache[n]]

CacheAtLeave == IF Leaving THEN [cache EXCEPT ![selected] = editor] ELSE cache

(* A note is opened, in the foreground or in a background tab: older opens *)
(* are off, the text of the current note goes to the cache and, unless it  *)
(* is saved, to the queue.  A body in the cache is shown at once, another  *)
(* is read first.  (A foreground open without a tab leaves tabs as it is.) *)
OpenRequest(n, background) ==
  /\ LeavesDirty => Len(chain) < MaxChain
  /\ blocking' = Kept(n, blocking)
  /\ soft' = Kept(n, soft)
  /\ merging' = NoBody
  /\ deferred' = NoNote
  /\ chain' = IF LeavesDirty THEN Append(chain, OutgoingJob(selected, editor))
              ELSE chain
  /\ cache' = CacheAtLeave
  /\ wanted' = IF background THEN selected ELSE n
  /\ \/ /\ CacheAtLeave[n] = NoText /\ Cardinality(opens) < MaxOpens
        /\ opens' = Superseded \cup {[uri |-> n, background |-> background,
                                      live |-> TRUE, md |-> NoText]}
        /\ UNCHANGED <<selected, editor, persisted, tabs>>
     \/ /\ CacheAtLeave[n] # NoText
        /\ opens' = Superseded
        /\ IF background
           THEN tabs' = tabs \cup {n} /\ UNCHANGED <<selected, editor, persisted>>
           ELSE Show(n, CacheAtLeave[n]) /\ tabs' \in {tabs, tabs \cup {n}}
  /\ timer' = /\ StaleFor(n, blocking)
              /\ AutosaveDue(selected', editor', persisted', NoBody)
  /\ UNCHANGED <<disk, skip, reading, placed, excused, failures>>

OpenRead(o) ==
  /\ o \in opens /\ o.md = NoText
  /\ opens' = (opens \ {o}) \cup {[o EXCEPT !.md = disk[o.uri]]}
  /\ UNCHANGED <<disk, editorVars, tabs, conflictVars, timer, chain, reading,
                 ghostVars, failures>>

(* The generation check: an open that is off ends without a trace. *)
\* Mutant of Proceeds: no check.
ProceedsAnyway(o) == TRUE
Proceeds(o) == o.live

OpenFinish(o) ==
  /\ o \in opens /\ o.md # NoText
  /\ opens' = opens \ {o}
  /\ IF ~Proceeds(o)
     THEN UNCHANGED <<editorVars, tabs, timer>>
     ELSE /\ cache' = [cache EXCEPT ![o.uri] = o.md]
          /\ IF o.background
             THEN /\ tabs' = tabs \cup {o.uri}
                  /\ UNCHANGED <<selected, editor, persisted, timer>>
             ELSE /\ Show(o.uri, o.md)
                  /\ tabs' \in {tabs, tabs \cup {o.uri}}
                  /\ timer' = FALSE
  /\ UNCHANGED <<disk, conflictVars, chain, reading, ghostVars, failures>>

(* The last tab of a note that is not shown is closed; its body stays cached. *)
CloseTab(n) ==
  /\ n \in tabs \ {selected}
  /\ tabs' = tabs \ {n}
  /\ UNCHANGED <<disk, editorVars, conflictVars, timer, chain, opens, reading,
                 ghostVars, failures>>

-----------------------------------------------------------------------------
(* Reconciling open notes with the disk: on a watch event, on the periodic *)
(* probe, and when a deferred conflict is looked at again.  The jobs run   *)
(* one after the other.                                                    *)

ReconcileRead(n) ==
  /\ reading = NoBody
  /\ n \in tabs \/ n = selected
  /\ reading' = Body(n, disk[n])
  /\ UNCHANGED <<disk, editorVars, tabs, conflictVars, timer, chain, opens,
                 ghostVars, failures>>

ReadOfShown == reading # NoBody /\ selected = reading.uri
SavedHere   == persisted.uri = reading.uri
Dirty       == SavedHere /\ editor # persisted.md

(* The three answers of classifyNoteDiskReconcile. *)
UpToDate  == IF SavedHere THEN reading.md = persisted.md ELSE reading.md = editor
Conflicts == ~UpToDate /\ Dirty
Reloads   == ~UpToDate /\ ~Dirty

Without(n, conflict) == IF conflict.uri = n THEN NoBody ELSE conflict

ClearConflictsOf(n) ==
  /\ blocking' = Without(n, blocking)
  /\ soft' = Without(n, soft)

SavePending(n) ==
  \E i \in 1..Len(chain) : chain[i].kind = "active" \/ chain[i].uri = n

(* The reconciliation and the queue of saves are not ordered: the note may *)
(* be judged while a save of it is pending, or after one changed the disk. *)
Judge ==
  excused' = (excused \/ SavePending(reading.uri)
                      \/ reading.md # disk[reading.uri])

ReconcileBackground ==
  /\ reading # NoBody /\ selected # reading.uri
  /\ cache' = [cache EXCEPT ![reading.uri] = reading.md]
  /\ reading' = NoBody
  /\ Judge
  /\ UNCHANGED <<disk, selected, editor, persisted, tabs, conflictVars, timer,
                 chain, opens, placed, wanted, failures>>

ReconcileNoop ==
  /\ ReadOfShown /\ UpToDate
  /\ soft' = Without(reading.uri, soft)
  /\ reading' = NoBody
  /\ UNCHANGED <<disk, editorVars, tabs, blocking, deferred, skip, merging,
                 timer, chain, opens, ghostVars, failures>>

(* The body becomes editor text, cache and saved text, and ends the conflict. *)
TakeBody(md) ==
  /\ Show(reading.uri, md)
  /\ cache' = [cache EXCEPT ![reading.uri] = md]
  /\ ClearConflictsOf(reading.uri)
  /\ timer' = FALSE
  /\ reading' = NoBody
  /\ Judge
  /\ UNCHANGED <<disk, tabs, deferred, skip, merging, chain, opens, placed,
                 wanted, failures>>

ReconcileReload == ReadOfShown /\ Reloads /\ TakeBody(reading.md)

ReconcileMerge ==
  /\ ReadOfShown /\ Conflicts
  /\ Mergeable(persisted.md, editor, reading.md)
  /\ TakeBody(Merged(persisted.md, editor, reading.md))

MergeFails ==
  /\ ReadOfShown /\ Conflicts
  /\ ~Mergeable(persisted.md, editor, reading.md)

(* The user typed a moment ago: the conflict is looked at again later. *)
ReconcileDefer ==
  /\ MergeFails
  /\ reading.uri \notin skip
  /\ deferred' = reading.uri
  /\ timer' = FALSE
  /\ reading' = NoBody
  /\ Judge
  /\ UNCHANGED <<disk, editorVars, tabs, blocking, soft, skip, merging, chain,
                 opens, placed, wanted, failures>>

ReconcileSoft ==
  /\ MergeFails
  /\ skip' = skip \ {reading.uri}
  /\ blocking' = NoBody
  /\ soft' = reading
  /\ timer' = /\ blocking # NoBody
              /\ AutosaveDue(selected, editor, persisted, NoBody)
  /\ reading' = NoBody
  /\ Judge
  /\ UNCHANGED <<disk, editorVars, tabs, deferred, merging, chain, opens,
                 placed, wanted, failures>>

(* The deferral ends; if the note is still shown it is reconciled again. *)
DeferFire ==
  /\ deferred # NoNote
  /\ deferred' = NoNote
  /\ skip' = IF selected = deferred THEN skip \cup {deferred}
             ELSE skip \ {deferred}
  /\ UNCHANGED <<disk, editorVars, tabs, blocking, soft, merging, timer, chain,
                 opens, reading, ghostVars, failures>>

-----------------------------------------------------------------------------
(* What the user does about a conflict: from the banner of a blocking one  *)
(* or from the merge view, which closes even if the conflict is gone.      *)

Answered ==
  \/ merging # NoBody /\ merging' = NoBody
  \/ blocking.uri = selected /\ UNCHANGED merging

ResolveReload ==
  /\ selected # NoNote /\ Answered
  /\ IF blocking.uri = selected
     THEN /\ Show(selected, blocking.md)
          /\ cache' = [cache EXCEPT ![selected] = blocking.md]
          /\ blocking' = NoBody /\ soft' = NoBody
          /\ timer' = FALSE /\ excused' = TRUE
     ELSE UNCHANGED <<editorVars, blocking, soft, timer, excused>>
  /\ UNCHANGED <<disk, tabs, deferred, skip, chain, opens, reading, placed,
                 wanted, failures>>

KeepLocal ==
  /\ selected # NoNote /\ Answered
  /\ IF blocking.uri = selected
     THEN /\ persisted' = blocking
          /\ blocking' = NoBody /\ soft' = NoBody
          /\ timer' = AutosaveDue(selected, editor, persisted', NoBody)
     ELSE UNCHANGED <<persisted, blocking, soft, timer>>
  /\ UNCHANGED <<disk, selected, editor, cache, tabs, deferred, skip, chain,
                 opens, reading, ghostVars, failures>>

(* The soft conflict is made to block, with or without the merge view. *)
Elevate ==
  /\ selected # NoNote /\ soft.uri = selected
  /\ blocking.uri # selected
  /\ blocking' = soft
  /\ soft' = NoBody
  /\ merging' \in {merging, soft}
  /\ timer' = FALSE
  /\ UNCHANGED <<disk, editorVars, tabs, deferred, skip, chain, opens, reading,
                 ghostVars, failures>>

EnterMerge ==
  /\ selected # NoNote /\ blocking.uri = selected
  /\ merging' = blocking
  /\ UNCHANGED <<disk, editorVars, tabs, blocking, soft, deferred, skip, timer,
                 chain, opens, reading, ghostVars, failures>>

DismissSoft ==
  /\ soft # NoBody
  /\ soft' = NoBody
  /\ skip' = {}
  /\ UNCHANGED <<disk, editorVars, tabs, blocking, deferred, merging, timer,
                 chain, opens, reading, ghostVars, failures>>

(* The merge view's text, here both sides together, becomes the editor's,  *)
(* the cache's and a save of its own.                                      *)
ApplyMerged ==
  /\ merging # NoBody
  /\ Len(chain) < MaxChain
  /\ LET body == editor \cup merging.md
     IN  /\ editor' = body
         /\ cache' = [cache EXCEPT ![merging.uri] = body]
         /\ chain' = Append(chain, OutgoingJob(merging.uri, body))
  /\ persisted' = IF blocking # NoBody THEN blocking ELSE persisted
  /\ blocking' = NoBody /\ soft' = NoBody
  /\ merging' = NoBody
  /\ timer' = /\ blocking # NoBody \/ editor' # editor
              /\ AutosaveDue(selected, editor', persisted', NoBody)
  /\ excused' = (excused \/ merging.uri # selected)
  /\ UNCHANGED <<disk, selected, tabs, deferred, skip, opens, reading,
                 placed, wanted, failures>>

-----------------------------------------------------------------------------
NoteNext ==
  \/ \E m \in UserMarks : Type(m)
  \/ \E m \in ExternalMarks : ExternalEdit(m)
  \/ AutosaveFire \/ Flush
  \/ JobStart \/ JobWrite \/ JobFail \/ JobFinish
  \/ \E n \in Notes, background \in BOOLEAN : OpenRequest(n, background)
  \/ \E o \in opens : OpenRead(o)
  \/ \E o \in opens : OpenFinish(o)
  \/ \E n \in Notes : CloseTab(n)
  \/ \E n \in Notes : ReconcileRead(n)
  \/ ReconcileBackground \/ ReconcileNoop \/ ReconcileReload
  \/ ReconcileMerge \/ ReconcileDefer \/ ReconcileSoft
  \/ DeferFire
  \/ ResolveReload \/ KeepLocal \/ Elevate \/ EnterMerge \/ DismissSoft
  \/ ApplyMerged

NoteSpec == NoteInit /\ [][NoteNext]_noteVars

-----------------------------------------------------------------------------
(* The open command that the user gave last decides what is shown: once no *)
(* live open is pending, the note it asked for is the selected one.        *)
LastOpenWins ==
  (\A o \in opens : ~o.live \/ o.background) => selected = wanted

(* Typed text that is not saved is always watched by something: the autosave *)
(* timer, a save of this note, a conflict shown to the user, a deferred    *)
(* conflict, a difference to the disk that the next probe finds, or the    *)
(* error of a failed save.                                                 *)
Waits(n) ==
  \/ timer
  \/ SavePending(n)
  \/ blocking.uri = n \/ soft.uri = n \/ deferred = n
  \/ disk[n] # persisted.md
  \/ failures > 0

DirtyIsWatched ==
  (~excused /\ selected # NoNote /\ persisted.uri = selected
     /\ (editor \cap UserMarks) \ persisted.md # {})
    => Waits(selected)

(* A mark the user typed is held while it is in the vault, in the editor   *)
(* of its note, or in the cache of a note that is not shown.               *)
Held(m) ==
  LET n == Place[m].note
  IN  \/ m \in disk[n]
      \/ selected = n /\ m \in editor
      \/ selected # n /\ cache[n] # NoText /\ m \in cache[n]

Drops == \E m \in UserMarks : Held(m) /\ ~Held(m)'

Replaces == ReconcileBackground \/ ReconcileReload \/ ReconcileMerge

(* The steps that set excused are all there are that endanger typed text:  *)
(* typing under a pending open, taking the disk's version, applying a merge *)
(* to another note, a save that ends after the note was left with more     *)
(* text, and a reconciliation that judges a note with a save pending.      *)
(* Without them typed text is lost only where a reconciliation puts the    *)
(* body of the disk in its place, never by leaving or saving a note.       *)
TextOutlivesSaves == [][Drops => excused' \/ Replaces]_noteVars

(* A reload is safe because the editor agrees with the saved text: with no *)
(* save pending, it takes no typed text away.                              *)
ReloadIsSafe ==
  [][ReconcileReload /\ ~excused' => editor \cap UserMarks \subseteq reading.md]_noteVars
=============================================================================
