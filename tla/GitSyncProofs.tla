---------------------------- MODULE GitSyncProofs ----------------------------
(***************************************************************************)
(* Theorems about GitEngine and about GitSync, for any changes, files and  *)
(* faults: first the engine alone and that it implements VaultExchange,    *)
(* then the app around it.                                                 *)
(***************************************************************************)
EXTENDS GitSync, TLAPS

(* What is recorded or staged is in the files, and what the remote-tracking *)
(* ref has is on the remote.                                               *)
Nested ==
  /\ head \subseteq work /\ index \subseteq work
  /\ tracked \subseteq origin

(* Where a run may find staged changes or a merge that stands. *)
Tidy ==
  /\ engine \in {"stage", "fetch", "merge", "recover", "abort", "push"} => index = {}
  /\ engine \in {"stage", "commit", "fetch", "merge", "push"} => standing = {}
  /\ engine \in Steps \ {"validate"} => ~locked
  /\ engine \in {"idle", "validate", "ok", "failed"} /\ ~upset => Usable

EngineInv == EngineTypeOK /\ Nested /\ Tidy

(* The inductive invariant holds of a repository that is in sync. *)
THEOREM EngineInitInv == EngineInit => EngineInv
<1> SUFFICES ASSUME EngineInit PROVE EngineInv
  OBVIOUS
<1>1. 0 \in 0..MaxFaults
  BY GitAssumption
<1>2. EngineTypeOK
  BY <1>1 DEF EngineInit, EngineTypeOK
<1>3. QED
  BY <1>2 DEF EngineInit, EngineInv, Nested, Tidy, Usable

-----------------------------------------------------------------------------
(* The types.                                                              *)

LEMMA FilesOfType ==
  ASSUME NEW changes \in SUBSET Changes
  PROVE  FilesOf(changes) \subseteq Files
BY DEF FilesOf, Files

LEMMA BothSidesInMerge == BothSides \subseteq FilesOf(tracked \ head)
BY DEF BothSides

(* What a command that is cut short leaves has its types. *)
LEMMA CutType ==
  ASSUME EngineTypeOK, Cut
  PROVE  /\ work' \subseteq Changes /\ index' \subseteq Changes /\ head' \subseteq Changes
         /\ tracked' \subseteq Changes /\ origin' \subseteq Changes
         /\ standing' \subseteq Files /\ unmerged' \subseteq standing'
         /\ snapshots' \subseteq SUBSET Changes
<1> USE DEF EngineTypeOK
<1>1. CASE StageCut \/ CommitCut \/ FetchCut \/ RecoverCut \/ PushCut
  BY <1>1 DEF StageCut, CommitCut, FetchCut, RecoverCut, PushCut
<1>2. CASE MergeCut
  <2>1. FilesOf(tracked \ head) \subseteq Files
    BY FilesOfType
  <2>2. standing' \subseteq Files /\ unmerged' \subseteq standing'
    BY <1>2, <2>1, BothSidesInMerge DEF MergeCut
  <2>3. QED
    BY <1>2, <2>2 DEF MergeCut
<1>3. CASE AbortCut
  BY <1>3 DEF AbortCut, MergeGone
<1>4. CASE UNCHANGED <<work, index, head, tracked, origin, standing, unmerged, snapshots>>
  BY <1>4
<1>5. QED
  BY <1>1, <1>2, <1>3, <1>4 DEF Cut

LEMMA LockLeftType ==
  ASSUME EngineTypeOK, NEW killed \in BOOLEAN, LockLeft(killed)
  PROVE  locked' \in BOOLEAN
BY DEF EngineTypeOK, LockLeft

LEMMA DiesType ==
  ASSUME EngineTypeOK, EngineDies, faults' \in 0..MaxFaults
  PROVE  EngineTypeOK'
<1>1. locked' \in BOOLEAN
  BY LockLeftType DEF EngineDies
<1>2. Cut /\ engine' = "idle" /\ before' = {} /\ upset' \in BOOLEAN
  BY DEF EngineDies, EngineTypeOK, Midway, LocksIndex
<1>3. QED
  BY <1>1, <1>2, CutType DEF EngineTypeOK

LEMMA EngineTypeStep ==
  ASSUME EngineTypeOK, [EngineNext]_engineVars
  PROVE  EngineTypeOK'
<1> USE DEF EngineTypeOK
<1>1. ASSUME NEW c \in LocalChanges, WriteFile(c) PROVE EngineTypeOK'
  BY <1>1 DEF WriteFile, unsafeVars, Changes
<1>2. ASSUME NEW c \in RemoteChanges, PushElsewhere(c) PROVE EngineTypeOK'
  BY <1>2 DEF PushElsewhere, unsafeVars, Changes
<1>3. CASE RemoteStatus
  BY <1>3 DEF RemoteStatus, unsafeVars
<1>4. CASE RunStart
  BY <1>4 DEF RunStart, repoVars, unsafeVars, Steps
<1>5. CASE Validate
  BY <1>5 DEF Validate, repoVars, unsafeVars, Steps, Results
<1>6. CASE Stage
  BY <1>6 DEF Stage, unsafeVars, Steps
<1>7. CASE Commit
  BY <1>7 DEF Commit, unsafeVars, Steps
<1>8. CASE Fetch
  BY <1>8 DEF Fetch, unsafeVars, Steps
<1>9. CASE Merge
  BY <1>9 DEF Merge, unsafeVars, Steps
<1>10. CASE MergeRefused
  BY <1>10 DEF MergeRefused, repoVars, unsafeVars, Steps
<1>11. CASE MergeConflict
  <2>1. FilesOf(tracked \ head) \subseteq Files
    BY FilesOfType
  <2>2. QED
    BY <1>11, <2>1, BothSidesInMerge DEF MergeConflict, Steps
<1>12. CASE Recover
  BY <1>12, GitAssumption DEF Recover, repoVars, unsafeVars, Steps, Results
<1>13. CASE Abort
  BY <1>13 DEF Abort, MergeGone, unsafeVars, Results
<1>14. CASE PushHead
  BY <1>14 DEF PushHead, unsafeVars, Results
<1>15. CASE CommandFails
  <2>1. locked' \in BOOLEAN
    BY <1>15, LockLeftType DEF CommandFails
  <2>2. Cut /\ engine' = "failed" /\ before' = before
    BY <1>15 DEF CommandFails
  <2>3. faults' \in 0..MaxFaults
    BY <1>15, GitAssumption DEF CommandFails
  <2>4. upset' \in BOOLEAN
    BY <1>15 DEF CommandFails, Midway, LocksIndex
  <2>5. QED
    BY <2>1, <2>2, <2>3, <2>4, CutType DEF Results
<1>16. CASE Crash
  <2>1. faults' \in 0..MaxFaults
    BY <1>16, GitAssumption DEF Crash
  <2>2. QED
    BY <1>16, <2>1, DiesType DEF Crash
<1>17. CASE RunEnd
  BY <1>17 DEF RunEnd, repoVars, unsafeVars
<1>18. CASE LockRemoved
  BY <1>18 DEF LockRemoved
<1>19. CASE UNCHANGED engineVars
  BY <1>19 DEF engineVars, repoVars, unsafeVars
<1>20. QED
  BY <1>1, <1>2, <1>3, <1>4, <1>5, <1>6, <1>7, <1>8, <1>9, <1>10, <1>11, <1>12,
     <1>13, <1>14, <1>15, <1>16, <1>17, <1>18, <1>19 DEF EngineNext, EngineStep

(* The state of a run and its repository has its type. *)
THEOREM EngineTypeCorrect == EngineSpec => []EngineTypeOK
PROOF
<1>1. EngineInit => EngineTypeOK
  BY EngineInitInv DEF EngineInv
<1>2. EngineTypeOK /\ [EngineNext]_engineVars => EngineTypeOK'
  BY EngineTypeStep
<1>3. QED
  BY <1>1, <1>2, PTL DEF EngineSpec

-----------------------------------------------------------------------------
(* The invariant.                                                          *)

(* A command that is cut short commits and stages what is in the files. *)
LEMMA CutNested ==
  ASSUME EngineInv, Cut
  PROVE  Nested'
<1> USE DEF EngineInv, Nested
<1>1. CASE StageCut \/ CommitCut \/ FetchCut \/ RecoverCut \/ PushCut
  BY <1>1 DEF StageCut, CommitCut, FetchCut, RecoverCut, PushCut
<1>2. CASE MergeCut
  BY <1>2 DEF MergeCut
<1>3. CASE AbortCut
  <2>1. index = {}
    BY <1>3 DEF AbortCut, Tidy
  <2>2. head \subseteq work'
    BY <1>3 DEF AbortCut, WrittenSince
  <2>3. QED
    BY <1>3, <2>1, <2>2 DEF AbortCut
<1>4. CASE UNCHANGED <<work, index, head, tracked, origin, standing, unmerged, snapshots>>
  BY <1>4
<1>5. QED
  BY <1>1, <1>2, <1>3, <1>4 DEF Cut

LEMMA NestedStep ==
  ASSUME EngineInv, [EngineNext]_engineVars
  PROVE  Nested'
<1> USE DEF EngineInv, Nested
<1>1. ASSUME NEW c \in LocalChanges, WriteFile(c) PROVE Nested'
  BY <1>1 DEF WriteFile
<1>2. ASSUME NEW c \in RemoteChanges, PushElsewhere(c) PROVE Nested'
  BY <1>2 DEF PushElsewhere
<1>3. CASE RemoteStatus
  BY <1>3 DEF RemoteStatus
<1>4. CASE RunStart \/ Validate \/ MergeRefused \/ Recover \/ RunEnd
  BY <1>4 DEF RunStart, Validate, MergeRefused, Recover, RunEnd, repoVars
<1>5. CASE Stage
  BY <1>5 DEF Stage
<1>6. CASE Commit
  BY <1>6 DEF Commit
<1>7. CASE Fetch
  BY <1>7 DEF Fetch
<1>8. CASE Merge
  BY <1>8 DEF Merge
<1>9. CASE MergeConflict
  BY <1>9 DEF MergeConflict
<1>10. CASE Abort
  \* Nothing is staged, and the files keep what HEAD has.
  <2>1. index = {}
    BY <1>10 DEF Abort, Tidy
  <2>2. head \subseteq work'
    BY <1>10 DEF Abort, WrittenSince
  <2>3. QED
    BY <1>10, <2>1, <2>2 DEF Abort
<1>11. CASE PushHead
  BY <1>11 DEF PushHead
<1>12. CASE CommandFails \/ Crash
  BY <1>12, CutNested DEF CommandFails, Crash, EngineDies
<1>13. CASE LockRemoved
  BY <1>13 DEF LockRemoved
<1>14. CASE UNCHANGED engineVars
  BY <1>14 DEF engineVars, repoVars
<1>15. QED
  BY <1>1, <1>2, <1>3, <1>4, <1>5, <1>6, <1>7, <1>8, <1>9, <1>10, <1>11, <1>12,
     <1>13, <1>14 DEF EngineNext, EngineStep

(* A fault in a step that is not midway leaves what Git looks at. *)
LEMMA CutTidy ==
  ASSUME EngineInv, Cut, NEW killed \in BOOLEAN, LockLeft(killed),
         ~upset, ~Midway
  PROVE  Usable'
<1>1. engine \in {"idle", "validate", "fetch", "push", "recover"} \cup Results
  BY DEF EngineInv, EngineTypeOK, Steps, Results, Midway, LocksIndex
<1>2. standing' = standing /\ index' = index
  BY <1>1 DEF Cut, StageCut, CommitCut, FetchCut, MergeCut, RecoverCut, AbortCut,
              PushCut, Results
<1>3. locked' = locked
  BY DEF LockLeft, Midway
<1>4. Usable
  BY <1>1 DEF EngineInv, Tidy, Usable, Steps, Results, Midway
<1>5. QED
  BY <1>2, <1>3, <1>4 DEF Usable

LEMMA TidyStep ==
  ASSUME EngineInv, [EngineNext]_engineVars
  PROVE  Tidy'
<1> USE DEF EngineInv, Tidy, Usable, Steps
<1>1. ASSUME NEW c \in LocalChanges, WriteFile(c) PROVE Tidy'
  BY <1>1 DEF WriteFile, unsafeVars
<1>2. ASSUME NEW c \in RemoteChanges, PushElsewhere(c) PROVE Tidy'
  BY <1>2 DEF PushElsewhere, unsafeVars
<1>3. CASE RemoteStatus
  BY <1>3 DEF RemoteStatus, unsafeVars
<1>4. CASE RunStart \/ Validate \/ RunEnd
  BY <1>4 DEF RunStart, Validate, RunEnd, Results, repoVars, unsafeVars
<1>5. CASE Stage
  BY <1>5 DEF Stage, unsafeVars
<1>6. CASE Commit
  BY <1>6 DEF Commit, unsafeVars
<1>7. CASE Fetch \/ Merge
  BY <1>7 DEF Fetch, Merge, unsafeVars
<1>8. CASE MergeRefused \/ MergeConflict
  BY <1>8 DEF MergeRefused, MergeConflict, repoVars, unsafeVars
<1>9. CASE Recover
  BY <1>9 DEF Recover, repoVars, unsafeVars
<1>10. CASE Abort
  BY <1>10 DEF Abort, MergeGone
<1>11. CASE PushHead
  BY <1>11 DEF PushHead, unsafeVars
<1>12. CASE CommandFails \/ Crash
  <2>1. engine' \in {"failed", "idle"} /\ upset' = (upset \/ Midway) /\ Cut
    BY <1>12 DEF CommandFails, Crash, EngineDies
  <2>2. PICK killed \in BOOLEAN : LockLeft(killed)
    BY <1>12 DEF CommandFails, Crash, EngineDies
  <2>3. ~upset' => Usable'
    BY <2>1, <2>2, CutTidy
  <2>4. QED
    BY <2>1, <2>3 DEF Steps
<1>13. CASE LockRemoved
  BY <1>13 DEF LockRemoved
<1>14. CASE UNCHANGED engineVars
  BY <1>14 DEF engineVars, repoVars, unsafeVars
<1>15. QED
  BY <1>1, <1>2, <1>3, <1>4, <1>5, <1>6, <1>7, <1>8, <1>9, <1>10, <1>11, <1>12,
     <1>13, <1>14 DEF EngineNext, EngineStep

LEMMA EngineInvStep == EngineInv /\ [EngineNext]_engineVars => EngineInv'
BY EngineTypeStep, NestedStep, TidyStep DEF EngineInv

(* The inductive invariant: what a run may find staged or standing. *)
THEOREM EngineInvariant == EngineSpec => []EngineInv
PROOF
<1>1. QED
  BY EngineInitInv, EngineInvStep, PTL DEF EngineSpec

(* No run works on what an earlier one left, whatever was cut short        *)
(* (validation.rs, validate_all).                                          *)
THEOREM RunsStartClean == EngineSpec => []NothingLeftOver
PROOF
<1>1. EngineInv => NothingLeftOver
  BY DEF EngineInv, Tidy, NothingLeftOver, Steps
<1>2. QED
  BY <1>1, EngineInvariant, PTL

(* A run that ends leaves a repository the next run can use, but for the   *)
(* steps that upset it (sync_run.rs, recover_after_merge_failure), whatever *)
(* is written or pushed meanwhile.                                         *)
THEOREM RunsLeaveUsable == EngineSpec => []UsableAgain
PROOF
<1>1. EngineInv => UsableAgain
  BY DEF EngineInv, Tidy, UsableAgain, Results
<1>2. QED
  BY <1>1, EngineInvariant, PTL

-----------------------------------------------------------------------------
(* The refinement.                                                         *)

(* A command that is cut short is a step of the exchange, or none. *)
LEMMA CutExchange ==
  ASSUME EngineInv, Cut
  PROVE  [Exchange!ExchangeNext]_Exchange!exchangeVars
<1> USE DEF EngineInv, EngineTypeOK, Nested, Exchange!exchangeVars, Exchange!Gains
<1>1. CASE StageCut \/ FetchCut \/ RecoverCut
  BY <1>1 DEF StageCut, FetchCut, RecoverCut
<1>2. CASE CommitCut
  <2>1. Exchange!Record
    BY <1>2 DEF CommitCut, Exchange!Record
  <2>2. QED
    BY <2>1 DEF Exchange!ExchangeNext
<1>3. CASE MergeCut
  <2>1. CASE standing' = standing
    <3>1. Exchange!Receive
      BY <1>3, <2>1 DEF MergeCut, Exchange!Receive
    <3>2. QED
      BY <3>1 DEF Exchange!ExchangeNext
  <2>2. CASE standing' # standing
    <3>1. standing = {}
      BY <1>3 DEF MergeCut, Tidy
    <3>2. Exchange!MergeStops
      BY <1>3, <2>2, <3>1 DEF MergeCut, Exchange!MergeStops
    <3>3. QED
      BY <3>2 DEF Exchange!ExchangeNext
  <2>3. QED
    BY <2>1, <2>2
<1>4. CASE AbortCut
  <2>1. CASE standing # {}
    <3>1. Exchange!MergeUndone
      BY <1>4, <2>1 DEF AbortCut, MergeGone, WrittenSince, Exchange!MergeUndone
    <3>2. QED
      BY <3>1 DEF Exchange!ExchangeNext
  <2>2. CASE standing = {}
    <3>1. \A files \in SUBSET unmerged : WrittenSince(files) = {}
      BY <2>2 DEF WrittenSince
    <3>2. QED
      BY <1>4, <2>2, <3>1 DEF AbortCut, MergeGone
  <2>3. QED
    BY <2>1, <2>2
<1>5. CASE PushCut
  <2>1. Exchange!Publish
    BY <1>5 DEF PushCut, Exchange!Publish
  <2>2. QED
    BY <2>1 DEF Exchange!ExchangeNext
<1>6. CASE UNCHANGED <<work, index, head, tracked, origin, standing, unmerged, snapshots>>
  BY <1>6
<1>7. QED
  BY <1>1, <1>2, <1>3, <1>4, <1>5, <1>6 DEF Cut

LEMMA ExchangeStep ==
  ASSUME EngineInv, [EngineNext]_engineVars
  PROVE  [Exchange!ExchangeNext]_Exchange!exchangeVars
<1> USE DEF EngineInv, EngineTypeOK, Nested, Exchange!exchangeVars, Exchange!Gains
<1>1. ASSUME NEW c \in LocalChanges, WriteFile(c) PROVE Exchange!ChangeHere
  BY <1>1 DEF WriteFile, unsafeVars, Changes, Exchange!ChangeHere
<1>2. ASSUME NEW c \in RemoteChanges, PushElsewhere(c) PROVE Exchange!ChangeElsewhere
  BY <1>2 DEF PushElsewhere, unsafeVars, Changes, Exchange!ChangeElsewhere
<1>3. CASE RemoteStatus \/ RunStart \/ Validate \/ Stage \/ Fetch \/ MergeRefused
           \/ Recover \/ RunEnd \/ LockRemoved
  BY <1>3 DEF RemoteStatus, RunStart, Validate, Stage, Fetch, MergeRefused, Recover,
              RunEnd, LockRemoved, repoVars, unsafeVars
<1>4. CASE Commit
  <2>1. Exchange!Record
    BY <1>4 DEF Commit, unsafeVars, Exchange!Record
  <2>2. QED
    BY <2>1 DEF Exchange!ExchangeNext
<1>5. CASE Merge
  <2>1. Exchange!Receive
    BY <1>5 DEF Merge, unsafeVars, Exchange!Receive
  <2>2. QED
    BY <2>1 DEF Exchange!ExchangeNext
<1>6. CASE MergeConflict
  \* A file in conflict is changed on the side of the remote.
  <2>1. standing' # {}
    BY <1>6, BothSidesInMerge DEF MergeConflict
  <2>2. Exchange!MergeStops
    BY <1>6, <2>1 DEF MergeConflict, Exchange!MergeStops
  <2>3. QED
    BY <2>2 DEF Exchange!ExchangeNext
<1>7. CASE Abort
  <2>1. CASE WrittenSince(standing \ unmerged) = {} /\ standing # {}
    <3>1. Exchange!MergeUndone
      BY <1>7, <2>1 DEF Abort, MergeGone, WrittenSince, Exchange!MergeUndone
    <3>2. QED
      BY <3>1 DEF Exchange!ExchangeNext
  <2>2. CASE WrittenSince(standing \ unmerged) = {} /\ standing = {}
    <3>1. WrittenSince(unmerged) = {}
      BY <2>2 DEF WrittenSince
    <3>2. QED
      BY <1>7, <2>2, <3>1 DEF Abort, MergeGone
  <2>3. CASE WrittenSince(standing \ unmerged) # {}
    BY <1>7, <2>3 DEF Abort, unsafeVars
  <2>4. QED
    BY <2>1, <2>2, <2>3
<1>8. CASE PushHead
  <2>1. CASE origin \subseteq head
    <3>1. Exchange!Publish
      BY <1>8, <2>1 DEF PushHead, unsafeVars, Exchange!Publish
    <3>2. QED
      BY <3>1 DEF Exchange!ExchangeNext
  <2>2. CASE ~(origin \subseteq head)
    BY <1>8, <2>2 DEF PushHead, unsafeVars
  <2>3. QED
    BY <2>1, <2>2
<1>9. CASE CommandFails \/ Crash
  BY <1>9, CutExchange DEF CommandFails, Crash, EngineDies
<1>10. CASE UNCHANGED engineVars
  BY <1>10 DEF engineVars, repoVars, unsafeVars
<1>11. QED
  BY <1>1, <1>2, <1>3, <1>4, <1>5, <1>6, <1>7, <1>8, <1>9, <1>10
  DEF EngineNext, EngineStep, Exchange!ExchangeNext

(* The engine takes no change from the shared branch, and none from the    *)
(* notes but with a merge it undoes, whatever fails, whoever writes and    *)
(* whoever pushes between its steps.                                       *)
THEOREM EngineImplements == EngineSpec => ImplementsExchange
PROOF
<1>1. EngineInit => Exchange!ExchangeInit
  BY DEF EngineInit, Exchange!ExchangeInit
<1>2. EngineInv /\ [EngineNext]_engineVars
        => [Exchange!ExchangeNext]_Exchange!exchangeVars
  BY ExchangeStep
<1>3. QED
  BY <1>1, <1>2, EngineInvariant, PTL
  DEF EngineSpec, ImplementsExchange, Exchange!ExchangeSpec

-----------------------------------------------------------------------------
(* The app around the engine.                                              *)

(* A run is in the engine when its phase says so, and a closed window has  *)
(* no run.                                                                 *)
Phases ==
  /\ phase = "git" <=> engine # "idle"
  /\ run = "none" <=> phase = "none"
  /\ closing = "closed" => run = "none"

(* How far a run has carried the changes among those in the files.         *)
Carried(changes, e, w, i, h, o) ==
  /\ e = "commit" => changes \cap w \subseteq h \cup i
  /\ e \in {"fetch", "merge", "push"} => changes \cap w \subseteq h
  /\ e = "ok" => changes \cap w \subseteq o

CarriedNow(changes) == Carried(changes, engine, work, index, head, origin)

(* Where the changes are that were made when a close was asked for.        *)
CloseInv ==
  /\ closing = "waiting" /\ ~unsure =>
       /\ run = "close"
       /\ phase = "flush" => closeOf \subseteq work \cup typed
       /\ phase \in {"check", "begin"} => closeOf \subseteq work
       /\ phase = "git" /\ engine \notin {"recover", "abort", "failed"}
            => closeOf \subseteq work
       /\ phase = "git" => CarriedNow(closeOf)
  /\ closing \in {"leaving", "closed"} /\ ~unsure => closeOf \subseteq origin

(* What the app has saved is on the remote when nothing is pending, and    *)
(* when a status that was read after the last save is clean.               *)
Shared == mine \cap work \subseteq origin

PendingInv ==
  /\ ~slow /\ Running /\ ~pendingSync => Shared
  /\ asking = "read" /\ ~refreshDue /\ CleanSynced(answer) => Shared
  /\ asking = "no" /\ ~statusError /\ ~refreshDue /\ CleanSynced(status) => Shared
  /\ run = "auto" /\ phase = "git" /\ ~newer => CarriedNow(mine)

SyncInv == SyncTypeOK /\ Nested /\ Tidy /\ Phases

-----------------------------------------------------------------------------
(* What a step of the app does to the repository and the engine.           *)

Rest == <<index, head, tracked, origin, unsafeVars, snapshots, faults>>

Written == /\ work' = work \cup typed
           /\ UNCHANGED <<engine, before, upset>> /\ UNCHANGED Rest

Faulty == /\ faults < MaxFaults /\ faults' = faults + 1
          /\ UNCHANGED <<repoVars, snapshots, engine, before, upset>>

Dies == EngineDies /\ faults' = faults

LEMMA EngineView ==
  ASSUME [SyncNext]_syncVars
  PROVE  EngineNext \/ UNCHANGED engineVars \/ Written \/ Faulty \/ Dies
<1>1. ASSUME NEW c \in LocalChanges, TypeChange(c) PROVE UNCHANGED engineVars
  BY <1>1 DEF TypeChange
<1>2. ASSUME NEW c \in LocalChanges, OtherProgram(c) PROVE EngineNext
  BY <1>2 DEF OtherProgram, EngineNext
<1>3. ASSUME NEW c \in RemoteChanges, OtherDevice(c) PROVE EngineNext
  BY <1>3 DEF OtherDevice, EngineNext
<1>4. CASE SaveNote \/ FlushFirst
  BY <1>4 DEF SaveNote, FlushFirst, Saves, Written, Rest
<1>5. CASE RefreshAfterSave \/ StatusRead \/ StatusAnswer \/ PollStart
  BY <1>5 DEF RefreshAfterSave, StatusRead, StatusAnswer, PollStart
<1>6. CASE SyncManual \/ SyncAtStartup \/ Autosync \/ AutosyncClears
  BY <1>6 DEF SyncManual, SyncAtStartup, Autosync, AutosyncClears
<1>7. CASE CloseWindow \/ CloseTimeout \/ CloseInstant
  BY <1>7 DEF CloseWindow, CloseTimeout, CloseInstant
<1>8. CASE StatusFails \/ Reopened
  BY <1>8 DEF StatusFails, Reopened, Faulty
<1>9. CASE PollFinish
  BY <1>9 DEF PollFinish, Faulty, EngineNext
<1>10. CASE CheckForClose
  <2>1. PICK failed \in BOOLEAN :
          /\ failed => faults < MaxFaults
          /\ faults' = IF failed THEN faults + 1 ELSE faults
    BY <1>10 DEF CheckForClose
  <2>2. UNCHANGED <<repoVars, snapshots, engine, before, upset>>
    BY <1>10 DEF CheckForClose
  <2>3. QED
    BY <2>1, <2>2 DEF Faulty, engineVars
<1>11. CASE SyncBegins \/ SyncEnds \/ Killed
  BY <1>11 DEF SyncBegins, SyncEnds, Killed, EngineNext
<1>12. CASE EngineWorks \/ ByHand
  BY <1>12 DEF EngineWorks, ByHand, EngineNext
<1>13. CASE Shutdown
  BY <1>13 DEF Shutdown, Dies
<1>14. CASE UNCHANGED syncVars
  BY <1>14 DEF syncVars
<1>15. QED
  BY <1>1, <1>2, <1>3, <1>4, <1>5, <1>6, <1>7, <1>8, <1>9, <1>10, <1>11, <1>12,
     <1>13, <1>14 DEF SyncNext

LEMMA EngineInvKept ==
  ASSUME EngineInv, typed \subseteq LocalChanges, [SyncNext]_syncVars
  PROVE  EngineInv'
<1> USE DEF EngineInv, EngineTypeOK, Nested, Tidy, Usable
<1>1. CASE EngineNext \/ UNCHANGED engineVars
  BY <1>1, EngineInvStep
<1>2. CASE Written
  BY <1>2 DEF Written, Rest, unsafeVars, Changes
<1>3. CASE Faulty
  <2>1. faults' \in 0..MaxFaults
    BY <1>3, GitAssumption DEF Faulty
  <2>2. QED
    BY <1>3, <2>1 DEF Faulty, repoVars, unsafeVars
<1>4. CASE Dies
  <2>1. Cut /\ LockLeft(TRUE) /\ engine' = "idle" /\ upset' = (upset \/ Midway)
    BY <1>4 DEF Dies, EngineDies
  <2>2. EngineTypeOK'
    BY <1>4, DiesType DEF Dies
  <2>3. ~upset' => Usable'
    BY <2>1, CutTidy
  <2>4. QED
    BY <2>1, <2>2, <2>3, CutNested DEF Steps
<1>5. QED
  BY <1>1, <1>2, <1>3, <1>4, EngineView

-----------------------------------------------------------------------------
(* The types.                                                              *)

LEMMA StatusesType == StatusNow \in Statuses /\ NoStatus \in Statuses
BY DEF StatusNow, NoStatus, Statuses

NotesTypeOK ==
  /\ typed \subseteq LocalChanges /\ mine \subseteq LocalChanges
  /\ pendingSync \in BOOLEAN /\ newer \in BOOLEAN /\ fresh \in BOOLEAN
  /\ refreshDue \in BOOLEAN /\ slow \in BOOLEAN

StatusTypeOK ==
  /\ asking \in {"no", "sent", "read"}
  /\ answer \in Statuses /\ status \in Statuses
  /\ loading \in BOOLEAN /\ statusError \in BOOLEAN
  /\ polling \in BOOLEAN

RunTypeOK ==
  /\ startup \in {"waiting", "due", "done"}
  /\ run \in {"none"} \cup Askers
  /\ phase \in {"none", "flush", "check", "begin", "git"}

CloseTypeOK ==
  /\ closing \in {"open", "waiting", "leaving", "closed"}
  /\ closeOf \subseteq LocalChanges \cup RemoteChanges
  /\ unsure \in BOOLEAN

AppTypeOK == NotesTypeOK /\ StatusTypeOK /\ RunTypeOK /\ CloseTypeOK

LEMMA NotesTypeSame ==
  ASSUME NotesTypeOK, UNCHANGED <<typed, autoVars>>
  PROVE  NotesTypeOK'
BY DEF NotesTypeOK, autoVars

LEMMA StatusTypeSame ==
  ASSUME StatusTypeOK, UNCHANGED <<statusVars, polling>>
  PROVE  StatusTypeOK'
BY DEF StatusTypeOK, statusVars

LEMMA RunTypeSame ==
  ASSUME RunTypeOK, UNCHANGED runVars
  PROVE  RunTypeOK'
BY DEF RunTypeOK, runVars

LEMMA CloseTypeSame ==
  ASSUME CloseTypeOK, UNCHANGED closeVars
  PROVE  CloseTypeOK'
BY DEF CloseTypeOK, closeVars

LEMMA SessionStartType ==
  ASSUME SessionStart
  PROVE  NotesTypeOK' /\ StatusTypeOK' /\ RunTypeOK'
<1>1. NotesTypeOK'
  BY DEF SessionStart, NotesTypeOK
<1>2. StatusTypeOK'
  BY StatusesType DEF SessionStart, StatusTypeOK
<1>3. RunTypeOK'
  BY DEF SessionStart, RunTypeOK
<1>4. QED
  BY <1>1, <1>2, <1>3

LEMMA StaysOpenType == StaysOpen => CloseTypeOK'
BY DEF StaysOpen, CloseTypeOK

LEMMA AppTypeStep ==
  ASSUME EngineTypeOK, AppTypeOK, [SyncNext]_syncVars
  PROVE  AppTypeOK'
<1> USE DEF AppTypeOK
<1>1. ASSUME NEW c \in LocalChanges, TypeChange(c) PROVE AppTypeOK'
  <2>1. StatusTypeOK' /\ RunTypeOK' /\ CloseTypeOK'
    BY <1>1, StatusTypeSame, RunTypeSame, CloseTypeSame DEF TypeChange
  <2>2. NotesTypeOK'
    BY <1>1 DEF TypeChange, NotesTypeOK, autoVars
  <2>3. QED
    BY <2>1, <2>2
<1>2. ASSUME NEW c \in LocalChanges, OtherProgram(c) PROVE AppTypeOK'
  <2>1. NotesTypeOK' /\ StatusTypeOK' /\ RunTypeOK' /\ CloseTypeOK'
    BY <1>2, NotesTypeSame, StatusTypeSame, RunTypeSame, CloseTypeSame DEF OtherProgram
  <2>2. QED
    BY <2>1
<1>3. ASSUME NEW c \in RemoteChanges, OtherDevice(c) PROVE AppTypeOK'
  <2>1. NotesTypeOK' /\ StatusTypeOK' /\ RunTypeOK' /\ CloseTypeOK'
    BY <1>3, NotesTypeSame, StatusTypeSame, RunTypeSame, CloseTypeSame DEF OtherDevice
  <2>2. QED
    BY <2>1
<1>4. CASE SaveNote
  <2>1. StatusTypeOK' /\ CloseTypeOK'
    BY <1>4, StatusTypeSame, CloseTypeSame DEF SaveNote
  <2>2. NotesTypeOK'
    BY <1>4 DEF SaveNote, Saves, NotesTypeOK, autoVars
  <2>3. RunTypeOK'
    BY <1>4 DEF SaveNote, Saves, RunTypeOK, runVars
  <2>4. QED
    BY <2>1, <2>2, <2>3
<1>5. CASE FlushFirst
  <2>1. StatusTypeOK' /\ CloseTypeOK'
    BY <1>5, StatusTypeSame, CloseTypeSame DEF FlushFirst
  <2>2. NotesTypeOK'
    BY <1>5 DEF FlushFirst, Saves, NotesTypeOK, autoVars
  <2>3. RunTypeOK'
    BY <1>5 DEF FlushFirst, Saves, RunTypeOK
  <2>4. QED
    BY <2>1, <2>2, <2>3
<1>6. CASE RefreshAfterSave
  <2>1. RunTypeOK' /\ CloseTypeOK'
    BY <1>6, RunTypeSame, CloseTypeSame DEF RefreshAfterSave
  <2>2. NotesTypeOK'
    BY <1>6 DEF RefreshAfterSave, NotesTypeOK
  <2>3. StatusTypeOK'
    BY <1>6 DEF RefreshAfterSave, Ask, StatusTypeOK
  <2>4. QED
    BY <2>1, <2>2, <2>3
<1>7. CASE StatusRead
  <2>1. NotesTypeOK' /\ RunTypeOK' /\ CloseTypeOK'
    BY <1>7, NotesTypeSame, RunTypeSame, CloseTypeSame DEF StatusRead
  <2>2. StatusTypeOK'
    BY <1>7, StatusesType DEF StatusRead, StatusTypeOK
  <2>3. QED
    BY <2>1, <2>2
<1>8. CASE StatusAnswer
  <2>1. RunTypeOK' /\ CloseTypeOK'
    BY <1>8, RunTypeSame, CloseTypeSame DEF StatusAnswer
  <2>2. NotesTypeOK'
    BY <1>8 DEF StatusAnswer, NotesTypeOK
  <2>3. StatusTypeOK'
    BY <1>8, StatusesType DEF StatusAnswer, StatusTypeOK
  <2>4. QED
    BY <2>1, <2>2, <2>3
<1>9. CASE StatusFails
  <2>1. RunTypeOK' /\ CloseTypeOK'
    BY <1>9, RunTypeSame, CloseTypeSame DEF StatusFails
  <2>2. NotesTypeOK'
    BY <1>9 DEF StatusFails, NotesTypeOK
  <2>3. StatusTypeOK'
    BY <1>9, StatusesType DEF StatusFails, StatusTypeOK
  <2>4. QED
    BY <2>1, <2>2, <2>3
<1>10. CASE PollStart
  <2>1. NotesTypeOK' /\ RunTypeOK' /\ CloseTypeOK'
    BY <1>10, NotesTypeSame, RunTypeSame, CloseTypeSame DEF PollStart
  <2>2. StatusTypeOK'
    BY <1>10 DEF PollStart, StatusTypeOK, statusVars
  <2>3. QED
    BY <2>1, <2>2
<1>11. CASE PollFinish
  <2>1. NotesTypeOK' /\ CloseTypeOK'
    BY <1>11, NotesTypeSame, CloseTypeSame DEF PollFinish
  <2>2. StatusTypeOK'
    BY <1>11 DEF PollFinish, Ask, StatusTypeOK, statusVars
  <2>3. RunTypeOK'
    BY <1>11 DEF PollFinish, RunTypeOK
  <2>4. QED
    BY <2>1, <2>2, <2>3
<1>12. CASE SyncManual
  <2>1. NotesTypeOK' /\ StatusTypeOK' /\ CloseTypeOK'
    BY <1>12, NotesTypeSame, StatusTypeSame, CloseTypeSame DEF SyncManual
  <2>2. RunTypeOK'
    BY <1>12 DEF SyncManual, Begin, Askers, RunTypeOK
  <2>3. QED
    BY <2>1, <2>2
<1>13. CASE SyncAtStartup
  <2>1. NotesTypeOK' /\ StatusTypeOK' /\ CloseTypeOK'
    BY <1>13, NotesTypeSame, StatusTypeSame, CloseTypeSame DEF SyncAtStartup
  <2>2. RunTypeOK'
    BY <1>13 DEF SyncAtStartup, Begin, Askers, RunTypeOK
  <2>3. QED
    BY <2>1, <2>2
<1>14. CASE Autosync
  <2>1. StatusTypeOK' /\ CloseTypeOK'
    BY <1>14, StatusTypeSame, CloseTypeSame DEF Autosync
  <2>2. NotesTypeOK'
    BY <1>14 DEF Autosync, NotesTypeOK
  <2>3. RunTypeOK'
    BY <1>14 DEF Autosync, Begin, Askers, RunTypeOK
  <2>4. QED
    BY <2>1, <2>2, <2>3
<1>15. CASE AutosyncClears
  <2>1. StatusTypeOK' /\ RunTypeOK' /\ CloseTypeOK'
    BY <1>15, StatusTypeSame, RunTypeSame, CloseTypeSame DEF AutosyncClears
  <2>2. NotesTypeOK'
    BY <1>15 DEF AutosyncClears, NotesTypeOK
  <2>3. QED
    BY <2>1, <2>2
<1>16. CASE CheckForClose
  <2>1. NotesTypeOK' /\ StatusTypeOK'
    BY <1>16, NotesTypeSame, StatusTypeSame DEF CheckForClose
  <2>2. RunTypeOK'
    BY <1>16 DEF CheckForClose, RunTypeOK
  <2>3. CloseTypeOK'
    BY <1>16 DEF CheckForClose, CloseTypeOK
  <2>4. QED
    BY <2>1, <2>2, <2>3
<1>17. CASE SyncBegins
  <2>1. NotesTypeOK' /\ StatusTypeOK' /\ CloseTypeOK'
    BY <1>17, NotesTypeSame, StatusTypeSame, CloseTypeSame DEF SyncBegins
  <2>2. RunTypeOK'
    BY <1>17 DEF SyncBegins, RunTypeOK
  <2>3. QED
    BY <2>1, <2>2
<1>18. CASE EngineWorks
  <2>1. NotesTypeOK' /\ StatusTypeOK' /\ RunTypeOK' /\ CloseTypeOK'
    BY <1>18, NotesTypeSame, StatusTypeSame, RunTypeSame, CloseTypeSame DEF EngineWorks
  <2>2. QED
    BY <2>1
<1>19. CASE SyncEnds
  <2>1. NotesTypeOK'
    BY <1>19 DEF SyncEnds, NotesTypeOK
  <2>2. StatusTypeOK'
    BY <1>19 DEF SyncEnds, Ask, StatusTypeOK
  <2>3. RunTypeOK'
    BY <1>19 DEF SyncEnds, EndsWith, StaysOpen, RunTypeOK
  <2>4. CloseTypeOK'
    BY <1>19 DEF SyncEnds, EndsWith, StaysOpen, CloseTypeOK, closeVars
  <2>5. QED
    BY <2>1, <2>2, <2>3, <2>4
<1>20. CASE CloseWindow
  <2>1. NotesTypeOK' /\ StatusTypeOK'
    BY <1>20, NotesTypeSame, StatusTypeSame DEF CloseWindow
  <2>2. RunTypeOK'
    BY <1>20 DEF CloseWindow, Begin, Askers, RunTypeOK, runVars
  <2>3. CloseTypeOK'
    BY <1>20 DEF CloseWindow, EngineTypeOK, Changes, NotesTypeOK, CloseTypeOK
  <2>4. QED
    BY <2>1, <2>2, <2>3
<1>21. CASE CloseTimeout
  <2>1. NotesTypeOK' /\ StatusTypeOK' /\ RunTypeOK'
    BY <1>21, NotesTypeSame, StatusTypeSame, RunTypeSame DEF CloseTimeout
  <2>2. CloseTypeOK'
    BY <1>21, StaysOpenType DEF CloseTimeout
  <2>3. QED
    BY <2>1, <2>2
<1>22. CASE CloseInstant
  <2>1. NotesTypeOK' /\ StatusTypeOK' /\ RunTypeOK'
    BY <1>22, NotesTypeSame, StatusTypeSame, RunTypeSame DEF CloseInstant
  <2>2. CloseTypeOK'
    BY <1>22 DEF CloseInstant, EngineTypeOK, Changes, NotesTypeOK, CloseTypeOK
  <2>3. QED
    BY <2>1, <2>2
<1>23. CASE Shutdown
  <2>1. NotesTypeOK' /\ StatusTypeOK' /\ RunTypeOK'
    BY <1>23, SessionStartType DEF Shutdown
  <2>2. CloseTypeOK'
    BY <1>23 DEF Shutdown, CloseTypeOK
  <2>3. QED
    BY <2>1, <2>2
<1>24. CASE Killed
  <2>1. NotesTypeOK' /\ StatusTypeOK' /\ RunTypeOK'
    BY <1>24, SessionStartType DEF Killed
  <2>2. CloseTypeOK'
    BY <1>24, StaysOpenType DEF Killed
  <2>3. QED
    BY <2>1, <2>2
<1>25. CASE Reopened
  <2>1. NotesTypeOK' /\ StatusTypeOK' /\ RunTypeOK'
    BY <1>25, SessionStartType DEF Reopened
  <2>2. CloseTypeOK'
    BY <1>25, StaysOpenType DEF Reopened
  <2>3. QED
    BY <2>1, <2>2
<1>26. CASE ByHand
  <2>1. NotesTypeOK' /\ StatusTypeOK' /\ RunTypeOK' /\ CloseTypeOK'
    BY <1>26, NotesTypeSame, StatusTypeSame, RunTypeSame, CloseTypeSame DEF ByHand
  <2>2. QED
    BY <2>1
<1>27. CASE UNCHANGED syncVars
  BY <1>27, NotesTypeSame, StatusTypeSame, RunTypeSame, CloseTypeSame DEF syncVars
<1>28. QED
  BY <1>1, <1>2, <1>3, <1>4, <1>5, <1>6, <1>7, <1>8, <1>9, <1>10, <1>11, <1>12,
     <1>13, <1>14, <1>15, <1>16, <1>17, <1>18, <1>19, <1>20, <1>21, <1>22,
     <1>23, <1>24, <1>25, <1>26, <1>27 DEF SyncNext

LEMMA SyncTypeParts == SyncTypeOK <=> EngineTypeOK /\ AppTypeOK
BY DEF SyncTypeOK, AppTypeOK, NotesTypeOK, StatusTypeOK, RunTypeOK, CloseTypeOK

-----------------------------------------------------------------------------
(* The invariant of the repository, the run and the window.                *)

LEMMA PhasesStep ==
  ASSUME EngineTypeOK, Phases, [SyncNext]_syncVars
  PROVE  Phases'
<1> USE DEF Phases
<1>1. ASSUME NEW c \in LocalChanges, TypeChange(c) PROVE Phases'
  BY <1>1 DEF TypeChange, engineVars, runVars, closeVars
<1>2. ASSUME NEW c \in LocalChanges, OtherProgram(c) PROVE Phases'
  BY <1>2 DEF OtherProgram, WriteFile, runVars, closeVars
<1>3. ASSUME NEW c \in RemoteChanges, OtherDevice(c) PROVE Phases'
  BY <1>3 DEF OtherDevice, PushElsewhere, runVars, closeVars
<1>4. CASE SaveNote
  BY <1>4 DEF SaveNote, closeVars
<1>5. CASE RefreshAfterSave \/ StatusRead \/ StatusAnswer \/ PollStart
  BY <1>5 DEF RefreshAfterSave, StatusRead, StatusAnswer, PollStart, engineVars,
              runVars, closeVars
<1>6. CASE StatusFails
  BY <1>6 DEF StatusFails, runVars, closeVars
<1>7. CASE PollFinish
  BY <1>7 DEF PollFinish, RemoteStatus, closeVars
<1>8. CASE SyncManual
  BY <1>8 DEF SyncManual, Begin, Disabled, engineVars, closeVars
<1>9. CASE SyncAtStartup
  BY <1>9 DEF SyncAtStartup, Begin, Disabled, engineVars, closeVars
<1>10. CASE Autosync
  BY <1>10 DEF Autosync, AutosyncReady, Running, Begin, Disabled, engineVars, closeVars
<1>11. CASE AutosyncClears
  BY <1>11 DEF AutosyncClears, engineVars, runVars, closeVars
<1>12. CASE FlushFirst
  BY <1>12 DEF FlushFirst, closeVars
<1>13. CASE CheckForClose
  BY <1>13 DEF CheckForClose, Running
<1>14. CASE SyncBegins
  BY <1>14 DEF SyncBegins, RunStart, closeVars
<1>15. CASE EngineWorks
  <2>1. engine \in Steps /\ engine' # "idle"
    BY <1>15 DEF EngineWorks, EngineStep, Validate, Stage, Commit, Fetch, Merge,
                 MergeRefused, MergeConflict, Recover, Abort, PushHead, CommandFails,
                 Steps
  <2>2. QED
    BY <1>15, <2>1 DEF EngineWorks, Steps, runVars, closeVars
<1>16. CASE SyncEnds
  BY <1>16 DEF SyncEnds, Running, RunEnd, EndsWith, StaysOpen, closeVars
<1>17. CASE CloseWindow
  BY <1>17 DEF CloseWindow, Disabled, Begin, engineVars, runVars
<1>18. CASE CloseTimeout \/ CloseInstant
  BY <1>18 DEF CloseTimeout, CloseInstant, StaysOpen, engineVars, runVars
<1>19. CASE Shutdown
  BY <1>19 DEF Shutdown, EngineDies, SessionStart
<1>20. CASE Killed
  BY <1>20 DEF Killed, Crash, EngineDies, SessionStart, StaysOpen
<1>21. CASE Reopened
  BY <1>21 DEF Reopened, SessionStart, StaysOpen
<1>22. CASE ByHand
  BY <1>22 DEF ByHand, LockRemoved, runVars, closeVars
<1>23. CASE UNCHANGED syncVars
  BY <1>23 DEF syncVars, engineVars, runVars, closeVars
<1>24. QED
  BY <1>1, <1>2, <1>3, <1>4, <1>5, <1>6, <1>7, <1>8, <1>9, <1>10, <1>11, <1>12,
     <1>13, <1>14, <1>15, <1>16, <1>17, <1>18, <1>19, <1>20, <1>21, <1>22,
     <1>23 DEF SyncNext

LEMMA SyncInvInit == SyncInit => SyncInv
<1> SUFFICES ASSUME SyncInit PROVE SyncInv
  OBVIOUS
<1>1. EngineInv
  BY EngineInitInv DEF SyncInit
<1>2. NotesTypeOK /\ RunTypeOK /\ CloseTypeOK
  BY DEF SyncInit, NotesTypeOK, RunTypeOK, CloseTypeOK
<1>3. StatusTypeOK
  BY StatusesType DEF SyncInit, StatusTypeOK
<1>4. Phases
  BY DEF SyncInit, EngineInit, Phases
<1>5. QED
  BY <1>1, <1>2, <1>3, <1>4, SyncTypeParts DEF EngineInv, SyncInv, AppTypeOK

LEMMA SyncInvStep == SyncInv /\ [SyncNext]_syncVars => SyncInv'
<1> SUFFICES ASSUME SyncInv, [SyncNext]_syncVars PROVE SyncInv'
  OBVIOUS
<1>1. EngineInv /\ AppTypeOK /\ Phases
  BY SyncTypeParts DEF SyncInv, EngineInv
<1>2. EngineInv'
  BY <1>1, EngineInvKept DEF AppTypeOK, NotesTypeOK
<1>3. AppTypeOK'
  BY <1>1, AppTypeStep DEF EngineInv
<1>4. Phases'
  BY <1>1, PhasesStep DEF EngineInv
<1>5. SyncTypeOK'
  BY <1>2, <1>3 DEF EngineInv, SyncTypeOK, AppTypeOK, NotesTypeOK, StatusTypeOK,
                    RunTypeOK, CloseTypeOK
<1>6. QED
  BY <1>2, <1>4, <1>5 DEF EngineInv, SyncInv

(* The inductive invariant of autosync, the close and the engine they run. *)
THEOREM SyncInvariant == SyncSpec => []SyncInv
PROOF
<1>1. QED
  BY SyncInvInit, SyncInvStep, PTL DEF SyncSpec

(* The types of the app around the engine (useVaultGitStatus.ts and the    *)
(* hooks that sync).                                                       *)
THEOREM SyncTypeCorrect == SyncSpec => []SyncTypeOK
PROOF
<1>1. SyncInv => SyncTypeOK
  BY DEF SyncInv
<1>2. QED
  BY <1>1, SyncInvariant, PTL

-----------------------------------------------------------------------------
(* What a run carries.                                                     *)

LEMMA CarriedStep ==
  ASSUME NEW changes, Nested, EngineStep, CarriedNow(changes)
  PROVE  Carried(changes, engine', work', index', head', origin')
<1> USE DEF CarriedNow, Carried, Nested
<1>1. CASE Validate \/ MergeRefused \/ Recover
  BY <1>1 DEF Validate, MergeRefused, Recover
<1>2. CASE Stage
  BY <1>2 DEF Stage
<1>3. CASE Commit
  BY <1>3 DEF Commit
<1>4. CASE Fetch
  BY <1>4 DEF Fetch
<1>5. CASE Merge
  BY <1>5 DEF Merge
<1>6. CASE MergeConflict \/ Abort \/ CommandFails
  BY <1>6 DEF MergeConflict, Abort, CommandFails
<1>7. CASE PushHead
  BY <1>7 DEF PushHead
<1>8. QED
  BY <1>1, <1>2, <1>3, <1>4, <1>5, <1>6, <1>7 DEF EngineStep

(* What is cut short takes nothing from the remote.                        *)
LEMMA CutKeeps ==
  ASSUME Nested, Cut
  PROVE  work' \subseteq work \cup origin /\ origin \subseteq origin'
BY DEF Nested, Cut, StageCut, CommitCut, FetchCut, MergeCut, RecoverCut, AbortCut,
       PushCut

(* A step of the engine brings to the files what the remote has, keeps     *)
(* them but in an abort, and takes nothing from the remote.                *)
LEMMA EngineStepKeeps ==
  ASSUME Nested, EngineStep
  PROVE  /\ work' \subseteq work \cup origin
         /\ origin \subseteq origin'
         /\ engine' \in {"recover", "abort", "failed"} \/ work \subseteq work'
         /\ engine \in {"recover", "abort", "failed"}
              => engine' \in {"recover", "abort", "failed"}
<1> USE DEF Nested
<1>1. CASE Validate \/ MergeRefused \/ Recover
  BY <1>1 DEF Validate, MergeRefused, Recover, repoVars
<1>2. CASE Stage \/ Commit \/ Fetch
  BY <1>2 DEF Stage, Commit, Fetch
<1>3. CASE Merge
  BY <1>3 DEF Merge
<1>4. CASE MergeConflict
  BY <1>4 DEF MergeConflict
<1>5. CASE Abort
  BY <1>5 DEF Abort
<1>6. CASE PushHead
  BY <1>6 DEF PushHead
<1>7. CASE CommandFails
  BY <1>7, CutKeeps DEF CommandFails
<1>8. QED
  BY <1>1, <1>2, <1>3, <1>4, <1>5, <1>6, <1>7 DEF EngineStep

-----------------------------------------------------------------------------
(* A close.                                                                *)

LEMMA CloseKept ==
  ASSUME CloseInv,
         UNCHANGED <<closing, closeOf, unsure, run, phase, engine, head, index>>,
         origin \subseteq origin', work \subseteq work',
         work \cup typed \subseteq work' \cup typed'
  PROVE  CloseInv'
BY DEF CloseInv, CarriedNow, Carried

LEMMA CloseStep ==
  ASSUME SyncInv, CloseInv, [SyncNext]_syncVars
  PROVE  CloseInv'
<1> USE DEF SyncInv
<1>1. ASSUME NEW c \in LocalChanges, TypeChange(c) PROVE CloseInv'
  BY <1>1, CloseKept DEF TypeChange, engineVars, repoVars, runVars, closeVars
<1>2. ASSUME NEW c \in LocalChanges, OtherProgram(c) PROVE CloseInv'
  BY <1>2, CloseKept DEF OtherProgram, WriteFile, runVars, closeVars
<1>3. ASSUME NEW c \in RemoteChanges, OtherDevice(c) PROVE CloseInv'
  BY <1>3, CloseKept DEF OtherDevice, PushElsewhere, runVars, closeVars
<1>4. CASE SaveNote
  BY <1>4, CloseKept DEF SaveNote, Saves, closeVars
<1>5. CASE RefreshAfterSave \/ StatusRead \/ StatusAnswer \/ PollStart
           \/ AutosyncClears
  BY <1>5, CloseKept DEF RefreshAfterSave, StatusRead, StatusAnswer, PollStart,
                         AutosyncClears, engineVars, repoVars, runVars, closeVars
<1>6. CASE StatusFails
  BY <1>6, CloseKept DEF StatusFails, repoVars, runVars, closeVars
<1>7. CASE PollFinish
  BY <1>7, CloseKept DEF PollFinish, RemoteStatus, repoVars, closeVars
<1>8. CASE SyncManual \/ SyncAtStartup \/ Autosync
  <2>1. run = "none" /\ UNCHANGED closeVars /\ origin' = origin
    BY <1>8 DEF SyncManual, SyncAtStartup, Autosync, AutosyncReady, Disabled,
                engineVars, repoVars
  <2>2. QED
    BY <2>1 DEF CloseInv, closeVars
<1>9. CASE FlushFirst
  BY <1>9 DEF FlushFirst, Saves, CloseInv, closeVars
<1>10. CASE CheckForClose
  <2>1. PICK failed \in BOOLEAN :
          /\ IF ShouldSync(StatusForClose(failed), FALSE)
             THEN phase' = "begin" /\ UNCHANGED <<run, closing, closeOf>>
             ELSE /\ run' = "none" /\ phase' = "none" /\ closeOf' = closeOf
                  /\ closing' = IF closing = "waiting" THEN "leaving" ELSE closing
          /\ unsure' = (unsure \/ (closing = "waiting"
                                     /\ (failed \/ StatusForClose(failed).unsafe)))
    BY <1>10 DEF CheckForClose
  <2>2. phase = "check" /\ UNCHANGED <<work, typed, head, index, tracked, origin, engine>>
    BY <1>10 DEF CheckForClose, repoVars
  <2>3. CASE ShouldSync(StatusForClose(failed), FALSE)
    BY <2>1, <2>2, <2>3 DEF CloseInv
  <2>4. CASE ~ShouldSync(StatusForClose(failed), FALSE) /\ closing # "waiting"
    BY <2>1, <2>2, <2>4 DEF CloseInv
  <2>5. CASE ~ShouldSync(StatusForClose(failed), FALSE) /\ closing = "waiting"
    <3>1. closing' = "leaving" /\ closeOf' = closeOf
      BY <2>1, <2>5
    <3>2. SUFFICES ASSUME ~unsure' PROVE closeOf \subseteq origin
      BY <2>2, <3>1 DEF CloseInv
    <3>3. ~unsure /\ ~failed /\ ~StatusForClose(failed).unsafe
      BY <2>1, <2>5, <3>2
    <3>4. StatusForClose(failed) = StatusNow
      BY <3>3 DEF StatusForClose
    <3>5. work = head /\ head \subseteq tracked
      <4>1. /\ StatusNow.known /\ ~StatusNow.unsafe
            /\ StatusNow.dirty = (work # head) /\ StatusNow.ahead = (head \ tracked # {})
        BY <3>3, <3>4 DEF StatusNow
      <4>2. ~StatusNow.dirty /\ ~StatusNow.ahead
        BY <2>5, <3>4, <4>1 DEF ShouldSync, LocalWork
      <4>3. QED
        BY <4>1, <4>2
    <3>6. closeOf \subseteq work
      BY <2>2, <2>5, <3>3 DEF CloseInv
    <3>7. QED
      BY <3>5, <3>6 DEF Nested
  <2>6. QED
    BY <2>3, <2>4, <2>5
<1>11. CASE SyncBegins
  BY <1>11 DEF SyncBegins, RunStart, repoVars, CloseInv, CarriedNow, Carried, closeVars
<1>12. CASE EngineWorks
  <2>1. EngineStep /\ UNCHANGED <<run, phase, closing, closeOf, unsure>>
    BY <1>12 DEF EngineWorks, runVars, closeVars
  <2>2. phase = "git"
    BY <1>12 DEF EngineWorks, EngineStep, Validate, Stage, Commit, Fetch, Merge,
                 MergeRefused, MergeConflict, Recover, Abort, PushHead, CommandFails,
                 Steps, Phases
  <2>3. CASE closing = "waiting" /\ ~unsure
    <3>1. run = "close" /\ CarriedNow(closeOf)
      BY <2>2, <2>3 DEF CloseInv
    <3>2. Carried(closeOf, engine', work', index', head', origin')
      BY <2>1, <3>1, CarriedStep
    <3>3. engine' \notin {"recover", "abort", "failed"} => closeOf \subseteq work'
      BY <2>1, <2>2, <2>3, EngineStepKeeps DEF CloseInv
    <3>4. QED
      BY <2>1, <2>2, <2>3, <3>1, <3>2, <3>3 DEF CloseInv, CarriedNow
  <2>4. CASE ~(closing = "waiting" /\ ~unsure)
    BY <2>1, <2>4, EngineStepKeeps DEF CloseInv
  <2>5. QED
    BY <2>3, <2>4
<1>13. CASE SyncEnds
  <2>1. phase = "git" /\ origin' = origin /\ EndsWith(engine = "ok")
    BY <1>13 DEF SyncEnds, RunEnd, repoVars
  <2>2. CASE closing # "waiting"
    BY <2>1, <2>2 DEF EndsWith, CloseInv, closeVars
  <2>3. CASE closing = "waiting" /\ engine = "ok"
    BY <2>1, <2>3 DEF EndsWith, CloseInv, CarriedNow, Carried
  <2>4. CASE closing = "waiting" /\ engine # "ok"
    BY <2>1, <2>4 DEF EndsWith, StaysOpen, CloseInv
  <2>5. QED
    BY <2>2, <2>3, <2>4
<1>14. CASE CloseWindow
  <2>1. /\ closing' = "waiting" /\ closeOf' = work \cup typed
        /\ work' = work /\ typed' = typed
    BY <1>14 DEF CloseWindow, engineVars, repoVars
  <2>2. unsure' \/ (run' = "close" /\ phase' = "flush")
    BY <1>14 DEF CloseWindow, Begin
  <2>3. QED
    BY <2>1, <2>2 DEF CloseInv
<1>15. CASE CloseTimeout \/ CloseInstant \/ Killed \/ Reopened
  BY <1>15 DEF CloseTimeout, CloseInstant, Killed, Reopened, StaysOpen, CloseInv
<1>16. CASE Shutdown
  BY <1>16, CutKeeps DEF Shutdown, EngineDies, CloseInv
<1>17. CASE ByHand
  BY <1>17, CloseKept DEF ByHand, LockRemoved, runVars, closeVars
<1>18. CASE UNCHANGED syncVars
  BY <1>18, CloseKept DEF syncVars, engineVars, repoVars, runVars, closeVars
<1>19. QED
  BY <1>1, <1>2, <1>3, <1>4, <1>5, <1>6, <1>7, <1>8, <1>9, <1>10, <1>11, <1>12,
     <1>13, <1>14, <1>15, <1>16, <1>17, <1>18 DEF SyncNext

(* A window that closed after a sync of its own leaves nothing unsynced of *)
(* what had been typed or saved when the close was asked for               *)
(* (useAppGitSyncOrchestration.ts, runPreSyncThenCloseGitSync).            *)
THEOREM CloseSyncs == SyncSpec => []CloseLeavesNothing
PROOF
<1>1. SyncInit => CloseInv
  BY DEF SyncInit, CloseInv
<1>2. SyncInv /\ CloseInv /\ [SyncNext]_syncVars => CloseInv'
  BY CloseStep
<1>3. CloseInv => CloseLeavesNothing
  BY DEF CloseInv, CloseLeavesNothing
<1>4. QED
  BY <1>1, <1>2, <1>3, SyncInvariant, PTL DEF SyncSpec

-----------------------------------------------------------------------------
(* Pending work.                                                           *)

LEMMA PendingKept ==
  ASSUME PendingInv,
         UNCHANGED <<mine, pendingSync, newer, slow, refreshDue, statusVars, run, phase,
                     engine, head, index>>,
         Running' => Running,
         mine \cap work' = mine \cap work, origin \subseteq origin'
  PROVE  PendingInv'
<1> USE DEF PendingInv, Shared, statusVars
<1>1. Shared => Shared'
  OBVIOUS
<1>2. answer' = answer /\ status' = status /\ asking' = asking
  OBVIOUS
<1>3. CleanSynced(answer)' = CleanSynced(answer) /\ CleanSynced(status)' = CleanSynced(status)
  BY <1>2 DEF CleanSynced, LocalWork
<1>4. CarriedNow(mine) => CarriedNow(mine)'
  BY DEF CarriedNow, Carried
<1>5. QED
  BY <1>1, <1>2, <1>3, <1>4

LEMMA PendingStep ==
  ASSUME SyncInv, PendingInv, [SyncNext]_syncVars
  PROVE  PendingInv'
<1> USE DEF SyncInv
<1>1. ASSUME NEW c \in LocalChanges, TypeChange(c) PROVE PendingInv'
  BY <1>1, PendingKept DEF TypeChange, engineVars, repoVars, autoVars, runVars,
                           closeVars, Running
<1>2. ASSUME NEW c \in LocalChanges, OtherProgram(c) PROVE PendingInv'
  <2>1. mine \cap work' = mine \cap work
    BY <1>2 DEF OtherProgram, WriteFile
  <2>2. QED
    BY <1>2, <2>1, PendingKept DEF OtherProgram, WriteFile, autoVars, runVars,
                                   closeVars, Running
<1>3. ASSUME NEW c \in RemoteChanges, OtherDevice(c) PROVE PendingInv'
  BY <1>3, PendingKept DEF OtherDevice, PushElsewhere, autoVars, runVars, closeVars,
                           Running
<1>4. CASE PollStart
  BY <1>4, PendingKept DEF PollStart, engineVars, repoVars, autoVars, runVars,
                           closeVars, Running
<1>5. CASE SaveNote \/ FlushFirst
  <2>1. Saves /\ engine' = engine /\ UNCHANGED <<statusVars, closing>>
    BY <1>5 DEF SaveNote, FlushFirst, closeVars
  <2>2. (run' = run /\ phase' = phase) \/ phase' # "git"
    BY <1>5 DEF SaveNote, FlushFirst
  <2>3. CASE typed # {}
    BY <2>1, <2>2, <2>3 DEF Saves, PendingInv
  <2>4. CASE typed = {}
    <3>1. work' = work /\ UNCHANGED <<autoVars, head, index, origin>>
      BY <2>1, <2>4 DEF Saves
    <3>2. CASE run' = run /\ phase' = phase
      BY <2>1, <3>1, <3>2, PendingKept DEF autoVars, Running
    <3>3. CASE phase' # "git"
      BY <2>1, <3>1, <3>3 DEF PendingInv, Shared, autoVars, statusVars, Running,
                              CleanSynced, LocalWork
    <3>4. QED
      BY <2>2, <3>2, <3>3
  <2>5. QED
    BY <2>3, <2>4
<1>6. CASE RefreshAfterSave \/ PollFinish
  <2>1. /\ asking' = "sent" \/ UNCHANGED statusVars
        /\ asking' = "sent" \/ refreshDue' = refreshDue
        /\ UNCHANGED <<mine, pendingSync, newer, slow, work, index, head, origin,
                       engine, run, phase, closing>>
    BY <1>6 DEF RefreshAfterSave, PollFinish, RemoteStatus, Ask, engineVars, repoVars,
                autoVars, runVars, closeVars
  <2>2. CASE asking' = "sent"
    BY <2>1, <2>2 DEF PendingInv, Shared, Running, CarriedNow, Carried
  <2>3. CASE asking' # "sent"
    BY <2>1, <2>3, PendingKept DEF Running
  <2>4. QED
    BY <2>2, <2>3
<1>7. CASE StatusRead \/ StatusAnswer \/ StatusFails
  <2>1. UNCHANGED <<mine, pendingSync, newer, slow, refreshDue, work, index, head,
                    origin, engine, run, phase, closing>>
    BY <1>7 DEF StatusRead, StatusAnswer, StatusFails, engineVars, repoVars, autoVars,
                runVars, closeVars
  <2>2. CASE StatusRead
    \* A clean status has the files as they are on the remote.
    <3>1. answer' = StatusNow /\ asking' = "read"
      BY <2>2 DEF StatusRead
    <3>2. ASSUME CleanSynced(StatusNow) PROVE work \subseteq origin
      <4>1. /\ StatusNow.dirty = (work # head)
            /\ StatusNow.ahead = (head \ tracked # {})
        BY DEF StatusNow
      <4>2. ~StatusNow.dirty /\ ~StatusNow.ahead
        BY <3>2 DEF CleanSynced, LocalWork
      <4>3. QED
        BY <4>1, <4>2 DEF Nested
    <3>3. CleanSynced(answer)' <=> CleanSynced(StatusNow)
      BY <3>1 DEF CleanSynced, LocalWork
    <3>4. QED
      BY <2>1, <3>1, <3>2, <3>3 DEF PendingInv, Shared, Running, CarriedNow, Carried
  <2>3. CASE StatusAnswer
    <3>1. asking = "read" /\ asking' = "no" /\ status' = answer
      BY <2>3 DEF StatusAnswer
    <3>2. CleanSynced(status)' <=> CleanSynced(answer)
      BY <3>1 DEF CleanSynced, LocalWork
    <3>3. QED
      BY <2>1, <3>1, <3>2 DEF PendingInv, Shared, Running, CarriedNow, Carried
  <2>4. CASE StatusFails
    <3>1. asking' = "no" /\ statusError'
      BY <2>4 DEF StatusFails
    <3>2. QED
      BY <2>1, <3>1 DEF PendingInv, Shared, Running, CarriedNow, Carried
  <2>5. QED
    BY <1>7, <2>2, <2>3, <2>4
<1>8. CASE SyncManual \/ SyncAtStartup \/ Autosync \/ CloseWindow
  <2>1. /\ phase' = "flush" \/ (run' = run /\ phase' = phase /\ newer' = newer)
        /\ UNCHANGED <<mine, pendingSync, slow, refreshDue, statusVars, work, head,
                       index, origin, engine>>
        /\ Running
    BY <1>8 DEF SyncManual, SyncAtStartup, Autosync, AutosyncReady, CloseWindow, Begin,
                Running, engineVars, repoVars, autoVars, runVars
  <2>2. QED
    BY <2>1 DEF PendingInv, Shared, statusVars, CleanSynced, LocalWork, CarriedNow,
                Carried
<1>9. CASE AutosyncClears
  \* The status that clears pending work is that of the last request.
  <2>1. /\ ~Disabled /\ ~refreshDue /\ CleanSynced(status)
        /\ slow' = (slow \/ asking # "no")
        /\ UNCHANGED <<mine, newer, refreshDue, statusVars, work, head, index, origin,
                       engine, run, phase, closing>>
    BY <1>9 DEF AutosyncClears, AutosyncReady, engineVars, repoVars, runVars, closeVars
  <2>2. ~slow' => Shared
    BY <2>1 DEF PendingInv, Disabled
  <2>3. QED
    BY <2>1, <2>2 DEF PendingInv, Shared, statusVars, CleanSynced, LocalWork,
                      CarriedNow, Carried
<1>10. CASE CheckForClose \/ SyncBegins
  <2>1. /\ UNCHANGED <<mine, pendingSync, newer, slow, refreshDue, statusVars, work,
                       head, index, origin>>
        /\ Running
        /\ phase' # "git" \/ engine' = "validate"
    BY <1>10 DEF CheckForClose, SyncBegins, RunStart, repoVars, autoVars
  <2>2. QED
    BY <2>1 DEF PendingInv, Shared, statusVars, CleanSynced, LocalWork, CarriedNow,
                Carried
<1>11. CASE EngineWorks
  <2>1. /\ EngineStep
        /\ UNCHANGED <<mine, pendingSync, newer, slow, refreshDue, statusVars, run,
                       phase, closing>>
    BY <1>11 DEF EngineWorks, autoVars, runVars, closeVars
  <2>2. work' \subseteq work \cup origin /\ origin \subseteq origin'
    BY <2>1, EngineStepKeeps
  <2>3. Shared => Shared'
    BY <2>1, <2>2 DEF Shared
  <2>4. CarriedNow(mine) => CarriedNow(mine)'
    BY <2>1, CarriedStep DEF CarriedNow
  <2>5. QED
    BY <2>1, <2>3, <2>4 DEF PendingInv, Running, statusVars, CleanSynced, LocalWork
<1>12. CASE SyncEnds
  <2>1. /\ pendingSync' = (pendingSync /\ ~Synced)
        /\ asking' = "sent" /\ phase' = "none" /\ phase = "git" /\ Running
        /\ UNCHANGED <<mine, slow, work, origin>>
    BY <1>12 DEF SyncEnds, RunEnd, EndsWith, Ask, repoVars
  <2>2. Synced => Shared
    BY <2>1 DEF PendingInv, Synced, CarriedNow, Carried, Shared
  <2>3. QED
    BY <2>1, <2>2 DEF PendingInv, Shared
<1>13. CASE CloseTimeout \/ CloseInstant
  BY <1>13, PendingKept DEF CloseTimeout, CloseInstant, StaysOpen, engineVars,
                            repoVars, autoVars, runVars, Running
<1>14. CASE Shutdown \/ Killed \/ Reopened
  <2>1. mine' = {} /\ phase' = "none"
    BY <1>14 DEF Shutdown, Killed, Reopened, SessionStart
  <2>2. QED
    BY <2>1 DEF PendingInv, Shared
<1>15. CASE ByHand
  BY <1>15, PendingKept DEF ByHand, LockRemoved, autoVars, runVars, closeVars, Running
<1>16. CASE UNCHANGED syncVars
  BY <1>16, PendingKept DEF syncVars, engineVars, repoVars, autoVars, runVars,
                            closeVars, Running
<1>17. QED
  BY <1>1, <1>2, <1>3, <1>4, <1>5, <1>6, <1>7, <1>8, <1>9, <1>10, <1>11, <1>12,
     <1>13, <1>14, <1>15, <1>16 DEF SyncNext

(* What the app has saved and the shared branch does not have is pending,  *)
(* whatever answers, saves and runs overlap                                *)
(* (useVaultGitAutosyncScheduler.ts).                                      *)
THEOREM AutosyncForgetsNothing == SyncSpec => []AutosyncRemembers
PROOF
<1>1. SyncInit => PendingInv
  BY DEF SyncInit, PendingInv, Shared
<1>2. SyncInv /\ PendingInv /\ [SyncNext]_syncVars => PendingInv'
  BY PendingStep
<1>3. PendingInv => AutosyncRemembers
  BY DEF PendingInv, Shared, AutosyncRemembers
<1>4. QED
  BY <1>1, <1>2, <1>3, SyncInvariant, PTL DEF SyncSpec
=============================================================================
