----------------------------- MODULE GitEngine -----------------------------
(***************************************************************************)
(* One run of the Git sync engine of the desktop app on the repository of  *)
(* a vault: commit the notes, fetch, merge, push, and recovery from a      *)
(* merge that fails (apps/desktop/src-tauri/src/vault_git_sync:            *)
(* sync_run.rs, local_commit.rs, validation.rs, status.rs).                *)
(*                                                                         *)
(* A commit, the files and a branch are sets of changes; a change is made  *)
(* once, in one file.  Git itself, the other devices and the programs that *)
(* write notes run between any two steps of the engine.                    *)
(***************************************************************************)
EXTENDS Naturals, FiniteSets

CONSTANTS
  LocalChanges,   \* changes made in the files of this device
  RemoteChanges,  \* changes other devices push
  File,           \* File[c]: the file of change c
  MaxFaults       \* bound on Git commands that fail and on crashes

Changes == LocalChanges \cup RemoteChanges
Files   == {File[c] : c \in Changes}
FilesOf(changes) == {File[c] : c \in changes}

ASSUME GitAssumption ==
  /\ LocalChanges \cap RemoteChanges = {}
  /\ DOMAIN File = Changes
  /\ MaxFaults \in Nat

VARIABLES
  work,       \* changes in the files of the vault
  index,      \* changes staged for a commit
  head,       \* changes in HEAD
  tracked,    \* changes in the remote-tracking ref
  origin,     \* changes in the branch of the remote
  standing,   \* files changed by a merge that is not completed (MERGE_HEAD)
  unmerged,   \* of these, the files in conflict
  locked,     \* the index.lock of a Git command that was killed
  snapshots,  \* heads that a snapshot branch keeps
  engine,     \* step of sync_fetch_merge_push, or the result of the run
  before,     \* pre_merge_sha, {} when no run has one
  faults,     \* number of failed commands and crashes
  upset       \* history: a step was cut short that may block later runs

unsafeVars == <<standing, unmerged, locked>>
repoVars   == <<work, index, head, tracked, origin, unsafeVars>>
engineVars == <<repoVars, snapshots, engine, before, faults, upset>>

Steps   == {"validate", "stage", "commit", "fetch", "merge", "recover", "abort", "push"}
Results == {"ok", "failed"}

EngineTypeOK ==
  /\ work \subseteq Changes /\ index \subseteq Changes /\ head \subseteq Changes
  /\ tracked \subseteq Changes /\ origin \subseteq Changes
  /\ standing \subseteq Files /\ unmerged \subseteq standing
  /\ locked \in BOOLEAN
  /\ snapshots \subseteq SUBSET Changes
  /\ engine \in {"idle"} \cup Steps \cup Results
  /\ before \subseteq Changes
  /\ faults \in 0..MaxFaults
  /\ upset \in BOOLEAN

EngineInit ==
  /\ work = {} /\ index = {} /\ head = {} /\ tracked = {} /\ origin = {}
  /\ standing = {} /\ unmerged = {} /\ locked = FALSE /\ snapshots = {}
  /\ engine = "idle" /\ before = {}
  /\ faults = 0 /\ upset = FALSE

-----------------------------------------------------------------------------
(* The world around the engine.                                            *)

WriteFile(c) ==
  /\ c \in LocalChanges \ work
  /\ work' = work \cup {c}
  /\ UNCHANGED <<index, head, tracked, origin, unsafeVars, snapshots, engine,
                 before, faults, upset>>

PushElsewhere(c) ==
  /\ c \in RemoteChanges \ origin
  /\ origin' = origin \cup {c}
  /\ UNCHANGED <<work, index, head, tracked, unsafeVars, snapshots, engine,
                 before, faults, upset>>

(* remote_status fetches without the lock of the engine. *)
RemoteStatus ==
  /\ tracked' = origin
  /\ UNCHANGED <<work, index, head, origin, unsafeVars, snapshots, engine,
                 before, faults, upset>>

-----------------------------------------------------------------------------
(* The steps of a run.                                                     *)

(* The lock is taken; a second run would fail here. *)
RunStart ==
  /\ engine = "idle"
  /\ engine' = "validate"
  /\ UNCHANGED <<repoVars, snapshots, before, faults, upset>>

\* Mutant of Usable: the index is not looked at.
UsableIfNoMerge == standing = {} /\ ~locked

(* No run while a merge stands, the index is locked or holds staged changes. *)
Usable == standing = {} /\ ~locked /\ index = {}

Validate ==
  /\ engine = "validate"
  /\ engine' = IF Usable THEN "stage" ELSE "failed"
  /\ UNCHANGED <<repoVars, snapshots, before, faults, upset>>

Stage ==
  /\ engine = "stage"
  /\ index' = work \ head
  /\ engine' = "commit"
  /\ UNCHANGED <<work, head, tracked, origin, unsafeVars, snapshots, before,
                 faults, upset>>

Commit ==
  /\ engine = "commit"
  /\ head' = head \cup index
  /\ index' = {}
  /\ before' = head'
  /\ engine' = "fetch"
  /\ UNCHANGED <<work, tracked, origin, unsafeVars, snapshots, faults, upset>>

Fetch ==
  /\ engine = "fetch"
  /\ tracked' = origin
  /\ engine' = "merge"
  /\ UNCHANGED <<work, index, head, origin, unsafeVars, snapshots, before,
                 faults, upset>>

(* Git refuses a merge that would write over a file with changes that are  *)
(* not committed; files changed on both sides may conflict.                *)
Overwrites == FilesOf(work \ head) \cap FilesOf(tracked \ head) # {}
BothSides  == FilesOf(head \ tracked) \cap FilesOf(tracked \ head)

Merge ==
  /\ engine = "merge" /\ ~Overwrites
  /\ head' = head \cup tracked
  /\ work' = work \cup tracked
  /\ engine' = "push"
  /\ UNCHANGED <<index, tracked, origin, unsafeVars, snapshots, before, faults,
                 upset>>

MergeRefused ==
  /\ engine = "merge" /\ Overwrites
  /\ engine' = "recover"
  /\ UNCHANGED <<repoVars, snapshots, before, faults, upset>>

MergeConflict ==
  /\ engine = "merge" /\ ~Overwrites
  /\ standing' = FilesOf(tracked \ head)
  /\ unmerged' \in (SUBSET BothSides) \ {{}}
  /\ engine' = "recover"
  /\ UNCHANGED <<work, index, head, tracked, origin, locked, snapshots, before,
                 faults, upset>>

\* Mutant of Recover: the merge is not aborted.
RecoverWithoutAbort ==
  /\ engine = "recover"
  /\ snapshots' = snapshots \cup {before}
  /\ engine' = "failed"
  /\ UNCHANGED <<repoVars, before, faults, upset>>

(* A snapshot branch is made at the commit of this run; recovery goes on   *)
(* if that fails.                                                          *)
Recover ==
  /\ engine = "recover"
  /\ \/ snapshots' = snapshots \cup {before} /\ faults' = faults
     \/ snapshots' = snapshots /\ faults < MaxFaults /\ faults' = faults + 1
  /\ engine' = IF standing = {} THEN "failed" ELSE "abort"
  /\ UNCHANGED <<repoVars, before, upset>>

(* git merge --abort puts back what HEAD has: what was written to a file   *)
(* in conflict since the merge began is dropped with the conflict.  If it  *)
(* would drop a change of a file merged cleanly, Git does nothing.         *)
WrittenSince(files) == {c \in work \ head : File[c] \in files}

\* Mutant of MergeGone: the conflicts stay in the index.
MergeHeadGone == standing' = {} /\ unmerged' = unmerged

MergeGone == standing' = {} /\ unmerged' = {}

Abort ==
  /\ engine = "abort"
  /\ IF WrittenSince(standing \ unmerged) = {}
     THEN /\ work' = work \ WrittenSince(unmerged)
          /\ MergeGone
          /\ upset' = upset
     ELSE /\ upset' = TRUE
          /\ UNCHANGED <<work, standing, unmerged>>
  /\ engine' = "failed"
  /\ UNCHANGED <<index, head, tracked, origin, locked, snapshots, before, faults>>

\* Mutant of PushHead: a push is forced.
PushForced ==
  /\ engine = "push"
  /\ origin' = head /\ tracked' = head /\ engine' = "ok"
  /\ UNCHANGED <<work, index, head, unsafeVars, snapshots, before, faults, upset>>

(* The remote takes a push only if nobody else has pushed since the fetch. *)
PushHead ==
  /\ engine = "push"
  /\ IF origin \subseteq head
     THEN origin' = head /\ tracked' = head /\ engine' = "ok"
     ELSE engine' = "failed" /\ UNCHANGED <<origin, tracked>>
  /\ UNCHANGED <<work, index, head, unsafeVars, snapshots, before, faults, upset>>

-----------------------------------------------------------------------------
(* Faults: a command fails, is killed at its timeout, or dies with the app. *)
(* What it may have done by then, if anything:                             *)

\* Some files are staged.
StageCut ==
  /\ engine = "stage"
  /\ \E files \in SUBSET Files : index' = {c \in work \ head : File[c] \in files}
  /\ UNCHANGED <<work, head, tracked, origin, standing, unmerged, snapshots>>

\* The commit is made.
CommitCut ==
  /\ engine = "commit"
  /\ head' = head \cup index /\ index' = {}
  /\ UNCHANGED <<work, tracked, origin, standing, unmerged, snapshots>>

FetchCut ==
  /\ engine = "fetch"
  /\ tracked' = origin
  /\ UNCHANGED <<work, index, head, origin, standing, unmerged, snapshots>>

\* Some files are written, under the lock; or all, and staged; or the merge
\* stands; or it is made.
MergeCut ==
  /\ engine = "merge" /\ ~Overwrites
  /\ \/ /\ locked'
        /\ \E files \in SUBSET Files :
             work' = work \cup {c \in tracked : File[c] \in files}
        /\ UNCHANGED <<index, head, standing, unmerged>>
     \/ /\ work' = work \cup tracked /\ index' = tracked \ head
        /\ UNCHANGED <<head, standing, unmerged>>
     \/ /\ standing' = FilesOf(tracked \ head) /\ unmerged' \in SUBSET BothSides
        /\ UNCHANGED <<work, index, head>>
     \/ /\ work' = work \cup tracked /\ head' = head \cup tracked
        /\ UNCHANGED <<index, standing, unmerged>>
  /\ UNCHANGED <<tracked, origin, snapshots>>

\* The snapshot is made, the merge is not aborted.
RecoverCut ==
  /\ engine = "recover"
  /\ snapshots' = snapshots \cup {before}
  /\ UNCHANGED <<work, index, head, tracked, origin, standing, unmerged>>

\* Some files are put back, under the lock; or the merge is gone.
AbortCut ==
  /\ engine = "abort" /\ WrittenSince(standing \ unmerged) = {}
  /\ \/ /\ locked'
        /\ \E files \in SUBSET unmerged : work' = work \ WrittenSince(files)
        /\ UNCHANGED <<standing, unmerged>>
     \/ work' = work \ WrittenSince(unmerged) /\ MergeGone
  /\ UNCHANGED <<index, head, tracked, origin, snapshots>>

\* The remote has taken the push, and the tracking ref may know.
PushCut ==
  /\ engine = "push" /\ origin \subseteq head
  /\ origin' = head /\ tracked' \in {tracked, head}
  /\ UNCHANGED <<work, index, head, standing, unmerged, snapshots>>

Cut ==
  \/ UNCHANGED <<work, index, head, tracked, origin, standing, unmerged, snapshots>>
  \/ StageCut \/ CommitCut \/ FetchCut \/ MergeCut \/ RecoverCut \/ AbortCut
  \/ PushCut

(* A command that is killed may leave the lock of the index behind. *)
LocksIndex == engine \in {"stage", "commit", "merge", "abort"}
LockLeft(killed) ==
  locked' \in {locked} \cup (IF killed /\ LocksIndex THEN {TRUE} ELSE {})

(* The steps that cannot be cut short without a repair by hand, perhaps. *)
Midway == LocksIndex \/ (engine = "recover" /\ standing # {})

(* Only fetch, merge and push have a timeout. *)
CommandFails ==
  /\ engine \in Steps
  /\ faults < MaxFaults
  /\ faults' = faults + 1
  /\ LockLeft(engine = "merge") /\ Cut
  /\ upset' = (upset \/ Midway)
  /\ engine' = "failed"
  /\ UNCHANGED before

EngineDies ==
  /\ LockLeft(TRUE) /\ Cut
  /\ upset' = (upset \/ Midway)
  /\ engine' = "idle" /\ before' = {}

(* The app is killed in a run. *)
Crash ==
  /\ engine # "idle"
  /\ faults < MaxFaults
  /\ faults' = faults + 1
  /\ EngineDies

(* The lock is removed by hand. *)
LockRemoved ==
  /\ locked
  /\ locked' = FALSE
  /\ upset' = (upset /\ (standing # {} \/ index # {}))
  /\ UNCHANGED <<work, index, head, tracked, origin, standing, unmerged, snapshots,
                 engine, before, faults>>

RunEnd ==
  /\ engine \in Results
  /\ engine' = "idle" /\ before' = {}
  /\ UNCHANGED <<repoVars, snapshots, faults, upset>>

-----------------------------------------------------------------------------
EngineStep ==
  \/ Validate \/ Stage \/ Commit \/ Fetch \/ Merge \/ MergeRefused
  \/ MergeConflict \/ Recover \/ Abort \/ PushHead \/ CommandFails

EngineNext ==
  \/ \E c \in LocalChanges : WriteFile(c)
  \/ \E c \in RemoteChanges : PushElsewhere(c)
  \/ RemoteStatus
  \/ RunStart \/ EngineStep \/ RunEnd \/ Crash \/ LockRemoved

EngineSpec == EngineInit /\ [][EngineNext]_engineVars

-----------------------------------------------------------------------------
Exchange == INSTANCE VaultExchange
  WITH local <- work, kept <- head, shared <- origin, merging <- standing # {}

(* The engine implements the exchange of changes: no run takes a change    *)
(* from the shared branch or from the notes, whatever fails on the way.    *)
ImplementsExchange == Exchange!ExchangeSpec

(* No run works on what an earlier one left: not past a merge that stands  *)
(* or a lock, nor with changes staged other than by itself, whatever was   *)
(* cut short before.                                                       *)
NothingLeftOver ==
  engine \in {"stage", "commit", "fetch", "merge", "push"} =>
    /\ standing = {} /\ ~locked
    /\ engine # "commit" => index = {}

(* A run that ends, well or not, leaves a repository the next run can use: *)
(* a refused push, a merge with conflicts or one that is refused is undone. *)
(* The exceptions are a fault in a step that Git or the engine cannot leave *)
(* midway, and an abort that Git refuses (upset).                          *)
UsableAgain == engine \in {"idle"} \cup Results /\ ~upset => Usable
=============================================================================
