--------------------------- MODULE VaultExchange ---------------------------
(***************************************************************************)
(* What the Git sync of a vault promises, whatever its steps: the devices  *)
(* that share a vault exchange the changes of their notes, and none is     *)
(* lost on the way.  GitEngine implements it.                              *)
(***************************************************************************)
CONSTANT Changes      \* changes of notes, on this device and on others

VARIABLES
  local,    \* changes in the notes of this device
  kept,     \* of these, the changes Git has recorded
  shared,   \* changes on the branch all devices share
  merging   \* a merge could not be completed and is being undone

exchangeVars == <<local, kept, shared, merging>>

ExchangeInit ==
  /\ local = {} /\ kept = {} /\ shared = {}
  /\ merging = FALSE

(* A set of changes grows by some of others. *)
Gains(before, after, others) ==
  before \subseteq after /\ after \subseteq before \cup others

ChangeHere ==
  /\ Gains(local, local', Changes)
  /\ UNCHANGED <<kept, shared, merging>>

ChangeElsewhere ==
  /\ Gains(shared, shared', Changes)
  /\ UNCHANGED <<local, kept, merging>>

Record ==
  /\ Gains(kept, kept', local)
  /\ UNCHANGED <<local, shared, merging>>

(* Changes of other devices arrive; what was here stays. *)
Receive ==
  /\ Gains(local, local', shared) /\ Gains(kept, kept', shared)
  /\ UNCHANGED <<shared, merging>>

(* The shared branch takes what is recorded here, if that has all it had. *)
Publish ==
  /\ shared \subseteq kept
  /\ shared' = kept
  /\ UNCHANGED <<local, kept, merging>>

MergeStops ==
  /\ merging' = TRUE
  /\ UNCHANGED <<local, kept, shared>>

(* The merge is undone, or in part: a change that was made while it stood, *)
(* and is not recorded, is all that may go with it.                        *)
MergeUndone ==
  /\ merging /\ merging' \in BOOLEAN
  /\ local' \subseteq local /\ local \cap kept \subseteq local'
  /\ UNCHANGED <<kept, shared>>

ExchangeNext ==
  \/ ChangeHere \/ ChangeElsewhere \/ Record \/ Receive
  \/ Publish \/ MergeStops \/ MergeUndone

ExchangeSpec == ExchangeInit /\ [][ExchangeNext]_exchangeVars
=============================================================================
