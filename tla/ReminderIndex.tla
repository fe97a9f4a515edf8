--------------------------- MODULE ReminderIndex ---------------------------
(***************************************************************************)
(* Scanning notes into reminders, carrying the mutable state of reminders  *)
(* across a rescan, and finding the live token a stored reminder stands    *)
(* for (crates/eskerra-reminder-core: scanner.rs, index.rs, merge.rs,      *)
(* resolve.rs; crates/eskerra-reminderd: scan.rs, rederive.rs).            *)
(*                                                                         *)
(* A note is a sequence of lines, each with one date token:                *)
(*   tok     the normalized token text                                     *)
(*   anchor  the context anchor: the line's text with the token masked     *)
(*   struck  the token is written @~~...~~, so the scanner does not see it *)
(*   uid     which line of the user's this is.  No rule of the program     *)
(*           reads it: it is there to state what the rules get right.      *)
(* An index is a function from ids to reminders.                           *)
(***************************************************************************)
EXTENDS ReminderScheduler, Sequences

CONSTANTS
  Paths,      \* vault-relative paths of the notes
  Tokens,     \* normalized token texts
  Anchors,    \* context anchors
  Uids,       \* the user's lines
  Times,      \* values of the date-only default time
  DueAt,      \* DueAt[tok][time]: when the token is due (resolve_due_at_ms)
  MaxLines    \* most lines in a note

ASSUME IndexAssumption ==
  /\ DueAt \in [Tokens -> [Times -> Nat]]
  /\ MaxLines \in Nat

Lines == [tok : Tokens, anchor : Anchors, struck : BOOLEAN, uid : Uids]

\* A note of at most MaxLines lines.
IsNote(c) == \E n \in 0..MaxLines : c \in [1..n -> Lines]

Texts == UNION {[1..n -> [tok : Tokens, anchor : Anchors, struck : BOOLEAN]] : n \in 0..MaxLines}

\* reminder_id hashes exactly these three.
Ids == [path : Paths, tok : Tokens, ord : 0..MaxLines]

Reminders == [anchor : Anchors, print : Texts, uid : Uids,
              state : ReminderStates, due : Int, fire : Int, last : Int \cup {NoTime}]

IsIndex(idx) ==
  /\ idx = [id \in DOMAIN idx |-> idx[id]]
  /\ DOMAIN idx \subseteq Ids
  /\ \A id \in DOMAIN idx : idx[id] \in Reminders

NoReminders == [id \in {} |-> {}]

---------------------------------------------------------------------------
(* Scanning.                                                               *)

\* The bytes of a note, as the scan fingerprint sees them.
TextOf(content) ==
  [i \in DOMAIN content |-> [tok |-> content[i].tok, anchor |-> content[i].anchor,
                             struck |-> content[i].struck]]

Live(content) == {i \in DOMAIN content : ~content[i].struck}

Ordinal(content, i) ==
  Cardinality({j \in Live(content) : j < i /\ content[j].tok = content[i].tok})

TokenId(path, content, i) ==
  [path |-> path, tok |-> content[i].tok, ord |-> Ordinal(content, i)]

\* The line an id names in a note: ids of live tokens of one note are distinct.
LineNamed(content, id) ==
  CHOOSE i \in Live(content) : content[i].tok = id.tok /\ Ordinal(content, i) = id.ord

FreshReminder(content, i, time, lead) ==
  LET due == DueAt[content[i].tok][time]
  IN  [anchor |-> content[i].anchor, print |-> TextOf(content), uid |-> content[i].uid,
       state |-> "scheduled", due |-> due, fire |-> due - lead * Minute, last |-> NoTime]

ScanFile(path, content, time, lead) ==
  [id \in {TokenId(path, content, i) : i \in Live(content)} |->
     FreshReminder(content, LineNamed(content, id), time, lead)]

\* One index out of the indexes of several notes; their ids differ in `path'.
JoinNotes(f) == [id \in UNION {DOMAIN f[p] : p \in DOMAIN f} |-> f[id.path][id]]

ScanVault(notes, time, lead) ==
  JoinNotes([p \in DOMAIN notes |-> ScanFile(p, notes[p], time, lead)])

RemindersOf(idx, p) == [id \in {i \in DOMAIN idx : i.path = p} |-> idx[id]]

\* Mutant of RescanChangedFiles: a changed note without live tokens is skipped.
RescanNonEmptyFiles(notes, prior, changed, time, lead) ==
  JoinNotes([p \in DOMAIN notes |->
              IF p \in changed /\ Live(notes[p]) # {}
              THEN ScanFile(p, notes[p], time, lead) ELSE RemindersOf(prior, p)])

\* Notes outside `changed' keep the reminders of `prior', state included.
RescanChangedFiles(notes, prior, changed, time, lead) ==
  JoinNotes([p \in DOMAIN notes |->
              IF p \in changed THEN ScanFile(p, notes[p], time, lead)
                               ELSE RemindersOf(prior, p)])

---------------------------------------------------------------------------
(* Merging: which fresh reminder, if any, receives a prior one's state.     *)

\* The entries of one content key, (note, token text).
SameContent(idx, id) == {c \in DOMAIN idx : c.path = id.path /\ c.tok = id.tok}

DuplicateKey(prior, fresh, id) ==
  \/ Cardinality(SameContent(prior, id)) > 1
  \/ Cardinality(SameContent(fresh, id)) > 1

AnchorMatches(idx, id, anchor) ==
  {c \in SameContent(idx, id) : idx[c].anchor = anchor}

ByAnchor(prior, fresh, id) ==
  IF Cardinality(AnchorMatches(prior, id, prior[id].anchor)) = 1
  THEN AnchorMatches(fresh, id, prior[id].anchor)
  ELSE {}

\* Mutant of ByOrdinal: the ordinal is trusted without the fingerprint.
ByOrdinalAlone(prior, fresh, id) == DOMAIN fresh \cap {id}

\* All candidates of one content key are in one note, so any of them has the
\* note's fingerprint.
ByOrdinal(prior, fresh, id) ==
  {c \in DOMAIN fresh \cap {id} : fresh[c].print = prior[id].print}

\* The set of fresh ids that prior entry `id' claims: none or one.
Claims(prior, fresh, id) ==
  IF ~DuplicateKey(prior, fresh, id) THEN DOMAIN fresh \cap {id}
  ELSE IF Cardinality(ByAnchor(prior, fresh, id)) = 1 THEN ByAnchor(prior, fresh, id)
  ELSE ByOrdinal(prior, fresh, id)

Claimants(prior, fresh, c) ==
  {id \in SameContent(prior, c) : c \in Claims(prior, fresh, id)}

LooksLikeStaleBaselineFire(r) ==
  \/ r.state = "scheduled" /\ r.last = NoTime
  \/ r.state = "notified" /\ r.last = r.fire

CanApplyTo(r, fresh) ==
  /\ r.due = fresh.due
  /\ r.fire = fresh.fire \/ ~LooksLikeStaleBaselineFire(r)

Carry(r, fresh) ==
  IF CanApplyTo(r, fresh)
  THEN [fresh EXCEPT !.state = r.state, !.fire = r.fire, !.last = r.last]
  ELSE fresh

\* The first claim wins; prior entries of one key are sorted by ordinal.
FirstClaim(S) == CHOOSE id \in S : \A other \in S : id.ord <= other.ord

Merge(prior, fresh) ==
  [c \in DOMAIN fresh |->
     LET claimants == Claimants(prior, fresh, c)
     IN  IF claimants = {} THEN fresh[c] ELSE Carry(prior[FirstClaim(claimants)], fresh[c])]

---------------------------------------------------------------------------
(* Settings-only change, and resolving a stored reminder in a note.         *)

\* Mutant of RederiveOne: stale reminders are rederived as well.
RederiveStaleToo(r, id, time, lead) ==
  LET due == DueAt[id.tok][time]
  IN  [r EXCEPT !.due = due, !.fire = due - lead * Minute, !.state = "scheduled", !.last = NoTime]

RederiveOne(r, id, time, lead) ==
  LET due  == DueAt[id.tok][time]
      fire == due - lead * Minute
  IN  IF r.state = "stale" \/ (r.due = due /\ r.fire = fire) THEN r
      ELSE [r EXCEPT !.due = due, !.fire = fire, !.state = "scheduled", !.last = NoTime]

Rederive(idx, time, lead) == [id \in DOMAIN idx |-> RederiveOne(idx[id], id, time, lead)]

Candidates(content, id) == {i \in Live(content) : content[i].tok = id.tok}

\* Mutant of Resolve: the ordinal is trusted without the fingerprint.
ResolveByOrdinal(content, id, stored) ==
  LET anchored == {i \in Candidates(content, id) : content[i].anchor = stored.anchor}
  IN  IF Cardinality(anchored) = 1 THEN anchored
      ELSE {i \in Candidates(content, id) : Ordinal(content, i) = id.ord}

\* resolve_live_token: the lines it resolves to.  No candidate is Gone, one
\* resolved line is Resolved, candidates but no resolved line is Ambiguous.
Resolve(content, id, stored) ==
  LET anchored == {i \in Candidates(content, id) : content[i].anchor = stored.anchor}
  IN  IF Cardinality(anchored) = 1 THEN anchored
      ELSE IF TextOf(content) = stored.print
      THEN {i \in Candidates(content, id) : Ordinal(content, i) = id.ord}
      ELSE {}

Strike(content, i) == [content EXCEPT ![i].struck = TRUE]

---------------------------------------------------------------------------
(* Recording a write-back's outcome.                                       *)

Drop(idx, id) == [other \in DOMAIN idx \ {id} |-> idx[other]]

\* Mutant of ApplyRemoveResult: the outcome becomes the state.
ApplyRemoveResultAsState(idx, id, result) ==
  IF id \notin DOMAIN idx THEN idx ELSE [idx EXCEPT ![id].state = result]

ApplyRemoveResult(idx, id, result) ==
  IF id \notin DOMAIN idx THEN idx
  ELSE IF result = "removed" THEN Drop(idx, id)
  ELSE [idx EXCEPT ![id].state = "stale"]
=============================================================================
