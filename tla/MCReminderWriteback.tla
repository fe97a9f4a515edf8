------------------------- MODULE MCReminderWriteback -------------------------
(***************************************************************************)
(* Small instances of ReminderWriteback: notes of one line, or of two lines *)
(* with twin tokens that read the same or not.                             *)
(***************************************************************************)
EXTENDS ReminderWriteback, TLC

MCDueAt == [tok \in Tokens |-> [time \in Times |-> 2]]

\* Lines 1 and 2 are there at the start.
MCNewUid == [n \in 1..MaxEdits |-> 2 + n]

Line(uid, anchor) == [tok |-> "t", anchor |-> anchor, struck |-> FALSE, uid |-> uid]

Single    == [p \in Paths |-> <<Line(1, "a")>>]
Twins     == [p \in Paths |-> <<Line(1, "a"), Line(2, "a")>>]
Different == [p \in Paths |-> <<Line(1, "a"), Line(2, "b")>>]

OnlyTwins        == {Twins}
OnlyDifferent    == {Different}
TwinsOrDifferent == {Twins, Different}
Starts           == {Single, Twins, Different}

\* No definition tells one worker, or one lock, from another.
Symmetry == Permutations(Workers) \cup Permutations(LockIds)
=============================================================================
