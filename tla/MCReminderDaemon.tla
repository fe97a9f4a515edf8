-------------------------- MODULE MCReminderDaemon --------------------------
(***************************************************************************)
(* Small instances of ReminderDaemon.                                      *)
(***************************************************************************)
EXTENDS ReminderDaemon, TLC

\* A day of nine instants: with a minute of two units and a lead of one or two
\* minutes, a token due at 7 fires at 5 or at 3, and a snooze of three minutes at 1.
MCDueAt == [tok \in Tokens |-> [time \in Times |-> 7]]

\* A short day: a token due at 2 with a lead of one unit fires at 1.
ShortDueAt == [tok \in Tokens |-> [time \in Times |-> 2]]

\* One instant passes: a token due then under the early default time, and under
\* the late one only after the clock has stopped, so that it stays armed for ever.
EarlyOrNever == [tok \in Tokens |-> [time \in Times |-> IF time = "late" THEN 3 ELSE 1]]

Line(tok, anchor) == [tok |-> tok, anchor |-> anchor, struck |-> FALSE, uid |-> 1]

Struck(line) == [line EXCEPT !.struck = TRUE]
Edited(line) == [line EXCEPT !.anchor = "edited"]

\* A note that may have one line: absent, live, struck, or edited.
OneLine ==
  LET line == Line("timed", "plain")
  IN  {<< >>, <<line>>, <<Struck(line)>>, <<Edited(line)>>, <<Struck(Edited(line))>>}

\* A note that keeps its line: live or struck.
Kept == {<<Line("timed", "plain")>>, <<Struck(Line("timed", "plain"))>>}

\* No definition tells one vault, or one note, from another.
Symmetry == Permutations(Vaults) \cup Permutations(Paths)
=============================================================================
