--------------------------- MODULE MCReminderDispatch ---------------------------
(* Two reminders of any two kinds, pinned on one step, where two follow-ups *)
(* share a mail; "r2" goes to an address that is refused at first.          *)
EXTENDS ReminderDispatch

CONSTANTS r1, r2, step

Pinned == [r \in Reminders |-> step]
=================================================================================
