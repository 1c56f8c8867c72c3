------------------------------- MODULE MCRolling -------------------------------
(* Instances of Rolling for TLC: a download of three episodes, as a batch and  *)
(* as picked singles.                                                          *)
EXTENDS Rolling

Budget(batch, here, over, delete, edits, views, polls, removes, faults, ages) ==
  [batch |-> batch, here |-> here, over |-> over, delete |-> delete,
   edits |-> edits, views |-> views, polls |-> polls, removes |-> removes,
   faults |-> faults, ages |-> ages]

\* A batch, then singles: all three watched beside the page's poll; a change
\* of the roll; a torrent removed; a fault; and three days that pass.  Then a
\* batch too small to roll, and one whose files are elsewhere.
Budgeted == {
  Budget(TRUE, TRUE, None, TRUE, 0, 3, 1, 0, 0, 0),
  Budget(TRUE, TRUE, None, TRUE, 1, 2, 0, 0, 0, 0),
  Budget(TRUE, TRUE, None, TRUE, 0, 2, 0, 1, 0, 0),
  Budget(TRUE, TRUE, None, TRUE, 0, 3, 0, 0, 1, 0),
  Budget(TRUE, TRUE, None, TRUE, 1, 0, 0, 0, 1, 0),
  Budget(FALSE, TRUE, None, TRUE, 0, 3, 1, 0, 0, 0),
  Budget(FALSE, TRUE, None, TRUE, 1, 1, 0, 0, 0, 0),
  Budget(FALSE, TRUE, None, TRUE, 0, 3, 0, 1, 0, 0),
  Budget(FALSE, TRUE, None, TRUE, 0, 3, 0, 0, 1, 1),
  Budget(TRUE, TRUE, 3, TRUE, 0, 1, 1, 0, 0, 0),
  Budget(TRUE, FALSE, 2, TRUE, 0, 2, 0, 0, 0, 1)}

\* Singles over three days old.
Aged == {Budget(FALSE, TRUE, None, TRUE, 0, 1, 0, 0, 0, 1)}
================================================================================
