------------------------------ MODULE MCPresence ------------------------------
(* An instance of PresenceMailbox for TLC: two threads, two sessions.      *)
EXTENDS PresenceMailbox
CONSTANTS ui, other

TwoCallers == {ui, other}
TwoSessions == {1, 2}
NobodysGuest == Session

Budget(opens, ticks, switches, refusals, quits, ends) ==
  [opens |-> opens, ticks |-> ticks, switches |-> switches,
   refusals |-> refusals, quits |-> quits, ends |-> ends]
\* A session played and paused; one after another; Discord and the switch in
\* trouble.
Budgeted == {Budget(1, 3, 1, 0, 0, 0), Budget(2, 2, 1, 0, 0, 0),
             Budget(1, 1, 2, 1, 1, 1)}
=============================================================================
