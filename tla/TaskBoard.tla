----------------------------- MODULE TaskBoard ------------------------------
(***************************************************************************)
(* What the two queues promise to the rest of the bot, with no attempts,  *)
(* leases, processes or tables, as long as the user does not wipe them     *)
(* with /delete: a task handed in is carried out and then settled, once    *)
(* and for good.  It may be carried out more than once before that (a      *)
(* crash repeats it); it is never settled without having been carried out. *)
(***************************************************************************)
CONSTANT Tasks

VARIABLES open, carried, settled

board == <<open, carried, settled>>

Init == open = {} /\ carried = {} /\ settled = {}

Submit(t) ==
    /\ t \notin open \union settled
    /\ open' = open \union {t}
    /\ UNCHANGED <<carried, settled>>

Carry(t) ==
    /\ t \in open
    /\ carried' = carried \union {t}
    /\ UNCHANGED <<open, settled>>

Settle(t) ==
    /\ t \in open \intersect carried
    /\ open' = open \ {t}
    /\ settled' = settled \union {t}
    /\ UNCHANGED carried

Next == \E t \in Tasks : Submit(t) \/ Carry(t) \/ Settle(t)

Steps == Init /\ [][Next]_board

\* Every task handed in is settled in the end.
Spec == Steps /\ \A t \in Tasks : (t \in open) ~> (t \in settled)
=============================================================================
