------------------------------ MODULE QueueOps ------------------------------
(***************************************************************************)
(* The row mechanics shared by the two durable queues of the bot: the     *)
(* inbound table telegram_update (app/db/queue.py) and the background     *)
(* table job (app/db/jobs.py).  Both run the same claim / complete / fail *)
(* / recover statements, so one set of operators on a row record stands   *)
(* for both bindings of QueueSpec.                                        *)
(*                                                                         *)
(* A row is [status, attempts, lease].  lease is how old locked_at is,    *)
(* in units that make STUCK_AFTER the constant StuckAfter; it only means  *)
(* something while the row is processing.                                 *)
(***************************************************************************)
EXTENDS Naturals

CONSTANTS MaxAttempts,   \* MAX_ATTEMPTS: raised runs before a row is failed
          StuckAfter     \* STUCK_AFTER: the lease age at which a row is stuck

ASSUME QueueAssumption == /\ MaxAttempts \in Nat \ {0}
                          /\ StuckAfter \in Nat \ {0}

\* "absent": never inserted; "gone": wiped by /delete.
Statuses == {"absent", "pending", "processing", "done", "failed", "gone"}

Missing == {"absent", "gone"}

Settled == {"done", "failed", "gone"}

Row == [status : Statuses, attempts : Nat, lease : 0..StuckAfter]

AbsentRow == [status |-> "absent", attempts |-> 0, lease |-> 0]

\* INSERT .. ON CONFLICT DO NOTHING: a second insert of a key is a no-op.
Inserted(row) ==
    IF row.status \in Missing THEN [AbsentRow EXCEPT !.status = "pending"]
                            ELSE row

Mut_Claimed(row) ==   \* seeded fault: a status no other statement knows
    [status |-> "running", attempts |-> row.attempts + 1, lease |-> 0]

Claimed(row) ==
    [status |-> "processing", attempts |-> row.attempts + 1, lease |-> 0]

\* UPDATE .. WHERE id = row: it asks nothing of the row's status, and does
\* nothing when the row is no longer there.
Completed(row) ==
    IF row.status = "gone" THEN row ELSE [row EXCEPT !.status = "done"]

Mut_Failed(row) ==    \* seeded fault: one claim too many before giving up
    [row EXCEPT !.status =
        IF row.attempts > MaxAttempts THEN "failed" ELSE "pending"]

\* Called only while the row is there: on a wiped row the first SELECT of
\* _fail raises (scalar_one finds no row).
Failed(row) ==
    [row EXCEPT !.status =
        IF row.attempts >= MaxAttempts THEN "failed" ELSE "pending"]

Deferred(row) ==
    IF row.status = "gone" THEN row
    ELSE [status |-> "pending", attempts |-> 0, lease |-> 0]

Mut_Touched(row) ==   \* seeded fault: the touch moves another column
    row

Touched(row) ==
    IF row.status = "processing" THEN [row EXCEPT !.lease = 0] ELSE row

Stuck(row) == row.status = "processing" /\ row.lease = StuckAfter

Mut_Recovered(row) == \* seeded fault: the sweep forgets "status = processing"
    IF row.lease = StuckAfter THEN [row EXCEPT !.status = "pending"] ELSE row

Recovered(row) ==
    IF Stuck(row) THEN [row EXCEPT !.status = "pending"] ELSE row

\* TRUNCATE of the queue tables by delete_everything.
Wiped(row) ==
    IF row.status = "absent" THEN row ELSE [AbsentRow EXCEPT !.status = "gone"]
=============================================================================
