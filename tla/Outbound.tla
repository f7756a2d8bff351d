------------------------------ MODULE Outbound ------------------------------
(***************************************************************************)
(* The proactive messages of one local day: the heartbeat that plans them *)
(* (app/core/scheduler.py), the gate (outbound_gate.py), the send job     *)
(* (outbound_send.py) under its queue row, and the three things that      *)
(* revoke a plan: a pause, /quiet, and a completed check-in.  One process  *)
(* runs the worker (updates and jobs, one at a time), the heartbeat and    *)
(* the web panel, which share the database and may interleave at every     *)
(* commit; the process may crash between any two.                          *)
(*                                                                         *)
(* The gate's clock, wallet and kind rules may refuse at any time; what it *)
(* reads of the user's wishes and of the two counters is kept.             *)
(***************************************************************************)
EXTENDS QueueOps, FiniteSets

CONSTANTS
    Intents,     \* outbound rows of the day: one per (kind, local_date, bucket)
    NoIntent,    \* "none at hand"
    Nags,        \* intents of kind evening_nag, redundant after the check-in
    MaxPerDay,   \* MAX_UNSOLICITED_PER_DAY
    Earlier,     \* how many other rows of the day may have been sent before
    MaxIgnored,  \* MAX_IGNORED_IN_ROW
    MaxUpdates,  \* bound: updates of the user
    MaxPanel,    \* bound: quiet periods set in the web panel
    MaxCrashes   \* bound: process crashes

ASSUME OutboundAssumption ==
    /\ NoIntent \notin Intents /\ Nags \subseteq Intents /\ IsFiniteSet(Intents)
    /\ MaxPerDay \in Nat /\ MaxIgnored \in Nat /\ Earlier \subseteq 0..MaxPerDay
    /\ MaxUpdates \in Nat /\ MaxPanel \in Nat /\ MaxCrashes \in Nat

VARIABLES
    outbound,   \* outbound.status of each intent, none before it is planned
    message,    \* its message row: none, stored (sent_at NULL), sent
    job,        \* its send_outbound job
    persona,    \* user_state.persona_active
    quiet,      \* user_state.quiet_until lies ahead
    checkedIn,  \* user_state.last_checkin_at is today
    ignored,    \* user_state.ignored_in_row
    heart,      \* the intent the heartbeat has admitted and not yet inserted
    panel,      \* the panel has stored a quiet period and not yet cancelled
    pc, mine,   \* where the worker stands, and the intent of the job it runs
    crashes, updates, periods,   \* the bounded events so far
    earlier,    \* rows of the day that were sent before these
    delivered,  \* history: how often each intent reached the user
    cut,        \* history: runs cut off after the send, before the row says so
    resent,     \* history: intents delivered from the stored text, past the gate
    overtaken,  \* history: intents cancelled under a run that had re-read them
    halted,     \* history: a pause or /quiet was cut off before its cancel
    unanswered, \* history: deliveries since the user last did something
    uncounted   \* history: those among them that were past the gate, or whose
                \* run was cut off before it moved ignored_in_row

wishes  == <<persona, quiet, checkedIn>>
bounds  == <<crashes, updates, periods, earlier>>
history == <<delivered, cut, resent, overtaken, halted, unanswered, uncounted>>
vars == <<outbound, message, job, wishes, ignored, heart, panel, pc, mine,
          bounds, history>>

PCs == {"idle", "heard", "revoke", "begin", "gate", "generate", "store", "send",
        "resend", "finish", "count", "return"}

Live    == {"none", "planned"}
Closed  == {"sent", "skipped", "cancelled", "failed"}

TypeOK ==
    /\ outbound \in [Intents -> Live \union Closed]
    /\ message \in [Intents -> {"none", "stored", "sent"}]
    /\ job \in [Intents -> Row]
    /\ earlier \in 0..MaxPerDay
    /\ persona \in BOOLEAN /\ quiet \in BOOLEAN /\ checkedIn \in BOOLEAN
    /\ ignored \in Nat
    /\ heart \in Intents \union {NoIntent} /\ panel \in BOOLEAN
    /\ pc \in PCs /\ mine \in Intents \union {NoIntent}
    /\ crashes \in Nat /\ updates \in Nat /\ periods \in Nat
    /\ delivered \in [Intents -> Nat] /\ cut \in [Intents -> Nat]
    /\ resent \subseteq Intents /\ overtaken \subseteq Intents
    /\ halted \in BOOLEAN
    /\ unanswered \in Nat /\ uncounted \in Nat

Init ==
    /\ outbound = [i \in Intents |-> "none"]
    /\ message = [i \in Intents |-> "none"]
    /\ job = [i \in Intents |-> AbsentRow]
    /\ earlier \in Earlier
    /\ persona = TRUE /\ quiet = FALSE /\ checkedIn = FALSE
    /\ ignored = 0
    /\ heart = NoIntent /\ panel = FALSE
    /\ pc = "idle" /\ mine = NoIntent
    /\ crashes = 0 /\ updates = 0 /\ periods = 0
    /\ delivered = [i \in Intents |-> 0] /\ cut = [i \in Intents |-> 0]
    /\ resent = {} /\ overtaken = {} /\ halted = FALSE
    /\ unanswered = 0 /\ uncounted = 0

-----------------------------------------------------------------------------
(* The gate, as far as it depends on what is modelled: it never lets more    *)
(* through, and may refuse for reasons of its own.                           *)

SentToday == earlier + Cardinality({i \in Intents : outbound[i] = "sent"})

Mut_Gate(i) ==        \* seeded fault: the back-off counter is one off
    /\ persona /\ ~quiet
    /\ ignored <= MaxIgnored
    /\ SentToday < MaxPerDay
    /\ i \in Nags => ~checkedIn

Mut_Budget(i) ==      \* seeded fault: the day's messages are not counted
    /\ persona /\ ~quiet
    /\ ignored < MaxIgnored
    /\ i \in Nags => ~checkedIn

Gate(i) ==
    /\ persona /\ ~quiet
    /\ ignored < MaxIgnored
    /\ SentToday < MaxPerDay
    /\ i \in Nags => ~checkedIn

-----------------------------------------------------------------------------
(* The heartbeat: the gate's reads, then row and job in one commit.          *)

Admit(i) ==
    /\ heart = NoIntent /\ outbound[i] = "none" /\ Gate(i)
    /\ heart' = i
    /\ UNCHANGED <<outbound, message, job, wishes, ignored, panel, pc, mine,
                   bounds, history>>

Plan ==
    /\ heart # NoIntent
    /\ outbound' = [outbound EXCEPT ![heart] = IF @ = "none" THEN "planned" ELSE @]
    /\ job' = [job EXCEPT ![heart] = Inserted(@)]
    /\ heart' = NoIntent
    /\ UNCHANGED <<message, wishes, ignored, panel, pc, mine, bounds, history>>

-----------------------------------------------------------------------------
(* The user: updates through the worker, a quiet period through the panel.   *)

Goto(where) == pc' = where /\ UNCHANGED mine

Mut_Settle(status) ==  \* seeded fault: the job's word for an outbound row
    outbound' = [outbound EXCEPT ![mine] = "done"]

Settle(status) == outbound' = [outbound EXCEPT ![mine] = status]

\* record_inbound, before the handler.
Hear ==
    /\ pc = "idle" /\ updates < MaxUpdates
    /\ updates' = updates + 1
    /\ ignored' = 0 /\ unanswered' = 0 /\ uncounted' = 0
    /\ Goto("heard")
    /\ UNCHANGED <<outbound, message, job, wishes, heart, panel, crashes, periods, earlier,
                   delivered, cut, resent, overtaken, halted>>

\* What an update may ask for: "out" and "quiet" owe a cancel_outbound.
Obey(wish) ==
    /\ pc = "heard"
    /\ persona'   = IF wish = "out" THEN FALSE ELSE (wish = "in" \/ persona)
    /\ quiet'     = IF wish = "loud" THEN FALSE ELSE (wish = "quiet" \/ quiet)
    /\ checkedIn' = (wish = "checkin" \/ checkedIn)
    /\ Goto(IF wish \in {"out", "quiet"} THEN "revoke" ELSE "idle")
    /\ UNCHANGED <<outbound, message, job, ignored, heart, panel, bounds, history>>

\* cancel_outbound: whatever is planned, also the row of a running job.  A run
\* past its re-read of the row does not notice.
Cancel ==
    /\ outbound' = [i \in Intents |-> IF outbound[i] = "planned" THEN "cancelled"
                                                               ELSE outbound[i]]
    /\ overtaken' = IF pc \in {"store", "send", "resend", "finish"}
                    THEN overtaken \union ({mine} \intersect
                              {i \in Intents : outbound[i] = "planned"})
                    ELSE overtaken
    /\ halted' = FALSE

Mut_Revoke ==         \* seeded fault: the pause forgets to cancel
    /\ pc = "revoke"
    /\ Goto("idle")
    /\ halted' = FALSE
    /\ UNCHANGED <<outbound, message, job, wishes, ignored, heart, panel, bounds,
                   delivered, cut, resent, overtaken, unanswered, uncounted>>

Revoke ==
    /\ pc = "revoke"
    /\ Cancel
    /\ Goto("idle")
    /\ UNCHANGED <<message, job, wishes, ignored, heart, panel, bounds,
                   delivered, cut, resent, unanswered, uncounted>>

\* POST /api/state/quiet: the same two commits, beside the worker.
PanelQuiet ==
    /\ periods < MaxPanel /\ ~panel
    /\ periods' = periods + 1
    /\ quiet' = TRUE /\ panel' = TRUE
    /\ UNCHANGED <<outbound, message, job, persona, checkedIn, ignored, heart,
                   pc, mine, crashes, updates, earlier, history>>

PanelCancel ==
    /\ panel
    /\ Cancel
    /\ panel' = FALSE
    /\ UNCHANGED <<message, job, wishes, ignored, heart, pc, mine, bounds,
                   delivered, cut, resent, unanswered, uncounted>>

QuietEnds ==
    /\ quiet /\ ~panel /\ pc # "revoke"
    /\ quiet' = FALSE
    /\ UNCHANGED <<outbound, message, job, persona, checkedIn, ignored, heart,
                   panel, pc, mine, bounds, history>>

-----------------------------------------------------------------------------
(* The send job, run_send_outbound.                                          *)

Claim(i) ==
    /\ pc = "idle" /\ job[i].status = "pending"
    /\ job' = [job EXCEPT ![i] = Claimed(@)]
    /\ pc' = "begin" /\ mine' = i
    /\ UNCHANGED <<outbound, message, wishes, ignored, heart, panel, bounds, history>>

Mut_Look ==           \* seeded fault: a stored text is sent whatever the status
    /\ pc = "begin"
    /\ Goto(IF message[mine] = "stored" THEN "resend"
            ELSE IF outbound[mine] = "planned" THEN "gate" ELSE "return")
    /\ UNCHANGED <<outbound, message, job, wishes, ignored, heart, panel, bounds,
                   history>>

\* Steps 1 and 2: is the row still planned, and has an earlier run stored the
\* text?  Text that is stored is sent again, with no second look at the gate.
Look ==
    /\ pc = "begin"
    /\ IF outbound[mine] = "planned" /\ message[mine] = "sent"
       THEN Settle("sent") ELSE UNCHANGED outbound
    /\ Goto(CASE outbound[mine] # "planned" -> "return"
              [] outbound[mine] = "planned" ->
                    CASE message[mine] = "none"   -> "gate"
                      [] message[mine] = "stored" -> "resend"
                      [] message[mine] = "sent"   -> "return")
    /\ UNCHANGED <<message, job, wishes, ignored, heart, panel, bounds, history>>

\* Step 3, the authoritative gate.
Pass ==
    /\ pc = "gate" /\ Gate(mine)
    /\ Goto("generate")
    /\ UNCHANGED <<outbound, message, job, wishes, ignored, heart, panel, bounds,
                   history>>

Refuse ==
    /\ pc = "gate"
    /\ Settle("skipped")
    /\ Goto("return")
    /\ UNCHANGED <<message, job, wishes, ignored, heart, panel, bounds, history>>

\* No provider answered, or the answer was empty: nothing is sent.
GenerateNothing ==
    /\ pc = "generate"
    /\ Settle("failed")
    /\ Goto("return")
    /\ UNCHANGED <<message, job, wishes, ignored, heart, panel, bounds, history>>

Mut_Reread ==         \* seeded fault: no second look after the model call
    /\ pc = "generate"
    /\ Goto("store")
    /\ UNCHANGED <<outbound, message, job, wishes, ignored, heart, panel, bounds,
                   history>>

\* The model took its time: the row is read again.
Reread ==
    /\ pc = "generate"
    /\ Goto(IF outbound[mine] = "planned" THEN "store" ELSE "return")
    /\ UNCHANGED <<outbound, message, job, wishes, ignored, heart, panel, bounds,
                   history>>

\* Step 6: message and ledger row in one commit.
Store ==
    /\ pc = "store"
    /\ message' = [message EXCEPT ![mine] = "stored"]
    /\ Goto("send")
    /\ UNCHANGED <<outbound, job, wishes, ignored, heart, panel, bounds, history>>

Send ==
    /\ pc \in {"send", "resend"}
    /\ delivered' = [delivered EXCEPT ![mine] = @ + 1]
    /\ unanswered' = unanswered + 1
    /\ IF pc = "resend" THEN resent' = resent \union {mine} /\ uncounted' = uncounted + 1
                        ELSE UNCHANGED <<resent, uncounted>>
    /\ Goto("finish")
    /\ UNCHANGED <<outbound, message, job, wishes, ignored, heart, panel, bounds,
                   cut, overtaken, halted>>

\* _finish: the rows, then the counter.
Mut_Finish ==         \* seeded fault: the first commit is missing
    /\ pc = "finish"
    /\ Goto("count")
    /\ UNCHANGED <<outbound, message, job, wishes, ignored, heart, panel, bounds,
                   history>>

Finish ==
    /\ pc = "finish"
    /\ message' = [message EXCEPT ![mine] = "sent"]
    /\ Settle("sent")
    /\ Goto("count")
    /\ UNCHANGED <<job, wishes, ignored, heart, panel, bounds, history>>

Count ==
    /\ pc = "count"
    /\ ignored' = ignored + 1
    /\ Goto("return")
    /\ UNCHANGED <<outbound, message, job, wishes, heart, panel, bounds, history>>

Complete ==
    /\ pc = "return"
    /\ job' = [job EXCEPT ![mine] = Completed(@)]
    /\ pc' = "idle" /\ mine' = NoIntent
    /\ UNCHANGED <<outbound, message, wishes, ignored, heart, panel, bounds, history>>

-----------------------------------------------------------------------------
(* Failures.  An update that is cut off is retried: it is heard again.       *)

CutOff ==
    /\ cut' = IF pc = "finish" THEN [cut EXCEPT ![mine] = @ + 1] ELSE cut
    /\ uncounted' = IF pc \in {"finish", "count"} THEN uncounted + 1 ELSE uncounted
    /\ pc' = "idle" /\ mine' = NoIntent

\* A statement or a send raises, in the job's body or in the update's handler.
Raise ==
    /\ pc \notin {"idle", "return"}
    /\ job' = IF mine = NoIntent THEN job ELSE [job EXCEPT ![mine] = Failed(@)]
    /\ CutOff
    /\ halted' = (halted \/ pc = "revoke")
    /\ UNCHANGED <<outbound, message, wishes, ignored, heart, panel, bounds,
                   delivered, resent, overtaken, unanswered>>

Crash ==
    /\ crashes < MaxCrashes
    /\ crashes' = crashes + 1
    /\ CutOff
    /\ heart' = NoIntent /\ panel' = FALSE
    /\ halted' = (halted \/ pc = "revoke" \/ panel)
    /\ UNCHANGED <<outbound, message, job, wishes, ignored, updates, periods, earlier,
                   delivered, resent, overtaken, unanswered>>

\* STUCK_AFTER has passed over a job nobody runs any more.
RecoverStuck(i) ==
    /\ job[i].status = "processing" /\ i # mine
    /\ job' = [job EXCEPT ![i] = Recovered([@ EXCEPT !.lease = StuckAfter])]
    /\ UNCHANGED <<outbound, message, wishes, ignored, heart, panel, pc, mine,
                   bounds, history>>

-----------------------------------------------------------------------------
Wishes == {"talk", "out", "in", "quiet", "loud", "checkin"}

Handler == (\E wish \in Wishes : Obey(wish)) \/ Revoke

Sender ==
    \/ \E i \in Intents : Claim(i)
    \/ Look \/ Pass \/ Refuse \/ GenerateNothing \/ Reread
    \/ Store \/ Send \/ Finish \/ Count \/ Complete

Next ==
    \/ (\E i \in Intents : Admit(i)) \/ Plan
    \/ Hear \/ Handler \/ Sender
    \/ PanelQuiet \/ PanelCancel \/ QuietEnds
    \/ Raise \/ Crash
    \/ \E i \in Intents : RecoverStuck(i)

Spec == Init /\ [][Next]_vars

\* The worker's loops run.  Updates go first, so a job gets its turn because the
\* user stops writing (MaxUpdates); nothing makes anyone write, plan or fail.
FairSpec == /\ Spec
            /\ WF_vars(Handler \/ Sender)
            /\ \A i \in Intents : WF_vars(RecoverStuck(i))

-----------------------------------------------------------------------------
(* Properties.                                                              *)

\* outbound_send.py: "at most one delivered message" per row, however often its
\* job runs; each further delivery is owed to a run that was cut off between
\* the send and the commit after it.
DeliveredOnceUnlessCut == \A i \in Intents : delivered[i] <= 1 + cut[i]

\* The back-off: after MAX_IGNORED_IN_ROW unanswered messages the bot is silent
\* until the user does something.  Past that come only messages that were sent
\* from the stored text, or whose run was cut off before it counted them.
BackOffKept == unanswered <= MaxIgnored + uncounted

\* The day's budget over all kinds holds although any number of rows may be
\* planned at once; only a stored text that was sent again may exceed it.
DailyBudgetKept == SentToday <= MaxPerDay + Cardinality(resent)

\* cancel_outbound revokes: a cancelled row reaches the user only if its job had
\* already read it for the last time.
CancelledStaysSilent ==
    [][\A i \in Intents : outbound[i] = "cancelled" /\ delivered'[i] # delivered[i]
                            => i \in overtaken]_vars

\* "Only planned is live": a row that is sent, skipped, failed or cancelled is
\* never planned again (one refused or revoked this morning stays so), and a
\* cancelled one is written over only by the job that was running it.
ClosedStaysClosed ==
    [][\A i \in Intents : outbound[i] \in Closed /\ outbound'[i] # outbound[i]
            => /\ outbound[i] = "cancelled" /\ i = mine
               /\ outbound'[i] = "sent" => i \in overtaken]_vars

\* Nothing unsolicited while the persona is off, except a stored text that is
\* sent again because the pause was cut off before its cancel.
PausedMeansSilent ==
    [][delivered' # delivered /\ ~persona
            => pc = "resend" /\ (halted \/ mine \in overtaken)]_vars

\* outbound_send.py on the time between planning and sending: "the evening nag
\* they just made redundant must not arrive anyway".
NoNagAfterCheckin ==
    [][\A i \in Nags : delivered'[i] # delivered[i] => ~checkedIn]_vars

\* The day ends with nothing left planned: every row is sent, skipped, failed or
\* cancelled, or its job was given up after MAX_ATTEMPTS (the row then stays
\* planned).
EveryPlanCloses ==
    <>[](\A i \in Intents : outbound[i] = "planned" => job[i].status = "failed")
=============================================================================
