----------------------------- MODULE WorkQueue -----------------------------
(***************************************************************************)
(* The two durable queues (app/db/queue.py, app/db/jobs.py) and the loops *)
(* of app/worker.py that drain them: the claim loop (updates first, then  *)
(* one due job), the recovery loop, process crashes and restarts, leases  *)
(* that age past STUCK_AFTER, database errors that escape a loop, and the *)
(* wipe of /delete.  Every statement that commits is one action, so a     *)
(* crash or the other loop may come between any two of them.              *)
(*                                                                         *)
(* What a handler does is left to the other modules: here it ends well,   *)
(* raises, or asks to be deferred.  run_after is kept as due / not due, so *)
(* a job claim takes any due job; updates keep their arrival order.       *)
(***************************************************************************)
EXTENDS QueueOps, FiniteSets

CONSTANTS
    Workers,      \* processes running the worker (two overlap in a rollout)
    Updates,      \* update ids Telegram or the web chat may deliver
    Jobs,         \* ids of job rows; a row of any kind may have the id
    Wipers,       \* updates whose handler runs delete_everything
    NoRow,        \* "holds nothing"
    MaxArrivals,  \* bound: update rows inserted, a redelivery after /delete included
    MaxCrashes,   \* bound: process crashes
    MaxFaults,    \* bound: database or Telegram errors that escape a loop
    MaxDefers     \* bound: deferrals

Rows == Updates \union Jobs

ASSUME ConstantsAssumption ==
    /\ Updates \intersect Jobs = {}
    /\ NoRow \notin Rows /\ IsFiniteSet(Workers)
    /\ Wipers \subseteq Updates
    /\ MaxArrivals \in Nat
    /\ MaxCrashes \in Nat /\ MaxFaults \in Nat /\ MaxDefers \in Nat

VARIABLES
    rows,       \* the two tables, as committed
    stamp,      \* created_at of an update: its place in arrival order, 0 if none
    arrivals,   \* how many updates have arrived
    due,        \* jobs with run_after <= now()
    pc,         \* where each process's claim loop stands
    mine,       \* the row each process believes it is running
    outcome,    \* how the handler of that row ended
    since,      \* time since it claimed or last touched that row, not counted
                \* any further once the row has slipped
    sweeper,    \* processes whose recovery loop is alive
    crashes, faults, defers,   \* the bounded events so far
    started,    \* history: updates whose handling has begun at least once
    ran,        \* history: rows whose handler has run to its end
    lost,       \* history: rows whose run was cut off by a crash or an error
    ahead,      \* history: jobs started since the update became pending
    recoveries, \* history: how often a row was recovered since its attempts
                \* were last zero
    reopened,   \* history: rows made pending again while a live process ran
                \* them, by the sweep or because /delete had freed their id
    slipped     \* history: running rows out of their runner's hands: one let
                \* STUCK_AFTER go by untouched, or the id was handed out again

vars == <<rows, stamp, arrivals, due, pc, mine, outcome, since, sweeper, crashes,
          faults, defers, started, ran, lost, ahead, recoveries, reopened,
          slipped>>

loop    == <<pc, mine, outcome, since>>
bounds  == <<crashes, faults, defers>>
past    == <<started, ran, lost, ahead, recoveries, reopened>>
history == <<past, slipped>>

\* poll: about to look for an update; look: found none, about to look for a
\* job; run: a row is claimed; ran: its handler ended, nothing recorded;
\* notice: an abandoned write was recorded, its notice is owed; dead: the
\* claim loop's task has ended with an exception; down: no process.
PCs == {"poll", "look", "run", "ran", "notice", "dead", "down"}

Outcomes == {"none", "ok", "raise", "defer"}

TypeOK ==
    /\ rows \in [Rows -> Row]
    /\ stamp \in [Updates -> Nat]
    /\ arrivals \in Nat
    /\ due \subseteq Jobs
    /\ pc \in [Workers -> PCs]
    /\ mine \in [Workers -> Rows \union {NoRow}]
    /\ outcome \in [Workers -> Outcomes]
    /\ since \in [Workers -> Nat]
    /\ sweeper \subseteq Workers
    /\ crashes \in Nat /\ faults \in Nat /\ defers \in Nat
    /\ started \subseteq Updates
    /\ ran \subseteq Rows
    /\ lost \subseteq Rows
    /\ ahead \in [Updates -> Nat]
    /\ recoveries \in [Rows -> Nat]
    /\ reopened \subseteq Rows
    /\ slipped \subseteq Rows

Init ==
    /\ rows = [r \in Rows |-> AbsentRow]
    /\ stamp = [u \in Updates |-> 0]
    /\ arrivals = 0
    /\ due = {}
    /\ pc = [w \in Workers |-> "poll"]
    /\ mine = [w \in Workers |-> NoRow]
    /\ outcome = [w \in Workers |-> "none"]
    /\ since = [w \in Workers |-> 0]
    /\ sweeper = Workers
    /\ crashes = 0 /\ faults = 0 /\ defers = 0
    /\ started = {} /\ ran = {} /\ lost = {} /\ reopened = {} /\ slipped = {}
    /\ ahead = [u \in Updates |-> 0]
    /\ recoveries = [r \in Rows |-> 0]

Pending(r)  == rows[r].status = "pending"
Holds(w, r) == mine[w] = r
Running     == {mine[w] : w \in Workers}

-----------------------------------------------------------------------------
(* Producers: the webhook and the web chat insert updates, handlers and the *)
(* heartbeat insert jobs.  A delivery of a key already stored is a no-op.   *)

\* The row is new although its id is not: a process that still runs the old
\* row will complete, fail, defer and touch the new one.
HandedOutAgain(r) ==
    /\ recoveries' = [recoveries EXCEPT ![r] = 0]
    /\ reopened' = reopened \union ({r} \intersect Running)
    /\ slipped' = slipped \union ({r} \intersect Running)

\* update_id is the primary key, so a redelivery of an update that /delete has
\* wiped is a new row: its history starts afresh.
Enqueue(u) ==
    /\ rows' = [rows EXCEPT ![u] = Inserted(@)]
    /\ IF rows[u].status \in Missing
       THEN /\ arrivals < MaxArrivals
            /\ arrivals' = arrivals + 1
            /\ stamp' = [stamp EXCEPT ![u] = arrivals + 1]
            /\ ahead' = [ahead EXCEPT ![u] = 0]
            /\ started' = started \ {u}
            /\ lost' = lost \ {u}
            /\ HandedOutAgain(u)
       ELSE UNCHANGED <<arrivals, stamp, ahead, started, lost, recoveries,
                        reopened, slipped>>
    /\ UNCHANGED <<due, loop, sweeper, bounds, ran>>

\* run_after is now, or later: the job is due at once or becomes due.  The wipe
\* restarts the identity of job, so the id of a wiped job is given to a job
\* inserted later, of whatever kind.
EnqueueJob(j, dueNow) ==
    /\ rows' = [rows EXCEPT ![j] = Inserted(@)]
    /\ IF rows[j].status \in Missing
       THEN /\ due' = IF dueNow THEN due \union {j} ELSE due \ {j}
            /\ HandedOutAgain(j)
       ELSE UNCHANGED <<due, recoveries, reopened, slipped>>
    /\ UNCHANGED <<stamp, arrivals, loop, sweeper, bounds, started, ran, lost,
                   ahead>>

BecomesDue(j) ==
    /\ Pending(j) /\ j \notin due
    /\ due' = due \union {j}
    /\ UNCHANGED <<rows, stamp, arrivals, loop, sweeper, bounds, history>>

\* Time passes over a claimed row, for the row's lease and for the processes
\* that believe they are running it; how slow a body may be is left open.
LeaseAges(r) ==
    /\ rows[r].status = "processing" /\ rows[r].lease < StuckAfter
    /\ rows' = [rows EXCEPT ![r].lease = @ + 1]
    /\ since' = [w \in Workers |->
                  IF Holds(w, r) /\ r \notin slipped THEN since[w] + 1
                                                     ELSE since[w]]
    /\ slipped' = IF \E w \in Workers : Holds(w, r) /\ since'[w] = StuckAfter
                  THEN slipped \union {r} ELSE slipped
    /\ UNCHANGED <<stamp, arrivals, due, pc, mine, outcome, sweeper, bounds,
                   started, ran, lost, ahead, recoveries, reopened>>

-----------------------------------------------------------------------------
(* The claim loop: process_one_update, then process_one_job, then sleep.    *)

Goto(w, where, row, how) ==
    /\ pc' = [pc EXCEPT ![w] = where]
    /\ mine' = [mine EXCEPT ![w] = row]
    /\ outcome' = [outcome EXCEPT ![w] = how]
    /\ since' = IF row = mine[w] THEN since ELSE [since EXCEPT ![w] = 0]
    /\ slipped' = slipped \intersect Running'

Mut_Oldest(u) == Pending(u)   \* seeded fault: the claim without ORDER BY

Oldest(u) ==
    /\ Pending(u)
    /\ \A v \in Updates : Pending(v) => stamp[u] <= stamp[v]

ClaimUpdate(w, u) ==
    /\ pc[w] = "poll" /\ Oldest(u)
    /\ rows' = [rows EXCEPT ![u] = Claimed(@)]
    /\ Goto(w, "run", u, "none")
    /\ started' = started \union {u}
    /\ ahead' = [ahead EXCEPT ![u] = 0]
    /\ UNCHANGED <<stamp, arrivals, due, sweeper, bounds, ran, lost,
                   recoveries, reopened>>

NoUpdate(w) ==
    /\ pc[w] = "poll" /\ \A u \in Updates : ~Pending(u)
    /\ Goto(w, "look", NoRow, "none")
    /\ UNCHANGED <<rows, stamp, arrivals, due, sweeper, bounds, past>>

Mut_Claimable(j) ==   \* seeded fault: the claim takes up running rows as well
    rows[j].status \in {"pending", "processing"} /\ j \in due

Claimable(j) == Pending(j) /\ j \in due

ClaimJob(w, j) ==
    /\ pc[w] = "look" /\ Claimable(j)
    /\ rows' = [rows EXCEPT ![j] = Claimed(@)]
    /\ Goto(w, "run", j, "none")
    /\ ahead' = [u \in Updates |-> IF Pending(u) THEN ahead[u] + 1 ELSE ahead[u]]
    /\ UNCHANGED <<stamp, arrivals, due, sweeper, bounds, started, ran, lost,
                   recoveries, reopened>>

\* Nothing to do: the loop sleeps and polls again.
NoJob(w) ==
    /\ pc[w] = "look" /\ \A j \in Jobs : ~Claimable(j)
    /\ Goto(w, "poll", NoRow, "none")
    /\ UNCHANGED <<rows, stamp, arrivals, due, sweeper, bounds, past>>

\* The handler runs to its end; a /delete handler has wiped both tables by
\* then, its own row included.  (The vault_purge job it may insert in the same
\* transaction is an EnqueueJob of the next step.)
Handle(w, how) ==
    /\ pc[w] = "run"
    /\ how = "defer" => mine[w] \in Jobs /\ defers < MaxDefers
    /\ Goto(w, "ran", mine[w], how)
    /\ IF mine[w] \in Wipers
       THEN /\ rows' = [r \in Rows |-> Wiped(rows[r])]
            /\ due' = {}
            /\ ran' = {mine[w]}
       ELSE /\ UNCHANGED <<rows, due>>
            /\ ran' = ran \union {mine[w]}
    /\ UNCHANGED <<stamp, arrivals, sweeper, bounds, started, lost, ahead,
                   recoveries, reopened>>

\* touch_job_lock, by the bodies that call it: the claimed job's lease starts
\* afresh, if the row is still (or again) processing.
Touch(w) ==
    /\ pc[w] = "run" /\ mine[w] \in Jobs
    /\ rows' = [rows EXCEPT ![mine[w]] = Touched(@)]
    /\ since' = [since EXCEPT ![w] = 0]
    /\ UNCHANGED <<stamp, arrivals, due, pc, mine, outcome, sweeper, bounds,
                   history>>

Complete(w) ==
    /\ pc[w] = "ran" /\ outcome[w] = "ok"
    /\ rows' = [rows EXCEPT ![mine[w]] = Completed(@)]
    /\ Goto(w, "poll", NoRow, "none")
    /\ UNCHANGED <<stamp, arrivals, due, sweeper, bounds, past>>

Mut_Fail(w) ==        \* seeded fault: after a failed job, the next job before any update
    /\ pc[w] = "ran" /\ outcome[w] = "raise" /\ rows[mine[w]].status # "gone"
    /\ rows' = [rows EXCEPT ![mine[w]] = Failed(@)]
    /\ Goto(w, IF mine[w] \in Jobs THEN "look" ELSE "poll", NoRow, "none")
    /\ UNCHANGED <<stamp, arrivals, due, sweeper, bounds, past>>

\* fail / fail_job; a job abandoned by it owes the user a notice if it is a
\* planner_write.
Fail(w) ==
    LET r == mine[w] IN
    /\ pc[w] = "ran" /\ outcome[w] = "raise" /\ rows[r].status # "gone"
    /\ rows' = [rows EXCEPT ![r] = Failed(@)]
    /\ \/ Goto(w, "poll", NoRow, "none")
       \/ /\ r \in Jobs /\ Failed(rows[r]).status = "failed"
          /\ Goto(w, "notice", NoRow, "none")
    /\ UNCHANGED <<stamp, arrivals, due, sweeper, bounds, past>>

\* The row was wiped: _fail's scalar_one raises inside the except branch, and
\* nothing above it catches.
FailOnWiped(w) ==
    /\ pc[w] = "ran" /\ outcome[w] = "raise" /\ rows[mine[w]].status = "gone"
    /\ Goto(w, "dead", NoRow, "none")
    /\ UNCHANGED <<rows, stamp, arrivals, due, sweeper, bounds, past>>

Defer(w) ==
    LET r == mine[w] IN
    /\ pc[w] = "ran" /\ outcome[w] = "defer"
    /\ rows' = [rows EXCEPT ![r] = Deferred(@)]
    /\ due' = due \ {r}
    /\ defers' = defers + 1
    /\ recoveries' = [recoveries EXCEPT ![r] = 0]
    /\ Goto(w, "poll", NoRow, "none")
    /\ UNCHANGED <<stamp, arrivals, sweeper, crashes, faults, started, ran,
                   lost, ahead, reopened>>

SendNotice(w) ==
    /\ pc[w] = "notice"
    /\ Goto(w, "poll", NoRow, "none")
    /\ UNCHANGED <<rows, stamp, arrivals, due, sweeper, bounds, past>>

-----------------------------------------------------------------------------
(* Errors that no try block holds end the task of the loop they escape      *)
(* from; the heartbeat, in a task of its own, goes on.                      *)

\* The claim, the outcome's statement, record_inbound (updates only: a job's
\* body is inside the try) or the notice's send raises.
ClaimLoopDies(w) ==
    /\ faults < MaxFaults
    /\ \/ pc[w] \in {"poll", "look", "ran", "notice"}
       \/ pc[w] = "run" /\ mine[w] \in Updates
    /\ faults' = faults + 1
    /\ lost' = lost \union ({mine[w]} \ {NoRow})
    /\ Goto(w, "dead", NoRow, "none")
    /\ UNCHANGED <<rows, stamp, arrivals, due, sweeper, crashes, defers,
                   started, ran, ahead, recoveries, reopened>>

SweeperDies(w) ==
    /\ faults < MaxFaults /\ w \in sweeper
    /\ faults' = faults + 1
    /\ sweeper' = sweeper \ {w}
    /\ UNCHANGED <<rows, stamp, arrivals, due, loop, crashes, defers, history>>

\* recover_stuck and recover_stuck_jobs: one UPDATE per table.
Recover(w, table) ==
    /\ w \in sweeper
    /\ \E r \in table : Stuck(rows[r])
    /\ rows' = [r \in Rows |-> IF r \in table THEN Recovered(rows[r]) ELSE rows[r]]
    /\ recoveries' = [r \in Rows |-> IF r \in table /\ Stuck(rows[r])
                                     THEN recoveries[r] + 1 ELSE recoveries[r]]
    /\ reopened' = reopened \union {r \in table : Stuck(rows[r]) /\ r \in Running}
    /\ UNCHANGED <<stamp, arrivals, due, loop, sweeper, bounds, started, ran,
                   lost, ahead, slipped>>

RecoverStuck(w)     == Recover(w, Updates)
RecoverStuckJobs(w) == Recover(w, Jobs)

Crash(w) ==
    /\ crashes < MaxCrashes /\ pc[w] # "down"
    /\ crashes' = crashes + 1
    /\ lost' = lost \union ({mine[w]} \ {NoRow})
    /\ sweeper' = sweeper \ {w}
    /\ Goto(w, "down", NoRow, "none")
    /\ UNCHANGED <<rows, stamp, arrivals, due, faults, defers, started, ran,
                   ahead, recoveries, reopened>>

Mut_Restart(w) ==     \* seeded fault: a restart without the recovery loop
    /\ pc[w] = "down"
    /\ Goto(w, "poll", NoRow, "none")
    /\ UNCHANGED <<rows, stamp, arrivals, due, sweeper, bounds, past>>

\* run_worker: it starts the loops and recovers nothing by itself.
Restart(w) ==
    /\ pc[w] = "down"
    /\ sweeper' = sweeper \union {w}
    /\ Goto(w, "poll", NoRow, "none")
    /\ UNCHANGED <<rows, stamp, arrivals, due, bounds, past>>

-----------------------------------------------------------------------------
Step(w) ==
    \/ \E u \in Updates : ClaimUpdate(w, u)
    \/ NoUpdate(w)
    \/ \E j \in Jobs : ClaimJob(w, j)
    \/ NoJob(w)
    \/ \E how \in {"ok", "raise", "defer"} : Handle(w, how)
    \/ Complete(w) \/ Fail(w) \/ FailOnWiped(w) \/ Defer(w)
    \/ SendNotice(w)

Next ==
    \/ \E u \in Updates : Enqueue(u)
    \/ \E j \in Jobs : EnqueueJob(j, TRUE) \/ EnqueueJob(j, FALSE)
    \/ \E j \in Jobs : BecomesDue(j)
    \/ \E r \in Rows : LeaseAges(r)
    \/ \E w \in Workers : Step(w) \/ Touch(w)
    \/ \E w \in Workers : RecoverStuck(w) \/ RecoverStuckJobs(w)
    \/ \E w \in Workers : ClaimLoopDies(w) \/ SweeperDies(w)
    \/ \E w \in Workers : Crash(w) \/ Restart(w)

Spec == Init /\ [][Next]_vars

\* The claim and recovery loops keep running while they are alive, the
\* platform restarts a process that is down, and time passes.  Nothing
\* restarts a loop that has died inside a live process.
Fairness ==
    /\ \A w \in Workers : /\ WF_vars(Step(w))
                          /\ WF_vars(RecoverStuck(w))
                          /\ WF_vars(RecoverStuckJobs(w))
                          /\ WF_vars(Restart(w))
    /\ \A r \in Rows : WF_vars(LeaseAges(r))
    /\ \A j \in Jobs : WF_vars(BecomesDue(j))

FairSpec == Spec /\ Fairness

-----------------------------------------------------------------------------
(* Properties.                                                              *)

\* The deployment the README asks for: "Keep exactly one replica".
OneReplica == \A w, x \in Workers : w = x

\* What a queue row's history may show: a row that is done or failed is never
\* taken up, retried or re-judged; only the wipe of /delete may touch it.
\* (_complete and _fail key on the id alone, and the recovery sweep runs while
\* a slow handler still holds its row.)
SettledIsFinal ==
    [][\A r \in Rows : rows[r].status \in {"done", "failed"} =>
            rows'[r].status \in {rows[r].status, "gone"}]_vars

\* The same with overlapping processes, where the second verdict may be another
\* process's: only of a row that was made pending again under a live run.
JudgedTwiceOnlyIfReopened ==
    [][\A r \in Rows \ reopened : rows[r].status \in {"done", "failed"} =>
            rows'[r].status \in {rows[r].status, "gone"}]_vars

\* The retry ceiling: fail() counts claims, the recovery sweep does not ask how
\* often a row was claimed, so a row is claimed at most MAX_ATTEMPTS times plus
\* once for each time the sweep brought it back.
AttemptsBounded ==
    \A r \in Rows : rows[r].attempts <= MaxAttempts + recoveries[r]

\* Order of the conversation (worker.py: concurrency 1 "preserves message
\* order"): a later update is begun before an earlier one is settled only when
\* the earlier one's run was cut off and it waits for the recovery sweep.
OvertakenOnlyIfLost ==
    \A u, v \in Updates :
        /\ 0 < stamp[u] /\ stamp[u] < stamp[v]
        /\ v \in started
        /\ rows[u].status \notin Settled
        => u \in lost

\* Updates first: while an update waits to be claimed, at most one job per
\* process is begun, the one the claim loop was already looking for.  (Four or
\* more overlapping processes can exceed that: when two of them run the same
\* reopened update, one may complete it and the other then put it back.)
AtMostOneJobAhead ==
    \A u \in Updates : ahead[u] <= Cardinality(Workers)

\* FOR UPDATE SKIP LOCKED across overlapping processes: two of them run the
\* same row only after it was made pending again under the first one's hands.
SharedOnlyIfReopened ==
    \A w, x \in Workers :
        w # x /\ mine[w] = mine[x] /\ mine[w] # NoRow => mine[w] \in reopened

\* touch_job_lock and STUCK_AFTER: two processes run the same row only after
\* one of its runners let STUCK_AFTER go by since its claim and its last touch,
\* or after /delete freed the id while it was still in use.  As long as a body
\* touches its row in time it runs alone, however long it runs and whatever the
\* other process's sweep does.
AloneWhileTouched ==
    \A w, x \in Workers :
        w # x /\ mine[w] = mine[x] /\ mine[w] # NoRow => mine[w] \in slipped

Open == {r \in Rows : rows[r].status \in {"pending", "processing"}}

\* The queues implement the board: what is inserted is carried out, settled
\* once and for good, and (under Fairness) settled in the end.
Board == INSTANCE TaskBoard WITH
            Tasks   <- Rows,
            open    <- Open,
            carried <- ran,
            settled <- {r \in Rows : rows[r].status \in {"done", "failed"}}

ImplementsBoard == Board!Spec

\* README.md: the worker "drains the queue": an update stored is settled.
EveryUpdateSettles ==
    \A u \in Updates : stamp[u] > 0 ~> rows[u].status \in Settled
=============================================================================
