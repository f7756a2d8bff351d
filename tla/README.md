# Anchor, modelled in TLA+

Anchor is a single-user Telegram and web-chat companion: a persona with memory
and an off-switch, which also writes first, plans, researches and keeps a vault
of notes. One process runs everything beside Postgres. What is hard in it is
not volume but order: every handler is a chain of small commits and sends, a
crash may come between any two of them, what was cut off is run again later,
and the user's last word (a pause, a check-in, a /delete) must win all the same.

These modules model that part of the code, TLC checks them on small instances,
and TLAPS proves theorems of all of them for every instance: the queues, the
conversation turn, the proactive messages, the planner writes and the vault.

## 1. Inventory

| Part | State it keeps | Operations | How it meets the others |
| --- | --- | --- | --- |
| Durable queues (`app/db/queue.py`, `jobs.py`) | tables `telegram_update`, `job`: status, attempts, locked_at, run_after, dedup key | enqueue, claim (`FOR UPDATE SKIP LOCKED`), complete, fail, defer, touch, recover_stuck | filled by webhook, web chat, heartbeat and handlers, drained by the worker |
| Worker loops (`app/worker.py`) | none that survives: the claim, recovery, heartbeat and watchdog tasks of the process | update first, then one job; recover rows older than `STUCK_AFTER` every minute; restart on a hang | calls every handler and job body |
| Conversation turn (`core/turn.py`, `pause.py`, `state.py`, `welfare.py`) | `message` rows (`sent_at`, `ooc`, `kind`), `user_state` (persona_active, intensity), `state_change` audit | run, run_hard_pause, run_resume, run_welfare_turn | enqueues EXTRACT, cancels planned messages |
| Proactive messages (`core/outbound*.py`, `scheduler.py`) | `outbound` rows, `ignored_in_row`, quiet_until | heartbeat and plan, the gate (twice), the send job, cancel_outbound | a job of the queue; revoked by pause, welfare, /quiet, the panel |
| Planner writes (`app/planner/`, `tg/planner.py`) | `planner_action`, rotating OAuth credential, snapshot | card, accept, reject, expire, write job, token rotation, notices, sync | job queue, an external planner, /delete |
| Idle runs (`core/idle/`) | `idle_run`, undo records | plan, run, pre-empt, fail stale, undo | job queue, vault, spend ledger |
| Proposals, orders, obligations, amendments | one pending row each | create (expires the old one), accept, decline | buttons, extraction |
| Memory (`core/memory.py`, `idle/consolidate.py`, the memory panel) | `memory`: facts in chains by `superseded_by` | write (with a scan for near duplicates), supersede, forget a lineage, merge | extraction, panel, vault, idle runs |
| Check-ins, scenes, extraction | scenes, check-in steps | ask, extract, summarise | turn, job queue |
| Research (`app/research/`) | jobs, pages, notes | fetch, distil, sweep, retry | job queue (refreshes its lease) |
| Vault sync (`app/vault/`) | `vault_file` (path, state, hashes, missing_since), `vault_hold`, forgets_window | a pass: manifest, ingest, deletions, follow heads, drop, write, expire holds; `decide` a hold | memory, vaultd, buttons in Telegram |
| vaultd (`vaultd/`) | the files, undo snapshots, prune plans | manifest, get, create-only and compare-and-swap put and delete; undo, prune | HTTP; the user's editor and Obsidian Sync write beside it |
| OAuth and Claude access (`app/web/oauth*.py`, `core/grants.py`) | codes, tokens, connections, write counters | issue, rotate, revoke, limit | web server |
| Retention, /delete, export, backup | all tables | delete by age, wipe, copy | queue rows disappear under a running handler |
| Router, menus, web panels, LLM provider | layout, HTTP, SSE | dispatch, render, call | producers of updates and state writes |

What makes the modelled parts correct, and what a test would hardly reach, is
the list `hazards` of PROJECT.json. The five themes:

* **Interrupted chains.** A run may end between any two commits, or between a
  send and the commit that records it; the row is retried up to
  `MAX_ATTEMPTS` and, after a crash, by the recovery sweep.
* **Order.** One worker at concurrency 1 keeps the conversation in order, but
  a crashed update waits for `STUCK_AFTER` while later ones are handled.
* **Two clocks of knowledge.** The gate is asked when a message is planned,
  when it is sent, and the row once more after the model has answered; the
  panel and the heartbeat write beside the worker.
* **A second owner.** The planner and the user's files change by themselves:
  an answer may be lost after the deed was done, a file may be edited, renamed
  or put back between any two requests of a pass.
* **Overlap.** `_complete` and `_fail` key on the id alone, so a lease that
  expires under a slow run, or a second process during a rollout, can put two
  runs on one row; so can /delete, which gives the ids of wiped jobs out again.

## 2. Modules

`QueueOps` has the statements on one queue row; four modules extend it.
`VaultSync` needs no queue row: a pass is one job, and what a retry adds is the next pass.

| Module | Models | Composes |
| --- | --- | --- |
| `QueueOps` | one row: insert, claim, complete, fail, defer, touch, recover, wipe, as operators on a record | |
| `WorkQueue` | both queues, the loops of one or more processes, leases, crashes, restarts, escaped errors, /delete | `QueueOps`, `TaskBoard` (refinement) |
| `TaskBoard` | what a queue promises: submitted, carried out, settled once, settled in the end | |
| `Turn` | one conversation: the updates of the user through every step of `turn.run`, with one planned message beside it | `QueueOps` |
| `Outbound` | the proactive messages of a day: heartbeat, gate, send job, everything that revokes | `QueueOps` |
| `PlannerWrite` | a write to the planner, from the request to the item: card, action row, job, token, notices, /delete | `QueueOps` |
| `VaultSync` | facts and their files: every step of a sync pass over `memory`, `vault_file` and the disk, with the user, the panel, holds and merges beside it | |
| `QueueOpsProofs` | what the statements on a row preserve | `QueueOps` |
| `WorkQueueProofs` | theorems about `WorkQueue`, and that its steps are `TaskBoard`'s | `WorkQueue`, `QueueOpsProofs` |
| `TurnProofs` | theorems about `Turn` | `Turn`, `QueueOpsProofs` |
| `OutboundProofs` | theorems about `Outbound` | `Outbound`, `QueueOpsProofs` |
| `PlannerWriteProofs` | theorems about `PlannerWrite` | `PlannerWrite`, `QueueOpsProofs` |
| `VaultSyncProofs` | theorems about `VaultSync`: types, rules, what nobody has read | `VaultSync` |
| `VaultTwinsProofs` | one fact never becomes two | `VaultSyncProofs` |
| `MCWorkQueue`, `MCTurn`, `MCOutbound`, `MCPlannerWrite`, `MCVaultSync` | instances for TLC (symmetry sets) | |

### State and actions against the code

**QueueOps / WorkQueue.** A row is `[status, attempts, lease]`. `lease` is the
age of `locked_at` in steps up to `StuckAfter`; the 5 minutes are not counted.
`absent` is a key never inserted and `gone` one that /delete wiped. A wiped key
may come again: an update by redelivery, a job because `TRUNCATE ... RESTART
IDENTITY` restarts the serial, and the process that still runs the old row will
then complete, fail, defer or touch the new one (`HandedOutAgain`). A lease ages
whatever its runner does; only `Touch`, open to the body of any held job, sets
it back. jobs.py says a trial touches its row "comfortably under `STUCK_AFTER`";
that is not assumed: `since` is the time since a process claimed or touched its
row, and a row whose runner let `STUCK_AFTER` go by, or whose id was given out
again, is `slipped` until nobody runs it. `run_after`
is the set `due`; the only order kept is that of updates (`stamp`), since a
job claim may take any due job. A process stands at `pc`: `poll` and `look`
are the two queries of `_claim_loop`, `run` the handler, `ran` its recorded
end, `notice` the message owed for an abandoned planner write, `dead` a loop
whose task ended with an exception, `down` no process. Each action is one
committed statement, so the recovery loop, another process or a crash may come
between any two. What a handler does is one step: it ends, raises, or asks to
be deferred; a wiper empties the tables first. `FailOnWiped` is `_fail`'s
`scalar_one` on a row that is not there.

**Turn.** An update carries one of five `Texts` (`pause.match` and the two
commands decide which). `user`, `reply`, `changes`, `extract` are its rows;
`delivered` counts chunks that reached the chat. `pc` follows `run` step by
step: store the user message, look for an existing reply (`Resume`), branch,
the pause or resume commit, the cancel, generation with the welfare verdict
beside it, the insert, the send chunk by chunk, the mark, the EXTRACT job.
`seen` is the `user_state` read at the start.
An /out or /in may come from the panel's switch, which queues nothing when the
persona already is as it asks (`PressDropped`). A model call answers, fails or
is refused at will, and the verdict of the classifier is arbitrary.

**Outbound.** `outbound`, `message` and `job` are the three rows of an intent.
The worker is one line of control (`pc`, `mine`): it either handles an update
(`Hear`, `Obey`, `Revoke`) or runs a send job (`Claim` to `Complete`).
The heartbeat (`Admit`, then `Plan`) and the panel (`PanelQuiet`, then
`PanelCancel`) interleave with it. `Gate` keeps what is modelled (persona,
quiet, back-off, the day's budget, the nag after the check-in); `Refuse` is
always possible, since quiet hours, wallet, cooldown and gap may refuse too.

**PlannerWrite.** One worker (`pc`, `mine`, `act`) runs either an update (`ask`
to `done`) or a write job (`load` to `close`), one commit, send or request at a
time. `action` is `planner_action` by id; `key` is its `request_key`. `Delete`
empties the tables and restarts the serial, while `cards`, the buttons left in
the chat, stay: that is how an id comes again. The planner is `items` and
`known` (its idempotency index) and `grant`, the refresh token it will take.
Whether the access token is near its expiry is decided when it is asked for,
and so is a card's age when it is pressed (`Accept` or `Expire`). `Arrive`,
`Link` and `UserEndsGrant` are let in only where the worker may see them next;
in between they commute with its steps. `HandlerRaises` shares the bound
of crashes. `Init` starts after one of three lives: none, a card waiting, or a
write followed by /delete with its card left in the chat. `history` is six
variables that only the properties read; `astray` among them has the wishes
whose row was accepted on a card that showed another one (`Misread`).

**VaultSync.** `memory` is the table of facts, `next` its `superseded_by`;
`file` is `vault_file`; a hash stands for the content it is of, so `file[r].disk`
is `disk_sha256` and `file[r].digest` is `render_digest`. A content is the
`anchor_id`, text and kind of the properties, or `Garbled`. `pc` follows a pass
commit by commit and request by request: `StartPass` (the manifest, the rows),
one `Ingest...` action per exit of `ingest_file`, deletions (one commit),
`FollowHeads`, `DropFile` and `DropRow`, `Views`, one `Write...` action per exit
of `_write_fact`, `Record`, `ExpireHolds`. The exits of `ingest_file` for pins and
techniques are left out with them (section 5); its `ignored` exit, a tracked
file that lost `anchor: fact` (kind `other`), is `IngestIgnores`. A rename found there is
not committed by `ingest_file` itself but with the pass's next commit; the model
commits it at once, and cut off before that the code is where it was before the
file's turn.

vaultd's compare-and-swap is two steps, as in `store.py`: the check of the hash
(`Adopt`, `WriteFile`, `DropFile`), then the replace or unlink (`AdoptSwap`,
`WriteSwap`, `DropSwap`), which asks nothing more. The user's client may write
in between, and `Put` records what that loses, as `raced`. A new file is linked, which
does fail if there is one: one step. An unlink that finds nothing is a 500, and
the pass ends (`DropRaises`). An edit is merged field by field against the
version its file was written from (`Base`, `Merged`), so that an old file which
only changes its kind keeps the newer text. Whoever writes a fact in place of another
(`WriteMemory`: the pass, the panel, a rule hold) takes every row of the old fact
to the new one (`Moved`), as `write_memory` does. `seen` is the `memory_id` of a row as
the pass's session holds it: the session does not expire on commit, so a change
made elsewhere is not seen before the next pass. Rows the session has loaded
are written column by column, as SQLAlchemy does. Holds are answered and facts
merged between passes, since they run in the same claim loop; the web panel
(`WebEdit`, `Forget`), the user's editor and a cut-off (`PassStops`) come
between any two steps. A change of a file is let in where the pass looks at
that path next, one of a fact where it reads facts next: elsewhere it commutes.

Variables that a comment calls *history* are read by properties only; they
record which rows were cut off where, so that a property can say exactly which
disturbance excuses what.

### Operators named Mut_

Every module that models code holds a few operators `Mut_X` just before `X`.
They are seeded faults: `X` as a plausible mistake would have it (a dropped
condition, an off-by-one, a missing commit). Nothing refers to them; put in
the place of `X`, each makes the property PROJECT.json pairs it with fail.

## 3. Runs

| Run | Bounds | Shows |
| --- | --- | --- |
| `workqueue_one` | 1 process, 2 updates, 1 job, 1 crash, 2 attempts | order, no starvation of updates, finality, refinement of `TaskBoard` with liveness |
| `workqueue_rollout` | 2 processes, 1 wiping update, 1 job of any kind, `StuckAfter` 2, 1 escaped error, 1 deferral | types, bounded claims, exclusion and one verdict but for rows made pending again, exclusion but for rows let slip |
| `workqueue_wedged` | 1 process, 2 updates, one wipes; no crash, no fault | **violated**: an update that is never handled |
| `turn` | 2 updates of any text, 1 crash, 2 attempts | the off-switch, last word, extraction, voice |
| `turn_alone` | 1 update, 3 attempts, 2 crashes, 2 chunks | answered in full, duplicates owed to cut-off runs, answered in the end |
| `turn_welfare` | 1 update, 1 crash | **violated**: a welfare exchange leaves the story |
| `outbound` | 2 intents (one a nag), budget 2 of which 0 or 1 is used, back-off 1, 2 attempts, 1 update, 1 panel request, 1 crash | delivery, counters, revocation, closing |
| `outbound_nag` | 1 nag, 1 update, 1 crash | **violated**: no nag after the check-in |
| `planner_write` | 2 updates after one of three lives, 2 row ids, 3 request keys, 2 tokens, 2 attempts, 1 crash or raise | one item per wish, nothing called written that is not there, one confirmation, a job for every accepted row, honest notices, the grant, settling |
| `vault_pass` | 2 facts with files, 5 ids of facts and rows, 2 changes of files, 3 events (those, panel, merges, cut-offs), a mass hold from the second file | no unread file lost but by a row without a hash or in vaultd's race, rules only with a yes, twins only where named, and the passes converge |
| `vault_grace` | the same, 3 changes of files, nothing else | **violated**: a file counts as deleted only after the grace |
| `vault_unread` | 2 facts, 3 ids, 1 change of files, 4 events | **violated**: nothing unread is lost, the race apart |

Why these bounds suffice for what they show. The order properties relate two
updates; a third adds no new pair. A conflict over a row needs two processes.
`StuckAfter` = 2 lets a touch come between a claim and the end of the lease, so
that a touch matters. `workqueue_rollout` has no crash: a claim loop that dies of an
escaped error leaves its row as a crash would, and crashes with restarts are
in `workqueue_one`. One job id is enough for a reissued one, since the row that gets
it again is a new job of any kind.
Budget and back-off are crossed by one message more than allowed: with two
intents the back-off binds when the day began empty, the budget when one of its
two places was taken. Every window between two commits is entered by
one crash; `turn_alone` has two, because its history variable counts. One
update in `outbound` may pause, resume, set or end a quiet period, check in or
just talk, and the panel adds a second wish beside a running job.
In `planner_write` two updates are a request and its button, a button and a
/delete, or two buttons; the life before them supplies the third, and two ids
of which one comes again after /delete are what a collision needs. In
`vault_pass` two events make every pair (an edit and a correction, a removal
and a merge, a rename and a cut-off) and a third is left for a cut-off; five
ids may be used up, but a pass is never blocked by them: in every reachable
state of a pass some step of it is enabled. `Texts` has a third text that neither fact has, and typing the other
fact's text is what makes a duplicate.
Two attempts give every retry; the third of the code (`MAX_ATTEMPTS` = 3) is
in `turn_alone`.

Deadlock is checked except in `workqueue_rollout` and `workqueue_wedged` (a
process whose claim loop has died waits for ever once deliveries are used up),
`outbound` and `outbound_nag` (the user has stopped writing, the day's messages are closed),
`planner_write` (the user has stopped writing) and `vault_pass`, `vault_grace` and
`vault_unread` (a hold may wait for ever).

### Fairness

* `WorkQueue`: weak fairness of the claim loop, the two recovery statements,
  restart, ageing leases and jobs becoming due. The loops sleep and go on; the
  platform restarts the process (the watchdog ends it with `os._exit`). There
  is none for a loop that died inside a live process, because nothing
  restarts it, and none for arrivals, crashes or errors.
* `Turn`: the worker and the sweep. `Outbound`: the worker's steps after a
  claim or an update and the sweep. Claiming a job is one of them: updates go
  first, so a job gets its turn because the user stops writing, which the
  bound `MaxUpdates` says. The heartbeat and the panel are not fair.
* `PlannerWrite`: the worker and the two recovery statements, as in `Turn`.
  Nobody has to write, press, link or answer; the planner may fail every call.
* `VaultSync`: the pass as a whole (`WF_vars(Pass)`): the heartbeat queues one
  every minute and the worker runs it to an end. The user, the panel, holds and
  the clock are not fair, so `VaultFollows` says what the passes reach once the
  bounded events are over, whatever holds are left unanswered.

### What the violations say

1. **A /delete that fails late stops the bot.** `delete_everything` empties
   `telegram_update`, the row of the /delete included. If the handler raises
   after that (its last `edit_keyboard`), `_fail` finds no row, the exception
   leaves `process_one_update`, and `_claim_loop` has no `except`. The
   heartbeat goes on, so the watchdog is content.
2. **A welfare message stays in the story.** `run_welfare_turn` commits
   persona-off first; cut off there, the replay finds the persona off, skips
   the classifier and never retags the message.
3. **A redundant nag.** A stored text is sent again with no look at the gate.
4. **A grace period that is not one.** `process_deletions` stamps
   `missing_since` when a file is first missing, and nothing clears it when the
   file is back under its name. Obsidian Sync taking a file away for a
   minute in March makes the next minute's absence, in May, a deletion: the
   fact is forgotten at that pass (of a sync client that is warm, which is the
   only one whose manifest counts).
5. **A file deleted unread.** A pass creates a fact's file and is cut off before
   it records the hash; the fact is forgotten; the user edits the file. The next
   pass deletes it, since the delete expects `row.disk_sha256 or entry.sha256`
   and the manifest's own hash always agrees. The module's contract has no such
   exception. The proof brought it out, by asking what a row without a hash may
   do; it takes one event more than `vault_pass` allows, whose
   `LostOnlyIfUnrecordedOrRaced` excuses that case and the race of vaultd.
   `NeverLost` excuses the race alone: the violation is not that one.

What the passing properties excuse is behaviour too, and worth knowing. In the
conversation, a reply is sent before its mark, so a crash there sends it twice
(`OneReplyUnlessCut`; the phase 1 acceptance list asks for one). Step 2 of `run`
stays before any mutation, but stops only replays that already have a reply row,
so a crash between the commit of the state and that row writes a second
`state_change` row (why `AnsweredReplayIsInert` says answered). The panel's
switch drops a press that finds the persona as it asks, though a queued command
may be about to change that: /out and at once the panel's "on" ends with the
persona off (`crossed` in `LastWordWins`). In the planner, a card's button
names a row by its id alone and /delete gives ids again: an old card pressed
later accepts whatever row has its id now. A crash before an update is marked
leaves a second row for it, without a card, and such a press can accept that
one as well: two items for one wish. `OneItemPerWish` and
`NoticeWrongOnlyIfUnheard` say `astray` for it. Two updates reach the stray
press but not the second item, for which three are needed; it was the proof,
which holds for every number of updates, that brought it out. In the vault:

* `LostOnlyIfUnrecordedOrRaced`: vaultd checks a hash and replaces or unlinks in
  another system call; `ob` is another process, and its write in between is
  lost unread. `store.py:20-24`, README.md:969-971 and docs/decisions.md:1144-1151
  record this of the replace, microseconds wide; the unlink of
  `delete_unchecked` has the same window.
* `TwinsOnlyIfCrossed`: a correction from the panel under a running pass, or a
  merge made before it, is overtaken by an edit of the same file: the pass goes
  by the `memory_id` it read, and two active facts stem from one.
* `Wedged` in `VaultFollows`: a correction between `_follow_heads` and
  `_fact_views` gives a fact a second row. A copy or a rename of its file then makes
  `scalar_one_or_none` raise, in that pass and in every later one, until the
  file is gone.
* `Gone`: a forgotten fact's file, edited before its row was dropped, is never
  deleted: the hash the delete expects is not recorded again.
* `Shown`: a tracked file whose header no longer says `anchor: fact` is ignored
  by every pass: its hash is not recorded, so the fact's later changes are not
  rendered over it, and a /forget does not delete it (`Gone`). When it was
  renamed with that edit, its row follows it (ingest.py:269) although the
  pass does not count a rename, so the deletions of that pass still see the row
  as missing. An older version the user puts back reads as no change and is not
  rendered over; a row to be restored stays so when the user has put the file
  back himself; a file whose text is as it was but whose `anchor_id` went is
  taken as it is.

## 4. Theorems

### The queues (`WorkQueueProofs`)

For every finite set of processes, every set of updates and jobs and every bound:

| Theorem | States | Rests on |
| --- | --- | --- |
| `TypeCorrect` | `Spec => []TypeOK` | `Holding`: a process holds a row exactly while it runs or records it |
| `RetriesAreBounded` | `Spec => []AttemptsBounded` | `Budget`: a pending row has a claim left |
| `Exclusion` | `Spec => []SharedOnlyIfReopened` | `Guarded`: a held row that was not reopened is not pending |
| `SettledForGood` | `OneReplica`: `Spec => SettledIsFinal` | `Unsettled`: what a process holds is not yet judged |
| `OrderPreserved` | `OneReplica`: `Spec => []OvertakenOnlyIfLost` | `Accounted`, `Stamped`: a processing update nobody holds was lost; stamps are distinct and follow arrival |
| `LeaseExcludes` | `Spec => []AloneWhileTouched` | `Gripped`: a held row that has not slipped is processing, and its lease is as old as its one runner's claim or last touch |
| `JudgedOnce` | `Spec => JudgedTwiceOnlyIfReopened` | `Live`: whoever holds a judged row, it was reopened |
| `FewJobsAhead` | an update that was not reopened waits for at most one job per process | `Room`, `Live` |
| `JobsGiveWay` | `OneReplica`: `Spec => []AtMostOneJobAhead` | `Room`, `Unsettled` |
| `QueuesFollowBoard` | `OneReplica`, `Wipers = {}`: `Spec => Board!Steps` | `Unsettled`, `Live`, `Kept` |

None of the properties is inductive alone. `AttemptsBounded` says nothing of
whether a pending row may be claimed once more; `Budget` does, and `Failed`
and `Recovered` are where it is earned. `SharedOnlyIfReopened` needs to know
that a held row cannot be claimed, hence `Guarded`, which in turn needs
`Holding`. Finality needs that `_complete` and `_fail` are only reached for a
row still open, which fails as soon as two processes share one: hence
`OneReplica`, the deployment the repository's README asks for, as an explicit
hypothesis of `SettledForGood`. `JudgedOnce` says what is left without it: a
second verdict is given only on a row made pending again under a live run. For
`LeaseExcludes`, as long as a row has not slipped its lease is its one runner's own
clock (`Gripped`), so the sweep, which reads nothing but `locked_at`, takes it
only when that clock has run out; how slow a body is, and whether it touches its
row, is left open. Order adds the reason an unsettled earlier update is not
pending: it was claimed, and if nobody holds it, its run was lost.

Updates first is a count: the jobs begun since an update became pending, and the
processes between their two queries that may still begin one, are together no
more than the processes (`Room`). The invariant as first written,
`AtMostOneJobAhead` for any number of processes, is false, and its proof failed
where it should: with four of them, two may run one reopened update, the one
completes it, the other puts it back, and the count goes on. `FewJobsAhead` is
what holds of overlapping processes, `JobsGiveWay` what holds of one.

`QueuesFollowBoard` is the safety half of the refinement that `workqueue_one`
checks: under the mapping `Board`, the queues' first state is one of `TaskBoard`
and each step is one of its steps or none (`BoardNext`, one case per action). Its
`Wipers = {}` is needed: a wipe takes rows away, and the board forgets nothing.

### The conversation (`TurnProofs`)

For every set of updates, every number of chunks, attempts and crashes:

| Theorem | States | Rests on |
| --- | --- | --- |
| `TurnTyped` | `Spec => []TypeOK` | `AtHand`: the run's update is claimed |
| `DoneMeansAnswered` | `Spec => []AnsweredWhenDone` | `Placed`, `Answered` |
| `OneReply` | `Spec => []OneReplyUnlessCut` | `Placed`, `Ledger` |
| `ReplayIsInert` | `Spec => AnsweredReplayIsInert` | `Placed` |
| `PauseGoesThrough` | `Spec => []PauseCarriedThrough` | `Carried` |
| `PausedRevokes` | `Spec => []PausedMeansRevoked` | inductive beside `Typed` |
| `TheLastWordWins` | `Spec => []LastWordWins` | `Stamped`, `Ordered`, `LastMove` |
| `VoiceNeedsPersona` | `Spec => PersonaSpeaksOnlyWhileActive` | `Placed` |
| `ExtractedInCharacter` | `Spec => []ExtractedIffInCharacter` | `Voiced`, `Ordered` |

`Placed` is what a line of `run` may take for granted: whether there is a reply
row yet, whether it is sent, which texts get this far, and that the persona has
not moved since step 0 read it, since only the run at hand moves it. `Ledger`
counts: each delivery of a chunk is on record, about to be recorded, or owed to a
run that was cut off. `Carried` is that a command which is answered has moved the
persona and cancelled what was planned, in that order, whichever run of it did
which.

The last word needs the order of arrival. `LastWordWins` speaks of a moment with
nothing left to handle, so it is not inductive; `LastMove` says of every moment
that the persona is as the latest of the updates that have moved it left it.
For that to survive the next move, that one must have come later: no update is
begun before an earlier one unless a crash put the earlier one back (`Ordered`),
and a press the panel dropped had nothing before it that would undo it. It is
the dropped press, which has no row and no turn in the queue, that makes
`Stamped` number arrivals rather than rows.

A line is extracted exactly when it was said in character: `Voiced` ties the
voice of a stored reply to the persona its run read and the tag of the user's
line to the voice, with crashes as the way a replay may find another persona.

### Proactive messages (`OutboundProofs`)

For every finite set of intents, every limit and every bound:

| Theorem | States | Rests on |
| --- | --- | --- |
| `OutboundTyped` | `Spec => []TypeOK` | `Holding`: an intent is at hand exactly while a send job runs |
| `DeliveredOnce` | `Spec => []DeliveredOnceUnlessCut` | `Known`, `Ledger` |
| `NeverReplanned` | `Spec => ClosedStaysClosed` | `Known` |
| `CancelledIsSilent` | `Spec => CancelledStaysSilent` | `Known` |
| `BackOff` | `Spec => []BackOffKept` | `Admitted`, `Answered` |
| `PauseIsSilence` | `Spec => PausedMeansSilent` | `Admitted`, `Halting` |
| `DailyBudget` | `Spec => []DailyBudgetKept` | `Known`, `Budget` |

`Known` ties the worker's place to its rows: no message is stored before the
store step, it is stored and unsent until `_finish`, and a row read as planned
can only have become cancelled. With it a delivery is either on record, about
to be recorded, or its run was cut off (`Ledger`). The back-off follows
because the gate's verdict is still true when a new text goes out
(`Admitted`: only the worker moves `persona_active` and `ignored_in_row`, and
it is busy), and because the counter is behind the truth by one message at
most, the one between send and count (`Answered`). The budget is counted over
rows that passed the gate (`Fresh`); the place the gate saw free is still free
at `_finish`, since one worker sends one message at a time. A pause is silent
because it either cancelled everything planned or was itself cut off
(`Halting`).

### Planner writes (`PlannerWriteProofs`)

For every number of updates, rows, keys, tokens, crashes and attempts:

| Theorem | States | Rests on |
| --- | --- | --- |
| `PlannerTyped` | `Spec => []TypeOK` | `AtHand`: which update and which row the worker has, by where it stands |
| `GrantKept` | `Spec => []GrantLostOnlyIfCut` | `Linked`: a stored token is the one the planner will take, or spent |
| `AcceptedIsQueued` | `Spec => []AcceptedHasJob` | `Placed`, `JobsFollow` |
| `OneConfirmation` | `Spec => []ConfirmedOnce` | `Numbered`, `Queued`, `Once` |
| `WrittenIsInPlanner` | `Spec => []WrittenIsThere` | `Queued`, `There` |
| `OneItem` | `Spec => []OneItemPerWish` | `There`, `Desk`, `Carded`, `Single` |
| `HonestNotice` | `Spec => []NoticeWrongOnlyIfUnheard` | all of these, `Heard`, `Honest` |

The invariants follow a request outward. `Placed` reads the row's status off the
writer's place; with `JobsFollow` (no job before its row is accepted) an accept
always finds its dedup key free, so the job it enqueues is really inserted.
`Numbered` (ids in order, keys never twice, nothing known of a key not yet given)
is what /delete must not break: it empties the rows and the serial but
not `minted`. A write is confirmed once because a confirmed key's row is on
record and its job is past the confirmation (`Once`).

One item per wish needs the whole path. `Desk`: what the handler of an update
knows of it. `Carded`: an update is marked before its card goes out, so there is
one card per wish, and what was accepted was accepted by its own card or is
astray. `Single`: a wish that was served was served under the key of the one row
its card names, so a second call is answered from the planner's index. The
notice is honest because a key the planner knows is on record, about to be
recorded, or its answer was not heard (`Heard`), and a wish that was denied has
no row left that could serve it (`Honest`).

### The vault (`VaultSyncProofs`, `VaultTwinsProofs`)

For every number of facts, rows, changes of files and events:

| Theorem | States | Rests on |
| --- | --- | --- |
| `SyncTyped` | `Spec => []TypeOK` | `Sound` |
| `RulesNeedAYes` | `Spec => []RuleOnlyAgreed` | `Sound` |
| `UnreadIsKept` | `Spec => []LostOnlyIfUnrecordedOrRaced` | `Sound`, `Unseen` |
| `TwinsNeedACrossing` | `Spec => []TwinsOnlyIfCrossed` | `Sound`, `Led` |

`Sound` is what a pass may rely on between its commits: ids in order (`Numbered`),
one row for a path (`OneRow`), whoever the user is asked about waits (`Asked`), a
file found missing stays so until the deletions are settled (`Reading`), and a row
about to be dropped or recorded is one that may be (`Dropping`, `Writing`). Facts
form chains (`Chained`). `Head` follows one by a recursive function, and what such a
function returns would need induction; the invariant instead says that some function
`h` satisfies its equation (`Leads`) and that no set of facts is closed under
`next` (`Rooted`), both of which a step carries over by writing the new `h` down. That a least
or greatest row exists, where the code sorts, follows from the library's theorem
on well-founded orders.

`Unseen` says of unread content that no row may overwrite or delete it: a row at its
path whose hash is that of the content itself waits for the user (`Calm`), and
between adopting and recording a file it has been read. So a write or delete
that still finds the content whose hash it names loses nothing unread, unless
its row has no hash, which `vault_unread` shows to be real. If it finds another
content, that came after vaultd's check: the race. Nothing is assumed of how wide it is.

Two facts stem from one only if somebody superseded a fact that no longer led. So
`Led` follows all who may: the rows' `memory_id`, the session's copy (`seen`) and
the views about to be written. Each is active or was crossed (`Behind`): moved on
by the panel under a pass, or by a merge.

### Assumptions, and what is only model-checked

Assumptions of all theorems: `QueueAssumption`, `ConstantsAssumption`,
`TurnAssumption`, `OutboundAssumption`, `PlannerAssumption` and `VaultAssumption`
(typing of the constants, disjoint row sets, finitely many processes and intents,
at least one id and one key), evaluated by TLC in the runs. `OneReplica` and
`Wipers = {}` are hypotheses of the theorems that say so.

Every invariant and action property a passing run checks is a theorem. Only
model-checked are `EveryUpdateAnswered`, `EveryPlanCloses`, `AcceptedWritesSettle`
and `VaultFollows`, and of `ImplementsBoard` its liveness half and the case of a
wipe: fairness is out of the prover's reach.

## 5. What is left out, and why

* `Turn`: the check-in and standing-order notes (step 0c), `send_command_reply`,
  the intent card, scenes and the spend ledger; they add rows beside a turn but
  no branch to the properties here. Buttons on the welfare reply are not
  told from plain text.
* `Outbound`: the decision job of `tick`, the weekly review's analysis and its
  follow-up, quiet hours and gaps (in `Refuse`), the wallet, message content.
* `Turn` and `Outbound` have one process; overlap is `WorkQueue`'s subject.
* The intensity set in the web panel beside a turn.
* `PlannerWrite`: the PLANNER_SYNC job (its request is one step, `sync`), cards
  made from chat (`turn.py`; the same row and card, from another handler),
  /planner on and off, the second try with a new MCP session after a 400 or
  404, the snapshot's content, and parsing (`AskRefused` may always happen).
* `VaultSync`: mirror mode, the journal and notes and reports, epochs, orphaned
  files and what /delete does to the vault, pins, techniques and
  `FORGET_PROTECTED`, the write budget, and files that are not looked at. Of
  vaultd: undo, prune, the knowledge index.
* Everything listed `not_modelled` in PROJECT.json, with its reason.

## 6. Plan

Done: `QueueOps`, `WorkQueue` with `TaskBoard`, `Turn`, `Outbound`,
`PlannerWrite`, `VaultSync`, and a module of proofs for each (two for the
vault). Next, in order:

1. The refinement of `TaskBoard` with wipes: a board whose tasks may be withdrawn.
2. The panel's intensity as an action of `Turn`; steps after `complete_job` in
   `WorkQueue`, with their theorems.
3. `IdleRun` (reserve, pre-empt, fail stale, finish).
4. `VaultSync`: mirror mode and orphans; the epoch that /delete begins.
