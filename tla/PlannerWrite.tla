---------------------------- MODULE PlannerWrite ----------------------------
(***************************************************************************)
(* A write to the external planner, from the request to the item: the     *)
(* card and the tap (app/tg/router.py, app/tg/planner.py), the row that   *)
(* gates it (app/planner/actions.py), the planner_write job               *)
(* (app/planner/jobs.py) under its queue row, the client's call           *)
(* (client.py) and the rotating grant (auth.py).  One worker runs updates *)
(* and jobs one at a time; it may crash between any two commits, sends or *)
(* requests.  The user links the planner in a browser and may end the     *)
(* grant there; the planner's answers get lost.                           *)
(*                                                                         *)
(* /delete empties the tables and restarts the serial of planner_action,  *)
(* so row ids come again while the cards in the chat stay.                 *)
(***************************************************************************)
EXTENDS QueueOps, FiniteSets

CONSTANTS
    MaxInputs,   \* bound: updates of the user
    MaxIds,      \* bound: rows of planner_action between two wipes
    MaxKeys,     \* bound: rows of planner_action ever created
    MaxTokens,   \* bound: refresh tokens ever issued
    MaxCrashes   \* bound: process crashes and handlers that raise

ASSUME PlannerAssumption ==
    /\ MaxInputs \in Nat /\ MaxIds \in Nat /\ MaxKeys \in Nat
    /\ MaxTokens \in Nat /\ MaxCrashes \in Nat
    /\ MaxIds > 0 /\ MaxKeys > 0

Inputs == 1..MaxInputs     \* updates, in the order of their arrival
Ids    == 1..MaxIds
Keys   == 1..MaxKeys       \* request_key, a uuid: never given twice
List   == 0                \* the message of one /done list, with one task's button
Past   == MaxInputs + 1    \* the one /task of before
Wishes == 0..(MaxInputs + 1)     \* what an item is for

VARIABLES
    action,     \* planner_action by id, NoAction where there is no row
    lastId,     \* the serial: the last id given
    minted,     \* request keys given so far
    job,        \* the planner_write job of each id (its dedup key)
    cred,       \* planner_credential
    said,       \* what each update asks
    inbox,      \* its row of telegram_update
    handled,    \* updates with a message row (mark_update_handled)
    cards,      \* confirm cards whose buttons are still in the chat
    listed,     \* the /done list still has its button
    items,      \* the planner: items by wish
    known,      \* the planner: clientRequestIds it has answered
    grant,      \* the planner: the refresh token it will take, 0 if none
    tokens,     \* refresh tokens issued so far
    pc, mine,   \* where the worker stands, and the update or job it runs
    act,        \* the id of the planner_action at hand
    again,      \* the call has been answered 401 once
    crashes,    \* the bounded events so far
    confirmed,  \* history: how often each key's write was confirmed
    stranded,   \* history: keys whose job was failed, cut off before mark_failed
    unheard,    \* history: wishes the planner served with the answer lost
    denied,     \* history: wishes the user was told were not written
    spent,      \* history: refresh tokens ended by the user, or used up by a
                \* rotation whose answer was lost or not committed
    astray      \* history: wishes accepted on a card that showed another one

serial  == <<lastId, minted>>
tables  == <<action, serial, job, handled>>
input   == <<said, inbox>>
chat    == <<cards, listed>>
planner == <<items, known, grant, tokens>>
loop    == <<pc, mine, act, again>>
others  == <<cred, input, chat, planner, crashes>>
ledger  == <<confirmed, stranded, unheard, denied, spent>>
history == <<ledger, astray>>
outside == <<others, history>>
vars == <<tables, cred, input, chat, planner, loop, crashes, history>>

NoAction == [status |-> "none"]

ActionStatuses == {"pending", "accepted", "rejected", "expired", "written", "failed"}

Action == [status : ActionStatuses, wish : Wishes, key : Keys,
           kind : {"create", "complete"}, stamped : BOOLEAN]

Card == [id : Ids, wish : Wishes]

\* ask: /task or /event; yes, no: a card's buttons; tap: the /done button;
\* delete: a confirmed /delete.
Input == [do : {"yes", "no"}, card : Card]
         \union [do : {"none", "ask", "tap", "delete"}]

NoToken == [status |-> "none", notified |-> FALSE, refresh |-> 0]

\* Whether the access token is near its expiry is decided when it is asked for.
Credential == [status : {"none", "active", "revoked"}, notified : BOOLEAN,
               refresh : 0..MaxTokens]

HandlerPCs == {"ask", "mark", "card", "yes", "no", "tap", "stamp", "accept",
               "edit", "delete", "done"}

WriterPCs == {"load", "token", "call", "landed", "sync", "confirm", "close",
              "raise", "abandon", "sorry", "denied", "warn", "tell"}

PCs == {"idle"} \union HandlerPCs \union WriterPCs

TypeOK ==
    /\ action \in [Ids -> Action \union {NoAction}]
    /\ lastId \in 0..MaxIds /\ minted \in 0..MaxKeys
    /\ job \in [Ids -> Row]
    /\ cred \in Credential
    /\ said \in [Inputs -> Input] /\ inbox \in [Inputs -> Row]
    /\ handled \subseteq Inputs
    /\ cards \subseteq Card /\ listed \in BOOLEAN
    /\ items \in [Wishes -> Nat] /\ known \subseteq Keys
    /\ grant \in 0..MaxTokens /\ tokens \in 0..MaxTokens
    /\ pc \in PCs /\ mine \in Nat /\ act \in Ids \union {0} /\ again \in BOOLEAN
    /\ crashes \in Nat
    /\ confirmed \in [Keys -> Nat]
    /\ stranded \subseteq Keys
    /\ unheard \subseteq Wishes /\ denied \subseteq Wishes
    /\ spent \subseteq 0..MaxTokens
    /\ astray \subseteq Wishes

\* The life before: none; or one /task whose card waits for an answer; or one
\* whose item was written before a /delete, which leaves its card in the chat.
Init ==
    /\ \E before \in {"none", "asked", "wiped"} :
        /\ action = [a \in Ids |-> IF a = 1 /\ before = "asked"
                THEN [status |-> "pending", wish |-> Past, key |-> 1,
                      kind |-> "create", stamped |-> FALSE]
                ELSE NoAction]
        /\ lastId = (IF before = "asked" THEN 1 ELSE 0)
        /\ minted = (IF before = "none" THEN 0 ELSE 1)
        /\ cards = (IF before = "none" THEN {} ELSE {[id |-> 1, wish |-> Past]})
        /\ items = [w \in Wishes |-> IF w = Past /\ before = "wiped" THEN 1 ELSE 0]
        /\ known = (IF before = "wiped" THEN {1} ELSE {})
    /\ job = [a \in Ids |-> AbsentRow]
    /\ cred = NoToken
    /\ said = [i \in Inputs |-> [do |-> "none"]]
    /\ inbox = [i \in Inputs |-> AbsentRow]
    /\ handled = {} /\ listed = TRUE
    /\ grant = 0 /\ tokens = 0
    /\ pc = "idle" /\ mine = 0 /\ act = 0 /\ again = FALSE
    /\ crashes = 0
    /\ confirmed = [k \in Keys |-> 0]
    /\ stranded = {} /\ unheard = {} /\ denied = {} /\ spent = {}
    /\ astray = {}

-----------------------------------------------------------------------------
Goto(where) == pc' = where /\ UNCHANGED <<mine, act, again>>

Found(a, status) == a \in Ids /\ action[a].status = status

-----------------------------------------------------------------------------
(* The user: updates through the queue, the planner in the browser.         *)

Offers == [do : {"ask", "delete"}]
          \union [do : {"yes", "no"}, card : cards]
          \union [do : IF listed THEN {"tap"} ELSE {}]

\* What happens beside the worker is let in where the worker may see it next:
\* an arrival before a claim, before the buttons go and before the wipe, ...
Arrive(i) ==
    /\ pc \in {"idle", "edit", "delete"} /\ inbox[i].status = "absent"
    /\ \A k \in Inputs : k < i => inbox[k].status # "absent"
    /\ inbox' = [inbox EXCEPT ![i] = Inserted(@)]
    /\ \E what \in Offers : said' = [said EXCEPT ![i] = what]
    /\ UNCHANGED <<tables, cred, chat, planner, loop, crashes, history>>

\* ... the browser's part where the credential is read.
LooksAtGrant == pc \in {"token", "sync", "warn"}

\* complete_link -> _store_tokens; /planner_link is refused while linked.
Link ==
    /\ LooksAtGrant /\ cred.status # "active" /\ tokens < MaxTokens
    /\ tokens' = tokens + 1 /\ grant' = tokens + 1
    /\ cred' = [status |-> "active", notified |-> FALSE, refresh |-> tokens + 1]
    /\ UNCHANGED <<tables, input, chat, items, known, loop, crashes, history>>

UserEndsGrant ==
    /\ LooksAtGrant /\ grant # 0
    /\ grant' = 0
    /\ spent' = spent \union {grant}
    /\ UNCHANGED <<tables, cred, input, chat, items, known, tokens, loop, crashes,
                   confirmed, stranded, unheard, denied, astray>>

-----------------------------------------------------------------------------
(* Updates.                                                                 *)

Claim(i) ==
    /\ pc = "idle" /\ inbox[i].status = "pending"
    /\ \A k \in Inputs : k < i => inbox[k].status # "pending"
    /\ inbox' = [inbox EXCEPT ![i] = Claimed(@)]
    /\ pc' = said[i].do /\ mine' = i /\ act' = 0 /\ again' = FALSE
    /\ UNCHANGED <<tables, cred, said, chat, planner, crashes, history>>

\* planner_actions.create: a row of its own, with a request key of its own.
Create(kind, wish) ==
    /\ lastId < MaxIds /\ minted < MaxKeys
    /\ lastId' = lastId + 1 /\ minted' = minted + 1
    /\ action' = [action EXCEPT ![lastId + 1] =
            [status |-> "pending", wish |-> wish, key |-> minted + 1, kind |-> kind,
             stamped |-> FALSE]]
    /\ act' = lastId + 1

\* _handle_write_command on a replay: the update is already marked.
AskReplayed ==
    /\ pc = "ask" /\ mine \in handled
    /\ Goto("done")
    /\ UNCHANGED <<tables, outside>>

\* The day's cap is reached or the text does not parse: a reply, no row.
AskRefused ==
    /\ pc = "ask" /\ mine \notin handled
    /\ Goto("mark")
    /\ UNCHANGED <<tables, outside>>

CreateAsk ==
    /\ pc = "ask" /\ mine \notin handled
    /\ Create("create", mine)
    /\ pc' = "mark"
    /\ UNCHANGED <<job, handled, outside, mine, again>>

MarkHandled ==
    /\ pc = "mark"
    /\ handled' = handled \union {mine}
    /\ Goto(IF act = 0 THEN "done" ELSE "card")
    /\ UNCHANGED <<action, serial, job, outside>>

\* send_confirm_card; the message id it stores afterwards is only ever looked
\* up for a /done list, so it is not kept.
SendCard ==
    /\ pc = "card"
    /\ cards' = IF Found(act, "pending")
                THEN cards \union {[id |-> act, wish |-> action[act].wish]} ELSE cards
    /\ Goto("done")
    /\ UNCHANGED <<tables, cred, input, listed, planner, crashes, history>>

\* accept: the status and the job in one commit; nothing unless pending.
Accept(a) ==
    /\ IF Found(a, "pending")
       THEN /\ action' = [action EXCEPT ![a].status = "accepted"]
            /\ job' = [job EXCEPT ![a] = Inserted(@)]
       ELSE UNCHANGED <<action, job>>
    /\ UNCHANGED <<serial, handled>>

\* accept of a card older than PLANNER_PENDING_TTL_HOURS.
Expire(a) ==
    /\ Found(a, "pending")
    /\ action' = [action EXCEPT ![a].status = "expired"]
    /\ UNCHANGED <<serial, job, handled>>

Mut_Reject(a) ==      \* seeded fault: the word a proposal uses
    /\ action' = IF Found(a, "pending")
                 THEN [action EXCEPT ![a].status = "declined"] ELSE action
    /\ UNCHANGED <<serial, job, handled>>

Reject(a) ==
    /\ action' = IF Found(a, "pending")
                 THEN [action EXCEPT ![a].status = "rejected"] ELSE action
    /\ UNCHANGED <<serial, job, handled>>

\* The wish a press decides on, if the card showed another one.
Misread(card) ==
    IF Found(card.id, "pending") THEN {action[card.id].wish} \ {card.wish} ELSE {}

\* handle_confirm_callback: it goes by the id in the button alone.
Press ==
    /\ LET card == said[mine].card IN
           \/ pc = "yes" /\ Accept(card.id) /\ astray' = astray \union Misread(card)
           \/ pc = "yes" /\ Expire(card.id) /\ UNCHANGED astray
           \/ pc = "no" /\ Reject(card.id) /\ UNCHANGED astray
    /\ Goto("edit")
    /\ UNCHANGED <<others, ledger>>

\* handle_done_callback: a list message that already has its action is not
\* acted on again.
TapKnown ==
    /\ pc = "tap" /\ \E a \in Ids : action[a] # NoAction /\ action[a].stamped
    /\ Goto("edit")
    /\ UNCHANGED <<tables, outside>>

TapRefused ==
    /\ pc = "tap" /\ \A a \in Ids : action[a] # NoAction => ~action[a].stamped
    /\ Goto("edit")
    /\ UNCHANGED <<tables, outside>>

CreateTap ==
    /\ pc = "tap" /\ \A a \in Ids : action[a] # NoAction => ~action[a].stamped
    /\ Create("complete", List)
    /\ pc' = "stamp"
    /\ UNCHANGED <<job, handled, outside, mine, again>>

\* set_message_id.
StampTap ==
    /\ pc = "stamp"
    /\ action' = [action EXCEPT ![act].stamped = TRUE]
    /\ Goto("accept")
    /\ UNCHANGED <<serial, job, handled, outside>>

AcceptTap ==
    /\ pc = "accept"
    /\ Accept(act)
    /\ Goto("edit")
    /\ UNCHANGED <<outside>>

\* edit_keyboard takes the buttons away.
Edit ==
    /\ pc = "edit"
    /\ IF said[mine].do = "tap"
       THEN listed' = FALSE /\ UNCHANGED cards
       ELSE cards' = cards \ {said[mine].card} /\ UNCHANGED listed
    /\ Goto("done")
    /\ UNCHANGED <<tables, cred, input, planner, crashes, history>>

\* Every ordinary turn (the one message whose queue row is not followed here)
\* runs expire_stale: the pending rows up to some age.
ExpireStale(last) ==
    /\ pc = "idle" /\ \E a \in 1..last : Found(a, "pending")
    /\ action' = [a \in Ids |-> IF Found(a, "pending") /\ a <= last
                                THEN [action[a] EXCEPT !.status = "expired"]
                                ELSE action[a]]
    /\ UNCHANGED <<serial, job, handled, cred, input, chat, planner, loop,
                   crashes, history>>

\* delete_everything: one transaction, the serial restarts.
Delete ==
    /\ pc = "delete"
    /\ action' = [a \in Ids |-> NoAction] /\ lastId' = 0
    /\ job' = [a \in Ids |-> Wiped(job[a])]
    /\ inbox' = [i \in Inputs |-> Wiped(inbox[i])]
    /\ handled' = {} /\ cred' = NoToken
    /\ Goto("done")
    /\ UNCHANGED <<minted, said, chat, planner, crashes, history>>

Finish ==
    /\ pc = "done"
    /\ inbox' = [inbox EXCEPT ![mine] = Completed(@)]
    /\ Goto("idle")
    /\ UNCHANGED <<tables, cred, said, chat, planner, crashes, history>>

HandlerRaises ==
    /\ pc \in HandlerPCs \ {"done"} /\ crashes < MaxCrashes
    /\ crashes' = crashes + 1
    /\ inbox' = [inbox EXCEPT ![mine] = Failed(@)]
    /\ Goto("idle")
    /\ UNCHANGED <<tables, cred, said, chat, planner, history>>

-----------------------------------------------------------------------------
(* The write job.                                                           *)

\* Updates go first.
ClaimWrite(a) ==
    /\ pc = "idle" /\ job[a].status = "pending"
    /\ \A i \in Inputs : inbox[i].status # "pending"
    /\ job' = [job EXCEPT ![a] = Claimed(@)]
    /\ pc' = "load" /\ mine' = 0 /\ act' = a /\ again' = FALSE
    /\ UNCHANGED <<action, serial, handled, outside>>

Mut_Load ==           \* seeded fault: the status is not asked for
    /\ pc = "load"
    /\ Goto("token")
    /\ UNCHANGED <<tables, outside>>

\* run_planner_write: nothing to do unless the row is accepted.
Load ==
    /\ pc = "load"
    /\ Goto(IF Found(act, "accepted") THEN "token" ELSE "close")
    /\ UNCHANGED <<tables, outside>>

\* get_access_token is asked twice: for the write, and for the refresh of the
\* snapshot after it, which swallows every planner error.
AsksToken == pc \in {"token", "sync"}

After(how) ==
    IF pc = "sync" THEN "confirm"
    ELSE CASE how = "ok" -> "call" [] how = "auth" -> "denied" [] how = "down" -> "raise"

NotLinked ==
    /\ AsksToken /\ cred.status # "active"
    /\ Goto(After("auth"))
    /\ UNCHANGED <<tables, outside>>

TokenInHand ==
    /\ AsksToken /\ cred.status = "active" /\ ~again
    /\ Goto(After("ok"))
    /\ UNCHANGED <<tables, outside>>

\* Near expiry, or marked so by force_expire after a 401.
Refreshing == AsksToken /\ cred.status = "active"

Mut_Refresh ==        \* seeded fault: the rotated token is used, not stored
    /\ Refreshing /\ cred.refresh = grant /\ tokens < MaxTokens
    /\ tokens' = tokens + 1 /\ grant' = tokens + 1
    /\ Goto(After("ok"))
    /\ UNCHANGED <<tables, cred, input, chat, items, known, crashes, history>>

\* Under the row lock: the endpoint rotates, the new pair is committed, then used.
Refresh ==
    /\ Refreshing /\ cred.refresh = grant /\ tokens < MaxTokens
    /\ tokens' = tokens + 1 /\ grant' = tokens + 1
    /\ cred' = [cred EXCEPT !.refresh = tokens + 1]
    /\ Goto(After("ok"))
    /\ UNCHANGED <<tables, input, chat, items, known, crashes, history>>

\* The endpoint has rotated, the answer never comes (or the process dies with
\* it): the stored token is the old one.
RefreshUnheard ==
    /\ Refreshing /\ cred.refresh = grant /\ tokens < MaxTokens
    /\ tokens' = tokens + 1 /\ grant' = tokens + 1
    /\ spent' = spent \union {cred.refresh}
    /\ Goto(After("down"))
    /\ UNCHANGED <<tables, cred, input, chat, items, known, crashes, confirmed, stranded, unheard,
                   denied, astray>>

RefreshDown ==
    /\ Refreshing
    /\ Goto(After("down"))
    /\ UNCHANGED <<tables, outside>>

\* invalid_grant: the one answer that ends the link.
RefreshRefused ==
    /\ Refreshing /\ cred.refresh # grant
    /\ cred' = [cred EXCEPT !.status = "revoked"]
    /\ Goto(After("auth"))
    /\ UNCHANGED <<tables, input, chat, planner, crashes, history>>

Mut_RequestId(a) == a   \* seeded fault: the idempotency key of the row's id

Mut_Attempt(a) == job[a].attempts   \* seeded fault: a key for each attempt

RequestId(a) == action[a].key

\* The planner makes one item per clientRequestId; completing a task again
\* changes nothing.
Served ==
    LET row == action[act] IN
    IF row.kind = "complete"
    THEN items' = [items EXCEPT ![row.wish] = 1] /\ UNCHANGED known
    ELSE /\ known' = known \union {RequestId(act)}
         /\ items' = IF RequestId(act) \in known THEN items
                     ELSE [items EXCEPT ![row.wish] = @ + 1]

CallServed ==
    /\ pc = "call"
    /\ Served
    /\ Goto("landed")
    /\ UNCHANGED <<tables, cred, input, chat, grant, tokens, crashes, history>>

CallUnheard ==
    /\ pc = "call"
    /\ Served
    /\ unheard' = unheard \union {action[act].wish}
    /\ Goto("raise")
    /\ UNCHANGED <<tables, cred, input, chat, grant, tokens, crashes, confirmed, stranded,
                   denied, spent, astray>>

\* Unavailable, or a tool error: also the second 401.
CallFails ==
    /\ pc = "call"
    /\ Goto("raise")
    /\ UNCHANGED <<tables, outside>>

\* The first 401: force_expire, then a new token and one more try.
CallRejected ==
    /\ pc = "call" /\ ~again
    /\ pc' = "token" /\ again' = TRUE
    /\ UNCHANGED <<tables, cred, input, chat, planner, mine, act, crashes, history>>

Mut_MarkWritten ==    \* seeded fault: left for the end of the job, and forgotten
    /\ pc = "landed"
    /\ Goto("sync")
    /\ UNCHANGED <<tables, outside>>

MarkWritten ==
    /\ pc = "landed"
    /\ action' = [action EXCEPT ![act].status = "written"]
    /\ Goto("sync")
    /\ UNCHANGED <<serial, job, handled, outside>>

Confirm ==
    /\ pc = "confirm"
    /\ confirmed' = [confirmed EXCEPT ![action[act].key] = @ + 1]
    /\ Goto("close")
    /\ UNCHANGED <<tables, cred, input, chat, planner, crashes, stranded,
                   unheard, denied, spent, astray>>

Close ==
    /\ pc = "close"
    /\ job' = [job EXCEPT ![act] = Completed(@)]
    /\ Goto("idle")
    /\ UNCHANGED <<action, serial, handled, outside>>

\* fail_job; the last failure goes on to mark the row and tell the user.
Raise ==
    /\ pc = "raise"
    /\ job' = [job EXCEPT ![act] = Failed(@)]
    /\ Goto(IF Failed(job[act]).status = "failed" THEN "abandon" ELSE "idle")
    /\ UNCHANGED <<action, serial, handled, outside>>

\* mark_failed.
MarkFailed ==
    action' = IF Found(act, "accepted")
              THEN [action EXCEPT ![act].status = "failed"] ELSE action

Mut_Abandon ==        \* seeded fault: the notice without the row
    /\ pc = "abandon"
    /\ Goto("sorry")
    /\ UNCHANGED <<tables, outside>>

Abandon ==
    /\ pc = "abandon"
    /\ MarkFailed
    /\ Goto("sorry")
    /\ UNCHANGED <<serial, job, handled, outside>>

\* WRITE_ABANDONED_NOTICE, outside the job: it is failed already.
SaySorry ==
    /\ pc = "sorry"
    /\ denied' = denied \union {action[act].wish}
    /\ Goto("idle")
    /\ UNCHANGED <<tables, cred, input, chat, planner, crashes, confirmed, stranded,
                   unheard, spent, astray>>

Mut_Denied ==         \* seeded fault: a revoked grant is told, the row kept
    /\ pc = "denied"
    /\ Goto("warn")
    /\ UNCHANGED <<tables, outside>>

Denied ==
    /\ pc = "denied"
    /\ MarkFailed
    /\ Goto("warn")
    /\ UNCHANGED <<serial, job, handled, outside>>

\* mark_notice_sent: once for each time the grant is found revoked.
Warn ==
    /\ pc = "warn"
    /\ IF cred.status = "revoked" /\ ~cred.notified
       THEN cred' = [cred EXCEPT !.notified = TRUE] /\ Goto("tell")
       ELSE Goto("close") /\ UNCHANGED cred
    /\ UNCHANGED <<tables, input, chat, planner, crashes, history>>

Tell ==
    /\ pc = "tell"
    /\ denied' = denied \union {action[act].wish}
    /\ Goto("close")
    /\ UNCHANGED <<tables, cred, input, chat, planner, crashes, confirmed, stranded,
                   unheard, spent, astray>>

-----------------------------------------------------------------------------
Crash ==
    /\ crashes < MaxCrashes /\ pc # "idle"
    /\ crashes' = crashes + 1
    /\ stranded' = IF pc = "abandon" THEN stranded \union {action[act].key} ELSE stranded
    /\ unheard' = IF pc = "landed" THEN unheard \union {action[act].wish} ELSE unheard
    /\ Goto("idle")
    /\ UNCHANGED <<tables, cred, input, chat, planner, confirmed, denied, spent, astray>>

\* STUCK_AFTER has passed over a row nobody runs any more (seen by a claim, so
\* between runs).
LeftAlone(row) == Recovered([row EXCEPT !.lease = StuckAfter])

RecoverUpdate(i) ==
    /\ pc = "idle" /\ inbox[i].status = "processing"
    /\ inbox' = [inbox EXCEPT ![i] = LeftAlone(@)]
    /\ UNCHANGED <<tables, cred, said, chat, planner, loop, crashes, history>>

RecoverWrite(a) ==
    /\ pc = "idle" /\ job[a].status = "processing"
    /\ job' = [job EXCEPT ![a] = LeftAlone(@)]
    /\ UNCHANGED <<action, serial, handled, cred, input, chat, planner, loop,
                   crashes, history>>

Handler ==
    \/ \E i \in Inputs : Claim(i)
    \/ AskReplayed \/ AskRefused \/ CreateAsk \/ MarkHandled \/ SendCard
    \/ Press \/ TapKnown \/ TapRefused \/ CreateTap \/ StampTap \/ AcceptTap
    \/ Edit \/ Delete \/ Finish

Writer ==
    \/ \E a \in Ids : ClaimWrite(a)
    \/ Load \/ NotLinked \/ TokenInHand \/ Refresh \/ RefreshUnheard \/ RefreshDown
    \/ RefreshRefused \/ CallServed \/ CallUnheard \/ CallFails \/ CallRejected
    \/ MarkWritten \/ Confirm \/ Close \/ Raise \/ Abandon \/ SaySorry
    \/ Denied \/ Warn \/ Tell

Next ==
    \/ \E i \in Inputs : Arrive(i)
    \/ Link \/ UserEndsGrant
    \/ \E last \in Ids : ExpireStale(last)
    \/ Handler \/ HandlerRaises \/ Writer
    \/ Crash
    \/ \E i \in Inputs : RecoverUpdate(i)
    \/ \E a \in Ids : RecoverWrite(a)

Spec == Init /\ [][Next]_vars

\* The worker's loops run.  Nobody has to write, link, answer or fail; a job gets
\* its turn because the user stops writing (MaxInputs).
FairSpec == /\ Spec
            /\ WF_vars(Handler \/ Writer)
            /\ \A i \in Inputs : WF_vars(RecoverUpdate(i))
            /\ \A a \in Ids : WF_vars(RecoverWrite(a))

-----------------------------------------------------------------------------
(* Properties.                                                              *)

\* jobs.py: "tapping OK creates exactly one item, including under a replayed
\* job": one /task or /event makes one item at most, whatever is replayed,
\* tapped twice or answered into the void.  A crash before the update is marked
\* leaves a second row for it, without a card: only a card of before /delete,
\* whose id came again, can accept that one too.
OneItemPerWish == \A w \in Wishes : items[w] <= 1 \/ w \in astray

\* models.py, request_key: a write made after a purge never collides with the
\* planner's idempotency index: what a row calls written is in the planner,
\* though row ids and job keys come again after /delete.
WrittenIsThere ==
    \A a \in Ids : Found(a, "written") => items[action[a].wish] > 0

\* mark_written: a replay must not send a second confirmation, and none is sent
\* for a write that is not yet on record.
ConfirmedOnce == \A k \in Keys : confirmed[k] <= 1

\* accept: an accepted row is never left without a job to write it, unless the
\* process died between the job's last failure and mark_failed.
AcceptedHasJob ==
    \A a \in Ids : Found(a, "accepted") =>
        \/ job[a].status \in {"pending", "processing"}
        \/ pc = "abandon" /\ act = a
        \/ action[a].key \in stranded

\* The notice that a write failed is wrong only when the planner's answer was
\* lost on the way or with the process (or is about the other row of a wish that
\* was accepted on another's card).
NoticeWrongOnlyIfUnheard ==
    \A w \in Wishes \ {List} :
        w \in denied /\ items[w] > 0 => w \in unheard \/ w \in astray

\* auth.py: the credential rotates and is stored before it is used, so the bot
\* takes the grant for revoked only when the user ended it or the answer to a
\* rotation never was committed.
GrantLostOnlyIfCut == cred.status = "revoked" => cred.refresh \in spent

\* mark_failed: no accepted row stays accepted for ever: each is written, failed
\* or wiped in the end, but for the stranded ones.
AcceptedWritesSettle ==
    <>[](\A a \in Ids : Found(a, "accepted") => action[a].key \in stranded)
=============================================================================
