------------------------------- MODULE Turn --------------------------------
(***************************************************************************)
(* One inbound update from the queue to its reply: app/core/turn.py's     *)
(* run, run_hard_pause, run_resume and run_welfare_turn, under the worker *)
(* that claims, completes and fails updates one at a time (app/worker.py, *)
(* app/db/queue.py).  Every commit and every message sent is one action,   *)
(* so the process may crash, or the handler raise, between any two.        *)
(*                                                                         *)
(* Message texts are what pause.match and the command filters tell apart;  *)
(* a reply is its voice, whether it is marked sent, and its chunks.  The   *)
(* spend ledger is left out: the cap, like every model verdict, may say    *)
(* either thing.                                                           *)
(***************************************************************************)
EXTENDS QueueOps, FiniteSets

CONSTANTS
    Updates,       \* inbound updates, from Telegram or the web chat
    NoUpdate,      \* "the worker holds nothing"
    Chunks,        \* messages a generated reply is split into
    MaxIntensity,  \* the intensity the persona starts at, at most
    MaxCrashes     \* bound: process crashes

ASSUME TurnAssumption ==
    /\ NoUpdate \notin Updates
    /\ Chunks \in Nat \ {0} /\ MaxIntensity \in Nat \ {0} /\ MaxCrashes \in Nat

\* chat: an ordinary line; soft, hard: a line with a pause word; out, in: the
\* two commands (in stands for the welfare button too).
Texts == {"chat", "soft", "hard", "out", "in"}

VARIABLES
    text,       \* what each update says
    rows,       \* telegram_update
    stamp,      \* arrival order, 0 for not arrived
    dropped,    \* presses of the panel's switch that queued nothing
    user,       \* the user's message row: none, story (in character), aside
                \* (ooc), welfare
    reply,      \* the assistant row: [voice, sent]
    persona,    \* user_state.persona_active
    intensity,  \* user_state.intensity
    changes,    \* state_change rows written on behalf of each update
    extract,    \* updates with an EXTRACT job
    plan,       \* the one proactive message: none, admitted, planned
    pc,         \* where the handler of the claimed update stands
    mine,       \* the claimed update
    seen,       \* the user_state this run has read: [persona, intensity]
    chunk,      \* the next chunk to send
    fresh,      \* this run has written the reply it is sending
    crashes,    \* bounded event count
    delivered,  \* history: how often each chunk reached the user
    unmarked,   \* history: runs cut off after sending, before recording it
    crashed,    \* history: updates whose run a crash cut off
    alarmed,    \* history: updates for which welfare switched the persona off
    halting,    \* history: updates that switched it off and have not yet
                \* cancelled the planned messages
    late,       \* history: the plan was made while the persona was off
    crossed     \* history: presses dropped while an update that may switch the
                \* other way was not yet handled

chat    == <<user, reply, persona, intensity, changes, extract>>
run     == <<pc, mine, seen, chunk, fresh>>
asked   == <<text, dropped, crossed>>
history == <<delivered, unmarked, crashed, alarmed, halting, late>>
vars == <<asked, rows, stamp, chat, plan, run, crashes, history>>

Voices  == {"none", "persona", "plain", "canned", "welfare"}
Unread  == [persona |-> TRUE, intensity |-> MaxIntensity]
NoReply == [voice |-> "none", sent |-> FALSE]

PCs == {"idle", "begin", "pause", "cancel", "canned", "soft", "generate",
        "apologise", "retag", "revoke", "console", "send", "mark", "extract",
        "return"}

TypeOK ==
    /\ text \in [Updates -> Texts]
    /\ rows \in [Updates -> Row]
    /\ stamp \in [Updates -> Nat]
    /\ user \in [Updates -> {"none", "story", "aside", "welfare"}]
    /\ reply \in [Updates -> [voice : Voices, sent : BOOLEAN]]
    /\ persona \in BOOLEAN /\ intensity \in 1..MaxIntensity
    /\ changes \in [Updates -> Nat]
    /\ extract \subseteq Updates
    /\ plan \in {"none", "admitted", "planned"}
    /\ pc \in PCs /\ mine \in Updates \union {NoUpdate}
    /\ seen \in [persona : BOOLEAN, intensity : 1..MaxIntensity]
    /\ chunk \in 1..Chunks /\ fresh \in BOOLEAN /\ crashes \in Nat
    /\ delivered \in [Updates -> [1..Chunks -> Nat]]
    /\ unmarked \in [Updates -> Nat]
    /\ crashed \subseteq Updates /\ alarmed \subseteq Updates
    /\ halting \subseteq Updates /\ late \in BOOLEAN
    /\ dropped \subseteq Updates /\ crossed \subseteq Updates

Init ==
    /\ text \in [Updates -> Texts]
    /\ rows = [u \in Updates |-> AbsentRow]
    /\ stamp = [u \in Updates |-> 0]
    /\ user = [u \in Updates |-> "none"]
    /\ reply = [u \in Updates |-> NoReply]
    /\ persona = TRUE /\ intensity = MaxIntensity
    /\ changes = [u \in Updates |-> 0]
    /\ extract = {} /\ plan = "none"
    /\ pc = "idle" /\ mine = NoUpdate
    /\ seen = Unread
    /\ chunk = 1 /\ fresh = FALSE /\ crashes = 0
    /\ delivered = [u \in Updates |-> [c \in 1..Chunks |-> 0]]
    /\ unmarked = [u \in Updates |-> 0]
    /\ crashed = {} /\ alarmed = {} /\ halting = {} /\ late = FALSE
    /\ dropped = {} /\ crossed = {}

-----------------------------------------------------------------------------
(* The queue around the handler.                                            *)

\* What may undo a command: of a switch-on anything else, by a welfare verdict.
Against(command) == IF command = "in" THEN Texts \ {"in"} ELSE {"in"}

Unhandled(u) == rows[u].status \in {"pending", "processing"}

\* The message arrives (again, if Telegram delivers it twice); or the panel's
\* switch, which has found the persona otherwise, queues its command.
Enqueue(u) ==
    /\ u \notin dropped
    /\ rows' = [rows EXCEPT ![u] = Inserted(@)]
    /\ stamp' = IF rows[u].status \in Missing
                THEN [stamp EXCEPT ![u] = 1 + Cardinality({v \in Updates : stamp[v] > 0})]
                ELSE stamp
    /\ UNCHANGED <<asked, chat, plan, run, crashes, history>>

\* post_pause finds the persona as the switch asks: 202, and nothing is queued.
PressDropped(u) ==
    /\ stamp[u] = 0 /\ text[u] \in {"out", "in"}
    /\ persona = (text[u] = "in")
    /\ stamp' = [stamp EXCEPT ![u] = 1 + Cardinality({v \in Updates : stamp[v] > 0})]
    /\ dropped' = dropped \union {u}
    /\ crossed' = IF \E v \in Updates : Unhandled(v) /\ text[v] \in Against(text[u])
                  THEN crossed \union {u} ELSE crossed
    /\ UNCHANGED <<text, rows, chat, plan, run, crashes, history>>

Waiting(u) == rows[u].status = "pending"

Mut_Oldest(u) == Waiting(u)    \* seeded fault: the claim without ORDER BY

Oldest(u) ==
    /\ Waiting(u)
    /\ \A v \in Updates : Waiting(v) => stamp[u] <= stamp[v]

Goto(where) == pc' = where /\ UNCHANGED <<mine, seen, chunk, fresh>>

\* Whatever a run knew is gone with it.
Rest == /\ pc' = "idle" /\ mine' = NoUpdate /\ seen' = Unread
        /\ chunk' = 1 /\ fresh' = FALSE

Claim(u) ==
    /\ pc = "idle" /\ Oldest(u)
    /\ rows' = [rows EXCEPT ![u] = Claimed(@)]
    /\ pc' = "begin" /\ mine' = u
    /\ UNCHANGED <<seen, chunk, fresh, asked, stamp, chat, plan, crashes, history>>

Complete ==
    /\ pc = "return"
    /\ rows' = [rows EXCEPT ![mine] = Completed(@)]
    /\ Rest
    /\ UNCHANGED <<asked, stamp, chat, plan, crashes, history>>

\* The user has something of this run's reply, and no row says so: the rest of
\* a split reply, the mark that follows it, or (the failure text has no row)
\* the completion of the update.
Unrecorded == \/ pc = "send" /\ chunk > 1
              \/ pc = "mark"
              \/ pc = "return" /\ reply[mine].voice = "none"

CutOff == unmarked' = IF Unrecorded THEN [unmarked EXCEPT ![mine] = @ + 1]
                                    ELSE unmarked

\* A statement or a send of the handler raises, or what it does after its reply
\* (a button's edit, an intent's card): the update is retried, or given up
\* after MAX_ATTEMPTS.
Raise ==
    /\ pc # "idle" /\ (pc = "return" => reply[mine].sent)
    /\ rows' = [rows EXCEPT ![mine] = Failed(@)]
    /\ CutOff /\ Rest
    /\ UNCHANGED <<asked, stamp, chat, plan, crashes, delivered, crashed, alarmed,
                   halting, late>>

\* The process dies and is started again; a plan the heartbeat was making is
\* forgotten, the claimed row stays processing.
Crash ==
    /\ crashes < MaxCrashes
    /\ crashes' = crashes + 1
    /\ plan' = IF plan = "admitted" THEN "none" ELSE plan
    /\ IF pc = "idle" THEN UNCHANGED <<unmarked, crashed>>
       ELSE CutOff /\ crashed' = crashed \union {mine}
    /\ Rest
    /\ UNCHANGED <<asked, rows, stamp, chat, delivered, alarmed, halting, late>>

Mut_RecoverStuck(u) == \* seeded fault: the sweep skips rows out of attempts
    /\ rows[u].status = "processing" /\ u # mine /\ rows[u].attempts < MaxAttempts
    /\ rows' = [rows EXCEPT ![u] = Recovered([@ EXCEPT !.lease = StuckAfter])]
    /\ UNCHANGED <<asked, stamp, chat, plan, run, crashes, history>>

\* STUCK_AFTER has passed over a row nobody runs any more.
RecoverStuck(u) ==
    /\ rows[u].status = "processing" /\ u # mine
    /\ rows' = [rows EXCEPT ![u] = Recovered([@ EXCEPT !.lease = StuckAfter])]
    /\ UNCHANGED <<asked, stamp, chat, plan, run, crashes, history>>

-----------------------------------------------------------------------------
(* run: steps 0 to 5.  A read that nothing can disturb, because no other     *)
(* handler runs, is part of the commit before or after it.                  *)

\* Where run goes when the update has no reply yet.
Branch(level) == CASE level = "hard" -> "pause"
                   [] level = "soft" -> "soft"
                   [] level = "chat" -> "generate"

Mut_Resume(u) ==   \* seeded fault: a reply that exists is taken for sent
    IF reply[u].voice = "none" THEN Branch(text[u]) ELSE "return"

\* Step 2: an update that has its reply is resent if need be, never redone.
Resume(u) == IF reply[u].voice = "none" THEN Branch(text[u])
             ELSE IF reply[u].sent THEN "return" ELSE "send"

\* run reads user_state before anything else and stores the line once.
StoreUserMessageOnce ==
    /\ pc = "begin" /\ text[mine] \in {"chat", "soft", "hard"}
    /\ user' = IF user[mine] # "none" THEN user
               ELSE [user EXCEPT ![mine] =
                        IF ~persona \/ text[mine] = "hard" THEN "aside" ELSE "story"]
    /\ seen' = [persona |-> persona, intensity |-> intensity]
    /\ pc' = Resume(mine)
    /\ UNCHANGED <<mine, chunk, fresh, asked, rows, stamp, reply, persona, intensity,
                   changes, extract, plan, crashes, history>>

\* update_state: one field and its audit row, in one commit.
Audited == changes' = [changes EXCEPT ![mine] = @ + 1]

Mut_LowerIntensity ==  \* seeded fault: no floor under the intensity
    /\ pc = "soft"
    /\ intensity' = seen.intensity - 1
    /\ Audited
    /\ Goto("generate")
    /\ UNCHANGED <<asked, rows, stamp, user, reply, persona, extract, plan,
                   crashes, history>>

LowerIntensity ==
    /\ pc = "soft"
    /\ intensity' = IF seen.intensity > 1 THEN seen.intensity - 1 ELSE 1
    /\ Audited
    /\ Goto("generate")
    /\ UNCHANGED <<asked, rows, stamp, user, reply, persona, extract, plan,
                   crashes, history>>

-----------------------------------------------------------------------------
(* run_hard_pause, run_resume and the reply with a fixed text.              *)

Mut_RunHardPause ==    \* seeded fault: a replay asks the flag, not the reply row
    /\ pc = "pause" \/ (pc = "begin" /\ text[mine] = "out")
    /\ IF persona
       THEN /\ persona' = FALSE /\ Audited
            /\ halting' = halting \union {mine}
            /\ Goto("cancel")
       ELSE /\ Goto("canned")
            /\ UNCHANGED <<persona, changes, halting>>
    /\ UNCHANGED <<asked, rows, stamp, user, reply, intensity, extract, plan,
                   crashes, delivered, unmarked, crashed, alarmed, late>>

RunHardPause ==
    /\ pc = "pause" \/ (pc = "begin" /\ text[mine] = "out")
    /\ IF reply[mine].voice = "none"
       THEN /\ persona' = FALSE /\ Audited
            /\ halting' = halting \union {mine}
            /\ Goto("cancel")
       ELSE /\ Goto("canned")
            /\ UNCHANGED <<persona, changes, halting>>
    /\ UNCHANGED <<asked, rows, stamp, user, reply, intensity, extract, plan,
                   crashes, delivered, unmarked, crashed, alarmed, late>>

\* cancel_outbound: what is planned is cancelled; what the heartbeat has
\* admitted and not yet inserted is not there to cancel.
Mut_Cancelled ==       \* seeded fault: the cancel is not committed
    halting' = halting \ {mine} /\ UNCHANGED <<plan, late>>

Cancelled == /\ plan' = IF plan = "planned" THEN "none" ELSE plan
             /\ halting' = halting \ {mine}
             /\ late' = IF plan = "planned" THEN FALSE ELSE late

CancelOutbound ==
    /\ pc = "cancel"
    /\ Cancelled
    /\ Goto("canned")
    /\ UNCHANGED <<asked, rows, stamp, chat, crashes, delivered, unmarked,
                   crashed, alarmed>>

Mut_RunResume ==       \* seeded fault: a replay that is answered resumes again
    /\ pc = "begin" /\ text[mine] = "in"
    /\ persona' = TRUE /\ Audited
    /\ Goto("canned")
    /\ UNCHANGED <<asked, rows, stamp, user, reply, intensity, extract, plan,
                   crashes, history>>

RunResume ==
    /\ pc = "begin" /\ text[mine] = "in"
    /\ IF reply[mine].voice = "none" THEN persona' = TRUE /\ Audited
                                     ELSE UNCHANGED <<persona, changes>>
    /\ Goto("canned")
    /\ UNCHANGED <<asked, rows, stamp, user, reply, intensity, extract, plan,
                   crashes, history>>

\* INSERT .. ON CONFLICT (reply_to_update) DO NOTHING.
Insert(voice) ==
    reply' = IF reply[mine].voice = "none"
             THEN [reply EXCEPT ![mine] = [voice |-> voice, sent |-> FALSE]]
             ELSE reply

Mut_SendCannedReply == \* seeded fault: a replay does not ask whether it was sent
    /\ pc = "canned"
    /\ Insert("canned")
    /\ Goto("send")
    /\ UNCHANGED <<asked, rows, stamp, user, persona, intensity, changes, extract,
                   plan, crashes, history>>

SendCannedReply ==
    /\ pc = "canned"
    /\ Insert("canned")
    /\ Goto(IF reply[mine].sent THEN "return" ELSE "send")
    /\ UNCHANGED <<asked, rows, stamp, user, persona, intensity, changes, extract,
                   plan, crashes, history>>

-----------------------------------------------------------------------------
(* run: step 6, the generation and what the classifiers make of it.         *)

\* The voice is the one the snapshot asked for; the row and its ledger row
\* are one commit.
GenerateReply ==
    /\ pc = "generate"
    /\ Insert(IF seen.persona THEN "persona" ELSE "plain")
    /\ pc' = "send" /\ fresh' = TRUE
    /\ UNCHANGED <<mine, seen, chunk, asked, rows, stamp, user, persona, intensity,
                   changes, extract, plan, crashes, history>>

\* No provider answered: the user is told so, without a row.
GenerateNothing ==
    /\ pc = "generate"
    /\ Goto("apologise")
    /\ UNCHANGED <<asked, rows, stamp, chat, plan, crashes, history>>

\* The spend cap is reached, or (in character) the medical / legal boundary was
\* crossed twice: a fixed text instead.
RefuseToGenerate ==
    /\ pc = "generate"
    /\ Goto("canned")
    /\ UNCHANGED <<asked, rows, stamp, chat, plan, crashes, history>>

\* run_welfare_turn: the classifier, or its backstop, says the message is real.
WelfareOff ==
    /\ pc = "generate" /\ seen.persona
    /\ persona' = FALSE /\ Audited
    /\ alarmed' = alarmed \union {mine}
    /\ halting' = halting \union {mine}
    /\ Goto("retag")
    /\ UNCHANGED <<asked, rows, stamp, user, reply, intensity, extract, plan,
                   crashes, delivered, unmarked, crashed, late>>

RetagAsWelfare ==
    /\ pc = "retag"
    /\ user' = [user EXCEPT ![mine] = "welfare"]
    /\ Goto("revoke")
    /\ UNCHANGED <<asked, rows, stamp, reply, persona, intensity, changes, extract,
                   plan, crashes, history>>

WelfareCancel ==
    /\ pc = "revoke"
    /\ Cancelled
    /\ Goto("console")
    /\ UNCHANGED <<asked, rows, stamp, chat, crashes, delivered, unmarked,
                   crashed, alarmed>>

Mut_WelfareReply ==    \* seeded fault: the discarded reply goes out after all
    /\ pc = "console"
    /\ Insert("persona")
    /\ Goto(IF reply[mine].voice = "none" THEN "send" ELSE "return")
    /\ UNCHANGED <<asked, rows, stamp, user, persona, intensity, changes, extract,
                   plan, crashes, history>>

WelfareReply ==
    /\ pc = "console"
    /\ Insert("welfare")
    /\ Goto(IF reply[mine].voice = "none" THEN "send" ELSE "return")
    /\ UNCHANGED <<asked, rows, stamp, user, persona, intensity, changes, extract,
                   plan, crashes, history>>

-----------------------------------------------------------------------------
(* run: steps 7 and 8, delivery.                                            *)

\* A generated reply is split, a fixed text goes out whole.
Length(u) == IF reply[u].voice \in {"persona", "plain"} THEN Chunks ELSE 1

Reaches(c) == delivered' = [delivered EXCEPT ![mine][c] = @ + 1]

SendReply ==
    /\ pc = "send"
    /\ Reaches(chunk)
    /\ IF chunk < Length(mine)
       THEN chunk' = chunk + 1 /\ UNCHANGED <<pc, mine, seen, fresh>>
       ELSE Goto("mark")
    /\ UNCHANGED <<asked, rows, stamp, chat, plan, crashes, unmarked, crashed,
                   alarmed, halting, late>>

Apologise ==
    /\ pc = "apologise"
    /\ Reaches(1)
    /\ Goto("return")
    /\ UNCHANGED <<asked, rows, stamp, chat, plan, crashes, unmarked, crashed,
                   alarmed, halting, late>>

\* Only the run that generated the reply in character offers it to the
\* extractor; a resend returns after the mark.
Mut_MarkSent ==        \* seeded fault: every delivered turn is extracted
    /\ pc = "mark"
    /\ reply' = [reply EXCEPT ![mine].sent = TRUE]
    /\ Goto(IF fresh THEN "extract" ELSE "return")
    /\ UNCHANGED <<asked, rows, stamp, user, persona, intensity, changes, extract,
                   plan, crashes, history>>

MarkSent ==
    /\ pc = "mark"
    /\ reply' = [reply EXCEPT ![mine].sent = TRUE]
    /\ Goto(IF fresh /\ seen.persona THEN "extract" ELSE "return")
    /\ UNCHANGED <<asked, rows, stamp, user, persona, intensity, changes, extract,
                   plan, crashes, history>>

EnqueueExtract ==
    /\ pc = "extract"
    /\ extract' = extract \union {mine}
    /\ Goto("return")
    /\ UNCHANGED <<asked, rows, stamp, user, reply, persona, intensity, changes,
                   plan, crashes, history>>

-----------------------------------------------------------------------------
(* The heartbeat plans a proactive message in two steps (the gate's read,   *)
(* the insert) while a handler may be between any two of its own; the send  *)
(* job delivers it only while the persona is on.                            *)

Admit ==
    /\ plan = "none" /\ persona
    /\ plan' = "admitted"
    /\ UNCHANGED <<asked, rows, stamp, chat, run, crashes, history>>

Plan ==
    /\ plan = "admitted"
    /\ plan' = "planned" /\ late' = ~persona
    /\ UNCHANGED <<asked, rows, stamp, chat, run, crashes, delivered, unmarked,
                   crashed, alarmed, halting>>

\* The send job leaves nothing planned: it sends, or the gate refuses.
SendPlanned ==
    /\ plan = "planned"
    /\ plan' = "none" /\ late' = FALSE
    /\ UNCHANGED <<asked, rows, stamp, chat, run, crashes, delivered, unmarked,
                   crashed, alarmed, halting>>

-----------------------------------------------------------------------------
Handler ==
    \/ StoreUserMessageOnce \/ LowerIntensity
    \/ RunHardPause \/ CancelOutbound \/ RunResume \/ SendCannedReply
    \/ GenerateReply \/ GenerateNothing \/ RefuseToGenerate
    \/ WelfareOff \/ RetagAsWelfare \/ WelfareCancel \/ WelfareReply
    \/ SendReply \/ Apologise \/ MarkSent \/ EnqueueExtract

Worker == (\E u \in Updates : Claim(u)) \/ Handler \/ Complete

Heartbeat == Admit \/ Plan \/ SendPlanned

Next ==
    \/ \E u \in Updates : Enqueue(u) \/ PressDropped(u) \/ RecoverStuck(u)
    \/ Worker \/ Raise \/ Crash \/ Heartbeat

Spec == Init /\ [][Next]_vars

\* The worker's loops run; nothing makes the heartbeat plan, a statement
\* raise or the process die.
FairSpec == /\ Spec
            /\ WF_vars(Worker)
            /\ \A u \in Updates : WF_vars(RecoverStuck(u))

-----------------------------------------------------------------------------
(* Properties.                                                              *)

Done(u) == rows[u].status = "done"

\* An update is completed only after the whole reply has reached the user,
\* whatever crashes and retries came before.
AnsweredWhenDone ==
    \A u \in Updates : Done(u) => \A c \in 1..Length(u) : delivered[u][c] > 0

\* turn.py promises no duplicate when the process dies before the send or
\* after the mark: each further delivery is owed to a run that was cut off in
\* between.
OneReplyUnlessCut ==
    \A u \in Updates : \A c \in 1..Chunks : delivered[u][c] <= 1 + unmarked[u]

\* The off-switch: a reply in the persona's voice is written only while the
\* persona is on at that moment, although run works from an older read of
\* user_state and the welfare verdict arrives beside a finished generation.
PersonaSpeaksOnlyWhileActive ==
    [][\A u \in Updates : reply[u].voice = "none" /\ reply'[u].voice = "persona"
                           => persona /\ persona']_vars

\* A replay of an update that has its reply row writes no state_change row and
\* moves neither the off-switch nor the intensity.
AnsweredReplayIsInert ==
    [][\A u \in Updates : mine = u /\ reply[u].voice # "none"
                           => UNCHANGED <<persona, intensity, changes>>]_vars

\* A hard pause whose update is completed has switched the persona off and then
\* cancelled what was planned, also when a crash came between the two.
PauseCarriedThrough ==
    \A u \in Updates : Done(u) /\ text[u] \in {"hard", "out"}
                        => changes[u] > 0 /\ u \notin halting

\* turn.py: "welfare exchanges never reach the extractor, a scene summary, memory
\* or the journal", so the message that triggered one leaves the story.
WelfareLeavesTheStory ==
    \A u \in Updates : Done(u) /\ u \in alarmed => user[u] # "story"

\* While the persona is off a planned message is left only by a switch-off that
\* has not got to its cancel, or by a gate that had been read before it.
PausedMeansRevoked ==
    plan = "planned" /\ ~persona => late \/ halting # {}

\* The order of the conversation: once every update that came is handled, the
\* persona is as the last off or on in the order of their coming left it, unless
\* a crash cut one of these off and its replay came after later ones.  A press the
\* panel dropped counts too: post_pause "only short-circuits a settled state",
\* which holds unless an update that may switch the other way was under way.
Switches == dropped \union
    {u \in Updates : Done(u) /\ (text[u] \in {"hard", "out", "in"} \/ u \in alarmed)}

LastWordWins ==
    /\ \A u \in Updates : rows[u].status \in {"absent", "done"}
    /\ Switches \intersect (crashed \union crossed) = {}
    => persona = \A u \in Switches : (\A v \in Switches : stamp[v] <= stamp[u])
                                     => text[u] = "in"

\* The extractor is handed only what was said and answered in character, and
\* every such turn unless the update had to be retried.
ExtractedIffInCharacter ==
    \A u \in Updates :
        /\ u \in extract => /\ reply[u] = [voice |-> "persona", sent |-> TRUE]
                            /\ user[u] = "story" \/ crashed # {}
        /\ Done(u) /\ reply[u].voice = "persona" /\ rows[u].attempts = 1
           => u \in extract

\* An update that arrives is answered, or given up after MAX_ATTEMPTS.
EveryUpdateAnswered ==
    \A u \in Updates :
        rows[u].status # "absent" ~> delivered[u][1] > 0 \/ rows[u].status = "failed"
=============================================================================
