----------------------------- MODULE TurnProofs -----------------------------
(***************************************************************************)
(* Theorems about Turn, for every set of updates, every number of chunks, *)
(* attempts and crashes.                                                   *)
(*                                                                         *)
(* The invariants build on each other: types and the row at hand (Typed); *)
(* what the place of a run says of its reply, its text and the persona    *)
(* (Placed); what has been delivered (Answered, Ledger); what a pause has *)
(* done (Carried); the order in which updates come and are begun          *)
(* (Stamped, Ordered, LastMove); whose voice was stored (Voiced).          *)
(***************************************************************************)
EXTENDS Turn, QueueOpsProofs, FiniteSetTheorems, TLAPS

-----------------------------------------------------------------------------
(* The invariants.                                                          *)

\* The updates that have come, presses the panel dropped included.
Arrived == {u \in Updates : stamp[u] > 0}

\* A run holds its update, whose row is claimed; finitely many have come.
AtHand ==
    /\ IsFiniteSet(Arrived)
    /\ pc = "idle" <=> mine = NoUpdate
    /\ mine # NoUpdate => rows[mine].status = "processing" /\ rows[mine].attempts > 0

Typed == TypeOK /\ AtHand

\* Where a run is before it has a reply; and where only plain talk gets to.
Silent == {"pause", "cancel", "soft", "generate", "apologise", "retag", "revoke",
           "console"}
Spoken == {"soft", "generate", "apologise", "retag", "revoke", "console"}

Plain    == {"chat", "soft"}
Commands == {"hard", "out", "in"}

\* What the place of a run says of its reply, its text and the persona: nothing
\* moves the persona while a reply is made, but the run itself.
Placed ==
    /\ pc \in Silent => reply[mine] = NoReply
    /\ pc \in {"send", "mark"} => reply[mine].voice # "none" /\ ~reply[mine].sent
    /\ pc = "extract" => reply[mine].sent
    /\ pc = "return" => \/ reply[mine].sent
                        \/ reply[mine] = NoReply /\ text[mine] \in Plain
    /\ pc \in Spoken => text[mine] \in Plain
    /\ pc \in {"pause", "cancel"} => text[mine] \in {"hard", "out"}
    /\ pc \in {"soft", "generate"} => seen.persona = persona
    /\ pc \in {"retag", "revoke", "console"} => ~persona
    /\ \A u \in Updates : reply[u].sent => reply[u].voice # "none"

-----------------------------------------------------------------------------
(* Types.                                                                   *)

LEMMA TypedInit == Init => Typed
<1> SUFFICES ASSUME Init PROVE Typed
  OBVIOUS
<1>1. AbsentRow \in Row
  BY QueueAssumption DEF AbsentRow, Row, Statuses
<1>2. MaxIntensity \in 1..MaxIntensity /\ 1 \in 1..Chunks /\ NoUpdate \notin Updates
  BY TurnAssumption
<1>3. TypeOK
  BY <1>1, <1>2 DEF Init, TypeOK, PCs, NoReply, Unread, Voices
<1>4. AtHand
  <2>1. Arrived = {}
    BY DEF Init, Arrived
  <2> QED
    BY <1>2, <2>1, FS_EmptySet DEF Init, AtHand
<1> QED
  BY <1>3, <1>4 DEF Typed

LEMMA StampTyped ==
    ASSUME Typed, NEW u \in Updates,
           stamp' = [stamp EXCEPT ![u] = 1 + Cardinality({v \in Updates : stamp[v] > 0})]
    PROVE  /\ stamp' \in [Updates -> Nat]
           /\ Arrived' = Arrived \union {u} /\ IsFiniteSet(Arrived')
           /\ Cardinality(Arrived) \in Nat
<1>1. /\ IsFiniteSet(Arrived) /\ stamp \in [Updates -> Nat]
      /\ stamp' = [stamp EXCEPT ![u] = 1 + Cardinality(Arrived)]
  BY DEF Typed, TypeOK, AtHand, Arrived
<1>2. Cardinality(Arrived) \in Nat
  BY <1>1, FS_CardinalityType
<1>3. stamp' \in [Updates -> Nat] /\ stamp'[u] > 0
  BY <1>1, <1>2
<1>4. Arrived' = Arrived \union {u}
  BY <1>1, <1>3 DEF Arrived
<1>5. IsFiniteSet(Arrived \union {u})
  BY <1>1, FS_AddElement
<1> QED
  BY <1>2, <1>3, <1>4, <1>5

LEMMA TypedNext == Typed /\ [Next]_vars => Typed'
<1> SUFFICES ASSUME Typed, [Next]_vars PROVE Typed'
  OBVIOUS
<1>r. \A u \in Updates :
         /\ rows[u] \in Row
         /\ Inserted(rows[u]) \in Row /\ Claimed(rows[u]) \in Row
         /\ Completed(rows[u]) \in Row /\ Failed(rows[u]) \in Row
         /\ Recovered([rows[u] EXCEPT !.lease = StuckAfter]) \in Row
  <2>1. \A u \in Updates : rows[u] \in Row
    BY DEF Typed, TypeOK
  <2>2. ASSUME NEW row \in Row PROVE [row EXCEPT !.lease = StuckAfter] \in Row
    BY QueueAssumption DEF Row
  <2> QED
    BY <2>1, <2>2, RowsStayRows
<1>n. /\ NoUpdate \notin Updates /\ MaxIntensity \in 1..MaxIntensity /\ 1 \in 1..Chunks
      /\ MaxIntensity \in Nat /\ Chunks \in Nat
  BY TurnAssumption
<1>u. pc # "idle" => mine \in Updates
  BY DEF Typed, AtHand, TypeOK
<1>a. stamp' = stamp => Arrived' = Arrived
  BY DEF Arrived
<1>1. ASSUME NEW u \in Updates, Enqueue(u) PROVE Typed'
  <2>1. rows' \in [Updates -> Row] /\ stamp' \in [Updates -> Nat] /\ IsFiniteSet(Arrived')
    BY <1>1, <1>r, <1>a, StampTyped DEF Enqueue, Typed, TypeOK, AtHand
  <2>2. mine' = mine /\ mine # NoUpdate => rows'[mine] = rows[mine]
    BY <1>1, <1>u DEF Enqueue, run, Inserted, Missing, Typed, TypeOK, AtHand
  <2> QED
    BY <1>1, <2>1, <2>2 DEF Enqueue, Typed, TypeOK, AtHand, asked, chat, run, history
<1>2. ASSUME NEW u \in Updates, PressDropped(u) PROVE Typed'
  BY <1>2, StampTyped DEF PressDropped, Typed, TypeOK, AtHand, chat, run, history
<1>3. ASSUME NEW u \in Updates, RecoverStuck(u) PROVE Typed'
  BY <1>3, <1>r, <1>a DEF RecoverStuck, Typed, TypeOK, AtHand, asked, chat, run, history
<1>4. ASSUME NEW u \in Updates, Claim(u) PROVE Typed'
  <2>1. rows'[u].status = "processing" /\ rows'[u].attempts > 0
    BY <1>4, <1>r DEF Claim, Claimed, Typed, TypeOK, Row
  <2> QED
    BY <1>4, <2>1, <1>r, <1>n, <1>a
       DEF Claim, Typed, TypeOK, AtHand, asked, chat, history, PCs
<1>5. ASSUME Rest, rows' \in [Updates -> Row], stamp' = stamp, IsFiniteSet(Arrived')
      PROVE  AtHand'
  BY <1>5 DEF Rest, AtHand
<1>6. CASE Complete \/ Raise \/ Crash
  <2>1. /\ rows' \in [Updates -> Row] /\ unmarked' \in [Updates -> Nat]
        /\ plan' \in {"none", "admitted", "planned"} /\ crashes' \in Nat
        /\ crashed' \subseteq Updates
    <3>1. CASE Complete
      BY <3>1, <1>r, <1>u DEF Complete, Typed, TypeOK, history
    <3>2. CASE Raise
      <4>1. mine \in Updates /\ unmarked \in [Updates -> Nat]
        BY <3>2, <1>u DEF Raise, Typed, TypeOK
      <4>2. [unmarked EXCEPT ![mine] = @ + 1] \in [Updates -> Nat]
        BY <4>1
      <4>3. unmarked' \in [Updates -> Nat]
        BY <3>2, <4>1, <4>2 DEF Raise, CutOff
      <4> QED
        BY <3>2, <4>1, <4>3, <1>r DEF Raise, Typed, TypeOK
    <3>3. CASE Crash
      BY <3>3, <1>u DEF Crash, CutOff, Typed, TypeOK
    <3> QED
      BY <1>6, <3>1, <3>2, <3>3
  <2>2. /\ Rest /\ stamp' = stamp
        /\ UNCHANGED <<asked, chat, delivered, alarmed, halting, late>>
    BY <1>6 DEF Complete, Raise, Crash, asked, chat, history
  <2>3. AtHand'
    BY <1>5, <1>a, <2>1, <2>2 DEF Typed, AtHand
  <2> QED
    BY <2>1, <2>2, <2>3, <1>n DEF Rest, Typed, TypeOK, asked, chat, PCs, Unread
<1>h. ASSUME pc # "idle", pc' \in PCs \ {"idle"}, mine' = mine, rows' = rows, stamp' = stamp
      PROVE  AtHand'
  BY <1>h, <1>a DEF Typed, AtHand
<1>7. CASE StoreUserMessageOnce
  <2>1. Branch(text[mine]) \in PCs \ {"idle"} /\ Resume(mine) \in PCs \ {"idle"}
    BY <1>7 DEF StoreUserMessageOnce, Branch, Resume, PCs
  <2> QED
    BY <1>7, <2>1, <1>u, <1>h DEF StoreUserMessageOnce, Typed, TypeOK, asked, history
<1>8. CASE LowerIntensity
  <2>1. intensity' \in 1..MaxIntensity
    BY <1>8, <1>n DEF LowerIntensity, Typed, TypeOK
  <2> QED
    BY <1>8, <2>1, <1>u, <1>h
       DEF LowerIntensity, Audited, Goto, Typed, TypeOK, asked, history, PCs
<1>9. CASE RunHardPause \/ RunResume \/ WelfareOff
  <2>1. /\ persona' \in BOOLEAN /\ changes' \in [Updates -> Nat]
        /\ halting' \subseteq Updates /\ alarmed' \subseteq Updates
    <3>1. mine \in Updates /\ changes \in [Updates -> Nat]
      BY <1>9, <1>u DEF RunHardPause, RunResume, WelfareOff, Typed, TypeOK
    <3>2. [changes EXCEPT ![mine] = @ + 1] \in [Updates -> Nat]
      BY <3>1
    <3>3. changes' \in [Updates -> Nat]
      BY <1>9, <3>1, <3>2 DEF RunHardPause, RunResume, WelfareOff, Audited
    <3> QED
      BY <1>9, <3>1, <3>3 DEF RunHardPause, RunResume, WelfareOff, Typed, TypeOK, history
  <2>2. /\ pc # "idle" /\ pc' \in PCs \ {"idle"}
        /\ UNCHANGED <<mine, seen, chunk, fresh, asked, rows, stamp, user, reply, intensity,
                       extract, plan, crashes, delivered, unmarked, crashed, late>>
    BY <1>9 DEF RunHardPause, RunResume, WelfareOff, Goto, asked, history, PCs
  <2> QED
    BY <2>1, <2>2, <1>h DEF Typed, TypeOK, asked
<1>10. CASE CancelOutbound \/ WelfareCancel
  BY <1>10, <1>u, <1>h
     DEF CancelOutbound, WelfareCancel, Cancelled, Goto, Typed, TypeOK, asked, chat, PCs
<1>11. CASE SendCannedReply \/ GenerateReply \/ WelfareReply
  <2>1. reply' \in [Updates -> [voice : Voices, sent : BOOLEAN]]
    <3>1. ASSUME NEW voice \in Voices, Insert(voice)
          PROVE  reply' \in [Updates -> [voice : Voices, sent : BOOLEAN]]
      BY <3>1 DEF Insert, Typed, TypeOK
    <3>2. \E voice \in Voices : Insert(voice)
      BY <1>11 DEF SendCannedReply, GenerateReply, WelfareReply, Voices
    <3> QED
      BY <3>1, <3>2
  <2>2. /\ pc # "idle" /\ pc' \in PCs \ {"idle"} /\ fresh' \in BOOLEAN
        /\ UNCHANGED <<mine, seen, chunk, asked, rows, stamp, user, persona, intensity,
                       changes, extract, plan, crashes, history>>
    BY <1>11 DEF SendCannedReply, GenerateReply, WelfareReply, Goto, PCs, Typed, TypeOK
  <2>3. TypeOK'
    BY <2>1, <2>2 DEF Typed, TypeOK, asked, history
  <2>4. AtHand'
    BY <2>2, <1>h DEF asked
  <2> QED
    BY <2>3, <2>4 DEF Typed
<1>12. CASE GenerateNothing \/ RefuseToGenerate \/ RetagAsWelfare \/ EnqueueExtract
  <2>1. CASE GenerateNothing \/ RefuseToGenerate
    BY <2>1, <1>u, <1>h DEF GenerateNothing, RefuseToGenerate, Goto, Typed, TypeOK, asked, chat,
                            history, PCs
  <2>2. CASE RetagAsWelfare
    BY <2>2, <1>u, <1>h DEF RetagAsWelfare, Goto, Typed, TypeOK, asked, history, PCs
  <2>3. CASE EnqueueExtract
    BY <2>3, <1>u, <1>h DEF EnqueueExtract, Goto, Typed, TypeOK, asked, history, PCs
  <2> QED
    BY <1>12, <2>1, <2>2, <2>3
<1>13. CASE SendReply \/ Apologise
  <2>1. delivered' \in [Updates -> [1..Chunks -> Nat]]
    <3>1. ASSUME NEW c \in 1..Chunks, Reaches(c), mine \in Updates
          PROVE  delivered' \in [Updates -> [1..Chunks -> Nat]]
      <4>1. [delivered[mine] EXCEPT ![c] = @ + 1] \in [1..Chunks -> Nat]
        <5>1. delivered[mine] \in [1..Chunks -> Nat]
          BY <3>1 DEF Typed, TypeOK
        <5>2. ASSUME NEW f \in [1..Chunks -> Nat]
              PROVE  [f EXCEPT ![c] = @ + 1] \in [1..Chunks -> Nat]
          OBVIOUS
        <5> QED
          BY <5>1, <5>2
      <4>2. delivered' = [delivered EXCEPT ![mine] = [delivered[mine] EXCEPT ![c] = @ + 1]]
        BY <3>1 DEF Reaches, Typed, TypeOK
      <4> QED
        BY <4>1, <4>2 DEF Typed, TypeOK
    <3> QED
      BY <1>13, <1>u, <1>n, <3>1 DEF SendReply, Apologise, Typed, TypeOK
  <2>2. chunk' \in 1..Chunks
    BY <1>13, <1>n DEF SendReply, Apologise, Length, Goto, Typed, TypeOK
  <2>3. /\ pc # "idle" /\ pc' \in PCs \ {"idle"}
        /\ UNCHANGED <<mine, seen, fresh, asked, rows, stamp, chat, plan, crashes, unmarked,
                       crashed, alarmed, halting, late>>
    BY <1>13 DEF SendReply, Apologise, Goto, PCs
  <2> QED
    BY <2>1, <2>2, <2>3, <1>h DEF Typed, TypeOK, asked, chat
<1>14. CASE MarkSent
  BY <1>14, <1>u, <1>h DEF MarkSent, Goto, Typed, TypeOK, asked, history, PCs
<1>15. CASE Heartbeat
  BY <1>15, <1>a DEF Heartbeat, Admit, Plan, SendPlanned, Typed, TypeOK, AtHand, asked, chat,
                     run, history
<1>16. CASE UNCHANGED vars
  BY <1>16, <1>a DEF vars, Typed, TypeOK, AtHand, asked, chat, run, history
<1> QED
  BY <1>1, <1>2, <1>3, <1>4, <1>6, <1>7, <1>8, <1>9, <1>10, <1>11, <1>12, <1>13, <1>14,
     <1>15, <1>16 DEF Next, Worker, Handler

\* Every reachable state of the conversation is well formed.
THEOREM TurnTyped == Spec => []TypeOK
<1>1. Typed => TypeOK
  BY DEF Typed
<1> QED
  BY <1>1, TypedInit, TypedNext, PTL DEF Spec

-----------------------------------------------------------------------------
(* Where a run stands.                                                      *)

\* The steps that touch neither the run nor what it has written.
LEMMA Beside ==
    ASSUME \/ \E u \in Updates : Enqueue(u) \/ PressDropped(u) \/ RecoverStuck(u)
           \/ Heartbeat \/ UNCHANGED vars
    PROVE  UNCHANGED <<text, user, reply, persona, intensity, changes, extract, pc, mine,
                       seen, chunk, fresh, crashes, delivered, unmarked, crashed, alarmed,
                       halting>>
BY DEF Enqueue, PressDropped, RecoverStuck, Heartbeat, Admit, Plan, SendPlanned, vars, asked,
       chat, run, history

\* The steps that end a run, well or badly.
LEMMA Ending ==
    ASSUME Complete \/ Raise \/ Crash
    PROVE  /\ pc' = "idle" /\ mine' = NoUpdate /\ fresh' = FALSE /\ chunk' = 1
           /\ UNCHANGED <<text, user, reply, persona, intensity, changes, extract, stamp,
                          dropped, crossed, delivered, alarmed, halting>>
BY DEF Complete, Raise, Crash, Rest, asked, chat, history

\* Whatever a handler step does, it does for the update at hand.
LEMMA HandlerFrame ==
    ASSUME Handler
    PROVE  /\ pc # "idle" /\ pc' # "idle"
           /\ UNCHANGED <<mine, text, rows, stamp, dropped, crossed, crashes, crashed, unmarked>>
BY DEF Handler, StoreUserMessageOnce, LowerIntensity, RunHardPause, CancelOutbound, RunResume,
       SendCannedReply, GenerateReply, GenerateNothing, RefuseToGenerate, WelfareOff,
       RetagAsWelfare, WelfareCancel, WelfareReply, SendReply, Apologise, MarkSent,
       EnqueueExtract, Goto, Resume, Branch, asked, history

LEMMA PlacedNext == Typed /\ Placed /\ [Next]_vars => Placed'
<1> SUFFICES ASSUME Typed, Placed, [Next]_vars PROVE Placed'
  OBVIOUS
<1>t. /\ reply \in [Updates -> [voice : Voices, sent : BOOLEAN]]
      /\ text \in [Updates -> Texts] /\ persona \in BOOLEAN
      /\ pc # "idle" => mine \in Updates
  BY DEF Typed, TypeOK, AtHand
<1>1. CASE \/ \E u \in Updates : Enqueue(u) \/ PressDropped(u) \/ RecoverStuck(u)
           \/ Heartbeat \/ UNCHANGED vars
  BY <1>1, Beside DEF Placed, Silent, Spoken
<1>2. CASE Complete \/ Raise \/ Crash
  BY <1>2, Ending DEF Placed, Silent, Spoken
<1>3. CASE \E u \in Updates : Claim(u)
  BY <1>3 DEF Claim, Placed, Silent, Spoken, asked, chat
<1>4. CASE Handler
  <2>f. mine \in Updates /\ mine' = mine /\ text' = text
    BY <1>4, <1>t, HandlerFrame
  <2>1. CASE StoreUserMessageOnce
    <3>1. reply' = reply /\ persona' = persona /\ seen'.persona = persona
      BY <2>1 DEF StoreUserMessageOnce
    <3>2. /\ text[mine] \in {"chat", "soft", "hard"}
          /\ pc' = (IF reply[mine].voice = "none" THEN Branch(text[mine])
                    ELSE IF reply[mine].sent THEN "return" ELSE "send")
      BY <2>1 DEF StoreUserMessageOnce, Resume
    <3>3. reply[mine].voice = "none" => reply[mine] = NoReply
      BY <1>t, <2>f DEF Placed, NoReply
    <3> QED
      BY <3>1, <3>2, <3>3, <2>f DEF Placed, Silent, Spoken, Branch, Plain
  <2>2. CASE LowerIntensity
    BY <2>2, <2>f DEF LowerIntensity, Goto, Placed, Silent, Spoken
  <2>3. CASE RunHardPause
    <3>1. reply[mine].voice = "none" => reply[mine] = NoReply
      BY <1>t, <2>f DEF Placed, NoReply
    <3> QED
      BY <2>3, <2>f, <3>1 DEF RunHardPause, Goto, Placed, Silent, Spoken
  <2>4. CASE CancelOutbound \/ RunResume \/ GenerateNothing \/ RefuseToGenerate
    BY <2>4, <2>f DEF CancelOutbound, RunResume, GenerateNothing, RefuseToGenerate, Goto, chat,
                      Placed, Silent, Spoken
  <2>5. CASE WelfareOff \/ RetagAsWelfare \/ WelfareCancel
    BY <2>5, <2>f DEF WelfareOff, RetagAsWelfare, WelfareCancel, Goto, chat, Placed, Silent,
                      Spoken
  <2>6. ASSUME NEW voice \in Voices \ {"none"}, Insert(voice), persona' = persona,
               IF reply[mine].sent THEN pc' = "return" ELSE pc' = "send"
        PROVE  Placed'
    <3>1. /\ reply'[mine].voice # "none" /\ reply'[mine].sent = reply[mine].sent
          /\ \A u \in Updates : u # mine => reply'[u] = reply[u]
      BY <2>6, <1>t, <2>f DEF Insert, Placed
    <3> QED
      BY <2>6, <3>1, <2>f, <1>t DEF Placed, Silent, Spoken
  <2>7. CASE SendCannedReply
    BY <2>6, <2>7 DEF SendCannedReply, Goto, Voices
  <2>8. CASE GenerateReply \/ WelfareReply
    <3>1. reply[mine] = NoReply
      BY <2>8 DEF GenerateReply, WelfareReply, Placed, Silent
    <3> QED
      BY <2>6, <2>8, <3>1 DEF GenerateReply, WelfareReply, Goto, Voices, NoReply
  <2>9. CASE SendReply \/ Apologise
    BY <2>9, <2>f DEF SendReply, Apologise, Goto, chat, Placed, Silent, Spoken
  <2>10. CASE MarkSent
    BY <2>10, <2>f, <1>t DEF MarkSent, Goto, Placed, Silent, Spoken
  <2>11. CASE EnqueueExtract
    BY <2>11, <2>f DEF EnqueueExtract, Goto, Placed, Silent, Spoken
  <2> QED
    BY <1>4, <2>1, <2>2, <2>3, <2>4, <2>5, <2>7, <2>8, <2>9, <2>10, <2>11 DEF Handler
<1> QED
  BY <1>1, <1>2, <1>3, <1>4 DEF Next, Worker

LEMMA AlwaysPlaced == Spec => [](Typed /\ Placed)
<1>1. Init => Placed
  BY DEF Init, Placed, Silent, Spoken, NoReply
<1> QED
  BY <1>1, TypedInit, TypedNext, PlacedNext, PTL DEF Spec

-----------------------------------------------------------------------------
(* The off-switch and replays.                                              *)

\* A run answers in the persona's voice only from a snapshot that still holds:
\* the persona is on when the reply row is written and stays on with it,
\* although user_state was read steps before.
THEOREM VoiceNeedsPersona == Spec => PersonaSpeaksOnlyWhileActive
<1>1. ASSUME Typed, Placed, [Next]_vars,
             NEW u \in Updates, reply[u].voice = "none", reply'[u].voice = "persona"
      PROVE  persona /\ persona'
  <2>1. CASE \/ \E v \in Updates : Enqueue(v) \/ PressDropped(v) \/ RecoverStuck(v)
             \/ Heartbeat \/ UNCHANGED vars
    BY <1>1, <2>1, Beside
  <2>2. CASE Complete \/ Raise \/ Crash
    BY <1>1, <2>2, Ending
  <2>3. CASE \E v \in Updates : Claim(v)
    BY <1>1, <2>3 DEF Claim, chat
  <2>4. CASE Handler
    <3>1. mine \in Updates /\ reply \in [Updates -> [voice : Voices, sent : BOOLEAN]]
      BY <2>4, <1>1, HandlerFrame DEF Typed, TypeOK, AtHand
    <3>2. CASE reply' = reply
      BY <1>1, <3>2
    <3>3. CASE SendCannedReply \/ WelfareReply \/ MarkSent
      BY <1>1, <3>1, <3>3 DEF SendCannedReply, WelfareReply, MarkSent, Insert
    <3>4. CASE GenerateReply
      BY <1>1, <3>1, <3>4 DEF GenerateReply, Insert, Placed
    <3> QED
      BY <2>4, <3>2, <3>3, <3>4
         DEF Handler, StoreUserMessageOnce, LowerIntensity, RunHardPause, CancelOutbound,
             RunResume, GenerateNothing, RefuseToGenerate, WelfareOff, RetagAsWelfare,
             WelfareCancel, SendReply, Apologise, EnqueueExtract, chat
  <2> QED
    BY <1>1, <2>1, <2>2, <2>3, <2>4 DEF Next, Worker
<1>2. Typed /\ Placed /\ [Next]_vars =>
        [\A u \in Updates : reply[u].voice = "none" /\ reply'[u].voice = "persona"
                             => persona /\ persona']_vars
  BY <1>1
<1> QED
  BY <1>2, AlwaysPlaced, PTL DEF Spec, PersonaSpeaksOnlyWhileActive

\* A replay of an answered update moves neither the off-switch nor the intensity
\* and audits nothing: step 2 of run comes before every state mutation.
THEOREM ReplayIsInert == Spec => AnsweredReplayIsInert
<1>1. ASSUME Typed, Placed, [Next]_vars,
             NEW u \in Updates, mine = u, reply[u].voice # "none"
      PROVE  UNCHANGED <<persona, intensity, changes>>
  <2>1. CASE \/ \E v \in Updates : Enqueue(v) \/ PressDropped(v) \/ RecoverStuck(v)
             \/ Heartbeat \/ UNCHANGED vars
    BY <2>1, Beside
  <2>2. CASE Complete \/ Raise \/ Crash
    BY <2>2, Ending
  <2>3. CASE \E v \in Updates : Claim(v)
    BY <2>3 DEF Claim, chat
  <2>4. pc \notin Silent
    BY <1>1 DEF Placed, NoReply
  <2>5. CASE RunHardPause \/ RunResume
    BY <1>1, <2>5 DEF RunHardPause, RunResume
  <2>6. ~LowerIntensity /\ ~WelfareOff
    BY <2>4 DEF LowerIntensity, WelfareOff, Silent
  <2>7. CASE Handler
    BY <2>5, <2>6, <2>7
       DEF Handler, StoreUserMessageOnce, CancelOutbound, SendCannedReply, GenerateReply,
           GenerateNothing, RefuseToGenerate, RetagAsWelfare, WelfareCancel, WelfareReply,
           SendReply, Apologise, MarkSent, EnqueueExtract, chat
  <2> QED
    BY <1>1, <2>1, <2>2, <2>3, <2>7 DEF Next, Worker
<1>2. Typed /\ Placed /\ [Next]_vars =>
        [\A u \in Updates : mine = u /\ reply[u].voice # "none"
                             => UNCHANGED <<persona, intensity, changes>>]_vars
  BY <1>1
<1> QED
  BY <1>2, AlwaysPlaced, PTL DEF Spec, AnsweredReplayIsInert

-----------------------------------------------------------------------------
(* What has reached the user.                                               *)

\* An update is completed by its own run, and stays completed.
LEMMA DoneGrows ==
    ASSUME Typed, [Next]_vars, NEW u \in Updates
    PROVE  /\ Done(u) => Done(u)' /\ u # mine
           /\ Done(u)' => Done(u) \/ (pc = "return" /\ Complete /\ u = mine)
<1>1. rows[u] \in Row /\ rows \in [Updates -> Row] /\ (Done(u) => u # mine)
  BY TurnAssumption DEF Typed, TypeOK, AtHand, Done
<1>2. CASE \E v \in Updates : Enqueue(v) \/ PressDropped(v) \/ RecoverStuck(v)
  <2>1. ASSUME NEW v \in Updates, Enqueue(v) PROVE Done(u)' <=> Done(u)
    BY <1>1, <2>1 DEF Enqueue, Inserted, Missing, Done, Row
  <2>2. ASSUME NEW v \in Updates, PressDropped(v) PROVE Done(u)' <=> Done(u)
    BY <2>2 DEF PressDropped, chat, Done
  <2>3. ASSUME NEW v \in Updates, RecoverStuck(v) PROVE Done(u)' <=> Done(u)
    <3>1. rows[v].status = "processing" /\ rows' = [rows EXCEPT ![v] = rows'[v]]
          /\ rows'[v].status # "done"
      BY <1>1, <2>3 DEF RecoverStuck, Recovered, Stuck, Row
    <3> QED
      BY <1>1, <3>1 DEF Done
  <2> QED
    BY <1>1, <1>2, <2>1, <2>2, <2>3
<1>3. CASE Heartbeat \/ UNCHANGED vars
  BY <1>1, <1>3 DEF Heartbeat, Admit, Plan, SendPlanned, vars, Done
<1>4. CASE \E v \in Updates : Claim(v)
  BY <1>1, <1>4 DEF Claim, Oldest, Waiting, Claimed, Done
<1>5. CASE Handler
  BY <1>1, <1>5, HandlerFrame DEF Done
<1>6. CASE Complete
  <2>1. mine \in Updates /\ rows' = [rows EXCEPT ![mine] = Completed(@)]
    BY <1>6 DEF Complete, Typed, TypeOK, AtHand
  <2> QED
    BY <1>1, <1>6, <2>1 DEF Complete, Completed, Done, Typed, AtHand, Row
<1>7. CASE Raise
  <2>1. mine \in Updates /\ rows' = [rows EXCEPT ![mine] = Failed(@)]
    BY <1>7 DEF Raise, Typed, TypeOK, AtHand
  <2> QED
    BY <1>1, <2>1 DEF Failed, Done, Row
<1>8. CASE Crash
  BY <1>1, <1>8 DEF Crash, Done
<1> QED
  BY <1>2, <1>3, <1>4, <1>5, <1>6, <1>7, <1>8 DEF Next, Worker

\* A reply row is written once, by the run at hand, and only its mark changes.
LEMMA ReplyGrows ==
    ASSUME Typed, Placed, [Next]_vars, NEW u \in Updates
    PROVE  /\ reply'[u] # reply[u] => u = mine /\ mine' = mine /\ Handler /\ ~reply[u].sent
           /\ reply[u].voice # "none" => reply'[u].voice = reply[u].voice
           /\ reply[u].sent => reply'[u].sent
           /\ reply'[u].sent => reply[u].sent \/ (pc = "mark" /\ u = mine)
           /\ reply'[u].voice # "none" =>
                reply[u].voice # "none" \/ (pc \in {"canned", "generate", "console"} /\ u = mine)
<1>t. /\ reply \in [Updates -> [voice : Voices, sent : BOOLEAN]]
      /\ pc # "idle" => mine \in Updates
  BY DEF Typed, TypeOK, AtHand
<1>p. \A v \in Updates : reply[v].sent => reply[v].voice # "none"
  BY DEF Placed
<1>1. CASE reply' = reply
  BY <1>1
<1>2. CASE SendCannedReply \/ GenerateReply \/ WelfareReply
  <2>1. Handler /\ mine \in Updates
    BY <1>2, <1>t DEF Handler, SendCannedReply, GenerateReply, WelfareReply
  <2>2. PICK voice \in Voices : Insert(voice)
    BY <1>2 DEF SendCannedReply, GenerateReply, WelfareReply, Voices
  <2>3. reply[mine].voice = "none" => ~reply[mine].sent
    BY <1>p, <2>1
  <2>4. pc \in {"canned", "generate", "console"} /\ mine' = mine
    BY <1>2 DEF SendCannedReply, GenerateReply, WelfareReply, Goto
  <2>5. CASE reply[mine].voice = "none" /\ u = mine
    <3>1. reply'[u] = [voice |-> voice, sent |-> FALSE]
      BY <2>1, <2>2, <2>5, <1>t DEF Insert
    <3> QED
      BY <2>1, <2>3, <2>4, <2>5, <3>1
  <2>6. CASE reply[mine].voice # "none" \/ u # mine
    <3>1. reply'[u] = reply[u]
      BY <2>1, <2>2, <2>6, <1>t DEF Insert
    <3> QED
      BY <3>1
  <2> QED
    BY <2>5, <2>6
<1>3. CASE MarkSent
  <2>1. Handler /\ mine \in Updates /\ ~reply[mine].sent
    BY <1>3, <1>t DEF Handler, MarkSent, Placed
  <2> QED
    BY <1>3, <2>1, <1>t DEF MarkSent, Goto
<1>4. CASE \E v \in Updates : Claim(v)
  BY <1>1, <1>4 DEF Claim, chat
<1>5. CASE Handler
  BY <1>1, <1>2, <1>3, <1>5
     DEF Handler, StoreUserMessageOnce, LowerIntensity, RunHardPause, CancelOutbound, RunResume,
         GenerateNothing, RefuseToGenerate, WelfareOff, RetagAsWelfare, WelfareCancel,
         SendReply, Apologise, EnqueueExtract, chat
<1> QED
  BY <1>1, <1>4, <1>5, Beside, Ending DEF Next, Worker

\* One more delivery, of one chunk, of the update at hand.
LEMMA ReachesOne ==
    ASSUME Typed, mine \in Updates, NEW c \in 1..Chunks, Reaches(c),
           NEW u \in Updates, NEW d \in 1..Chunks
    PROVE  delivered'[u][d] = IF u = mine /\ d = c THEN delivered[u][d] + 1
                                                   ELSE delivered[u][d]
<1>1. delivered \in [Updates -> [1..Chunks -> Nat]]
  BY DEF Typed, TypeOK
<1>2. delivered' = [delivered EXCEPT ![mine] = [delivered[mine] EXCEPT ![c] = @ + 1]]
  BY <1>1 DEF Reaches
<1>3. ASSUME NEW f \in [1..Chunks -> Nat]
      PROVE  [f EXCEPT ![c] = @ + 1][d] = IF d = c THEN f[d] + 1 ELSE f[d]
  OBVIOUS
<1>4. delivered[mine] \in [1..Chunks -> Nat]
  BY <1>1
<1> QED
  BY <1>1, <1>2, <1>3, <1>4

\* Deliveries only add up.
LEMMA DeliveredGrows ==
    ASSUME Typed, [Next]_vars, NEW u \in Updates, NEW d \in 1..Chunks
    PROVE  /\ delivered[u][d] \in Nat /\ delivered'[u][d] \in Nat
           /\ delivered'[u][d] >= delivered[u][d]
           /\ delivered'[u][d] # delivered[u][d] =>
                /\ u = mine /\ Handler /\ delivered'[u][d] = delivered[u][d] + 1
                /\ \/ pc = "send" /\ d = chunk
                   \/ pc = "apologise" /\ d = 1
<1>1. delivered[u][d] \in Nat
  <2>1. delivered[u] \in [1..Chunks -> Nat]
    BY DEF Typed, TypeOK
  <2> QED
    BY <2>1
<1>2. CASE delivered' = delivered
  BY <1>1, <1>2
<1>3. CASE SendReply
  <2>1. mine \in Updates /\ chunk \in 1..Chunks /\ Reaches(chunk) /\ pc = "send" /\ Handler
    BY <1>3 DEF SendReply, Typed, TypeOK, AtHand, Handler
  <2> QED
    BY <1>1, <2>1, ReachesOne
<1>4. CASE Apologise
  <2>1. mine \in Updates /\ 1 \in 1..Chunks /\ Reaches(1) /\ pc = "apologise" /\ Handler
    BY <1>4, TurnAssumption DEF Apologise, Typed, TypeOK, AtHand, Handler
  <2> QED
    BY <1>1, <2>1, ReachesOne
<1>5. CASE \E v \in Updates : Claim(v)
  BY <1>2, <1>5 DEF Claim, history
<1>6. CASE Handler
  BY <1>2, <1>3, <1>4, <1>6
     DEF Handler, StoreUserMessageOnce, LowerIntensity, RunHardPause, CancelOutbound, RunResume,
         SendCannedReply, GenerateReply, GenerateNothing, RefuseToGenerate, WelfareOff,
         RetagAsWelfare, WelfareCancel, WelfareReply, MarkSent, EnqueueExtract, history
<1> QED
  BY <1>2, <1>5, <1>6, Beside, Ending DEF Next, Worker

\* What is recorded as answered has reached the user whole, and a run in the
\* middle of a reply has sent what comes before the next chunk.
Answered ==
    /\ \A u \in Updates : Done(u) \/ reply[u].sent => \A c \in 1..Length(u) : delivered[u][c] > 0
    /\ pc \notin {"send", "mark", "extract", "return"} => chunk = 1
    /\ pc = "send" => \A c \in 1..Chunks : c < chunk => delivered[mine][c] > 0
    /\ pc \in {"mark", "return"} => \A c \in 1..Length(mine) : delivered[mine][c] > 0

LEMMA AnsweredNext == Typed /\ Placed /\ Answered /\ [Next]_vars => Answered'
<1> SUFFICES ASSUME Typed, Placed, Answered, [Next]_vars PROVE Answered'
  OBVIOUS
<1>t. /\ reply \in [Updates -> [voice : Voices, sent : BOOLEAN]]
      /\ pc # "idle" => mine \in Updates
      /\ chunk \in 1..Chunks /\ Chunks \in Nat /\ 1 \in 1..Chunks
  BY TurnAssumption DEF Typed, TypeOK, AtHand
<1>l. ASSUME NEW u \in Updates
      PROVE  /\ Length(u) \in 1..Chunks
             /\ reply'[u].voice = reply[u].voice => Length(u)' = Length(u)
  BY <1>t DEF Length
<1>d. ASSUME NEW u \in Updates, NEW c \in 1..Chunks, delivered[u][c] > 0
      PROVE  delivered'[u][c] > 0
  BY <1>d, DeliveredGrows
<1>a. ASSUME NEW u \in Updates, Done(u)' \/ reply'[u].sent, NEW c \in 1..Length(u)'
      PROVE  delivered'[u][c] > 0
  <2>1. Done(u) \/ reply[u].sent \/ (pc \in {"mark", "return"} /\ u = mine)
    BY <1>a, DoneGrows, ReplyGrows
  <2>2. reply'[u].voice = reply[u].voice
    <3>1. CASE Done(u)
      BY <3>1, DoneGrows, ReplyGrows
    <3>2. CASE reply[u].sent \/ (pc = "mark" /\ u = mine)
      BY <3>2, ReplyGrows DEF Placed
    <3>3. CASE pc = "return" /\ u = mine
      BY <3>3, ReplyGrows
    <3> QED
      BY <2>1, <3>1, <3>2, <3>3
  <2>3. c \in 1..Length(u) /\ c \in 1..Chunks
    BY <2>2, <1>l, <1>t
  <2>4. delivered[u][c] > 0
    BY <2>1, <2>3 DEF Answered
  <2> QED
    BY <2>3, <2>4, <1>d
<1>b. ASSUME mine' = mine, pc # "idle", pc' = pc, chunk' = chunk, reply' = reply
      PROVE  Answered'
  BY <1>a, <1>b, <1>d, <1>l, <1>t DEF Answered
<1>1. CASE \/ \E u \in Updates : Enqueue(u) \/ PressDropped(u) \/ RecoverStuck(u)
           \/ Heartbeat \/ UNCHANGED vars
  <2>1. CASE pc = "idle"
    BY <1>1, <1>a, <2>1, Beside DEF Answered
  <2> QED
    BY <1>1, <1>b, <2>1, Beside
<1>2. CASE Complete \/ Raise \/ Crash
  BY <1>2, <1>a, Ending DEF Answered
<1>3. CASE \E u \in Updates : Claim(u)
  BY <1>3, <1>a DEF Claim, Answered
<1>4. CASE Handler
  <2>f. mine \in Updates /\ mine' = mine /\ pc # "idle"
    BY <1>4, <1>t, HandlerFrame
  <2>1. CASE SendReply
    <3>1. /\ chunk \in 1..Chunks /\ mine \in Updates /\ Reaches(chunk) /\ pc = "send"
          /\ Length(mine)' = Length(mine)
      BY <2>1, <1>t, <2>f, <1>l DEF SendReply, chat
    <3>2. \A c \in 1..Chunks : c <= chunk => delivered'[mine][c] > 0
      <4>1. ASSUME NEW c \in 1..Chunks, c < chunk PROVE delivered'[mine][c] > 0
        BY <3>1, <4>1, <1>d DEF Answered
      <4>2. delivered'[mine][chunk] > 0
        BY <3>1, ReachesOne, DeliveredGrows
      <4> QED
        BY <4>1, <4>2, <1>t
    <3>3. CASE chunk < Length(mine)
      BY <2>1, <2>f, <3>1, <3>2, <3>3, <1>a, <1>t, <1>l DEF SendReply, Answered
    <3>4. CASE ~(chunk < Length(mine))
      <4>1. \A c \in 1..Length(mine) : delivered'[mine][c] > 0
        BY <2>f, <3>2, <3>4, <1>l, <1>t
      <4> QED
        BY <2>1, <2>f, <3>1, <3>4, <4>1, <1>a DEF SendReply, Goto, Answered
    <3> QED
      BY <3>3, <3>4
  <2>2. CASE Apologise
    <3>1. /\ mine \in Updates /\ Reaches(1) /\ Length(mine)' = 1 /\ pc' = "return"
          /\ 1 \in 1..Chunks
      BY <2>2, <2>f, <1>t DEF Apologise, Goto, chat, Placed, Silent, NoReply, Length
    <3>2. delivered'[mine][1] > 0
      BY <3>1, ReachesOne, DeliveredGrows
    <3> QED
      BY <2>f, <3>1, <3>2, <1>a DEF Answered
  <2>3. CASE MarkSent \/ EnqueueExtract
    <3>1. pc' \in {"extract", "return"} /\ reply'[mine].sent
      BY <2>3, <2>f, <1>t DEF MarkSent, EnqueueExtract, Goto, Placed
    <3> QED
      BY <2>f, <3>1, <1>a DEF Answered
  <2>4. ASSUME pc \notin {"send", "mark", "extract", "return"}, chunk' = chunk,
               pc' # "mark", pc' = "return" => reply'[mine].sent
        PROVE  Answered'
    BY <2>4, <2>f, <1>a, <1>t DEF Answered
  <2>5. CASE StoreUserMessageOnce
    BY <2>4, <2>5 DEF StoreUserMessageOnce, Resume, Branch
  <2>6. CASE SendCannedReply \/ GenerateReply \/ WelfareReply
    <3>1. reply[mine].sent => reply'[mine].sent
      BY <2>f, ReplyGrows
    <3>2. pc = "console" => reply[mine].voice = "none"
      BY DEF Placed, Silent, NoReply
    <3> QED
      BY <2>4, <2>6, <3>1, <3>2 DEF SendCannedReply, GenerateReply, WelfareReply, Goto
  <2>7. CASE \/ LowerIntensity \/ RunHardPause \/ CancelOutbound \/ RunResume
             \/ GenerateNothing \/ RefuseToGenerate
    BY <2>4, <2>7 DEF LowerIntensity, RunHardPause, CancelOutbound, RunResume,
                      GenerateNothing, RefuseToGenerate, Goto
  <2>8. CASE WelfareOff \/ RetagAsWelfare \/ WelfareCancel
    BY <2>4, <2>8 DEF WelfareOff, RetagAsWelfare, WelfareCancel, Goto
  <2> QED
    BY <1>4, <2>1, <2>2, <2>3, <2>5, <2>6, <2>7, <2>8 DEF Handler
<1> QED
  BY <1>1, <1>2, <1>3, <1>4 DEF Next, Worker

\* Whatever crashes and retries came before, an update is completed only after
\* its whole reply has reached the user.
THEOREM DoneMeansAnswered == Spec => []AnsweredWhenDone
<1>1. Init => Answered
  BY DEF Init, Answered, Done, NoReply, AbsentRow
<1>2. Answered => AnsweredWhenDone
  BY DEF Answered, AnsweredWhenDone
<1> QED
  BY <1>1, <1>2, AlwaysPlaced, AnsweredNext, PTL DEF Spec

\* The delivery of a chunk that is, or is about to be, recorded.
Owed(u, c) == \/ reply[u].sent \/ Done(u)
              \/ mine = u /\ ((pc = "send" /\ c < chunk) \/ pc \in {"mark", "return"})

\* Every other delivery of it is owed to a run that was cut off.
Ledger == \A u \in Updates : \A c \in 1..Chunks :
    \/ delivered[u][c] <= unmarked[u]
    \/ Owed(u, c) /\ delivered[u][c] <= 1 + unmarked[u]

\* A run that ends badly after sending leaves its mark in unmarked.
LEMMA CutOffCounts ==
    ASSUME Typed, Placed, Raise \/ Crash, NEW u \in Updates, NEW c \in 1..Chunks
    PROVE  /\ unmarked[u] \in Nat /\ unmarked'[u] \in Nat /\ unmarked'[u] >= unmarked[u]
           /\ Owed(u, c) => Owed(u, c)' \/ unmarked'[u] = unmarked[u] + 1
<1>0. /\ unmarked \in [Updates -> Nat] /\ (pc # "idle" => mine \in Updates)
      /\ chunk \in 1..Chunks
  BY DEF Typed, TypeOK, AtHand
<1>1. /\ unmarked \in [Updates -> Nat] /\ (pc # "idle" => mine \in Updates)
      /\ chunk \in Nat /\ c \in Nat /\ c >= 1 /\ reply' = reply
  <2>1. Chunks \in Nat
    BY TurnAssumption
  <2>2. chunk \in Nat /\ c \in Nat /\ c >= 1
    BY <1>0, <2>1
  <2>3. reply' = reply
    BY Ending
  <2> QED
    BY <1>0, <2>2, <2>3
<1>2. Done(u) => Done(u)'
  BY DoneGrows DEF Next
<1>3. CASE pc = "idle"
  <2>1. Crash
    BY <1>3 DEF Raise
  <2> QED
    BY <1>1, <1>2, <1>3, <2>1 DEF Crash, Owed
<1>4. CASE pc # "idle"
  <2>1. CutOff /\ mine \in Updates
    BY <1>1, <1>4 DEF Raise, Crash
  <2>2. /\ unmarked'[u] = IF u = mine /\ Unrecorded THEN unmarked[u] + 1 ELSE unmarked[u]
    BY <1>1, <2>1 DEF CutOff
  <2>3. ASSUME mine = u, (pc = "send" /\ c < chunk) \/ pc \in {"mark", "return"}
        PROVE  Unrecorded \/ reply[u].sent
    BY <2>3, <1>1 DEF Unrecorded, Placed, NoReply
  <2> QED
    BY <1>1, <1>2, <2>2, <2>3 DEF Owed
<1> QED
  BY <1>3, <1>4

LEMMA LedgerNext == Typed /\ Placed /\ Ledger /\ [Next]_vars => Ledger'
<1> SUFFICES ASSUME Typed, Placed, Ledger, [Next]_vars,
                    NEW u \in Updates, NEW c \in 1..Chunks
             PROVE  \/ delivered'[u][c] <= unmarked'[u]
                    \/ Owed(u, c)' /\ delivered'[u][c] <= 1 + unmarked'[u]
  BY DEF Ledger
<1>0. /\ reply \in [Updates -> [voice : Voices, sent : BOOLEAN]]
      /\ pc # "idle" => mine \in Updates
      /\ chunk \in 1..Chunks /\ unmarked[u] \in Nat
  BY DEF Typed, TypeOK, AtHand
<1>t. /\ reply \in [Updates -> [voice : Voices, sent : BOOLEAN]]
      /\ pc # "idle" => mine \in Updates
      /\ chunk \in Nat /\ c \in Nat /\ NoUpdate \notin Updates
      /\ delivered[u][c] \in Nat /\ unmarked[u] \in Nat
  BY <1>0, TurnAssumption, DeliveredGrows
<1>i. \/ delivered[u][c] <= unmarked[u]
      \/ Owed(u, c) /\ delivered[u][c] <= 1 + unmarked[u]
  BY DEF Ledger
<1>s. reply[u].sent \/ Done(u) => reply'[u].sent \/ Done(u)'
  BY DoneGrows, ReplyGrows
<1>k. ASSUME unmarked' = unmarked, delivered'[u][c] = delivered[u][c],
             Owed(u, c) => Owed(u, c)'
      PROVE  \/ delivered'[u][c] <= unmarked'[u]
             \/ Owed(u, c)' /\ delivered'[u][c] <= 1 + unmarked'[u]
  BY <1>i, <1>k
<1>1. CASE \/ \E v \in Updates : Enqueue(v) \/ PressDropped(v) \/ RecoverStuck(v)
           \/ Heartbeat \/ UNCHANGED vars
  BY <1>1, <1>k, <1>s, Beside DEF Owed
<1>2. CASE Complete
  <2>1. delivered' = delivered /\ unmarked' = unmarked
    BY <1>2 DEF Complete, history
  <2>2. mine = u => Done(u)'
    <3>1. rows \in [Updates -> Row] /\ (mine = u => rows[u].status = "processing")
      BY <1>t DEF Typed, TypeOK, AtHand
    <3> QED
      BY <1>2, <3>1 DEF Complete, Completed, Done, Row
  <2> QED
    BY <2>1, <2>2, <1>k, <1>s DEF Owed
<1>3. CASE Raise \/ Crash
  <2>1. delivered' = delivered
    BY <1>3, Ending
  <2> QED
    BY <1>3, <1>i, <1>t, <2>1, CutOffCounts
<1>4. CASE \E v \in Updates : Claim(v)
  <2>1. UNCHANGED <<delivered, unmarked>> /\ pc = "idle"
    BY <1>4 DEF Claim, history
  <2> QED
    BY <1>k, <1>s, <2>1 DEF Owed
<1>5. CASE Handler
  <2>f. mine \in Updates /\ mine' = mine /\ unmarked' = unmarked
    BY <1>5, <1>t, HandlerFrame
  <2>1. CASE delivered'[u][c] # delivered[u][c]
    <3>1. /\ u = mine /\ delivered'[u][c] = delivered[u][c] + 1
          /\ (pc = "send" /\ c = chunk) \/ (pc = "apologise" /\ c = 1)
      BY <2>1, DeliveredGrows
    <3>2. ~Owed(u, c)
      <4>1. ~Done(u)
        BY <3>1, DoneGrows
      <4>2. ~reply[u].sent
        BY <3>1 DEF Placed, Silent, NoReply
      <4> QED
        BY <3>1, <4>1, <4>2, <1>t DEF Owed
    <3>3. Owed(u, c)'
      <4>1. pc = "send" => SendReply
        BY <1>5 DEF Handler, StoreUserMessageOnce, LowerIntensity, RunHardPause, CancelOutbound,
                    RunResume, SendCannedReply, GenerateReply, GenerateNothing,
                    RefuseToGenerate, WelfareOff, RetagAsWelfare, WelfareCancel, WelfareReply,
                    Apologise, MarkSent, EnqueueExtract
      <4>2. pc = "apologise" => Apologise
        BY <1>5 DEF Handler, StoreUserMessageOnce, LowerIntensity, RunHardPause, CancelOutbound,
                    RunResume, SendCannedReply, GenerateReply, GenerateNothing,
                    RefuseToGenerate, WelfareOff, RetagAsWelfare, WelfareCancel, WelfareReply,
                    SendReply, MarkSent, EnqueueExtract
      <4>3. CASE pc = "send"
        BY <2>f, <3>1, <4>1, <4>3, <1>t DEF SendReply, Goto, Owed
      <4>4. CASE pc = "apologise"
        BY <2>f, <3>1, <4>2, <4>4 DEF Apologise, Goto, Owed
      <4> QED
        BY <3>1, <4>3, <4>4
    <3> QED
      BY <1>i, <1>t, <2>f, <3>1, <3>2, <3>3
  <2>2. CASE delivered'[u][c] = delivered[u][c]
    <3>1. Owed(u, c) => Owed(u, c)'
      <4>1. CASE SendReply
        BY <4>1, <1>s, <1>t, <2>f DEF SendReply, Goto, Owed
      <4>2. CASE MarkSent
        BY <4>2, <1>s, <1>t, <2>f DEF MarkSent, Goto, Owed
      <4>3. CASE pc \notin {"send", "mark", "return"}
        BY <4>3, <1>s DEF Owed
      <4> QED
        BY <1>5, <4>1, <4>2, <4>3
           DEF Handler, StoreUserMessageOnce, LowerIntensity, RunHardPause, CancelOutbound,
               RunResume, SendCannedReply, GenerateReply, GenerateNothing, RefuseToGenerate,
               WelfareOff, RetagAsWelfare, WelfareCancel, WelfareReply, Apologise,
               EnqueueExtract
    <3> QED
      BY <1>k, <2>2, <2>f, <3>1
  <2> QED
    BY <2>1, <2>2
<1> QED
  BY <1>1, <1>2, <1>3, <1>4, <1>5 DEF Next, Worker

\* The user gets a chunk twice only when a run was cut off between sending it
\* and recording that.
THEOREM OneReply == Spec => []OneReplyUnlessCut
<1>1. Init => Ledger
  BY DEF Init, Ledger
<1>2. Typed /\ Ledger => OneReplyUnlessCut
  <2> SUFFICES ASSUME Typed, Ledger, NEW u \in Updates, NEW c \in 1..Chunks
               PROVE  delivered[u][c] <= 1 + unmarked[u]
    BY DEF OneReplyUnlessCut
  <2>1. delivered[u] \in [1..Chunks -> Nat] /\ unmarked[u] \in Nat
    BY DEF Typed, TypeOK
  <2>2. delivered[u][c] \in Nat
    BY <2>1
  <2> QED
    BY <2>1, <2>2 DEF Ledger
<1> QED
  BY <1>1, <1>2, AlwaysPlaced, LedgerNext, PTL DEF Spec

-----------------------------------------------------------------------------
(* What a pause has done.                                                   *)

\* A command that is answered or completed has moved the persona and, a pause,
\* cancelled what was planned; the run that is about to answer it has too.
Carried ==
    /\ \A u \in Updates : (reply[u].voice # "none" \/ Done(u)) /\ text[u] \in Commands
                           => changes[u] > 0 /\ u \notin halting
    /\ pc \in {"cancel", "canned"} /\ text[mine] \in Commands => changes[mine] > 0
    /\ pc = "canned" /\ text[mine] \in Commands => mine \notin halting
    /\ \A u \in halting : text[u] # "in"

\* Audit rows only add up, one at a time, for the update at hand while it has no
\* reply.
LEMMA ChangesGrow ==
    ASSUME Typed, Placed, [Next]_vars, NEW u \in Updates
    PROVE  /\ changes[u] \in Nat /\ changes'[u] \in Nat /\ changes'[u] >= changes[u]
           /\ changes'[u] # changes[u] =>
                /\ u = mine /\ Handler /\ changes'[u] = changes[u] + 1
                /\ reply[u].voice = "none"
                /\ LowerIntensity \/ RunHardPause \/ RunResume \/ WelfareOff
<1>1. changes \in [Updates -> Nat] /\ changes[u] \in Nat
  BY DEF Typed, TypeOK
<1>2. CASE changes' = changes
  BY <1>1, <1>2
<1>3. CASE LowerIntensity \/ RunHardPause \/ RunResume \/ WelfareOff
  <2>1. /\ pc # "idle" /\ Handler
        /\ changes' # changes => Audited /\ reply[mine].voice = "none"
    BY <1>3 DEF LowerIntensity, RunHardPause, RunResume, WelfareOff, Handler, Placed, Silent,
                NoReply
  <2>2. mine \in Updates
    BY <2>1 DEF Typed, TypeOK, AtHand
  <2> QED
    BY <1>1, <1>2, <1>3, <2>1, <2>2 DEF Audited
<1>4. CASE \E v \in Updates : Claim(v)
  BY <1>2, <1>4 DEF Claim, chat
<1>5. CASE Handler
  BY <1>2, <1>3, <1>5
     DEF Handler, StoreUserMessageOnce, CancelOutbound, SendCannedReply, GenerateReply,
         GenerateNothing, RefuseToGenerate, RetagAsWelfare, WelfareCancel, WelfareReply,
         SendReply, Apologise, MarkSent, EnqueueExtract, chat
<1> QED
  BY <1>2, <1>4, <1>5, Beside, Ending DEF Next, Worker

LEMMA CarriedNext == Typed /\ Placed /\ Carried /\ [Next]_vars => Carried'
<1> SUFFICES ASSUME Typed, Placed, Carried, [Next]_vars PROVE Carried'
  OBVIOUS
<1>t. /\ text \in [Updates -> Texts] /\ (pc # "idle" => mine \in Updates)
      /\ reply \in [Updates -> [voice : Voices, sent : BOOLEAN]]
      /\ changes \in [Updates -> Nat] /\ halting \subseteq Updates
  BY DEF Typed, TypeOK, AtHand
<1>p. Plain \intersect Commands = {}
  BY DEF Plain, Commands
<1>x. text' = text
  BY Beside, Ending, HandlerFrame DEF Next, Worker, Claim, asked
<1>g. \A u \in Updates : changes[u] > 0 => changes'[u] > 0
  BY ChangesGrow
<1>a. ASSUME NEW u \in Updates, reply'[u].voice # "none" \/ Done(u)', text[u] \in Commands,
             halting' \subseteq halting \/ (halting' \subseteq halting \union {mine}
                                             /\ (text[mine] \in Commands
                                                 => reply[mine].voice = "none" /\ pc # "canned"))
      PROVE  changes'[u] > 0 /\ u \notin halting'
  <2>1. /\ pc \in {"generate", "console"} /\ u = mine => text[u] \in Plain
        /\ pc = "return" /\ u = mine => reply[u].voice # "none" \/ text[u] \in Plain
    BY DEF Placed, Spoken
  <2>2. (reply[u].voice # "none" \/ Done(u)) \/ (pc = "canned" /\ u = mine)
    BY <1>a, <1>p, <2>1, DoneGrows, ReplyGrows
  <2>3. changes[u] > 0 /\ u \notin halting
    BY <1>a, <2>2 DEF Carried
  <2>4. CASE u # mine \/ halting' \subseteq halting
    BY <1>a, <1>g, <2>3, <2>4
  <2>5. CASE u = mine /\ ~(halting' \subseteq halting)
    <3>1. reply[u].voice = "none" /\ pc # "canned"
      BY <1>a, <2>5
    <3>2. ~Done(u)
      BY <2>5, DoneGrows
    <3> QED
      BY <2>2, <3>1, <3>2
  <2> QED
    BY <2>4, <2>5
<1>1. CASE \/ \E u \in Updates : Enqueue(u) \/ PressDropped(u) \/ RecoverStuck(u)
           \/ Heartbeat \/ UNCHANGED vars
  <2>1. UNCHANGED <<text, changes, halting, pc, mine>>
    BY <1>1, Beside
  <2> QED
    BY <1>a, <2>1 DEF Carried
<1>2. CASE Complete \/ Raise \/ Crash
  BY <1>2, <1>a, <1>x, Ending DEF Carried
<1>3. CASE \E u \in Updates : Claim(u)
  BY <1>3, <1>a, <1>x DEF Claim, history, Carried
<1>4. CASE Handler
  <2>f. mine \in Updates /\ mine' = mine /\ pc # "idle"
    BY <1>4, <1>t, HandlerFrame
  <2>1. CASE RunHardPause
    <3>1. text[mine] \in {"hard", "out"}
      BY <2>1 DEF RunHardPause, Placed
    <3>2. CASE reply[mine].voice = "none"
      <4>1. /\ halting' = halting \union {mine} /\ pc' = "cancel" /\ pc # "canned"
            /\ changes'[mine] > 0
        BY <2>1, <2>f, <3>2, <1>t DEF RunHardPause, Goto, Audited
      <4> QED
        BY <1>a, <1>x, <2>f, <3>1, <3>2, <4>1 DEF Carried, Commands
    <3>3. CASE reply[mine].voice # "none"
      <4>1. halting' = halting /\ pc' = "canned" /\ changes' = changes
        BY <2>1, <3>3 DEF RunHardPause, Goto
      <4> QED
        BY <1>a, <1>x, <2>f, <3>1, <3>3, <4>1 DEF Carried, Commands
    <3> QED
      BY <3>2, <3>3
  <2>2. CASE CancelOutbound \/ WelfareCancel
    <3>1. /\ halting' = halting \ {mine} /\ changes' = changes
          /\ pc' = "canned" => pc = "cancel"
          /\ pc' \in {"canned", "console"}
      BY <2>2 DEF CancelOutbound, WelfareCancel, Cancelled, Goto, chat
    <3> QED
      BY <1>a, <1>x, <2>f, <3>1 DEF Carried
  <2>3. CASE RunResume
    <3>1. halting' = halting /\ pc' = "canned" /\ text[mine] = "in"
      BY <2>3 DEF RunResume, Goto, history
    <3>2. changes'[mine] > 0
      BY <2>3, <2>f, <1>t DEF RunResume, Audited, Carried, Commands
    <3>3. mine \notin halting
      BY <3>1 DEF Carried
    <3> QED
      BY <1>a, <1>x, <2>f, <3>1, <3>2, <3>3 DEF Carried
  <2>4. CASE WelfareOff
    <3>1. /\ halting' = halting \union {mine} /\ pc' = "retag" /\ text[mine] \in Plain
      BY <2>4 DEF WelfareOff, Goto, Placed, Spoken
    <3>2. text[mine] \notin Commands /\ text[mine] # "in"
      BY <3>1 DEF Plain, Commands
    <3> QED
      BY <1>a, <1>x, <2>f, <3>1, <3>2 DEF Carried
  <2>5. CASE StoreUserMessageOnce \/ LowerIntensity
    <3>1. halting' = halting /\ pc' \notin {"cancel", "canned"}
      BY <2>5 DEF StoreUserMessageOnce, LowerIntensity, Goto, Resume, Branch, history
    <3> QED
      BY <1>a, <1>x, <2>f, <3>1 DEF Carried
  <2>6. CASE GenerateReply \/ GenerateNothing \/ RefuseToGenerate
    <3>1. halting' = halting /\ pc' # "cancel" /\ pc = "generate"
      BY <2>6 DEF GenerateReply, GenerateNothing, RefuseToGenerate, Goto, history
    <3>2. text[mine] \notin Commands
      BY <3>1, <1>p DEF Placed, Spoken
    <3> QED
      BY <1>a, <1>x, <2>f, <3>1, <3>2 DEF Carried
  <2>7. CASE \/ SendCannedReply \/ RetagAsWelfare \/ WelfareReply
             \/ SendReply \/ Apologise \/ MarkSent \/ EnqueueExtract
    <3>1. halting' = halting /\ pc' \notin {"cancel", "canned"}
      BY <2>7 DEF SendCannedReply, RetagAsWelfare, WelfareReply, SendReply, Apologise, MarkSent,
                  EnqueueExtract, Goto, history
    <3> QED
      BY <1>a, <1>x, <2>f, <3>1 DEF Carried
  <2> QED
    BY <1>4, <2>1, <2>2, <2>3, <2>4, <2>5, <2>6, <2>7 DEF Handler
<1> QED
  BY <1>1, <1>2, <1>3, <1>4 DEF Next, Worker

LEMMA AlwaysCarried == Spec => []Carried
<1>1. Init => Carried
  BY DEF Init, Carried, Done, NoReply, AbsentRow
<1> QED
  BY <1>1, AlwaysPlaced, CarriedNext, PTL DEF Spec

\* A completed pause has switched the persona off and then cancelled what was
\* planned, whatever crashes and retries came between the two.
THEOREM PauseGoesThrough == Spec => []PauseCarriedThrough
<1>1. Carried => PauseCarriedThrough
  BY DEF Carried, PauseCarriedThrough, Commands
<1> QED
  BY <1>1, AlwaysCarried, PTL

\* While the persona is off, what is planned is left by a switch-off that has
\* not got to its cancel, or by a gate read before it.
THEOREM PausedRevokes == Spec => []PausedMeansRevoked
<1>1. Init => PausedMeansRevoked
  BY DEF Init, PausedMeansRevoked
<1>2. ASSUME Typed, PausedMeansRevoked, [Next]_vars PROVE PausedMeansRevoked'
  <2>t. persona \in BOOLEAN /\ plan \in {"none", "admitted", "planned"}
    BY <1>2 DEF Typed, TypeOK
  <2>1. CASE \E u \in Updates : Enqueue(u) \/ PressDropped(u) \/ RecoverStuck(u) \/ Claim(u)
    BY <1>2, <2>1 DEF Enqueue, PressDropped, RecoverStuck, Claim, chat, history,
                      PausedMeansRevoked
  <2>2. CASE Complete \/ Raise \/ Crash
    BY <1>2, <2>2 DEF Complete, Raise, Crash, chat, history, PausedMeansRevoked
  <2>3. CASE Heartbeat \/ UNCHANGED vars
    BY <1>2, <2>3, <2>t DEF Heartbeat, Admit, Plan, SendPlanned, vars, chat, history,
                            PausedMeansRevoked
  <2>4. CASE RunHardPause \/ RunResume \/ WelfareOff
    BY <1>2, <2>4 DEF RunHardPause, RunResume, WelfareOff, history, PausedMeansRevoked
  <2>5. CASE CancelOutbound \/ WelfareCancel
    BY <1>2, <2>5, <2>t DEF CancelOutbound, WelfareCancel, Cancelled, chat, PausedMeansRevoked
  <2>6. CASE Handler
    BY <1>2, <2>4, <2>5, <2>6
       DEF Handler, StoreUserMessageOnce, LowerIntensity, SendCannedReply, GenerateReply,
           GenerateNothing, RefuseToGenerate, RetagAsWelfare, WelfareReply, SendReply,
           Apologise, MarkSent, EnqueueExtract, chat, history, PausedMeansRevoked
  <2> QED
    BY <1>2, <2>1, <2>2, <2>3, <2>6 DEF Next, Worker
<1> QED
  BY <1>1, <1>2, AlwaysPlaced, PTL DEF Spec

-----------------------------------------------------------------------------
(* The order of the conversation.                                           *)

\* An update some run has worked on.
Begun(u) == \/ mine = u \/ user[u] # "none" \/ changes[u] > 0
            \/ u \in alarmed \/ reply[u].voice # "none"

\* Arrivals are numbered as they come, a row is there for each that is not a
\* dropped press, and nothing is begun that has no row.
Stamped ==
    /\ \A u \in Updates : stamp[u] <= Cardinality(Arrived)
    /\ \A u, v \in Arrived : stamp[u] = stamp[v] => u = v
    /\ \A u \in Updates : stamp[u] = 0 <=> rows[u].status \in Missing /\ u \notin dropped
    /\ \A u \in dropped : rows[u].status \in Missing /\ text[u] \in {"in", "out"}
    /\ \A u \in Updates : rows[u].status \in Missing => ~Begun(u)
    /\ \A u \in Updates : rows[u].status # "gone" /\ (rows[u].attempts = 0 => ~Begun(u))

\* Only a crash lets an update be begun before one that came earlier; and a press
\* that crossed nothing has nothing before it that would undo it.
Ordered ==
    /\ \A u \in Updates : rows[u].status = "processing" => u = mine \/ u \in crashed
    /\ \A u, v \in Updates : Begun(v) /\ Unhandled(u) /\ u \notin crashed /\ u # v
                              => stamp[v] < stamp[u]
    /\ \A d \in dropped \ crossed : \A u \in Updates :
          Unhandled(u) /\ stamp[u] < stamp[d] => text[u] \notin Against(text[d])

\* How the row of an update may move.
LEMMA RowMoves ==
    ASSUME Typed, [Next]_vars, NEW u \in Updates
    PROVE  /\ rows'[u].status = "gone" => rows[u].status = "gone"
           /\ rows[u].status \in Missing =>
                 rows'[u] = rows[u] \/ (Enqueue(u) /\ rows'[u] = [AbsentRow EXCEPT !.status = "pending"])
           /\ rows[u].status \notin Missing =>
                 /\ rows'[u].status \notin Missing
                 /\ rows'[u].attempts = rows[u].attempts
                      \/ (Claim(u) /\ rows'[u].attempts = rows[u].attempts + 1)
                 /\ Unhandled(u)' => Unhandled(u)
           /\ rows'[u].status = "processing" => rows[u].status = "processing" \/ Claim(u)
<1>1. /\ rows[u] \in Row /\ rows \in [Updates -> Row]
      /\ pc # "idle" => mine \in Updates /\ rows[mine].status = "processing"
  BY TurnAssumption DEF Typed, TypeOK, AtHand
<1>2. CASE rows' = rows
  BY <1>2 DEF Unhandled
<1>3. ASSUME NEW v \in Updates, Enqueue(v)
      PROVE  rows'[u] = IF u = v THEN Inserted(rows[u]) ELSE rows[u]
  BY <1>1, <1>3 DEF Enqueue
<1>4. CASE \E v \in Updates : Enqueue(v)
  BY <1>1, <1>3, <1>4 DEF Inserted, Missing, AbsentRow, Row, Unhandled
<1>5. CASE \E v \in Updates : RecoverStuck(v)
  <2>1. PICK v \in Updates : RecoverStuck(v)
    BY <1>5
  <2>2. rows'[u] = IF u = v THEN [rows[u] EXCEPT !.lease = StuckAfter, !.status = "pending"]
                            ELSE rows[u]
    BY <1>1, <2>1 DEF RecoverStuck, Recovered, Stuck, Row
  <2>3. u = v => rows[u].status = "processing"
    BY <2>1 DEF RecoverStuck
  <2> QED
    BY <1>1, <2>2, <2>3 DEF Missing, Row, Unhandled
<1>6. CASE \E v \in Updates : Claim(v)
  <2>1. PICK v \in Updates : Claim(v)
    BY <1>6
  <2>2. /\ rows'[u] = IF u = v THEN [status |-> "processing", attempts |-> rows[u].attempts + 1,
                                     lease |-> 0]
                               ELSE rows[u]
        /\ u = v => rows[u].status = "pending"
    BY <1>1, <2>1 DEF Claim, Claimed, Oldest, Waiting
  <2> QED
    BY <1>1, <2>1, <2>2 DEF Missing, Row, Unhandled
<1>7. CASE Complete
  BY <1>1, <1>7 DEF Complete, Completed, Missing, Row, Unhandled
<1>8. CASE Raise
  BY <1>1, <1>8 DEF Raise, Failed, Missing, Row, Unhandled
<1>9. CASE Handler
  BY <1>2, <1>9, HandlerFrame
<1> QED
  BY <1>2, <1>4, <1>5, <1>6, <1>7, <1>8, <1>9
     DEF Next, Worker, Crash, PressDropped, Heartbeat, Admit, Plan, SendPlanned, vars

\* An update is begun by being claimed, and by nothing else.
LEMMA BegunByClaim ==
    ASSUME Typed, Placed, [Next]_vars, NEW u \in Updates, Begun(u)'
    PROVE  Begun(u) \/ Claim(u)
<1>1. /\ pc # "idle" => mine \in Updates
      /\ user \in [Updates -> {"none", "story", "aside", "welfare"}]
  BY DEF Typed, TypeOK, AtHand
<1>2. CASE \/ \E v \in Updates : Enqueue(v) \/ PressDropped(v) \/ RecoverStuck(v)
           \/ Heartbeat \/ UNCHANGED vars
  BY <1>2, Beside DEF Begun
<1>3. CASE Complete \/ Raise \/ Crash
  BY <1>3, Ending, TurnAssumption DEF Begun
<1>4. CASE \E v \in Updates : Claim(v)
  BY <1>4 DEF Claim, Begun, chat, history
<1>5. CASE Handler
  <2>1. mine \in Updates /\ mine' = mine
    BY <1>1, <1>5, HandlerFrame
  <2>2. user'[u] # user[u] \/ (u \in alarmed' /\ u \notin alarmed) => u = mine
    BY <1>1, <1>5, <2>1
       DEF Handler, StoreUserMessageOnce, LowerIntensity, RunHardPause, CancelOutbound,
           RunResume, SendCannedReply, GenerateReply, GenerateNothing, RefuseToGenerate,
           WelfareOff, RetagAsWelfare, WelfareCancel, WelfareReply, SendReply, Apologise,
           MarkSent, EnqueueExtract, chat, history
  <2>3. changes'[u] > 0 => changes[u] > 0 \/ u = mine
    BY ChangesGrow
  <2>4. reply'[u] # reply[u] => u = mine
    BY ReplyGrows
  <2> QED
    BY <2>1, <2>2, <2>3, <2>4 DEF Begun
<1> QED
  BY <1>2, <1>3, <1>4, <1>5 DEF Next, Worker

\* An arrival gets a number above all others.
Comes(u) ==
    /\ stamp[u] = 0
    /\ stamp'[u] = 1 + Cardinality(Arrived)
    /\ \A v \in Updates \ {u} : stamp'[v] = stamp[v]
    /\ Cardinality(Arrived') = 1 + Cardinality(Arrived)
    /\ \/ Enqueue(u) /\ rows[u].status \in Missing /\ u \notin dropped /\ dropped' = dropped
       \/ PressDropped(u)

LEMMA StampMoves ==
    ASSUME Typed, Stamped, [Next]_vars
    PROVE  \/ UNCHANGED <<stamp, dropped, crossed>>
           \/ \E u \in Updates : Comes(u)
<1>1. stamp \in [Updates -> Nat] /\ IsFiniteSet(Arrived)
  BY DEF Typed, TypeOK, AtHand
<1>2. ASSUME NEW u \in Updates, stamp[u] = 0,
             stamp' = [stamp EXCEPT ![u] = 1 + Cardinality({v \in Updates : stamp[v] > 0})],
             \/ Enqueue(u) /\ rows[u].status \in Missing /\ u \notin dropped /\ dropped' = dropped
             \/ PressDropped(u)
      PROVE  Comes(u)
  <2>1. stamp' = [stamp EXCEPT ![u] = 1 + Cardinality(Arrived)]
    BY <1>2 DEF Arrived
  <2>2. u \notin Arrived
    BY <1>2 DEF Arrived
  <2>3. Arrived' = Arrived \union {u} /\ Cardinality(Arrived) \in Nat
    BY <1>2, StampTyped
  <2>4. Cardinality(Arrived \union {u}) = Cardinality(Arrived) + 1
    BY <1>1, <2>2, FS_AddElement
  <2> QED
    BY <1>1, <1>2, <2>1, <2>3, <2>4 DEF Comes
<1>3. CASE \E u \in Updates : Enqueue(u)
  <2>1. PICK u \in Updates : Enqueue(u)
    BY <1>3
  <2>2. CASE rows[u].status \in Missing
    <3>1. stamp[u] = 0
      BY <2>1, <2>2 DEF Enqueue, Stamped
    <3> QED
      BY <1>2, <2>1, <2>2, <3>1 DEF Enqueue, asked
  <2>3. CASE rows[u].status \notin Missing
    BY <2>1, <2>3 DEF Enqueue, asked
  <2> QED
    BY <2>2, <2>3
<1>4. CASE \E u \in Updates : PressDropped(u)
  BY <1>2, <1>4 DEF PressDropped
<1>5. CASE Handler \/ Complete \/ Raise \/ Crash
  BY <1>5, HandlerFrame, Ending
<1> QED
  BY <1>3, <1>4, <1>5
     DEF Next, Worker, Claim, RecoverStuck, Heartbeat, Admit, Plan, SendPlanned, vars, asked

LEMMA StampedNext == Typed /\ Placed /\ Stamped /\ [Next]_vars => Stamped'
<1> SUFFICES ASSUME Typed, Placed, Stamped, [Next]_vars PROVE Stamped'
  OBVIOUS
<1>t. /\ stamp \in [Updates -> Nat] /\ rows \in [Updates -> Row] /\ text' = text
      /\ Cardinality(Arrived) \in Nat /\ dropped \subseteq Updates
  <2>1. text' = text
    BY Beside, Ending, HandlerFrame DEF Next, Worker, Claim, asked
  <2> QED
    BY <2>1, FS_CardinalityType DEF Typed, TypeOK, AtHand
<1>n. \A u \in Updates : stamp[u] \in Nat /\ rows[u] \in Row /\ rows[u].attempts \in Nat
  BY <1>t DEF Row
<1>m. ASSUME NEW u \in Updates PROVE (rows[u].status \in Missing \/ rows[u].attempts = 0) => ~Begun(u)
  BY DEF Stamped
\* Missing and untouched rows are those of updates not begun.
<1>b. ASSUME NEW u \in Updates, rows'[u].status \in Missing \/ rows'[u].attempts = 0
      PROVE  ~Begun(u)'
  <2>1. rows[u].status \in Missing \/ rows[u].attempts = 0
    BY <1>b, <1>n, RowMoves
  <2>2. ~Claim(u)
    <3>1. Claim(u) => /\ rows'[u].status = "processing"
                      /\ rows'[u].attempts = rows[u].attempts + 1
      BY <1>t DEF Claim, Claimed
    <3> QED
      BY <1>b, <1>n, <3>1 DEF Missing
  <2> QED
    BY <1>m, <2>1, <2>2, BegunByClaim
<1>g. \A u \in Updates : rows'[u].status # "gone"
  BY RowMoves DEF Stamped
<1>1. CASE UNCHANGED <<stamp, dropped, crossed>>
  <2>1. Arrived' = Arrived
    BY <1>1 DEF Arrived
  <2>2. ASSUME NEW u \in Updates
        PROVE  (rows'[u].status \in Missing <=> rows[u].status \in Missing) \/ u \in dropped
    <3>1. ASSUME Enqueue(u), rows[u].status \in Missing PROVE u \in dropped
      <4>1. stamp[u] = 0 \/ u \in dropped
        BY <3>1 DEF Stamped
      <4>2. stamp[u] = 0 => stamp'[u] = 1 + Cardinality(Arrived)
        BY <3>1, <1>t DEF Enqueue, Arrived
      <4> QED
        BY <4>1, <4>2, <1>1, <1>t
    <3> QED
      BY <3>1, RowMoves
  <2>3. ASSUME NEW u \in dropped PROVE rows'[u].status \in Missing
    <3>1. ~Enqueue(u) /\ rows[u].status \in Missing /\ u \in Updates
      BY <1>t DEF Enqueue, Stamped
    <3> QED
      BY <3>1, RowMoves
  <2> QED
    BY <1>1, <1>b, <1>g, <1>t, <2>1, <2>2, <2>3 DEF Stamped
<1>2. ASSUME NEW w \in Updates, Comes(w) PROVE Stamped'
  <2>1. /\ stamp[w] = 0 /\ stamp'[w] = 1 + Cardinality(Arrived)
        /\ \A v \in Updates \ {w} : stamp'[v] = stamp[v]
        /\ Cardinality(Arrived') = 1 + Cardinality(Arrived)
    BY <1>2 DEF Comes
  <2>2. ASSUME NEW u \in Updates PROVE stamp'[u] <= Cardinality(Arrived')
    <3>1. stamp[u] <= Cardinality(Arrived)
      BY DEF Stamped
    <3> QED
      BY <2>1, <3>1, <1>n, <1>t
  <2>3. ASSUME NEW u \in Arrived', NEW v \in Arrived', stamp'[u] = stamp'[v] PROVE u = v
    <3>1. u \in Updates /\ v \in Updates /\ stamp'[u] > 0 /\ stamp'[v] > 0
      BY DEF Arrived
    <3>2. stamp[u] <= Cardinality(Arrived) /\ stamp[v] <= Cardinality(Arrived)
      BY <3>1 DEF Stamped
    <3>3. CASE u = w \/ v = w
      BY <2>1, <2>3, <3>1, <3>2, <3>3, <1>n, <1>t
    <3>4. CASE u # w /\ v # w
      BY <2>1, <2>3, <3>1, <3>4 DEF Stamped, Arrived
    <3> QED
      BY <3>3, <3>4
  <2>4. CASE Enqueue(w) /\ rows[w].status \in Missing /\ dropped' = dropped /\ w \notin dropped
    <3>1. /\ rows'[w] = [AbsentRow EXCEPT !.status = "pending"]
          /\ \A u \in Updates \ {w} : rows'[u] = rows[u]
      BY <2>4, <1>t DEF Enqueue, Inserted
    <3>2. rows'[w].status \notin Missing
      BY <3>1 DEF AbsentRow, Missing
    <3>3. ASSUME NEW u \in Updates
          PROVE  stamp'[u] = 0 <=> rows'[u].status \in Missing /\ u \notin dropped
      <4>1. CASE u = w
        BY <2>1, <3>2, <4>1, <1>t
      <4>2. CASE u # w
        BY <2>1, <3>1, <4>2 DEF Stamped
      <4> QED
        BY <4>1, <4>2
    <3>4. \A u \in dropped : rows'[u].status \in Missing /\ text[u] \in {"in", "out"}
      BY <2>4, <3>1, <1>t DEF Stamped
    <3> QED
      BY <2>2, <2>3, <2>4, <3>3, <3>4, <1>b, <1>g, <1>t DEF Stamped
  <2>5. CASE PressDropped(w)
    <3>1. rows' = rows /\ dropped' = dropped \union {w} /\ text[w] \in {"out", "in"}
      BY <2>5 DEF PressDropped
    <3>2. rows[w].status \in Missing
      BY <2>1 DEF Stamped
    <3>3. \A u \in Updates : stamp'[u] = 0 <=> rows'[u].status \in Missing /\ u \notin dropped'
      BY <2>1, <3>1, <1>t DEF Stamped
    <3>4. \A u \in dropped' : rows'[u].status \in Missing /\ text[u] \in {"in", "out"}
      BY <3>1, <3>2, <1>t DEF Stamped
    <3> QED
      BY <2>2, <2>3, <3>3, <3>4, <1>b, <1>g, <1>t DEF Stamped
  <2> QED
    BY <1>2, <2>4, <2>5 DEF Comes
<1> QED
  BY <1>1, <1>2, StampMoves

LEMMA OrderedNext == Typed /\ Placed /\ Stamped /\ Ordered /\ [Next]_vars => Ordered'
<1> SUFFICES ASSUME Typed, Placed, Stamped, Ordered, [Next]_vars PROVE Ordered'
  OBVIOUS
<1>n. /\ \A u \in Updates : stamp[u] \in Nat /\ rows[u] \in Row
      /\ stamp \in [Updates -> Nat] /\ rows \in [Updates -> Row] /\ dropped \subseteq Updates
      /\ Cardinality(Arrived) \in Nat /\ NoUpdate \notin Updates
  <2>1. stamp \in [Updates -> Nat] /\ rows \in [Updates -> Row] /\ dropped \subseteq Updates
    BY DEF Typed, TypeOK
  <2>2. Cardinality(Arrived) \in Nat /\ NoUpdate \notin Updates
    BY FS_CardinalityType, TurnAssumption DEF Typed, AtHand
  <2> QED
    BY <2>1, <2>2
<1>x. text' = text
  BY Beside, Ending, HandlerFrame DEF Next, Worker, Claim, asked
<1>c. crashed \subseteq crashed' /\ crossed \subseteq crossed'
  BY Beside, HandlerFrame
     DEF Next, Worker, Claim, Complete, Raise, Crash, Enqueue, PressDropped, RecoverStuck,
         Heartbeat, Admit, Plan, SendPlanned, vars, asked, history
\* A row claimed once is the one at hand or one whose run a crash cut off.
<1>1. ASSUME NEW u \in Updates, rows'[u].status = "processing"
      PROVE  u = mine' \/ u \in crashed'
  <2>1. CASE Claim(u)
    BY <2>1 DEF Claim
  <2>2. CASE rows[u].status = "processing" /\ u \in crashed
    BY <1>c, <2>2
  <2>3. CASE rows[u].status = "processing" /\ u = mine
    <3>1. CASE mine' = mine
      BY <2>3, <3>1
    <3>2. CASE Complete \/ Raise
      <4>1. rows'[u].status # "processing"
        BY <1>n, <2>3, <3>2 DEF Complete, Raise, Completed, Failed, Row
      <4> QED
        BY <1>1, <4>1
    <3>3. CASE Crash
      BY <1>n, <2>3, <3>3 DEF Crash, Typed, AtHand
    <3>4. CASE \E v \in Updates : Claim(v)
      BY <1>n, <2>3, <3>4 DEF Claim, Typed, AtHand
    <3> QED
      BY <3>1, <3>2, <3>3, <3>4, Beside, HandlerFrame DEF Next, Worker
  <2> QED
    BY <1>1, <2>1, <2>2, <2>3, RowMoves DEF Ordered
\* The numbers of what is there do not change.
<1>s. ASSUME NEW u \in Updates, stamp[u] # 0 PROVE stamp'[u] = stamp[u]
  BY <1>s, StampMoves DEF Comes
<1>r. ASSUME NEW u \in Updates, Unhandled(u) \/ Begun(u) \/ u \in dropped PROVE stamp[u] # 0
  BY <1>r DEF Stamped, Unhandled, Missing
<1>h. ASSUME NEW u \in Updates, Unhandled(u)', ~Unhandled(u)
      PROVE  \A v \in Updates \ {u} : stamp'[v] < stamp'[u]
  <2>1. rows[u].status \in Missing /\ Enqueue(u) /\ rows'[u].status = "pending"
    <3>1. rows[u].status \in Missing /\ rows'[u] # rows[u]
      BY <1>h, RowMoves DEF Unhandled
    <3> QED
      BY <3>1, RowMoves DEF AbsentRow
  <2>2. stamp' = [stamp EXCEPT ![u] = 1 + Cardinality(Arrived)]
    BY <2>1 DEF Enqueue, Arrived
  <2> QED
    BY <1>n, <2>2 DEF Stamped
<1>2. ASSUME NEW u \in Updates, NEW v \in Updates, Begun(v)', Unhandled(u)', u \notin crashed',
             u # v
      PROVE  stamp'[v] < stamp'[u]
  <2>1. CASE ~Unhandled(u)
    BY <1>2, <1>h, <2>1
  <2>2. CASE Unhandled(u) /\ Begun(v)
    <3>1. stamp[v] < stamp[u]
      BY <1>2, <1>c, <2>2 DEF Ordered
    <3> QED
      BY <1>r, <1>s, <2>2, <3>1
  <2>3. CASE Unhandled(u) /\ Claim(v)
    <3>1. Oldest(v) /\ pc = "idle" /\ stamp' = stamp
      BY <2>3 DEF Claim
    <3>2. rows[u].status = "pending"
      <4>1. mine # u /\ u \notin crashed
        BY <1>2, <1>c, <1>n, <3>1 DEF Typed, AtHand
      <4> QED
        BY <2>3, <4>1 DEF Ordered, Unhandled
    <3>3. stamp[v] <= stamp[u] /\ Unhandled(v)
      BY <3>1, <3>2 DEF Oldest, Waiting, Unhandled
    <3>4. stamp[v] # stamp[u]
      <4>1. u \in Arrived /\ v \in Arrived
        BY <1>n, <1>r, <2>3, <3>3 DEF Arrived
      <4> QED
        BY <1>2, <4>1 DEF Stamped
    <3> QED
      BY <1>n, <3>1, <3>3, <3>4
  <2> QED
    BY <1>2, <2>1, <2>2, <2>3, BegunByClaim
<1>3. ASSUME NEW d \in dropped' \ crossed', NEW u \in Updates, Unhandled(u)',
             stamp'[u] < stamp'[d]
      PROVE  text[u] \notin Against(text[d])
  <2>0. d \in Updates
    BY TypedNext DEF Typed, TypeOK
  <2>1. Unhandled(u)
    <3>1. u = d => stamp'[u] = stamp'[d]
      OBVIOUS
    <3>2. stamp'[u] \in Nat /\ stamp'[d] \in Nat
      BY <2>0, TypedNext DEF Typed, TypeOK
    <3> QED
      BY <1>3, <1>h, <2>0, <3>1, <3>2
  <2>2. CASE d \in dropped
    <3>1. d \in dropped \ crossed
      BY <1>3, <1>c, <2>2
    <3>2. stamp[u] < stamp[d]
      BY <1>3, <1>r, <1>s, <2>0, <2>1, <2>2
    <3> QED
      BY <2>1, <3>1, <3>2 DEF Ordered
  <2>3. CASE d \notin dropped
    <3>1. PressDropped(d)
      BY <1>3, <2>3, StampMoves DEF Comes, PressDropped
    <3> QED
      BY <1>3, <2>1, <3>1 DEF PressDropped
  <2> QED
    BY <2>2, <2>3
<1> QED
  BY <1>1, <1>2, <1>3, <1>x DEF Ordered, Against

\* The updates that have moved the persona, or would have.
Moved == dropped \union alarmed \union {u \in Updates : text[u] \in Commands /\ changes[u] > 0}

\* Unless a crash or a crossed press is among them, the persona is as the last
\* of them to come left it, at every moment.
LastMove ==
    Moved \intersect (crashed \union crossed) = {} =>
        \/ Moved = {} /\ persona
        \/ \E m \in Moved : /\ \A v \in Moved : stamp[v] <= stamp[m]
                            /\ persona = (text[m] = "in")

LEMMA MovedArrived ==
    ASSUME Typed, Stamped, NEW u \in Moved
    PROVE  /\ u \in Updates /\ stamp[u] # 0 /\ stamp[u] \in Nat
           /\ u \notin dropped => Begun(u) /\ rows[u].status \notin Missing
<1>1. u \in Updates /\ changes[u] \in Nat /\ stamp[u] \in Nat
  BY DEF Moved, Typed, TypeOK
<1>2. u \notin dropped => Begun(u)
  BY <1>1 DEF Moved, Begun
<1> QED
  BY <1>1, <1>2 DEF Stamped

LEMMA LastMoveNext ==
    Typed /\ Placed /\ Stamped /\ Ordered /\ LastMove /\ [Next]_vars => LastMove'
<1> SUFFICES ASSUME Typed, Placed, Stamped, Ordered, LastMove, [Next]_vars,
                    Moved' \intersect (crashed' \union crossed') = {}
             PROVE  \/ Moved' = {} /\ persona'
                    \/ \E m \in Moved' : /\ \A v \in Moved' : stamp'[v] <= stamp'[m]
                                         /\ persona' = (text'[m] = "in")
  BY DEF LastMove
<1>n. /\ text \in [Updates -> Texts] /\ persona \in BOOLEAN /\ persona' \in BOOLEAN
      /\ dropped \subseteq Updates /\ alarmed \subseteq Updates
      /\ pc # "idle" => mine \in Updates /\ rows[mine].status = "processing"
      /\ \A u \in Updates : stamp[u] \in Nat /\ changes[u] \in Nat
  <2>1. persona' \in BOOLEAN
    BY TypedNext DEF Typed, TypeOK
  <2> QED
    BY <2>1, TurnAssumption DEF Typed, TypeOK, AtHand
<1>x. text' = text
  BY Beside, Ending, HandlerFrame DEF Next, Worker, Claim, asked
<1>c. /\ crashed \subseteq crashed' /\ crossed \subseteq crossed'
      /\ dropped \subseteq dropped' /\ alarmed \subseteq alarmed'
  BY Beside, Ending, HandlerFrame
     DEF Next, Worker, Claim, Complete, Raise, Crash, Enqueue, PressDropped, RecoverStuck,
         Heartbeat, Admit, Plan, SendPlanned, vars, asked, history, Handler,
         StoreUserMessageOnce, LowerIntensity, RunHardPause, CancelOutbound, RunResume,
         SendCannedReply, GenerateReply, GenerateNothing, RefuseToGenerate, WelfareOff,
         RetagAsWelfare, WelfareCancel, WelfareReply, SendReply, Apologise, MarkSent,
         EnqueueExtract
<1>m. Moved \subseteq Moved'
  <2>1. ASSUME NEW u \in Updates, changes[u] > 0 PROVE changes'[u] > 0
    BY <2>1, ChangesGrow
  <2> QED
    BY <1>c, <1>x, <2>1 DEF Moved
<1>i. \/ Moved = {} /\ persona
      \/ \E m \in Moved : /\ \A v \in Moved : stamp[v] <= stamp[m]
                          /\ persona = (text[m] = "in")
  BY <1>c, <1>m DEF LastMove
<1>s. \A u \in Moved : stamp'[u] = stamp[u]
  BY MovedArrived, StampMoves DEF Comes
<1>1. ASSUME Moved' = Moved, persona' = persona
      PROVE  \/ Moved' = {} /\ persona'
             \/ \E m \in Moved' : /\ \A v \in Moved' : stamp'[v] <= stamp'[m]
                                  /\ persona' = (text'[m] = "in")
  BY <1>1, <1>i, <1>s, <1>x
\* A command, or the welfare verdict: either nothing later has moved the persona,
\* or what has is a press that agrees with it.
<1>2. ASSUME mine \in Updates, pc # "idle", Moved' = Moved \union {mine}, stamp' = stamp,
             dropped' = dropped, persona' = (text[mine] = "in")
      PROVE  \E m \in Moved' : /\ \A v \in Moved' : stamp'[v] <= stamp'[m]
                               /\ persona' = (text'[m] = "in")
  <2>0. Unhandled(mine) /\ mine \notin crashed
    BY <1>2, <1>n, <1>c DEF Unhandled
  <2>1. CASE \A v \in Moved : stamp[v] <= stamp[mine]
    <3>1. \A v \in Moved' : stamp'[v] <= stamp'[mine]
      BY <1>2, <1>n, <2>1
    <3> QED
      BY <1>2, <1>x, <3>1
  <2>2. CASE \E v \in Moved : ~(stamp[v] <= stamp[mine])
    <3>1. PICK m \in Moved : /\ \A v \in Moved : stamp[v] <= stamp[m]
                             /\ persona = (text[m] = "in")
      BY <1>i, <2>2
    <3>2. m \in Updates /\ stamp[mine] < stamp[m]
      <4>1. PICK v \in Moved : ~(stamp[v] <= stamp[mine])
        BY <2>2
      <4> QED
        BY <1>2, <1>n, <3>1, <4>1, MovedArrived
    <3>3. m \in dropped
      <4>1. ASSUME Begun(m) PROVE FALSE
        <5>1. stamp[m] < stamp[mine]
          BY <1>2, <1>n, <2>0, <3>2, <4>1 DEF Ordered
        <5> QED
          BY <1>2, <1>n, <3>2, <5>1
      <4> QED
        BY <4>1, MovedArrived
    <3>4. m \in dropped \ crossed
      BY <1>c, <1>m, <3>3
    <3>5. text[mine] \notin Against(text[m]) /\ text[m] \in {"in", "out"}
      BY <1>2, <2>0, <3>2, <3>4 DEF Ordered, Stamped
    <3>6. (text[mine] = "in") = (text[m] = "in")
      BY <1>2, <1>n, <3>5 DEF Against
    <3>7. \A v \in Moved' : stamp'[v] <= stamp'[m]
      BY <1>2, <1>n, <3>1, <3>2
    <3> QED
      BY <1>2, <1>x, <3>6, <3>7
  <2> QED
    BY <2>1, <2>2
<1>3. CASE \E u \in Updates : PressDropped(u)
  <2>1. PICK u \in Updates : PressDropped(u)
    BY <1>3
  <2>2. Moved' = Moved \union {u} /\ persona' = persona /\ persona = (text[u] = "in")
    BY <2>1, <1>x DEF PressDropped, Moved, chat, history
  <2>3. \A v \in Moved : stamp'[v] <= stamp'[u]
    <3>1. /\ stamp' = [stamp EXCEPT ![u] = 1 + Cardinality(Arrived)]
          /\ Cardinality(Arrived) \in Nat /\ stamp \in [Updates -> Nat]
      BY <2>1, FS_CardinalityType DEF PressDropped, Arrived, Typed, TypeOK, AtHand
    <3> QED
      BY <3>1, MovedArrived DEF Stamped
  <2>4. stamp'[u] <= stamp'[u]
    BY TypedNext DEF Typed, TypeOK
  <2> QED
    BY <1>x, <2>2, <2>3, <2>4
<1>4. CASE \E u \in Updates : Enqueue(u) \/ RecoverStuck(u) \/ Claim(u)
  BY <1>1, <1>4, <1>x DEF Enqueue, RecoverStuck, Claim, asked, chat, history, Moved
<1>5. CASE Heartbeat \/ UNCHANGED vars
  BY <1>1, <1>5, <1>x DEF Heartbeat, Admit, Plan, SendPlanned, vars, asked, chat, history, Moved
<1>6. CASE Complete \/ Raise \/ Crash
  BY <1>1, <1>6, <1>x, Ending DEF Moved
<1>7. CASE Handler
  <2>f. /\ mine \in Updates /\ mine' = mine /\ stamp' = stamp /\ dropped' = dropped
        /\ pc # "idle"
    BY <1>7, <1>n, HandlerFrame
  <2>1. CASE changes' = changes
    <3>1. alarmed' = alarmed /\ persona' = persona
      <4>1. changes[mine] + 1 # changes[mine]
        BY <1>n, <2>f
      <4>2. ~WelfareOff
        BY <2>1, <2>f, <4>1 DEF WelfareOff, Audited, Typed, TypeOK
      <4>3. RunHardPause \/ RunResume => persona' = persona /\ alarmed' = alarmed
        BY <2>1, <2>f, <4>1 DEF RunHardPause, RunResume, Audited, Typed, TypeOK, history
      <4> QED
        BY <1>7, <4>2, <4>3
           DEF Handler, StoreUserMessageOnce, LowerIntensity, CancelOutbound, SendCannedReply,
               GenerateReply, GenerateNothing, RefuseToGenerate, RetagAsWelfare, WelfareCancel,
               WelfareReply, SendReply, Apologise, MarkSent, EnqueueExtract, chat, history
    <3> QED
      BY <1>1, <1>x, <2>1, <2>f, <3>1 DEF Moved
  <2>2. CASE changes' # changes
    <3>1. LowerIntensity \/ RunHardPause \/ RunResume \/ WelfareOff
      BY <1>7, <2>2
         DEF Handler, StoreUserMessageOnce, CancelOutbound, SendCannedReply, GenerateReply,
             GenerateNothing, RefuseToGenerate, RetagAsWelfare, WelfareCancel, WelfareReply,
             SendReply, Apologise, MarkSent, EnqueueExtract, chat
    <3>2. /\ changes' = [changes EXCEPT ![mine] = @ + 1] /\ changes'[mine] > 0
          /\ \A u \in Updates \ {mine} : changes'[u] = changes[u]
      BY <2>2, <2>f, <3>1, <1>n
         DEF LowerIntensity, RunHardPause, RunResume, WelfareOff, Audited, Typed, TypeOK
    <3>3. CASE LowerIntensity
      <4>1. text[mine] \notin Commands /\ alarmed' = alarmed /\ persona' = persona
        BY <3>3 DEF LowerIntensity, Placed, Spoken, Plain, Commands, history
      <4>2. Moved' = Moved
        BY <1>x, <2>f, <3>2, <4>1 DEF Moved
      <4> QED
        BY <1>1, <4>1, <4>2
    <3>4. CASE RunHardPause \/ RunResume
      <4>1. text[mine] \in Commands /\ persona' = (text[mine] = "in") /\ alarmed' = alarmed
        BY <2>2, <3>4 DEF RunHardPause, RunResume, Placed, Commands, history
      <4>2. Moved' = Moved \union {mine}
        BY <1>x, <2>f, <3>2, <4>1 DEF Moved
      <4> QED
        BY <1>2, <2>f, <4>1, <4>2
    <3>5. CASE WelfareOff
      <4>1. /\ text[mine] \notin Commands /\ persona' = (text[mine] = "in")
            /\ alarmed' = alarmed \union {mine}
        BY <3>5 DEF WelfareOff, Placed, Spoken, Plain, Commands
      <4>2. Moved' = Moved \union {mine}
        BY <1>x, <2>f, <3>2, <4>1 DEF Moved
      <4> QED
        BY <1>2, <2>f, <4>1, <4>2
    <3> QED
      BY <3>1, <3>3, <3>4, <3>5
  <2> QED
    BY <2>1, <2>2
<1> QED
  BY <1>3, <1>4, <1>5, <1>6, <1>7 DEF Next, Worker

LEMMA AlwaysOrdered == Spec => [](Stamped /\ Ordered /\ LastMove)
<1>1. ASSUME Init PROVE Stamped /\ Ordered /\ LastMove
  <2>1. Arrived = {} /\ Moved = {}
    BY <1>1 DEF Init, Arrived, Moved
  <2>2. Cardinality(Arrived) = 0
    BY <2>1, FS_EmptySet
  <2>3. \A u \in Updates : ~Begun(u) /\ rows[u] = AbsentRow /\ stamp[u] = 0
    BY <1>1, TurnAssumption DEF Init, Begun, NoReply
  <2>4. AbsentRow.status = "absent"
    BY DEF AbsentRow
  <2>5. Stamped
    BY <1>1, <2>1, <2>2, <2>3, <2>4 DEF Init, Stamped, Missing
  <2>6. Ordered
    BY <1>1, <2>3, <2>4 DEF Init, Ordered, Unhandled
  <2>7. LastMove
    BY <1>1, <2>1 DEF Init, LastMove
  <2> QED
    BY <2>5, <2>6, <2>7
<1> QED
  BY <1>1, AlwaysPlaced, StampedNext, OrderedNext, LastMoveNext, PTL DEF Spec

\* Once everything that came is handled, the persona is as the last off or on in
\* the order of coming left it, unless a crash cut one of them off or a press was
\* dropped beside an update that undoes it.
THEOREM TheLastWordWins == Spec => []LastWordWins
<1>1. Typed /\ Placed /\ Carried /\ Stamped /\ LastMove => LastWordWins
  <2> SUFFICES ASSUME Typed, Carried, Stamped, LastMove,
                      \A u \in Updates : rows[u].status \in {"absent", "done"},
                      Switches \intersect (crashed \union crossed) = {}
               PROVE  persona = \A u \in Switches :
                                    (\A v \in Switches : stamp[v] <= stamp[u]) => text[u] = "in"
    BY DEF LastWordWins
  <2>t. /\ persona \in BOOLEAN /\ dropped \subseteq Updates /\ alarmed \subseteq Updates
        /\ changes \in [Updates -> Nat]
    BY DEF Typed, TypeOK
  <2>1. \A u \in Updates : Begun(u) => Done(u)
    BY DEF Stamped, Missing, Done
  <2>2. ASSUME NEW u \in Switches PROVE u \in Moved
    BY <2>t DEF Switches, Moved, Carried, Commands
  <2>3. ASSUME NEW u \in Moved PROVE u \in Switches
    <3>1. u \in Updates /\ (u \notin dropped => Begun(u))
      BY MovedArrived
    <3> QED
      BY <2>1, <3>1 DEF Switches, Moved, Commands
  <2>4. Moved = Switches
    BY <2>2, <2>3
  <2>5. CASE Moved = {} /\ persona
    BY <2>4, <2>5
  <2>6. CASE \E m \in Moved : /\ \A v \in Moved : stamp[v] <= stamp[m]
                              /\ persona = (text[m] = "in")
    <3>1. PICK m \in Moved : /\ \A v \in Moved : stamp[v] <= stamp[m]
                             /\ persona = (text[m] = "in")
      BY <2>6
    <3>2. ASSUME NEW u \in Moved, \A v \in Moved : stamp[v] <= stamp[u] PROVE u = m
      <4>1. stamp[u] <= stamp[m] /\ stamp[m] <= stamp[u]
        BY <3>1, <3>2
      <4>2. u \in Arrived /\ m \in Arrived /\ stamp[u] \in Nat /\ stamp[m] \in Nat
        BY MovedArrived DEF Arrived
      <4> QED
        BY <4>1, <4>2 DEF Stamped
    <3>3. CASE text[m] = "in"
      <4>1. persona
        BY <3>1, <3>3
      <4>2. \A u \in Moved : (\A v \in Moved : stamp[v] <= stamp[u]) => text[u] = "in"
        BY <3>2, <3>3
      <4> QED
        BY <2>4, <2>t, <4>1, <4>2
    <3>4. CASE text[m] # "in"
      <4>1. ~persona
        BY <3>1, <3>4
      <4>2. ~(\A u \in Moved : (\A v \in Moved : stamp[v] <= stamp[u]) => text[u] = "in")
        BY <3>1, <3>4
      <4> QED
        BY <2>4, <2>t, <4>1, <4>2
    <3> QED
      BY <3>3, <3>4
  <2> QED
    BY <2>4, <2>5, <2>6 DEF LastMove
<1> QED
  BY <1>1, AlwaysPlaced, AlwaysCarried, AlwaysOrdered, PTL

-----------------------------------------------------------------------------
(* In whose voice.                                                          *)

\* What is offered to the extractor, and what a run that is about to offer it
\* knows; while no crash has disordered the updates, a plain line stored out of
\* character waits only while the persona is off.
Voiced ==
    /\ crashed = {} => \A u \in Updates :
          Unhandled(u) /\ user[u] \in {"aside", "welfare"} /\ text[u] \in Plain => ~persona
    /\ pc \in Spoken => user[mine] # "none"
    /\ fresh => pc \in {"send", "mark", "extract", "return"}
    /\ pc \in {"send", "mark"} /\ fresh =>
          /\ reply[mine].voice = IF seen.persona THEN "persona" ELSE "plain"
          /\ seen.persona => user[mine] = "story" \/ crashed # {}
    /\ pc = "extract" => reply[mine].voice = "persona" /\ (user[mine] = "story" \/ crashed # {})
    /\ \A u \in extract : /\ reply[u] = [voice |-> "persona", sent |-> TRUE]
                          /\ user[u] = "story" \/ crashed # {}
    /\ \A u \in Updates :
          reply[u].voice = "persona" /\ rows[u].attempts = 1 /\ (mine = u \/ Done(u)) =>
              \/ u \in extract
              \/ mine = u /\ pc = "extract"
              \/ mine = u /\ pc \in {"send", "mark"} /\ fresh /\ seen.persona

\* A message row is written once, and retagged only by a welfare turn.
LEMMA UserGrows ==
    ASSUME Typed, [Next]_vars, NEW u \in Updates, user'[u] # user[u]
    PROVE  u = mine /\ ((StoreUserMessageOnce /\ user[u] = "none") \/ RetagAsWelfare)
<1>1. /\ pc # "idle" => mine \in Updates
      /\ user \in [Updates -> {"none", "story", "aside", "welfare"}]
  BY DEF Typed, TypeOK, AtHand
<1>2. user' # user
  OBVIOUS
<1>3. CASE StoreUserMessageOnce \/ RetagAsWelfare
  BY <1>1, <1>3 DEF StoreUserMessageOnce, RetagAsWelfare
<1>4. CASE Handler
  BY <1>2, <1>3, <1>4
     DEF Handler, LowerIntensity, RunHardPause, CancelOutbound, RunResume, SendCannedReply,
         GenerateReply, GenerateNothing, RefuseToGenerate, WelfareOff, WelfareCancel,
         WelfareReply, SendReply, Apologise, MarkSent, EnqueueExtract, chat
<1> QED
  BY <1>2, <1>4, Beside, Ending DEF Next, Worker, Claim, chat

\* How a run gets to the places that matter here.
LEMMA RunMoves ==
    ASSUME Voiced, [Next]_vars
    PROVE  /\ pc' \in Spoken => mine' = mine /\ (pc \in Spoken \/ StoreUserMessageOnce)
           /\ fresh' /\ ~GenerateReply =>
                 /\ fresh /\ mine' = mine /\ (seen' = seen \/ StoreUserMessageOnce)
                 /\ pc \in {"send", "mark", "extract", "return"}
                       => pc' \in {"send", "mark", "extract", "return"}
           /\ pc' \in {"send", "mark"} /\ pc \in {"send", "mark"} => mine' = mine /\ seen' = seen
           /\ pc' = "extract" => /\ mine' = mine
                                 /\ pc = "extract" \/ (MarkSent /\ fresh /\ seen.persona)
           /\ extract' # extract => EnqueueExtract /\ mine' = mine
<1>1. CASE \/ \E u \in Updates : Enqueue(u) \/ PressDropped(u) \/ RecoverStuck(u)
           \/ Heartbeat \/ UNCHANGED vars
  BY <1>1, Beside
<1>2. CASE Complete \/ Raise \/ Crash
  BY <1>2, Ending DEF Spoken
<1>3. CASE \E u \in Updates : Claim(u)
  BY <1>3 DEF Claim, Spoken, chat, Voiced
<1>4. CASE StoreUserMessageOnce \/ LowerIntensity \/ RunHardPause \/ CancelOutbound \/ RunResume
  BY <1>4 DEF StoreUserMessageOnce, LowerIntensity, RunHardPause, CancelOutbound, RunResume,
              Resume, Branch, Goto, Spoken, chat
<1>5. CASE SendCannedReply \/ GenerateReply \/ GenerateNothing \/ RefuseToGenerate \/ WelfareOff
  BY <1>5 DEF SendCannedReply, GenerateReply, GenerateNothing, RefuseToGenerate, WelfareOff,
              Goto, Spoken, chat
<1>6. CASE RetagAsWelfare \/ WelfareCancel \/ WelfareReply \/ Apologise
  BY <1>6 DEF RetagAsWelfare, WelfareCancel, WelfareReply, Apologise, Goto, Spoken, chat
<1>7. CASE SendReply \/ MarkSent \/ EnqueueExtract
  BY <1>7 DEF SendReply, MarkSent, EnqueueExtract, Goto, Spoken, chat
<1> QED
  BY <1>1, <1>2, <1>3, <1>4, <1>5, <1>6, <1>7 DEF Next, Worker, Handler

LEMMA VoicedNext ==
    Typed /\ Placed /\ Stamped /\ Ordered /\ Voiced /\ [Next]_vars => Voiced'
<1> SUFFICES ASSUME Typed, Placed, Stamped, Ordered, Voiced, [Next]_vars PROVE Voiced'
  OBVIOUS
<1>t. /\ reply \in [Updates -> [voice : Voices, sent : BOOLEAN]]
      /\ user \in [Updates -> {"none", "story", "aside", "welfare"}]
      /\ text \in [Updates -> Texts] /\ persona \in BOOLEAN /\ fresh \in BOOLEAN
      /\ extract \subseteq Updates
      /\ pc # "idle" => mine \in Updates /\ Unhandled(mine)
      /\ mine' \in Updates \union {NoUpdate}
  <2>1. mine' \in Updates \union {NoUpdate}
    BY TypedNext DEF Typed, TypeOK
  <2> QED
    BY <2>1, TurnAssumption DEF Typed, TypeOK, AtHand, Unhandled
<1>x. text' = text
  BY Beside, Ending, HandlerFrame DEF Next, Worker, Claim, asked
<1>c. crashed # {} => crashed' # {}
  BY Beside, HandlerFrame DEF Next, Worker, Claim, Complete, Raise, Crash, history
\* A handler's update has its row claimed.
<1>h. Handler => mine \in Updates /\ Unhandled(mine) /\ mine' = mine
  BY <1>t, HandlerFrame
<1>1. ASSUME crashed' = {}, NEW u \in Updates,
             Unhandled(u)', user'[u] \in {"aside", "welfare"}, text[u] \in Plain
      PROVE  ~persona'
  <2>1. CASE user'[u] # user[u]
    <3>1. CASE StoreUserMessageOnce /\ u = mine
      BY <1>1, <1>t, <2>1, <3>1 DEF StoreUserMessageOnce, Plain
    <3>2. CASE RetagAsWelfare /\ u = mine
      BY <3>2 DEF RetagAsWelfare, Placed
    <3> QED
      BY <2>1, <3>1, <3>2, UserGrows
  <2>2. CASE user'[u] = user[u]
    <3>1. Begun(u) /\ Unhandled(u)
      <4>1. Begun(u)
        BY <1>1, <2>2 DEF Begun
      <4> QED
        BY <1>1, <4>1, RowMoves DEF Stamped
    <3>2. ~persona
      BY <1>1, <1>c, <2>2, <3>1 DEF Voiced
    <3>3. CASE RunResume
      <4>1. Handler /\ text[mine] = "in"
        BY <3>3 DEF RunResume, Handler
      <4>2. mine \in Updates /\ Unhandled(mine) /\ Begun(mine) /\ u # mine
        BY <1>1, <1>h, <4>1 DEF Begun, Plain
      <4>3. u \notin crashed /\ mine \notin crashed
        BY <1>1, <1>c
      <4>4. stamp[u] < stamp[mine] /\ stamp[mine] < stamp[u]
        BY <3>1, <4>2, <4>3 DEF Ordered
      <4>5. stamp[u] \in Nat /\ stamp[mine] \in Nat
        BY <4>2 DEF Typed, TypeOK
      <4> QED
        BY <4>4, <4>5
    <3>4. CASE ~RunResume
      <4>1. persona' => persona
        BY <1>t, <3>4, Beside, Ending
           DEF Next, Worker, Claim, chat, Handler, StoreUserMessageOnce, LowerIntensity,
               RunHardPause, CancelOutbound, SendCannedReply, GenerateReply, GenerateNothing,
               RefuseToGenerate, WelfareOff, RetagAsWelfare, WelfareCancel, WelfareReply,
               SendReply, Apologise, MarkSent, EnqueueExtract
      <4> QED
        BY <3>2, <4>1
    <3> QED
      BY <3>3, <3>4
  <2> QED
    BY <2>1, <2>2
<1>2. ASSUME pc' \in Spoken PROVE user'[mine'] # "none"
  <2>1. mine' = mine /\ (pc \in Spoken \/ StoreUserMessageOnce)
    BY <1>2, RunMoves
  <2>2. mine \in Updates
    BY <1>t, <2>1 DEF Spoken, StoreUserMessageOnce
  <2>3. CASE StoreUserMessageOnce
    BY <1>t, <2>1, <2>2, <2>3 DEF StoreUserMessageOnce
  <2>4. CASE pc \in Spoken
    <3>1. user[mine] # "none"
      BY <2>4 DEF Voiced
    <3>2. user'[mine] # user[mine] => RetagAsWelfare
      BY <2>2, <3>1, UserGrows
    <3> QED
      BY <1>t, <2>1, <2>2, <3>1, <3>2 DEF RetagAsWelfare
  <2> QED
    BY <2>1, <2>3, <2>4
<1>3. ASSUME fresh' PROVE pc' \in {"send", "mark", "extract", "return"}
  <2>1. CASE GenerateReply
    BY <2>1 DEF GenerateReply
  <2>2. CASE ~GenerateReply
    BY <1>3, <2>2, RunMoves DEF Voiced
  <2> QED
    BY <2>1, <2>2
\* What a story row is stays one while its reply is on its way.
<1>s. ASSUME NEW u \in Updates, user[u] = "story" \/ crashed # {}, reply[u].voice # "none"
      PROVE  user'[u] = "story" \/ crashed' # {}
  <2>1. user'[u] # user[u] => crashed # {}
    <3>1. RetagAsWelfare => reply[mine].voice = "none"
      BY DEF RetagAsWelfare, Placed, Silent, NoReply
    <3> QED
      BY <1>s, <3>1, UserGrows
  <2> QED
    BY <1>s, <1>c, <2>1
<1>4. ASSUME pc' \in {"send", "mark"}, fresh'
      PROVE  /\ reply'[mine'].voice = IF seen'.persona THEN "persona" ELSE "plain"
             /\ seen'.persona => user'[mine'] = "story" \/ crashed' # {}
  <2>1. CASE GenerateReply
    <3>1. /\ mine \in Updates /\ Unhandled(mine) /\ mine' = mine /\ reply[mine] = NoReply
          /\ seen' = seen /\ user' = user /\ text[mine] \in Plain
          /\ seen.persona = persona /\ user[mine] # "none"
      BY <1>h, <2>1 DEF GenerateReply, Handler, Placed, Silent, Spoken, Voiced
    <3>2. reply'[mine].voice = IF seen.persona THEN "persona" ELSE "plain"
      BY <1>t, <2>1, <3>1 DEF GenerateReply, Insert, NoReply
    <3>3. seen.persona => user[mine] = "story" \/ crashed # {}
      BY <1>t, <3>1 DEF Voiced
    <3> QED
      BY <1>c, <3>1, <3>2, <3>3
  <2>2. CASE ~GenerateReply
    <3>1. fresh /\ mine' = mine /\ pc \in {"send", "mark", "extract", "return"}
      BY <1>4, <2>2, RunMoves DEF Voiced
    <3>2. pc \in {"send", "mark"} /\ seen' = seen
      <4>1. pc \notin {"extract", "return"}
        BY <1>4, <3>1, RunMoves, Beside, Ending
           DEF Next, Worker, Claim, Handler, StoreUserMessageOnce, LowerIntensity, RunHardPause,
               CancelOutbound, RunResume, SendCannedReply, GenerateReply, GenerateNothing,
               RefuseToGenerate, WelfareOff, RetagAsWelfare, WelfareCancel, WelfareReply,
               SendReply, Apologise, MarkSent, EnqueueExtract, Goto
      <4> QED
        BY <1>4, <3>1, <4>1, RunMoves
    <3>3. mine \in Updates /\ reply[mine].voice # "none"
      BY <1>t, <3>2 DEF Placed
    <3>4. reply'[mine].voice = reply[mine].voice
      BY <3>3, ReplyGrows
    <3> QED
      BY <1>s, <3>1, <3>2, <3>3, <3>4 DEF Voiced
  <2> QED
    BY <2>1, <2>2
<1>5. ASSUME pc' = "extract"
      PROVE  reply'[mine'].voice = "persona" /\ (user'[mine'] = "story" \/ crashed' # {})
  <2>1. mine' = mine /\ (pc = "extract" \/ (MarkSent /\ fresh /\ seen.persona))
    BY <1>5, RunMoves
  <2>2. /\ mine \in Updates /\ reply[mine].voice = "persona"
        /\ user[mine] = "story" \/ crashed # {}
    BY <1>t, <2>1 DEF MarkSent, Voiced
  <2>3. reply'[mine].voice = reply[mine].voice
    BY <2>2, ReplyGrows
  <2> QED
    BY <1>s, <2>1, <2>2, <2>3
<1>6. ASSUME NEW u \in extract'
      PROVE  /\ reply'[u] = [voice |-> "persona", sent |-> TRUE]
             /\ user'[u] = "story" \/ crashed' # {}
  <2>1. CASE u \in extract
    <3>1. /\ reply[u] = [voice |-> "persona", sent |-> TRUE] /\ u \in Updates
          /\ user[u] = "story" \/ crashed # {}
      BY <1>t, <2>1 DEF Voiced
    <3>2. reply'[u] = reply[u]
      BY <3>1, ReplyGrows
    <3> QED
      BY <1>s, <3>1, <3>2
  <2>2. CASE u \notin extract
    <3>1. EnqueueExtract
      BY <2>2, RunMoves
    <3>2. u = mine /\ reply' = reply /\ user' = user /\ pc = "extract" /\ mine \in Updates
      BY <1>t, <2>2, <3>1 DEF EnqueueExtract
    <3>3. /\ reply[mine].voice = "persona" /\ reply[mine].sent
          /\ user[mine] = "story" \/ crashed # {}
      BY <3>2 DEF Voiced, Placed
    <3>4. reply[mine] = [voice |-> "persona", sent |-> TRUE]
      BY <1>t, <3>2, <3>3
    <3> QED
      BY <1>c, <3>2, <3>3, <3>4
  <2> QED
    BY <2>1, <2>2
<1>7. ASSUME NEW u \in Updates, reply'[u].voice = "persona", rows'[u].attempts = 1,
             mine' = u \/ Done(u)'
      PROVE  \/ u \in extract'
             \/ mine' = u /\ pc' = "extract"
             \/ mine' = u /\ pc' \in {"send", "mark"} /\ fresh' /\ seen'.persona
  <2>e. extract \subseteq extract'
    BY RunMoves DEF EnqueueExtract
  <2>1. CASE reply[u].voice = "none"
    <3>1. u = mine /\ Handler
      BY <1>7, <2>1, ReplyGrows
    <3>2. mine \in Updates /\ mine' = mine
      BY <1>h, <3>1
    <3>3. GenerateReply
      BY <1>7, <1>t, <2>1, <3>1, <3>2
         DEF Handler, StoreUserMessageOnce, LowerIntensity, RunHardPause, CancelOutbound,
             RunResume, SendCannedReply, GenerateNothing, RefuseToGenerate, WelfareOff,
             RetagAsWelfare, WelfareCancel, WelfareReply, SendReply, Apologise, MarkSent,
             EnqueueExtract, Insert, chat
    <3> QED
      BY <1>7, <1>t, <2>1, <3>1, <3>2, <3>3 DEF GenerateReply, Insert
  <2>2. CASE reply[u].voice # "none"
    <3>1. Begun(u) /\ rows[u].status \notin Missing /\ rows[u].attempts # 0
      BY <2>2 DEF Begun, Stamped
    <3>2. reply[u].voice = "persona" /\ rows[u].attempts \in Nat
      BY <1>7, <2>2, ReplyGrows DEF Typed, TypeOK, Row
    <3>3. rows[u].attempts = 1 /\ ~Claim(u)
      <4>1. Claim(u) => rows'[u].attempts = rows[u].attempts + 1
        BY DEF Claim, Claimed, Typed, TypeOK
      <4> QED
        BY <1>7, <3>1, <3>2, <4>1, RowMoves
    <3>4. mine = u \/ Done(u)
      <4>1. mine' = u => mine = u
        BY <3>3, Beside, Ending, HandlerFrame, TurnAssumption DEF Next, Worker, Claim
      <4> QED
        BY <1>7, <4>1, DoneGrows
    <3>5. \/ u \in extract
          \/ mine = u /\ pc = "extract"
          \/ mine = u /\ pc \in {"send", "mark"} /\ fresh /\ seen.persona
      BY <3>2, <3>3, <3>4 DEF Voiced
    <3>6. CASE u \in extract
      BY <2>e, <3>6
    <3>7. CASE mine = u /\ pc \in {"send", "mark", "extract"} /\ u \notin extract
      <4>1. mine' = u
        <5>1. ~Done(u) /\ ~Done(u)'
          BY <3>7, DoneGrows
        <5> QED
          BY <1>7, <5>1
      <4>2. CASE UNCHANGED <<pc, fresh, seen>>
        BY <3>5, <3>7, <4>1, <4>2
      <4>3. CASE SendReply
        BY <3>5, <3>7, <4>1, <4>3 DEF SendReply, Goto
      <4>4. CASE MarkSent
        BY <3>5, <3>7, <4>1, <4>4 DEF MarkSent, Goto
      <4>5. CASE EnqueueExtract
        BY <3>7, <4>5 DEF EnqueueExtract
      <4>6. CASE Handler
        BY <3>7, <4>3, <4>4, <4>5, <4>6
           DEF Handler, StoreUserMessageOnce, LowerIntensity, RunHardPause, CancelOutbound,
               RunResume, SendCannedReply, GenerateReply, GenerateNothing, RefuseToGenerate,
               WelfareOff, RetagAsWelfare, WelfareCancel, WelfareReply, Apologise
      <4> QED
        BY <3>7, <4>1, <4>2, <4>6, Beside, Ending, TurnAssumption DEF Next, Worker, Claim
    <3> QED
      BY <3>5, <3>6, <3>7
  <2> QED
    BY <2>1, <2>2
<1> QED
  BY <1>1, <1>2, <1>3, <1>4, <1>5, <1>6, <1>7, <1>x DEF Voiced

\* The extractor is handed only what was said and answered in character, and
\* every such turn unless the update had to be retried.
THEOREM ExtractedInCharacter == Spec => []ExtractedIffInCharacter
<1>1. Init => Voiced
  BY TurnAssumption DEF Init, Voiced, Spoken, NoReply
<1>2. Typed /\ Placed /\ Voiced => ExtractedIffInCharacter
  <2> SUFFICES ASSUME Typed, Voiced, NEW u \in Updates
               PROVE  /\ u \in extract => /\ reply[u] = [voice |-> "persona", sent |-> TRUE]
                                          /\ user[u] = "story" \/ crashed # {}
                      /\ Done(u) /\ reply[u].voice = "persona" /\ rows[u].attempts = 1
                         => u \in extract
    BY DEF ExtractedIffInCharacter
  <2>1. Done(u) => mine # u
    BY TurnAssumption DEF Typed, TypeOK, AtHand, Done
  <2> QED
    BY <2>1 DEF Voiced
<1> QED
  BY <1>1, <1>2, AlwaysPlaced, AlwaysOrdered, VoicedNext, PTL DEF Spec
=============================================================================
