------------------------- MODULE PlannerWriteProofs -------------------------
(***************************************************************************)
(* Theorems about PlannerWrite, for every number of updates, rows, keys,  *)
(* tokens and crashes.                                                     *)
(*                                                                         *)
(* The invariants build on each other: types and what the worker has at   *)
(* hand; the grant; the row and its job (Queued); the numbering of rows   *)
(* and keys; then what the planner has (There, Single, Heard) and what    *)
(* the user has been shown and told of it (Once, Carded, Honest).         *)
(***************************************************************************)
EXTENDS PlannerWrite, QueueOpsProofs, TLAPS

-----------------------------------------------------------------------------
(* The invariants.                                                          *)

\* What the worker has at hand, by where it stands.
AtHand ==
    /\ pc \in HandlerPCs => mine \in Inputs /\ said[mine].do # "none"
    /\ pc \in WriterPCs \union {"card", "stamp", "accept"} => act \in Ids
    /\ pc \in (WriterPCs \ {"load", "close"}) \union {"card", "stamp"} =>
            action[act] # NoAction
    /\ pc = "ask" => act = 0
    /\ pc = "mark" /\ act # 0 => act \in Ids /\ action[act] # NoAction
    /\ pc \in {"yes", "no"} => said[mine].do = pc
    /\ \A i \in Inputs : inbox[i].status # "absent" => said[i].do # "none"

Typed == TypeOK /\ AtHand

\* A token that is stored is the one the planner will take, or is spent.
Linked ==
    /\ cred.status = "active" => cred.refresh = grant \/ cred.refresh \in spent
    /\ GrantLostOnlyIfCut

\* Where the writer stands says what its row looks like ...
Placed ==
    /\ pc \in {"token", "call", "landed", "raise", "abandon", "denied"} =>
            Found(act, "accepted")
    /\ pc \in {"sync", "confirm"} => Found(act, "written")
    /\ pc \in {"sorry", "warn", "tell"} => Found(act, "failed")
    /\ pc = "close" => ~Found(act, "accepted")

\* ... and no job is there before its row is accepted, so that accepting queues one.
JobsFollow ==
    /\ \A a \in Ids : action[a] = NoAction \/ Found(a, "pending") =>
            job[a].status \in Missing
    /\ pc \in WriterPCs => action[act] # NoAction /\ ~Found(act, "pending")

Queued == Placed /\ JobsFollow /\ AcceptedHasJob

\* Row ids are taken in order and request keys are never given twice.
Numbered ==
    /\ \A a \in Ids : action[a] # NoAction <=> a <= lastId
    /\ \A a \in Ids : action[a] # NoAction => action[a].key <= minted
    /\ \A a, b \in Ids : action[a] # NoAction /\ action[b] # NoAction /\ a # b =>
            action[a].key # action[b].key
    /\ known \subseteq 1..minted
    /\ \A k \in Keys : k > minted => confirmed[k] = 0

\* A confirmed write is on record and its job is past the confirmation.
Once ==
    /\ ConfirmedOnce
    /\ \A a \in Ids : action[a] # NoAction /\ confirmed[action[a].key] > 0 =>
            Found(a, "written") /\ ~(pc \in {"sync", "confirm"} /\ act = a)

\* What is on record, or about to be, is in the planner, and so is everything the
\* planner has a key of.
There ==
    /\ WrittenIsThere
    /\ pc = "landed" => items[action[act].wish] > 0
    /\ \A a \in Ids : action[a] # NoAction =>
            /\ action[a].kind = "complete" <=> action[a].wish = List
            /\ action[a].kind = "create" /\ action[a].key \in known =>
                    items[action[a].wish] > 0

\* Every card sent so far: in the chat, or pressed.
Issued == cards \union
    {said[i].card : i \in {k \in Inputs : said[k].do \in {"yes", "no"}}}

CardOf(w) == \E c \in Issued : c.wish = w

\* The row of a wish that has a card.
RowOf(a, w) ==
    /\ action[a] # NoAction /\ action[a].wish = w
    /\ [id |-> a, wish |-> w] \in Issued

Taken(a) == Found(a, "accepted") \/ Found(a, "written") \/ Found(a, "failed")

\* What a handler knows of its update: only an update not yet there has no text,
\* a row is its update's until /delete, and the card follows the mark.
Desk ==
    /\ \A i \in Inputs : inbox[i].status = "absent" => said[i].do = "none"
    /\ \A i \in handled : inbox[i].status # "absent"
    /\ pc \in HandlerPCs \ {"done"} => inbox[mine].status = "processing"
    /\ pc = "mark" => mine \notin handled
    /\ pc = "card" => mine \in handled
    /\ pc \in {"tap", "stamp", "accept"} => said[mine].do = "tap"
    /\ pc = "edit" => said[mine].do \in {"yes", "no", "tap"}
    /\ pc \in {"mark", "card"} /\ act # 0 => action[act].wish = mine
    /\ pc \in {"stamp", "accept"} => action[act] # NoAction /\ action[act].wish = List

\* An update is marked before its card goes out, so a replay sends no second one;
\* a row is accepted by its own card, or its wish is astray.
Carded ==
    /\ \A c, d \in Issued : c.wish = d.wish => c = d
    /\ \A c \in Issued : c.wish # List
    /\ \A i \in Inputs : CardOf(i) => i \in handled \/ inbox[i].status = "gone"
    /\ pc = "card" => ~CardOf(mine)
    /\ \A a \in Ids : Taken(a) /\ action[a].wish \notin astray \union {List} =>
            [id |-> a, wish |-> action[a].wish] \in Issued

\* A wish that is served is served under the key of the one row that has its card.
Single ==
    /\ items[List] <= 1
    /\ \A w \in Wishes \ (astray \union {List}) :
        /\ items[w] <= 1
        /\ items[w] = 1 => CardOf(w) /\ \A a \in Ids : RowOf(a, w) => action[a].key \in known

\* What the planner has a key of is on record, about to be, or was not heard ...
Heard ==
    \A a \in Ids :
        action[a] # NoAction /\ action[a].kind = "create" /\ action[a].key \in known =>
            \/ Found(a, "written")
            \/ pc = "landed" /\ act = a
            \/ action[a].wish \in unheard

\* ... so a wish that was denied was not served, and no row is left to serve it.
Honest ==
    \A w \in denied \ ({List} \union unheard \union astray) :
        /\ items[w] = 0 /\ CardOf(w)
        /\ \A a \in Ids : RowOf(a, w) => Found(a, "failed")

-----------------------------------------------------------------------------
(* Types.                                                                   *)

\* A row that is found is a row.
LEMMA FoundIsRow ==
    ASSUME TypeOK, NEW a \in Ids
    PROVE  /\ action[a] # NoAction => action[a] \in Action
           /\ action[a] = NoAction => action[a].status = "none"
           /\ action[a] # NoAction => action[a].status # "none"
<1>1. action[a] \in Action \union {NoAction}
  BY DEF TypeOK
<1> QED
  BY <1>1 DEF NoAction, Action, ActionStatuses

\* A change of a row's status or stamp leaves a row.
LEMMA RowsStayActions ==
    ASSUME NEW row \in Action, NEW s \in ActionStatuses
    PROVE  /\ [row EXCEPT !.status = s] \in Action
           /\ [row EXCEPT !.stamped = TRUE] \in Action
  BY DEF Action

LEMMA TypedInit == Init => Typed
<1> SUFFICES ASSUME Init PROVE Typed
  OBVIOUS
<1>1. AbsentRow \in Row /\ AbsentRow.status = "absent"
  BY QueueAssumption DEF AbsentRow, Row, Statuses
<1>2. /\ 1 \in Ids /\ 1 \in Keys /\ Past \in Wishes
      /\ 0 \in 0..MaxIds /\ 1 \in 0..MaxIds /\ 0 \in 0..MaxKeys /\ 1 \in 0..MaxKeys
      /\ 0 \in 0..MaxTokens
  BY PlannerAssumption DEF Ids, Keys, Past, Wishes
<1>3. [status |-> "pending", wish |-> Past, key |-> 1, kind |-> "create",
       stamped |-> FALSE] \in Action
  BY <1>2 DEF Action, ActionStatuses
<1>4. action \in [Ids -> Action \union {NoAction}]
  BY <1>3 DEF Init
<1>5. cards \subseteq Card /\ items \in [Wishes -> Nat] /\ known \subseteq Keys
      /\ lastId \in 0..MaxIds /\ minted \in 0..MaxKeys
  BY <1>2 DEF Init, Card
<1>6. cred \in Credential
  BY <1>2 DEF Init, NoToken, Credential
<1>7. said \in [Inputs -> Input]
  BY DEF Init, Input
<1>8. TypeOK
  BY <1>1, <1>2, <1>4, <1>5, <1>6, <1>7 DEF Init, TypeOK, PCs
<1>9. AtHand
  BY <1>1 DEF Init, AtHand, HandlerPCs, WriterPCs
<1> QED
  BY <1>8, <1>9 DEF Typed

\* What a step of the user, or of the sweeps, leaves as the worker has it.
LEMMA TypedNext == Typed /\ [Next]_vars => Typed'
<1> SUFFICES ASSUME Typed, [Next]_vars PROVE Typed'
  OBVIOUS
<1> USE DEF Typed
<1>p. /\ HandlerPCs \subseteq PCs /\ WriterPCs \subseteq PCs /\ "idle" \in PCs
      /\ "idle" \notin HandlerPCs /\ "idle" \notin WriterPCs
      /\ HandlerPCs \intersect WriterPCs = {}
  BY DEF PCs, HandlerPCs, WriterPCs
<1>r. /\ \A a \in Ids : /\ Inserted(job[a]) \in Row /\ Claimed(job[a]) \in Row
                        /\ Completed(job[a]) \in Row /\ Failed(job[a]) \in Row
                        /\ Wiped(job[a]) \in Row
      /\ \A i \in Inputs : /\ Inserted(inbox[i]) \in Row /\ Claimed(inbox[i]) \in Row
                           /\ Completed(inbox[i]) \in Row /\ Failed(inbox[i]) \in Row
                           /\ Wiped(inbox[i]) \in Row
  BY RowsStayRows DEF TypeOK
<1>l. /\ \A a \in Ids : LeftAlone(job[a]) \in Row
      /\ \A i \in Inputs : LeftAlone(inbox[i]) \in Row
  <2>1. \A row \in Row : [row EXCEPT !.lease = StuckAfter] \in Row
    BY QueueAssumption DEF Row
  <2> QED
    BY <2>1, RowsStayRows DEF LeftAlone, TypeOK
<1>s. /\ \A row \in Row : /\ Claimed(row).status # "absent"
                          /\ Failed(row).status # "absent"
                          /\ row.status # "absent" => /\ Completed(row).status # "absent"
                                                      /\ LeftAlone(row).status # "absent"
                          /\ row.status = "absent" => Wiped(row).status = "absent"
  <2>1. \A row \in Row : /\ Claimed(row).status # "absent" /\ Failed(row).status # "absent"
                         /\ row.status # "absent" => Completed(row).status # "absent"
                         /\ row.status = "absent" => Wiped(row).status = "absent"
    BY DEF Claimed, Failed, Completed, Wiped, Row
  <2>2. \A row \in Row : row.status # "absent" => LeftAlone(row).status # "absent"
    BY DEF LeftAlone, Recovered, Stuck, Row
  <2> QED
    BY <2>1, <2>2
<1>a. \A a \in Ids : \A s \in ActionStatuses :
        action[a] # NoAction => [action EXCEPT ![a].status = s]
                                  \in [Ids -> Action \union {NoAction}]
  BY FoundIsRow, RowsStayActions DEF TypeOK
<1>f. \A a \in Ids : \A s \in ActionStatuses : Found(a, s) => action[a] # NoAction
  BY FoundIsRow DEF Found, NoAction, ActionStatuses
<1>n. \A a \in Ids : \A s \in ActionStatuses : [action[a] EXCEPT !.status = s] # NoAction
                                                 \/ action[a] = NoAction
  BY FoundIsRow, RowsStayActions DEF NoAction, Action, ActionStatuses
\* The steps that leave the rows of the queues and of planner_action alone.
<1>0. ASSUME UNCHANGED <<action, input>>, TypeOK',
             \/ /\ mine' = mine /\ act' = act
                /\ \/ pc' = pc
                   \/ pc' \in {"idle", "done", "close"} /\ (pc' = "done" => pc \in HandlerPCs)
                                                        /\ (pc' = "close" => pc \in WriterPCs)
                   \/ pc = "ask" /\ pc' = "mark"
                   \/ pc \in HandlerPCs /\ pc' = "edit"
                   \/ pc \in WriterPCs \ {"load", "close"} /\ pc' \in WriterPCs
      PROVE Typed'
  BY <1>0, <1>p DEF input, AtHand, HandlerPCs, WriterPCs
<1>1. ASSUME NEW i \in Inputs, Arrive(i) PROVE Typed'
  <2>1. \A what \in Offers : what \in Input /\ what.do # "none"
    BY DEF Offers, Input, TypeOK
  <2>2. PICK what \in Offers : said' = [said EXCEPT ![i] = what]
    BY <1>1 DEF Arrive
  <2>3. TypeOK'
    BY <1>1, <2>1, <2>2, <1>r DEF Arrive, TypeOK, tables, chat, planner, loop, history,
       serial, ledger
  <2>4. AtHand'
    BY <1>1, <2>1, <2>2 DEF Arrive, AtHand, tables, loop, TypeOK, HandlerPCs, WriterPCs
  <2> QED
    BY <2>3, <2>4
<1>2. CASE Link
  <2>1. tokens + 1 \in 0..MaxTokens
    BY <1>2, PlannerAssumption DEF Link, TypeOK
  <2>2. TypeOK'
    BY <1>2, <2>1 DEF Link, TypeOK, Credential, tables, input, chat, loop, history,
       serial, ledger
  <2> QED
    BY <1>2, <2>2, <1>0 DEF Link, tables, loop
<1>3. CASE UserEndsGrant
  <2>1. TypeOK'
    BY <1>3, PlannerAssumption DEF UserEndsGrant, TypeOK, tables, input, chat, loop, serial
  <2> QED
    BY <1>3, <2>1, <1>0 DEF UserEndsGrant, tables, loop
<1>4. ASSUME NEW last \in Ids, ExpireStale(last) PROVE Typed'
  <2>1. \A a \in Ids : /\ action'[a] \in Action \union {NoAction}
                       /\ action[a] # NoAction => action'[a] # NoAction
    BY <1>4, <1>a, <1>f, <1>n, RowsStayActions, FoundIsRow
       DEF ExpireStale, TypeOK, ActionStatuses, Found
  <2>2. TypeOK'
    BY <1>4, <2>1 DEF ExpireStale, TypeOK, input, chat, planner, loop, history,
       serial, ledger
  <2>3. AtHand'
    BY <1>4, <2>1 DEF ExpireStale, AtHand, loop, input, HandlerPCs, WriterPCs
  <2> QED
    BY <2>2, <2>3
<1>5. ASSUME NEW i \in Inputs, Claim(i) PROVE Typed'
  <2>1. said[i].do \in {"yes", "no", "ask", "tap", "delete"}
    BY <1>5 DEF Claim, AtHand, TypeOK, Input
  <2>a. pc' \in PCs /\ mine' \in Nat /\ act' = 0 /\ again' = FALSE
    BY <1>5, <2>1, PlannerAssumption DEF Claim, Inputs, PCs, HandlerPCs
  <2>b. inbox' \in [Inputs -> Row]
    BY <1>5, <1>r DEF Claim, TypeOK
  <2>2. TypeOK'
    BY <1>5, <2>a, <2>b DEF Claim, TypeOK, tables, chat, planner, history, serial, ledger
  <2>3. AtHand'
    BY <1>5, <2>1, <1>s DEF Claim, AtHand, TypeOK, HandlerPCs, WriterPCs
  <2> QED
    BY <2>2, <2>3
<1>6. CASE AskReplayed \/ AskRefused \/ TapKnown \/ TapRefused
  BY <1>6, <1>0, <1>p DEF AskReplayed, AskRefused, TapKnown, TapRefused, Goto, TypeOK,
     tables, outside, others, input, chat, planner, history, serial, ledger, HandlerPCs
<1>7. ASSUME NEW kind \in {"create", "complete"}, NEW wish \in Wishes, Create(kind, wish)
      PROVE  /\ action' \in [Ids -> Action \union {NoAction}]
             /\ lastId' \in 0..MaxIds /\ minted' \in 0..MaxKeys
             /\ act' \in Ids /\ action'[act'] # NoAction
  <2>1. lastId + 1 \in Ids /\ minted + 1 \in Keys
    BY <1>7, PlannerAssumption DEF Create, TypeOK, Ids, Keys
  <2>2. [status |-> "pending", wish |-> wish, key |-> minted + 1, kind |-> kind,
         stamped |-> FALSE] \in Action
    BY <2>1 DEF Action, ActionStatuses
  <2>3. [status |-> "pending", wish |-> wish, key |-> minted + 1, kind |-> kind,
         stamped |-> FALSE] # NoAction
    BY DEF NoAction
  <2> QED
    BY <1>7, <2>1, <2>2, <2>3 DEF Create, TypeOK, Ids, Keys
<1>8. CASE CreateAsk
  <2>1. mine \in Wishes /\ mine \in Inputs
    BY <1>8, PlannerAssumption DEF CreateAsk, AtHand, HandlerPCs, Inputs, Wishes
  <2>2. TypeOK'
    BY <1>8, <1>7, <2>1, <1>p DEF CreateAsk, TypeOK, outside, others, input, chat, planner,
       history, ledger, HandlerPCs
  <2>3. AtHand'
    BY <1>8, <1>7, <2>1 DEF CreateAsk, AtHand, outside, others, input, HandlerPCs, WriterPCs
  <2> QED
    BY <2>2, <2>3
<1>9. CASE CreateTap
  <2>1. List \in Wishes
    BY PlannerAssumption DEF List, Wishes
  <2>2. TypeOK'
    BY <1>9, <1>7, <2>1, <1>p DEF CreateTap, TypeOK, outside, others, input, chat, planner,
       history, ledger, HandlerPCs
  <2>3. AtHand'
    BY <1>9, <1>7, <2>1 DEF CreateTap, AtHand, outside, others, input, HandlerPCs, WriterPCs
  <2> QED
    BY <2>2, <2>3
<1>10. CASE MarkHandled
  <2>1. mine \in Inputs
    BY <1>10 DEF MarkHandled, AtHand, HandlerPCs
  <2>2. pc' \in {"done", "card"} /\ mine' = mine /\ act' = act
        /\ (pc' = "card" => act # 0) /\ pc = "mark"
    BY <1>10 DEF MarkHandled, Goto
  <2>3. TypeOK'
    BY <1>10, <2>1, <2>2, <1>p DEF MarkHandled, Goto, TypeOK, outside, others, input, chat,
       planner, history, serial, ledger, HandlerPCs
  <2>4. AtHand'
    BY <1>10, <2>1, <2>2 DEF MarkHandled, AtHand, outside, others, input, HandlerPCs, WriterPCs
  <2> QED
    BY <2>3, <2>4
<1>11. CASE SendCard
  <2>1. act \in Ids /\ action[act] \in Action
    BY <1>11, FoundIsRow DEF SendCard, AtHand
  <2>2. cards' \subseteq Card
    BY <1>11, <2>1 DEF SendCard, TypeOK, Card, Action
  <2>3. TypeOK'
    BY <1>11, <2>2, <1>p DEF SendCard, Goto, TypeOK, tables, input, planner, history, serial,
       ledger, HandlerPCs
  <2> QED
    BY <1>11, <2>3, <1>0 DEF SendCard, Goto, tables, HandlerPCs
<1>12. ASSUME NEW a, Accept(a) \/ Expire(a) \/ Reject(a)
       PROVE  /\ action' \in [Ids -> Action \union {NoAction}] /\ job' \in [Ids -> Row]
              /\ \A b \in Ids : action[b] # NoAction => action'[b] # NoAction
              /\ UNCHANGED <<serial, handled>>
  <2>1. CASE ~Found(a, "pending")
    BY <1>12, <2>1 DEF Accept, Expire, Reject, TypeOK
  <2>2. CASE Found(a, "pending")
    <3>1. a \in Ids /\ action[a] # NoAction /\ action[a] \in Action
      BY <2>2, FoundIsRow DEF Found, NoAction
    <3>2. \A s \in ActionStatuses : [action EXCEPT ![a].status = s]
                                      \in [Ids -> Action \union {NoAction}]
      BY <3>1, <1>a
    <3>3. \A s \in ActionStatuses : \A b \in Ids : action[b] # NoAction =>
             [action EXCEPT ![a].status = s][b] # NoAction
      BY <3>1, <1>n DEF TypeOK
    <3> QED
      BY <1>12, <2>2, <3>1, <3>2, <3>3, <1>r DEF Accept, Expire, Reject, TypeOK, ActionStatuses
  <2> QED
    BY <2>1, <2>2
<1>13. CASE Press
  <2> DEFINE card == said[mine].card
  <2>1. Accept(card.id) \/ Expire(card.id) \/ Reject(card.id)
    BY <1>13 DEF Press
  <2>2. pc \in HandlerPCs /\ pc' = "edit" /\ mine' = mine /\ act' = act /\ again' = again
    BY <1>13 DEF Press, Goto, HandlerPCs
  <2>3. astray' \subseteq Wishes
    <3>1. Misread(card) \subseteq Wishes
      BY FoundIsRow DEF Misread, Found, Action, NoAction
    <3> QED
      BY <1>13, <3>1 DEF Press, TypeOK
  <2>4. UNCHANGED <<others, ledger>>
    BY <1>13 DEF Press
  <2>5. TypeOK'
    BY <2>1, <2>2, <2>3, <2>4, <1>12 DEF TypeOK, others, input, chat, planner, ledger,
       serial, PCs, HandlerPCs
  <2>6. AtHand'
    BY <2>1, <2>2, <2>4, <1>12 DEF AtHand, others, input, HandlerPCs, WriterPCs
  <2> QED
    BY <2>5, <2>6
<1>14. CASE StampTap
  <2>1. action' \in [Ids -> Action \union {NoAction}]
        /\ \A b \in Ids : action[b] # NoAction => action'[b] # NoAction
    <3>1. act \in Ids /\ action[act] \in Action
      BY <1>14, FoundIsRow DEF StampTap, AtHand
    <3>2. [action[act] EXCEPT !.stamped = TRUE] \in Action
          /\ [action[act] EXCEPT !.stamped = TRUE] # NoAction
      <4>1. [action[act] EXCEPT !.stamped = TRUE] \in Action
        BY <3>1 DEF Action
      <4>2. \A row \in Action : row # NoAction
        BY DEF Action, NoAction, ActionStatuses
      <4> QED
        BY <4>1, <4>2
    <3> QED
      BY <1>14, <3>1, <3>2 DEF StampTap, TypeOK
  <2>2. act \in Ids
    BY <1>14 DEF StampTap, AtHand
  <2>3. TypeOK'
    BY <1>14, <2>1, <1>p DEF StampTap, Goto, TypeOK, outside, others, input, chat, planner,
       history, serial, ledger, HandlerPCs
  <2>4. AtHand'
    BY <1>14, <2>1, <2>2 DEF StampTap, Goto, AtHand, outside, others, input, HandlerPCs,
       WriterPCs
  <2> QED
    BY <2>3, <2>4
<1>15. CASE AcceptTap
  <2>1. pc' = "edit" /\ mine' = mine /\ act' = act /\ again' = again /\ pc \in HandlerPCs
    BY <1>15 DEF AcceptTap, Goto, HandlerPCs
  <2>2. TypeOK'
    BY <1>15, <2>1, <1>12 DEF AcceptTap, TypeOK, outside, others, input, chat, planner,
       history, serial, ledger, PCs, HandlerPCs
  <2>3. AtHand'
    BY <1>15, <2>1, <1>12 DEF AcceptTap, AtHand, outside, others, input, HandlerPCs, WriterPCs
  <2> QED
    BY <2>2, <2>3
<1>16. CASE Edit
  <2>1. cards' \subseteq Card /\ listed' \in BOOLEAN
    BY <1>16 DEF Edit, TypeOK
  <2>2. TypeOK'
    BY <1>16, <2>1, <1>p DEF Edit, Goto, TypeOK, tables, input, planner, history, serial,
       ledger, HandlerPCs
  <2> QED
    BY <1>16, <2>2, <1>0 DEF Edit, Goto, tables, HandlerPCs
<1>17. CASE Delete
  <2>1. NoToken \in Credential
    BY PlannerAssumption DEF NoToken, Credential
  <2>2. TypeOK'
    BY <1>17, <2>1, <1>r, <1>p, PlannerAssumption DEF Delete, Goto, TypeOK, chat, planner,
       history, ledger, HandlerPCs
  <2>3. AtHand'
    BY <1>17, <1>s DEF Delete, Goto, AtHand, TypeOK, HandlerPCs, WriterPCs
  <2> QED
    BY <2>2, <2>3
<1>18. CASE Finish \/ HandlerRaises
  <2>1. mine \in Inputs /\ pc' = "idle" /\ mine' = mine /\ act' = act /\ again' = again
    BY <1>18 DEF Finish, HandlerRaises, AtHand, Goto, HandlerPCs
  <2>2. inbox' \in [Inputs -> Row] /\ crashes' \in Nat
    BY <1>18, <2>1, <1>r DEF Finish, HandlerRaises, TypeOK
  <2>3. UNCHANGED <<tables, cred, said, chat, planner, history>>
    BY <1>18 DEF Finish, HandlerRaises
  <2>4. TypeOK'
    BY <2>1, <2>2, <2>3, <1>p DEF TypeOK, tables, chat, planner, history, serial, ledger
  <2>5. \A i \in Inputs : i # mine => inbox'[i] = inbox[i]
    BY <1>18 DEF Finish, HandlerRaises, TypeOK
  <2>6. said[mine].do # "none"
    BY <1>18 DEF Finish, HandlerRaises, AtHand, HandlerPCs
  <2>7. AtHand'
    BY <2>1, <2>3, <2>5, <2>6 DEF AtHand, HandlerPCs, WriterPCs
  <2> QED
    BY <2>4, <2>7
<1>19. ASSUME NEW a \in Ids, ClaimWrite(a) PROVE Typed'
  <2>1. TypeOK'
    BY <1>19, <1>r, <1>p DEF ClaimWrite, TypeOK, outside, others, input, chat, planner,
       history, serial, ledger, WriterPCs
  <2>2. AtHand'
    BY <1>19, <1>p DEF ClaimWrite, AtHand, outside, others, input, HandlerPCs, WriterPCs
  <2> QED
    BY <2>1, <2>2
<1>20. CASE Load
  <2>1. pc' \in {"token", "close"} /\ (pc' = "token" => action[act] # NoAction)
        /\ act \in Ids /\ mine' = mine /\ act' = act /\ again' = again
    BY <1>20, <1>f DEF Load, Goto, AtHand, WriterPCs, ActionStatuses
  <2>2. TypeOK'
    BY <1>20, <2>1, <1>p DEF Load, TypeOK, tables, outside, others, input, chat, planner,
       history, serial, ledger, WriterPCs
  <2>3. AtHand'
    BY <1>20, <2>1 DEF Load, AtHand, tables, outside, others, input, HandlerPCs, WriterPCs
  <2> QED
    BY <2>2, <2>3
<1>t. ASSUME AsksToken
      PROVE  /\ pc \in WriterPCs \ {"load", "close"}
             /\ \A how \in {"ok", "auth", "down"} : After(how) \in WriterPCs
  BY <1>t DEF AsksToken, After, WriterPCs
<1>21. CASE NotLinked \/ TokenInHand \/ RefreshDown
  <2>1. AsksToken /\ \E how \in {"ok", "auth", "down"} : Goto(After(how))
    BY <1>21 DEF NotLinked, TokenInHand, RefreshDown, Refreshing
  <2>2. pc' \in WriterPCs /\ mine' = mine /\ act' = act /\ again' = again
    BY <2>1, <1>t DEF Goto
  <2>3. UNCHANGED <<tables, outside>>
    BY <1>21 DEF NotLinked, TokenInHand, RefreshDown
  <2>4. TypeOK'
    BY <2>2, <2>3, <1>p DEF TypeOK, tables, outside, others, input, chat, planner, history,
       serial, ledger
  <2> QED
    BY <2>1, <2>2, <2>3, <2>4, <1>0, <1>t DEF tables, outside, others
<1>22. CASE Refresh \/ RefreshUnheard \/ RefreshRefused
  <2>1. AsksToken /\ \E how \in {"ok", "auth", "down"} : Goto(After(how))
    BY <1>22 DEF Refresh, RefreshUnheard, RefreshRefused, Refreshing
  <2>2. pc' \in WriterPCs /\ mine' = mine /\ act' = act /\ again' = again
    BY <2>1, <1>t DEF Goto
  <2>3. UNCHANGED <<tables, input>>
    BY <1>22 DEF Refresh, RefreshUnheard, RefreshRefused
  <2>4. cred' \in Credential /\ grant' \in 0..MaxTokens /\ tokens' \in 0..MaxTokens
        /\ spent' \subseteq 0..MaxTokens
    <3>1. tokens < MaxTokens => tokens + 1 \in 0..MaxTokens
      BY PlannerAssumption DEF TypeOK
    <3>2. CASE Refresh
      BY <3>1, <3>2 DEF Refresh, TypeOK, Credential, history, ledger
    <3>3. CASE RefreshUnheard
      BY <3>1, <3>3 DEF RefreshUnheard, TypeOK, Credential
    <3>4. CASE RefreshRefused
      BY <3>4 DEF RefreshRefused, TypeOK, Credential, planner, history, ledger
    <3> QED
      BY <1>22, <3>2, <3>3, <3>4
  <2>5. UNCHANGED <<chat, items, known, crashes, confirmed, stranded, unheard, denied, astray>>
    BY <1>22 DEF Refresh, RefreshUnheard, RefreshRefused, planner, history, ledger
  <2>6. TypeOK'
    BY <2>2, <2>3, <2>4, <2>5, <1>p DEF TypeOK, tables, input, chat, serial
  <2> QED
    BY <2>1, <2>2, <2>3, <2>6, <1>0, <1>t DEF tables
<1>c. pc \in {"call", "landed", "confirm", "raise", "abandon", "sorry", "denied", "tell"} =>
        act \in Ids /\ action[act] \in Action
  BY FoundIsRow DEF AtHand, WriterPCs
<1>23. CASE CallServed \/ CallUnheard
  <2>1. act \in Ids /\ action[act] \in Action /\ pc = "call"
    BY <1>23, <1>c DEF CallServed, CallUnheard
  <2>2. items' \in [Wishes -> Nat] /\ known' \subseteq Keys
    BY <1>23, <2>1 DEF CallServed, CallUnheard, Served, RequestId, TypeOK, Action
  <2>3. unheard' \subseteq Wishes
    BY <1>23, <2>1 DEF CallServed, CallUnheard, TypeOK, Action, history, ledger
  <2>4. pc' \in WriterPCs /\ mine' = mine /\ act' = act /\ again' = again
        /\ UNCHANGED <<tables, cred, input, chat, grant, tokens, crashes, confirmed, stranded,
                       denied, spent, astray>>
    BY <1>23 DEF CallServed, CallUnheard, Goto, WriterPCs, history, ledger
  <2>5. TypeOK'
    BY <2>2, <2>3, <2>4, <1>p DEF TypeOK, tables, input, chat, serial
  <2> QED
    BY <2>1, <2>4, <2>5, <1>0 DEF tables, WriterPCs
<1>24. CASE CallFails \/ CallRejected
  <2>1. /\ pc = "call" /\ pc' \in WriterPCs /\ mine' = mine /\ act' = act
        /\ again' \in BOOLEAN /\ UNCHANGED <<tables, outside>>
    BY <1>24 DEF CallFails, CallRejected, Goto, WriterPCs, outside, others, TypeOK
  <2>2. TypeOK'
    BY <2>1, <1>p DEF TypeOK, tables, outside, others, input, chat, planner, history,
       serial, ledger
  <2> QED
    BY <2>1, <2>2, <1>0 DEF tables, outside, others, WriterPCs
<1>25. CASE MarkWritten \/ Abandon \/ Denied
  <2>1. act \in Ids /\ action[act] # NoAction /\ pc \in {"landed", "abandon", "denied"}
    BY <1>25 DEF MarkWritten, Abandon, Denied, AtHand, WriterPCs
  <2>2. \/ action' = action
        \/ \E s \in ActionStatuses : action' = [action EXCEPT ![act].status = s]
    BY <1>25 DEF MarkWritten, Abandon, Denied, MarkFailed, ActionStatuses
  <2>3. action' \in [Ids -> Action \union {NoAction}] /\ action'[act] # NoAction
    BY <2>1, <2>2, <1>a, <1>n DEF TypeOK
  <2>4. /\ pc' \in WriterPCs /\ mine' = mine /\ act' = act /\ again' = again
        /\ UNCHANGED <<serial, job, handled, outside>>
    BY <1>25 DEF MarkWritten, Abandon, Denied, Goto, WriterPCs
  <2>5. TypeOK'
    BY <2>3, <2>4, <1>p DEF TypeOK, outside, others, input, chat, planner, history,
       serial, ledger
  <2>6. AtHand'
    BY <2>1, <2>3, <2>4, <1>p DEF AtHand, outside, others, input, HandlerPCs, WriterPCs
  <2> QED
    BY <2>5, <2>6
<1>26. CASE Confirm \/ SaySorry \/ Tell
  <2>1. act \in Ids /\ action[act] \in Action /\ pc \in {"confirm", "sorry", "tell"}
    BY <1>26, <1>c DEF Confirm, SaySorry, Tell
  <2>2. confirmed' \in [Keys -> Nat] /\ denied' \subseteq Wishes
    BY <1>26, <2>1 DEF Confirm, SaySorry, Tell, TypeOK, Action
  <2>3. /\ pc' \in {"close", "idle"} /\ mine' = mine /\ act' = act /\ again' = again
        /\ UNCHANGED <<tables, others, stranded, unheard, spent, astray>>
    BY <1>26 DEF Confirm, SaySorry, Tell, Goto, others
  <2>4. TypeOK'
    BY <2>2, <2>3, <1>p DEF TypeOK, tables, others, input, chat, planner, serial, WriterPCs
  <2> QED
    BY <2>1, <2>3, <2>4, <1>0 DEF tables, others, WriterPCs
<1>27. CASE Close \/ Raise
  <2>1. act \in Ids /\ pc \in {"close", "raise"}
    BY <1>27 DEF Close, Raise, AtHand, WriterPCs
  <2>2. job' \in [Ids -> Row]
    BY <1>27, <2>1, <1>r DEF Close, Raise, TypeOK
  <2>3. /\ pc' \in {"idle", "abandon"} /\ (pc' = "abandon" => pc = "raise")
        /\ mine' = mine /\ act' = act /\ again' = again
        /\ UNCHANGED <<action, serial, handled, outside>>
    BY <1>27 DEF Close, Raise, Goto
  <2>4. TypeOK'
    BY <2>2, <2>3, <1>p DEF TypeOK, outside, others, input, chat, planner, history,
       serial, ledger, WriterPCs
  <2> QED
    BY <2>1, <2>3, <2>4, <1>0 DEF outside, others, WriterPCs
<1>28. CASE Warn
  <2>1. cred' \in Credential
    BY <1>28 DEF Warn, TypeOK, Credential
  <2>2. /\ pc = "warn" /\ pc' \in {"tell", "close"} /\ mine' = mine /\ act' = act
        /\ again' = again /\ UNCHANGED <<tables, input, chat, planner, crashes, history>>
    BY <1>28 DEF Warn, Goto
  <2>3. TypeOK'
    BY <2>1, <2>2, <1>p DEF TypeOK, tables, input, chat, planner, history, serial,
       ledger, WriterPCs
  <2> QED
    BY <2>2, <2>3, <1>0 DEF tables, WriterPCs
<1>29. CASE Crash
  <2>1. stranded' \subseteq Keys /\ unheard' \subseteq Wishes
    BY <1>29, <1>c DEF Crash, TypeOK, Action
  <2>2. /\ pc' = "idle" /\ mine' = mine /\ act' = act /\ again' = again
        /\ crashes' = crashes + 1
        /\ UNCHANGED <<tables, cred, input, chat, planner, confirmed, denied, spent, astray>>
    BY <1>29 DEF Crash, Goto
  <2>3. TypeOK'
    BY <2>1, <2>2, <1>p DEF TypeOK, tables, input, chat, planner, serial
  <2> QED
    BY <2>2, <2>3, <1>0 DEF tables
<1>30. ASSUME NEW i \in Inputs, RecoverUpdate(i) PROVE Typed'
  <2>1. TypeOK'
    BY <1>30, <1>l DEF RecoverUpdate, TypeOK, tables, chat, planner, loop, history, serial,
       ledger
  <2>2. AtHand'
    BY <1>30, <1>s DEF RecoverUpdate, AtHand, TypeOK, tables, loop, HandlerPCs, WriterPCs
  <2> QED
    BY <2>1, <2>2
<1>31. ASSUME NEW a \in Ids, RecoverWrite(a) PROVE Typed'
  <2>1. TypeOK'
    BY <1>31, <1>l DEF RecoverWrite, TypeOK, input, chat, planner, loop, history, serial,
       ledger
  <2> QED
    BY <1>31, <2>1, <1>0 DEF RecoverWrite, loop
<1>32. CASE UNCHANGED vars
  BY <1>32 DEF vars, TypeOK, AtHand, tables, input, chat, planner, loop, history, serial, ledger
<1> QED
  BY <1>1, <1>2, <1>3, <1>4, <1>5, <1>6, <1>8, <1>9, <1>10, <1>11, <1>13, <1>14, <1>15,
     <1>16, <1>17, <1>18, <1>19, <1>20, <1>21, <1>22, <1>23, <1>24, <1>25, <1>26, <1>27,
     <1>28, <1>29, <1>30, <1>31, <1>32 DEF Next, Handler, Writer

\* Every reachable state of the planner's writes is well formed.
THEOREM PlannerTyped == Spec => []TypeOK
<1>1. Spec => []Typed
  BY TypedInit, TypedNext, PTL DEF Spec
<1>2. Typed => TypeOK
  BY DEF Typed
<1> QED
  BY <1>1, <1>2, PTL

-----------------------------------------------------------------------------
(* The grant.                                                               *)

LEMMA LinkedNext == Typed /\ Linked /\ [Next]_vars => Linked'
<1> SUFFICES ASSUME Typed, Linked, [Next]_vars PROVE Linked'
  OBVIOUS
<1> USE DEF Linked, GrantLostOnlyIfCut
<1>0. ASSUME UNCHANGED <<cred, grant, spent>> PROVE Linked'
  BY <1>0
<1>1. CASE Link
  BY <1>1 DEF Link
<1>2. CASE UserEndsGrant
  BY <1>2 DEF UserEndsGrant
<1>3. CASE Delete
  BY <1>3 DEF Delete, NoToken
<1>4. CASE Refresh
  BY <1>4 DEF Refresh, Refreshing, Typed, TypeOK, Credential
<1>5. CASE RefreshUnheard
  BY <1>5 DEF RefreshUnheard
<1>6. CASE RefreshRefused \/ Warn
  BY <1>6 DEF RefreshRefused, Warn, Refreshing, planner, history, ledger, Typed, TypeOK,
     Credential
<1>7. CASE \/ \E i \in Inputs : Arrive(i) \/ Claim(i) \/ RecoverUpdate(i)
           \/ \E a \in Ids : ExpireStale(a) \/ ClaimWrite(a) \/ RecoverWrite(a)
           \/ Finish \/ HandlerRaises \/ Crash \/ UNCHANGED vars
  BY <1>0, <1>7 DEF Arrive, Claim, RecoverUpdate, ExpireStale, ClaimWrite, RecoverWrite,
     Finish, HandlerRaises, Crash, vars, outside, others, planner, history, ledger
<1>8. CASE \/ AskReplayed \/ AskRefused \/ CreateAsk \/ MarkHandled \/ SendCard
           \/ Press \/ TapKnown \/ TapRefused \/ CreateTap \/ StampTap \/ AcceptTap \/ Edit
  BY <1>0, <1>8 DEF AskReplayed, AskRefused, CreateAsk, MarkHandled, SendCard, Press,
     TapKnown, TapRefused, CreateTap, StampTap, AcceptTap, Edit, outside, others, planner,
     history, ledger
<1>9. CASE \/ Load \/ NotLinked \/ TokenInHand \/ RefreshDown \/ CallServed \/ CallUnheard
           \/ CallFails \/ CallRejected \/ MarkWritten \/ Confirm \/ Close \/ Raise
           \/ Abandon \/ SaySorry \/ Denied \/ Tell
  BY <1>0, <1>9 DEF Load, NotLinked, TokenInHand, RefreshDown, CallServed, CallUnheard,
     CallFails, CallRejected, MarkWritten, Confirm, Close, Raise, Abandon, SaySorry, Denied,
     Tell, outside, others, planner, history, ledger
<1> QED
  BY <1>1, <1>2, <1>3, <1>4, <1>5, <1>6, <1>7, <1>8, <1>9 DEF Next, Handler, Writer

\* The bot takes the grant for revoked only when the user ended it or a rotation's
\* answer was lost: auth.py stores the token the endpoint gave before it is used.
THEOREM GrantKept == Spec => []GrantLostOnlyIfCut
<1>1. Init => Linked
  BY DEF Init, Linked, GrantLostOnlyIfCut, NoToken
<1>2. Spec => [](Typed /\ Linked)
  BY <1>1, TypedInit, TypedNext, LinkedNext, PTL DEF Spec
<1>3. Linked => GrantLostOnlyIfCut
  BY DEF Linked
<1> QED
  BY <1>2, <1>3, PTL

-----------------------------------------------------------------------------
(* The row and its job.                                                     *)

\* What no step changes of a row that stays, and which steps move its status.
Kept(a) ==
    /\ action'[a] # NoAction <=> action[a] # NoAction
    /\ action[a] # NoAction => /\ action'[a].wish = action[a].wish
                               /\ action'[a].key = action[a].key
                               /\ action'[a].kind = action[a].kind

Decides(a) == Found(a, "pending") /\ action'[a].status \in {"accepted", "rejected", "expired"}

Moved(a) ==
    \/ action'[a].status = action[a].status
    \/ Decides(a) /\ pc \in {"yes", "no", "accept", "idle"}
    \/ act = a /\ pc = "landed" /\ action'[a].status = "written"
    \/ Found(a, "accepted") /\ act = a /\ pc \in {"abandon", "denied"}
                            /\ action'[a].status = "failed"

NewRow ==
    /\ pc \in {"ask", "tap"} /\ (pc = "ask" => mine \notin handled)
    /\ lastId + 1 \in Ids /\ minted + 1 \in Keys
    /\ lastId' = lastId + 1 /\ minted' = minted + 1 /\ act' = lastId + 1
    /\ action' = [action EXCEPT ![lastId + 1] =
            [status |-> "pending", wish |-> IF pc = "ask" THEN mine ELSE List,
             key |-> minted + 1, kind |-> IF pc = "ask" THEN "create" ELSE "complete",
             stamped |-> FALSE]]

NoRows == pc = "delete" /\ action' = [a \in Ids |-> NoAction] /\ lastId' = 0 /\ minted' = minted

\* Every step keeps the rows and moves one at most, or adds one, or drops them all.
LEMMA RowsMove ==
    Typed /\ [Next]_vars =>
        \/ UNCHANGED serial /\ \A a \in Ids : Kept(a) /\ Moved(a)
        \/ NewRow
        \/ NoRows
<1> SUFFICES ASSUME Typed, [Next]_vars,
                    ~(UNCHANGED serial /\ \A a \in Ids : Kept(a) /\ Moved(a))
             PROVE  NewRow \/ NoRows
  OBVIOUS
<1>t. TypeOK /\ AtHand
  BY DEF Typed
<1>0. UNCHANGED <<action, serial>> => FALSE
  BY DEF Kept, Moved
<1>1. \A a \in Ids : \A s \in ActionStatuses : Found(a, s) => action[a] \in Action /\ action[a] # NoAction
  BY <1>t, FoundIsRow DEF Found, NoAction, ActionStatuses
<1>n. \A row \in Action : row # NoAction
  BY DEF Action, NoAction, ActionStatuses
<1>2. ASSUME NEW a, NEW s \in ActionStatuses,
             action' = [action EXCEPT ![a].status = s], a \in Ids, action[a] \in Action
      PROVE  /\ \A b \in Ids : Kept(b) /\ (b # a => Moved(b))
             /\ action'[a].status = s
  <2>1. [action[a] EXCEPT !.status = s] \in Action
    BY <1>2, RowsStayActions
  <2>2. action'[a] = [action[a] EXCEPT !.status = s] /\ \A b \in Ids : b # a => action'[b] = action[b]
    BY <1>2, <1>t DEF TypeOK
  <2> QED
    BY <2>1, <2>2, <1>2, <1>n DEF Kept, Moved, Action
<1>3. ASSUME NEW a, Accept(a) \/ Expire(a) \/ Reject(a), pc \in {"yes", "no", "accept"}
      PROVE  FALSE
  <2>1. UNCHANGED serial
    BY <1>3 DEF Accept, Expire, Reject
  <2>2. Found(a, "pending")
    BY <1>3, <1>0, <2>1 DEF Accept, Expire, Reject
  <2>3. a \in Ids /\ action[a] \in Action
    BY <2>2, <1>1 DEF Found, ActionStatuses
  <2>4. PICK s \in {"accepted", "rejected", "expired"} : action' = [action EXCEPT ![a].status = s]
    BY <1>3, <2>2 DEF Accept, Expire, Reject
  <2>5. Moved(a)
    BY <1>2, <1>3, <2>2, <2>3, <2>4 DEF Moved, Decides, ActionStatuses
  <2> QED
    BY <1>2, <2>1, <2>3, <2>4, <2>5 DEF ActionStatuses
<1>4. CASE \/ \E i \in Inputs : Arrive(i) \/ Claim(i) \/ RecoverUpdate(i)
           \/ \E a \in Ids : ClaimWrite(a) \/ RecoverWrite(a)
           \/ Link \/ UserEndsGrant \/ Finish \/ HandlerRaises \/ Crash \/ UNCHANGED vars
           \/ AskReplayed \/ AskRefused \/ MarkHandled \/ SendCard
           \/ TapKnown \/ TapRefused \/ Edit
  BY <1>0, <1>4 DEF Arrive, Claim, RecoverUpdate, ClaimWrite, RecoverWrite, Link,
     UserEndsGrant, Finish, HandlerRaises, Crash, vars, tables, AskReplayed, AskRefused,
     MarkHandled, SendCard, TapKnown, TapRefused, Edit
<1>5. CASE \/ Load \/ NotLinked \/ TokenInHand \/ Refresh \/ RefreshUnheard \/ RefreshDown
           \/ RefreshRefused \/ CallServed \/ CallUnheard \/ CallFails \/ CallRejected
           \/ Confirm \/ Close \/ Raise \/ SaySorry \/ Warn \/ Tell
  BY <1>0, <1>5 DEF Load, NotLinked, TokenInHand, Refresh, RefreshUnheard, RefreshDown,
     RefreshRefused, CallServed, CallUnheard, CallFails, CallRejected, Confirm, Close,
     Raise, SaySorry, Warn, Tell, tables
<1>6. CASE CreateAsk \/ CreateTap
  <2>1. lastId < MaxIds /\ minted < MaxKeys
    BY <1>6 DEF CreateAsk, CreateTap, Create
  <2>2. lastId + 1 \in Ids /\ minted + 1 \in Keys
    BY <2>1, <1>t, PlannerAssumption DEF TypeOK, Ids, Keys
  <2>3. CASE CreateAsk
    BY <2>2, <2>3 DEF CreateAsk, Create, NewRow
  <2>4. CASE CreateTap
    BY <2>2, <2>4 DEF CreateTap, Create, NewRow, List
  <2> QED
    BY <1>6, <2>3, <2>4
<1>7. CASE Delete
  BY <1>7 DEF Delete, NoRows
<1>8. CASE Press \/ AcceptTap
  BY <1>3, <1>8 DEF Press, AcceptTap
<1>9. CASE StampTap
  <2>1. act \in Ids /\ action[act] \in Action /\ action' = [action EXCEPT ![act].stamped = TRUE]
        /\ UNCHANGED serial
    BY <1>9, <1>t, FoundIsRow DEF StampTap, AtHand
  <2>2. action'[act] = [action[act] EXCEPT !.stamped = TRUE]
        /\ [action[act] EXCEPT !.stamped = TRUE] \in Action
        /\ \A b \in Ids : b # act => action'[b] = action[b]
    BY <2>1, <1>t DEF TypeOK, Action
  <2>a. /\ action'[act].status = action[act].status /\ action'[act].wish = action[act].wish
        /\ action'[act].key = action[act].key /\ action'[act].kind = action[act].kind
    BY <2>1, <2>2 DEF Action
  <2>b. action'[act] # NoAction /\ action[act] # NoAction
    BY <2>1, <2>2, <1>n
  <2>3. \A b \in Ids : Kept(b) /\ Moved(b)
    BY <2>a, <2>b, <2>2 DEF Kept, Moved
  <2> QED
    BY <2>1, <2>3
<1>10. ASSUME NEW last \in Ids, ExpireStale(last) PROVE FALSE
  <2>1. UNCHANGED serial /\ pc = "idle"
    BY <1>10 DEF ExpireStale
  <2>2. ASSUME NEW b \in Ids PROVE Kept(b) /\ Moved(b)
    <3>1. CASE action'[b] = action[b]
      BY <3>1 DEF Kept, Moved
    <3>2. CASE Found(b, "pending") /\ action'[b] = [action[b] EXCEPT !.status = "expired"]
      <4>1. action[b] \in Action /\ "expired" \in ActionStatuses
        BY <3>2, <1>1 DEF ActionStatuses
      <4>2. action'[b] \in Action
        <5>1. [action[b] EXCEPT !.status = "expired"] \in Action
          BY <4>1, RowsStayActions
        <5> QED
          BY <3>2, <5>1
      <4>3. action'[b].status = "expired"
        <5>1. \A row \in Action : [row EXCEPT !.status = "expired"].status = "expired"
          BY DEF Action
        <5> QED
          BY <3>2, <4>1, <5>1
      <4> QED
        BY <3>2, <4>1, <4>2, <4>3, <1>n, <2>1 DEF Kept, Moved, Decides, Action
    <3> QED
      BY <1>10, <3>1, <3>2 DEF ExpireStale
  <2> QED
    BY <2>1, <2>2
<1>11. CASE MarkWritten \/ Abandon \/ Denied
  <2>1. act \in Ids /\ action[act] \in Action /\ pc \in {"landed", "abandon", "denied"}
        /\ UNCHANGED serial
    BY <1>11, <1>t, FoundIsRow DEF MarkWritten, Abandon, Denied, AtHand, WriterPCs
  <2>2. PICK s \in {"written", "failed"} :
            /\ action' = [action EXCEPT ![act].status = s]
            /\ IF s = "written" THEN pc = "landed"
               ELSE pc \in {"abandon", "denied"} /\ Found(act, "accepted")
    BY <1>11, <1>0, <2>1 DEF MarkWritten, Abandon, Denied, MarkFailed
  <2>3. Moved(act)
    BY <1>2, <2>1, <2>2 DEF Moved, ActionStatuses
  <2> QED
    BY <1>2, <2>1, <2>2, <2>3 DEF ActionStatuses
<1> QED
  BY <1>1, <1>4, <1>5, <1>6, <1>7, <1>8, <1>9, <1>10, <1>11 DEF Next, Handler, Writer

-----------------------------------------------------------------------------
(* Row ids and request keys.                                                *)

LEMMA NumberedInit == Init => Numbered
<1> SUFFICES ASSUME Init PROVE Numbered
  OBVIOUS
<1>1. \A a \in Ids : action[a] # NoAction => a = 1 /\ action[1].key = 1 /\ minted = 1 /\ lastId = 1
  BY DEF Init
<1>2. \A a \in Ids : a <= lastId => action[a] # NoAction
  <2>1. [status |-> "pending", wish |-> Past, key |-> 1, kind |-> "create", stamped |-> FALSE]
          # NoAction
    BY DEF NoAction
  <2> QED
    BY <2>1 DEF Init, Ids
<1>3. known \subseteq 1..minted
  BY DEF Init
<1>4. \A k \in Keys : confirmed[k] = 0
  BY DEF Init
<1> QED
  BY <1>1, <1>2, <1>3, <1>4 DEF Numbered, Ids

LEMMA NumberedNext == Typed /\ Numbered /\ [Next]_vars => Numbered'
<1> SUFFICES ASSUME Typed, Numbered, [Next]_vars PROVE Numbered'
  OBVIOUS
<1>t. TypeOK /\ AtHand
  BY DEF Typed
<1>i. lastId \in Nat /\ minted \in Nat
  BY <1>t, PlannerAssumption DEF TypeOK
<1>k. \A a \in Ids : action[a] # NoAction => action[a].key \in Keys /\ action[a].key \in 1..minted
  BY <1>t, <1>i, FoundIsRow DEF Numbered, Action, Keys
\* What is answered or confirmed is the key of a row.
<1>1. known' \subseteq 1..minted
  <2>1. CASE CallServed \/ CallUnheard
    <3>1. act \in Ids /\ action[act] # NoAction
      BY <2>1, <1>t DEF CallServed, CallUnheard, AtHand, WriterPCs
    <3>2. known' \subseteq known \union {action[act].key}
      BY <2>1 DEF CallServed, CallUnheard, Served, RequestId
    <3> QED
      BY <3>1, <3>2, <1>k DEF Numbered
  <2>2. CASE \/ \E i \in Inputs : Arrive(i) \/ Claim(i) \/ RecoverUpdate(i)
             \/ \E a \in Ids : ExpireStale(a) \/ ClaimWrite(a) \/ RecoverWrite(a)
             \/ Link \/ UserEndsGrant \/ HandlerRaises \/ Crash \/ UNCHANGED vars \/ Handler
    BY <2>2 DEF Arrive, Claim, RecoverUpdate, ExpireStale, ClaimWrite, RecoverWrite, Link,
       UserEndsGrant, HandlerRaises, Crash, vars, Handler, AskReplayed, AskRefused, CreateAsk,
       MarkHandled, SendCard, Press, TapKnown, TapRefused, CreateTap, StampTap, AcceptTap,
       Edit, Delete, Finish, outside, others, planner, Numbered
  <2>3. CASE Writer /\ ~(CallServed \/ CallUnheard)
    BY <2>3 DEF Writer, ClaimWrite, Load, NotLinked, TokenInHand, Refresh, RefreshUnheard,
       RefreshDown, RefreshRefused, CallFails, CallRejected, MarkWritten, Confirm, Close,
       Raise, Abandon, SaySorry, Denied, Warn, Tell, outside, others, planner, Numbered
  <2> QED
    BY <2>1, <2>2, <2>3 DEF Next
<1>2. \A k \in Keys : k > minted => confirmed'[k] = 0
  <2>1. CASE Confirm
    <3>1. act \in Ids /\ action[act] # NoAction
      BY <2>1, <1>t DEF Confirm, AtHand, WriterPCs
    <3>2. \A k \in Keys : k # action[act].key => confirmed'[k] = confirmed[k]
      BY <2>1, <1>t DEF Confirm, TypeOK
    <3>3. action[act].key <= minted /\ action[act].key \in Nat
      BY <3>1, <1>k DEF Keys
    <3>4. \A k \in Keys : k > minted => k # action[act].key
      BY <3>3, <1>i DEF Keys
    <3> QED
      BY <3>2, <3>4 DEF Numbered
  <2>2. CASE \/ \E i \in Inputs : Arrive(i) \/ Claim(i) \/ RecoverUpdate(i)
             \/ \E a \in Ids : ExpireStale(a) \/ ClaimWrite(a) \/ RecoverWrite(a)
             \/ Link \/ UserEndsGrant \/ HandlerRaises \/ Crash \/ UNCHANGED vars \/ Handler
    BY <2>2 DEF Arrive, Claim, RecoverUpdate, ExpireStale, ClaimWrite, RecoverWrite, Link,
       UserEndsGrant, HandlerRaises, Crash, vars, Handler, AskReplayed, AskRefused, CreateAsk,
       MarkHandled, SendCard, Press, TapKnown, TapRefused, CreateTap, StampTap, AcceptTap,
       Edit, Delete, Finish, outside, history, ledger, Numbered
  <2>3. CASE Writer /\ ~Confirm
    BY <2>3 DEF Writer, ClaimWrite, Load, NotLinked, TokenInHand, Refresh, RefreshUnheard,
       RefreshDown, RefreshRefused, CallServed, CallUnheard, CallFails, CallRejected,
       MarkWritten, Close, Raise, Abandon, SaySorry, Denied, Warn, Tell, outside, history,
       ledger, Numbered
  <2> QED
    BY <2>1, <2>2, <2>3 DEF Next
<1>3. minted' \in Nat /\ minted <= minted'
  BY RowsMove, <1>i DEF serial, NewRow, NoRows
<1>4. known' \subseteq 1..minted'
  BY <1>1, <1>3, <1>i
<1>5. \A k \in Keys : k > minted' => confirmed'[k] = 0
  BY <1>2, <1>3, <1>i DEF Keys
<1>6. CASE UNCHANGED serial /\ \A a \in Ids : Kept(a) /\ Moved(a)
  BY <1>4, <1>5, <1>6 DEF Numbered, Kept, serial
<1>7. CASE NewRow
  <2> DEFINE new == lastId + 1
  <2>1. /\ new \in Ids /\ action'[new] # NoAction /\ action'[new].key = minted + 1
        /\ \A a \in Ids : a # new => action'[a] = action[a]
    BY <1>7, <1>t DEF NewRow, TypeOK, NoAction
  <2>2. \A a \in Ids : a <= lastId' <=> a <= lastId \/ a = new
    BY <1>7, <1>i DEF NewRow, Ids
  <2>3. \A a \in Ids : action[a] # NoAction => a # new /\ action[a].key \in Nat
                                               /\ action[a].key <= minted
    BY <1>k, <1>i DEF Numbered, Ids, Keys
  <2>4. minted' = minted + 1
    BY <1>7 DEF NewRow
  <2>5. \A a \in Ids : action'[a] # NoAction <=> a <= lastId'
    BY <2>1, <2>2 DEF Numbered
  <2>6. \A a \in Ids : action'[a] # NoAction => action'[a].key <= minted'
    BY <2>1, <2>3, <2>4, <1>i
  <2>7. \A a, b \in Ids : action'[a] # NoAction /\ action'[b] # NoAction /\ a # b =>
            action'[a].key # action'[b].key
    BY <2>1, <2>3, <1>i DEF Numbered
  <2> QED
    BY <2>5, <2>6, <2>7, <1>4, <1>5 DEF Numbered
<1>8. CASE NoRows
  BY <1>4, <1>5, <1>8 DEF Numbered, NoRows, Ids
<1> QED
  BY <1>6, <1>7, <1>8, RowsMove

-----------------------------------------------------------------------------
(* The row and its job, continued.                                          *)

LEMMA QueuedInit == Init => Queued
  BY DEF Init, Queued, Placed, JobsFollow, AcceptedHasJob, Found, NoAction, Missing,
     AbsentRow, WriterPCs

\* The writer's steps keep its place and its row in agreement.
LEMMA PlacedNext == Typed /\ Placed /\ [Next]_vars => Placed'
<1> SUFFICES ASSUME Typed, Placed, [Next]_vars PROVE Placed'
  OBVIOUS
<1>t. TypeOK /\ AtHand
  BY DEF Typed
<1>0. ASSUME UNCHANGED <<pc, act, action>> PROVE Placed'
  BY <1>0 DEF Placed, Found
<1>1. ASSUME pc' \notin WriterPCs PROVE Placed'
  BY <1>1 DEF Placed, WriterPCs
<1>2. CASE \/ \E i \in Inputs : Arrive(i) \/ RecoverUpdate(i)
           \/ \E a \in Ids : ExpireStale(a) \/ RecoverWrite(a)
           \/ Link \/ UserEndsGrant \/ UNCHANGED vars
  <2>1. CASE \E a \in Ids : ExpireStale(a)
    BY <2>1, <1>1 DEF ExpireStale, loop, WriterPCs
  <2>2. CASE ~\E a \in Ids : ExpireStale(a)
    BY <1>2, <2>2, <1>0 DEF Arrive, RecoverUpdate, RecoverWrite, Link, UserEndsGrant, vars,
       loop, tables
  <2> QED
    BY <2>1, <2>2
<1>3. CASE Handler \/ HandlerRaises \/ Crash
  <2>1. CASE \E i \in Inputs : Claim(i)
    BY <2>1, <1>1, <1>t DEF Claim, TypeOK, AtHand, Input, WriterPCs
  <2>2. CASE ~\E i \in Inputs : Claim(i)
    BY <1>3, <2>2, <1>1 DEF HandlerRaises, Crash, Handler, AskReplayed, AskRefused, CreateAsk,
       MarkHandled, SendCard, Press, TapKnown, TapRefused, CreateTap, StampTap, AcceptTap,
       Edit, Delete, Finish, Goto, WriterPCs
  <2> QED
    BY <2>1, <2>2
<1>4. CASE \/ \E a \in Ids : ClaimWrite(a)
           \/ Load \/ CallServed \/ CallUnheard \/ CallFails \/ CallRejected \/ Confirm
  BY <1>4 DEF ClaimWrite, Load, CallServed, CallUnheard, CallFails, CallRejected, Confirm,
     Goto, tables, outside, Placed, Found
<1>5. CASE NotLinked \/ TokenInHand \/ Refresh \/ RefreshUnheard \/ RefreshDown \/ RefreshRefused
  <2>1. /\ AsksToken /\ \E how \in {"ok", "auth", "down"} : Goto(After(how))
        /\ UNCHANGED tables
    BY <1>5 DEF NotLinked, TokenInHand, Refresh, RefreshUnheard, RefreshDown, RefreshRefused,
       Refreshing
  <2> QED
    BY <2>1 DEF AsksToken, After, Goto, tables, Placed, Found
<1>6. CASE MarkWritten
  <2>1. act \in Ids /\ action[act] \in Action
    BY <1>6, <1>t, FoundIsRow DEF MarkWritten, AtHand, WriterPCs
  <2>2. action'[act].status = "written"
    BY <1>6, <2>1, <1>t DEF MarkWritten, TypeOK, Action
  <2> QED
    BY <1>6, <2>1, <2>2 DEF MarkWritten, Goto, Placed, Found
<1>7. CASE Abandon \/ Denied
  <2>1. act \in Ids /\ action[act] \in Action /\ Found(act, "accepted")
    BY <1>7, <1>t, FoundIsRow DEF Abandon, Denied, AtHand, WriterPCs, Placed
  <2>2. action'[act].status = "failed"
    BY <1>7, <2>1, <1>t DEF Abandon, Denied, MarkFailed, TypeOK, Action
  <2> QED
    BY <1>7, <2>1, <2>2 DEF Abandon, Denied, Goto, Placed, Found
<1>8. CASE Close \/ Raise \/ SaySorry
  BY <1>8, <1>1 DEF Close, Raise, SaySorry, Goto, Placed, Found, WriterPCs
<1>9. CASE Warn \/ Tell
  BY <1>9 DEF Warn, Tell, Goto, tables, Placed, Found
<1> QED
  BY <1>2, <1>3, <1>4, <1>5, <1>6, <1>7, <1>8, <1>9 DEF Next, Writer

LEMMA JobsFollowNext ==
    Typed /\ Numbered /\ Placed /\ JobsFollow /\ [Next]_vars => JobsFollow'
<1> SUFFICES ASSUME Typed, Numbered, Placed, JobsFollow, [Next]_vars PROVE JobsFollow'
  OBVIOUS
<1>t. TypeOK /\ AtHand
  BY DEF Typed
<1>i. lastId \in Nat
  BY <1>t, PlannerAssumption DEF TypeOK
\* A row that is absent or pending after a step was so before, or is new.
<1>1. ASSUME NEW a \in Ids, action'[a] = NoAction \/ Found(a, "pending")'
      PROVE  \/ action[a] = NoAction \/ Found(a, "pending")
             \/ pc = "delete"
  <2>1. CASE Kept(a) /\ Moved(a)
    BY <1>1, <2>1 DEF Kept, Moved, Decides, Found
  <2>2. CASE NewRow
    <3>1. a # lastId + 1 => action'[a] = action[a]
      BY <2>2, <1>t DEF NewRow, TypeOK
    <3>2. action[lastId + 1] = NoAction
      BY <2>2, <1>i DEF NewRow, Numbered, Ids
    <3> QED
      BY <1>1, <3>1, <3>2 DEF Found
  <2>3. CASE NoRows
    BY <2>3 DEF NoRows
  <2> QED
    BY <2>1, <2>2, <2>3, RowsMove
<1>2. ASSUME NEW a \in Ids, pc # "delete", action[a] = NoAction \/ Found(a, "pending"),
             action'[a] = NoAction \/ Found(a, "pending")'
      PROVE  job'[a] = job[a]
  <2>a. /\ job[a].status \in {"absent", "gone"}
        /\ pc \in WriterPCs => act # a
    BY <1>2 DEF JobsFollow, Missing
  <2>1. CASE \/ \E i \in Inputs : Arrive(i) \/ RecoverUpdate(i) \/ Claim(i)
             \/ \E last \in Ids : ExpireStale(last)
             \/ Link \/ UserEndsGrant \/ UNCHANGED vars \/ HandlerRaises \/ Crash
    BY <2>1 DEF Arrive, RecoverUpdate, Claim, ExpireStale, Link, UserEndsGrant, vars,
       HandlerRaises, Crash, tables
  <2>2. CASE \E b \in Ids : RecoverWrite(b) \/ ClaimWrite(b)
    BY <2>2, <2>a, <1>t DEF RecoverWrite, ClaimWrite, TypeOK
  <2>3. ASSUME NEW b, Accept(b) PROVE job'[a] = job[a]
    <3>1. CASE b = a /\ Found(a, "pending")
      <4>1. action'[a].status = "accepted"
        BY <2>3, <3>1, <1>t, FoundIsRow DEF Accept, TypeOK, Action, Found, NoAction
      <4> QED
        BY <1>2, <4>1 DEF Found, NoAction
    <3>2. CASE ~(b = a /\ Found(a, "pending"))
      BY <2>3, <3>2, <1>t DEF Accept, TypeOK, Found
    <3> QED
      BY <3>1, <3>2
  <2>4. CASE Press \/ AcceptTap
    BY <2>3, <2>4 DEF Press, AcceptTap, Expire, Reject
  <2>5. CASE Handler /\ ~(Press \/ AcceptTap)
    BY <2>1, <2>5, <1>2 DEF Handler, AskReplayed, AskRefused, CreateAsk, MarkHandled,
       SendCard, TapKnown, TapRefused, CreateTap, StampTap, Edit, Delete, Finish, tables
  <2>6. CASE Close \/ Raise
    BY <2>6, <2>a, <1>t DEF Close, Raise, TypeOK, WriterPCs
  <2>7. CASE Writer /\ ~(Close \/ Raise)
    BY <2>2, <2>7 DEF Writer, Load, NotLinked, TokenInHand, Refresh, RefreshUnheard,
       RefreshDown, RefreshRefused, CallServed, CallUnheard, CallFails, CallRejected,
       MarkWritten, Confirm, Abandon, SaySorry, Denied, Warn, Tell, tables
  <2> QED
    BY <2>1, <2>2, <2>4, <2>5, <2>6, <2>7 DEF Next
<1>3. CASE Delete
  BY <1>3, <1>t DEF Delete, Goto, Wiped, Missing, TypeOK, Row, JobsFollow, WriterPCs
<1>4. CASE pc = "delete" /\ ~Delete
  <2>1. UNCHANGED <<action, job, act>> /\ pc' \notin WriterPCs
    BY <1>4, <1>t DEF Next, Handler, Writer, Arrive, Link, UserEndsGrant, LooksAtGrant,
       ExpireStale, Claim, AskReplayed, AskRefused, CreateAsk, MarkHandled, SendCard, Press,
       TapKnown, TapRefused, CreateTap, StampTap, AcceptTap, Edit, Finish, HandlerRaises,
       ClaimWrite, Load, NotLinked, TokenInHand, Refresh, Refreshing, RefreshUnheard,
       RefreshDown, RefreshRefused, AsksToken, CallServed, CallUnheard, CallFails,
       CallRejected, MarkWritten, Confirm, Close, Raise, Abandon, SaySorry, Denied, Warn,
       Tell, Crash, RecoverUpdate, RecoverWrite, vars, tables, loop, Goto, WriterPCs
  <2> QED
    BY <2>1 DEF JobsFollow, Found
<1>5. CASE pc # "delete"
  <2>1. \A a \in Ids : action'[a] = NoAction \/ Found(a, "pending")' => job'[a].status \in Missing
    BY <1>1, <1>2, <1>5 DEF JobsFollow
  <2>2. ASSUME pc' \in WriterPCs, pc \in WriterPCs, act' = act, act \in Ids
        PROVE  action'[act'] # NoAction /\ ~Found(act, "pending")'
    <3>1. action[act] # NoAction /\ ~Found(act, "pending")
      BY <2>2 DEF JobsFollow
    <3>2. Kept(act) /\ Moved(act)
      BY <2>2, RowsMove DEF NewRow, NoRows, WriterPCs
    <3> QED
      BY <2>2, <3>1, <3>2 DEF Kept, Moved, Decides, Found
  <2>3. \/ pc' \notin WriterPCs
        \/ pc \in WriterPCs /\ act' = act /\ act \in Ids
        \/ \E a \in Ids : ClaimWrite(a)
    <3>1. act' = act \/ pc' \notin WriterPCs \/ \E a \in Ids : ClaimWrite(a)
      <4>1. CASE \/ \E i \in Inputs : Arrive(i) \/ RecoverUpdate(i)
                 \/ \E a \in Ids : ExpireStale(a) \/ RecoverWrite(a)
                 \/ Link \/ UserEndsGrant \/ UNCHANGED vars \/ HandlerRaises \/ Crash
        BY <4>1 DEF Arrive, RecoverUpdate, ExpireStale, RecoverWrite, Link, UserEndsGrant,
           vars, loop, HandlerRaises, Crash, Goto
      <4>2. CASE Handler
        BY <4>2, <1>t DEF Handler, Claim, AtHand, TypeOK, Input, AskReplayed, AskRefused,
           CreateAsk, MarkHandled, SendCard, Press, TapKnown, TapRefused, CreateTap, StampTap,
           AcceptTap, Edit, Delete, Finish, Goto, WriterPCs
      <4>3. CASE Writer
        BY <4>3 DEF Writer, Load, NotLinked, TokenInHand, Refresh, RefreshUnheard,
           RefreshDown, RefreshRefused, CallServed, CallUnheard, CallFails, CallRejected,
           MarkWritten, Confirm, Close, Raise, Abandon, SaySorry, Denied, Warn, Tell, Goto
      <4> QED
        BY <4>1, <4>2, <4>3 DEF Next
    <3>2. pc' \in WriterPCs => pc \in WriterPCs \/ \E a \in Ids : ClaimWrite(a)
      <4>1. CASE \/ \E i \in Inputs : Arrive(i) \/ RecoverUpdate(i)
                 \/ \E a \in Ids : ExpireStale(a) \/ RecoverWrite(a)
                 \/ Link \/ UserEndsGrant \/ UNCHANGED vars \/ HandlerRaises \/ Crash
        BY <4>1 DEF Arrive, RecoverUpdate, ExpireStale, RecoverWrite, Link, UserEndsGrant,
           vars, loop, HandlerRaises, Crash, Goto, WriterPCs
      <4>2. CASE Handler
        BY <4>2, <1>t DEF Handler, Claim, AtHand, TypeOK, Input, AskReplayed, AskRefused,
           CreateAsk, MarkHandled, SendCard, Press, TapKnown, TapRefused, CreateTap, StampTap,
           AcceptTap, Edit, Delete, Finish, Goto, WriterPCs
      <4>3. CASE Writer
        BY <4>3 DEF Writer, Load, NotLinked, TokenInHand, Refresh, RefreshUnheard,
           RefreshDown, RefreshRefused, Refreshing, AsksToken, CallServed, CallUnheard,
           CallFails, CallRejected, MarkWritten, Confirm, Close, Raise, Abandon, SaySorry,
           Denied, Warn, Tell, WriterPCs
      <4> QED
        BY <4>1, <4>2, <4>3 DEF Next
    <3>3. pc \in WriterPCs => act \in Ids
      BY <1>t DEF AtHand
    <3> QED
      BY <3>1, <3>2, <3>3
  <2>4. ASSUME NEW a \in Ids, ClaimWrite(a)
        PROVE  action'[act'] # NoAction /\ ~Found(act, "pending")'
    BY <2>4 DEF ClaimWrite, JobsFollow, Missing, Found
  <2> QED
    BY <2>1, <2>2, <2>3, <2>4 DEF JobsFollow
<1> QED
  BY <1>3, <1>4, <1>5

LEMMA JobsKept == Typed /\ Numbered /\ Queued /\ [Next]_vars => AcceptedHasJob'
<1> SUFFICES ASSUME Typed, Numbered, Queued, [Next]_vars,
                    NEW a \in Ids, Found(a, "accepted")'
             PROVE  \/ job'[a].status \in {"pending", "processing"}
                    \/ pc' = "abandon" /\ act' = a
                    \/ action'[a].key \in stranded'
  BY DEF AcceptedHasJob
<1>t. TypeOK /\ AtHand
  BY DEF Typed
<1>q. Placed /\ JobsFollow /\ AcceptedHasJob
  BY DEF Queued
<1>a. action'[a].status = "accepted"
  BY DEF Found
\* A row that was there is the same; its status may have been pending.
<1>1. /\ action[a] # NoAction /\ action'[a].key = action[a].key
      /\ Found(a, "accepted") \/ Decides(a)
  <2>1. CASE NewRow
    <3>1. action'[a] = action[a]
      BY <2>1, <1>a, <1>t DEF NewRow, TypeOK
    <3> QED
      BY <3>1, <1>a DEF Found, NoAction
  <2>2. CASE NoRows
    BY <2>2, <1>a DEF NoRows, NoAction
  <2>3. CASE Kept(a) /\ Moved(a)
    BY <2>3, <1>a DEF Kept, Moved, Found, NoAction
  <2> QED
    BY <2>1, <2>2, <2>3, RowsMove
\* The accepted row's job, in the steps that leave jobs alone.
<1>2. ASSUME Found(a, "accepted"), job'[a] = job[a], pc # "abandon", stranded \subseteq stranded'
      PROVE  job'[a].status \in {"pending", "processing"} \/ action'[a].key \in stranded'
  BY <1>1, <1>2, <1>q DEF AcceptedHasJob
<1>3. ASSUME NEW b, Accept(b), pc # "abandon", stranded' = stranded
      PROVE  job'[a].status \in {"pending", "processing"} \/ action'[a].key \in stranded'
  <2>1. CASE Found(a, "accepted")
    <3>1. job'[a] = job[a]
      BY <1>3, <2>1, <1>t DEF Accept, Found, TypeOK
    <3> QED
      BY <1>2, <1>3, <2>1, <3>1
  <2>2. CASE Decides(a)
    <3>1. b = a
      BY <1>3, <2>2, <1>a, <1>t DEF Accept, Decides, Found, TypeOK
    <3>2. job'[a] = Inserted(job[a]) /\ job[a].status \in Missing
      BY <1>3, <2>2, <3>1, <1>t, <1>q DEF Accept, Decides, TypeOK, JobsFollow
    <3> QED
      BY <3>2 DEF Inserted, AbsentRow
  <2> QED
    BY <2>1, <2>2, <1>1
<1>4. CASE Press \/ AcceptTap
  <2>1. CASE \E b : Accept(b)
    BY <1>3, <1>4, <2>1 DEF Press, AcceptTap, outside, history, ledger
  <2>2. PICK b : (Expire(b) \/ Reject(b)) \/ Accept(b)
    BY <1>4 DEF Press, AcceptTap
  <2>3. CASE Expire(b) \/ Reject(b)
    <3>1. Found(a, "accepted")
      BY <2>3, <1>1, <1>a, <1>t, FoundIsRow DEF Expire, Reject, Decides, Found, TypeOK, Action, NoAction
    <3> QED
      BY <1>2, <1>4, <2>3, <3>1 DEF Expire, Reject, Press, AcceptTap, outside, history, ledger
  <2> QED
    BY <2>1, <2>2, <2>3
\* No other step accepts a row.
<1>5. ASSUME ~(Press \/ AcceptTap) PROVE Found(a, "accepted")
  <2>1. ASSUME pc = "idle" PROVE Found(a, "accepted")
    <3>1. CASE \E last \in Ids : ExpireStale(last)
      BY <3>1, <1>1, <1>a, <1>t, FoundIsRow DEF ExpireStale, Decides, Found, Action, NoAction
    <3>2. CASE ~\E last \in Ids : ExpireStale(last)
      <4>1. action' = action
        BY <2>1, <3>2, <1>5 DEF Next, Handler, Writer, Arrive, Link, UserEndsGrant, LooksAtGrant,
           Claim, AskReplayed, AskRefused, CreateAsk, MarkHandled, SendCard,
           TapKnown, TapRefused, CreateTap, StampTap, Edit, Delete, Finish, HandlerRaises,
           HandlerPCs, ClaimWrite, Load, NotLinked, TokenInHand, Refresh, Refreshing,
           RefreshUnheard, RefreshDown, RefreshRefused, AsksToken, CallServed, CallUnheard,
           CallFails, CallRejected, MarkWritten, Confirm, Close, Raise, Abandon, SaySorry,
           Denied, Warn, Tell, Crash, RecoverUpdate, RecoverWrite, vars, tables
      <4> QED
        BY <4>1, <1>1, <1>a DEF Decides, Found
    <3> QED
      BY <3>1, <3>2
  <2>2. ASSUME pc \in {"yes", "no", "accept"} PROVE Found(a, "accepted")
    <3>1. action' = action
      BY <2>2, <1>5 DEF Next, Handler, Writer, Arrive, Link, UserEndsGrant, LooksAtGrant,
         ExpireStale, Claim, AskReplayed, AskRefused, CreateAsk, MarkHandled, SendCard,
         TapKnown, TapRefused, CreateTap, StampTap, Edit, Delete, Finish, HandlerRaises,
         ClaimWrite, Load, NotLinked, TokenInHand, Refresh, Refreshing,
         RefreshUnheard, RefreshDown, RefreshRefused, AsksToken, CallServed, CallUnheard,
         CallFails, CallRejected, MarkWritten, Confirm, Close, Raise, Abandon, SaySorry,
         Denied, Warn, Tell, Crash, RecoverUpdate, RecoverWrite, vars, tables
    <3> QED
      BY <3>1, <1>1, <1>a DEF Decides, Found
  <2>3. Moved(a) \/ action'[a] = action[a]
    <3>1. CASE NewRow
      BY <3>1, <1>a, <1>t DEF NewRow, TypeOK
    <3>2. CASE NoRows
      BY <3>2, <1>a DEF NoRows, NoAction
    <3> QED
      BY <3>1, <3>2, RowsMove
  <2> QED
    BY <2>1, <2>2, <2>3, <1>1, <1>a DEF Moved, Decides, Found
<1>6. CASE Handler /\ ~(Press \/ AcceptTap)
  <2>1. CASE Delete
    BY <2>1, <1>a DEF Delete, NoAction
  <2>2. CASE ~Delete
    BY <1>2, <1>5, <1>6, <2>2 DEF Handler, Claim, AskReplayed, AskRefused, CreateAsk,
       MarkHandled, SendCard, TapKnown, TapRefused, CreateTap, StampTap, Edit, Finish,
       tables, outside, history, ledger
  <2> QED
    BY <2>1, <2>2
<1>7. CASE \/ \E i \in Inputs : Arrive(i) \/ RecoverUpdate(i)
           \/ \E last \in Ids : ExpireStale(last)
           \/ Link \/ UserEndsGrant \/ HandlerRaises
  <2>1. ~(Press \/ AcceptTap) \/ Handler
    BY DEF Handler
  <2>2. CASE Press \/ AcceptTap
    BY <1>4, <2>2
  <2>3. CASE ~(Press \/ AcceptTap)
    BY <1>2, <1>5, <1>7, <2>3 DEF Arrive, RecoverUpdate, ExpireStale, Link, UserEndsGrant,
       LooksAtGrant, HandlerRaises, HandlerPCs, tables, history, ledger
  <2> QED
    BY <2>2, <2>3
<1>8. CASE UNCHANGED vars
  BY <1>8, <1>1, <1>q, <1>a DEF vars, tables, loop, history, ledger, AcceptedHasJob, Found
<1>9. ASSUME Crash, ~(Press \/ AcceptTap) PROVE job'[a].status \in {"pending", "processing"}
                         \/ action'[a].key \in stranded'
  BY <1>1, <1>5, <1>9, <1>q DEF Crash, tables, AcceptedHasJob
<1>10. ASSUME NEW b \in Ids, ClaimWrite(b) \/ RecoverWrite(b), ~(Press \/ AcceptTap)
       PROVE  job'[a].status \in {"pending", "processing"} \/ action'[a].key \in stranded'
  <2>1. CASE b = a
    <3>1. \A row \in Row : row.status = "processing" =>
            LeftAlone(row).status \in {"pending", "processing"}
      BY DEF LeftAlone, Recovered, Stuck, Row
    <3>2. job[a] \in Row /\ (RecoverWrite(b) => job[a].status = "processing")
      BY <2>1, <1>t DEF RecoverWrite, TypeOK
    <3>3. job'[a] = Claimed(job[a]) \/ (RecoverWrite(b) /\ job'[a] = LeftAlone(job[a]))
      BY <1>10, <2>1, <1>t DEF ClaimWrite, RecoverWrite, TypeOK
    <3> QED
      BY <3>1, <3>2, <3>3 DEF Claimed
  <2>2. CASE b # a
    BY <1>2, <1>5, <1>10, <2>2, <1>t DEF ClaimWrite, RecoverWrite, TypeOK, outside, history, ledger
  <2> QED
    BY <2>1, <2>2
<1>11. ASSUME Close \/ Raise, ~(Press \/ AcceptTap)
       PROVE  \/ job'[a].status \in {"pending", "processing"}
              \/ pc' = "abandon" /\ act' = a
              \/ action'[a].key \in stranded'
  <2>1. Found(a, "accepted") /\ act \in Ids
    BY <1>5, <1>11, <1>t DEF Close, Raise, AtHand, WriterPCs
  <2>2. CASE act = a
    <3>1. Raise
      BY <1>11, <2>1, <2>2, <1>q DEF Close, Placed
    <3>2. job'[a] = Failed(job[a])
      BY <3>1, <2>1, <2>2, <1>t DEF Raise, TypeOK
    <3>3. Failed(job[a]).status \in {"failed", "pending"}
      BY <1>t DEF Failed, TypeOK, Row
    <3> QED
      BY <3>1, <3>2, <3>3, <2>2 DEF Raise, Goto
  <2>3. CASE act # a
    BY <1>2, <1>11, <2>1, <2>3, <1>t DEF Close, Raise, TypeOK, outside, history, ledger
  <2> QED
    BY <2>2, <2>3
<1>12. ASSUME Abandon, ~(Press \/ AcceptTap)
       PROVE job'[a].status \in {"pending", "processing"} \/ action'[a].key \in stranded'
  <2>1. Found(a, "accepted") /\ act \in Ids
    BY <1>5, <1>12, <1>t DEF Abandon, AtHand, WriterPCs
  <2>2. act # a
    BY <1>12, <2>1, <1>a, <1>t, FoundIsRow DEF Abandon, MarkFailed, TypeOK, Found, Action, NoAction
  <2> QED
    BY <2>1, <2>2, <1>12, <1>1, <1>q DEF Abandon, AcceptedHasJob, outside, history, ledger
<1>13. CASE /\ ~(Press \/ AcceptTap)
            /\ \/ Load \/ NotLinked \/ TokenInHand \/ Refresh \/ RefreshUnheard \/ RefreshDown
               \/ RefreshRefused \/ CallServed \/ CallUnheard \/ CallFails \/ CallRejected
               \/ MarkWritten \/ Confirm \/ SaySorry \/ Denied \/ Warn \/ Tell
  BY <1>2, <1>5, <1>13 DEF Load, NotLinked, TokenInHand, Refresh, Refreshing, RefreshUnheard,
     RefreshDown, RefreshRefused, AsksToken, CallServed, CallUnheard, CallFails, CallRejected,
     MarkWritten, Confirm, SaySorry, Denied, Warn, Tell, tables, outside, history, ledger
<1> QED
  BY <1>4, <1>6, <1>7, <1>8, <1>9, <1>10, <1>11, <1>12, <1>13 DEF Next, Writer

LEMMA AlwaysQueued == Spec => [](Typed /\ Numbered /\ Queued)
<1>1. Init => Typed /\ Numbered /\ Queued
  BY TypedInit, NumberedInit, QueuedInit
<1>2. Typed /\ Numbered /\ Queued /\ [Next]_vars => (Typed /\ Numbered /\ Queued)'
  <2>1. Queued => Placed /\ JobsFollow
    BY DEF Queued
  <2>2. Placed' /\ JobsFollow' /\ AcceptedHasJob' => Queued'
    BY DEF Queued
  <2> QED
    BY <2>1, <2>2, TypedNext, NumberedNext, PlacedNext, JobsFollowNext, JobsKept
<1> QED
  BY <1>1, <1>2, PTL DEF Spec

\* An accepted planner write always has a job that will make it, fail it or was
\* cut off between its last failure and mark_failed.
THEOREM AcceptedIsQueued == Spec => []AcceptedHasJob
<1>1. Queued => AcceptedHasJob
  BY DEF Queued
<1> QED
  BY <1>1, AlwaysQueued, PTL

-----------------------------------------------------------------------------
(* Which steps move what is outside the rows.                               *)

\* Only a call reaches the planner's items.
LEMMA PlannerMoves == [Next]_vars => UNCHANGED <<items, known>> \/ CallServed \/ CallUnheard
<1> SUFFICES ASSUME [Next]_vars PROVE UNCHANGED <<items, known>> \/ CallServed \/ CallUnheard
  OBVIOUS
<1>1. CASE \/ \E i \in Inputs : Arrive(i) \/ RecoverUpdate(i)
           \/ \E a \in Ids : ExpireStale(a) \/ RecoverWrite(a)
           \/ Link \/ UserEndsGrant \/ HandlerRaises \/ Crash \/ UNCHANGED vars
  BY <1>1 DEF Arrive, RecoverUpdate, ExpireStale, RecoverWrite, Link, UserEndsGrant,
     HandlerRaises, Crash, vars, outside, others, planner
<1>2. CASE Handler
  BY <1>2 DEF Handler, Claim, AskReplayed, AskRefused, CreateAsk, MarkHandled, SendCard,
     Press, TapKnown, TapRefused, CreateTap, StampTap, AcceptTap, Edit, Delete, Finish,
     outside, others, planner
<1>3. CASE Writer
  BY <1>3 DEF Writer, ClaimWrite, Load, NotLinked, TokenInHand, Refresh, RefreshUnheard,
     RefreshDown, RefreshRefused, CallFails, CallRejected,
     MarkWritten, Confirm, Close, Raise, Abandon, SaySorry, Denied, Warn, Tell,
     outside, others, planner
<1> QED
  BY <1>1, <1>2, <1>3 DEF Next

\* Only Confirm confirms.
LEMMA ConfirmedMoves == [Next]_vars => confirmed' = confirmed \/ Confirm
<1> SUFFICES ASSUME [Next]_vars PROVE confirmed' = confirmed \/ Confirm
  OBVIOUS
<1>1. CASE \/ \E i \in Inputs : Arrive(i) \/ RecoverUpdate(i)
           \/ \E a \in Ids : ExpireStale(a) \/ RecoverWrite(a)
           \/ Link \/ UserEndsGrant \/ HandlerRaises \/ Crash \/ UNCHANGED vars
  BY <1>1 DEF Arrive, RecoverUpdate, ExpireStale, RecoverWrite, Link, UserEndsGrant,
     HandlerRaises, Crash, vars, outside, history, ledger
<1>2. CASE Handler
  BY <1>2 DEF Handler, Claim, AskReplayed, AskRefused, CreateAsk, MarkHandled, SendCard,
     Press, TapKnown, TapRefused, CreateTap, StampTap, AcceptTap, Edit, Delete, Finish,
     outside, history, ledger
<1>3. CASE Writer
  BY <1>3 DEF Writer, ClaimWrite, Load, NotLinked, TokenInHand, Refresh, RefreshUnheard,
     RefreshDown, RefreshRefused, CallServed, CallUnheard, CallFails, CallRejected,
     MarkWritten, Close, Raise, Abandon, SaySorry, Denied, Warn, Tell,
     outside, history, ledger
<1> QED
  BY <1>1, <1>2, <1>3 DEF Next

\* The histories grow, and only a notice denies.
LEMMA ToldMoves ==
    [Next]_vars =>
        /\ unheard \subseteq unheard'
        /\ astray \subseteq astray'
        /\ denied' = denied \/ SaySorry \/ Tell
<1> SUFFICES ASSUME [Next]_vars
             PROVE  /\ unheard \subseteq unheard'
                    /\ astray \subseteq astray'
                    /\ denied' = denied \/ SaySorry \/ Tell
  OBVIOUS
<1>1. CASE \/ \E i \in Inputs : Arrive(i) \/ RecoverUpdate(i)
           \/ \E a \in Ids : ExpireStale(a) \/ RecoverWrite(a)
           \/ Link \/ UserEndsGrant \/ HandlerRaises \/ Crash \/ UNCHANGED vars
  BY <1>1 DEF Arrive, RecoverUpdate, ExpireStale, RecoverWrite, Link, UserEndsGrant,
     HandlerRaises, Crash, vars, outside, history, ledger
<1>2. CASE Handler
  BY <1>2 DEF Handler, Claim, AskReplayed, AskRefused, CreateAsk, MarkHandled, SendCard,
     Press, TapKnown, TapRefused, CreateTap, StampTap, AcceptTap, Edit, Delete, Finish,
     outside, history, ledger
<1>3. CASE Writer
  BY <1>3 DEF Writer, ClaimWrite, Load, NotLinked, TokenInHand, Refresh, RefreshUnheard,
     RefreshDown, RefreshRefused, CallServed, CallUnheard, CallFails, CallRejected,
     MarkWritten, Confirm, Close, Raise, Abandon, SaySorry, Denied, Warn, Tell,
     outside, history, ledger
<1> QED
  BY <1>1, <1>2, <1>3 DEF Next

\* Where the worker comes from, for the places the invariants speak of.
LEMMA PlaceMoves ==
    Typed /\ [Next]_vars =>
        /\ pc' = "landed" => CallServed \/ (pc = "landed" /\ act' = act)
        /\ pc' \in {"sync", "confirm"} => pc \in {"landed", "sync", "confirm"} /\ act' = act
<1> SUFFICES ASSUME Typed, [Next]_vars
             PROVE  /\ pc' = "landed" => CallServed \/ (pc = "landed" /\ act' = act)
                    /\ pc' \in {"sync", "confirm"} =>
                            pc \in {"landed", "sync", "confirm"} /\ act' = act
  OBVIOUS
<1>1. CASE \/ \E i \in Inputs : Arrive(i) \/ RecoverUpdate(i)
           \/ \E a \in Ids : ExpireStale(a) \/ RecoverWrite(a)
           \/ Link \/ UserEndsGrant \/ HandlerRaises \/ Crash \/ UNCHANGED vars
  BY <1>1 DEF Arrive, RecoverUpdate, ExpireStale, RecoverWrite, Link, UserEndsGrant,
     HandlerRaises, Crash, vars, loop, Goto
<1>2. CASE Handler
  BY <1>2 DEF Handler, Claim, AskReplayed, AskRefused, CreateAsk, MarkHandled, SendCard,
     Press, TapKnown, TapRefused, CreateTap, StampTap, AcceptTap, Edit, Delete, Finish,
     Goto, Typed, TypeOK, Input
<1>a. ASSUME NotLinked \/ TokenInHand \/ Refresh \/ RefreshUnheard \/ RefreshDown \/ RefreshRefused
      PROVE  /\ act' = act /\ pc \in {"token", "sync"}
             /\ pc' \in {"confirm", "call", "denied", "raise"}
             /\ pc' = "confirm" => pc = "sync"
  <2>1. AsksToken /\ \E how \in {"ok", "auth", "down"} : Goto(After(how))
    BY <1>a DEF NotLinked, TokenInHand, Refresh, RefreshUnheard, RefreshDown, RefreshRefused,
       Refreshing
  <2> QED
    BY <2>1 DEF AsksToken, After, Goto
<1>b. ASSUME \/ \E a \in Ids : ClaimWrite(a)
             \/ Load \/ CallUnheard \/ CallFails \/ CallRejected \/ Confirm \/ Close
             \/ Raise \/ Abandon \/ SaySorry \/ Denied \/ Warn \/ Tell
      PROVE  pc' \notin {"landed", "sync", "confirm"}
  BY <1>b DEF ClaimWrite, Load, CallUnheard, CallFails, CallRejected, Confirm, Close, Raise,
     Abandon, SaySorry, Denied, Warn, Tell, Goto
<1>c. ASSUME CallServed \/ MarkWritten
      PROVE  CallServed \/ (pc = "landed" /\ act' = act /\ pc' = "sync")
  BY <1>c DEF MarkWritten, Goto
<1>d. CallServed => pc' = "landed"
  BY DEF CallServed, Goto
<1>3. CASE Writer
  BY <1>3, <1>a, <1>b, <1>c, <1>d DEF Writer
<1> QED
  BY <1>1, <1>2, <1>3 DEF Next

-----------------------------------------------------------------------------
(* Confirmations.                                                           *)

LEMMA OnceNext == Typed /\ Numbered /\ Queued /\ Once /\ [Next]_vars => Once'
<1> SUFFICES ASSUME Typed, Numbered, Queued, Once, [Next]_vars PROVE Once'
  OBVIOUS
<1>t. TypeOK /\ AtHand /\ Placed
  BY DEF Typed, Queued
<1>n. lastId \in Nat /\ minted \in Nat /\ \A k \in Keys : confirmed[k] \in Nat
  BY <1>t, PlannerAssumption DEF TypeOK
<1>k. \A a \in Ids : action[a] # NoAction => action[a].key \in Keys
  BY <1>t, FoundIsRow DEF Action
<1>1. CASE Confirm
  <2>1. act \in Ids /\ action[act] # NoAction /\ pc = "confirm" /\ pc' = "close"
        /\ UNCHANGED action /\ confirmed' = [confirmed EXCEPT ![action[act].key] = @ + 1]
    BY <1>1, <1>t DEF Confirm, Goto, AtHand, WriterPCs, tables
  <2>2. Found(act, "written") /\ confirmed[action[act].key] = 0
    BY <2>1, <1>t, <1>k, <1>n DEF Placed, Once
  <2>3. confirmed'[action[act].key] = 1
        /\ \A k \in Keys : k # action[act].key => confirmed'[k] = confirmed[k]
    BY <2>1, <2>2, <1>k, <1>t DEF TypeOK
  <2>4. ConfirmedOnce'
    BY <2>3, <1>n DEF Once, ConfirmedOnce
  <2>5. \A a \in Ids : action[a] # NoAction /\ a # act => action[a].key # action[act].key
    BY <2>1 DEF Numbered
  <2> QED
    BY <2>1, <2>2, <2>3, <2>4, <2>5, <1>k DEF Once, Found
<1>2. CASE confirmed' = confirmed
  <2>0. ConfirmedOnce'
    BY <1>2 DEF Once, ConfirmedOnce
  <2>1. ASSUME \A a \in Ids : Kept(a) /\ Moved(a) PROVE Once'
    <3>1. ASSUME NEW a \in Ids, action'[a] # NoAction, confirmed'[action'[a].key] > 0
          PROVE  Found(a, "written")' /\ ~(pc' \in {"sync", "confirm"} /\ act' = a)
      <4>1. action[a] # NoAction /\ action'[a].key = action[a].key
        BY <2>1, <3>1 DEF Kept
      <4>2. Found(a, "written") /\ ~(pc \in {"sync", "confirm"} /\ act = a)
        BY <3>1, <4>1, <1>2 DEF Once
      <4>3. pc = "landed" => act # a
        BY <4>2, <1>t DEF Placed, Found
      <4>4. Found(a, "written")'
        BY <2>1, <4>2, <4>3 DEF Moved, Decides, Found
      <4> QED
        BY <4>2, <4>3, <4>4, PlaceMoves
    <3> QED
      BY <2>0, <3>1 DEF Once
  <2>2. CASE NewRow
    <3>1. /\ \A a \in Ids : a # lastId + 1 => action'[a] = action[a]
          /\ action'[lastId + 1].key = minted + 1 /\ minted + 1 \in Keys
          /\ confirmed[minted + 1] = 0
      BY <2>2, <1>t, <1>n DEF NewRow, TypeOK, Numbered
    <3>2. pc' \notin {"sync", "confirm"}
      BY <2>2, PlaceMoves DEF NewRow
    <3> QED
      BY <2>0, <3>1, <3>2, <1>2 DEF Once, Found
  <2>3. CASE NoRows
    BY <2>0, <2>3 DEF NoRows, Once
  <2> QED
    BY <2>1, <2>2, <2>3, RowsMove
<1> QED
  BY <1>1, <1>2, ConfirmedMoves

\* A write is confirmed to the user once at most, whatever is replayed after
\* mark_written.
THEOREM OneConfirmation == Spec => []ConfirmedOnce
<1>1. Init => Once
  BY PlannerAssumption DEF Init, Once, ConfirmedOnce, NoAction, Keys, Ids
<1>2. Spec => [](Typed /\ Numbered /\ Queued /\ Once)
  BY <1>1, AlwaysQueued, OnceNext, PTL DEF Spec
<1>3. Once => ConfirmedOnce
  BY DEF Once
<1> QED
  BY <1>2, <1>3, PTL

-----------------------------------------------------------------------------
(* What is in the planner.                                                  *)

\* A call leaves the wish it was for in the planner, and its key known.
LEMMA ServedIsThere ==
    ASSUME Typed, There, CallServed \/ CallUnheard
    PROVE  /\ act \in Ids /\ action[act] \in Action /\ UNCHANGED tables
           /\ items'[action[act].wish] > 0
           /\ \A w \in Wishes : items[w] > 0 => items'[w] > 0
           /\ known' \subseteq known \union {action[act].key}
<1>t. TypeOK /\ AtHand
  BY DEF Typed
<1>1. /\ act \in Ids /\ action[act] \in Action /\ action[act] # NoAction /\ Served
      /\ UNCHANGED tables
  BY <1>t, FoundIsRow DEF CallServed, CallUnheard, AtHand, WriterPCs
<1>2. action[act].wish \in Wishes /\ items \in [Wishes -> Nat]
      /\ action[act].kind \in {"create", "complete"}
  BY <1>1, <1>t DEF Action, TypeOK
<1>3. CASE action[act].kind = "complete"
  <2>1. items' = [items EXCEPT ![action[act].wish] = 1] /\ known' = known
    BY <1>1, <1>3 DEF Served
  <2> QED
    BY <1>1, <1>2, <2>1
<1>4. CASE action[act].kind = "create"
  <2>1. known' = known \union {action[act].key}
        /\ items' = IF action[act].key \in known THEN items
                    ELSE [items EXCEPT ![action[act].wish] = @ + 1]
    BY <1>1, <1>4 DEF Served, RequestId
  <2>2. CASE action[act].key \in known
    BY <1>1, <1>2, <1>4, <2>1, <2>2 DEF There
  <2>3. CASE action[act].key \notin known
    BY <1>1, <1>2, <2>1, <2>3
  <2> QED
    BY <2>2, <2>3
<1> QED
  BY <1>2, <1>3, <1>4

LEMMA ThereNext == Typed /\ Numbered /\ Queued /\ There /\ [Next]_vars => There'
<1> SUFFICES ASSUME Typed, Numbered, Queued, There, [Next]_vars PROVE There'
  OBVIOUS
<1>t. TypeOK /\ AtHand /\ Placed
  BY DEF Typed, Queued
<1>k. \A a \in Ids : action[a] # NoAction => action[a].key \in Keys /\ action[a].wish \in Wishes
  BY <1>t, FoundIsRow DEF Action
<1>1. CASE CallServed \/ CallUnheard
  <2>1. /\ act \in Ids /\ action[act] \in Action /\ items'[action[act].wish] > 0
        /\ \A w \in Wishes : items[w] > 0 => items'[w] > 0
        /\ known' \subseteq known \union {action[act].key}
        /\ action' = action /\ act' = act
    BY <1>1, ServedIsThere DEF CallServed, CallUnheard, Goto, tables
  <2>2. \A a \in Ids : action[a] # NoAction /\ a # act => action[a].key # action[act].key
    BY <2>1, <1>1, <1>t DEF Numbered, CallServed, CallUnheard, AtHand, WriterPCs
  <2>3. WrittenIsThere'
    BY <2>1, <1>k, FoundIsRow DEF There, WrittenIsThere, Found, NoAction
  <2>4. \A a \in Ids : action[a] # NoAction /\ action[a].kind = "create" /\ action[a].key \in known'
            => items'[action[a].wish] > 0
    BY <2>1, <2>2, <1>k DEF There
  <2> QED
    BY <2>1, <2>3, <2>4 DEF There
<1>2. CASE UNCHANGED <<items, known>>
  <2>1. ASSUME \A a \in Ids : Kept(a) /\ Moved(a) PROVE There'
    <3>1. \A a \in Ids : Found(a, "written")' => action[a] # NoAction /\
                            (Found(a, "written") \/ (pc = "landed" /\ act = a))
      BY <2>1 DEF Kept, Moved, Decides, Found, NoAction
    <3>2. WrittenIsThere'
      BY <2>1, <3>1, <1>2 DEF Kept, There, WrittenIsThere, Found
    <3>3. CASE CallServed
      BY <3>3, <1>1
    <3>4. CASE ~CallServed
      <4>1. pc' = "landed" => pc = "landed" /\ act' = act /\ act \in Ids /\ action[act] # NoAction
        BY <3>4, PlaceMoves, <1>t DEF AtHand, WriterPCs
      <4>2. pc' = "landed" => items'[action'[act'].wish] > 0
        BY <4>1, <2>1, <1>2 DEF There, Kept
      <4> QED
        BY <2>1, <3>2, <4>2, <1>2 DEF There, Kept
    <3> QED
      BY <3>3, <3>4
  <2>2. CASE NewRow
    <3> DEFINE new == lastId + 1
    <3>1. /\ new \in Ids /\ \A a \in Ids : a # new => action'[a] = action[a]
          /\ action'[new].key = minted + 1 /\ action'[new].status = "pending"
          /\ action'[new].kind = "complete" <=> action'[new].wish = List
      <4>1. pc = "ask" => mine # List
        BY <1>t DEF AtHand, HandlerPCs, Inputs, List
      <4> QED
        BY <2>2, <4>1, <1>t DEF NewRow, TypeOK
    <3>2. minted + 1 \notin known
      BY <1>t, PlannerAssumption DEF Numbered, TypeOK
    <3>3. pc' # "landed"
      BY <2>2, PlaceMoves DEF NewRow, CallServed
    <3> QED
      BY <3>1, <3>2, <3>3, <1>2 DEF There, WrittenIsThere, Found
  <2>3. CASE NoRows
    <3>1. pc' # "landed"
      BY <2>3, PlaceMoves DEF NoRows, CallServed
    <3> QED
      BY <2>3, <3>1 DEF NoRows, There, WrittenIsThere, Found, NoAction
  <2> QED
    BY <2>1, <2>2, <2>3, RowsMove
<1> QED
  BY <1>1, <1>2, PlannerMoves

LEMMA AlwaysThere == Spec => [](Typed /\ Numbered /\ Queued /\ There)
<1>1. Init => There
  <2>1. PlannerAssumption
    BY PlannerAssumption
  <2> QED
    BY <2>1 DEF Init, There, WrittenIsThere, Found, NoAction, Past, List
<1> QED
  BY <1>1, AlwaysQueued, ThereNext, PTL DEF Spec

\* What planner_action calls written is in the planner: a request key is never
\* given twice, so an answer is never about another row's item.
THEOREM WrittenIsInPlanner == Spec => []WrittenIsThere
<1>1. There => WrittenIsThere
  BY DEF There
<1> QED
  BY <1>1, AlwaysThere, PTL

-----------------------------------------------------------------------------
(* The cards.                                                               *)

LEMMA DeskInit == Init => Desk
  BY DEF Init, Desk, AbsentRow, HandlerPCs

LEMMA DeskNext == Typed /\ Desk /\ [Next]_vars => Desk'
<1> SUFFICES ASSUME Typed, Desk, [Next]_vars PROVE Desk'
  OBVIOUS
<1>t. TypeOK /\ AtHand
  BY DEF Typed
<1>s. \A row \in Row : /\ Claimed(row).status = "processing" /\ Failed(row).status # "absent"
                       /\ Completed(row).status # "absent" /\ Inserted(row).status # "absent"
                       /\ Wiped(row).status = "absent" <=> row.status = "absent"
                       /\ row.status = "processing" => LeftAlone(row).status # "absent"
  <2>1. \A row \in Row : row.status = "processing" => LeftAlone(row).status # "absent"
    BY DEF LeftAlone, Recovered, Stuck, Row
  <2> QED
    BY <2>1 DEF Claimed, Failed, Completed, Inserted, AbsentRow, Missing, Wiped, Row
\* The worker is back at rest: the queue and the marks are what is left to see.
<1>0. ASSUME pc' \notin HandlerPCs \ {"done"},
             \A i \in Inputs : inbox'[i].status = "absent" => inbox[i].status = "absent",
             said' = said, handled' \subseteq handled
      PROVE  Desk'
  BY <1>0, <1>t DEF Desk, HandlerPCs, TypeOK
<1>1. ASSUME NEW i \in Inputs, Arrive(i) PROVE Desk'
  <2>1. /\ \A k \in Inputs : k # i => inbox'[k] = inbox[k] /\ said'[k] = said[k]
        /\ inbox'[i] = Inserted(inbox[i]) /\ inbox[i].status = "absent"
        /\ UNCHANGED <<tables, loop>> /\ pc \in {"idle", "edit", "delete"}
    BY <1>1, <1>t DEF Arrive, TypeOK
  <2>2. pc \in {"edit", "delete"} => mine # i /\ mine \in Inputs
    BY <2>1, <1>t DEF Desk, AtHand, HandlerPCs
  <2>3. inbox'[i].status # "absent"
    BY <2>1, <1>s, <1>t DEF TypeOK
  <2>4. /\ \A k \in Inputs : inbox'[k].status = "absent" => said'[k].do = "none"
        /\ \A k \in handled : inbox'[k].status # "absent"
    BY <2>1, <2>3, <1>t DEF Desk, TypeOK
  <2>5. CASE pc = "idle"
    BY <2>1, <2>4, <2>5 DEF Desk, tables, loop, HandlerPCs
  <2>6. CASE pc \in {"edit", "delete"}
    <3>1. inbox'[mine] = inbox[mine] /\ said'[mine] = said[mine]
      BY <2>1, <2>2, <2>6
    <3> QED
      BY <2>1, <2>4, <2>6, <3>1 DEF Desk, tables, loop, HandlerPCs
  <2> QED
    BY <2>1, <2>5, <2>6
<1>2. CASE \/ Link \/ UserEndsGrant \/ UNCHANGED vars
  BY <1>2 DEF Link, UserEndsGrant, vars, tables, loop, input, Desk
<1>3. CASE Writer
  <2>1. UNCHANGED <<said, inbox, handled>>
    BY <1>3 DEF Writer, ClaimWrite, Load, NotLinked, TokenInHand, Refresh, RefreshUnheard,
       RefreshDown, RefreshRefused, CallServed, CallUnheard, CallFails, CallRejected,
       MarkWritten, Confirm, Close, Raise, Abandon, SaySorry, Denied, Warn, Tell, outside,
       others, input, tables
  <2>2. pc' \notin HandlerPCs
    <3>1. ASSUME NotLinked \/ TokenInHand \/ Refresh \/ RefreshUnheard \/ RefreshDown \/ RefreshRefused
          PROVE  pc' \notin HandlerPCs
      <4>1. AsksToken /\ \E how \in {"ok", "auth", "down"} : Goto(After(how))
        BY <3>1 DEF NotLinked, TokenInHand, Refresh, RefreshUnheard, RefreshDown,
           RefreshRefused, Refreshing
      <4> QED
        BY <4>1 DEF AsksToken, After, Goto, HandlerPCs
    <3>2. ASSUME \/ \E a \in Ids : ClaimWrite(a)
                 \/ Load \/ CallServed \/ CallUnheard \/ CallFails \/ CallRejected
                 \/ MarkWritten \/ Confirm \/ Close \/ Raise \/ Abandon \/ SaySorry
                 \/ Denied \/ Warn \/ Tell
          PROVE  pc' \notin HandlerPCs
      BY <3>2 DEF ClaimWrite, Load, CallServed, CallUnheard, CallFails, CallRejected,
         MarkWritten, Confirm, Close, Raise, Abandon, SaySorry, Denied, Warn, Tell, Goto,
         HandlerPCs
    <3> QED
      BY <1>3, <3>1, <3>2 DEF Writer
  <2> QED
    BY <2>1, <2>2, <1>0
<1>4. ASSUME NEW last \in Ids, ExpireStale(last) PROVE Desk'
  BY <1>4, <1>0 DEF ExpireStale, loop, input, HandlerPCs
<1>5. ASSUME NEW a \in Ids, RecoverWrite(a) PROVE Desk'
  BY <1>5, <1>0 DEF RecoverWrite, loop, input, HandlerPCs
<1>6. ASSUME NEW i \in Inputs, RecoverUpdate(i) PROVE Desk'
  <2>1. \A k \in Inputs : inbox'[k].status = "absent" => inbox[k].status = "absent"
    BY <1>6, <1>s, <1>t DEF RecoverUpdate, TypeOK
  <2> QED
    BY <2>1, <1>6, <1>0 DEF RecoverUpdate, loop, tables, HandlerPCs
<1>7. CASE Finish \/ HandlerRaises \/ Delete
  <2>1. \A k \in Inputs : inbox'[k].status = "absent" => inbox[k].status = "absent"
    <3>1. CASE Delete
      BY <3>1, <1>s, <1>t DEF Delete, TypeOK
    <3>2. CASE Finish \/ HandlerRaises
      <4>1. \A k \in Inputs : \/ inbox'[k] = inbox[k]
                              \/ inbox'[k] \in {Completed(inbox[k]), Failed(inbox[k])}
        BY <3>2, <1>t DEF Finish, HandlerRaises, TypeOK
      <4>2. \A k \in Inputs : inbox[k] \in Row
        BY <1>t DEF TypeOK
      <4> QED
        BY <4>1, <4>2, <1>s
    <3> QED
      BY <1>7, <3>1, <3>2
  <2> QED
    BY <2>1, <1>7, <1>0 DEF Finish, HandlerRaises, Delete, Goto, tables, HandlerPCs
<1>8. CASE Crash
  BY <1>8, <1>0 DEF Crash, Goto, input, tables, HandlerPCs
<1>9. ASSUME NEW i \in Inputs, Claim(i) PROVE Desk'
  <2>1. /\ inbox'[i].status = "processing" /\ \A k \in Inputs : k # i => inbox'[k] = inbox[k]
        /\ pc' = said[i].do /\ mine' = i /\ act' = 0 /\ UNCHANGED <<tables, said>>
    BY <1>9, <1>s, <1>t DEF Claim, TypeOK
  <2>2. pc' \in {"none", "yes", "no", "ask", "tap", "delete"}
    BY <2>1, <1>t DEF TypeOK, Input
  <2> QED
    BY <2>1, <2>2, <1>9 DEF Desk, tables, Claim
<1>10. CASE AskReplayed \/ AskRefused \/ SendCard \/ Edit \/ TapKnown \/ TapRefused
  BY <1>10, <1>t DEF AskReplayed, AskRefused, SendCard, Edit, TapKnown, TapRefused, Goto,
     tables, outside, others, input, Desk, AtHand, HandlerPCs
<1>11. CASE CreateAsk \/ CreateTap
  <2>1. NewRow /\ UNCHANGED <<handled, input, mine>>
    <3>1. lastId + 1 \in Ids /\ minted + 1 \in Keys
      BY <1>11, <1>t, PlannerAssumption DEF CreateAsk, CreateTap, Create, TypeOK, Ids, Keys
    <3>2. CASE CreateAsk
      BY <3>1, <3>2 DEF CreateAsk, Create, NewRow, outside, others
    <3>3. CASE CreateTap
      BY <3>1, <3>3 DEF CreateTap, Create, NewRow, outside, others, List
    <3> QED
      BY <1>11, <3>2, <3>3
  <2>2. action'[act'] # NoAction /\ action'[act'].wish = IF pc = "ask" THEN mine ELSE List
    BY <2>1, <1>t DEF NewRow, TypeOK, NoAction
  <2>3. CASE CreateAsk
    BY <2>1, <2>2, <2>3 DEF CreateAsk, Desk, input, HandlerPCs
  <2>4. CASE CreateTap
    BY <2>1, <2>2, <2>4 DEF CreateTap, Desk, input, HandlerPCs
  <2> QED
    BY <1>11, <2>3, <2>4
<1>12. CASE MarkHandled
  <2>1. mine \in Inputs /\ inbox[mine].status = "processing"
    BY <1>12, <1>t DEF MarkHandled, AtHand, Desk, HandlerPCs
  <2> QED
    BY <1>12, <2>1 DEF MarkHandled, Goto, outside, others, input, Desk, HandlerPCs
<1>13. CASE Press \/ StampTap \/ AcceptTap
  <2>1. UNCHANGED <<handled, input, mine, act>>
    BY <1>13 DEF Press, StampTap, AcceptTap, Accept, Expire, Reject, Goto, outside, others
  <2>2. CASE Press
    BY <2>1, <2>2, <1>t DEF Press, Goto, Desk, AtHand, input, HandlerPCs
  <2>3. CASE AcceptTap
    BY <2>1, <2>3 DEF AcceptTap, Goto, Desk, input, HandlerPCs
  <2>4. CASE StampTap
    <3>1. act \in Ids /\ action[act] # NoAction /\ Kept(act)
      BY <2>4, <1>t, RowsMove DEF StampTap, AtHand, NewRow, NoRows
    <3> QED
      BY <2>1, <2>4, <3>1 DEF StampTap, Goto, Desk, Kept, input, HandlerPCs
  <2> QED
    BY <1>13, <2>2, <2>3, <2>4
<1> QED
  BY <1>1, <1>2, <1>3, <1>4, <1>5, <1>6, <1>7, <1>8, <1>9, <1>10, <1>11, <1>12, <1>13
     DEF Next, Handler

LEMMA ChatMoves == [Next]_vars => \/ UNCHANGED <<cards, said>>
                                  \/ UNCHANGED cards /\ \E i \in Inputs : Arrive(i)
                                  \/ UNCHANGED said /\ (SendCard \/ Edit)
<1> SUFFICES ASSUME [Next]_vars, ~(SendCard \/ Edit), ~\E i \in Inputs : Arrive(i)
             PROVE  UNCHANGED <<cards, said>>
  BY DEF Arrive, SendCard, Edit, chat, input
<1>1. CASE \/ \E i \in Inputs : RecoverUpdate(i)
           \/ \E a \in Ids : ExpireStale(a) \/ RecoverWrite(a)
           \/ Link \/ UserEndsGrant \/ HandlerRaises \/ Crash \/ UNCHANGED vars
  BY <1>1 DEF RecoverUpdate, ExpireStale, RecoverWrite, Link, UserEndsGrant,
     HandlerRaises, Crash, vars, chat, input
<1>2. CASE Handler
  BY <1>2 DEF Handler, Claim, AskReplayed, AskRefused, CreateAsk, MarkHandled, Press,
     TapKnown, TapRefused, CreateTap, StampTap, AcceptTap, Delete, Finish,
     outside, others, chat, input
<1>3. CASE Writer
  BY <1>3 DEF Writer, ClaimWrite, Load, NotLinked, TokenInHand, Refresh, RefreshUnheard,
     RefreshDown, RefreshRefused, CallServed, CallUnheard, CallFails, CallRejected,
     MarkWritten, Confirm, Close, Raise, Abandon, SaySorry, Denied, Warn, Tell,
     outside, others, chat, input
<1> QED
  BY <1>1, <1>2, <1>3 DEF Next

\* A card that was issued stays issued; only SendCard issues one, for the update
\* it handles.
LEMMA IssuedMoves ==
    Typed /\ Desk /\ [Next]_vars =>
        \/ Issued' = Issued
        \/ /\ SendCard /\ act \in Ids /\ action[act] # NoAction /\ action[act].wish = mine
           /\ Issued' = Issued \union {[id |-> act, wish |-> mine]}
<1> SUFFICES ASSUME Typed, Desk, [Next]_vars
             PROVE  \/ Issued' = Issued
                    \/ /\ SendCard /\ act \in Ids /\ action[act] # NoAction
                       /\ action[act].wish = mine
                       /\ Issued' = Issued \union {[id |-> act, wish |-> mine]}
  OBVIOUS
<1>t. TypeOK /\ AtHand
  BY DEF Typed
<1> DEFINE Pressed == {said[i].card : i \in {k \in Inputs : said[k].do \in {"yes", "no"}}}
<1>1. Issued = cards \union Pressed /\ Issued' = cards' \union Pressed'
  BY DEF Issued
<1>2. CASE UNCHANGED <<cards, said>>
  BY <1>2 DEF Issued
<1>3. ASSUME NEW i \in Inputs, Arrive(i) PROVE Issued' = Issued
  <2>1. /\ inbox[i].status = "absent" /\ cards' = cards
        /\ \E what \in Offers : said' = [said EXCEPT ![i] = what]
    BY <1>3 DEF Arrive, chat
  <2>2. said[i].do = "none"
    BY <2>1 DEF Desk
  <2>3. PICK what \in Offers : said' = [said EXCEPT ![i] = what]
    BY <2>1
  <2>4. what.do \in {"yes", "no"} => what.card \in cards
    BY DEF Offers
  <2>5. said'[i] = what /\ \A k \in Inputs : k # i => said'[k] = said[k]
    BY <2>3, <1>t DEF TypeOK
  <2>6. Pressed \subseteq Pressed'
    <3>1. ASSUME NEW k \in Inputs, said[k].do \in {"yes", "no"} PROVE said[k].card \in Pressed'
      <4>1. k # i /\ said'[k] = said[k]
        BY <2>2, <2>5, <3>1
      <4> QED
        BY <3>1, <4>1
    <3> QED
      BY <3>1
  <2>7. Pressed' \subseteq Pressed \union cards
    <3>1. ASSUME NEW k \in Inputs, said'[k].do \in {"yes", "no"}
          PROVE  said'[k].card \in Pressed \union cards
      <4>1. CASE k = i
        BY <3>1, <4>1, <2>4, <2>5
      <4>2. CASE k # i
        BY <3>1, <4>2, <2>5
      <4> QED
        BY <4>1, <4>2
    <3> QED
      BY <3>1
  <2> QED
    BY <1>1, <2>1, <2>6, <2>7
<1>4. CASE UNCHANGED said /\ Edit
  <2>1. pc = "edit" /\ said[mine].do \in {"yes", "no", "tap"} /\ mine \in Inputs /\ Pressed' = Pressed
    BY <1>4, <1>t DEF Edit, Desk, AtHand, HandlerPCs
  <2>2. CASE said[mine].do = "tap"
    BY <1>1, <1>4, <2>1, <2>2 DEF Edit
  <2>3. CASE said[mine].do \in {"yes", "no"}
    <3>1. said[mine].card \in Pressed /\ cards' = cards \ {said[mine].card}
      BY <1>4, <2>1, <2>3 DEF Edit
    <3> QED
      BY <1>1, <2>1, <3>1
  <2> QED
    BY <2>1, <2>2, <2>3
<1>5. CASE UNCHANGED said /\ SendCard
  <2>1. pc = "card" /\ act \in Ids /\ action[act] # NoAction /\ Pressed' = Pressed
    BY <1>5, <1>t DEF SendCard, AtHand
  <2>2. action[act].wish = mine
    BY <2>1, <1>t DEF Desk, Ids
  <2>3. CASE Found(act, "pending")
    BY <1>1, <1>5, <2>1, <2>2, <2>3 DEF SendCard
  <2>4. CASE ~Found(act, "pending")
    BY <1>1, <1>5, <2>1, <2>4 DEF SendCard
  <2> QED
    BY <2>3, <2>4
<1> QED
  BY <1>2, <1>3, <1>4, <1>5, ChatMoves

\* Only a press or the list's button accepts a row.
LEMMA AcceptMoves ==
    Typed /\ [Next]_vars =>
        \A a \in Ids : Decides(a) /\ action'[a].status = "accepted" =>
            \/ Press /\ pc = "yes" /\ said[mine].card.id = a
               /\ astray' = astray \union Misread(said[mine].card)
            \/ AcceptTap /\ act = a
<1> SUFFICES ASSUME Typed, [Next]_vars, NEW a \in Ids, Found(a, "pending"),
                    action'[a].status = "accepted"
             PROVE  \/ Press /\ pc = "yes" /\ said[mine].card.id = a
                       /\ astray' = astray \union Misread(said[mine].card)
                    \/ AcceptTap /\ act = a
  BY DEF Decides
<1>t. TypeOK /\ AtHand
  BY DEF Typed
<1>a. /\ action[a] # NoAction /\ action[a] \in Action /\ action'[a] # action[a]
      /\ ~Found(a, "accepted")
  BY <1>t, FoundIsRow DEF Found, NoAction
<1>1. ASSUME NEW b, Accept(b) PROVE b = a
  BY <1>1, <1>a, <1>t DEF Accept, Found, TypeOK
<1>2. ASSUME NEW b, Expire(b) \/ Reject(b) PROVE FALSE
  <2>1. action'[a] = action[a] \/ action'[a].status \in {"expired", "rejected"}
    BY <1>2, <1>a, <1>t DEF Expire, Reject, Found, TypeOK, Action
  <2> QED
    BY <2>1, <1>a
<1>3. CASE Press
  BY <1>1, <1>2, <1>3 DEF Press
<1>4. CASE AcceptTap
  BY <1>1, <1>4 DEF AcceptTap
<1>5. ASSUME NEW last \in Ids, ExpireStale(last) PROVE FALSE
  BY <1>5, <1>a, <1>t DEF ExpireStale, Action
<1>6. CASE ~(Press \/ AcceptTap)
  <2>1. Kept(a) /\ Moved(a)
    <3>1. CASE NewRow
      BY <3>1, <1>a, <1>t DEF NewRow, TypeOK
    <3>2. CASE NoRows
      BY <3>2 DEF NoRows, NoAction
    <3> QED
      BY <3>1, <3>2, RowsMove
  <2>2. pc \in {"yes", "no", "accept", "idle"}
    BY <2>1, <1>a DEF Moved, Found
  <2>3. action' = action
    BY <2>2, <1>5, <1>6, <1>t DEF Next, Handler, Writer, Arrive, Link, UserEndsGrant,
       LooksAtGrant, Claim, AskReplayed, AskRefused, CreateAsk, MarkHandled, SendCard,
       TapKnown, TapRefused, CreateTap, StampTap, Edit, Delete, Finish, HandlerRaises,
       HandlerPCs, ClaimWrite, Load, NotLinked, TokenInHand, Refresh, Refreshing,
       RefreshUnheard, RefreshDown, RefreshRefused, AsksToken, CallServed, CallUnheard,
       CallFails, CallRejected, MarkWritten, Confirm, Close, Raise, Abandon, SaySorry,
       Denied, Warn, Tell, Crash, RecoverUpdate, RecoverWrite, vars, tables
  <2> QED
    BY <2>3, <1>a
<1> QED
  BY <1>3, <1>4, <1>6

LEMMA CardedNext == Typed /\ Placed /\ Desk /\ Carded /\ [Next]_vars => Carded'
<1> SUFFICES ASSUME Typed, Placed, Desk, Carded, [Next]_vars PROVE Carded'
  OBVIOUS
<1>t. TypeOK /\ AtHand
  BY DEF Typed
<1>i. \/ Issued' = Issued /\ ~SendCard
      \/ Issued' = Issued /\ SendCard
      \/ /\ SendCard /\ act \in Ids /\ action[act] # NoAction /\ action[act].wish = mine
         /\ Issued' = Issued \union {[id |-> act, wish |-> mine]}
  BY IssuedMoves
<1>c. SendCard => /\ pc = "card" /\ mine \in Inputs /\ mine \in handled /\ ~CardOf(mine)
                  /\ mine # List /\ handled' = handled /\ inbox' = inbox
  BY <1>t DEF SendCard, AtHand, Desk, Carded, HandlerPCs, Inputs, List, tables, input
<1>1. \A c, d \in Issued' : c.wish = d.wish => c = d
  BY <1>i, <1>c DEF Carded, CardOf
<1>2. \A c \in Issued' : c.wish # List
  BY <1>i, <1>c DEF Carded
<1>3. ASSUME NEW i \in Inputs, CardOf(i)'
      PROVE  i \in handled' \/ inbox'[i].status = "gone"
  <2>1. i \in handled \/ inbox[i].status = "gone"
    BY <1>3, <1>i, <1>c DEF Carded, CardOf
  <2>2. CASE Delete
    BY <2>1, <2>2, <1>t DEF Delete, Wiped, Desk, TypeOK
  <2>3. CASE ~Delete
    <3>1. handled \subseteq handled'
      BY <2>3 DEF Next, vars, tables, Arrive, Link, UserEndsGrant, ExpireStale, HandlerRaises,
         Crash, RecoverUpdate, RecoverWrite, Handler, Claim, AskReplayed, AskRefused, CreateAsk,
         MarkHandled, SendCard, Press, Accept, Expire, Reject, TapKnown, TapRefused, CreateTap,
         StampTap, AcceptTap, Edit, Finish, Writer, ClaimWrite, Load, NotLinked, TokenInHand,
         Refresh, RefreshUnheard, RefreshDown, RefreshRefused, CallServed, CallUnheard,
         CallFails, CallRejected, MarkWritten, Confirm, Close, Raise, Abandon, SaySorry,
         Denied, Warn, Tell
    <3>2. ASSUME inbox[i].status = "gone" PROVE inbox'[i].status = "gone"
      <4>1. CASE \E k \in Inputs : Arrive(k) \/ Claim(k) \/ RecoverUpdate(k)
        BY <3>2, <4>1, <1>t DEF Arrive, Claim, RecoverUpdate, TypeOK
      <4>2. CASE Finish
        BY <3>2, <4>2, <1>t DEF Finish, Completed, TypeOK
      <4>3. CASE HandlerRaises
        <5>1. mine # i
          BY <3>2, <4>3 DEF HandlerRaises, Desk
        <5> QED
          BY <3>2, <4>3, <5>1, <1>t DEF HandlerRaises, TypeOK
      <4>4. CASE \/ Link \/ UserEndsGrant \/ Crash \/ UNCHANGED vars
                 \/ \E a \in Ids : ExpireStale(a) \/ RecoverWrite(a)
                 \/ AskReplayed \/ AskRefused \/ CreateAsk \/ MarkHandled \/ SendCard
                 \/ Press \/ TapKnown \/ TapRefused \/ CreateTap \/ StampTap
                 \/ AcceptTap \/ Edit \/ Writer
        <5>1. inbox' = inbox
          BY <4>4 DEF vars, Link, UserEndsGrant, ExpireStale, Crash, RecoverWrite, AskReplayed,
             AskRefused, CreateAsk, MarkHandled, SendCard, Press, TapKnown, TapRefused,
             CreateTap, StampTap, AcceptTap, Edit, Writer, ClaimWrite, Load, NotLinked,
             TokenInHand, Refresh, RefreshUnheard, RefreshDown, RefreshRefused, CallServed,
             CallUnheard, CallFails, CallRejected, MarkWritten, Confirm, Close, Raise, Abandon,
             SaySorry, Denied, Warn, Tell, outside, others, input
        <5> QED
          BY <3>2, <5>1
      <4> QED
        BY <2>3, <4>1, <4>2, <4>3, <4>4 DEF Next, Handler
    <3> QED
      BY <2>1, <3>1, <3>2
  <2> QED
    BY <2>2, <2>3
<1>4. ASSUME pc' = "card" PROVE ~CardOf(mine)'
  <2>1. MarkHandled \/ (pc = "card" /\ mine' = mine /\ ~SendCard)
    <3>1. ~Writer
      <4>1. ASSUME NotLinked \/ TokenInHand \/ Refresh \/ RefreshUnheard \/ RefreshDown \/ RefreshRefused
            PROVE  FALSE
        <5>1. \E how \in {"ok", "auth", "down"} : Goto(After(how))
          BY <4>1 DEF NotLinked, TokenInHand, Refresh, RefreshUnheard, RefreshDown, RefreshRefused
        <5> QED
          BY <5>1, <1>4 DEF After, Goto
      <4> QED
        BY <4>1, <1>4 DEF Writer, ClaimWrite, Load, CallServed, CallUnheard, CallFails,
           CallRejected, MarkWritten, Confirm, Close, Raise, Abandon, SaySorry, Denied, Warn,
           Tell, Goto
    <3> QED
      BY <3>1, <1>4, <1>t DEF Next, vars, loop, Arrive, Link, UserEndsGrant, ExpireStale,
         HandlerRaises, Crash, RecoverUpdate, RecoverWrite, Handler, Claim, AskReplayed,
         AskRefused, CreateAsk, SendCard, Press, TapKnown, TapRefused, CreateTap, StampTap,
         AcceptTap, Edit, Delete, Finish, Goto, TypeOK, Input
  <2>2. CASE MarkHandled
    <3>1. mine \in Inputs /\ mine \notin handled /\ inbox[mine].status = "processing" /\ mine' = mine
      BY <2>2, <1>t DEF MarkHandled, Goto, AtHand, Desk, HandlerPCs
    <3>2. ~SendCard
      BY <2>2 DEF MarkHandled, SendCard
    <3> QED
      BY <3>1, <3>2, <1>i DEF Carded, CardOf
  <2>3. CASE pc = "card" /\ mine' = mine /\ ~SendCard
    BY <2>3, <1>i DEF Carded, CardOf
  <2> QED
    BY <2>1, <2>2, <2>3
<1>5. ASSUME NEW a \in Ids, Taken(a)', action'[a].wish \notin astray' \union {List}
      PROVE  [id |-> a, wish |-> action'[a].wish] \in Issued'
  <2>g. Issued \subseteq Issued' /\ astray \subseteq astray'
    <3>1. astray \subseteq astray'
      BY ToldMoves
    <3>2. Issued \subseteq Issued'
      BY <1>i
    <3> QED
      BY <3>1, <3>2
  <2>1. CASE NewRow
    <3>1. action'[a] = action[a]
      BY <2>1, <1>5, <1>t DEF NewRow, TypeOK, Taken, Found
    <3> QED
      BY <3>1, <2>g, <1>5 DEF Carded, Taken, Found
  <2>2. CASE NoRows
    BY <2>2, <1>5 DEF NoRows, NoAction, Taken, Found
  <2>3. CASE Kept(a) /\ Moved(a) /\ Taken(a)
    <3>1. action[a] # NoAction /\ action'[a].wish = action[a].wish
      BY <2>3 DEF Kept, Taken, Found, NoAction
    <3> QED
      BY <2>3, <3>1, <2>g, <1>5 DEF Carded
  <2>4. CASE Kept(a) /\ Moved(a) /\ ~Taken(a)
    <3>1. \/ Decides(a) /\ action'[a].status = "accepted"
          \/ act = a /\ pc = "landed" /\ action'[a].status = "written"
      BY <2>4, <1>5 DEF Moved, Taken, Found, Decides
    <3>2. Decides(a) /\ action'[a].status = "accepted"
      BY <3>1, <2>4 DEF Placed, Taken
    <3>3. action[a] # NoAction /\ action'[a].wish = action[a].wish
      BY <2>4, <3>2, <1>t, FoundIsRow DEF Kept, Decides, Found, NoAction
    <3>4. CASE AcceptTap /\ act = a
      <4>1. action[a].wish = List
        BY <3>4, <1>t DEF AcceptTap, Desk
      <4> QED
        BY <4>1, <3>3, <1>5
    <3>5. CASE /\ Press /\ pc = "yes" /\ said[mine].card.id = a
               /\ astray' = astray \union Misread(said[mine].card)
      <4>1. mine \in Inputs /\ said[mine].do = "yes" /\ said[mine] \in Input
        BY <3>5, <1>t DEF AtHand, TypeOK, HandlerPCs
      <4>2. said[mine].card \in Card /\ said[mine].card \in Issued
        BY <4>1 DEF Input, Issued
      <4>3. said[mine].card = [id |-> a, wish |-> said[mine].card.wish]
        BY <4>2, <3>5 DEF Card
      <4>4. said[mine].card.wish = action[a].wish
        <5>1. Misread(said[mine].card) = {action[a].wish} \ {said[mine].card.wish}
          BY <3>2, <3>5 DEF Misread, Decides
        <5>2. action[a].wish \notin astray'
          BY <3>3, <1>5
        <5> QED
          BY <5>1, <5>2, <3>5
      <4> QED
        BY <4>2, <4>3, <4>4, <3>3, <2>g
    <3> QED
      BY <3>2, <3>4, <3>5, AcceptMoves
  <2> QED
    BY <2>1, <2>2, <2>3, <2>4, RowsMove
<1> QED
  BY <1>1, <1>2, <1>3, <1>4, <1>5 DEF Carded

LEMMA AlwaysCarded == Spec => [](Typed /\ Numbered /\ Queued /\ There /\ Desk /\ Carded)
<1>1. Init => Carded
  <2> SUFFICES ASSUME Init PROVE Carded
    OBVIOUS
  <2>1. Issued \subseteq {[id |-> 1, wish |-> Past]}
    BY DEF Init, Issued
  <2>2. Past \notin Inputs /\ Past # List
    BY PlannerAssumption DEF Past, Inputs, List
  <2>3. \A a \in Ids : ~Taken(a)
    BY DEF Init, Taken, Found, NoAction
  <2> QED
    BY <2>1, <2>2, <2>3 DEF Init, Carded, CardOf
<1>2. Queued => Placed
  BY DEF Queued
<1> QED
  BY <1>1, <1>2, DeskInit, DeskNext, CardedNext, AlwaysThere, PTL DEF Spec

-----------------------------------------------------------------------------
(* One item for a wish, and honest notices.                                 *)

\* The call is for a row whose card was shown, if its wish is not astray.
LEMMA CallIsCarded ==
    ASSUME Typed, Placed, There, Carded, CallServed \/ CallUnheard
    PROVE  /\ act \in Ids /\ action[act] \in Action /\ Found(act, "accepted")
           /\ Issued' = Issued /\ UNCHANGED tables
           /\ action[act].wish \notin astray \union {List} => RowOf(act, action[act].wish)
           /\ action[act].kind = "complete" <=> action[act].wish = List
           /\ Served
<1>1. /\ act \in Ids /\ action[act] # NoAction /\ action[act] \in Action /\ Served
      /\ Found(act, "accepted") /\ UNCHANGED <<tables, input, chat>>
  BY FoundIsRow DEF CallServed, CallUnheard, Typed, AtHand, WriterPCs, Placed
<1>2. Issued' = Issued
  BY <1>1 DEF input, chat, Issued
<1> QED
  BY <1>1, <1>2 DEF Carded, Taken, There, RowOf

\* No row is added for a wish that has a card, and no second card is sent.
LEMMA RowsOfMove ==
    ASSUME Typed, Desk, Carded, [Next]_vars, NEW w \in Wishes, w # List, CardOf(w),
           NEW a \in Ids, RowOf(a, w)'
    PROVE  RowOf(a, w) /\ action'[a].key = action[a].key /\ Moved(a)
<1>t. TypeOK /\ AtHand
  BY DEF Typed
<1>0. action'[a] # NoAction /\ action'[a].wish = w /\ [id |-> a, wish |-> w] \in Issued'
  BY DEF RowOf
<1>1. [id |-> a, wish |-> w] \in Issued
  <2>1. CASE Issued' = Issued
    BY <1>0, <2>1
  <2>2. CASE SendCard /\ Issued' = Issued \union {[id |-> act, wish |-> mine]}
    <3>1. w # mine
      BY <2>2 DEF SendCard, Carded
    <3>2. [id |-> a, wish |-> w] # [id |-> act, wish |-> mine]
      BY <3>1
    <3> QED
      BY <1>0, <2>2, <3>2
  <2> QED
    BY <2>1, <2>2, IssuedMoves
<1>2. CASE NewRow
  <2>1. CASE a = lastId + 1
    <3>1. w = mine /\ pc = "ask" /\ mine \in Inputs /\ mine \notin handled
          /\ inbox[mine].status = "processing"
      BY <1>0, <1>2, <2>1, <1>t DEF NewRow, TypeOK, AtHand, HandlerPCs, Desk
    <3> QED
      BY <3>1 DEF Carded
  <2>2. CASE a # lastId + 1
    <3>1. action'[a] = action[a]
      BY <1>2, <2>2, <1>t DEF NewRow, TypeOK
    <3> QED
      BY <3>1, <1>0, <1>1 DEF RowOf, Moved
  <2> QED
    BY <2>1, <2>2
<1>3. CASE NoRows
  BY <1>0, <1>3 DEF NoRows
<1>4. CASE Kept(a) /\ Moved(a)
  BY <1>0, <1>1, <1>4 DEF Kept, RowOf
<1> QED
  BY <1>2, <1>3, <1>4, RowsMove

LEMMA CardsStay == Typed /\ Desk /\ [Next]_vars => \A w \in Wishes : CardOf(w) => CardOf(w)'
  BY IssuedMoves DEF CardOf

LEMMA SingleNext ==
    Typed /\ Placed /\ There /\ Desk /\ Carded /\ Single /\ [Next]_vars => Single'
<1> SUFFICES ASSUME Typed, Placed, There, Desk, Carded, Single, [Next]_vars PROVE Single'
  OBVIOUS
<1>t. TypeOK /\ AtHand
  BY DEF Typed
<1>l. List \in Wishes /\ \A w \in Wishes : items[w] \in Nat
  BY <1>t, PlannerAssumption DEF List, Wishes, TypeOK
<1>a. astray \subseteq astray'
  BY ToldMoves
<1>1. CASE CallServed \/ CallUnheard
  <2>0. /\ act \in Ids /\ action[act] \in Action /\ Found(act, "accepted") /\ Issued' = Issued
        /\ action' = action
        /\ action[act].wish \notin astray \union {List} => RowOf(act, action[act].wish)
        /\ action[act].kind = "complete" <=> action[act].wish = List
    BY <1>1, CallIsCarded DEF tables
  <2>k. action[act].wish \in Wishes /\ action[act].kind \in {"create", "complete"}
    BY <2>0 DEF Action
  <2>1. \/ action[act].wish = List /\ items' = [items EXCEPT ![List] = 1] /\ known' = known
        \/ /\ action[act].wish # List /\ known' = known \union {action[act].key}
           /\ items' = IF action[act].key \in known THEN items
                       ELSE [items EXCEPT ![action[act].wish] = @ + 1]
    BY <1>1, <2>0, <2>k, CallIsCarded DEF Served, RequestId
  <2>2. items'[List] <= 1
    BY <2>1, <2>k, <1>l, <1>t DEF Single, TypeOK
  <2>3. ASSUME NEW w \in Wishes \ (astray' \union {List})
        PROVE  /\ items'[w] <= 1
               /\ items'[w] = 1 => CardOf(w)' /\ \A a \in Ids : RowOf(a, w)' => action'[a].key \in known'
    <3>0. w \notin astray \union {List}
      BY <1>a
    <3>r. \A a \in Ids : RowOf(a, w)' <=> RowOf(a, w)
      BY <2>0 DEF RowOf
    <3>c. CardOf(w)' <=> CardOf(w)
      BY <2>0 DEF CardOf
    <3>1. CASE action[act].wish # w \/ action[act].key \in known
      <4>1. items'[w] = items[w] /\ known \subseteq known'
        BY <3>0, <3>1, <2>1, <2>k, <1>t DEF TypeOK
      <4> QED
        BY <4>1, <3>0, <3>r, <3>c, <2>0 DEF Single
    <3>2. CASE action[act].wish = w /\ action[act].key \notin known
      <4>1. RowOf(act, w)
        BY <3>0, <3>2, <2>0
      <4>2. items[w] = 0
        BY <4>1, <3>0, <3>2, <2>0, <1>l DEF Single
      <4>3. items'[w] = 1 /\ action[act].key \in known'
        BY <4>2, <3>0, <3>2, <2>1, <2>k, <1>t DEF TypeOK
      <4>4. CardOf(w)
        BY <4>1 DEF RowOf, CardOf
      <4>5. \A a \in Ids : RowOf(a, w) => a = act
        BY <4>1 DEF RowOf, Carded
      <4> QED
        BY <4>3, <4>4, <4>5, <3>r, <3>c, <2>0
    <3> QED
      BY <3>1, <3>2
  <2> QED
    BY <2>2, <2>3 DEF Single
<1>2. CASE UNCHANGED <<items, known>>
  <2>1. ASSUME NEW w \in Wishes \ (astray' \union {List}), items[w] = 1
        PROVE  CardOf(w)' /\ \A a \in Ids : RowOf(a, w)' => action'[a].key \in known'
    <3>1. CardOf(w) /\ \A a \in Ids : RowOf(a, w) => action[a].key \in known
      BY <2>1, <1>a DEF Single
    <3>2. CardOf(w)'
      BY <3>1, <2>1, CardsStay
    <3>3. ASSUME NEW a \in Ids, RowOf(a, w)' PROVE action'[a].key \in known'
      BY <3>1, <3>3, <2>1, <1>2, RowsOfMove
    <3> QED
      BY <3>2, <3>3
  <2>2. \A w \in Wishes \ (astray' \union {List}) : items'[w] <= 1
    BY <1>2, <1>a DEF Single
  <2> QED
    BY <2>1, <2>2, <1>2 DEF Single
<1> QED
  BY <1>1, <1>2, PlannerMoves

LEMMA HeardNext ==
    Typed /\ Numbered /\ Placed /\ Heard /\ [Next]_vars => Heard'
<1> SUFFICES ASSUME Typed, Numbered, Placed, Heard, [Next]_vars,
                    NEW a \in Ids, action'[a] # NoAction, action'[a].kind = "create",
                    action'[a].key \in known'
             PROVE  \/ Found(a, "written")'
                    \/ pc' = "landed" /\ act' = a
                    \/ action'[a].wish \in unheard'
  BY DEF Heard
<1>t. TypeOK /\ AtHand
  BY DEF Typed
<1>1. CASE CallServed \/ CallUnheard
  <2>1. /\ act \in Ids /\ action[act] # NoAction /\ action' = action /\ act' = act /\ pc = "call"
        /\ known' \subseteq known \union {action[act].key}
    BY <1>1, <1>t DEF CallServed, CallUnheard, Served, RequestId, Goto, tables, AtHand, WriterPCs
  <2>2. CASE a = act
    BY <1>1, <2>1, <2>2 DEF CallServed, CallUnheard, Goto
  <2>3. CASE a # act
    <3>1. action[a].key \in known
      BY <2>1, <2>3 DEF Numbered
    <3>2. Found(a, "written") \/ action[a].wish \in unheard
      BY <2>1, <3>1 DEF Heard
    <3>3. unheard \subseteq unheard'
      BY ToldMoves
    <3> QED
      BY <2>1, <3>2, <3>3 DEF Found
  <2> QED
    BY <2>2, <2>3
<1>2. CASE UNCHANGED <<items, known>>
  <2>1. CASE NewRow
    <3>1. minted + 1 \notin known
      BY <1>t, PlannerAssumption DEF Numbered, TypeOK
    <3>2. action'[a] = action[a]
      BY <2>1, <3>1, <1>2, <1>t DEF NewRow, TypeOK
    <3>3. pc # "landed"
      BY <2>1 DEF NewRow
    <3>4. unheard \subseteq unheard'
      BY ToldMoves
    <3> QED
      BY <3>2, <3>3, <3>4, <1>2 DEF Heard, Found
  <2>2. CASE NoRows
    BY <2>2 DEF NoRows
  <2>3. CASE Kept(a) /\ Moved(a)
    <3>1. /\ action[a] # NoAction /\ action[a].kind = "create" /\ action[a].key \in known
          /\ action'[a].wish = action[a].wish
      BY <2>3, <1>2 DEF Kept
    <3>2. CASE Found(a, "written")
      BY <2>3, <3>2 DEF Moved, Decides, Found
    <3>3. CASE action[a].wish \in unheard
      BY <3>1, <3>3, ToldMoves
    <3>4. CASE pc = "landed" /\ act = a
      <4>1. MarkWritten \/ Crash \/ UNCHANGED <<pc, act>>
        BY <3>4, <1>t DEF Next, vars, loop, Handler, Writer, Arrive, Link, UserEndsGrant,
           LooksAtGrant, ExpireStale, Claim, AskReplayed, AskRefused, CreateAsk, MarkHandled,
           SendCard, Press, TapKnown, TapRefused, CreateTap, StampTap, AcceptTap, Edit, Delete,
           Finish, HandlerRaises, HandlerPCs, ClaimWrite, Load, NotLinked, TokenInHand, Refresh,
           Refreshing, RefreshUnheard, RefreshDown, RefreshRefused, AsksToken, CallServed,
           CallUnheard, CallFails, CallRejected, Confirm, Close, Raise, Abandon, SaySorry,
           Denied, Warn, Tell, RecoverUpdate, RecoverWrite
      <4>2. CASE MarkWritten
        <5>1. action'[a].status = "written"
          BY <4>2, <3>4, <1>t, FoundIsRow, <3>1 DEF MarkWritten, TypeOK, Action
        <5> QED
          BY <5>1 DEF Found
      <4>3. CASE Crash
        BY <4>3, <3>1, <3>4 DEF Crash
      <4>4. CASE UNCHANGED <<pc, act>>
        BY <4>4, <3>4
      <4> QED
        BY <4>1, <4>2, <4>3, <4>4
    <3> QED
      BY <3>1, <3>2, <3>3, <3>4 DEF Heard
  <2> QED
    BY <2>1, <2>2, <2>3, RowsMove
<1> QED
  BY <1>1, <1>2, PlannerMoves

LEMMA HonestNext ==
    Typed /\ Placed /\ There /\ Desk /\ Carded /\ Single /\ Heard /\ Honest /\ [Next]_vars
        => Honest'
<1> SUFFICES ASSUME Typed, Placed, There, Desk, Carded, Single, Heard, Honest, [Next]_vars,
                    NEW w \in denied' \ ({List} \union unheard' \union astray')
             PROVE  /\ items'[w] = 0 /\ CardOf(w)'
                    /\ \A a \in Ids : RowOf(a, w)' => Found(a, "failed")'
  BY DEF Honest
<1>t. TypeOK /\ AtHand
  BY DEF Typed
<1>g. w \notin {List} \union unheard \union astray
  BY ToldMoves
<1>1. CASE w \in denied
  <2>0. w \in Wishes
    BY <1>1, <1>t DEF TypeOK
  <2>1. items[w] = 0 /\ CardOf(w) /\ \A a \in Ids : RowOf(a, w) => Found(a, "failed")
    BY <1>1, <1>g DEF Honest
  <2>2. CardOf(w)'
    BY <2>0, <2>1, CardsStay
  <2>3. items'[w] = 0
    <3>1. CASE CallServed \/ CallUnheard
      <4>1. /\ act \in Ids /\ action[act] \in Action /\ Found(act, "accepted") /\ Served
            /\ action[act].wish \notin astray \union {List} => RowOf(act, action[act].wish)
        BY <3>1, CallIsCarded
      <4>2. action[act].wish # w
        BY <4>1, <2>1, <1>g DEF Found
      <4> QED
        BY <4>1, <4>2, <2>0, <2>1, <1>t DEF Served, TypeOK
    <3> QED
      BY <3>1, <2>1, PlannerMoves
  <2>4. ASSUME NEW a \in Ids, RowOf(a, w)' PROVE Found(a, "failed")'
    <3>1. RowOf(a, w) /\ Moved(a)
      BY <2>0, <2>1, <2>4, <1>g, RowsOfMove
    <3>2. Found(a, "failed")
      BY <2>1, <3>1
    <3> QED
      BY <3>1, <3>2 DEF Moved, Decides, Found, Placed
  <2> QED
    BY <2>2, <2>3, <2>4
<1>2. CASE w \notin denied
  <2>1. SaySorry \/ Tell
    BY <1>2, ToldMoves
  <2>2. /\ act \in Ids /\ action[act] # NoAction /\ action[act] \in Action
        /\ pc \in {"sorry", "tell"} /\ Found(act, "failed") /\ w = action[act].wish
        /\ UNCHANGED <<tables, input, chat, planner>>
    BY <2>1, <1>2, <1>t, FoundIsRow DEF SaySorry, Tell, AtHand, WriterPCs, Placed
  <2>3. Issued' = Issued /\ action' = action /\ items' = items
    BY <2>2 DEF input, chat, tables, planner, Issued
  <2>4. RowOf(act, w) /\ CardOf(w) /\ w \in Wishes
    BY <2>2, <1>g DEF Carded, Taken, RowOf, CardOf, Action
  <2>5. \A a \in Ids : RowOf(a, w) => a = act
    BY <2>4 DEF RowOf, Carded
  <2>6. action[act].kind = "create"
    BY <2>2, <1>g DEF There, Action
  <2>7. action[act].key \notin known
    BY <2>2, <2>6, <1>g DEF Heard, Found
  <2>8. items[w] = 0
    <3>1. items[w] <= 1 /\ items[w] # 1 /\ items[w] \in Nat
      BY <2>2, <2>4, <2>7, <1>g, <1>t DEF Single, TypeOK
    <3> QED
      BY <3>1
  <2>9. CardOf(w)' /\ \A a \in Ids : RowOf(a, w)' => RowOf(a, w)
    BY <2>3, <2>4 DEF CardOf, RowOf
  <2> QED
    BY <2>2, <2>3, <2>5, <2>8, <2>9 DEF Found
<1> QED
  BY <1>1, <1>2

LEMMA AlwaysHonest ==
    Spec => [](Typed /\ Numbered /\ Queued /\ There /\ Desk /\ Carded /\ Single /\ Heard /\ Honest)
<1>1. Init => Single /\ Heard /\ Honest
  <2> SUFFICES ASSUME Init PROVE Single /\ Heard /\ Honest
    OBVIOUS
  <2>1. Past # List /\ Past \in Wishes /\ List \in Wishes
    BY PlannerAssumption DEF Past, List, Wishes
  <2>2. \A w \in Wishes : items[w] = 0 \/ (items[w] = 1 /\ w = Past /\ action = [a \in Ids |-> NoAction]
                                           /\ cards = {[id |-> 1, wish |-> Past]})
    BY DEF Init
  <2>3. Single
    <3>1. items[List] <= 1
      BY <2>1, <2>2
    <3>2. ASSUME NEW w \in Wishes \ (astray \union {List})
          PROVE  /\ items[w] <= 1
                 /\ items[w] = 1 => CardOf(w) /\ \A a \in Ids : RowOf(a, w) => action[a].key \in known
      <4>1. items[w] <= 1
        BY <2>2, <3>2
      <4>2. CASE items[w] = 1
        <5>1. w = Past /\ action = [a \in Ids |-> NoAction] /\ [id |-> 1, wish |-> Past] \in cards
          BY <2>2, <3>2, <4>2
        <5>2. [id |-> 1, wish |-> Past] \in Issued
          BY <5>1 DEF Issued
        <5>3. CardOf(w)
          <6>1. [id |-> 1, wish |-> Past].wish = w
            BY <5>1
          <6> QED
            BY <5>2, <6>1 DEF CardOf
        <5>4. \A a \in Ids : ~RowOf(a, w)
          BY <5>1 DEF RowOf
        <5> QED
          BY <4>1, <5>3, <5>4
      <4> QED
        BY <4>1, <4>2
    <3> QED
      BY <3>1, <3>2 DEF Single
  <2>4. Heard
    BY DEF Init, Heard
  <2>5. Honest
    BY DEF Init, Honest
  <2> QED
    BY <2>3, <2>4, <2>5
<1>2. Queued => Placed
  BY DEF Queued
<1> QED
  BY <1>1, <1>2, AlwaysCarded, SingleNext, HeardNext, HonestNext, PTL DEF Spec

\* One /task or /event makes one item at most in the planner, whatever is replayed,
\* tapped twice or answered into the void, unless a card of before /delete was
\* taken for another row's.
THEOREM OneItem == Spec => []OneItemPerWish
<1>1. Typed /\ Single => OneItemPerWish
  BY DEF Single, OneItemPerWish
<1> QED
  BY <1>1, AlwaysHonest, PTL

\* The user is told that a write failed only when it is not in the planner, or its
\* answer was lost on the way.
THEOREM HonestNotice == Spec => []NoticeWrongOnlyIfUnheard
<1>1. Honest => NoticeWrongOnlyIfUnheard
  BY DEF Honest, NoticeWrongOnlyIfUnheard
<1> QED
  BY <1>1, AlwaysHonest, PTL
=============================================================================
