--------------------------- MODULE OutboundProofs ---------------------------
(***************************************************************************)
(* Theorems about Outbound, for every finite set of intents, every limit   *)
(* and every number of updates, panel requests and crashes.                *)
(*                                                                         *)
(* The invariants build on each other: types and what the worker holds,    *)
(* then what it knows of the rows it works on (Known), then the ledgers of *)
(* deliveries, of unanswered messages and of the day's budget.             *)
(***************************************************************************)
EXTENDS Outbound, QueueOpsProofs, FiniteSetTheorems, TLAPS

\* The worker has an intent at hand exactly while it runs a send job.
Holding == mine = NoIntent <=> pc \in {"idle", "heard", "revoke"}

Typed == TypeOK /\ Holding

\* Where the worker stands says what its rows look like: a message is stored
\* once, and a row that was read as planned can only have been cancelled since.
Known ==
    /\ \A i \in Intents : /\ message[i] = "sent" => outbound[i] = "sent"
                          /\ outbound[i] = "none" => message[i] = "none"
    /\ pc \in {"gate", "generate", "store"} => message[mine] = "none"
    /\ pc \in {"send", "resend", "finish"} => message[mine] = "stored"
    /\ pc \in {"gate", "generate"} => outbound[mine] \in {"planned", "cancelled"}
    /\ pc \in {"store", "send", "resend", "finish"} =>
            \/ outbound[mine] = "planned"
            \/ outbound[mine] = "cancelled" /\ mine \in overtaken

\* A delivery is either on record, about to be, or its run was cut off.
Ledger ==
    \A i \in Intents :
        delivered[i] <= cut[i] + (IF message[i] = "sent" \/ (mine = i /\ pc = "finish")
                                  THEN 1 ELSE 0)

\* The gate's verdict still holds when a new text is sent: only the worker moves
\* the persona and the back-off counter, and it is busy with the message.
Admitted == pc \in {"generate", "store", "send"} => persona /\ ignored < MaxIgnored

\* ignored_in_row falls behind the messages that are unanswered by the one being
\* counted and by those whose count was cut off.
Answered ==
    /\ unanswered <= ignored + uncounted + (IF pc \in {"finish", "count"} THEN 1 ELSE 0)
    /\ unanswered <= MaxIgnored + uncounted

\* A text left stored and planned under a pause waits for the pause's cancel.
Halting ==
    ~persona => \A i \in Intents : outbound[i] = "planned" /\ message[i] = "stored"
                                     => halted \/ pc = "revoke"

\* The rows that were sent after a look at the gate, and the place that is kept
\* for the one on its way.
Fresh == {i \in Intents : outbound[i] = "sent" /\ i \notin resent}

Budget ==
    /\ earlier + Cardinality(Fresh) <= MaxPerDay
    /\ \/ pc \in {"generate", "store", "send"}
       \/ pc = "finish" /\ mine \notin resent
       => earlier + Cardinality(Fresh) < MaxPerDay

-----------------------------------------------------------------------------
(* Types.                                                                   *)

LEMMA TypedInit == Init => Typed
<1> SUFFICES ASSUME Init PROVE Typed
  OBVIOUS
<1>1. AbsentRow \in Row
  BY QueueAssumption DEF AbsentRow, Row, Statuses
<1>2. TypeOK
  BY <1>1, OutboundAssumption DEF Init, TypeOK, PCs, Live
<1>3. Holding
  BY DEF Init, Holding
<1> QED
  BY <1>2, <1>3 DEF Typed

LEMMA TypedNext == Typed /\ [Next]_vars => Typed'
<1> SUFFICES ASSUME Typed, [Next]_vars PROVE Typed'
  OBVIOUS
<1> USE DEF Typed
<1>r. \A i \in Intents :
         /\ Inserted(job[i]) \in Row /\ Claimed(job[i]) \in Row
         /\ Completed(job[i]) \in Row /\ Failed(job[i]) \in Row
  BY RowsStayRows DEF TypeOK
<1>m. pc \notin {"idle", "heard", "revoke"} => mine \in Intents
  BY DEF TypeOK, Holding
<1>n. NoIntent \notin Intents
  BY OutboundAssumption
<1>1. ASSUME NEW i \in Intents, Admit(i) PROVE Typed'
  BY <1>1 DEF Admit, TypeOK, Holding, wishes, bounds, history
<1>2. CASE Plan
  BY <1>2, <1>r DEF Plan, TypeOK, Holding, wishes, bounds, history, Live
<1>3. CASE Hear
  BY <1>3, <1>m DEF Hear, Goto, TypeOK, Holding, wishes, PCs
<1>4. ASSUME NEW wish \in Wishes, Obey(wish) PROVE Typed'
  <2>1. persona' \in BOOLEAN /\ quiet' \in BOOLEAN /\ checkedIn' \in BOOLEAN
    BY <1>4 DEF Obey, TypeOK
  <2>2. pc' \in {"idle", "revoke"} /\ mine' = mine /\ pc = "heard"
    BY <1>4 DEF Obey, Goto
  <2> QED
    BY <1>4, <2>1, <2>2 DEF Obey, TypeOK, Holding, bounds, history, PCs
<1>5. CASE Revoke
  <2>1. pc = "revoke" /\ pc' = "idle" /\ mine' = mine
    BY <1>5 DEF Revoke, Goto
  <2>2. outbound' \in [Intents -> Live \union Closed] /\ overtaken' \subseteq Intents
    BY <1>5 DEF Revoke, Cancel, TypeOK, Closed
  <2> QED
    BY <1>5, <2>1, <2>2 DEF Revoke, Cancel, TypeOK, Holding, wishes, bounds, PCs
<1>6. CASE PanelQuiet
  BY <1>6 DEF PanelQuiet, TypeOK, Holding, history
<1>7. CASE PanelCancel
  <2>1. outbound' \in [Intents -> Live \union Closed] /\ overtaken' \subseteq Intents
    BY <1>7 DEF PanelCancel, Cancel, TypeOK, Closed
  <2> QED
    BY <1>7, <2>1 DEF PanelCancel, Cancel, TypeOK, Holding, wishes, bounds
<1>8. CASE QuietEnds
  BY <1>8 DEF QuietEnds, TypeOK, Holding, bounds, history
<1>9. ASSUME NEW i \in Intents, Claim(i) PROVE Typed'
  BY <1>9, <1>r, <1>n DEF Claim, TypeOK, Holding, wishes, bounds, history, PCs
<1>10. CASE Look
  <2>1. pc' \in {"return", "gate", "resend"} /\ mine' = mine /\ pc = "begin"
    BY <1>10, <1>m DEF Look, Goto, TypeOK
  <2>2. outbound' \in [Intents -> Live \union Closed]
    BY <1>10, <1>m DEF Look, Settle, TypeOK, Closed
  <2> QED
    BY <1>10, <2>1, <2>2 DEF Look, TypeOK, Holding, wishes, bounds, history, PCs
<1>11. CASE Pass
  BY <1>11, <1>m DEF Pass, Goto, TypeOK, Holding, wishes, bounds, history, PCs
<1>12. CASE Refuse
  BY <1>12, <1>m DEF Refuse, Settle, Goto, TypeOK, Holding, wishes, bounds, history, PCs,
     Closed
<1>13. CASE GenerateNothing
  BY <1>13, <1>m DEF GenerateNothing, Settle, Goto, TypeOK, Holding, wishes, bounds,
     history, PCs, Closed
<1>14. CASE Reread
  BY <1>14, <1>m DEF Reread, Goto, TypeOK, Holding, wishes, bounds, history, PCs
<1>15. CASE Store
  BY <1>15, <1>m DEF Store, Goto, TypeOK, Holding, wishes, bounds, history, PCs
<1>16. CASE Send
  <2>1. /\ delivered' \in [Intents -> Nat] /\ unanswered' \in Nat
        /\ resent' \subseteq Intents /\ uncounted' \in Nat
    BY <1>16, <1>m DEF Send, TypeOK
  <2> QED
    BY <1>16, <1>m, <2>1 DEF Send, Goto, TypeOK, Holding, wishes, bounds, PCs
<1>17. CASE Finish
  BY <1>17, <1>m DEF Finish, Settle, Goto, TypeOK, Holding, wishes, bounds, history, PCs,
     Closed
<1>18. CASE Count
  BY <1>18, <1>m DEF Count, Goto, TypeOK, Holding, wishes, bounds, history, PCs
<1>19. CASE Complete
  BY <1>19, <1>m, <1>r DEF Complete, TypeOK, Holding, wishes, bounds, history, PCs
<1>20. ASSUME CutOff
       PROVE  /\ cut' \in [Intents -> Nat] /\ uncounted' \in Nat
              /\ pc' = "idle" /\ mine' = NoIntent
  BY <1>20, <1>m DEF CutOff, TypeOK
<1>21. CASE Raise
  <2>1. job' \in [Intents -> Row]
    BY <1>21, <1>r DEF Raise, TypeOK
  <2>2. halted' \in BOOLEAN
    BY <1>21 DEF Raise, TypeOK
  <2>3. CutOff
    BY <1>21 DEF Raise
  <2> QED
    BY <1>21, <1>20, <2>1, <2>2, <2>3 DEF Raise, TypeOK, Holding, wishes, bounds, PCs
<1>22. CASE Crash
  <2>1. halted' \in BOOLEAN /\ panel' \in BOOLEAN
    BY <1>22 DEF Crash, TypeOK
  <2>2. CutOff
    BY <1>22 DEF Crash
  <2> QED
    BY <1>22, <1>20, <2>1, <2>2 DEF Crash, TypeOK, Holding, wishes, PCs
<1>23. ASSUME NEW i \in Intents, RecoverStuck(i) PROVE Typed'
  <2>1. [job[i] EXCEPT !.lease = StuckAfter] \in Row
    BY QueueAssumption DEF TypeOK, Row
  <2>2. Recovered([job[i] EXCEPT !.lease = StuckAfter]) \in Row
    BY <2>1, RowsStayRows
  <2> QED
    BY <1>23, <2>2 DEF RecoverStuck, TypeOK, Holding, wishes, bounds, history
<1>24. CASE UNCHANGED vars
  BY <1>24 DEF vars, TypeOK, Holding, wishes, bounds, history
<1> QED
  BY <1>1, <1>2, <1>3, <1>4, <1>5, <1>6, <1>7, <1>8, <1>9, <1>10, <1>11, <1>12,
     <1>13, <1>14, <1>15, <1>16, <1>17, <1>18, <1>19, <1>21, <1>22, <1>23, <1>24
     DEF Next, Handler, Sender

\* Every reachable state of the day's messages is well formed.
THEOREM OutboundTyped == Spec => []TypeOK
<1>1. Spec => []Typed
  BY TypedInit, TypedNext, PTL DEF Spec
<1>2. Typed => TypeOK
  BY DEF Typed
<1> QED
  BY <1>1, <1>2, PTL

-----------------------------------------------------------------------------
(* What the worker knows of the rows it works on.                           *)

LEMMA KnownInit == Init => Known
  BY DEF Init, Known

LEMMA KnownNext == Typed /\ Known /\ [Next]_vars => Known'
<1> SUFFICES ASSUME Typed, Known, [Next]_vars PROVE Known'
  OBVIOUS
<1>t. TypeOK
  BY DEF Typed
<1>m. pc \notin {"idle", "heard", "revoke"} => mine \in Intents
  BY DEF Typed, TypeOK, Holding
<1>0. ASSUME UNCHANGED <<outbound, message, overtaken>>,
             pc' \in {"idle", "heard", "revoke", "begin", "count", "return"}
      PROVE Known'
  BY <1>0 DEF Known
<1>c. ASSUME Cancel, UNCHANGED <<message, mine>>,
             pc' = pc \/ pc' = "idle"
      PROVE Known'
  <2>1. \A i \in Intents : /\ message[i] = "sent" => outbound'[i] = "sent"
                           /\ outbound'[i] = "none" => message[i] = "none"
    BY <1>c, <1>t DEF Known, Cancel, TypeOK
  <2>2. CASE pc' = "idle"
    BY <2>1, <2>2, <1>c DEF Known
  <2>3. CASE pc' = pc /\ pc \in {"gate", "generate"}
    BY <2>1, <2>3, <1>c, <1>m, <1>t DEF Known, Cancel, TypeOK
  <2>4. CASE pc' = pc /\ pc \in {"store", "send", "resend", "finish"}
    BY <2>1, <2>4, <1>c, <1>m, <1>t DEF Known, Cancel, TypeOK
  <2>5. CASE pc' = pc /\ pc \notin {"gate", "generate", "store", "send", "resend", "finish"}
    BY <2>1, <2>5, <1>c DEF Known
  <2> QED
    BY <1>c, <2>2, <2>3, <2>4, <2>5
<1>1. ASSUME NEW i \in Intents, Admit(i) PROVE Known'
  BY <1>1 DEF Admit, Known, history
<1>2. CASE Plan
  <2>1. \A i \in Intents : /\ outbound[i] # "none" => outbound'[i] = outbound[i]
                           /\ outbound[i] = "none" => outbound'[i] \in {"none", "planned"}
    BY <1>2, <1>t DEF Plan, TypeOK
  <2> QED
    BY <1>2, <2>1, <1>m DEF Plan, Known, history
<1>3. CASE Hear
  BY <1>3, <1>0 DEF Hear, Goto
<1>4. ASSUME NEW wish \in Wishes, Obey(wish) PROVE Known'
  BY <1>4, <1>0 DEF Obey, Goto, history
<1>5. CASE Revoke \/ PanelCancel
  BY <1>5, <1>c DEF Revoke, PanelCancel, Goto
<1>6. CASE PanelQuiet \/ QuietEnds
  BY <1>6 DEF PanelQuiet, QuietEnds, Known, history
<1>7. ASSUME NEW i \in Intents, Claim(i) PROVE Known'
  BY <1>7, <1>0 DEF Claim, history
<1>8. CASE Look
  <2>1. /\ pc = "begin" /\ mine \in Intents /\ mine' = mine
        /\ message' = message /\ overtaken' = overtaken
    BY <1>8, <1>m DEF Look, Goto, history
  <2>2. \/ outbound[mine] = "planned" /\ message[mine] = "none" /\ pc' = "gate"
        \/ outbound[mine] = "planned" /\ message[mine] = "stored" /\ pc' = "resend"
        \/ pc' = "return"
    BY <1>8, <2>1, <1>t DEF Look, Goto, TypeOK
  <2>3. outbound' = outbound
    BY <1>8, <2>1 DEF Look, Known
  <2> QED
    BY <2>1, <2>2, <2>3 DEF Known
<1>9. CASE Pass
  BY <1>9 DEF Pass, Goto, Known, history
<1>10. CASE Refuse \/ GenerateNothing
  <2>1. message[mine] = "none" /\ mine \in Intents
    BY <1>10, <1>m DEF Refuse, GenerateNothing, Known
  <2>2. \A i \in Intents : /\ message[i] = "sent" => outbound'[i] = "sent"
                           /\ outbound'[i] = "none" => message[i] = "none"
    BY <1>10, <2>1, <1>t DEF Refuse, GenerateNothing, Settle, Known, TypeOK
  <2> QED
    BY <1>10, <2>2 DEF Refuse, GenerateNothing, Goto, Known
<1>11. CASE Reread
  BY <1>11 DEF Reread, Goto, Known, history
<1>12. CASE Store
  BY <1>12, <1>m, <1>t DEF Store, Goto, Known, history, TypeOK
<1>13. CASE Send
  BY <1>13, <1>m DEF Send, Goto, Known
<1>14. CASE Finish
  <2>1. /\ outbound' = [outbound EXCEPT ![mine] = "sent"]
        /\ message' = [message EXCEPT ![mine] = "sent"] /\ mine \in Intents
    BY <1>14, <1>m DEF Finish, Settle
  <2>2. \A i \in Intents : /\ message'[i] = "sent" => outbound'[i] = "sent"
                           /\ outbound'[i] = "none" => message'[i] = "none"
    BY <2>1, <1>t DEF Known, TypeOK
  <2> QED
    BY <1>14, <2>2 DEF Finish, Goto, Known
<1>15. CASE Count \/ Complete
  BY <1>15, <1>0 DEF Count, Complete, Goto, history
<1>16. CASE Raise \/ Crash
  BY <1>16, <1>0 DEF Raise, Crash, CutOff
<1>17. ASSUME NEW i \in Intents, RecoverStuck(i) PROVE Known'
  BY <1>17 DEF RecoverStuck, Known, history
<1>18. CASE UNCHANGED vars
  BY <1>18 DEF vars, Known, history
<1> QED
  BY <1>1, <1>2, <1>3, <1>4, <1>5, <1>6, <1>7, <1>8, <1>9, <1>10, <1>11, <1>12,
     <1>13, <1>14, <1>15, <1>16, <1>17, <1>18 DEF Next, Handler, Sender

\* A message row, once sent, closes its outbound row; the worker's place and its
\* rows agree in every reachable state.
LEMMA AlwaysKnown == Spec => [](Typed /\ Known)
<1>1. Init => Typed /\ Known
  BY TypedInit, KnownInit
<1>2. Typed /\ Known /\ [Next]_vars => (Typed /\ Known)'
  BY TypedNext, KnownNext
<1> QED
  BY <1>1, <1>2, PTL DEF Spec

-----------------------------------------------------------------------------
(* Deliveries.                                                              *)

LEMMA LedgerNext == Typed /\ Known /\ Ledger /\ [Next]_vars => Ledger'
<1> SUFFICES ASSUME Typed, Known, Ledger, [Next]_vars PROVE Ledger'
  OBVIOUS
<1>t. TypeOK
  BY DEF Typed
<1>m. pc \notin {"idle", "heard", "revoke"} => mine \in Intents
  BY DEF Typed, TypeOK, Holding
<1>0. ASSUME UNCHANGED <<message, delivered, cut>>,
             pc # "finish", pc' # "finish" \/ UNCHANGED <<pc, mine>>
      PROVE Ledger'
  BY <1>0, <1>t DEF Ledger, TypeOK
<1>1. ASSUME UNCHANGED <<message, delivered, cut, pc, mine>> PROVE Ledger'
  BY <1>1 DEF Ledger
<1>2. CASE \/ \E i \in Intents : Admit(i) \/ RecoverStuck(i)
           \/ Plan \/ PanelQuiet \/ PanelCancel \/ QuietEnds \/ UNCHANGED vars
  BY <1>1, <1>2 DEF Admit, RecoverStuck, Plan, PanelQuiet, PanelCancel, QuietEnds, vars, history
<1>3. CASE \/ Hear \/ Handler \/ \E i \in Intents : Claim(i)
           \/ Pass \/ Refuse \/ GenerateNothing \/ Reread \/ Count \/ Complete
  BY <1>0, <1>3 DEF Hear, Handler, Obey, Revoke, Claim, Pass, Refuse,
     GenerateNothing, Reread, Count, Complete, Goto, history
<1>l. CASE Look
  <2>1. /\ pc = "begin" /\ mine \in Intents
        /\ message[mine] \in {"none", "stored", "sent"}
    BY <1>l, <1>m, <1>t DEF Look, TypeOK
  <2>2. pc' # "finish"
    BY <1>l, <2>1 DEF Look, Goto
  <2> QED
    BY <1>0, <1>l, <2>1, <2>2 DEF Look, history
<1>4. CASE Store
  <2>1. mine \in Intents /\ message[mine] # "sent" /\ pc = "store" /\ pc' = "send"
    BY <1>4, <1>m DEF Store, Goto, Known
  <2>2. message' = [message EXCEPT ![mine] = "stored"] /\ UNCHANGED <<delivered, cut, mine>>
    BY <1>4 DEF Store, Goto, history
  <2> QED
    BY <2>1, <2>2, <1>t DEF Ledger, TypeOK
<1>5. CASE Send
  <2>1. /\ mine \in Intents /\ message[mine] # "sent"
        /\ pc \in {"send", "resend"} /\ pc' = "finish"
    BY <1>5, <1>m DEF Send, Goto, Known
  <2>2. /\ delivered' = [delivered EXCEPT ![mine] = @ + 1]
        /\ UNCHANGED <<message, cut, mine>>
    BY <1>5 DEF Send, Goto
  <2>3. delivered'[mine] <= cut'[mine] + 1
    BY <2>1, <2>2, <1>t DEF Ledger, TypeOK
  <2>4. \A i \in Intents \ {mine} : delivered'[i] = delivered[i]
    BY <2>1, <2>2, <1>t DEF TypeOK
  <2> QED
    BY <2>1, <2>2, <2>3, <2>4, <1>t DEF Ledger, TypeOK
<1>6. CASE Finish
  <2>1. /\ message' = [message EXCEPT ![mine] = "sent"] /\ pc = "finish" /\ mine \in Intents
        /\ UNCHANGED <<delivered, cut, mine>>
    BY <1>6, <1>m DEF Finish, Goto, history
  <2> QED
    BY <2>1, <1>t DEF Ledger, TypeOK
<1>7. CASE Raise \/ Crash
  <2>1. CutOff /\ UNCHANGED <<message, delivered>>
    BY <1>7 DEF Raise, Crash
  <2>2. CASE pc = "finish"
    <3>1. cut' = [cut EXCEPT ![mine] = @ + 1] /\ mine \in Intents /\ pc' # "finish"
      BY <2>1, <2>2, <1>m DEF CutOff
    <3>2. message[mine] # "sent"
      BY <2>2 DEF Known
    <3> QED
      BY <3>1, <3>2, <2>1, <2>2, <1>t DEF Ledger, TypeOK
  <2>3. CASE pc # "finish"
    BY <2>1, <2>3, <1>0 DEF CutOff
  <2> QED
    BY <2>2, <2>3
<1> QED
  BY <1>2, <1>3, <1>l, <1>4, <1>5, <1>6, <1>7 DEF Next, Sender

\* Every message is delivered once, and once more for each run that was cut off
\* between the send and the commit after it (run_send_outbound, _finish).
THEOREM DeliveredOnce == Spec => []DeliveredOnceUnlessCut
<1>1. Init => Ledger
  BY DEF Init, Ledger
<1>2. Typed /\ Ledger => DeliveredOnceUnlessCut
  BY DEF Typed, TypeOK, Ledger, DeliveredOnceUnlessCut
<1>3. (Typed /\ Known) /\ Ledger /\ [Next]_vars => Ledger'
  BY LedgerNext
<1> QED
  BY <1>1, <1>2, <1>3, AlwaysKnown, PTL DEF Spec

-----------------------------------------------------------------------------
(* Closed rows.                                                             *)

LEMMA ClosedStep ==
    ASSUME Typed, Known, [Next]_vars, NEW i \in Intents,
           outbound[i] \in Closed, outbound'[i] # outbound[i]
    PROVE  /\ outbound[i] = "cancelled" /\ i = mine
           /\ outbound'[i] = "sent" => i \in overtaken
<1>t. TypeOK
  BY DEF Typed
<1>m. pc \notin {"idle", "heard", "revoke"} => mine \in Intents
  BY DEF Typed, TypeOK, Holding
<1>c. outbound[i] \notin {"none", "planned"}
  BY DEF Closed
<1>1. CASE Plan
  BY <1>1, <1>c, <1>t DEF Plan, TypeOK
<1>2. CASE Cancel
  BY <1>2, <1>c DEF Cancel
<1>3. CASE Look
  BY <1>3, <1>c, <1>t DEF Look, Settle, TypeOK
<1>4. CASE Refuse \/ GenerateNothing
  <2>1. mine \in Intents /\ outbound[mine] \in {"planned", "cancelled"}
    BY <1>4, <1>m DEF Refuse, GenerateNothing, Known
  <2>2. \/ outbound' = [outbound EXCEPT ![mine] = "skipped"]
        \/ outbound' = [outbound EXCEPT ![mine] = "failed"]
    BY <1>4 DEF Refuse, GenerateNothing, Settle
  <2> QED
    BY <2>1, <2>2, <1>c, <1>t DEF TypeOK
<1>5. CASE Finish
  <2>1. /\ mine \in Intents
        /\ \/ outbound[mine] = "planned"
           \/ outbound[mine] = "cancelled" /\ mine \in overtaken
    BY <1>5, <1>m DEF Finish, Known
  <2>2. outbound' = [outbound EXCEPT ![mine] = "sent"]
    BY <1>5 DEF Finish, Settle
  <2> QED
    BY <2>1, <2>2, <1>c, <1>t DEF TypeOK
<1>6. CASE UNCHANGED outbound
  BY <1>6
<1> QED
  BY <1>1, <1>2, <1>3, <1>4, <1>5, <1>6 DEF Next, Handler, Sender, vars, Admit, Hear, Obey,
     Revoke, PanelQuiet, PanelCancel, QuietEnds, Claim, Pass, Reread, Store, Send, Count,
     Complete, Raise, Crash, RecoverStuck

\* A row that is sent, skipped, failed or cancelled is never planned again, and
\* only the job that was running it writes over a cancelled one.
THEOREM NeverReplanned == Spec => ClosedStaysClosed
<1>1. Typed /\ Known /\ [Next]_vars =>
        [\A i \in Intents : outbound[i] \in Closed /\ outbound'[i] # outbound[i]
            => /\ outbound[i] = "cancelled" /\ i = mine
               /\ outbound'[i] = "sent" => i \in overtaken]_vars
  BY ClosedStep
<1> QED
  BY <1>1, AlwaysKnown, PTL DEF Spec, ClosedStaysClosed

LEMMA SilentStep ==
    ASSUME Typed, Known, [Next]_vars, delivered' # delivered
    PROVE  /\ pc \in {"send", "resend"} /\ mine \in Intents
           /\ delivered' = [delivered EXCEPT ![mine] = @ + 1]
           /\ outbound[mine] = "planned" \/ mine \in overtaken
           /\ outbound' = outbound
<1>1. Send
  BY DEF Next, Handler, Sender, vars, Admit, Plan, Hear, Obey, Revoke, PanelQuiet,
     PanelCancel, QuietEnds, Claim, Look, Pass, Refuse, GenerateNothing, Reread, Store,
     Finish, Count, Complete, Raise, Crash, RecoverStuck, history
<1>2. pc \notin {"idle", "heard", "revoke"} => mine \in Intents
  BY DEF Typed, TypeOK, Holding
<1> QED
  BY <1>1, <1>2 DEF Send, Known

\* cancel_outbound revokes: a cancelled row reaches the user only if its job had
\* already read it for the last time.
THEOREM CancelledIsSilent == Spec => CancelledStaysSilent
<1>1. Typed /\ Known /\ [Next]_vars =>
        [\A i \in Intents : outbound[i] = "cancelled" /\ delivered'[i] # delivered[i]
            => i \in overtaken]_vars
  <2> SUFFICES ASSUME Typed, Known, [Next]_vars, NEW i \in Intents,
                      outbound[i] = "cancelled", delivered'[i] # delivered[i]
               PROVE  i \in overtaken
    OBVIOUS
  <2>1. /\ mine \in Intents /\ delivered' = [delivered EXCEPT ![mine] = @ + 1]
        /\ outbound[mine] = "planned" \/ mine \in overtaken
    BY SilentStep
  <2>2. i = mine
    BY <2>1 DEF Typed, TypeOK
  <2> QED
    BY <2>1, <2>2
<1> QED
  BY <1>1, AlwaysKnown, PTL DEF Spec, CancelledStaysSilent

-----------------------------------------------------------------------------
(* The back-off.                                                            *)

LEMMA AdmittedNext == Typed /\ Admitted /\ [Next]_vars => Admitted'
<1> SUFFICES ASSUME Typed, Admitted, [Next]_vars,
                    pc' \in {"generate", "store", "send"}
             PROVE  persona' /\ ignored' < MaxIgnored
  BY DEF Admitted
<1>m. pc \notin {"idle", "heard", "revoke"} => mine \in Intents
  BY DEF Typed, TypeOK, Holding
<1>1. CASE UNCHANGED <<pc, persona, ignored>>
  BY <1>1 DEF Admitted
<1>2. CASE Pass
  BY <1>2 DEF Pass, Gate, wishes
<1>3. CASE Reread \/ Store
  BY <1>3 DEF Reread, Store, Admitted, wishes
<1>4. CASE Look
  <2>1. mine \in Intents /\ message[mine] \in {"none", "stored", "sent"}
    BY <1>4, <1>m DEF Look, Typed, TypeOK
  <2>2. pc' \in {"return", "gate", "resend"}
    BY <1>4, <2>1 DEF Look, Goto
  <2> QED
    BY <2>2
<1> QED
  BY <1>1, <1>2, <1>3, <1>4 DEF Next, Handler, Sender, vars, Admit, Plan, Hear, Obey, Revoke,
     PanelQuiet, PanelCancel, QuietEnds, Claim, Refuse, GenerateNothing, Send, Finish,
     Count, Complete, Raise, Crash, CutOff, RecoverStuck, Goto, wishes

LEMMA AnsweredNext == Typed /\ Admitted /\ Answered /\ [Next]_vars => Answered'
<1> SUFFICES ASSUME Typed, Admitted, Answered, [Next]_vars PROVE Answered'
  OBVIOUS
<1>t. /\ unanswered \in Nat /\ uncounted \in Nat /\ ignored \in Nat /\ MaxIgnored \in Nat
  BY OutboundAssumption DEF Typed, TypeOK
<1>0. CASE /\ UNCHANGED <<unanswered, uncounted, ignored>>
           /\ pc \in {"finish", "count"} => pc' \in {"finish", "count"}
  BY <1>0, <1>t DEF Answered
<1>1. CASE Hear
  BY <1>1, <1>t DEF Hear, Answered
<1>2. CASE Send
  <2>1. pc \in {"send", "resend"} /\ pc' = "finish" /\ ignored' = ignored
        /\ unanswered' = unanswered + 1
    BY <1>2 DEF Send, Goto
  <2>2. CASE pc = "send"
    <3>1. uncounted' = uncounted /\ ignored < MaxIgnored
      BY <1>2, <2>2 DEF Send, Admitted
    <3> QED
      BY <2>1, <2>2, <3>1, <1>t DEF Answered
  <2>3. CASE pc = "resend"
    <3>1. uncounted' = uncounted + 1
      BY <1>2, <2>3 DEF Send
    <3> QED
      BY <2>1, <2>3, <3>1, <1>t DEF Answered
  <2> QED
    BY <2>1, <2>2, <2>3
<1>3. CASE Count
  <2>1. /\ pc = "count" /\ pc' = "return" /\ ignored' = ignored + 1
        /\ UNCHANGED <<unanswered, uncounted>>
    BY <1>3 DEF Count, Goto, history
  <2> QED
    BY <2>1, <1>t DEF Answered
<1>4. CASE Raise \/ Crash
  <2>1. /\ pc' = "idle" /\ UNCHANGED <<unanswered, ignored>>
        /\ uncounted' = IF pc \in {"finish", "count"} THEN uncounted + 1 ELSE uncounted
    BY <1>4 DEF Raise, Crash, CutOff
  <2> QED
    BY <2>1, <1>t DEF Answered
<1> QED
  BY <1>0, <1>1, <1>2, <1>3, <1>4 DEF Next, Handler, Sender, vars, Admit, Plan, Obey, Revoke,
     PanelQuiet, PanelCancel, QuietEnds, Claim, Look, Pass, Refuse, GenerateNothing, Reread,
     Store, Finish, Complete, RecoverStuck, Goto, history, Cancel

\* After MAX_IGNORED_IN_ROW unanswered messages come only texts that were stored
\* before, or messages whose counting was cut off.
THEOREM BackOff == Spec => []BackOffKept
<1>1. Init => Admitted /\ Answered
  BY OutboundAssumption DEF Init, Admitted, Answered
<1>2. Answered => BackOffKept
  BY DEF Answered, BackOffKept
<1>3. (Typed /\ Known) /\ (Admitted /\ Answered) /\ [Next]_vars => (Admitted /\ Answered)'
  BY AdmittedNext, AnsweredNext
<1> QED
  BY <1>1, <1>2, <1>3, AlwaysKnown, PTL DEF Spec

-----------------------------------------------------------------------------
(* The pause.                                                               *)

LEMMA HaltingNext == Typed /\ Known /\ Admitted /\ Halting /\ [Next]_vars => Halting'
<1> SUFFICES ASSUME Typed, Known, Admitted, Halting, [Next]_vars, ~persona',
                    NEW i \in Intents, outbound'[i] = "planned", message'[i] = "stored"
             PROVE  halted' \/ pc' = "revoke"
  BY DEF Halting
<1>t. TypeOK
  BY DEF Typed
<1>m. pc \notin {"idle", "heard", "revoke"} => mine \in Intents
  BY DEF Typed, TypeOK, Holding
<1>0. CASE /\ UNCHANGED <<persona, message, halted>>
           /\ pc # "revoke" \/ pc' = pc
           /\ outbound'[i] = "planned" => outbound[i] = "planned"
  BY <1>0 DEF Halting
<1>1. CASE Cancel
  BY <1>1 DEF Cancel
<1>2. CASE Plan
  <2>1. outbound[i] \in {"none", "planned"} /\ message[i] = "stored"
    BY <1>2, <1>t DEF Plan, TypeOK
  <2>2. outbound[i] = "planned"
    BY <2>1 DEF Known
  <2> QED
    BY <1>2, <2>1, <2>2 DEF Plan, Halting, wishes, history
<1>3. ASSUME NEW wish \in Wishes, Obey(wish) PROVE halted' \/ pc' = "revoke"
  <2>1. CASE pc' = "revoke"
    BY <2>1
  <2>2. CASE pc' # "revoke"
    <3>1. ~persona /\ pc = "heard" /\ UNCHANGED <<outbound, message, halted>>
      BY <1>3, <2>2 DEF Obey, Goto, history, Wishes
    <3> QED
      BY <3>1 DEF Halting
  <2> QED
    BY <2>1, <2>2
<1>4. CASE Look
  <2>1. outbound'[i] = "planned" => outbound[i] = "planned"
    BY <1>4, <1>m, <1>t DEF Look, Settle, TypeOK
  <2> QED
    BY <1>4, <2>1, <1>0 DEF Look, wishes, history
<1>5. CASE Refuse \/ GenerateNothing \/ Finish
  <2>1. outbound'[i] = "planned" => outbound[i] = "planned" /\ i # mine
    BY <1>5, <1>m, <1>t DEF Refuse, GenerateNothing, Finish, Settle, TypeOK
  <2>2. message'[i] = message[i]
    BY <1>5, <2>1, <1>m, <1>t DEF Refuse, GenerateNothing, Finish, TypeOK
  <2> QED
    BY <1>5, <2>1, <2>2 DEF Refuse, GenerateNothing, Finish, Halting, wishes, history
<1>6. CASE Store
  BY <1>6 DEF Store, Admitted, wishes
<1>7. CASE Raise \/ Crash
  BY <1>7 DEF Raise, Crash, Halting, wishes
<1> QED
  BY <1>0, <1>1, <1>2, <1>3, <1>4, <1>5, <1>6, <1>7 DEF Next, Handler, Sender, vars, Admit,
     Hear, Revoke, PanelQuiet, PanelCancel, QuietEnds, Claim, Pass, Reread, Send, Count,
     Complete, RecoverStuck, Goto, wishes, history

\* Nothing unsolicited while the persona is off, but a stored text whose pause was
\* cut off before its cancel, or that was cancelled under a run past its re-read.
THEOREM PauseIsSilence == Spec => PausedMeansSilent
<1>1. Init => Admitted /\ Halting
  BY DEF Init, Admitted, Halting
<1>2. (Typed /\ Known) /\ (Admitted /\ Halting) /\ [Next]_vars => (Admitted /\ Halting)'
  BY AdmittedNext, HaltingNext
<1>3. (Typed /\ Known) /\ (Admitted /\ Halting) /\ [Next]_vars =>
        [delivered' # delivered /\ ~persona
            => pc = "resend" /\ (halted \/ mine \in overtaken)]_vars
  <2> SUFFICES ASSUME Typed, Known, Admitted, Halting, [Next]_vars,
                      delivered' # delivered, ~persona
               PROVE  pc = "resend" /\ (halted \/ mine \in overtaken)
    OBVIOUS
  <2>1. /\ pc \in {"send", "resend"} /\ mine \in Intents
        /\ outbound[mine] = "planned" \/ mine \in overtaken
    BY SilentStep
  <2>2. pc = "resend" /\ message[mine] = "stored"
    BY <2>1 DEF Admitted, Known
  <2> QED
    BY <2>1, <2>2 DEF Halting
<1> QED
  BY <1>1, <1>2, <1>3, AlwaysKnown, PTL DEF Spec, PausedMeansSilent

-----------------------------------------------------------------------------
(* The day's budget.                                                        *)

LEMMA FreshIsFinite ==
    ASSUME Typed
    PROVE  /\ IsFiniteSet(Fresh) /\ Cardinality(Fresh) \in Nat
           /\ earlier \in Nat /\ MaxPerDay \in Nat
<1>1. IsFiniteSet(Fresh)
  BY OutboundAssumption, FS_Subset DEF Fresh
<1> QED
  BY <1>1, FS_CardinalityType, OutboundAssumption DEF Typed, TypeOK

\* A step that sends nothing new can only lower the count.
LEMMA NoMoreFresh ==
    ASSUME Typed, Typed', Budget, Fresh' \subseteq Fresh, earlier' = earlier,
           \/ pc' \in {"generate", "store", "send"}
           \/ pc' = "finish" /\ mine' \notin resent'
           => \/ pc \in {"generate", "store", "send"}
              \/ pc = "finish" /\ mine \notin resent
    PROVE  Budget'
<1>1. Cardinality(Fresh') <= Cardinality(Fresh)
  BY FreshIsFinite, FS_Subset
<1>2. Cardinality(Fresh') \in Nat /\ Cardinality(Fresh) \in Nat /\ earlier \in Nat
      /\ MaxPerDay \in Nat
  BY FreshIsFinite, FS_Subset, FS_CardinalityType
<1>3. earlier + Cardinality(Fresh') <= earlier + Cardinality(Fresh)
  BY <1>1, <1>2
<1>4. earlier' + Cardinality(Fresh') <= MaxPerDay
  BY <1>2, <1>3 DEF Budget
<1>5. ASSUME \/ pc' \in {"generate", "store", "send"}
             \/ pc' = "finish" /\ mine' \notin resent'
      PROVE  earlier' + Cardinality(Fresh') < MaxPerDay
  <2>1. earlier + Cardinality(Fresh) < MaxPerDay
    BY <1>5 DEF Budget
  <2> QED
    BY <2>1, <1>2, <1>3
<1> QED
  BY <1>4, <1>5 DEF Budget

LEMMA BudgetNext == Typed /\ Known /\ Budget /\ [Next]_vars => Budget'
<1> SUFFICES ASSUME Typed, Known, Budget, [Next]_vars PROVE Budget'
  OBVIOUS
<1>t. TypeOK /\ Typed'
  BY TypedNext DEF Typed
<1>m. pc \notin {"idle", "heard", "revoke"} => mine \in Intents
  BY DEF Typed, TypeOK, Holding
<1>e. earlier' = earlier
  BY DEF Next, Handler, Sender, vars, Admit, Plan, Hear, Obey, Revoke, PanelQuiet,
     PanelCancel, QuietEnds, Claim, Look, Pass, Refuse, GenerateNothing, Reread, Store, Send,
     Finish, Count, Complete, Raise, Crash, RecoverStuck, bounds
<1>1. ASSUME UNCHANGED <<outbound, resent>>,
             \/ UNCHANGED <<pc, mine>>
             \/ pc' \notin {"generate", "store", "send", "finish"}
             \/ pc = "generate" /\ pc' = "store"
             \/ pc = "store" /\ pc' = "send"
      PROVE Budget'
  BY <1>1, <1>t, <1>e, NoMoreFresh DEF Fresh
<1>2. ASSUME Cancel, UNCHANGED <<mine, resent>>, pc' = pc \/ pc' = "idle" PROVE Budget'
  <2>1. Fresh' \subseteq Fresh
    BY <1>2 DEF Cancel, Fresh
  <2> QED
    BY <2>1, <1>2, <1>t, <1>e, NoMoreFresh
<1>3. CASE Plan
  <2>1. Fresh' \subseteq Fresh /\ UNCHANGED <<pc, mine, resent>>
    BY <1>3, <1>t DEF Plan, Fresh, TypeOK, history
  <2> QED
    BY <2>1, <1>t, <1>e, NoMoreFresh
<1>4. CASE Look
  <2>1. mine \in Intents /\ message[mine] \in {"none", "stored", "sent"}
    BY <1>4, <1>m, <1>t DEF Look, TypeOK
  <2>2. pc' \in {"return", "gate", "resend"} /\ UNCHANGED <<outbound, resent>>
    BY <1>4, <2>1 DEF Look, Goto, history, Known
  <2> QED
    BY <2>2, <1>1
<1>5. CASE Pass
  <2>1. UNCHANGED <<outbound, resent>> /\ Fresh' = Fresh
    BY <1>5 DEF Pass, history, Fresh
  <2> DEFINE Sent == {i \in Intents : outbound[i] = "sent"}
  <2>2. IsFiniteSet(Sent) /\ Cardinality(Sent) \in Nat
    BY OutboundAssumption, FS_Subset, FS_CardinalityType
  <2>3. Cardinality(Fresh) <= Cardinality(Sent)
    BY <2>2, FS_Subset DEF Fresh
  <2>4. earlier + Cardinality(Sent) < MaxPerDay
    BY <1>5 DEF Pass, Gate, SentToday
  <2>5. earlier + Cardinality(Fresh) < MaxPerDay
    BY <2>2, <2>3, <2>4, FreshIsFinite
  <2> QED
    BY <2>1, <2>5, <1>e, FreshIsFinite DEF Budget
<1>6. CASE Refuse \/ GenerateNothing
  <2>1. Fresh' \subseteq Fresh /\ pc' = "return" /\ resent' = resent
    BY <1>6, <1>m, <1>t DEF Refuse, GenerateNothing, Settle, Goto, Fresh, TypeOK, history
  <2> QED
    BY <2>1, <1>t, <1>e, NoMoreFresh
<1>7. CASE Send
  <2>1. /\ pc \in {"send", "resend"} /\ pc' = "finish" /\ mine' = mine /\ mine \in Intents
        /\ outbound' = outbound
    BY <1>7, <1>m DEF Send, Goto
  <2>2. \/ pc = "send" /\ resent' = resent
        \/ pc = "resend" /\ resent' = resent \union {mine}
    BY <1>7 DEF Send
  <2>3. Fresh' \subseteq Fresh
    BY <2>1, <2>2 DEF Fresh
  <2> QED
    BY <2>1, <2>2, <2>3, <1>t, <1>e, NoMoreFresh
<1>8. CASE Finish
  <2>1. /\ pc = "finish" /\ pc' = "count" /\ mine \in Intents /\ resent' = resent
        /\ outbound' = [outbound EXCEPT ![mine] = "sent"]
    BY <1>8, <1>m DEF Finish, Settle, Goto, history
  <2>2. CASE mine \in resent
    <3>1. Fresh' \subseteq Fresh
      BY <2>1, <2>2, <1>t DEF Fresh, TypeOK
    <3> QED
      BY <3>1, <2>1, <1>t, <1>e, NoMoreFresh
  <2>3. CASE mine \notin resent
    <3>1. Fresh' = Fresh \union {mine}
      BY <2>1, <2>3, <1>t DEF Fresh, TypeOK
    <3>2. Cardinality(Fresh') <= Cardinality(Fresh) + 1
      BY <3>1, FreshIsFinite, FS_AddElement
    <3>3. earlier + Cardinality(Fresh) < MaxPerDay
      BY <2>1, <2>3 DEF Budget
    <3>4. Cardinality(Fresh') \in Nat
      BY <3>1, FreshIsFinite, FS_AddElement
    <3>5. earlier' + Cardinality(Fresh') <= MaxPerDay
      BY <3>2, <3>3, <3>4, <1>e, FreshIsFinite
    <3> QED
      BY <3>5, <2>1 DEF Budget
  <2> QED
    BY <2>2, <2>3
<1>9. CASE Hear \/ (\E wish \in Wishes : Obey(wish)) \/ (\E i \in Intents : Claim(i))
           \/ Reread \/ Store \/ Count \/ Complete \/ Raise \/ Crash
  BY <1>9, <1>1 DEF Hear, Obey, Claim, Reread, Store, Count, Complete, Raise, Crash, CutOff,
     Goto, history
<1>10. CASE \/ \E i \in Intents : Admit(i) \/ RecoverStuck(i)
            \/ PanelQuiet \/ QuietEnds \/ UNCHANGED vars
  BY <1>10, <1>1 DEF Admit, RecoverStuck, PanelQuiet, QuietEnds, vars, history
<1>11. CASE Revoke \/ PanelCancel
  BY <1>11, <1>2 DEF Revoke, PanelCancel, Goto
<1> QED
  BY <1>3, <1>4, <1>5, <1>6, <1>7, <1>8, <1>9, <1>10, <1>11 DEF Next, Handler, Sender

LEMMA BudgetInit == Init => Budget
<1> SUFFICES ASSUME Init PROVE Budget
  OBVIOUS
<1>1. Fresh = {}
  BY DEF Init, Fresh
<1>2. Cardinality(Fresh) = 0
  BY <1>1, FS_EmptySet
<1>3. earlier \in Nat /\ earlier <= MaxPerDay /\ MaxPerDay \in Nat
  BY OutboundAssumption DEF Init
<1> QED
  BY <1>2, <1>3 DEF Init, Budget

\* The day's budget over all kinds, which any number of planned rows may be waiting
\* for, is exceeded only by stored texts that were sent again.
THEOREM DailyBudget == Spec => []DailyBudgetKept
<1>1. ASSUME Typed, Budget PROVE DailyBudgetKept
  <2> DEFINE Sent == {i \in Intents : outbound[i] = "sent"}
  <2>1. IsFiniteSet(resent) /\ Cardinality(resent) \in Nat
    BY <1>1, OutboundAssumption, FS_Subset, FS_CardinalityType DEF Typed, TypeOK
  <2>2. IsFiniteSet(Sent) /\ Cardinality(Sent) \in Nat
    BY OutboundAssumption, FS_Subset, FS_CardinalityType
  <2>3. Sent \subseteq Fresh \union resent
    BY DEF Fresh
  <2>4. /\ IsFiniteSet(Fresh \union resent)
        /\ Cardinality(Fresh \union resent)
             = Cardinality(Fresh) + Cardinality(resent) - Cardinality(Fresh \intersect resent)
    BY <1>1, <2>1, FreshIsFinite, FS_Union
  <2>5. Fresh \intersect resent = {}
    BY DEF Fresh
  <2>6. Cardinality(Fresh \intersect resent) = 0
    BY <2>5, FS_EmptySet
  <2>7. Cardinality(Sent) <= Cardinality(Fresh \union resent)
    BY <2>3, <2>4, FS_Subset
  <2>8. earlier + Cardinality(Sent) <= MaxPerDay + Cardinality(resent)
    BY <1>1, <2>1, <2>2, <2>4, <2>6, <2>7, FreshIsFinite DEF Budget
  <2> QED
    BY <2>8 DEF DailyBudgetKept, SentToday
<1>2. (Typed /\ Known) /\ Budget /\ [Next]_vars => Budget'
  BY BudgetNext
<1>3. Typed /\ Budget => DailyBudgetKept
  BY <1>1
<1> QED
  BY <1>2, <1>3, BudgetInit, AlwaysKnown, PTL DEF Spec
=============================================================================
