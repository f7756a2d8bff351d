-------------------------- MODULE WorkQueueProofs ---------------------------
(***************************************************************************)
(* Theorems about WorkQueue, for every number of processes, updates and   *)
(* jobs, and every bound on crashes, faults, deferrals and arrivals.       *)
(*                                                                         *)
(* The invariants build on each other: types and who holds what (Holding), *)
(* then the claim count (Budget), then exclusion (Guarded).                *)
(***************************************************************************)
EXTENDS WorkQueue, QueueOpsProofs, FiniteSetTheorems, TLAPS

\* A process holds a row exactly while it runs its handler or has the outcome
\* still to record.
Holding ==
    \A w \in Workers : IF pc[w] \in {"run", "ran"} THEN mine[w] \in Rows
                                                   ELSE mine[w] = NoRow

Typed == TypeOK /\ Holding

\* A pending row has a claim left, counting one for each recovery, and nothing
\* is left of a wiped one.
Budget ==
    \A r \in Rows :
        /\ rows[r].attempts <= MaxAttempts + recoveries[r]
        /\ rows[r].status = "pending" => rows[r].attempts < MaxAttempts + recoveries[r]
        /\ rows[r].status = "gone" => rows[r].attempts = 0

\* A row somebody holds can be claimed by another only once it is reopened.
Guarded ==
    \A w \in Workers :
        mine[w] # NoRow /\ mine[w] \notin reopened
            => rows[mine[w]].status \notin {"absent", "pending"}

-----------------------------------------------------------------------------
(* Types.                                                                   *)

LEMMA TypedInit == Init => Typed
<1> SUFFICES ASSUME Init PROVE Typed
  OBVIOUS
<1>1. AbsentRow \in Row
  BY QueueAssumption DEF AbsentRow, Row, Statuses
<1>2. TypeOK
  BY <1>1 DEF Init, TypeOK, PCs, Outcomes
<1>3. Holding
  BY DEF Init, Holding
<1> QED
  BY <1>2, <1>3 DEF Typed

LEMMA TypedNext == Typed /\ [Next]_vars => Typed'
<1> SUFFICES ASSUME Typed, [Next]_vars PROVE Typed'
  OBVIOUS
<1> USE DEF Typed
<1>r. \A r \in Rows :
         /\ rows[r] \in Row /\ AbsentRow \in Row
         /\ Inserted(rows[r]) \in Row /\ Claimed(rows[r]) \in Row
         /\ Completed(rows[r]) \in Row /\ Failed(rows[r]) \in Row
         /\ Deferred(rows[r]) \in Row /\ Touched(rows[r]) \in Row
         /\ Recovered(rows[r]) \in Row /\ Wiped(rows[r]) \in Row
  BY RowsStayRows DEF TypeOK
<1>s. Updates \subseteq Rows /\ Jobs \subseteq Rows /\ NoRow \notin Rows
  BY ConstantsAssumption DEF Rows
<1>1. ASSUME NEW u \in Updates, Enqueue(u) PROVE Typed'
  BY <1>1, <1>r, <1>s DEF Enqueue, HandedOutAgain, TypeOK, Holding, loop, bounds
<1>2. ASSUME NEW j \in Jobs, NEW dueNow \in BOOLEAN, EnqueueJob(j, dueNow) PROVE Typed'
  BY <1>2, <1>r, <1>s DEF EnqueueJob, HandedOutAgain, TypeOK, Holding, loop, bounds, history, past
<1>3. ASSUME NEW j \in Jobs, BecomesDue(j) PROVE Typed'
  BY <1>3 DEF BecomesDue, TypeOK, Holding, loop, bounds, history, past
<1>4. ASSUME NEW r \in Rows, LeaseAges(r) PROVE Typed'
  <2>1. [rows[r] EXCEPT !.lease = @ + 1] \in Row
    BY <1>4, <1>r, QueueAssumption DEF LeaseAges, Row
  <2>2. rows' \in [Rows -> Row]
    BY <1>4, <1>r, <2>1 DEF LeaseAges, TypeOK
  <2> QED
    BY <1>4, <2>2 DEF LeaseAges, TypeOK, Holding, loop, bounds, history, past
<1>5. ASSUME NEW w \in Workers, NEW u \in Updates, ClaimUpdate(w, u) PROVE Typed'
  BY <1>5, <1>r, <1>s DEF ClaimUpdate, Goto, TypeOK, Holding, bounds, PCs, Outcomes
<1>6. ASSUME NEW w \in Workers, NoUpdate(w) PROVE Typed'
  BY <1>6, <1>s DEF NoUpdate, Goto, TypeOK, Holding, bounds, history, past, PCs, Outcomes
<1>7. ASSUME NEW w \in Workers, NEW j \in Jobs, ClaimJob(w, j) PROVE Typed'
  BY <1>7, <1>r, <1>s DEF ClaimJob, Goto, TypeOK, Holding, bounds, PCs, Outcomes
<1>8. ASSUME NEW w \in Workers, NoJob(w) PROVE Typed'
  BY <1>8, <1>s DEF NoJob, Goto, TypeOK, Holding, bounds, history, past, PCs, Outcomes
<1>9. ASSUME NEW w \in Workers, NEW how \in {"ok", "raise", "defer"}, Handle(w, how)
      PROVE Typed'
  <2>1. mine[w] \in Rows
    BY <1>9 DEF Handle, Holding
  <2>2. rows' \in [Rows -> Row]
    BY <1>9, <1>r DEF Handle, TypeOK
  <2> QED
    BY <1>9, <2>1, <2>2, <1>s DEF Handle, Goto, TypeOK, Holding, bounds, PCs, Outcomes
<1>10. ASSUME NEW w \in Workers, Touch(w) PROVE Typed'
  BY <1>10, <1>r DEF Touch, TypeOK, Holding, loop, bounds, history, past
<1>11. ASSUME NEW w \in Workers, Complete(w) PROVE Typed'
  BY <1>11, <1>r, <1>s DEF Complete, Goto, TypeOK, Holding, bounds, history, past, PCs, Outcomes
<1>12. ASSUME NEW w \in Workers, Fail(w) PROVE Typed'
  BY <1>12, <1>r, <1>s DEF Fail, Goto, TypeOK, Holding, bounds, history, past, PCs, Outcomes
<1>13. ASSUME NEW w \in Workers, FailOnWiped(w) PROVE Typed'
  BY <1>13, <1>s DEF FailOnWiped, Goto, TypeOK, Holding, bounds, history, past, PCs, Outcomes
<1>14. ASSUME NEW w \in Workers, Defer(w) PROVE Typed'
  BY <1>14, <1>r, <1>s DEF Defer, Goto, TypeOK, Holding, history, past, PCs, Outcomes
<1>15. ASSUME NEW w \in Workers, SendNotice(w) PROVE Typed'
  BY <1>15, <1>s DEF SendNotice, Goto, TypeOK, Holding, bounds, history, past, PCs, Outcomes
<1>16. ASSUME NEW w \in Workers, ClaimLoopDies(w) PROVE Typed'
  BY <1>16, <1>s DEF ClaimLoopDies, Goto, TypeOK, Holding, PCs, Outcomes
<1>17. ASSUME NEW w \in Workers, SweeperDies(w) PROVE Typed'
  BY <1>17 DEF SweeperDies, TypeOK, Holding, loop, history, past
<1>18. ASSUME NEW w \in Workers, NEW table \in SUBSET Rows, Recover(w, table)
       PROVE Typed'
  BY <1>18, <1>r DEF Recover, TypeOK, Holding, loop, bounds
<1>19. ASSUME NEW w \in Workers, Crash(w) PROVE Typed'
  BY <1>19, <1>s DEF Crash, Goto, TypeOK, Holding, PCs, Outcomes
<1>20. ASSUME NEW w \in Workers, Restart(w) PROVE Typed'
  BY <1>20, <1>s DEF Restart, Goto, TypeOK, Holding, bounds, history, past, PCs, Outcomes
<1>21. CASE UNCHANGED vars
  <2>1. /\ UNCHANGED <<rows, stamp, arrivals, due, pc, mine, outcome, since, sweeper>>
        /\ UNCHANGED <<crashes, faults, defers, started, ran, lost, ahead, recoveries>>
        /\ UNCHANGED <<reopened, slipped>>
    BY <1>21 DEF vars
  <2> QED
    BY <2>1 DEF TypeOK, Holding
<1> QED
  BY <1>1, <1>2, <1>3, <1>4, <1>5, <1>6, <1>7, <1>8, <1>9, <1>10, <1>11, <1>12,
     <1>13, <1>14, <1>15, <1>16, <1>17, <1>18, <1>19, <1>20, <1>21, <1>s
     DEF Next, Step, RecoverStuck, RecoverStuckJobs

\* Every reachable state of the queues is well formed, and a process holds a row
\* exactly while it runs it or has its outcome to record.
THEOREM TypeCorrect == Spec => []TypeOK
<1>1. Spec => []Typed
  BY TypedInit, TypedNext, PTL DEF Spec
<1>2. Typed => TypeOK
  BY DEF Typed
<1> QED
  BY <1>1, <1>2, PTL

-----------------------------------------------------------------------------
(* The retry ceiling.                                                       *)

LEMMA DeferredBudget ==
    ASSUME NEW row \in Row
    PROVE  \/ Deferred(row) = row /\ row.status = "gone"
           \/ Deferred(row).attempts = 0
  BY DEF Deferred

LEMMA BudgetNext == Typed /\ Budget /\ [Next]_vars => Budget'
<1> SUFFICES ASSUME Typed, Budget, [Next]_vars PROVE Budget'
  OBVIOUS
<1>t. /\ rows \in [Rows -> Row] /\ recoveries \in [Rows -> Nat]
      /\ MaxAttempts \in Nat \ {0}
      /\ \A r \in Rows : rows[r].attempts \in Nat /\ recoveries[r] \in Nat
  BY QueueAssumption DEF Typed, TypeOK, Row
<1>s. Updates \subseteq Rows /\ Jobs \subseteq Rows
  BY DEF Rows
<1>1. ASSUME NEW u \in Updates, Enqueue(u) PROVE Budget'
  BY <1>1, <1>t, <1>s DEF Enqueue, HandedOutAgain, Budget, Inserted, AbsentRow
<1>2. ASSUME NEW j \in Jobs, NEW dueNow \in BOOLEAN, EnqueueJob(j, dueNow) PROVE Budget'
  BY <1>2, <1>t, <1>s DEF EnqueueJob, HandedOutAgain, Budget, Inserted, AbsentRow
<1>3. ASSUME NEW r \in Rows, LeaseAges(r) PROVE Budget'
  BY <1>3, <1>t DEF LeaseAges, Budget, history, past
<1>4. ASSUME NEW w \in Workers, NEW u \in Updates, ClaimUpdate(w, u) PROVE Budget'
  BY <1>4, <1>t, <1>s DEF ClaimUpdate, Oldest, Pending, Budget, Claimed
<1>5. ASSUME NEW w \in Workers, NEW j \in Jobs, ClaimJob(w, j) PROVE Budget'
  BY <1>5, <1>t, <1>s DEF ClaimJob, Claimable, Pending, Budget, Claimed
<1>6. ASSUME NEW w \in Workers, NEW how \in {"ok", "raise", "defer"}, Handle(w, how)
      PROVE Budget'
  <2>1. \A r \in Rows : \/ rows'[r] = rows[r]
                        \/ rows'[r].attempts = 0 /\ rows'[r].status = "gone"
    BY <1>6, <1>t DEF Handle, Wiped, AbsentRow
  <2>2. recoveries' = recoveries
    BY <1>6 DEF Handle
  <2> QED
    BY <2>1, <2>2, <1>t DEF Budget, Row
<1>7. ASSUME NEW w \in Workers, Touch(w) PROVE Budget'
  BY <1>7, <1>t DEF Touch, Budget, Touched, history, past, Row
<1>8. ASSUME NEW w \in Workers, Complete(w) PROVE Budget'
  BY <1>8, <1>t DEF Complete, Budget, Completed, history, past, Row
<1>9. ASSUME NEW w \in Workers, Fail(w) PROVE Budget'
  <2>1. \A r \in Rows :
           /\ rows'[r].attempts = rows[r].attempts
           /\ rows'[r].status = "pending"
                => rows[r].status = "pending" \/ rows[r].attempts < MaxAttempts
           /\ rows'[r].status = "gone" => rows[r].status = "gone"
    BY <1>9, <1>t DEF Fail, Failed, Row
  <2>2. recoveries' = recoveries
    BY <1>9 DEF Fail, history, past
  <2> QED
    BY <2>1, <2>2, <1>t DEF Budget
<1>10. ASSUME NEW w \in Workers, Defer(w) PROVE Budget'
  <2>1. /\ recoveries' = [recoveries EXCEPT ![mine[w]] = 0]
        /\ rows' = [rows EXCEPT ![mine[w]] = Deferred(@)]
    BY <1>10 DEF Defer
  <2>2. \A r \in Rows : r # mine[w] =>
                 rows'[r] = rows[r] /\ recoveries'[r] = recoveries[r]
    BY <2>1, <1>t
  <2>3. mine[w] \in Rows => /\ rows'[mine[w]] = Deferred(rows[mine[w]])
                            /\ recoveries'[mine[w]] = 0
                            /\ \/ rows'[mine[w]].attempts = 0
                               \/ /\ rows'[mine[w]] = rows[mine[w]]
                                  /\ rows[mine[w]].status = "gone"
    BY <2>1, <1>t, DeferredBudget
  <2> SUFFICES ASSUME NEW r \in Rows
               PROVE  /\ rows'[r].attempts <= MaxAttempts + recoveries'[r]
                      /\ rows'[r].status = "pending"
                           => rows'[r].attempts < MaxAttempts + recoveries'[r]
                      /\ rows'[r].status = "gone" => rows'[r].attempts = 0
    BY DEF Budget
  <2>4. CASE r # mine[w]
    BY <2>2, <2>4 DEF Budget
  <2>5. CASE r = mine[w] /\ rows'[r].attempts = 0 /\ recoveries'[r] = 0
    BY <2>5, <1>t
  <2>6. CASE r = mine[w] /\ rows'[r] = rows[r] /\ rows[r].status = "gone"
    BY <2>6, <2>3, <1>t DEF Budget
  <2> QED
    BY <2>3, <2>4, <2>5, <2>6
<1>11. ASSUME NEW w \in Workers, NEW table \in SUBSET Rows, Recover(w, table)
       PROVE Budget'
  <2>1. \A r \in Rows :
           /\ rows'[r].attempts = rows[r].attempts
           /\ \/ rows'[r].status = rows[r].status /\ recoveries'[r] = recoveries[r]
              \/ recoveries'[r] = recoveries[r] + 1
           /\ rows'[r].status = "gone" => rows[r].status = "gone"
    BY <1>11, <1>t DEF Recover, Recovered, Row
  <2> QED
    BY <2>1, <1>t DEF Budget
<1>12. ASSUME UNCHANGED <<rows, recoveries>> PROVE Budget'
  BY <1>12 DEF Budget
<1> QED
  BY <1>1, <1>2, <1>3, <1>4, <1>5, <1>6, <1>7, <1>8, <1>9, <1>10, <1>11, <1>12, <1>s
     DEF Next, Step, RecoverStuck, RecoverStuckJobs, BecomesDue, NoUpdate, NoJob,
         FailOnWiped, SendNotice, ClaimLoopDies, SweeperDies, Crash, Restart,
         history, past, vars

\* fail() and the recovery sweep together: a row is claimed at most MAX_ATTEMPTS
\* times plus once for every time the sweep brought it back.
THEOREM RetriesAreBounded == Spec => []AttemptsBounded
<1>1. Init => Budget
  BY QueueAssumption DEF Init, Budget, AbsentRow
<1>2. Spec => [](Typed /\ Budget)
  BY <1>1, TypedInit, TypedNext, BudgetNext, PTL DEF Spec
<1>3. Budget => AttemptsBounded
  BY DEF Budget, AttemptsBounded
<1> QED
  BY <1>2, <1>3, PTL

-----------------------------------------------------------------------------
(* Exclusion between overlapping processes.                                 *)

Exclusive == SharedOnlyIfReopened /\ Guarded

LEMMA ExclusiveNext == Typed /\ Exclusive /\ [Next]_vars => Exclusive'
<1> SUFFICES ASSUME Typed, Exclusive, [Next]_vars PROVE Exclusive'
  OBVIOUS
<1> USE DEF Exclusive, SharedOnlyIfReopened, Guarded
<1>t. /\ rows \in [Rows -> Row] /\ mine \in [Workers -> Rows \union {NoRow}]
      /\ pc \in [Workers -> PCs] /\ Holding /\ reopened \subseteq Rows
      /\ NoRow \notin Rows /\ Updates \subseteq Rows /\ Jobs \subseteq Rows
  BY ConstantsAssumption DEF Typed, TypeOK, Rows
<1>1. ASSUME NEW u \in Updates, Enqueue(u) PROVE Exclusive'
  <2>1. mine' = mine /\ reopened \subseteq reopened'
    BY <1>1 DEF Enqueue, HandedOutAgain, loop
  <2>2. \A r \in Rows : r \notin reopened' /\ r \in Running
            => rows'[r] = rows[r] \/ rows[r].status = "absent"
    BY <1>1, <1>t DEF Enqueue, HandedOutAgain, Inserted, Missing
  <2> QED
    BY <2>1, <2>2, <1>t DEF Running
<1>2. ASSUME NEW j \in Jobs, NEW dueNow \in BOOLEAN, EnqueueJob(j, dueNow)
      PROVE Exclusive'
  <2>1. mine' = mine /\ reopened \subseteq reopened'
    BY <1>2 DEF EnqueueJob, HandedOutAgain, loop
  <2>2. \A r \in Rows : r \notin reopened' /\ r \in Running
            => rows'[r] = rows[r] \/ rows[r].status = "absent"
    BY <1>2, <1>t DEF EnqueueJob, HandedOutAgain, Inserted, Missing
  <2> QED
    BY <2>1, <2>2, <1>t DEF Running
<1>3. ASSUME NEW r \in Rows, LeaseAges(r) PROVE Exclusive'
  BY <1>3, <1>t DEF LeaseAges, loop, history, past, Row
<1>4. ASSUME NEW w \in Workers, NEW r \in Rows, Pending(r), pc[w] \notin {"run", "ran"},
             rows' = [rows EXCEPT ![r] = Claimed(@)], Goto(w, "run", r, "none"),
             reopened' = reopened
      PROVE Exclusive'
  <2>1. mine[w] = NoRow
    BY <1>4, <1>t DEF Holding
  <2>2. mine' = [mine EXCEPT ![w] = r]
    BY <1>4 DEF Goto
  <2>3. \A x \in Workers : mine[x] = r => r \in reopened
    BY <1>4, <1>t DEF Pending
  <2>4. /\ rows'[r].status = "processing"
        /\ \A q \in Rows : q # r => rows'[q] = rows[q]
    BY <1>4, <1>t DEF Claimed
  <2> QED
    BY <1>4, <1>t, <2>1, <2>2, <2>3, <2>4
<1>5. ASSUME NEW w \in Workers, NEW u \in Updates, ClaimUpdate(w, u) PROVE Exclusive'
  BY <1>4, <1>5, <1>t DEF ClaimUpdate, Oldest
<1>6. ASSUME NEW w \in Workers, NEW j \in Jobs, ClaimJob(w, j) PROVE Exclusive'
  BY <1>4, <1>6, <1>t DEF ClaimJob, Claimable
<1>7. ASSUME NEW w \in Workers, NEW how \in {"ok", "raise", "defer"}, Handle(w, how)
      PROVE Exclusive'
  <2>1. mine' = mine /\ reopened' = reopened
    BY <1>7, <1>t DEF Handle, Goto
  <2>2. \A r \in Rows : rows'[r] = rows[r] \/ rows'[r].status = "gone"
    BY <1>7, <1>t DEF Handle, Wiped, AbsentRow, Row
  <2> QED
    BY <2>1, <2>2, <1>t
<1>8. ASSUME NEW w \in Workers, Touch(w) PROVE Exclusive'
  <2>1. \A r \in Rows : rows'[r].status = rows[r].status
    BY <1>8, <1>t DEF Touch, Touched, Row
  <2> QED
    BY <1>8, <2>1, <1>t DEF Touch, loop, history, past
<1>9. ASSUME NEW w \in Workers, mine' = [mine EXCEPT ![w] = NoRow],
             reopened' = reopened,
             \A r \in Rows : r # mine[w] => rows'[r] = rows[r]
      PROVE Exclusive'
  BY <1>9, <1>t
<1>10. ASSUME NEW w \in Workers, Complete(w) \/ Fail(w) \/ Defer(w) PROVE Exclusive'
  <2>1. mine' = [mine EXCEPT ![w] = NoRow] /\ reopened' = reopened
    BY <1>10 DEF Complete, Fail, Defer, Goto, history, past
  <2>2. \A r \in Rows : r # mine[w] => rows'[r] = rows[r]
    BY <1>10, <1>t DEF Complete, Fail, Defer
  <2> QED
    BY <2>1, <2>2, <1>9
<1>11. ASSUME NEW w \in Workers,
              \/ NoUpdate(w) \/ NoJob(w) \/ FailOnWiped(w) \/ SendNotice(w)
              \/ ClaimLoopDies(w) \/ Crash(w) \/ Restart(w)
       PROVE Exclusive'
  <2>1. mine' = [mine EXCEPT ![w] = NoRow] /\ reopened' = reopened /\ rows' = rows
    BY <1>11 DEF NoUpdate, NoJob, FailOnWiped, SendNotice, ClaimLoopDies, Crash,
                 Restart, Goto, history, past
  <2> QED
    BY <2>1, <1>9
<1>12. ASSUME NEW w \in Workers, NEW table \in SUBSET Rows, Recover(w, table)
       PROVE Exclusive'
  <2>1. mine' = mine /\ reopened \subseteq reopened'
    BY <1>12 DEF Recover, loop
  <2>2. \A r \in Rows : r \in Running /\ r \notin reopened' => rows'[r] = rows[r]
    BY <1>12, <1>t DEF Recover, Recovered
  <2> QED
    BY <2>1, <2>2, <1>t DEF Running
<1>13. ASSUME UNCHANGED <<rows, mine, reopened>> PROVE Exclusive'
  BY <1>13
<1> QED
  BY <1>1, <1>2, <1>3, <1>5, <1>6, <1>7, <1>8, <1>10, <1>11, <1>12, <1>13, <1>t
     DEF Next, Step, RecoverStuck, RecoverStuckJobs, BecomesDue, SweeperDies,
         loop, history, past, vars

\* FOR UPDATE SKIP LOCKED and the status flip: two processes hold the same row
\* only after it was made pending again under the first one's hands.
THEOREM Exclusion == Spec => []SharedOnlyIfReopened
<1>1. Init => Exclusive
  BY DEF Init, Exclusive, SharedOnlyIfReopened, Guarded
<1>2. Spec => [](Typed /\ Exclusive)
  BY <1>1, TypedInit, TypedNext, ExclusiveNext, PTL DEF Spec
<1>3. Exclusive => SharedOnlyIfReopened
  BY DEF Exclusive
<1> QED
  BY <1>2, <1>3, PTL

-----------------------------------------------------------------------------
(* One replica: finality and the order of the conversation.                 *)

\* What a process holds, nobody has settled under its hands.
Unsettled ==
    \A w \in Workers :
        mine[w] # NoRow => rows[mine[w]].status \notin {"done", "failed"}

LEMMA UnsettledNext ==
    ASSUME OneReplica
    PROVE  Typed /\ Unsettled /\ [Next]_vars => Unsettled'
<1> SUFFICES ASSUME Typed, Unsettled, [Next]_vars PROVE Unsettled'
  OBVIOUS
<1> USE DEF Unsettled
<1>t. /\ rows \in [Rows -> Row] /\ mine \in [Workers -> Rows \union {NoRow}]
      /\ pc \in [Workers -> PCs] /\ NoRow \notin Rows
      /\ Updates \subseteq Rows /\ Jobs \subseteq Rows
  BY ConstantsAssumption DEF Typed, TypeOK, Rows
<1>1. ASSUME mine' = mine,
             \A r \in Rows : rows'[r].status \in {"done", "failed"}
                                => rows'[r].status = rows[r].status
      PROVE Unsettled'
  BY <1>1, <1>t
<1>2. ASSUME NEW w \in Workers, NEW r \in Rows, mine' = [mine EXCEPT ![w] = r],
             rows'[r].status = "processing"
      PROVE Unsettled'
  BY <1>2, <1>t, OneReplica DEF OneReplica
<1>3. ASSUME NEW w \in Workers, mine' = [mine EXCEPT ![w] = NoRow] PROVE Unsettled'
  BY <1>3, <1>t, OneReplica DEF OneReplica
<1>4. ASSUME \/ \E u \in Updates : Enqueue(u)
             \/ \E j \in Jobs : EnqueueJob(j, TRUE) \/ EnqueueJob(j, FALSE)
             \/ \E r \in Rows : LeaseAges(r)
             \/ \E w \in Workers : Touch(w) \/ RecoverStuck(w) \/ RecoverStuckJobs(w)
             \/ \E w \in Workers, how \in {"ok", "raise", "defer"} : Handle(w, how)
      PROVE Unsettled'
  <2>1. mine' = mine
    BY <1>4, <1>t DEF Enqueue, EnqueueJob, LeaseAges, Touch, RecoverStuck,
       RecoverStuckJobs, Recover, Handle, Goto, loop
  <2>2. \A r \in Rows : rows'[r].status \in {"done", "failed"}
                           => rows'[r].status = rows[r].status
    <3>1. CASE \/ \E u \in Updates : Enqueue(u)
               \/ \E j \in Jobs : EnqueueJob(j, TRUE) \/ EnqueueJob(j, FALSE)
      BY <3>1, <1>t DEF Enqueue, EnqueueJob, Inserted, AbsentRow
    <3>2. CASE \/ \E r \in Rows : LeaseAges(r)
               \/ \E w \in Workers : Touch(w)
      <4>1. CASE \E r \in Rows : LeaseAges(r)
        <5>1. PICK q \in Rows : LeaseAges(q)
          BY <4>1
        <5>2. rows' = [rows EXCEPT ![q].lease = @ + 1]
          BY <5>1 DEF LeaseAges
        <5>3. \A r \in Rows : rows'[r].status = rows[r].status
          BY <5>2, <1>t DEF Row
        <5> QED
          BY <5>3
      <4>2. CASE \E w \in Workers : Touch(w)
        <5>1. PICK w \in Workers : Touch(w)
          BY <4>2
        <5>2. rows' = [rows EXCEPT ![mine[w]] = Touched(@)]
          BY <5>1 DEF Touch
        <5>3. \A r \in Rows : Touched(rows[r]).status = rows[r].status
          BY <1>t DEF Touched, Row
        <5> QED
          BY <5>2, <5>3, <1>t
      <4> QED
        BY <3>2, <4>1, <4>2
    <3>3. CASE \E w \in Workers : RecoverStuck(w) \/ RecoverStuckJobs(w)
      <4>1. PICK w \in Workers, table \in {Updates, Jobs} : Recover(w, table)
        BY <3>3 DEF RecoverStuck, RecoverStuckJobs
      <4>2. \A r \in Rows : rows'[r] = rows[r] \/ rows'[r] = Recovered(rows[r])
        BY <4>1 DEF Recover
      <4>3. \A r \in Rows : \/ Recovered(rows[r]) = rows[r]
                            \/ Recovered(rows[r]).status = "pending"
        BY <1>t DEF Recovered, Row
      <4> QED
        BY <4>2, <4>3
    <3>4. CASE \E w \in Workers, how \in {"ok", "raise", "defer"} : Handle(w, how)
      BY <3>4, <1>t DEF Handle, Wiped, AbsentRow, Row
    <3> QED
      BY <1>4, <3>1, <3>2, <3>3, <3>4
  <2> QED
    BY <1>1, <2>1, <2>2
<1>5. ASSUME NEW w \in Workers,
             \/ \E u \in Updates : ClaimUpdate(w, u)
             \/ \E j \in Jobs : ClaimJob(w, j)
      PROVE Unsettled'
  BY <1>2, <1>5, <1>t DEF ClaimUpdate, ClaimJob, Goto, Claimed
<1>6. ASSUME NEW w \in Workers,
             \/ NoUpdate(w) \/ NoJob(w) \/ Complete(w) \/ Fail(w) \/ FailOnWiped(w)
             \/ Defer(w) \/ SendNotice(w) \/ ClaimLoopDies(w) \/ Crash(w) \/ Restart(w)
      PROVE Unsettled'
  BY <1>3, <1>6 DEF NoUpdate, NoJob, Complete, Fail, FailOnWiped, Defer, SendNotice,
     ClaimLoopDies, Crash, Restart, Goto
<1>7. ASSUME UNCHANGED <<rows, mine>> PROVE Unsettled'
  BY <1>7
<1> QED
  BY <1>4, <1>5, <1>6, <1>7 DEF Next, Step, BecomesDue, SweeperDies, loop, vars

\* What nobody holds any more is judged no more.
LEMMA SettledStep ==
    ASSUME Typed, [Next]_vars, NEW r \in Rows, rows[r].status \in {"done", "failed"},
           \A w \in Workers : mine[w] # r
    PROVE  rows'[r].status \in {rows[r].status, "gone"}
<1>t. /\ rows \in [Rows -> Row] /\ mine \in [Workers -> Rows \union {NoRow}]
      /\ Updates \subseteq Rows /\ Jobs \subseteq Rows
  BY ConstantsAssumption DEF Typed, TypeOK, Rows
<1>1. CASE \/ \E u \in Updates : Enqueue(u)
           \/ \E j \in Jobs : EnqueueJob(j, TRUE) \/ EnqueueJob(j, FALSE)
  BY <1>1, <1>t DEF Enqueue, EnqueueJob, Inserted, Missing
<1>2. CASE \E q \in Rows : LeaseAges(q)
  BY <1>2, <1>t DEF LeaseAges
<1>3. CASE \E w \in Workers : RecoverStuck(w) \/ RecoverStuckJobs(w)
  <2>1. PICK w \in Workers, table \in {Updates, Jobs} : Recover(w, table)
    BY <1>3 DEF RecoverStuck, RecoverStuckJobs
  <2>2. rows'[r] = rows[r] \/ rows'[r] = Recovered(rows[r])
    BY <2>1 DEF Recover
  <2>3. Recovered(rows[r]) = rows[r]
    BY DEF Recovered, Stuck
  <2> QED
    BY <2>2, <2>3
<1>4. CASE \E w \in Workers, how \in {"ok", "raise", "defer"} : Handle(w, how)
  BY <1>4, <1>t DEF Handle, Wiped, AbsentRow, Row
<1>5. CASE \E w \in Workers : Touch(w) \/ Complete(w) \/ Fail(w) \/ Defer(w)
  BY <1>5, <1>t DEF Touch, Complete, Fail, Defer
<1>6. CASE \E w \in Workers : \/ \E u \in Updates : ClaimUpdate(w, u)
                              \/ \E j \in Jobs : ClaimJob(w, j)
  BY <1>6, <1>t DEF ClaimUpdate, ClaimJob, Oldest, Claimable, Pending
<1>7. CASE UNCHANGED rows
  BY <1>7
<1> QED
  BY <1>1, <1>2, <1>3, <1>4, <1>5, <1>6, <1>7
     DEF Next, Step, BecomesDue, NoUpdate, NoJob, FailOnWiped, SendNotice,
         ClaimLoopDies, SweeperDies, Crash, Restart, vars

\* With the one replica the README asks for, a row that is done or failed is
\* never taken up, retried or judged again: only /delete touches it.
THEOREM SettledForGood ==
    ASSUME OneReplica
    PROVE  Spec => SettledIsFinal
<1>1. Init => Unsettled
  BY DEF Init, Unsettled
<1>2. Typed /\ Unsettled /\ [Next]_vars => Unsettled'
  BY UnsettledNext, OneReplica
<1>3. Spec => [](Typed /\ Unsettled)
  BY <1>1, <1>2, TypedInit, TypedNext, PTL DEF Spec
<1>4. Typed /\ Unsettled /\ [Next]_vars
        => [\A r \in Rows : rows[r].status \in {"done", "failed"} =>
                rows'[r].status \in {rows[r].status, "gone"}]_vars
  <2> SUFFICES ASSUME Typed, Unsettled, [Next]_vars, NEW r \in Rows,
                      rows[r].status \in {"done", "failed"}
               PROVE  rows'[r].status \in {rows[r].status, "gone"}
    OBVIOUS
  <2>1. r # NoRow
    BY ConstantsAssumption
  <2>2. \A w \in Workers : mine[w] # r
    BY <2>1 DEF Unsettled
  <2> QED
    BY <2>2, SettledStep
<1> QED
  BY <1>3, <1>4, PTL DEF Spec, SettledIsFinal

\* A row that is processing is in somebody's hands, or its run was cut off.
Accounted ==
    \A u \in Updates : rows[u].status = "processing"
                          => u \in lost \/ \E w \in Workers : mine[w] = u

\* Arrival numbers are given out in order, and only to rows that are there.
Stamped ==
    \A u \in Updates : /\ stamp[u] <= arrivals
                       /\ stamp[u] > 0 => rows[u].status # "absent"

Orderly == Accounted /\ Stamped /\ OvertakenOnlyIfLost

\* What a step other than an arrival does to a row of the update queue.
LEMMA OtherSteps ==
    ASSUME Typed, Unsettled, [Next]_vars, NEW u \in Updates,
           ~ \E x \in Updates : Enqueue(x),
           ~ \E w \in Workers, x \in Updates : ClaimUpdate(w, x)
    PROVE  /\ stamp' = stamp /\ arrivals' = arrivals /\ started' = started
           /\ lost \subseteq lost'
           /\ rows[u].status \in Settled => rows'[u].status \in Settled
           /\ rows[u].status # "absent" => rows'[u].status # "absent"
           /\ rows'[u].status = "processing" => rows[u].status = "processing"
<1>t. /\ rows \in [Rows -> Row] /\ u \in Rows /\ u \notin Jobs
      /\ Updates \subseteq Rows /\ Jobs \subseteq Rows
      /\ \A w \in Workers : mine[w] = u => rows[u].status \notin {"done", "failed"}
  BY ConstantsAssumption DEF Typed, TypeOK, Rows, Unsettled
<1>1. CASE \E j \in Jobs : EnqueueJob(j, TRUE) \/ EnqueueJob(j, FALSE) \/ BecomesDue(j)
  BY <1>1, <1>t DEF EnqueueJob, BecomesDue, history, past
<1>2. CASE \E r \in Rows : LeaseAges(r)
  <2>1. PICK r \in Rows : LeaseAges(r)
    BY <1>2
  <2>2. rows' = [rows EXCEPT ![r].lease = @ + 1]
    BY <2>1 DEF LeaseAges
  <2>3. rows'[u].status = rows[u].status
    BY <2>2, <1>t DEF Row
  <2> QED
    BY <2>1, <2>3 DEF LeaseAges, history, past
<1>3. CASE \E w \in Workers : RecoverStuck(w) \/ RecoverStuckJobs(w)
  <2>1. PICK w \in Workers, table \in {Updates, Jobs} : Recover(w, table)
    BY <1>3 DEF RecoverStuck, RecoverStuckJobs
  <2>2. rows'[u] = rows[u] \/ rows'[u] = Recovered(rows[u])
    BY <2>1, <1>t DEF Recover
  <2>3. \/ Recovered(rows[u]) = rows[u]
        \/ Recovered(rows[u]).status = "pending" /\ rows[u].status = "processing"
    BY <1>t DEF Recovered, Stuck, Row
  <2> QED
    BY <2>1, <2>2, <2>3 DEF Recover, Settled
<1>4. CASE \E w \in Workers, how \in {"ok", "raise", "defer"} : Handle(w, how)
  <2>1. rows'[u] = rows[u] \/ rows'[u] = Wiped(rows[u])
    BY <1>4, <1>t DEF Handle
  <2>2. Wiped(rows[u]) = rows[u] \/ Wiped(rows[u]).status = "gone"
    BY <1>t DEF Wiped, AbsentRow, Row
  <2> QED
    BY <1>4, <2>1, <2>2 DEF Handle, Settled
<1>5. CASE \E w \in Workers : Touch(w)
  <2>1. Touched(rows[u]).status = rows[u].status
    BY <1>t DEF Touched, Row
  <2>2. rows'[u] = rows[u] \/ rows'[u] = Touched(rows[u])
    BY <1>5, <1>t DEF Touch
  <2> QED
    BY <1>5, <2>1, <2>2 DEF Touch, history, past
<1>6. CASE \E w \in Workers : Complete(w) \/ Fail(w) \/ Defer(w)
  <2>1. PICK w \in Workers : Complete(w) \/ Fail(w) \/ Defer(w)
    BY <1>6
  <2>2. CASE mine[w] # u
    BY <2>1, <2>2, <1>t DEF Complete, Fail, Defer, history, past
  <2>3. CASE mine[w] = u
    <3>1. CASE Complete(w)
      <4>1. rows'[u] = Completed(rows[u])
        BY <3>1, <2>3, <1>t DEF Complete
      <4>2. Completed(rows[u]).status \in {"done", "gone"}
        BY <1>t DEF Completed, Row
      <4> QED
        BY <3>1, <4>1, <4>2 DEF Complete, history, past, Settled
    <3>2. CASE Fail(w)
      <4>1. rows'[u] = Failed(rows[u]) /\ rows[u].status # "gone"
        BY <3>2, <2>3, <1>t DEF Fail
      <4>2. Failed(rows[u]).status \in {"failed", "pending"}
        BY <1>t DEF Failed, Row
      <4> QED
        BY <3>2, <4>1, <4>2, <2>3, <1>t DEF Fail, history, past, Settled
    <3>3. CASE Defer(w)
      <4>1. rows'[u] = Deferred(rows[u])
        BY <3>3, <2>3, <1>t DEF Defer
      <4>2. \/ Deferred(rows[u]) = rows[u]
            \/ Deferred(rows[u]).status = "pending" /\ rows[u].status # "gone"
        BY <1>t DEF Deferred, Row
      <4> QED
        BY <3>3, <4>1, <4>2, <2>3, <1>t DEF Defer, history, past, Settled
    <3> QED
      BY <2>1, <3>1, <3>2, <3>3
  <2> QED
    BY <2>2, <2>3
<1>7. CASE \E w \in Workers : \E j \in Jobs : ClaimJob(w, j)
  BY <1>7, <1>t DEF ClaimJob
<1>8. CASE \E w \in Workers : \/ NoUpdate(w) \/ NoJob(w) \/ FailOnWiped(w)
                              \/ SendNotice(w) \/ ClaimLoopDies(w) \/ SweeperDies(w)
                              \/ Crash(w) \/ Restart(w)
  BY <1>8 DEF NoUpdate, NoJob, FailOnWiped, SendNotice, ClaimLoopDies, SweeperDies,
     Crash, Restart, history, past
<1>9. CASE UNCHANGED vars
  BY <1>9 DEF vars
<1> QED
  BY <1>1, <1>2, <1>3, <1>4, <1>5, <1>6, <1>7, <1>8, <1>9 DEF Next, Step

LEMMA AccountedNext ==
    ASSUME OneReplica, Typed, Unsettled, Accounted, [Next]_vars
    PROVE  Accounted'
<1> SUFFICES ASSUME NEW u \in Updates, rows'[u].status = "processing", u \notin lost'
             PROVE  \E w \in Workers : mine'[w] = u
  BY DEF Accounted
<1>t. /\ rows \in [Rows -> Row] /\ u \in Rows /\ u # NoRow /\ Holding
      /\ mine \in [Workers -> Rows \union {NoRow}] /\ Updates \subseteq Rows
  BY ConstantsAssumption DEF Typed, TypeOK, Rows
<1>1. CASE \E x \in Updates : Enqueue(x)
  BY <1>1, <1>t DEF Enqueue, Inserted, AbsentRow, loop, Accounted
<1>2. CASE \E w \in Workers, x \in Updates : ClaimUpdate(w, x)
  <2>1. PICK w \in Workers, x \in Updates : ClaimUpdate(w, x)
    BY <1>2
  <2>2. mine' = [mine EXCEPT ![w] = x] /\ mine[w] = NoRow /\ lost' = lost
    BY <2>1, <1>t DEF ClaimUpdate, Goto, Holding
  <2>3. u = x \/ rows'[u] = rows[u]
    BY <2>1, <1>t DEF ClaimUpdate
  <2> QED
    BY <2>2, <2>3, <1>t DEF Accounted
<1>3. CASE ~ (\E x \in Updates : Enqueue(x))
           /\ ~ (\E w \in Workers, x \in Updates : ClaimUpdate(w, x))
  <2>1. rows[u].status = "processing" /\ u \notin lost
    BY <1>3, OtherSteps
  <2>2. PICK w \in Workers : mine[w] = u
    BY <2>1 DEF Accounted
  <2>3. pc[w] \in {"run", "ran"}
    BY <2>2, <1>t DEF Holding
  <2>4. ~ Complete(w) /\ ~ Fail(w) /\ ~ FailOnWiped(w) /\ ~ Defer(w)
    <3>1. /\ Completed(rows[u]).status # "processing"
          /\ Failed(rows[u]).status # "processing"
          /\ Deferred(rows[u]).status # "processing"
      BY <2>1, <1>t DEF Completed, Failed, Deferred, Row
    <3>2. Complete(w) => rows'[u] = Completed(rows[u])
      BY <2>2, <1>t DEF Complete
    <3>3. Fail(w) => rows'[u] = Failed(rows[u])
      BY <2>2, <1>t DEF Fail
    <3>4. Defer(w) => rows'[u] = Deferred(rows[u])
      BY <2>2, <1>t DEF Defer
    <3>5. ~ FailOnWiped(w)
      BY <2>1, <2>2 DEF FailOnWiped
    <3> QED
      BY <3>1, <3>2, <3>3, <3>4, <3>5
  <2>5. ~ ClaimLoopDies(w) /\ ~ Crash(w)
    BY <2>2, <1>t DEF ClaimLoopDies, Crash
  <2>6. ~ NoUpdate(w) /\ ~ NoJob(w) /\ ~ SendNotice(w) /\ ~ Restart(w)
        /\ ~ \E j \in Jobs : ClaimJob(w, j)
    BY <2>3 DEF NoUpdate, NoJob, SendNotice, Restart, ClaimJob
  <2>7. \A x \in Workers : x = w
    BY OneReplica DEF OneReplica
  <2>8. mine'[w] = mine[w]
    <3>1. CASE \E y \in Workers, how \in {"ok", "raise", "defer"} : Handle(y, how)
      BY <3>1, <1>t, <2>7 DEF Handle, Goto
    <3>2. CASE UNCHANGED mine
      BY <3>2
    <3> QED
      BY <3>1, <3>2, <1>3, <2>4, <2>5, <2>6, <2>7
         DEF Next, Step, EnqueueJob, BecomesDue, LeaseAges, Touch, RecoverStuck,
             RecoverStuckJobs, Recover, SweeperDies, loop, vars
  <2> QED
    BY <2>2, <2>8
<1> QED
  BY <1>1, <1>2, <1>3

LEMMA StampedNext ==
    ASSUME Typed, Unsettled, Stamped, [Next]_vars
    PROVE  Stamped'
<1> SUFFICES ASSUME NEW u \in Updates
             PROVE  /\ stamp'[u] <= arrivals'
                    /\ stamp'[u] > 0 => rows'[u].status # "absent"
  BY DEF Stamped
<1>t. /\ rows \in [Rows -> Row] /\ stamp \in [Updates -> Nat] /\ arrivals \in Nat
      /\ Updates \subseteq Rows
  BY DEF Typed, TypeOK, Rows
<1>1. CASE \E x \in Updates : Enqueue(x)
  <2>1. PICK x \in Updates : Enqueue(x)
    BY <1>1
  <2>2. /\ rows'[u] = IF u = x THEN Inserted(rows[u]) ELSE rows[u]
        /\ Inserted(rows[u]).status # "absent"
    BY <2>1, <1>t DEF Enqueue, Inserted, AbsentRow, Missing
  <2>3. \/ arrivals' = arrivals /\ stamp' = stamp
        \/ arrivals' = arrivals + 1 /\ stamp' = [stamp EXCEPT ![x] = arrivals + 1]
    BY <2>1 DEF Enqueue
  <2>4. /\ stamp'[u] <= arrivals'
        /\ u # x => stamp'[u] = stamp[u]
    BY <2>3, <1>t DEF Stamped
  <2> QED
    BY <2>2, <2>4 DEF Stamped
<1>2. CASE \E w \in Workers, x \in Updates : ClaimUpdate(w, x)
  BY <1>2, <1>t DEF ClaimUpdate, Claimed, Stamped
<1>3. CASE ~ (\E x \in Updates : Enqueue(x))
           /\ ~ (\E w \in Workers, x \in Updates : ClaimUpdate(w, x))
  BY <1>3, OtherSteps DEF Stamped
<1> QED
  BY <1>1, <1>2, <1>3

LEMMA OrderNext ==
    ASSUME OneReplica, Typed, Unsettled, Orderly, [Next]_vars
    PROVE  OvertakenOnlyIfLost'
<1> SUFFICES ASSUME NEW u \in Updates, NEW v \in Updates,
                    0 < stamp'[u], stamp'[u] < stamp'[v], v \in started',
                    rows'[u].status \notin Settled
             PROVE  u \in lost'
  BY DEF OvertakenOnlyIfLost
<1>t. /\ rows \in [Rows -> Row] /\ stamp \in [Updates -> Nat] /\ arrivals \in Nat
      /\ Updates \subseteq Rows /\ Holding
      /\ rows[u].status \in Statuses
      /\ \A w \in Workers : mine[w] = u => u # NoRow
  BY ConstantsAssumption DEF Typed, TypeOK, Rows, Row
<1>o. /\ stamp[u] <= arrivals /\ stamp[v] <= arrivals
      /\ stamp[u] > 0 => rows[u].status # "absent"
      /\ 0 < stamp[u] /\ stamp[u] < stamp[v] /\ v \in started
           /\ rows[u].status \notin Settled => u \in lost
  BY DEF Orderly, Stamped, OvertakenOnlyIfLost
<1>1. CASE \E x \in Updates : Enqueue(x)
  <2>1. PICK x \in Updates : Enqueue(x)
    BY <1>1
  <2>2. CASE rows[x].status \in Missing
    <3>1. /\ stamp' = [stamp EXCEPT ![x] = arrivals + 1]
          /\ started' = started \ {x} /\ lost' = lost \ {x}
          /\ rows' = [rows EXCEPT ![x] = Inserted(@)]
      BY <2>1, <2>2 DEF Enqueue
    <3>2. v # x
      BY <3>1
    <3>3. u # x
      BY <3>1, <3>2, <1>t, <1>o
    <3> QED
      BY <3>1, <3>2, <3>3, <1>t, <1>o
  <2>3. CASE rows[x].status \notin Missing
    BY <2>1, <2>3, <1>t, <1>o DEF Enqueue, Inserted
  <2> QED
    BY <2>2, <2>3
<1>2. CASE \E w \in Workers, x \in Updates : ClaimUpdate(w, x)
  <2>1. PICK w \in Workers, x \in Updates : ClaimUpdate(w, x)
    BY <1>2
  <2>2. stamp' = stamp /\ lost' = lost /\ started' = started \union {x}
    BY <2>1 DEF ClaimUpdate
  <2>3. rows[u].status \notin Settled
    <3>1. u = x => rows[u].status = "pending"
      BY <2>1 DEF ClaimUpdate, Oldest, Pending
    <3>2. u # x => rows'[u] = rows[u]
      BY <2>1, <1>t DEF ClaimUpdate
    <3> QED
      BY <3>1, <3>2 DEF Settled
  <2>4. CASE v # x
    BY <2>2, <2>3, <2>4, <1>o
  <2>5. CASE v = x
    <3>1. rows[u].status # "pending"
      BY <2>1, <2>2, <2>5, <1>t DEF ClaimUpdate, Oldest, Pending
    <3>2. rows[u].status = "processing"
      BY <3>1, <2>2, <2>3, <1>t, <1>o DEF Settled, Statuses
    <3>3. \A y \in Workers : mine[y] # u
      BY <2>1, <1>t, OneReplica DEF OneReplica, ClaimUpdate, Holding
    <3> QED
      BY <3>2, <3>3, <2>2 DEF Orderly, Accounted
  <2> QED
    BY <2>4, <2>5
<1>3. CASE ~ (\E x \in Updates : Enqueue(x))
           /\ ~ (\E w \in Workers, x \in Updates : ClaimUpdate(w, x))
  BY <1>3, <1>o, OtherSteps
<1> QED
  BY <1>1, <1>2, <1>3

\* worker.py's "concurrency is 1, which preserves message order": with one
\* replica an update is overtaken by a later one only if its run was cut off.
THEOREM OrderPreserved ==
    ASSUME OneReplica
    PROVE  Spec => []OvertakenOnlyIfLost
<1>1. Init => Unsettled /\ Orderly
  BY DEF Init, Unsettled, Orderly, Accounted, Stamped, OvertakenOnlyIfLost, AbsentRow,
         Rows
<1>2. Typed /\ Unsettled /\ Orderly /\ [Next]_vars => (Unsettled /\ Orderly)'
  BY OneReplica, UnsettledNext, AccountedNext, StampedNext, OrderNext DEF Orderly
<1>3. Spec => [](Typed /\ Unsettled /\ Orderly)
  BY <1>1, <1>2, TypedInit, TypedNext, PTL DEF Spec
<1>4. Orderly => OvertakenOnlyIfLost
  BY DEF Orderly
<1> QED
  BY <1>3, <1>4, PTL

-----------------------------------------------------------------------------
(* Leases and priority.                                                     *)

\* A row in its runner's hands is processing, its lease is as old as the
\* runner's claim or last touch, and that is not yet STUCK_AFTER; or it was wiped.
Gripped ==
    \A w \in Workers : mine[w] # NoRow /\ mine[w] \notin slipped =>
        \/ rows[mine[w]].status = "gone"
        \/ /\ rows[mine[w]].status = "processing"
           /\ rows[mine[w]].lease = since[w]
           /\ since[w] < StuckAfter

Leased == AloneWhileTouched /\ Gripped

LEMMA LeasedNext == Typed /\ Leased /\ [Next]_vars => Leased'
<1> SUFFICES ASSUME Typed, Leased, [Next]_vars PROVE Leased'
  OBVIOUS
<1> USE DEF Leased, AloneWhileTouched, Gripped
<1>t. /\ rows \in [Rows -> Row] /\ mine \in [Workers -> Rows \union {NoRow}]
      /\ since \in [Workers -> Nat] /\ Holding /\ slipped \subseteq Rows
      /\ Updates \subseteq Rows /\ Jobs \subseteq Rows /\ NoRow \notin Rows
      /\ StuckAfter \in Nat \ {0}
  BY ConstantsAssumption, QueueAssumption DEF Typed, TypeOK, Rows
<1>r. \A r \in Rows : rows[r].lease \in Nat /\ rows[r].status \in Statuses
  BY <1>t DEF Row
<1>1. ASSUME NEW q \in Rows, rows' = [rows EXCEPT ![q] = Inserted(@)],
             UNCHANGED <<mine, since>>,
             IF rows[q].status \in Missing
             THEN slipped' = slipped \union ({q} \intersect Running)
             ELSE slipped' = slipped
      PROVE  Leased'
  <2>1. CASE rows[q].status \in Missing
    <3>1. \A w \in Workers : mine[w] = q => q \in slipped'
      BY <1>1, <2>1 DEF Running
    <3>2. \A r \in Rows : r # q => rows'[r] = rows[r]
      BY <1>1, <1>t
    <3> QED
      BY <1>1, <1>t, <2>1, <3>1, <3>2
  <2>2. CASE rows[q].status \notin Missing
    <3>1. rows' = rows /\ slipped' = slipped
      BY <1>1, <1>t, <2>2 DEF Inserted
    <3> QED
      BY <1>1, <3>1
  <2> QED
    BY <2>1, <2>2
<1>2. ASSUME NEW u \in Updates, Enqueue(u) PROVE Leased'
  BY <1>1, <1>2, <1>t DEF Enqueue, HandedOutAgain, loop
<1>3. ASSUME NEW j \in Jobs, NEW dueNow \in BOOLEAN, EnqueueJob(j, dueNow) PROVE Leased'
  BY <1>1, <1>3, <1>t DEF EnqueueJob, HandedOutAgain, loop
<1>4. ASSUME NEW q \in Rows, LeaseAges(q) PROVE Leased'
  <2>1. /\ rows[q].status = "processing" /\ mine' = mine /\ slipped \subseteq slipped'
        /\ rows' = [rows EXCEPT ![q].lease = @ + 1]
    BY <1>4 DEF LeaseAges
  <2>2. ASSUME NEW w \in Workers, mine[w] # NoRow, mine[w] \notin slipped', mine[w] = q
        PROVE  /\ rows'[q].status = "processing"
               /\ rows'[q].lease = since'[w] /\ since'[w] < StuckAfter
    <3>1. rows[q].lease = since[w] /\ since[w] < StuckAfter
      BY <2>1, <2>2
    <3>2. since'[w] = since[w] + 1 /\ since'[w] # StuckAfter
      BY <1>4, <2>1, <2>2 DEF LeaseAges, Holds
    <3>3. rows'[q].status = rows[q].status /\ rows'[q].lease = rows[q].lease + 1
      BY <2>1, <1>t DEF Row
    <3> QED
      BY <2>1, <3>1, <3>2, <3>3, <1>t
  <2>3. ASSUME NEW w \in Workers, mine[w] # q
        PROVE  since'[w] = since[w] /\ (mine[w] # NoRow => rows'[mine[w]] = rows[mine[w]])
    BY <1>4, <2>1, <2>3, <1>t DEF LeaseAges, Holds
  <2> QED
    BY <2>1, <2>2, <2>3, <1>t
<1>5. ASSUME NEW w \in Workers, NEW r \in Rows, Pending(r), pc[w] \notin {"run", "ran"},
             rows' = [rows EXCEPT ![r] = Claimed(@)], Goto(w, "run", r, "none")
      PROVE  Leased'
  <2>1. mine[w] = NoRow /\ mine' = [mine EXCEPT ![w] = r]
    BY <1>5, <1>t DEF Holding, Goto
  <2>2. since' = [since EXCEPT ![w] = 0] /\ slipped' = slipped \intersect Running'
    BY <1>5, <2>1, <1>t DEF Goto
  <2>3. \A x \in Workers : mine[x] = r => r \in slipped
    BY <1>5, <1>t DEF Pending
  <2>4. \A x \in Workers : mine'[x] \in slipped => mine'[x] \in slipped'
    BY <2>2 DEF Running
  <2>5. /\ rows'[r].status = "processing" /\ rows'[r].lease = 0
        /\ \A q \in Rows : q # r => rows'[q] = rows[q]
    BY <1>5, <1>t DEF Claimed
  <2>6. AloneWhileTouched'
    BY <2>1, <2>3, <2>4, <1>t
  <2>7. ASSUME NEW x \in Workers, mine'[x] # NoRow, mine'[x] \notin slipped'
        PROVE  \/ rows'[mine'[x]].status = "gone"
               \/ /\ rows'[mine'[x]].status = "processing"
                  /\ rows'[mine'[x]].lease = since'[x] /\ since'[x] < StuckAfter
    <3>1. CASE x = w
      BY <3>1, <2>1, <2>2, <2>5, <1>t
    <3>2. CASE x # w
      <4>1. mine'[x] = mine[x] /\ since'[x] = since[x] /\ mine[x] \notin slipped
        BY <3>2, <2>1, <2>2, <2>4, <2>7, <1>t
      <4>2. mine[x] # r
        BY <4>1, <2>3
      <4> QED
        BY <4>1, <4>2, <2>5, <2>7, <1>t
    <3> QED
      BY <3>1, <3>2
  <2> QED
    BY <2>6, <2>7
<1>6. ASSUME NEW w \in Workers, NEW u \in Updates, ClaimUpdate(w, u) PROVE Leased'
  BY <1>5, <1>6, <1>t DEF ClaimUpdate, Oldest
<1>7. ASSUME NEW w \in Workers, NEW j \in Jobs, ClaimJob(w, j) PROVE Leased'
  BY <1>5, <1>7, <1>t DEF ClaimJob, Claimable
<1>8. ASSUME NEW w \in Workers, NEW how \in {"ok", "raise", "defer"}, Handle(w, how)
      PROVE  Leased'
  <2>1. mine' = mine /\ since' = since
    BY <1>8, <1>t DEF Handle, Goto
  <2>2. slipped' = slipped \intersect Running
    BY <1>8, <2>1 DEF Handle, Goto, Running
  <2>3. \A x \in Workers : mine[x] \in slipped => mine[x] \in slipped'
    BY <2>2 DEF Running
  <2>4. \A r \in Rows : \/ rows'[r] = rows[r]
                        \/ rows'[r].status = "gone"
    BY <1>8, <1>t DEF Handle, Wiped, AbsentRow
  <2> QED
    BY <2>1, <2>3, <2>4, <1>t
<1>9. ASSUME NEW w \in Workers, Touch(w) PROVE Leased'
  <2>1. /\ rows' = [rows EXCEPT ![mine[w]] = Touched(@)] /\ mine[w] \in Rows
        /\ mine' = mine /\ slipped' = slipped /\ since' = [since EXCEPT ![w] = 0]
    BY <1>9, <1>t DEF Touch, history
  <2>2. ASSUME NEW x \in Workers, mine[x] # NoRow, mine[x] \notin slipped
        PROVE  \/ rows'[mine[x]].status = "gone"
               \/ /\ rows'[mine[x]].status = "processing"
                  /\ rows'[mine[x]].lease = since'[x] /\ since'[x] < StuckAfter
    <3>1. CASE x = w
      <4>1. rows'[mine[w]] = Touched(rows[mine[w]]) /\ since'[w] = 0
        BY <2>1, <1>t
      <4> QED
        BY <4>1, <3>1, <2>2, <2>1, <1>t DEF Touched, Row
    <3>2. CASE x # w
      BY <3>2, <2>1, <2>2, <1>t
    <3> QED
      BY <3>1, <3>2
  <2> QED
    BY <2>1, <2>2, <1>t
<1>10. ASSUME NEW w \in Workers, NEW where \in PCs, Goto(w, where, NoRow, "none"),
              \A r \in Rows : r # mine[w] => rows'[r] = rows[r]
       PROVE  Leased'
  <2>1. mine' = [mine EXCEPT ![w] = NoRow] /\ slipped' = slipped \intersect Running'
    BY <1>10 DEF Goto
  <2>2. \A x \in Workers : x # w => since'[x] = since[x]
    BY <1>10, <1>t DEF Goto
  <2>3. \A x \in Workers : mine'[x] \in slipped => mine'[x] \in slipped'
    BY <2>1 DEF Running
  <2>4. ASSUME NEW x \in Workers, mine'[x] # NoRow, mine'[x] \notin slipped'
        PROVE  /\ x # w /\ mine'[x] = mine[x] /\ mine[x] \notin slipped
               /\ rows'[mine[x]] = rows[mine[x]]
    <3>1. x # w /\ mine'[x] = mine[x] /\ mine[x] \notin slipped
      BY <2>1, <2>3, <2>4, <1>t
    <3>2. mine[x] # mine[w]
      BY <3>1, <2>4
    <3> QED
      BY <1>10, <3>1, <3>2, <2>4, <1>t
  <2> QED
    BY <2>1, <2>2, <2>3, <2>4, <1>t
<1>11. ASSUME NEW w \in Workers, Complete(w) \/ Fail(w) \/ Defer(w) PROVE Leased'
  <2>1. \A r \in Rows : r # mine[w] => rows'[r] = rows[r]
    BY <1>11, <1>t DEF Complete, Fail, Defer
  <2>2. \E where \in PCs : Goto(w, where, NoRow, "none")
    BY <1>11 DEF Complete, Fail, Defer, PCs
  <2> QED
    BY <2>1, <2>2, <1>10
<1>12. ASSUME NEW w \in Workers,
              \/ NoUpdate(w) \/ NoJob(w) \/ FailOnWiped(w) \/ SendNotice(w)
              \/ ClaimLoopDies(w) \/ Crash(w) \/ Restart(w)
       PROVE  Leased'
  <2>1. rows' = rows
    BY <1>12 DEF NoUpdate, NoJob, FailOnWiped, SendNotice, ClaimLoopDies, Crash, Restart
  <2>2. \E where \in PCs : Goto(w, where, NoRow, "none")
    BY <1>12 DEF NoUpdate, NoJob, FailOnWiped, SendNotice, ClaimLoopDies, Crash,
                 Restart, PCs
  <2> QED
    BY <2>1, <2>2, <1>10
<1>13. ASSUME NEW w \in Workers, NEW table \in SUBSET Rows, Recover(w, table)
       PROVE  Leased'
  <2>1. mine' = mine /\ since' = since /\ slipped' = slipped
    BY <1>13 DEF Recover, loop
  <2>2. \A r \in Rows : rows'[r] = rows[r] \/ Stuck(rows[r])
    BY <1>13, <1>t DEF Recover, Recovered
  <2>3. \A x \in Workers : mine[x] # NoRow /\ mine[x] \notin slipped
                             => ~Stuck(rows[mine[x]])
    BY <1>t DEF Stuck
  <2> QED
    BY <2>1, <2>2, <2>3, <1>t
<1>14. ASSUME UNCHANGED <<rows, mine, since, slipped>> PROVE Leased'
  BY <1>14
<1> QED
  BY <1>2, <1>3, <1>4, <1>6, <1>7, <1>8, <1>9, <1>11, <1>12, <1>13, <1>14, <1>t
     DEF Next, Step, RecoverStuck, RecoverStuckJobs, BecomesDue, SweeperDies,
         loop, history, vars

\* touch_job_lock against STUCK_AFTER, for any number of processes and bodies
\* however long: two processes run the same row only after one of its runners
\* let STUCK_AFTER pass since its claim and last touch, or its id was handed
\* out again by /delete.
THEOREM LeaseExcludes == Spec => []AloneWhileTouched
<1>1. Init => Leased
  BY DEF Init, Leased, AloneWhileTouched, Gripped
<1>2. Spec => [](Typed /\ Leased)
  BY <1>1, TypedInit, TypedNext, LeasedNext, PTL DEF Spec
<1>3. Leased => AloneWhileTouched
  BY DEF Leased
<1> QED
  BY <1>2, <1>3, PTL

\* The processes about to look for a job.
Lookers == {w \in Workers : pc[w] = "look"}

\* While an update waits, the jobs begun since it became pending and the processes
\* that may still begin one are together no more than the processes.
Room(u) ==
    /\ ahead[u] <= Cardinality(Workers)
    /\ Pending(u) => ahead[u] + Cardinality(Lookers) <= Cardinality(Workers)
    /\ rows[u].status = "processing" => ahead[u] = 0

LEMMA RoomNext ==
    ASSUME Typed, [Next]_vars, NEW u \in Updates, Room(u),
           \A w \in Workers : mine[w] = u => rows[u].status \notin {"absent", "done", "failed"}
    PROVE  Room(u)'
<1> USE DEF Room, Pending
<1>t. /\ rows \in [Rows -> Row] /\ pc \in [Workers -> PCs] /\ Holding
      /\ u \in Rows /\ u \notin Jobs /\ Jobs \subseteq Rows /\ Updates \subseteq Rows
      /\ mine \in [Workers -> Rows \union {NoRow}] /\ u # NoRow
      /\ ahead \in [Updates -> Nat]
  BY ConstantsAssumption DEF Typed, TypeOK, Rows
<1>c. /\ IsFiniteSet(Lookers) /\ Cardinality(Lookers) \in Nat
      /\ Cardinality(Workers) \in Nat /\ Cardinality(Lookers) <= Cardinality(Workers)
      /\ IsFiniteSet(Lookers') /\ Cardinality(Lookers') \in Nat
      /\ Cardinality(Lookers') <= Cardinality(Workers)
  <2>1. Lookers \in SUBSET Workers /\ Lookers' \in SUBSET Workers /\ IsFiniteSet(Workers)
    BY ConstantsAssumption DEF Lookers
  <2>2. /\ IsFiniteSet(Lookers) /\ Cardinality(Lookers) <= Cardinality(Workers)
        /\ IsFiniteSet(Lookers') /\ Cardinality(Lookers') <= Cardinality(Workers)
    BY <2>1, FS_Subset
  <2> QED
    BY <2>1, <2>2, FS_CardinalityType
<1>1. ASSUME ahead'[u] = 0 PROVE Room(u)'
  BY <1>1, <1>c
<1>2. ASSUME ahead' = ahead, Lookers' \subseteq Lookers,
             rows'[u].status = "pending" => rows[u].status \in {"pending", "processing"},
             rows'[u].status = "processing" => rows[u].status = "processing"
      PROVE  Room(u)'
  <2>1. Cardinality(Lookers') <= Cardinality(Lookers)
    <3>1. Lookers' \in SUBSET Lookers
      BY <1>2
    <3> QED
      BY <1>c, <3>1, FS_Subset
  <2> QED
    BY <1>1, <1>2, <1>c, <1>t, <2>1
<1>3. ASSUME ahead' = ahead, pc' = pc, rows'[u].status = rows[u].status PROVE Room(u)'
  BY <1>2, <1>3 DEF Lookers
<1>4. CASE \E x \in Updates : Enqueue(x)
  <2>1. PICK x \in Updates : Enqueue(x)
    BY <1>4
  <2>2. CASE u = x /\ rows[x].status \in Missing
    BY <1>1, <1>t, <2>1, <2>2 DEF Enqueue
  <2>3. CASE ~(u = x /\ rows[x].status \in Missing)
    <3>1. rows'[u] = rows[u] /\ ahead'[u] = ahead[u] /\ pc' = pc
      BY <1>t, <2>1, <2>3 DEF Enqueue, Inserted, loop
    <3>2. Lookers' = Lookers
      BY <3>1 DEF Lookers
    <3> QED
      BY <3>1, <3>2
  <2> QED
    BY <2>2, <2>3
<1>5. CASE \/ \E j \in Jobs : EnqueueJob(j, TRUE) \/ EnqueueJob(j, FALSE) \/ BecomesDue(j)
           \/ \E w \in Workers : SweeperDies(w)
           \/ UNCHANGED vars
  <2>1. ahead' = ahead /\ pc' = pc /\ rows'[u] = rows[u]
    BY <1>5, <1>t DEF EnqueueJob, BecomesDue, SweeperDies, vars, loop, history, past
  <2> QED
    BY <1>3, <2>1
<1>6. CASE \E r \in Rows : LeaseAges(r)
  <2>1. PICK r \in Rows : rows' = [rows EXCEPT ![r] = [rows[r] EXCEPT !.lease = rows[r].lease + 1]]
    BY <1>6 DEF LeaseAges
  <2>2. rows'[u].status = rows[u].status
    BY <2>1, <1>t DEF Row
  <2> QED
    BY <1>3, <1>6, <2>2 DEF LeaseAges, loop, history, past
<1>7. CASE \E w \in Workers : Touch(w)
  <2>1. rows'[u] = rows[u] \/ rows'[u] = Touched(rows[u])
    BY <1>7, <1>t DEF Touch
  <2>2. rows'[u].status = rows[u].status
    BY <2>1, <1>t DEF Touched, Row
  <2> QED
    BY <1>3, <1>7, <2>2 DEF Touch, loop, history, past
\* A process that goes anywhere but to its look for a job.
<1>8. ASSUME NEW w \in Workers, NEW where \in PCs \ {"look"}, NEW row, NEW how,
             Goto(w, where, row, how)
      PROVE  Lookers' = Lookers \ {w}
  BY <1>8, <1>t DEF Goto, Lookers
<1>9. CASE \E w \in Workers, x \in Updates : ClaimUpdate(w, x)
  <2>1. PICK w \in Workers, x \in Updates : ClaimUpdate(w, x)
    BY <1>9
  <2>2. CASE u = x
    BY <1>1, <1>t, <2>1, <2>2 DEF ClaimUpdate
  <2>3. CASE u # x
    <3>1. rows'[u] = rows[u] /\ ahead'[u] = ahead[u]
      BY <1>t, <2>1, <2>3 DEF ClaimUpdate
    <3>2. Lookers' = Lookers
      BY <1>t, <2>1 DEF ClaimUpdate, Goto, Lookers
    <3> QED
      BY <3>1, <3>2
  <2> QED
    BY <2>2, <2>3
<1>10. CASE \E w \in Workers : NoUpdate(w)
  <2>1. ahead' = ahead /\ rows' = rows /\ rows[u].status # "pending"
    BY <1>10 DEF NoUpdate, history, past
  <2> QED
    BY <2>1
<1>11. CASE \E w \in Workers, j \in Jobs : ClaimJob(w, j)
  <2>1. PICK w \in Workers, j \in Jobs : ClaimJob(w, j)
    BY <1>11
  <2>2. rows'[u] = rows[u] /\ w \in Lookers
    BY <1>t, <2>1 DEF ClaimJob, Lookers
  <2>3. ahead'[u] = IF rows[u].status = "pending" THEN ahead[u] + 1 ELSE ahead[u]
    BY <2>1 DEF ClaimJob
  <2>4. Lookers' = Lookers \ {w}
    BY <1>8, <2>1 DEF ClaimJob, PCs
  <2>5. Cardinality(Lookers \ {w}) = Cardinality(Lookers) - 1
    BY <1>c, <2>2, FS_RemoveElement
  <2>6. ahead[u] \in Nat
    BY <1>t
  <2> QED
    BY <1>c, <2>2, <2>3, <2>4, <2>5, <2>6
<1>12. CASE \E w \in Workers : \/ NoJob(w) \/ FailOnWiped(w) \/ SendNotice(w)
                               \/ ClaimLoopDies(w) \/ Crash(w) \/ Restart(w)
  <2>1. PICK w \in Workers : \/ NoJob(w) \/ FailOnWiped(w) \/ SendNotice(w)
                             \/ ClaimLoopDies(w) \/ Crash(w) \/ Restart(w)
    BY <1>12
  <2>2. ahead' = ahead /\ rows' = rows
    BY <2>1 DEF NoJob, FailOnWiped, SendNotice, ClaimLoopDies, Crash, Restart, history, past
  <2>3. \E where \in PCs \ {"look"} : Goto(w, where, NoRow, "none")
    BY <2>1 DEF NoJob, FailOnWiped, SendNotice, ClaimLoopDies, Crash, Restart, PCs
  <2>4. Lookers' \subseteq Lookers
    BY <1>8, <2>3
  <2> QED
    BY <1>2, <2>2, <2>4
<1>13. CASE \E w \in Workers, how \in {"ok", "raise", "defer"} : Handle(w, how)
  <2>1. PICK w \in Workers, how \in {"ok", "raise", "defer"} : Handle(w, how)
    BY <1>13
  <2>2. Lookers' \subseteq Lookers
    BY <1>8, <2>1 DEF Handle, PCs
  <2>3. rows'[u] = rows[u] \/ rows'[u].status = "gone"
    <3>1. rows'[u] = rows[u] \/ rows'[u] = Wiped(rows[u])
      BY <1>t, <2>1 DEF Handle
    <3> QED
      BY <1>t, <3>1 DEF Wiped, AbsentRow, Row
  <2> QED
    BY <1>2, <2>1, <2>2, <2>3 DEF Handle
<1>14. CASE \E w \in Workers : Complete(w) \/ Fail(w) \/ Defer(w)
  <2>1. PICK w \in Workers : Complete(w) \/ Fail(w) \/ Defer(w)
    BY <1>14
  <2>2. ahead' = ahead
    BY <2>1 DEF Complete, Fail, Defer, history, past
  <2>3. \E where \in PCs \ {"look"} : Goto(w, where, NoRow, "none")
    BY <2>1 DEF Complete, Fail, Defer, PCs
  <2>4. Lookers' \subseteq Lookers
    BY <1>8, <2>3
  <2>5. CASE mine[w] # u
    <3>1. rows'[u] = rows[u]
      BY <1>t, <2>1, <2>5 DEF Complete, Fail, Defer
    <3> QED
      BY <1>2, <2>2, <2>4, <3>1
  <2>6. CASE mine[w] = u
    <3>1. rows[u].status \in {"pending", "processing", "gone"}
      BY <1>t, <2>6 DEF Row, Statuses
    <3>2. \/ rows'[u] = Completed(rows[u]) \/ rows'[u] = Deferred(rows[u])
          \/ rows'[u] = Failed(rows[u]) /\ rows[u].status # "gone"
      BY <1>t, <2>1, <2>6 DEF Complete, Fail, Defer
    <3>3. /\ rows'[u].status = "pending" => rows[u].status # "gone"
          /\ rows'[u].status # "processing"
      BY <1>t, <3>1, <3>2 DEF Completed, Failed, Deferred, Row
    <3> QED
      BY <1>2, <2>2, <2>4, <3>1, <3>3
  <2> QED
    BY <2>5, <2>6
<1>15. CASE \E w \in Workers : RecoverStuck(w) \/ RecoverStuckJobs(w)
  <2>1. PICK w \in Workers, table \in {Updates, Jobs} : Recover(w, table)
    BY <1>15 DEF RecoverStuck, RecoverStuckJobs
  <2>2. ahead' = ahead /\ pc' = pc
    BY <2>1 DEF Recover, loop
  <2>3. rows'[u] = rows[u] \/ (rows[u].status = "processing" /\ rows'[u].status = "pending")
    <3>1. rows'[u] = rows[u] \/ rows'[u] = Recovered(rows[u])
      BY <1>t, <2>1 DEF Recover
    <3> QED
      BY <1>t, <3>1 DEF Recovered, Stuck, Row
  <2>4. Lookers' \subseteq Lookers
    BY <2>2 DEF Lookers
  <2> QED
    BY <1>2, <2>2, <2>3, <2>4
<1> QED
  BY <1>4, <1>5, <1>6, <1>7, <1>9, <1>10, <1>11, <1>12, <1>13, <1>14, <1>15 DEF Next, Step

\* How rows leave "absent", are judged, and change hands.
LEMMA RowSteps ==
    ASSUME Typed, [Next]_vars, NEW r \in Rows
    PROVE  /\ rows'[r].status = "absent" => rows[r].status = "absent"
           /\ rows'[r].status \in {"done", "failed"} =>
                 \/ rows'[r].status = rows[r].status
                 \/ \E x \in Workers : mine[x] = r /\ mine' = [mine EXCEPT ![x] = NoRow]
           /\ \/ mine' = mine
              \/ \E x \in Workers : mine' = [mine EXCEPT ![x] = NoRow]
              \/ \E x \in Workers, q \in Rows : /\ mine' = [mine EXCEPT ![x] = q]
                                                /\ Pending(q) /\ rows'[q].status = "processing"
<1>t. /\ rows \in [Rows -> Row] /\ mine \in [Workers -> Rows \union {NoRow}]
      /\ Updates \subseteq Rows /\ Jobs \subseteq Rows /\ rows[r] \in Row
  BY DEF Typed, TypeOK, Rows
<1>1. CASE \/ \E u \in Updates : Enqueue(u)
           \/ \E j \in Jobs : EnqueueJob(j, TRUE) \/ EnqueueJob(j, FALSE)
  <2>1. mine' = mine
    BY <1>1 DEF Enqueue, EnqueueJob, loop
  <2>2. rows'[r] = rows[r] \/ rows'[r] = Inserted(rows[r])
    BY <1>1, <1>t DEF Enqueue, EnqueueJob
  <2> QED
    BY <2>1, <2>2 DEF Inserted, AbsentRow
<1>2. CASE \E q \in Rows : LeaseAges(q)
  <2>1. PICK q \in Rows : rows' = [rows EXCEPT ![q] = [rows[q] EXCEPT !.lease = rows[q].lease + 1]]
    BY <1>2 DEF LeaseAges
  <2>2. rows'[r].status = rows[r].status
    BY <2>1, <1>t DEF Row
  <2> QED
    BY <1>2, <2>2 DEF LeaseAges, loop
<1>3. CASE \E w \in Workers : Touch(w)
  <2>1. rows'[r] = rows[r] \/ rows'[r] = Touched(rows[r])
    BY <1>3, <1>t DEF Touch
  <2>2. rows'[r].status = rows[r].status
    BY <2>1, <1>t DEF Touched, Row
  <2> QED
    BY <1>3, <2>2 DEF Touch, loop
<1>4. CASE \E w \in Workers : RecoverStuck(w) \/ RecoverStuckJobs(w)
  <2>1. PICK w \in Workers, table \in {Updates, Jobs} : Recover(w, table)
    BY <1>4 DEF RecoverStuck, RecoverStuckJobs
  <2>2. rows'[r] = rows[r] \/ rows'[r] = Recovered(rows[r])
    BY <2>1 DEF Recover
  <2>3. rows'[r].status = rows[r].status \/ rows'[r].status = "pending"
    BY <2>2, <1>t DEF Recovered, Row
  <2> QED
    BY <2>1, <2>3 DEF Recover, loop
<1>5. CASE \E w \in Workers, how \in {"ok", "raise", "defer"} : Handle(w, how)
  <2>1. rows'[r] = rows[r] \/ rows'[r] = Wiped(rows[r])
    BY <1>5, <1>t DEF Handle
  <2>2. rows'[r] = rows[r] \/ rows'[r].status = "gone"
    BY <2>1, <1>t DEF Wiped, AbsentRow, Row
  <2>3. mine' = mine
    BY <1>5, <1>t DEF Handle, Goto
  <2> QED
    BY <2>2, <2>3
<1>6. ASSUME NEW w \in Workers, NEW q \in Rows, Pending(q), Goto(w, "run", q, "none"),
             rows' = [rows EXCEPT ![q] = Claimed(@)]
      PROVE  /\ rows'[r] = rows[r] \/ rows'[r].status = "processing"
             /\ rows'[q].status = "processing" /\ mine' = [mine EXCEPT ![w] = q]
  BY <1>6, <1>t DEF Goto, Claimed
<1>7. CASE \E w \in Workers : \/ \E u \in Updates : ClaimUpdate(w, u)
                              \/ \E j \in Jobs : ClaimJob(w, j)
  <2>1. PICK w \in Workers, q \in Rows : /\ Pending(q) /\ Goto(w, "run", q, "none")
                                         /\ rows' = [rows EXCEPT ![q] = Claimed(@)]
    BY <1>7, <1>t DEF ClaimUpdate, ClaimJob, Oldest, Claimable
  <2> QED
    BY <1>6, <2>1
<1>8. CASE \E w \in Workers : Complete(w) \/ Fail(w) \/ Defer(w)
  <2>1. PICK w \in Workers : Complete(w) \/ Fail(w) \/ Defer(w)
    BY <1>8
  <2>2. mine' = [mine EXCEPT ![w] = NoRow]
    BY <2>1 DEF Complete, Fail, Defer, Goto
  <2>3. mine[w] # r => rows'[r] = rows[r]
    BY <2>1, <1>t DEF Complete, Fail, Defer
  <2>4. CASE mine[w] = r
    <3>1. rows'[r] \in {Completed(rows[r]), Failed(rows[r]), Deferred(rows[r])}
      BY <2>1, <2>4, <1>t DEF Complete, Fail, Defer
    <3>2. rows'[r].status # "absent" \/ rows'[r] = rows[r]
      BY <3>1, <1>t DEF Completed, Failed, Deferred, Row
    <3> QED
      BY <2>2, <2>4, <3>2
  <2> QED
    BY <2>2, <2>3, <2>4
<1>9. CASE \E w \in Workers : \/ NoUpdate(w) \/ NoJob(w) \/ FailOnWiped(w) \/ SendNotice(w)
                              \/ ClaimLoopDies(w) \/ Crash(w) \/ Restart(w)
  <2>1. PICK w \in Workers : mine' = [mine EXCEPT ![w] = NoRow] /\ rows' = rows
    BY <1>9 DEF NoUpdate, NoJob, FailOnWiped, SendNotice, ClaimLoopDies, Crash, Restart, Goto
  <2> QED
    BY <2>1
<1>10. CASE UNCHANGED <<rows, mine>>
  BY <1>10
<1> QED
  BY <1>1, <1>2, <1>3, <1>4, <1>5, <1>7, <1>8, <1>9, <1>10
     DEF Next, Step, BecomesDue, SweeperDies, loop, vars

\* A row somebody holds is there, and nobody else has judged it unless it was
\* reopened.
Live ==
    \A w \in Workers : mine[w] # NoRow =>
        /\ rows[mine[w]].status # "absent"
        /\ mine[w] \notin reopened => rows[mine[w]].status \notin {"done", "failed"}

LEMMA LiveNext == Typed /\ Exclusive /\ Live /\ [Next]_vars => Live'
<1> SUFFICES ASSUME Typed, Exclusive, Live, [Next]_vars,
                    NEW w \in Workers, mine'[w] # NoRow
             PROVE  /\ rows'[mine'[w]].status # "absent"
                    /\ mine'[w] \notin reopened' => rows'[mine'[w]].status \notin {"done", "failed"}
  BY DEF Live
<1>t. mine \in [Workers -> Rows \union {NoRow}] /\ NoRow \notin Rows
  BY ConstantsAssumption DEF Typed, TypeOK
<1>m. mine'[w] \in Rows
  BY TypedNext DEF Typed, TypeOK
<1>r. reopened \subseteq reopened'
  BY DEF Next, Step, Enqueue, EnqueueJob, BecomesDue, LeaseAges, Touch, ClaimUpdate, NoUpdate,
         ClaimJob, NoJob, Handle, Complete, Fail, FailOnWiped, Defer, SendNotice,
         ClaimLoopDies, SweeperDies, RecoverStuck, RecoverStuckJobs, Recover, Crash, Restart,
         HandedOutAgain, history, past, vars
<1>1. CASE mine'[w] = mine[w]
  <2>1. rows'[mine[w]].status # "absent"
    BY <1>1, <1>m, RowSteps DEF Live
  <2>2. ASSUME mine[w] \notin reopened', rows'[mine[w]].status \in {"done", "failed"}
        PROVE  FALSE
    <3>1. rows[mine[w]].status \notin {"done", "failed"}
      BY <1>1, <1>r, <2>2 DEF Live
    <3>2. PICK x \in Workers : mine[x] = mine[w] /\ mine' = [mine EXCEPT ![x] = NoRow]
      BY <1>1, <1>m, <2>2, <3>1, RowSteps
    <3>3. x # w
      BY <1>1, <1>t, <3>2
    <3> QED
      BY <1>1, <1>r, <2>2, <3>2, <3>3 DEF Exclusive, SharedOnlyIfReopened
  <2> QED
    BY <1>1, <2>1, <2>2
<1>2. CASE mine'[w] # mine[w]
  <2>1. rows'[mine'[w]].status = "processing"
    BY <1>2, <1>t, <1>m, RowSteps
  <2> QED
    BY <2>1
<1> QED
  BY <1>1, <1>2

LEMMA AlwaysLive == Spec => [](Typed /\ Exclusive /\ Live)
<1>1. Init => Exclusive /\ Live
  BY DEF Init, Exclusive, SharedOnlyIfReopened, Guarded, Live
<1> QED
  BY <1>1, TypedInit, TypedNext, ExclusiveNext, LiveNext, PTL DEF Spec

\* For any number of overlapping processes: a row that is done or failed is judged
\* again only if it was made pending again under a live run, by the sweep or
\* because /delete had freed its id (_complete and _fail key on the id alone).
THEOREM JudgedOnce == Spec => JudgedTwiceOnlyIfReopened
<1>1. Typed /\ Live /\ [Next]_vars
        => [\A r \in Rows \ reopened : rows[r].status \in {"done", "failed"} =>
                rows'[r].status \in {rows[r].status, "gone"}]_vars
  <2> SUFFICES ASSUME Typed, Live, [Next]_vars, NEW r \in Rows \ reopened,
                      rows[r].status \in {"done", "failed"}
               PROVE  rows'[r].status \in {rows[r].status, "gone"}
    OBVIOUS
  <2>1. r # NoRow
    BY ConstantsAssumption
  <2>2. \A w \in Workers : mine[w] # r
    BY <2>1 DEF Live
  <2> QED
    BY <2>2, SettledStep
<1> QED
  BY <1>1, AlwaysLive, PTL DEF Spec, JudgedTwiceOnlyIfReopened

LEMMA RoomInit == Init => \A u \in Updates : Room(u)
<1>1. IsFiniteSet(Workers) /\ Updates \subseteq Rows
  BY ConstantsAssumption DEF Rows
<1>2. Cardinality(Workers) \in Nat
  BY <1>1, FS_CardinalityType
<1> QED
  BY <1>1, <1>2 DEF Init, Room, Pending, AbsentRow

\* Updates first, however many processes overlap: an update that was not made
\* pending again under a process's hands waits for at most one job of each.
THEOREM FewJobsAhead ==
    Spec => [](\A u \in Updates : u \notin reopened => ahead[u] <= Cardinality(Workers))
<1> DEFINE Prompt == \A u \in Updates : u \notin reopened => Room(u)
<1>1. Init => Prompt
  BY RoomInit
<1>2. ASSUME Typed, Exclusive, Live, Prompt, [Next]_vars PROVE Prompt'
  <2>1. reopened \subseteq reopened'
    BY <1>2
       DEF Next, Step, Enqueue, EnqueueJob, BecomesDue, LeaseAges, Touch, ClaimUpdate,
           NoUpdate, ClaimJob, NoJob, Handle, Complete, Fail, FailOnWiped, Defer, SendNotice,
           ClaimLoopDies, SweeperDies, RecoverStuck, RecoverStuckJobs, Recover, Crash,
           Restart, HandedOutAgain, history, past, vars
  <2>2. ASSUME NEW u \in Updates, u \notin reopened' PROVE Room(u)'
    <3>1. Room(u) /\ u \notin reopened
      BY <1>2, <2>1, <2>2
    <3>2. u # NoRow
      BY ConstantsAssumption DEF Rows
    <3>3. \A w \in Workers : mine[w] = u => rows[u].status \notin {"absent", "done", "failed"}
      BY <1>2, <3>1, <3>2 DEF Live
    <3> QED
      BY <1>2, <3>1, <3>3, RoomNext
  <2> QED
    BY <2>2
<1>3. Prompt => \A u \in Updates : u \notin reopened => ahead[u] <= Cardinality(Workers)
  BY DEF Room
<1> QED
  BY <1>1, <1>2, <1>3, AlwaysLive, PTL DEF Spec

\* Updates first: with the one replica the README asks for, at most one job is
\* begun while an update waits to be claimed.
THEOREM JobsGiveWay ==
    ASSUME OneReplica
    PROVE  Spec => []AtMostOneJobAhead
<1> DEFINE Prompt == \A u \in Updates : Room(u)
<1>1. Init => Unsettled /\ Prompt
  BY RoomInit DEF Init, Unsettled
<1>2. ASSUME Typed, Live, Unsettled, Prompt, [Next]_vars PROVE Prompt'
  <2>1. ASSUME NEW u \in Updates PROVE Room(u)'
    <3>1. u # NoRow
      BY ConstantsAssumption DEF Rows
    <3>2. \A w \in Workers : mine[w] = u => rows[u].status \notin {"absent", "done", "failed"}
      BY <1>2, <3>1 DEF Live, Unsettled
    <3> QED
      BY <1>2, <3>2, RoomNext
  <2> QED
    BY <2>1
<1>3. Typed /\ Unsettled /\ [Next]_vars => Unsettled'
  BY OneReplica, UnsettledNext
<1>4. Prompt => AtMostOneJobAhead
  BY DEF Room, AtMostOneJobAhead
<1> QED
  BY <1>1, <1>2, <1>3, <1>4, AlwaysLive, PTL DEF Spec

-----------------------------------------------------------------------------
(* The queues implement the board, step by step.                            *)

\* Without /delete nothing is wiped, and a handler that has ended is on record
\* as having run.
Kept ==
    /\ \A r \in Rows : rows[r].status # "gone"
    /\ \A w \in Workers : pc[w] = "ran" => mine[w] \in ran

LEMMA KeptNext ==
    ASSUME Wipers = {}
    PROVE  Typed /\ Kept /\ [Next]_vars => Kept'
<1> SUFFICES ASSUME Typed, Kept, [Next]_vars PROVE Kept'
  OBVIOUS
<1> USE DEF Kept
<1>t. /\ rows \in [Rows -> Row] /\ pc \in [Workers -> PCs] /\ Holding
      /\ mine \in [Workers -> Rows \union {NoRow}]
      /\ Updates \subseteq Rows /\ Jobs \subseteq Rows
  BY DEF Typed, TypeOK, Rows
<1>1. ASSUME \A r \in Rows : rows'[r].status # "gone", ran \subseteq ran',
             \A w \in Workers : pc'[w] = "ran" => pc[w] = "ran" /\ mine'[w] = mine[w]
      PROVE  Kept'
  BY <1>1
<1>2. CASE \/ \E u \in Updates : Enqueue(u)
           \/ \E j \in Jobs : EnqueueJob(j, TRUE) \/ EnqueueJob(j, FALSE)
  <2>1. pc' = pc /\ mine' = mine /\ ran' = ran
    BY <1>2 DEF Enqueue, EnqueueJob, loop, history, past
  <2>2. \A r \in Rows : rows'[r] = rows[r] \/ rows'[r] = Inserted(rows[r])
    BY <1>2, <1>t DEF Enqueue, EnqueueJob
  <2> QED
    BY <1>1, <2>1, <2>2 DEF Inserted, AbsentRow
<1>3. CASE \E q \in Rows : LeaseAges(q)
  <2>1. PICK q \in Rows : rows' = [rows EXCEPT ![q] = [rows[q] EXCEPT !.lease = rows[q].lease + 1]]
    BY <1>3 DEF LeaseAges
  <2>2. \A r \in Rows : rows'[r].status = rows[r].status
    BY <2>1, <1>t DEF Row
  <2> QED
    BY <1>1, <1>3, <2>2 DEF LeaseAges, loop, history, past
<1>4. CASE \E w \in Workers : Touch(w)
  <2>1. \A r \in Rows : rows'[r] = rows[r] \/ rows'[r] = Touched(rows[r])
    BY <1>4, <1>t DEF Touch
  <2>2. \A r \in Rows : rows'[r].status = rows[r].status
    BY <2>1, <1>t DEF Touched, Row
  <2> QED
    BY <1>1, <1>4, <2>2 DEF Touch, loop, history, past
<1>5. CASE \E w \in Workers : RecoverStuck(w) \/ RecoverStuckJobs(w)
  <2>1. PICK w \in Workers, table \in {Updates, Jobs} : Recover(w, table)
    BY <1>5 DEF RecoverStuck, RecoverStuckJobs
  <2>2. \A r \in Rows : rows'[r] = rows[r] \/ rows'[r] = Recovered(rows[r])
    BY <2>1 DEF Recover
  <2>3. \A r \in Rows : rows'[r].status # "gone"
    BY <2>2, <1>t DEF Recovered, Row
  <2> QED
    BY <1>1, <2>1, <2>3 DEF Recover, loop
<1>6. CASE \E w \in Workers, how \in {"ok", "raise", "defer"} : Handle(w, how)
  <2>1. PICK w \in Workers, how \in {"ok", "raise", "defer"} : Handle(w, how)
    BY <1>6
  <2>2. mine[w] \in Rows /\ mine[w] \notin Wipers
    BY <2>1, <1>t DEF Handle, Holding
  <2>3. rows' = rows /\ ran' = ran \union {mine[w]} /\ mine' = mine
    BY <2>1, <2>2, <1>t DEF Handle, Goto
  <2>4. pc' = [pc EXCEPT ![w] = "ran"]
    BY <2>1 DEF Handle, Goto
  <2> QED
    BY <2>3, <2>4, <1>t
<1>7. ASSUME NEW w \in Workers, NEW where \in PCs \ {"ran"}, NEW row, NEW how,
             Goto(w, where, row, how), ran' = ran,
             \A r \in Rows : rows'[r].status # "gone"
      PROVE  Kept'
  <2>1. \A x \in Workers : pc'[x] = "ran" => pc[x] = "ran" /\ mine'[x] = mine[x]
    BY <1>7, <1>t DEF Goto
  <2> QED
    BY <1>1, <1>7, <2>1
<1>8. CASE \E w \in Workers : \/ \E u \in Updates : ClaimUpdate(w, u)
                              \/ \E j \in Jobs : ClaimJob(w, j)
  <2>1. PICK w \in Workers, q \in Rows : /\ Goto(w, "run", q, "none") /\ ran' = ran
                                         /\ rows' = [rows EXCEPT ![q] = Claimed(@)]
    BY <1>8, <1>t DEF ClaimUpdate, ClaimJob
  <2>2. \A r \in Rows : rows'[r].status # "gone"
    BY <2>1, <1>t DEF Claimed
  <2> QED
    BY <1>7, <2>1, <2>2 DEF PCs
<1>9. CASE \E w \in Workers : Complete(w) \/ Fail(w) \/ Defer(w)
  <2>1. PICK w \in Workers : Complete(w) \/ Fail(w) \/ Defer(w)
    BY <1>9
  <2>2. \A r \in Rows : \/ rows'[r] = rows[r] \/ rows'[r] = Completed(rows[r])
                        \/ rows'[r] = Failed(rows[r]) \/ rows'[r] = Deferred(rows[r])
    BY <2>1, <1>t DEF Complete, Fail, Defer
  <2>3. ASSUME NEW r \in Rows PROVE rows'[r].status # "gone"
    <3>1. rows[r] \in Row /\ rows[r].status # "gone"
      BY <1>t
    <3>2. /\ Completed(rows[r]).status # "gone" /\ Failed(rows[r]).status # "gone"
          /\ Deferred(rows[r]).status # "gone"
      BY <3>1 DEF Completed, Failed, Deferred, Row
    <3> QED
      BY <2>2, <3>1, <3>2
  <2>4. \E where \in PCs \ {"ran"} : Goto(w, where, NoRow, "none")
    BY <2>1 DEF Complete, Fail, Defer, PCs
  <2>5. ran' = ran
    BY <2>1 DEF Complete, Fail, Defer, history, past
  <2> QED
    BY <1>7, <2>3, <2>4, <2>5
<1>10. CASE \E w \in Workers : \/ NoUpdate(w) \/ NoJob(w) \/ FailOnWiped(w) \/ SendNotice(w)
                               \/ ClaimLoopDies(w) \/ Crash(w) \/ Restart(w)
  <2>1. PICK w \in Workers : \/ NoUpdate(w) \/ NoJob(w) \/ FailOnWiped(w) \/ SendNotice(w)
                             \/ ClaimLoopDies(w) \/ Crash(w) \/ Restart(w)
    BY <1>10
  <2>2. rows' = rows /\ ran' = ran
    BY <2>1 DEF NoUpdate, NoJob, FailOnWiped, SendNotice, ClaimLoopDies, Crash, Restart, history, past
  <2>3. \E where \in PCs \ {"ran"} : Goto(w, where, NoRow, "none")
    BY <2>1 DEF NoUpdate, NoJob, FailOnWiped, SendNotice, ClaimLoopDies, Crash, Restart, PCs
  <2> QED
    BY <1>7, <2>2, <2>3
<1>11. CASE UNCHANGED <<rows, pc, mine, ran>>
  BY <1>11
<1> QED
  BY <1>2, <1>3, <1>4, <1>5, <1>6, <1>8, <1>9, <1>10, <1>11
     DEF Next, Step, BecomesDue, SweeperDies, loop, history, past, vars

\* A step that changes no row's standing and runs no handler is none of the board's.
LEMMA BoardStutter ==
    ASSUME ran' = ran,
           \A r \in Rows : rows'[r].status \in {"pending", "processing"}
                               <=> rows[r].status \in {"pending", "processing"},
           \A r \in Rows : rows'[r].status \in {"done", "failed"}
                               <=> rows[r].status \in {"done", "failed"}
    PROVE  UNCHANGED Board!board
BY DEF Board!board, Open

\* One row's standing changes.
LEMMA BoardOneRow ==
    ASSUME NEW r \in Rows, \A q \in Rows \ {r} : rows'[q].status = rows[q].status, ran' = ran
    PROVE  /\ (rows[r].status = "absent" /\ rows'[r].status = "pending") => Board!Submit(r)
           /\ (/\ rows[r].status \in {"pending", "processing"} /\ r \in ran
               /\ rows'[r].status \in {"done", "failed"}) => Board!Settle(r)
<1>1. ASSUME rows[r].status = "absent", rows'[r].status = "pending" PROVE Board!Submit(r)
  <2>1. Open' = Open \union {r} /\ r \notin Open
    BY <1>1 DEF Open
  <2>2. /\ {q \in Rows : rows'[q].status \in {"done", "failed"}}
             = {q \in Rows : rows[q].status \in {"done", "failed"}}
        /\ r \notin {q \in Rows : rows[q].status \in {"done", "failed"}}
    BY <1>1
  <2> QED
    BY <2>1, <2>2 DEF Board!Submit
<1>2. ASSUME rows[r].status \in {"pending", "processing"}, r \in ran,
             rows'[r].status \in {"done", "failed"}
      PROVE  Board!Settle(r)
  <2>1. Open' = Open \ {r} /\ r \in Open
    BY <1>2 DEF Open
  <2>2. {q \in Rows : rows'[q].status \in {"done", "failed"}}
             = {q \in Rows : rows[q].status \in {"done", "failed"}} \union {r}
    BY <1>2
  <2> QED
    BY <1>2, <2>1, <2>2 DEF Board!Settle
<1> QED
  BY <1>1, <1>2

LEMMA BoardNext ==
    ASSUME Wipers = {}, Typed, Unsettled, Live, Kept, [Next]_vars
    PROVE  [Board!Next]_(Board!board)
<1>t. /\ rows \in [Rows -> Row] /\ Holding /\ mine \in [Workers -> Rows \union {NoRow}]
      /\ Updates \subseteq Rows /\ Jobs \subseteq Rows /\ NoRow \notin Rows
      /\ \A r \in Rows : rows[r] \in Row /\ rows[r].status \in Statuses
  BY ConstantsAssumption DEF Typed, TypeOK, Rows, Row
\* What a process holds is open.
<1>h. ASSUME NEW w \in Workers, pc[w] \in {"run", "ran"}
      PROVE  mine[w] \in Rows /\ rows[mine[w]].status \in {"pending", "processing"}
  <2>1. mine[w] \in Rows /\ mine[w] # NoRow
    BY <1>h, <1>t DEF Holding
  <2>2. rows[mine[w]].status \notin {"absent", "done", "failed", "gone"}
    BY <2>1 DEF Live, Unsettled, Kept
  <2> QED
    BY <2>1, <2>2, <1>t DEF Statuses
<1>1. ASSUME NEW r \in Rows, rows' = [rows EXCEPT ![r] = Inserted(@)], ran' = ran
      PROVE  [Board!Next]_(Board!board)
  <2>1. CASE rows[r].status = "absent"
    <3>1. rows'[r].status = "pending" /\ \A q \in Rows \ {r} : rows'[q].status = rows[q].status
      BY <1>1, <1>t, <2>1 DEF Inserted, Missing, AbsentRow
    <3>2. Board!Submit(r)
      BY <1>1, <2>1, <3>1, BoardOneRow
    <3> QED
      BY <3>2 DEF Board!Next
  <2>2. CASE rows[r].status # "absent"
    <3>1. rows' = rows
      BY <1>1, <1>t, <2>2 DEF Inserted, Missing, Kept
    <3> QED
      BY <1>1, <3>1, BoardStutter
  <2> QED
    BY <2>1, <2>2
<1>2. CASE \/ \E u \in Updates : Enqueue(u)
           \/ \E j \in Jobs : EnqueueJob(j, TRUE) \/ EnqueueJob(j, FALSE)
  <2>1. PICK r \in Rows : rows' = [rows EXCEPT ![r] = Inserted(@)] /\ ran' = ran
    BY <1>2, <1>t DEF Enqueue, EnqueueJob, history, past
  <2> QED
    BY <1>1, <2>1
<1>3. CASE \E q \in Rows : LeaseAges(q)
  <2>1. PICK q \in Rows : rows' = [rows EXCEPT ![q] = [rows[q] EXCEPT !.lease = rows[q].lease + 1]]
    BY <1>3 DEF LeaseAges
  <2>2. \A r \in Rows : rows'[r].status = rows[r].status
    BY <2>1, <1>t DEF Row
  <2>3. ran' = ran
    BY <1>3 DEF LeaseAges, history, past
  <2> QED
    BY <2>2, <2>3, BoardStutter
<1>4. CASE \E w \in Workers : Touch(w)
  <2>1. \A r \in Rows : rows'[r] = rows[r] \/ rows'[r] = Touched(rows[r])
    BY <1>4, <1>t DEF Touch
  <2>2. \A r \in Rows : rows'[r].status = rows[r].status
    BY <2>1, <1>t DEF Touched, Row
  <2>3. ran' = ran
    BY <1>4 DEF Touch, history, past
  <2> QED
    BY <2>2, <2>3, BoardStutter
<1>5. CASE \E w \in Workers : RecoverStuck(w) \/ RecoverStuckJobs(w)
  <2>1. PICK w \in Workers, table \in {Updates, Jobs} : Recover(w, table)
    BY <1>5 DEF RecoverStuck, RecoverStuckJobs
  <2>2. \A r \in Rows : rows'[r] = rows[r] \/ rows'[r] = Recovered(rows[r])
    BY <2>1 DEF Recover
  <2>3. ASSUME NEW r \in Rows
        PROVE  \/ rows'[r].status = rows[r].status
               \/ rows[r].status = "processing" /\ rows'[r].status = "pending"
    BY <2>2, <1>t DEF Recovered, Stuck, Row
  <2>4. ran' = ran
    BY <2>1 DEF Recover
  <2> QED
    BY <2>3, <2>4, BoardStutter
<1>6. CASE \E w \in Workers, how \in {"ok", "raise", "defer"} : Handle(w, how)
  <2>1. PICK w \in Workers, how \in {"ok", "raise", "defer"} : Handle(w, how)
    BY <1>6
  <2>2. rows' = rows /\ ran' = ran \union {mine[w]} /\ mine[w] \in Open
    BY <2>1, <1>h DEF Handle, Open
  <2>3. Board!Carry(mine[w]) /\ mine[w] \in Rows
    BY <2>2 DEF Board!Carry, Open
  <2> QED
    BY <2>3 DEF Board!Next
<1>7. CASE \E w \in Workers : \/ \E u \in Updates : ClaimUpdate(w, u)
                              \/ \E j \in Jobs : ClaimJob(w, j)
  <2>1. PICK q \in Rows : Pending(q) /\ rows' = [rows EXCEPT ![q] = Claimed(@)] /\ ran' = ran
    BY <1>7, <1>t DEF ClaimUpdate, ClaimJob, Oldest, Claimable
  <2>2. ASSUME NEW r \in Rows
        PROVE  \/ rows'[r].status = rows[r].status
               \/ rows[r].status = "pending" /\ rows'[r].status = "processing"
    BY <2>1, <1>t DEF Claimed, Pending
  <2> QED
    BY <2>1, <2>2, BoardStutter
<1>8. CASE \E w \in Workers : Complete(w) \/ Fail(w) \/ Defer(w)
  <2>1. PICK w \in Workers : Complete(w) \/ Fail(w) \/ Defer(w)
    BY <1>8
  <2>2. PICK r \in Rows : r = mine[w] /\ r \in ran /\ rows[r].status \in {"pending", "processing"}
    BY <2>1, <1>h DEF Complete, Fail, Defer, Kept
  <2>3. ran' = ran /\ \A q \in Rows \ {r} : rows'[q].status = rows[q].status
    BY <2>1, <2>2, <1>t DEF Complete, Fail, Defer, history, past
  <2>4. rows'[r] \in {Completed(rows[r]), Failed(rows[r]), Deferred(rows[r])}
    BY <2>1, <2>2, <1>t DEF Complete, Fail, Defer
  <2>5. rows'[r].status \in {"done", "failed", "pending"}
    BY <2>2, <2>4, <1>t DEF Completed, Failed, Deferred, Row
  <2>6. CASE rows'[r].status = "pending"
    <3>1. \A q \in Rows : \/ rows'[q].status = rows[q].status
                          \/ q = r
      BY <2>3
    <3> QED
      BY <2>2, <2>3, <2>6, <3>1, BoardStutter
  <2>7. CASE rows'[r].status \in {"done", "failed"}
    <3>1. Board!Settle(r)
      BY <2>2, <2>3, <2>7, BoardOneRow
    <3> QED
      BY <3>1 DEF Board!Next
  <2> QED
    BY <2>5, <2>6, <2>7
<1>9. CASE UNCHANGED <<rows, ran>>
  BY <1>9, BoardStutter
<1> QED
  BY <1>2, <1>3, <1>4, <1>5, <1>6, <1>7, <1>8, <1>9
     DEF Next, Step, BecomesDue, NoUpdate, NoJob, FailOnWiped, SendNotice, ClaimLoopDies,
         SweeperDies, Crash, Restart, history, past, vars

\* With one replica and while the user does not wipe the queues, a task handed in
\* is carried out before it is settled, and settled once and for good: every step
\* of the queues is one of the board's, or none.
THEOREM QueuesFollowBoard ==
    ASSUME OneReplica, Wipers = {}
    PROVE  Spec => Board!Steps
<1>1. Init => Board!Init /\ Unsettled /\ Kept
  BY DEF Init, Board!Init, Open, Unsettled, Kept, AbsentRow
<1>2. Typed /\ Unsettled /\ [Next]_vars => Unsettled'
  BY OneReplica, UnsettledNext
<1>3. Typed /\ Kept /\ [Next]_vars => Kept'
  BY Wipers = {}, KeptNext
<1>4. Typed /\ Unsettled /\ Live /\ Kept /\ [Next]_vars => [Board!Next]_(Board!board)
  BY Wipers = {}, BoardNext
<1> QED
  BY <1>1, <1>2, <1>3, <1>4, AlwaysLive, PTL DEF Spec, Board!Steps
=============================================================================
