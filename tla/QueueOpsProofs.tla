--------------------------- MODULE QueueOpsProofs ---------------------------
(***************************************************************************)
(* What the statements on one queue row preserve, for the proof modules   *)
(* that build on QueueOps.                                                 *)
(***************************************************************************)
EXTENDS QueueOps, TLAPS

\* Every statement of db/queue.py and db/jobs.py leaves a well-formed row.
LEMMA RowsStayRows ==
    ASSUME NEW row \in Row
    PROVE  /\ AbsentRow \in Row /\ Inserted(row) \in Row /\ Claimed(row) \in Row
           /\ Completed(row) \in Row /\ Failed(row) \in Row /\ Deferred(row) \in Row
           /\ Touched(row) \in Row /\ Recovered(row) \in Row /\ Wiped(row) \in Row
<1>1. 0 \in 0..StuckAfter
  BY QueueAssumption
<1>2. /\ row.status \in Statuses /\ row.attempts \in Nat /\ row.lease \in 0..StuckAfter
      /\ row.attempts + 1 \in Nat
  BY DEF Row
<1>3. AbsentRow \in Row /\ Inserted(row) \in Row /\ Claimed(row) \in Row
  BY <1>1, <1>2 DEF Row, AbsentRow, Inserted, Claimed, Statuses, Missing
<1>4. Completed(row) \in Row /\ Failed(row) \in Row /\ Deferred(row) \in Row
  BY <1>1, <1>2 DEF Row, Completed, Failed, Deferred, Statuses
<1>5. Touched(row) \in Row /\ Recovered(row) \in Row /\ Wiped(row) \in Row
  BY <1>1, <1>2, <1>3 DEF Row, Touched, Recovered, Stuck, Wiped, Statuses
<1> QED
  BY <1>3, <1>4, <1>5
=============================================================================
