------------------------ MODULE PipelineLeaseProofs ------------------------
(***************************************************************************)
(* Safety of PipelineLease for every number of tasks, every lease length,  *)
(* retry budget, backoff, capacity and staleness of now(): the type        *)
(* invariant, lease fencing, one live task per key, the retry budget, the  *)
(* finality of closed tasks and the refinement of FencedTasks.             *)
(***************************************************************************)
EXTENDS PipelineLease, FiniteSetTheorems, TLAPS

\* Tasks whose retries are not bounded by the retry budget.
Exempt(t) == t \in DeepReviewTasks /\ "scoped_platform" \in FailureKinds

(***************************************************************************)
(* The strengthening of the invariants, row by row.  AcceptedClaimIsLast   *)
(* alone is not inductive: that a submission comes from the last claim     *)
(* follows only because the token on a running row is the last one         *)
(* granted.  Likewise a queued row has budget because a running one has    *)
(* overdrawn it by at most nothing.                                        *)
(***************************************************************************)
RowInv(t, r, w) ==
    /\ r \in TaskRow
    /\ w \in Nat
    /\ w # 0 => w = r.claims /\ r.status = "completed"
    /\ r.status = "running" => r.token = r.claims /\ r.claims > 0
    /\ r.status = "absent" => r.attempts = 0
    /\ r.status = "queued" /\ ~Exempt(t) => r.attempts < RetryBudget
    /\ r.status = "running" /\ ~Exempt(t) => r.attempts <= RetryBudget

RowsInv == \A t \in Tasks : RowInv(t, task[t], winner[t])

Shape ==
    /\ task \in [Tasks -> TaskRow]
    /\ winner \in [Tasks -> Nat]
    /\ openRuns \in [Tasks -> SUBSET Nat]
    /\ enabled \in BOOLEAN
    /\ generation \in 0..MaxGeneration
    /\ capacity \in Capacities

IInv == Shape /\ RowsInv /\ OneLiveTaskPerKey

-----------------------------------------------------------------------------
(* What the row operations return.                                          *)

\* Retry delays stay within the configured bounds (failPipelineTask).
LEMMA BackoffBounds == \A n \in Nat : Backoff(n) \in 0..MaxBackoff
<1> SUFFICES ASSUME NEW n \in Nat PROVE Backoff(n) \in 0..MaxBackoff
  OBVIOUS
<1>1. n * n \in Nat
  OBVIOUS
<1> DEFINE sq == n * n
<1>2. sq \in Nat
  BY <1>1
<1>3. Backoff(n) = IF sq < MinBackoff THEN MinBackoff
                   ELSE IF sq > MaxBackoff THEN MaxBackoff ELSE sq
  BY DEF Backoff
<1> HIDE DEF sq
<1> QED BY <1>2, <1>3, BoundsAssumption

\* The values the row operations write are of the columns' types.
LEMMA ColumnValues ==
    /\ NoLease \in Int
    /\ LeaseTicks \in Int
    /\ 0 \in 0..Renewals
    /\ Renewals \in 0..Renewals
    /\ 0 \in 0..MaxBackoff
    /\ {"running", "queued", "failed", "completed"} \subseteq Status
<1>1. NoLease \in Int
  BY BoundsAssumption DEF NoLease
<1>2. {"running", "queued", "failed", "completed"} \subseteq Status
  BY DEF Status, LiveStatus, Terminal
<1> QED BY <1>1, <1>2, BoundsAssumption

\* Giving a row back keeps its counters and clears its lease.
LEMMA ReleasedRow ==
  ASSUME NEW r \in TaskRow, NEW s \in Status
  PROVE  /\ Released(r, s) \in TaskRow
         /\ Released(r, s).status = s
         /\ Released(r, s).claims = r.claims
         /\ Released(r, s).attempts = r.attempts
         /\ Released(r, s).token = 0
<1> QED BY ColumnValues DEF TaskRow, Released

\* A claim takes the next token and spends one attempt.
LEMMA ClaimedRow ==
  ASSUME NEW r \in TaskRow, r.attempts < AttemptLimit
  PROVE  /\ Claimed(r) \in TaskRow
         /\ Claimed(r).status = "running"
         /\ Claimed(r).claims = r.claims + 1
         /\ Claimed(r).token = r.claims + 1
         /\ Claimed(r).attempts = r.attempts + 1
<1>1. r.attempts + 1 \in 0..AttemptLimit /\ r.claims + 1 \in Nat
  BY BoundsAssumption DEF TaskRow
<1>2. "running" \in Status
  BY ColumnValues
<1> QED BY <1>1, <1>2, ColumnValues DEF TaskRow, Claimed

\* A heartbeat changes the lease only.
LEMMA RenewedRow ==
  ASSUME NEW r \in TaskRow, r.renewals > 0
  PROVE  /\ Renewed(r) \in TaskRow
         /\ Renewed(r).status = r.status
         /\ Renewed(r).claims = r.claims
         /\ Renewed(r).token = r.token
         /\ Renewed(r).attempts = r.attempts
<1>1. r.renewals - 1 \in 0..Renewals
  BY BoundsAssumption DEF TaskRow
<1> QED BY <1>1, ColumnValues DEF TaskRow, Renewed

\* A pause refunds at most the attempt the claim spent.
LEMMA RefundedRow ==
  ASSUME NEW r \in TaskRow
  PROVE  /\ Refunded(r) \in TaskRow
         /\ Refunded(r).status = "queued"
         /\ Refunded(r).claims = r.claims
         /\ Refunded(r).attempts <= r.attempts
         /\ r.attempts > 0 => Refunded(r).attempts = r.attempts - 1
<1> DEFINE q == Released(r, "queued")
           a == IF q.attempts > 0 THEN q.attempts - 1 ELSE 0
<1>1. q \in TaskRow /\ q.status = "queued" /\ q.claims = r.claims
      /\ q.attempts = r.attempts
  BY ReleasedRow, ColumnValues
<1>2. Refunded(r) = [q EXCEPT !.attempts = a]
  BY DEF Refunded
<1>3. r.attempts \in 0..AttemptLimit
  BY DEF TaskRow
<1>4. /\ a \in 0..AttemptLimit /\ a <= r.attempts
      /\ r.attempts > 0 => a = r.attempts - 1
  BY <1>1, <1>3, BoundsAssumption
<1> HIDE DEF q, a
<1> QED BY <1>1, <1>2, <1>4 DEF TaskRow

\* A retry keeps the attempts and waits.
LEMMA BackedOffRow ==
  ASSUME NEW r \in TaskRow
  PROVE  /\ BackedOff(r) \in TaskRow
         /\ BackedOff(r).status = "queued"
         /\ BackedOff(r).claims = r.claims
         /\ BackedOff(r).attempts = r.attempts
<1> DEFINE q == Released(r, "queued")
           w == Backoff(r.attempts)
<1>1. w \in 0..MaxBackoff
  <2>1. r.attempts \in Nat
    BY BoundsAssumption DEF TaskRow
  <2> QED BY <2>1, BackoffBounds
<1>2. q \in TaskRow /\ q.status = "queued" /\ q.claims = r.claims
      /\ q.attempts = r.attempts
  BY ReleasedRow, ColumnValues
<1>3. BackedOff(r) = [q EXCEPT !.wait = w]
  BY DEF BackedOff
<1> HIDE DEF q, w
<1> QED BY <1>1, <1>2, <1>3 DEF TaskRow

-----------------------------------------------------------------------------
(* The invariant is inductive.                                              *)

LEMMA InitInv == Init => IInv
<1> SUFFICES ASSUME Init PROVE IInv
  OBVIOUS
<1>1. EmptyRow \in TaskRow
  <2>1. 0 \in 0..AttemptLimit /\ "absent" \in Status
    BY BoundsAssumption DEF Status
  <2> QED BY <2>1, ColumnValues DEF EmptyRow, TaskRow
<1>2. /\ EmptyRow.status = "absent" /\ EmptyRow.attempts = 0
  BY DEF EmptyRow
<1>3. Shape
  BY <1>1, BoundsAssumption DEF Init, Shape
<1>4. RowsInv
  BY <1>1, <1>2 DEF Init, RowsInv, RowInv
<1>5. OneLiveTaskPerKey
  BY <1>2 DEF Init, OneLiveTaskPerKey, Live, LiveStatus
<1> QED BY <1>3, <1>4, <1>5 DEF IInv

\* A step that makes no task live keeps the invariant if it keeps it row by
\* row.
LEMMA RowwiseStep ==
  ASSUME IInv, Shape',
         \A t \in Tasks : /\ RowInv(t, task'[t], winner'[t])
                          /\ task'[t].status \in LiveStatus => Live(t)
  PROVE  IInv'
<1>1. RowsInv'
  BY DEF RowsInv
<1>2. OneLiveTaskPerKey'
  BY DEF IInv, OneLiveTaskPerKey, Live
<1> QED BY <1>1, <1>2 DEF IInv

\* The same for a step that writes one row and leaves the winners alone.
LEMMA OneRowStep ==
  ASSUME IInv, NEW t \in Tasks, NEW r,
         task' = [task EXCEPT ![t] = r], winner' = winner,
         RowInv(t, r, winner[t]),
         r.status \in LiveStatus => Live(t),
         openRuns' \in [Tasks -> SUBSET Nat], UNCHANGED settings
  PROVE  IInv'
<1>1. \A u \in Tasks : task'[u] = IF u = t THEN r ELSE task[u]
  BY DEF IInv, Shape
<1>2. Shape'
  BY DEF IInv, Shape, settings, RowInv
<1>3. \A u \in Tasks : /\ RowInv(u, task'[u], winner'[u])
                       /\ task'[u].status \in LiveStatus => Live(u)
  BY <1>1 DEF IInv, RowsInv, Live
<1> QED BY <1>2, <1>3, RowwiseStep

\* Queueing: the only step that makes a task live; it checks the key.
LEMMA InsertStep ==
  ASSUME IInv, NEW t \in Tasks, InsertTask(t)
  PROVE  IInv'
<1> DEFINE r == [task[t] EXCEPT !.status = "queued"]
<1>1. task' = [task EXCEPT ![t] = r] /\ winner' = winner /\ openRuns' = openRuns
  BY DEF InsertTask, IInv, Shape
<1>2. task[t] \in TaskRow /\ RowInv(t, task[t], winner[t])
  BY DEF IInv, Shape, RowsInv
<1>3. /\ r \in TaskRow /\ r.status = "queued" /\ r.attempts = task[t].attempts
      /\ r.claims = task[t].claims
  BY <1>2, ColumnValues DEF TaskRow
<1>4. RowInv(t, r, winner[t])
  BY <1>2, <1>3, BoundsAssumption DEF RowInv, InsertTask
<1>5. \A u \in Tasks : task'[u] = IF u = t THEN r ELSE task[u]
  BY <1>1 DEF IInv, Shape
<1>6. Shape'
  BY <1>1, <1>3 DEF IInv, Shape, InsertTask, settings
<1>7. RowsInv'
  BY <1>1, <1>4, <1>5 DEF IInv, RowsInv
<1>8. OneLiveTaskPerKey'
  BY <1>5 DEF IInv, OneLiveTaskPerKey, Live, InsertTask
<1> QED BY <1>6, <1>7, <1>8 DEF IInv

\* A claim of either kind.
LEMMA ClaimStep ==
  ASSUME IInv, NEW t \in Tasks, Claimable(t), GrantLease(t), winner' = winner,
         openRuns' \in [Tasks -> SUBSET Nat], UNCHANGED settings
  PROVE  IInv'
<1> DEFINE r == Claimed(task[t])
<1>1. task[t] \in TaskRow /\ RowInv(t, task[t], winner[t])
  BY DEF IInv, Shape, RowsInv
<1>2. task[t].attempts < AttemptLimit /\ task' = [task EXCEPT ![t] = r]
  BY DEF GrantLease
<1>3. /\ r \in TaskRow /\ r.status = "running"
      /\ r.claims = task[t].claims + 1 /\ r.token = task[t].claims + 1
      /\ r.attempts = task[t].attempts + 1
  BY <1>1, <1>2, ClaimedRow
<1>4. task[t].status = "queued"
  BY DEF Claimable, Queued
<1>5. /\ task[t].claims \in Nat /\ task[t].attempts \in Nat
      /\ winner[t] \in Nat /\ winner[t] = 0
  BY <1>1, <1>4, BoundsAssumption DEF TaskRow, RowInv
<1> HIDE DEF r
<1>6. RowInv(t, r, winner[t])
  BY <1>1, <1>3, <1>4, <1>5, BoundsAssumption DEF RowInv
<1>7. Live(t)
  BY <1>4 DEF Live, LiveStatus
<1> QED BY <1>2, <1>6, <1>7, OneRowStep

-----------------------------------------------------------------------------
(* Every step other than opening, claiming and completing is quiet: each   *)
(* row keeps its status, or returns to the queue with budget left, or is   *)
(* closed without a winner.                                                *)

RowQuiet(t, r, q) ==
    /\ q \in TaskRow
    /\ q.claims = r.claims
    /\ \/ q.status = r.status /\ q.token = r.token /\ q.attempts = r.attempts
       \/ /\ r.status = "running" /\ q.status = "queued"
          /\ ~Exempt(t) => q.attempts < RetryBudget
       \/ r.status \in LiveStatus /\ q.status \in Terminal

Quiet ==
    /\ Shape'
    /\ winner' = winner
    /\ \A t \in Tasks : RowQuiet(t, task[t], task'[t])

\* A quiet step keeps the invariant.
LEMMA QuietKeepsInv == ASSUME IInv, Quiet PROVE IInv'
<1> SUFFICES ASSUME NEW t \in Tasks
             PROVE  /\ RowInv(t, task'[t], winner'[t])
                    /\ task'[t].status \in LiveStatus => Live(t)
  BY RowwiseStep DEF Quiet
<1> DEFINE r == task[t]
           q == task'[t]
           w == winner[t]
<1>1. RowInv(t, r, w) /\ RowQuiet(t, r, q) /\ winner'[t] = w
  BY DEF IInv, RowsInv, Quiet
<1>2. Live(t) <=> r.status \in LiveStatus
  BY DEF Live
<1> HIDE DEF r, q, w
<1>3. RowInv(t, q, w)
  BY <1>1 DEF RowInv, RowQuiet, LiveStatus, Terminal
<1>4. q.status \in LiveStatus => r.status \in LiveStatus
  BY <1>1 DEF RowQuiet, LiveStatus, Terminal
<1> QED BY <1>1, <1>2, <1>3, <1>4 DEF q, r

\* A step that writes one row quietly.
LEMMA OneRowQuiet ==
  ASSUME IInv, NEW t \in Tasks, NEW q,
         task' = [task EXCEPT ![t] = q], RowQuiet(t, task[t], q),
         winner' = winner, openRuns' \in [Tasks -> SUBSET Nat],
         UNCHANGED settings
  PROVE  Quiet
<1>1. \A u \in Tasks : task'[u] = IF u = t THEN q ELSE task[u]
  BY DEF IInv, Shape
<1>2. q \in TaskRow
  BY DEF RowQuiet
<1>3. Shape'
  BY <1>2 DEF IInv, Shape, settings
<1>4. \A u \in Tasks : RowQuiet(u, task[u], task'[u])
  BY <1>1 DEF RowQuiet, IInv, Shape
<1> QED BY <1>3, <1>4 DEF Quiet

\* A step that writes the rows of S quietly with operation Op, here a
\* function of the row's index.
LEMMA RowSetQuiet ==
  ASSUME IInv, NEW S \in SUBSET Tasks, NEW f,
         task' = [t \in Tasks |-> IF t \in S THEN f[t] ELSE task[t]],
         \A t \in S : RowQuiet(t, task[t], f[t]),
         winner' = winner, openRuns' \in [Tasks -> SUBSET Nat],
         UNCHANGED settings
  PROVE  Quiet
<1>1. \A t \in Tasks : task'[t] = IF t \in S THEN f[t] ELSE task[t]
  OBVIOUS
<1>2. \A t \in Tasks : RowQuiet(t, task[t], task'[t])
  BY <1>1 DEF RowQuiet, IInv, Shape
<1>3. task' \in [Tasks -> TaskRow]
  <2>1. \A t \in Tasks : (IF t \in S THEN f[t] ELSE task[t]) \in TaskRow
    BY <1>1, <1>2 DEF RowQuiet
  <2> QED BY <2>1
<1>4. Shape'
  BY <1>3 DEF IInv, Shape, settings
<1> QED BY <1>2, <1>4 DEF Quiet

\* Row facts every handler starts from.
LEMMA RowFacts ==
  ASSUME IInv, NEW t \in Tasks
  PROVE  /\ task[t] \in TaskRow /\ RowInv(t, task[t], winner[t])
         /\ task[t].attempts \in Nat
         /\ openRuns \in [Tasks -> SUBSET Nat]
  BY BoundsAssumption DEF IInv, Shape, RowsInv, TaskRow

\* Both heartbeats.
LEMMA HeartbeatQuiet ==
  ASSUME IInv, NEW t \in Tasks, NEW k,
         HeartbeatPipelineTask(t, k) \/ HeartbeatMechanicalPipelineTask(t, k)
  PROVE  Quiet
<1>1. /\ task[t].status = "running" /\ task[t].renewals > 0
      /\ winner' = winner /\ openRuns' = openRuns /\ UNCHANGED settings
      /\ \/ task' = [task EXCEPT ![t] = Renewed(task[t])]
         \/ task' = [task EXCEPT ![t] = Refunded(task[t])]
  BY DEF HeartbeatPipelineTask, HeartbeatMechanicalPipelineTask, Holds,
         Running, IInv, Shape
<1>2. openRuns' \in [Tasks -> SUBSET Nat]
  BY <1>1, RowFacts
<1>3. RowQuiet(t, task[t], Renewed(task[t]))
  BY <1>1, RowFacts, RenewedRow DEF RowQuiet
<1>4. RowQuiet(t, task[t], Refunded(task[t]))
  <2>1. /\ Refunded(task[t]) \in TaskRow
        /\ Refunded(task[t]).status = "queued"
        /\ Refunded(task[t]).claims = task[t].claims
        /\ Refunded(task[t]).attempts <= task[t].attempts
        /\ task[t].attempts > 0
             => Refunded(task[t]).attempts = task[t].attempts - 1
    BY RowFacts, RefundedRow
  <2>2. ~Exempt(t) => task[t].attempts <= RetryBudget
    BY <1>1, RowFacts DEF RowInv
  <2>3. task[t].attempts \in Nat /\ RetryBudget \in Nat \ {0}
    BY RowFacts, BoundsAssumption
  <2>4. Refunded(task[t]).attempts \in Nat
    BY <2>1, BoundsAssumption DEF TaskRow
  <2> DEFINE a == task[t].attempts
             b == Refunded(task[t]).attempts
  <2>5. ~Exempt(t) => b < RetryBudget
    <3> HIDE DEF a, b
    <3>1. a \in Nat /\ b \in Nat /\ b <= a /\ (a > 0 => b = a - 1)
      BY <2>1, <2>3, <2>4 DEF a, b
    <3> QED BY <2>2, <2>3, <3>1 DEF a
  <2> QED BY <1>1, <2>1, <2>5 DEF RowQuiet
<1> QED BY <1>1, <1>2, <1>3, <1>4, OneRowQuiet

\* A reported failure: back to the queue only within the budget.
LEMMA FailQuiet ==
  ASSUME IInv, NEW t \in Tasks, NEW k, NEW kind \in FailureKinds,
         FailPipelineTask(t, k, kind)
  PROVE  Quiet
<1>1. /\ task[t].status = "running"
      /\ winner' = winner /\ openRuns' = openRuns /\ UNCHANGED settings
      /\ task' = [task EXCEPT ![t] = IF Retrying(t, kind)
                     THEN BackedOff(task[t]) ELSE Released(task[t], "failed")]
  BY DEF FailPipelineTask, Holds, Running, IInv, Shape
<1>2. openRuns' \in [Tasks -> SUBSET Nat]
  BY <1>1, RowFacts
<1>3. ASSUME Retrying(t, kind) PROVE RowQuiet(t, task[t], BackedOff(task[t]))
  <2>1. ~Exempt(t) => task[t].attempts < RetryBudget
    BY <1>3 DEF Retrying, Exempt
  <2> QED BY <1>1, <2>1, RowFacts, BackedOffRow DEF RowQuiet
<1>4. RowQuiet(t, task[t], Released(task[t], "failed"))
  BY <1>1, RowFacts, ReleasedRow, ColumnValues
     DEF RowQuiet, LiveStatus, Terminal
<1> QED BY <1>1, <1>2, <1>3, <1>4, OneRowQuiet

\* Recovery of a running row: the queue if there is budget, else failed.
LEMMA RecoveredQuiet ==
  ASSUME NEW t, NEW r \in TaskRow, r.status = "running", r.attempts \in Nat
  PROVE  RowQuiet(t, r, Recovered(r))
<1>1. CASE r.attempts >= RetryBudget
  <2>1. Recovered(r) = Released(r, "failed")
    BY <1>1 DEF Recovered
  <2>2. /\ Released(r, "failed") \in TaskRow
        /\ Released(r, "failed").status = "failed"
        /\ Released(r, "failed").claims = r.claims
    BY ReleasedRow, ColumnValues
  <2> QED BY <2>1, <2>2 DEF RowQuiet, LiveStatus, Terminal
<1>2. CASE ~(r.attempts >= RetryBudget)
  <2>1. Recovered(r) = Released(r, "queued")
    BY <1>2 DEF Recovered
  <2>2. /\ Released(r, "queued") \in TaskRow
        /\ Released(r, "queued").status = "queued"
        /\ Released(r, "queued").claims = r.claims
        /\ Released(r, "queued").attempts = r.attempts
    BY ReleasedRow, ColumnValues
  <2>3. r.attempts < RetryBudget
    BY <1>2, BoundsAssumption
  <2> QED BY <2>1, <2>2, <2>3 DEF RowQuiet
<1> QED BY <1>1, <1>2

\* Expired leases: recovered rows have budget or are closed.
LEMMA ReconcileQuiet ==
  ASSUME IInv, NEW S \in SUBSET Tasks, ReconcileExpiredLeases(S)
  PROVE  Quiet
<1> DEFINE f == [t \in S |-> Recovered(task[t])]
<1>1. /\ winner' = winner /\ UNCHANGED settings
      /\ task' = [t \in Tasks |-> IF t \in S THEN f[t] ELSE task[t]]
  BY DEF ReconcileExpiredLeases
<1>2. openRuns' \in [Tasks -> SUBSET Nat]
  BY DEF ReconcileExpiredLeases, IInv, Shape
<1>3. ASSUME NEW t \in S PROVE RowQuiet(t, task[t], f[t])
  <2>1. t \in Tasks /\ task[t].status = "running" /\ f[t] = Recovered(task[t])
    BY <1>3 DEF ReconcileExpiredLeases, Expired, Running
  <2>2. RowQuiet(t, task[t], Recovered(task[t]))
    BY <2>1, RowFacts, RecoveredQuiet
  <2> QED BY <2>1, <2>2
<1> HIDE DEF f
<1> QED BY <1>1, <1>2, <1>3, RowSetQuiet

\* A terminal processing run cancels what is not under a live lease.
LEMMA CancelQuiet ==
  ASSUME IInv, NEW S \in SUBSET Tasks, CancelTerminalRunTasks(S)
  PROVE  Quiet
<1> DEFINE f == [t \in S |-> Released(task[t], "cancelled")]
<1>1. /\ winner' = winner /\ UNCHANGED settings /\ openRuns' = openRuns
      /\ task' = [t \in Tasks |-> IF t \in S THEN f[t] ELSE task[t]]
  BY DEF CancelTerminalRunTasks
<1>2. openRuns' \in [Tasks -> SUBSET Nat]
  BY <1>1 DEF IInv, Shape
<1>3. ASSUME NEW t \in S PROVE RowQuiet(t, task[t], f[t])
  <2>1. t \in Tasks /\ task[t].status \in LiveStatus
    BY <1>3 DEF CancelTerminalRunTasks, Expired, Running, Queued, LiveStatus
  <2>2. "cancelled" \in Status
    BY DEF Status, Terminal
  <2> QED BY <2>1, <2>2, RowFacts, ReleasedRow DEF RowQuiet, Terminal
<1> HIDE DEF f
<1> QED BY <1>1, <1>2, <1>3, RowSetQuiet

\* Overwriting the status alone, for the writers that close a task in place.
LEMMA StatusRow ==
  ASSUME NEW r \in TaskRow, NEW s \in Terminal
  PROVE  /\ [r EXCEPT !.status = s] \in TaskRow
         /\ [r EXCEPT !.status = s].status = s
         /\ [r EXCEPT !.status = s].claims = r.claims
  BY DEF TaskRow, Status

\* Retiring queued work and following an expert task that has closed.
LEMMA CloseOneQuiet ==
  ASSUME IInv, NEW t \in Tasks, NEW s \in Terminal,
         RetireQueuedTask(t, s) \/ CloseExpertPipelineTask(t, s)
  PROVE  Quiet
<1>1. /\ task[t].status \in LiveStatus
      /\ winner' = winner /\ openRuns' = openRuns /\ UNCHANGED settings
      /\ task' = [task EXCEPT ![t] = [task[t] EXCEPT !.status = s]]
  BY DEF RetireQueuedTask, CloseExpertPipelineTask, Queued, Live, LiveStatus,
         IInv, Shape
<1>2. openRuns' \in [Tasks -> SUBSET Nat]
  BY <1>1, RowFacts
<1>3. RowQuiet(t, task[t], [task[t] EXCEPT !.status = s])
  BY <1>1, RowFacts, StatusRow DEF RowQuiet
<1> QED BY <1>1, <1>2, <1>3, OneRowQuiet

\* An administrator's action on a source or an expert task.
LEMMA AdminCloseQuiet ==
  ASSUME IInv, NEW S \in SUBSET Tasks, NEW s \in Terminal, AdminCloseTasks(S, s)
  PROVE  Quiet
<1> DEFINE f == [t \in S |-> [task[t] EXCEPT !.status = s]]
<1>1. /\ winner' = winner /\ UNCHANGED settings /\ openRuns' = openRuns
      /\ task' = [t \in Tasks |-> IF t \in S THEN f[t] ELSE task[t]]
  BY DEF AdminCloseTasks
<1>2. openRuns' \in [Tasks -> SUBSET Nat]
  BY <1>1 DEF IInv, Shape
<1>3. ASSUME NEW t \in S PROVE RowQuiet(t, task[t], f[t])
  <2>1. t \in Tasks /\ task[t].status \in LiveStatus
    BY <1>3 DEF AdminCloseTasks, Live
  <2> QED BY <2>1, RowFacts, StatusRow DEF RowQuiet
<1> HIDE DEF f
<1> QED BY <1>1, <1>2, <1>3, RowSetQuiet

\* Agent runs close without touching their task.
LEMMA RunsQuiet ==
  ASSUME IInv, NEW t \in Tasks,
         \/ \E k : RecordAgentRunResult(t, k)
         \/ \E R : CloseOrphanedRuns(t, R)
  PROVE  Quiet
<1>1. /\ task' = task /\ winner' = winner /\ UNCHANGED settings
      /\ \E R : openRuns' = [openRuns EXCEPT ![t] = openRuns[t] \ R]
  <2>1. CASE \E k : RecordAgentRunResult(t, k)
    <3>1. PICK k : RecordAgentRunResult(t, k)
      BY <2>1
    <3>2. openRuns' = [openRuns EXCEPT ![t] = openRuns[t] \ {k}]
      BY <3>1 DEF RecordAgentRunResult
    <3> QED BY <3>1, <3>2 DEF RecordAgentRunResult
  <2>2. CASE \E R : CloseOrphanedRuns(t, R)
    BY <2>2 DEF CloseOrphanedRuns
  <2> QED BY <2>1, <2>2
<1>2. openRuns' \in [Tasks -> SUBSET Nat]
  BY <1>1 DEF IInv, Shape
<1>3. Shape'
  BY <1>1, <1>2 DEF IInv, Shape, settings
<1>4. \A u \in Tasks : RowQuiet(u, task[u], task'[u])
  BY <1>1 DEF RowQuiet, IInv, Shape
<1> QED BY <1>1, <1>3, <1>4 DEF Quiet

\* The operator's settings.
LEMMA SettingsQuiet ==
  ASSUME IInv, \/ \E b \in BOOLEAN : SetPipelineEnabled(b)
               \/ \E c \in Capacities : SetExecutionSettings(c)
  PROVE  Quiet
<1>1. /\ task' = task /\ winner' = winner /\ openRuns' = openRuns
      /\ enabled' \in BOOLEAN /\ generation' \in 0..MaxGeneration
      /\ capacity' \in Capacities
  BY BoundsAssumption DEF SetPipelineEnabled, SetExecutionSettings, IInv, Shape
<1>2. \A u \in Tasks : RowQuiet(u, task[u], task'[u])
  BY <1>1 DEF RowQuiet, IInv, Shape
<1> QED BY <1>1, <1>2 DEF Quiet, IInv, Shape

\* Time.
LEMMA TickQuiet == ASSUME IInv, Tick PROVE Quiet
<1> DEFINE Ticked(r) ==
      [r EXCEPT !.lease = IF @ > NoLease THEN @ - 1 ELSE @,
                !.wait = IF @ > 0 THEN @ - 1 ELSE 0]
<1>1. /\ task' = [t \in Tasks |-> Ticked(task[t])]
      /\ winner' = winner /\ openRuns' = openRuns /\ UNCHANGED settings
  BY DEF Tick, NoLease
<1>2. ASSUME NEW r \in TaskRow
      PROVE  /\ Ticked(r) \in TaskRow /\ Ticked(r).claims = r.claims
             /\ Ticked(r).status = r.status /\ Ticked(r).token = r.token
             /\ Ticked(r).attempts = r.attempts
  <2>1. (IF r.lease > NoLease THEN r.lease - 1 ELSE r.lease) \in Int
    BY ColumnValues DEF TaskRow
  <2>2. (IF r.wait > 0 THEN r.wait - 1 ELSE 0) \in 0..MaxBackoff
    BY BoundsAssumption DEF TaskRow
  <2> QED BY <2>1, <2>2 DEF TaskRow
<1> HIDE DEF Ticked
<1>3. \A t \in Tasks : task[t] \in TaskRow /\ task'[t] = Ticked(task[t])
  BY <1>1 DEF IInv, Shape
<1>4. \A t \in Tasks : RowQuiet(t, task[t], task'[t])
  BY <1>2, <1>3 DEF RowQuiet
<1>5. task' \in [Tasks -> TaskRow]
  BY <1>1, <1>2 DEF IInv, Shape
<1>6. Shape'
  BY <1>1, <1>5 DEF IInv, Shape, settings
<1> QED BY <1>1, <1>4, <1>6 DEF Quiet

-----------------------------------------------------------------------------
(* The invariant, for every step.                                           *)

\* A claim opens no agent run for mechanical work and one for AI work.
LEMMA ClaimRuns ==
  ASSUME IInv, NEW t \in Tasks,
         ClaimPipelineTask(t) \/ ClaimMechanicalPipelineTask(t)
  PROVE  /\ Claimable(t) /\ GrantLease(t) /\ winner' = winner
         /\ openRuns' \in [Tasks -> SUBSET Nat] /\ UNCHANGED settings
<1>1. task[t].claims + 1 \in Nat
  BY RowFacts DEF TaskRow
<1> QED BY <1>1
        DEF ClaimPipelineTask, ClaimMechanicalPipelineTask, IInv, Shape

\* An accepted result comes from the last claim and closes the task.
LEMMA CompleteRow ==
  ASSUME IInv, NEW t \in Tasks, NEW k, CompleteTask(t, k)
  PROVE  /\ task[t].status = "running" /\ k = task[t].claims /\ k > 0
         /\ task' = [task EXCEPT ![t] = Released(task[t], "completed")]
         /\ winner' = [winner EXCEPT ![t] = k]
         /\ openRuns' = openRuns /\ UNCHANGED settings
  BY RowFacts DEF CompleteTask, Holds, Running, RowInv, IInv, Shape

LEMMA CompleteStep ==
  ASSUME IInv, NEW t \in Tasks, NEW k, CompleteTask(t, k)
  PROVE  IInv'
<1> DEFINE q == Released(task[t], "completed")
<1>1. /\ task[t].status = "running" /\ k = task[t].claims /\ k > 0
      /\ task' = [task EXCEPT ![t] = q] /\ winner' = [winner EXCEPT ![t] = k]
      /\ openRuns' = openRuns /\ UNCHANGED settings
  BY CompleteRow
<1>2. /\ q \in TaskRow /\ q.status = "completed" /\ q.claims = task[t].claims
  BY RowFacts, ReleasedRow, ColumnValues
<1>3. k \in Nat
  BY <1>1, RowFacts DEF TaskRow
<1> HIDE DEF q
<1>4. RowInv(t, q, k)
  BY <1>1, <1>2, <1>3 DEF RowInv
<1>5. Shape'
  BY <1>1, <1>2, <1>3 DEF IInv, Shape, settings
<1>6. \A u \in Tasks : /\ task'[u] = IF u = t THEN q ELSE task[u]
                       /\ winner'[u] = IF u = t THEN k ELSE winner[u]
  BY <1>1 DEF IInv, Shape
<1>7. \A u \in Tasks : /\ RowInv(u, task'[u], winner'[u])
                       /\ task'[u].status \in LiveStatus => Live(u)
  BY <1>2, <1>4, <1>6 DEF IInv, RowsInv, Live, LiveStatus
<1> QED BY <1>5, <1>7, RowwiseStep

\* What a step can be.
LEMMA StepKinds ==
  ASSUME IInv, [Next]_vars
  PROVE  \/ Quiet
         \/ \E t \in Tasks : \/ InsertTask(t)
                             \/ ClaimPipelineTask(t)
                             \/ ClaimMechanicalPipelineTask(t)
                             \/ \E k : CompleteTask(t, k)
<1>1. CASE UNCHANGED vars
  <2>1. \A u \in Tasks : RowQuiet(u, task[u], task'[u])
    BY <1>1 DEF RowQuiet, IInv, Shape, vars
  <2> QED BY <1>1, <2>1 DEF Quiet, IInv, Shape, vars, settings
<1>2. CASE \E t \in Tasks : InsertTask(t)
  BY <1>2
<1>3. CASE Claim
  BY <1>3 DEF Claim
<1>4. CASE \E t \in Tasks : \E k \in 1..task[t].claims : ClientCall(t, k)
  <2>1. PICK t \in Tasks : \E k \in 1..task[t].claims : ClientCall(t, k)
    BY <1>4
  <2>2. PICK k : ClientCall(t, k)
    BY <2>1
  <2> QED BY <2>2, HeartbeatQuiet, FailQuiet, RunsQuiet DEF ClientCall
<1>5. CASE Reconcile
  BY <1>5, ReconcileQuiet DEF Reconcile
<1>6. CASE CloseOrphans
  BY <1>6, RunsQuiet DEF CloseOrphans
<1>7. CASE \E S \in SUBSET Tasks : CancelTerminalRunTasks(S)
  BY <1>7, CancelQuiet
<1>8. CASE \E t \in Tasks, status \in Terminal :
             RetireQueuedTask(t, status) \/ CloseExpertPipelineTask(t, status)
  BY <1>8, CloseOneQuiet
<1>9. CASE \E S \in SUBSET Tasks, status \in Terminal : AdminCloseTasks(S, status)
  BY <1>9, AdminCloseQuiet
<1>10. CASE \/ \E b \in BOOLEAN : SetPipelineEnabled(b)
            \/ \E c \in Capacities : SetExecutionSettings(c)
  BY <1>10, SettingsQuiet
<1>11. CASE Tick
  BY <1>11, TickQuiet
<1> QED BY <1>1, <1>2, <1>3, <1>4, <1>5, <1>6, <1>7, <1>8, <1>9, <1>10, <1>11
        DEF Next

LEMMA NextInv == IInv /\ [Next]_vars => IInv'
<1> SUFFICES ASSUME IInv, [Next]_vars PROVE IInv'
  OBVIOUS
<1>1. CASE Quiet
  BY <1>1, QuietKeepsInv
<1>2. ASSUME NEW t \in Tasks, InsertTask(t) PROVE IInv'
  BY <1>2, InsertStep
<1>3. ASSUME NEW t \in Tasks,
             ClaimPipelineTask(t) \/ ClaimMechanicalPipelineTask(t)
      PROVE  IInv'
  BY <1>3, ClaimRuns, ClaimStep
<1>4. ASSUME NEW t \in Tasks, NEW k, CompleteTask(t, k) PROVE IInv'
  BY <1>4, CompleteStep
<1> QED BY <1>1, <1>2, <1>3, <1>4, StepKinds

\* The strengthened invariant holds in every behaviour of the queue.
THEOREM Invariance == Spec => []IInv
<1> QED BY InitInv, NextInv, PTL DEF Spec

-----------------------------------------------------------------------------
(* The properties.                                                          *)

\* Every column keeps its type and the CHECK on attempts is never reached
\* from a state the code produces (pipeline_tasks, pipeline_settings).
THEOREM TypeCorrect == Spec => []TypeOK
<1>1. IInv => TypeOK
  BY DEF IInv, Shape, TypeOK
<1> QED BY <1>1, Invariance, PTL

\* Lease fencing: whatever late or repeated calls arrive, the result that
\* completed a task is the one of its last claim (assertPipelineLease).
THEOREM LeaseFencing == Spec => []AcceptedClaimIsLast
<1>1. IInv => AcceptedClaimIsLast
  BY DEF IInv, RowsInv, RowInv, AcceptedClaimIsLast
<1> QED BY <1>1, Invariance, PTL

\* Two live rows never share a dedupe key (insertTask).
THEOREM DedupeKeys == Spec => []OneLiveTaskPerKey
<1>1. IInv => OneLiveTaskPerKey
  BY DEF IInv
<1> QED BY <1>1, Invariance, PTL

\* A queued task can be claimed without running into the CHECK on attempts
\* (reconcileExpiredLeases, failPipelineTask, heartbeatPipelineTask).
THEOREM RetryBudgetHolds == Spec => []QueuedTaskHasBudget
<1>1. IInv => QueuedTaskHasBudget
  BY DEF IInv, RowsInv, RowInv, QueuedTaskHasBudget, Queued, Exempt
<1> QED BY <1>1, Invariance, PTL

\* Effects of the steps that are not quiet, on all rows.
LEMMA LoudRows ==
  ASSUME IInv, NEW t \in Tasks
  PROVE  /\ InsertTask(t) =>
              /\ task[t].status = "absent" /\ winner' = winner
              /\ \A u \in Tasks : KeyOf[u] = KeyOf[t] => ~Live(u)
              /\ \A u \in Tasks :
                   /\ task'[u].claims = task[u].claims
                   /\ task'[u].status = IF u = t THEN "queued" ELSE task[u].status
         /\ ClaimPipelineTask(t) \/ ClaimMechanicalPipelineTask(t) =>
              /\ task[t].status = "queued" /\ winner' = winner
              /\ \A u \in Tasks :
                   /\ task'[u].claims = IF u = t THEN task[t].claims + 1
                                        ELSE task[u].claims
                   /\ task'[u].status = IF u = t THEN "running" ELSE task[u].status
         /\ \A k : CompleteTask(t, k) =>
              /\ task[t].status = "running"
              /\ k = task[t].claims /\ k > 0
              /\ winner' = [winner EXCEPT ![t] = k]
              /\ \A u \in Tasks :
                   /\ task'[u].claims = task[u].claims
                   /\ task'[u].status = IF u = t THEN "completed" ELSE task[u].status
<1>1. InsertTask(t) =>
        /\ task[t].status = "absent" /\ winner' = winner
        /\ \A u \in Tasks : KeyOf[u] = KeyOf[t] => ~Live(u)
        /\ \A u \in Tasks :
             /\ task'[u].claims = task[u].claims
             /\ task'[u].status = IF u = t THEN "queued" ELSE task[u].status
  BY DEF InsertTask, IInv, Shape, TaskRow
<1>2. ASSUME ClaimPipelineTask(t) \/ ClaimMechanicalPipelineTask(t)
      PROVE  /\ task[t].status = "queued" /\ winner' = winner
             /\ \A u \in Tasks :
                  /\ task'[u].claims = IF u = t THEN task[t].claims + 1
                                       ELSE task[u].claims
                  /\ task'[u].status = IF u = t THEN "running" ELSE task[u].status
  <2>1. Claimable(t) /\ GrantLease(t) /\ winner' = winner
    BY <1>2, ClaimRuns
  <2>2. /\ Claimed(task[t]).claims = task[t].claims + 1
        /\ Claimed(task[t]).status = "running"
        /\ task' = [task EXCEPT ![t] = Claimed(task[t])]
    BY <2>1, RowFacts, ClaimedRow DEF GrantLease
  <2> QED BY <2>1, <2>2 DEF Claimable, Queued, IInv, Shape
<1>3. ASSUME NEW k, CompleteTask(t, k)
      PROVE  /\ task[t].status = "running"
             /\ k = task[t].claims /\ k > 0
             /\ winner' = [winner EXCEPT ![t] = k]
             /\ \A u \in Tasks :
                  /\ task'[u].claims = task[u].claims
                  /\ task'[u].status = IF u = t THEN "completed"
                                       ELSE task[u].status
  <2>1. /\ Released(task[t], "completed").claims = task[t].claims
        /\ Released(task[t], "completed").status = "completed"
    BY RowFacts, ReleasedRow, ColumnValues
  <2> QED BY <1>3, <2>1, CompleteRow DEF IInv, Shape
<1> QED BY <1>1, <1>2, <1>3

\* No step reopens a closed task, grants it again or changes its winner
\* (every WHERE on status and lease token in pipeline.ts).
THEOREM ClosedForGood == Spec => ClosedTasksStayClosed
<1> DEFINE Kept(t) == /\ task'[t].status = task[t].status
                      /\ task'[t].claims = task[t].claims
                      /\ winner'[t] = winner[t]
<1>1. ASSUME IInv, [Next]_vars, NEW t \in Tasks, task[t].status \in Terminal
      PROVE  Kept(t)
  <2>1. /\ task[t].status # "absent" /\ task[t].status # "queued"
        /\ task[t].status # "running" /\ task[t].status \notin LiveStatus
    BY <1>1 DEF Terminal, LiveStatus
  <2>2. CASE Quiet
    BY <1>1, <2>1, <2>2 DEF Quiet, RowQuiet
  <2>3. ASSUME NEW u \in Tasks,
               \/ InsertTask(u)
               \/ ClaimPipelineTask(u)
               \/ ClaimMechanicalPipelineTask(u)
               \/ \E k : CompleteTask(u, k)
        PROVE  Kept(t)
    <3>1. u # t
      BY <1>1, <2>1, <2>3, LoudRows
    <3>2. winner'[t] = winner[t]
      BY <1>1, <2>3, <3>1, LoudRows DEF IInv, Shape
    <3> QED BY <1>1, <2>3, <3>1, <3>2, LoudRows
  <2> QED BY <1>1, <2>2, <2>3, StepKinds
<1>2. IInv /\ [Next]_vars =>
        [\A t \in Tasks : task[t].status \in Terminal => Kept(t)]_vars
  BY <1>1
<1> QED BY <1>2, Invariance, PTL DEF Spec, ClosedTasksStayClosed

-----------------------------------------------------------------------------
(* Capacity.                                                                *)

\* Row r is under a live lease.
RowLive(r) == r.status = "running" /\ r.lease > 0

NoNewLease == \A t \in Tasks : RowLive(task'[t]) => RowLive(task[t])

LEMMA LiveAiRows ==
  /\ LiveAi = {t \in AiTasks : RowLive(task[t])}
  /\ LiveAi' = {t \in AiTasks : RowLive(task'[t])}
  BY DEF LiveAi, Running, RowLive

\* A row that is given back holds no live lease.
LEMMA GivenBack ==
  ASSUME NEW r \in TaskRow
  PROVE  /\ \A s \in Status \ {"running"} : ~RowLive(Released(r, s))
         /\ ~RowLive(Refunded(r))
         /\ ~RowLive(BackedOff(r))
         /\ ~RowLive(Recovered(r))
<1>1. \A s \in Status \ {"running"} : ~RowLive(Released(r, s))
  BY ReleasedRow DEF RowLive
<1>2. ~RowLive(Refunded(r))
  BY RefundedRow DEF RowLive
<1>3. BackedOff(r).status = "queued"
  BY ReleasedRow, ColumnValues DEF BackedOff, TaskRow
<1>4. Recovered(r).status \in {"failed", "queued"}
  BY ReleasedRow, ColumnValues DEF Recovered
<1> QED BY <1>1, <1>2, <1>3, <1>4 DEF RowLive

\* Only a claim makes a lease live: a heartbeat renews one that still is.
LEMMA OnlyClaimsLease ==
  ASSUME IInv, [Next]_vars
  PROVE  \/ NoNewLease
         \/ \E t \in Tasks : ClaimPipelineTask(t) \/ ClaimMechanicalPipelineTask(t)
<1> USE DEF NoNewLease
<1>0. \A t \in Tasks : task[t] \in TaskRow
  BY DEF IInv, Shape
<1>1. CASE UNCHANGED vars
  BY <1>1 DEF vars
<1>2. ASSUME NEW t \in Tasks, InsertTask(t) PROVE NoNewLease
  BY <1>2, <1>0 DEF InsertTask, IInv, Shape, RowLive, TaskRow
<1>3. ASSUME NEW t \in Tasks, NEW k, ClientCall(t, k) PROVE NoNewLease
  <2>1. CASE HeartbeatPipelineTask(t, k) \/ HeartbeatMechanicalPipelineTask(t, k)
    <3>1. RowLive(task[t])
      BY <2>1 DEF HeartbeatPipelineTask, HeartbeatMechanicalPipelineTask,
                  Holds, LeaseLive, Running, RowLive
    <3>2. \A u \in Tasks \ {t} : task'[u] = task[u]
      BY <2>1, <1>0 DEF HeartbeatPipelineTask, HeartbeatMechanicalPipelineTask,
                        IInv, Shape
    <3> QED BY <3>1, <3>2
  <2>2. ASSUME CompleteTask(t, k) \/ \E kind \in FailureKinds : FailPipelineTask(t, k, kind)
        PROVE  NoNewLease
    <3>1. /\ \A u \in Tasks \ {t} : task'[u] = task[u]
          /\ \/ task'[t] = Released(task[t], "completed")
             \/ task'[t] = BackedOff(task[t])
             \/ task'[t] = Released(task[t], "failed")
      BY <2>2, <1>0 DEF CompleteTask, FailPipelineTask, IInv, Shape
    <3>2. ~RowLive(task'[t])
      BY <3>1, <1>0, GivenBack, ColumnValues
    <3> QED BY <3>1, <3>2
  <2>3. CASE RecordAgentRunResult(t, k)
    BY <2>3 DEF RecordAgentRunResult
  <2> QED BY <1>3, <2>1, <2>2, <2>3 DEF ClientCall
<1>4. ASSUME NEW S \in SUBSET Tasks,
             ReconcileExpiredLeases(S) \/ CancelTerminalRunTasks(S)
      PROVE  NoNewLease
  <2>1. \A t \in Tasks : \/ task'[t] = task[t]
                         \/ task'[t] = Recovered(task[t])
                         \/ task'[t] = Released(task[t], "cancelled")
    BY <1>4 DEF ReconcileExpiredLeases, CancelTerminalRunTasks
  <2>2. "cancelled" \in Status \ {"running"}
    BY DEF Status, Terminal
  <2> QED BY <2>1, <2>2, <1>0, GivenBack
<1>5. ASSUME NEW t \in Tasks, NEW R, CloseOrphanedRuns(t, R) PROVE NoNewLease
  BY <1>5 DEF CloseOrphanedRuns
<1>6. ASSUME NEW S \in SUBSET Tasks, NEW status \in Terminal,
             \/ AdminCloseTasks(S, status)
             \/ \E t \in S : \/ RetireQueuedTask(t, status)
                             \/ CloseExpertPipelineTask(t, status)
      PROVE  NoNewLease
  <2>1. \A t \in Tasks : task'[t].status \in Terminal \/ task'[t] = task[t]
    BY <1>6, <1>0 DEF AdminCloseTasks, RetireQueuedTask,
                      CloseExpertPipelineTask, IInv, Shape, TaskRow
  <2> QED BY <2>1 DEF RowLive, Terminal
<1>7. ASSUME \/ \E b \in BOOLEAN : SetPipelineEnabled(b)
             \/ \E c \in Capacities : SetExecutionSettings(c)
      PROVE  NoNewLease
  BY <1>7 DEF SetPipelineEnabled, SetExecutionSettings
<1>8. ASSUME Tick PROVE NoNewLease
  <2>1. \A t \in Tasks :
          /\ task'[t].status = task[t].status
          /\ task'[t].lease \in {task[t].lease, task[t].lease - 1}
    BY <1>8, <1>0 DEF Tick, TaskRow
  <2>2. \A t \in Tasks : task[t].lease \in Int
    BY <1>0 DEF TaskRow
  <2> QED BY <2>1, <2>2 DEF RowLive
<1>9. (\E t \in Tasks, status \in Terminal :
         RetireQueuedTask(t, status) \/ CloseExpertPipelineTask(t, status))
      => NoNewLease
  <2> SUFFICES ASSUME NEW t \in Tasks, NEW status \in Terminal,
                      \/ RetireQueuedTask(t, status)
                      \/ CloseExpertPipelineTask(t, status)
               PROVE  NoNewLease
    OBVIOUS
  <2>1. {t} \in SUBSET Tasks /\ t \in {t}
    OBVIOUS
  <2> QED BY <2>1, <1>6
<1> HIDE DEF NoNewLease
<1> QED BY <1>1, <1>2, <1>3, <1>4, <1>5, <1>6, <1>7, <1>8, <1>9
        DEF Next, Claim, Reconcile, CloseOrphans

\* "Reducing capacity drains runs": while more AI leases are live than the
\* capacity allows, no step makes another one live (claimPipelineTask).
THEOREM CapacityDrains == Spec => OverCapacityOnlyDrains
<1>1. ASSUME IInv, [Next]_vars, Cardinality(LiveAi') > capacity'
      PROVE  LiveAi' \subseteq LiveAi
  <2>1. CASE NoNewLease
    BY <2>1, LiveAiRows, TasksAssumption DEF NoNewLease
  <2>2. ASSUME NEW t \in Tasks, ClaimMechanicalPipelineTask(t)
        PROVE  LiveAi' \subseteq LiveAi
    <3>1. t \notin AiTasks /\ \A u \in Tasks \ {t} : task'[u] = task[u]
      BY <2>2, <1>1 DEF ClaimMechanicalPipelineTask, GrantLease, IInv, Shape
    <3> QED BY <3>1, LiveAiRows, TasksAssumption
  <2>3. ASSUME NEW t \in Tasks, ClaimPipelineTask(t) PROVE FALSE
    <3>1. t \in AiTasks /\ \A u \in Tasks \ {t} : task'[u] = task[u]
      BY <2>3, <1>1 DEF ClaimPipelineTask, GrantLease, IInv, Shape
    <3>2. LiveAi' \subseteq LiveAi \cup {t}
      BY <3>1, LiveAiRows, TasksAssumption
    <3>3. IsFiniteSet(LiveAi) /\ IsFiniteSet(LiveAi')
      <4>1. LiveAi \in SUBSET Tasks /\ LiveAi' \in SUBSET Tasks
        BY LiveAiRows, TasksAssumption
      <4> QED BY <4>1, FS_Subset, TasksAssumption
    <3>4. Cardinality(LiveAi) \in Nat /\ Cardinality(LiveAi') \in Nat
      BY <3>3, FS_CardinalityType
    <3>5. Cardinality(LiveAi') <= Cardinality(LiveAi) + 1
      <4>1. /\ IsFiniteSet(LiveAi \cup {t})
            /\ Cardinality(LiveAi \cup {t}) <= Cardinality(LiveAi) + 1
        BY <3>3, <3>4, FS_AddElement
      <4>2. Cardinality(LiveAi') <= Cardinality(LiveAi \cup {t})
        BY <3>2, <4>1, FS_Subset
      <4>3. Cardinality(LiveAi \cup {t}) \in Nat
        BY <4>1, FS_CardinalityType
      <4> QED BY <4>1, <4>2, <4>3, <3>4
    <3>6. Cardinality(LiveAi) < capacity /\ capacity' = capacity
      BY <2>3 DEF ClaimPipelineTask, settings
    <3>7. capacity \in Nat
      BY <1>1, CapacityAssumption DEF IInv, Shape
    <3> QED BY <1>1, <3>4, <3>5, <3>6, <3>7
  <2> QED BY <1>1, <2>1, <2>2, <2>3, OnlyClaimsLease
<1>2. IInv /\ [Next]_vars =>
        [Cardinality(LiveAi') > capacity' => LiveAi' \subseteq LiveAi]_vars
  BY <1>1
<1> QED BY <1>2, Invariance, PTL DEF Spec, OverCapacityOnlyDrains

-----------------------------------------------------------------------------
(* The refinement of FencedTasks.                                           *)

LEMMA InitRefines == Init => Fenced!Init
  BY DEF Init, Fenced!Init, Phase, Granted, EmptyRow

\* Phases and grants, row by row.
LEMMA PhaseOf ==
  ASSUME NEW t \in Tasks
  PROVE  /\ Phase[t] = IF task[t].status = "absent" THEN "absent"
                       ELSE IF task[t].status \in LiveStatus THEN "open"
                       ELSE "closed"
         /\ Granted[t] = task[t].claims
  BY DEF Phase, Granted, Live

LEMMA PhaseOfPrime ==
  ASSUME NEW t \in Tasks
  PROVE  /\ Phase'[t] = IF task'[t].status = "absent" THEN "absent"
                        ELSE IF task'[t].status \in LiveStatus THEN "open"
                        ELSE "closed"
         /\ Granted'[t] = task'[t].claims
  BY DEF Phase, Granted, Live

LEMMA MapsAreFunctions ==
  /\ Phase = [t \in Tasks |-> Phase[t]] /\ Phase' = [t \in Tasks |-> Phase'[t]]
  /\ Granted = [t \in Tasks |-> Granted[t]]
  /\ Granted' = [t \in Tasks |-> Granted'[t]]
  BY DEF Phase, Granted

\* A quiet step gives up the tasks it closes, possibly none.
LEMMA QuietAbandons == ASSUME IInv, Quiet PROVE Fenced!Next
<1> DEFINE S == {t \in Tasks : Phase[t] = "open" /\ Phase'[t] = "closed"}
<1>1. \A t \in S : Phase[t] = "open"
  OBVIOUS
<1>2. \A t \in Tasks : Phase'[t] = IF t \in S THEN "closed" ELSE Phase[t]
  <2> SUFFICES ASSUME NEW t \in Tasks
               PROVE  Phase'[t] = IF t \in S THEN "closed" ELSE Phase[t]
    OBVIOUS
  <2>1. RowQuiet(t, task[t], task'[t])
    BY DEF Quiet
  <2>2. \/ task'[t].status = task[t].status
        \/ task[t].status = "running" /\ task'[t].status = "queued"
        \/ task[t].status \in LiveStatus /\ task'[t].status \in Terminal
    BY <2>1 DEF RowQuiet
  <2> HIDE DEF S
  <2>3. t \in S <=> Phase[t] = "open" /\ Phase'[t] = "closed"
    BY DEF S
  <2> QED BY <2>2, <2>3, PhaseOf, PhaseOfPrime DEF LiveStatus, Terminal
<1>3. Granted' = Granted
  <2>1. \A t \in Tasks : task'[t].claims = task[t].claims
    BY DEF Quiet, RowQuiet
  <2> QED BY <2>1 DEF Granted
<1>4. Phase' = [t \in Tasks |-> IF t \in S THEN "closed" ELSE Phase[t]]
  BY <1>2, MapsAreFunctions
<1>5. winner' = winner
  BY DEF Quiet
<1>6. Fenced!Abandon(S)
  BY <1>1, <1>3, <1>4, <1>5 DEF Fenced!Abandon
<1> QED BY <1>6 DEF Fenced!Next

LEMMA NextRefines == IInv /\ [Next]_vars => [Fenced!Next]_(Fenced!vars)
<1> SUFFICES ASSUME IInv, [Next]_vars PROVE Fenced!Next
  OBVIOUS
<1>1. CASE Quiet
  BY <1>1, QuietAbandons
<1>2. ASSUME NEW t \in Tasks, InsertTask(t) PROVE Fenced!Open(t)
  <2>1. Phase[t] = "absent"
    BY <1>2, LoudRows, PhaseOf
  <2>2. \A u \in Tasks : KeyOf[u] = KeyOf[t] => Phase[u] # "open"
    BY <1>2, LoudRows DEF Phase
  <2>3. \A u \in Tasks : Phase'[u] = IF u = t THEN "open" ELSE Phase[u]
    BY <1>2, LoudRows, PhaseOf, PhaseOfPrime DEF LiveStatus
  <2>4. Phase' = [Phase EXCEPT ![t] = "open"]
    BY <2>3, MapsAreFunctions
  <2>5. Granted' = Granted
    BY <1>2, LoudRows DEF Granted
  <2> QED BY <1>2, <2>1, <2>2, <2>4, <2>5, LoudRows DEF Fenced!Open
<1>3. ASSUME NEW t \in Tasks,
             ClaimPipelineTask(t) \/ ClaimMechanicalPipelineTask(t)
      PROVE  Fenced!Grant(t)
  <2>1. Phase[t] = "open"
    BY <1>3, LoudRows, PhaseOf DEF LiveStatus
  <2>2. \A u \in Tasks : Phase'[u] = Phase[u]
    BY <1>3, LoudRows, PhaseOf, PhaseOfPrime DEF LiveStatus
  <2>3. Phase' = Phase
    BY <2>2, MapsAreFunctions
  <2>4. \A u \in Tasks : Granted'[u] = IF u = t THEN Granted[t] + 1 ELSE Granted[u]
    BY <1>3, LoudRows, PhaseOf, PhaseOfPrime
  <2>5. Granted' = [Granted EXCEPT ![t] = @ + 1]
    BY <2>4, MapsAreFunctions
  <2> QED BY <1>3, <2>1, <2>3, <2>5, LoudRows DEF Fenced!Grant
<1>4. ASSUME NEW t \in Tasks, NEW k, CompleteTask(t, k) PROVE Fenced!Accept(t)
  <2>1. Phase[t] = "open" /\ Granted[t] = k /\ k > 0
    BY <1>4, LoudRows, PhaseOf DEF LiveStatus
  <2>2. \A u \in Tasks : Phase'[u] = IF u = t THEN "closed" ELSE Phase[u]
    BY <1>4, LoudRows, PhaseOf, PhaseOfPrime DEF LiveStatus
  <2>3. Phase' = [Phase EXCEPT ![t] = "closed"]
    BY <2>2, MapsAreFunctions
  <2>4. Granted' = Granted
    BY <1>4, LoudRows DEF Granted
  <2> QED BY <1>4, <2>1, <2>3, <2>4, LoudRows DEF Fenced!Accept
<1> QED BY <1>1, <1>2, <1>3, <1>4, StepKinds DEF Fenced!Next

\* The queue implements FencedTasks: whatever clients, the clock, recovery
\* and administrators do, a task is opened once under a free key, granted to
\* one claimant after another and closed once, by its last claim or by none.
THEOREM Refinement == Spec => ImplementsFencedTasks
<1> QED BY InitRefines, NextRefines, Invariance, PTL
        DEF Spec, Fenced!Spec, ImplementsFencedTasks
=============================================================================
