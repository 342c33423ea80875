--------------------------- MODULE PipelineLease ---------------------------
(***************************************************************************)
(* The lease life cycle of a row of pipeline_tasks and of the agent_runs   *)
(* opened for it: src/domain/pipeline.ts, with the operator's pause and    *)
(* capacity (src/domain/admin.ts, src/domain/pipeline-execution.ts) and    *)
(* the other writers that close a task behind its holder's back.           *)
(*                                                                         *)
(* A claim is named by its ordinal on its task: the n-th claim of t holds  *)
(* lease token n.  The code draws 256 random bits and stores their hash,   *)
(* so a token never equals one of another claim; 0 stands for NULL.        *)
(* Executors and workers are not processes here: a client may present any  *)
(* token it was ever given, at any time, any number of times, or never     *)
(* again.  That covers crashes, lost answers, late calls and client        *)
(* retries.                                                                *)
(*                                                                         *)
(* Time is relative: lease[t] is the number of ticks to lease_until and    *)
(* wait the number of ticks to available_at.                               *)
(***************************************************************************)
EXTENDS Integers, FiniteSets

CONSTANTS
    Tasks,            \* task rows
    AiTasks,          \* those of an AI task type; the rest are mechanical
    DeepReviewTasks,  \* AI tasks of type candidate_deep_review, medium pass
    KeyOf,            \* KeyOf[t] is the dedupe_key of row t
    Capacities,       \* values an operator gives max_concurrent_ai_runs
    FailureKinds,     \* failure reports executors send
    LeaseTicks,       \* config.taskLeaseSeconds
    StaleTicks,       \* bound on how far a transaction's now() lags its commit
    Renewals,         \* heartbeats of one claim before its run time limit
    RetryBudget,      \* 5 in the code
    AttemptLimit,     \* 10: CHECK (attempts BETWEEN 0 AND 10)
    MinBackoff,       \* 2 s in the code
    MaxBackoff,       \* 60 s in the code
    MaxGeneration     \* bound on control_generation (pauses and resumes)

ASSUME TasksAssumption ==
    /\ DeepReviewTasks \subseteq AiTasks
    /\ AiTasks \subseteq Tasks
    /\ IsFiniteSet(Tasks)

ASSUME KeyAssumption == DOMAIN KeyOf = Tasks

ASSUME BoundsAssumption ==
    /\ LeaseTicks \in Nat \ {0}
    /\ StaleTicks \in Nat
    /\ Renewals \in Nat
    /\ RetryBudget \in Nat \ {0}
    /\ AttemptLimit \in Nat
    /\ RetryBudget <= AttemptLimit
    /\ MinBackoff \in Nat
    /\ MaxBackoff \in Nat
    /\ MinBackoff <= MaxBackoff
    /\ MaxGeneration \in Nat

ASSUME CapacityAssumption == Capacities \subseteq Nat \ {0} /\ Capacities # {}

ASSUME FailureAssumption ==
    FailureKinds \subseteq {"terminal", "ordinary", "scoped_platform"}

VARIABLES
    task,        \* task[t]: the row
    winner,      \* winner[t]: the claim whose submission completed t, 0 if none
    openRuns,    \* openRuns[t]: claims of t whose agent_runs row is 'running'
    enabled,     \* pipeline_settings.enabled
    generation,  \* pipeline_settings.control_generation
    capacity     \* pipeline_settings.max_concurrent_ai_runs

vars == <<task, winner, openRuns, enabled, generation, capacity>>
settings == <<enabled, generation, capacity>>

Terminal == {"completed", "failed", "cancelled", "skipped"}
\* The code also lists 'claimed'; nothing in it ever writes that value.
LiveStatus == {"queued", "running"}
Status == {"absent"} \cup LiveStatus \cup Terminal

TaskRow == [status   : Status,
            claims   : Nat,      \* claims granted so far
            token    : Nat,      \* lease_token_hash
            lease    : Int,      \* ticks to lease_until, down to -StaleTicks
            renewals : 0..Renewals,
            attempts : 0..AttemptLimit,
            wait     : 0..MaxBackoff]

\* A NULL lease_until satisfies no comparison with now().
NoLease == -StaleTicks

EmptyRow == [status |-> "absent", claims |-> 0, token |-> 0, lease |-> NoLease,
             renewals |-> 0, attempts |-> 0, wait |-> 0]

Live(t) == task[t].status \in LiveStatus
Running(t) == task[t].status = "running"
Queued(t) == task[t].status = "queued"
Expired(t) == Running(t) /\ task[t].lease <= 0
LiveAi == {t \in AiTasks : Running(t) /\ task[t].lease > 0}

\* Row r without claim_owner, lease_token_hash, lease_until, heartbeat_at.
Released(r, status) ==
    [r EXCEPT !.status = status, !.token = 0, !.lease = NoLease,
              !.renewals = 0]

Init ==
    /\ task = [t \in Tasks |-> EmptyRow]
    /\ winner = [t \in Tasks |-> 0]
    /\ openRuns = [t \in Tasks |-> {}]
    /\ enabled = TRUE
    /\ generation = 0
    /\ capacity \in Capacities

-----------------------------------------------------------------------------
(* Queueing and claiming.                                                   *)

\* Mutant: the dedupe index covers claimed rows only.
InsertTaskIgnoringQueued(t) ==
    /\ task[t].status = "absent"
    /\ \A u \in Tasks : KeyOf[u] = KeyOf[t] => ~Running(u)
    /\ task' = [task EXCEPT ![t].status = "queued"]
    /\ UNCHANGED <<winner, openRuns, settings>>

\* INSERT ... ON CONFLICT (dedupe_key) WHERE status IN live DO NOTHING.
InsertTask(t) ==
    /\ task[t].status = "absent"
    /\ \A u \in Tasks : KeyOf[u] = KeyOf[t] => ~Live(u)
    /\ task' = [task EXCEPT ![t].status = "queued"]
    /\ UNCHANGED <<winner, openRuns, settings>>

Claimable(t) == Queued(t) /\ task[t].wait = 0

\* The row a claim writes.
Claimed(r) ==
    [r EXCEPT !.status = "running", !.claims = @ + 1, !.token = r.claims + 1,
              !.lease = LeaseTicks, !.renewals = Renewals, !.attempts = @ + 1]

\* attempts + 1 beyond the CHECK of the table aborts the whole claim.
GrantLease(t) ==
    /\ task[t].attempts < AttemptLimit
    /\ task' = [task EXCEPT ![t] = Claimed(@)]

\* Mutant: off by one against the capacity.
ClaimOneTooMany(t) ==
    /\ t \in AiTasks
    /\ enabled
    /\ Cardinality(LiveAi) <= capacity
    /\ Claimable(t)
    /\ GrantLease(t)
    /\ openRuns' = [openRuns EXCEPT ![t] = @ \cup {task[t].claims + 1}]
    /\ UNCHANGED <<winner, settings>>

\* The capacity advisory lock makes count and claim one step.
ClaimPipelineTask(t) ==
    /\ t \in AiTasks
    /\ enabled
    /\ Cardinality(LiveAi) < capacity
    /\ Claimable(t)
    /\ GrantLease(t)
    /\ openRuns' = [openRuns EXCEPT ![t] = @ \cup {task[t].claims + 1}]
    /\ UNCHANGED <<winner, settings>>

\* Mechanical work takes no capacity and opens no agent run.
ClaimMechanicalPipelineTask(t) ==
    /\ t \in Tasks \ AiTasks
    /\ enabled
    /\ Claimable(t)
    /\ GrantLease(t)
    /\ UNCHANGED <<winner, openRuns, settings>>

-----------------------------------------------------------------------------
(* Calls a client makes with token k.                                       *)

\* Mutants: the lease lookup without its token, or without its status.
HoldsAnyToken(t, k) == Running(t) /\ task[t].token # 0
HoldsAnyStatus(t, k) == task[t].token = k

Holds(t, k) == Running(t) /\ task[t].token = k

\* lease_until > now(), now() being the instant the transaction began.
LeaseLive(t) == task[t].lease > 0
LeaseLiveAtBegin(t) == task[t].lease > -StaleTicks

\* A heartbeat of a run that is stopped by a pause gives the row back and
\* refunds the attempt; available_at and the agent run are left alone.
Refunded(r) ==
    [Released(r, "queued") EXCEPT !.attempts = IF @ > 0 THEN @ - 1 ELSE 0]

Renewed(r) == [r EXCEPT !.lease = LeaseTicks, !.renewals = @ - 1]

\* SELECT ... FOR UPDATE SKIP LOCKED never waits, so its now() is current.
HeartbeatPipelineTask(t, k) ==
    /\ t \in AiTasks
    /\ Holds(t, k) /\ LeaseLive(t)
    /\ task[t].renewals > 0
    /\ task' = [task EXCEPT ![t] = IF enabled THEN Renewed(@) ELSE Refunded(@)]
    /\ UNCHANGED <<winner, openRuns, settings>>

\* A deterministic step is not stopped by a pause.
HeartbeatMechanicalPipelineTask(t, k) ==
    /\ t \in Tasks \ AiTasks
    /\ Holds(t, k) /\ LeaseLive(t)
    /\ task[t].renewals > 0
    /\ task' = [task EXCEPT ![t] = Renewed(@)]
    /\ UNCHANGED <<winner, openRuns, settings>>

\* assertPipelineLease then completeTask: every submit handler and
\* completeMechanicalPipelineTask.  FOR UPDATE may wait for the row, and the
\* predicate is then evaluated on the new row with the old now().
CompleteTask(t, k) ==
    /\ Holds(t, k) /\ LeaseLiveAtBegin(t)
    /\ task' = [task EXCEPT ![t] = Released(@, "completed")]
    /\ winner' = [winner EXCEPT ![t] = k]
    /\ UNCHANGED <<openRuns, settings>>

Retrying(t, kind) ==
    \/ kind = "ordinary" /\ task[t].attempts < RetryBudget
    \/ kind = "scoped_platform"
       /\ (task[t].attempts < RetryBudget \/ t \in DeepReviewTasks)

\* least(60, greatest(2, attempts * attempts)) seconds
Backoff(n) ==
    IF n * n < MinBackoff THEN MinBackoff
    ELSE IF n * n > MaxBackoff THEN MaxBackoff
    ELSE n * n

BackedOff(r) == [Released(r, "queued") EXCEPT !.wait = Backoff(r.attempts)]

FailPipelineTask(t, k, kind) ==
    /\ Holds(t, k) /\ LeaseLiveAtBegin(t)
    /\ task' = [task EXCEPT ![t] = IF Retrying(t, kind)
                                   THEN BackedOff(@) ELSE Released(@, "failed")]
    /\ UNCHANGED <<winner, openRuns, settings>>

\* Telemetry of a finished run: accepted while the agent run is 'running',
\* whatever has become of the task meanwhile.
RecordAgentRunResult(t, k) ==
    /\ k \in openRuns[t]
    /\ openRuns' = [openRuns EXCEPT ![t] = @ \ {k}]
    /\ UNCHANGED <<task, winner, settings>>

-----------------------------------------------------------------------------
(* Recovery and the other writers.                                          *)

\* Mutant: one attempt too many before giving up.
RecoveredBeyondBudget(r) ==
    Released(r, IF r.attempts > RetryBudget THEN "failed" ELSE "queued")

\* A task whose lease ran out.
Recovered(r) ==
    Released(r, IF r.attempts >= RetryBudget THEN "failed" ELSE "queued")

\* Mutant: recovery that does not run while the pipeline is paused.
ReconcileWhileEnabled(S) ==
    /\ enabled
    /\ S # {}
    /\ \A t \in S : Expired(t)
    /\ task' = [t \in Tasks |-> IF t \in S THEN Recovered(task[t]) ELSE task[t]]
    /\ openRuns' = [t \in Tasks |-> IF t \in S THEN {} ELSE openRuns[t]]
    /\ UNCHANGED <<winner, settings>>

\* Rows another transaction holds are skipped: any set of expired tasks.
ReconcileExpiredLeases(S) ==
    /\ S # {}
    /\ \A t \in S : Expired(t)
    /\ task' = [t \in Tasks |-> IF t \in S THEN Recovered(task[t]) ELSE task[t]]
    /\ openRuns' = [t \in Tasks |-> IF t \in S THEN {} ELSE openRuns[t]]
    /\ UNCHANGED <<winner, settings>>

\* Agent runs left behind by a pause or an aborted report; the code waits
\* 15 minutes, here any subset may already be that old.
CloseOrphanedRuns(t, R) ==
    /\ ~Running(t)
    /\ R # {} /\ R \subseteq openRuns[t]
    /\ openRuns' = [openRuns EXCEPT ![t] = @ \ R]
    /\ UNCHANGED <<task, winner, settings>>

\* The processing run of these tasks is terminal: what is not under a live
\* lease is cancelled.
CancelTerminalRunTasks(S) ==
    /\ S # {}
    /\ \A t \in S : Queued(t) \/ Expired(t)
    /\ task' = [t \in Tasks |->
                  IF t \in S THEN Released(task[t], "cancelled") ELSE task[t]]
    /\ UNCHANGED <<winner, openRuns, settings>>

\* Queued work that is no longer wanted: an exhausted fragment ('failed') or
\* a demand answered meanwhile ('skipped').
RetireQueuedTask(t, status) ==
    /\ Queued(t)
    /\ status \in {"failed", "skipped"}
    /\ task' = [task EXCEPT ![t].status = status]
    /\ UNCHANGED <<winner, openRuns, settings>>

\* An administrator replaces the stage of a source ('skipped') or acts on an
\* expert task ('cancelled').  Token and lease stay on the row.
AdminCloseTasks(S, status) ==
    /\ S # {}
    /\ \A t \in S : Live(t)
    /\ status \in {"skipped", "cancelled"}
    /\ task' = [t \in Tasks |->
                  IF t \in S THEN [task[t] EXCEPT !.status = status] ELSE task[t]]
    /\ UNCHANGED <<winner, openRuns, settings>>

\* The expert task behind t reached a terminal state of its own.  Token and
\* lease stay on the row.
CloseExpertPipelineTask(t, status) ==
    /\ t \in AiTasks
    /\ Live(t)
    /\ status \in {"completed", "failed"}
    /\ task' = [task EXCEPT ![t].status = status]
    /\ UNCHANGED <<winner, openRuns, settings>>

SetPipelineEnabled(b) ==
    /\ generation < MaxGeneration
    /\ enabled' = b
    /\ generation' = generation + 1
    /\ UNCHANGED <<task, winner, openRuns, capacity>>

SetExecutionSettings(c) ==
    /\ capacity' = c
    /\ UNCHANGED <<task, winner, openRuns, enabled, generation>>

Tick ==
    /\ task' = [t \in Tasks |->
                  [task[t] EXCEPT
                     !.lease = IF @ > -StaleTicks THEN @ - 1 ELSE @,
                     !.wait = IF @ > 0 THEN @ - 1 ELSE 0]]
    /\ UNCHANGED <<winner, openRuns, settings>>

-----------------------------------------------------------------------------

ClientCall(t, k) ==
    \/ HeartbeatPipelineTask(t, k)
    \/ HeartbeatMechanicalPipelineTask(t, k)
    \/ CompleteTask(t, k)
    \/ \E kind \in FailureKinds : FailPipelineTask(t, k, kind)
    \/ RecordAgentRunResult(t, k)

Claim == \E t \in Tasks : ClaimPipelineTask(t) \/ ClaimMechanicalPipelineTask(t)
Reconcile == \E S \in SUBSET Tasks : ReconcileExpiredLeases(S)
CloseOrphans == \E t \in Tasks : \E R \in SUBSET openRuns[t] : CloseOrphanedRuns(t, R)

Next ==
    \/ \E t \in Tasks : InsertTask(t)
    \/ Claim
    \/ \E t \in Tasks : \E k \in 1..task[t].claims : ClientCall(t, k)
    \/ Reconcile
    \/ CloseOrphans
    \/ \E S \in SUBSET Tasks : CancelTerminalRunTasks(S)
    \/ \E t \in Tasks, status \in Terminal : RetireQueuedTask(t, status)
    \/ \E S \in SUBSET Tasks, status \in Terminal : AdminCloseTasks(S, status)
    \/ \E t \in Tasks, status \in Terminal : CloseExpertPipelineTask(t, status)
    \/ \E b \in BOOLEAN : SetPipelineEnabled(b)
    \/ \E c \in Capacities : SetExecutionSettings(c)
    \/ Tick

Spec == Init /\ [][Next]_vars

\* Executors are owed nothing: they may all crash after every claim.  What
\* must keep happening is the clock, polling for work, and recovery, which
\* every poll and the worker's own loop start with.
Fairness ==
    /\ WF_vars(Tick)
    /\ WF_vars(Claim)
    /\ WF_vars(Reconcile)
    /\ WF_vars(CloseOrphans)

FairSpec == Spec /\ Fairness
-----------------------------------------------------------------------------
(* Properties.                                                              *)

TypeOK ==
    /\ task \in [Tasks -> TaskRow]
    /\ winner \in [Tasks -> Nat]
    /\ openRuns \in [Tasks -> SUBSET Nat]
    /\ enabled \in BOOLEAN
    /\ generation \in 0..MaxGeneration
    /\ capacity \in Capacities

\* Lease fencing.  The claim whose result completed a task is the last one
\* ever granted on it, and no other result was accepted before or after:
\* a result that arrives from an earlier claim - after expiry, pause, retry
\* or an administrator's action, with a now() as old as the code allows -
\* changes nothing (assertPipelineLease under FOR UPDATE).
AcceptedClaimIsLast ==
    \A t \in Tasks :
        winner[t] # 0 =>
            /\ winner[t] = task[t].claims
            /\ task[t].status = "completed"

\* One live task per dedupe key, although tasks close through nine different
\* writers and return to the queue through three (insertTask, ON CONFLICT).
OneLiveTaskPerKey ==
    \A t, u \in Tasks : KeyOf[t] = KeyOf[u] /\ Live(t) /\ Live(u) => t = u

\* A task in the queue still has budget, so a claim never runs into the
\* database's CHECK on attempts and never blocks the queue behind it.
\* Scoped platform failures of a deep review are outside the retry budget.
QueuedTaskHasBudget ==
    \A t \in Tasks :
        Queued(t) /\ ~(t \in DeepReviewTasks /\ "scoped_platform" \in FailureKinds)
            => task[t].attempts < RetryBudget

\* Closing a task is final: no late heartbeat, submission, failure report,
\* recovery or administrator's action reopens it, grants it again or changes
\* its winner.
ClosedTasksStayClosed ==
    [][\A t \in Tasks :
          task[t].status \in Terminal =>
              /\ task'[t].status = task[t].status
              /\ task'[t].claims = task[t].claims
              /\ winner'[t] = winner[t]]_vars

\* "Reducing capacity drains runs": while more AI leases are live than the
\* capacity allows, the set of live AI leases only shrinks.
OverCapacityOnlyDrains ==
    [][Cardinality(LiveAi') > capacity' => LiveAi' \subseteq LiveAi]_vars

Phase == [t \in Tasks |-> IF task[t].status = "absent" THEN "absent"
                          ELSE IF Live(t) THEN "open" ELSE "closed"]
Granted == [t \in Tasks |-> task[t].claims]

Fenced == INSTANCE FencedTasks WITH phase <- Phase, granted <- Granted

\* The queue keeps the promise of FencedTasks.
ImplementsFencedTasks == Fenced!Spec

\* If the pipeline is not paused for ever, every task settles, even when
\* every executor dies after every claim: leases expire, recovery requeues
\* the task and the retry budget closes it in the end.
EveryTaskSettles ==
    <>[]enabled => \A t \in Tasks : Live(t) ~> task[t].status \in Terminal

\* A pause that lasts stops everything: in the end no task is running.
PauseQuiesces == <>[](~enabled) => <>[](\A t \in Tasks : ~Running(t))

=============================================================================
