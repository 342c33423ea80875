------------------------------ MODULE AgentRuns ------------------------------
(***************************************************************************)
(* Executors, agent runs and model circuits: the coordinator process of    *)
(* src/src/cli/pipeline-coordinator.ts that claims a task, runs one Codex  *)
(* child for it and reports, the pool that keeps the coordinators alive    *)
(* (pipeline-pool.ts), and what the server does with their reports         *)
(* (src/src/domain/pipeline.ts, pipeline-execution.ts): the claim that     *)
(* chooses the model or its fallback, the circuit that a repeated platform *)
(* failure opens, and the single probe that closes it.                     *)
(*                                                                         *)
(* All tasks belong to one execution profile and one task type, so a       *)
(* circuit is named by its model.  Time is counted in ticks.  Any call     *)
(* may be lost on its way or on the way back, up to MaxFaults times; a     *)
(* report does not outlive the 30 s its caller waits for it.               *)
(***************************************************************************)
EXTENDS Integers, FiniteSets

CONSTANTS
    Executors,      \* pipelineExecutorIds
    Tasks,
    Models,
    Profiles,       \* records [model, fallback] an administrator may choose
    None,
    Capacity,       \* max_concurrent_ai_runs
    MaxRuns,        \* bound: agent runs open or being reported at once
    MaxRecent,      \* bound: failures counted; more give the same cooldown
    MaxFaults,      \* bound: lost calls, crashes, pauses, stops, settings
    LeaseTicks,     \* task lease
    MaxOpen,        \* longest ordinary cooldown (300 s)
    OutageOpen,     \* cooldown of an unavailable model (86400 s)
    AttemptLimit    \* attempts of failPipelineTask (5)

ASSUME AgentRunsAssumption ==
    /\ IsFiniteSet(Executors) /\ None \notin Executors \cup Models
    /\ {Capacity, MaxRuns, MaxRecent, MaxFaults, LeaseTicks, MaxOpen, OutageOpen,
        AttemptLimit} \subseteq Nat
    /\ LeaseTicks > 0 /\ AttemptLimit > 0
    /\ Profiles \subseteq [model : Models, fallback : Models \cup {None}]
    /\ \A p \in Profiles : p.fallback # p.model

VARIABLES
    coordinator, \* coordinator[e]: the process of executor e
    task,        \* task[t]: the pipeline_tasks row
    runs,        \* runs[r]: the agent_runs row of claim r; a row that is closed
                 \* and that no coordinator knows is forgotten, its id reused
    circuit,     \* circuit[m]: the pipeline_model_circuits row
    recent,      \* recent[m]: failed runs of m with the fingerprint, 15 min
    enabled,     \* pipeline_settings.enabled
    profile,     \* pipeline_execution_profiles
    catalog,     \* pipeline_runtime_catalog: fresh, stale or in error
    usable,      \* runtimeUsable of the pool
    faults

vars == <<coordinator, task, runs, circuit, recent, enabled, profile,
          catalog, usable, faults>>
control == <<enabled, profile, catalog, usable>>

RunIds == 1..MaxRuns
Terminal == {"completed", "failed"}
Ended == {"completed", "failed", "timed_out", "cancelled"}
Diagnostics == {"none", "process", "unavailable"}

Coordinator ==
    [pc   : {"down", "idle", "running", "submitting", "resubmitting",
             "failing", "finishing", "settling"},
     run  : 0..MaxRuns,                 \* the lease file
     leaving : BOOLEAN,                 \* SIGTERM received
     out  : Ended \cup {"none"},        \* the status it will report
     code : Diagnostics]                \* classifyCodexDiagnostic

Idle == [pc |-> "idle", run |-> 0, leaving |-> FALSE, out |-> "none",
         code |-> "none"]
Down == [Idle EXCEPT !.pc = "down"]

TaskRow == [status : {"queued", "running"} \cup Terminal,
            run : 0..MaxRuns, lease : 0..LeaseTicks,
            attempts : 0..AttemptLimit,
            tried : Models \cup {None}] \* model_fallback_attempted_for

RunRow == [status : {"unused", "running"} \cup Ended,
           owner : Executors \cup {None}, task : Tasks \cup {None},
           model : Models \cup {None}, probe : BOOLEAN]

UnusedRun == [status |-> "unused", owner |-> None, task |-> None,
              model |-> None, probe |-> FALSE]

Longest == IF MaxOpen > OutageOpen THEN MaxOpen ELSE OutageOpen
Circuit == [set : BOOLEAN, open : 0..Longest,
            probe : Executors \cup {None}, config : BOOLEAN]

Closed == [set |-> FALSE, open |-> 0, probe |-> None, config |-> FALSE]

TypeOK ==
    /\ coordinator \in [Executors -> Coordinator]
    /\ task \in [Tasks -> TaskRow]
    /\ runs \in [RunIds -> RunRow]
    /\ circuit \in [Models -> Circuit]
    /\ recent \in [Models -> 0..MaxRecent]
    /\ enabled \in BOOLEAN /\ profile \in Profiles
    /\ catalog \in {"fresh", "stale", "error"} /\ usable \in BOOLEAN
    /\ faults \in 0..MaxFaults

Init ==
    /\ coordinator = [e \in Executors |-> Idle]
    /\ task = [t \in Tasks |->
                 [status |-> "queued", run |-> 0, lease |-> 0, attempts |-> 0,
                  tried |-> None]]
    /\ runs = [r \in RunIds |-> UnusedRun]
    /\ circuit = [m \in Models |-> Closed]
    /\ recent = [m \in Models |-> 0]
    /\ enabled = TRUE /\ profile \in Profiles
    /\ catalog = "fresh" /\ usable = TRUE
    /\ faults = 0

\* The rows rs that matter to processes c.
Kept(rs, c) ==
    [r \in RunIds |-> IF rs[r].status # "running" /\ \A e \in Executors : c[e].run # r
                      THEN UnusedRun ELSE rs[r]]

\* One of the bounded mishaps and interventions.
Mishap == faults < MaxFaults /\ faults' = faults + 1
NoMishap == UNCHANGED faults

-----------------------------------------------------------------------------
(* The server: leases.                                                      *)

\* findPipelineLease with the token of run r.
Holds(t, r) == task[t].status = "running" /\ task[t].run = r /\ task[t].lease > 0

Released(row, status) ==
    [row EXCEPT !.status = status, !.run = 0, !.lease = 0]

TaskOf(e) == runs[coordinator[e].run].task
HoldsOwn(e) == Holds(TaskOf(e), coordinator[e].run)

\* heartbeatPipelineTask: renew, or requeue and refund when paused.
HeartbeatRow(t) ==
    IF enabled THEN [task[t] EXCEPT !.lease = LeaseTicks]
    ELSE [Released(task[t], "queued") EXCEPT !.attempts = @ - 1]

\* failPipelineTask
FailedRow(t) ==
    IF task[t].attempts < AttemptLimit
    THEN Released(task[t], "queued")
    ELSE Released(task[t], "failed")

\* A live run: its task is leased to it now.
LiveRun(r) == runs[r].status = "running" /\ Holds(runs[r].task, r)

-----------------------------------------------------------------------------
(* The server: circuits and the claim.                                      *)

Blocked(c, m) == c[m].set /\ (c[m].config \/ c[m].open > 0 \/ c[m].probe # None)

\* Mutant: a probe is never taken from an executor.
KeepStaleProbes == circuit

\* clearStaleModelProbes
ClearStaleModelProbes ==
    [m \in Models |->
       IF \E r \in RunIds : /\ LiveRun(r) /\ runs[r].model = m
                            /\ runs[r].owner = circuit[m].probe
       THEN circuit[m] ELSE [circuit[m] EXCEPT !.probe = None]]

\* The fallback is open to a task once per primary model.
FallbackOpen(c, t) ==
    /\ profile.fallback # None
    /\ task[t].tried # profile.model
    /\ ~Blocked(c, profile.fallback)

\* claimableExecutionSql and the queue conditions of the claim
Claimable(c, t) ==
    /\ task[t].status = "queued"
    /\ Blocked(c, profile.model) => FallbackOpen(c, t)

RequestedModel(c) ==
    IF Blocked(c, profile.model) THEN profile.fallback ELSE profile.model

LiveTasks == {t \in Tasks : task[t].status = "running" /\ task[t].lease > 0}

\* Starts run r of task t by executor e.  The claim of a model with a circuit
\* that has cooled down is its probe.
StartRun(e, t, r) ==
    LET c == ClearStaleModelProbes
        m == RequestedModel(c)
    IN  /\ Claimable(c, t)
        /\ runs[r] = UnusedRun /\ \A q \in 1..(r - 1) : runs[q] # UnusedRun
        /\ circuit' = IF c[m].set THEN [c EXCEPT ![m].probe = e] ELSE c
        /\ runs' = [runs EXCEPT ![r] =
                      [status |-> "running", owner |-> e, task |-> t, model |-> m,
                       probe |-> c[m].set]]
        /\ task' = [task EXCEPT ![t] =
                      [status |-> "running", run |-> r, lease |-> LeaseTicks,
                       attempts |-> @.attempts + 1,
                       tried |-> IF m = profile.model THEN @.tried ELSE profile.model]]

\* claimPipelineTask; without its answer the coordinator knows of no lease.
ClaimPipelineTask(e, t, r) ==
    /\ coordinator[e].pc = "idle"
    /\ enabled /\ Cardinality(LiveTasks) < Capacity
    /\ StartRun(e, t, r)
    /\ \/ coordinator' = [coordinator EXCEPT ![e].pc = "running", ![e].run = r]
          /\ NoMishap
       \/ UNCHANGED coordinator /\ Mishap
    /\ UNCHANGED <<recent, control>>

\* A claim that finds nothing still clears the probes of dead runs.
ClaimNothing(e) ==
    /\ coordinator[e].pc = "idle"
    /\ enabled /\ Cardinality(LiveTasks) < Capacity
    /\ \A t \in Tasks : ~Claimable(ClearStaleModelProbes, t)
    /\ circuit' = ClearStaleModelProbes
    /\ UNCHANGED <<coordinator, task, runs, recent, control, faults>>

\* reconcileExpiredLeasesWithClient
ReconcileExpiredLeases ==
    LET expired == {t \in Tasks : task[t].status = "running" /\ task[t].lease = 0}
    IN  /\ expired # {}
        /\ task' = [t \in Tasks |->
              IF t \notin expired THEN task[t]
              ELSE Released(task[t], IF task[t].attempts >= AttemptLimit
                                     THEN "failed" ELSE "queued")]
        /\ runs' = Kept([r \in RunIds |->
              IF runs[r].status = "running" /\ runs[r].task \in expired
              THEN [runs[r] EXCEPT !.status = "failed"] ELSE runs[r]],
              coordinator)
        /\ UNCHANGED <<coordinator, circuit, recent, control, faults>>

\* Mutant: only a requeued task leaves an orphan.
OrphansOfQueuedTasks ==
    {r \in RunIds : runs[r].status = "running" /\ task[runs[r].task].status = "queued"}

\* Runs whose task is no longer running; the code also waits for 15 minutes
\* since their start, which other processes may have spent anywhere.
Orphans ==
    {r \in RunIds : runs[r].status = "running" /\ task[runs[r].task].status # "running"}

CloseOrphanedRuns ==
    /\ Orphans # {}
    /\ runs' = Kept([r \in RunIds |-> IF r \in Orphans
                  THEN [runs[r] EXCEPT !.status = "failed"] ELSE runs[r]], coordinator)
    /\ UNCHANGED <<coordinator, task, circuit, recent, control, faults>>

-----------------------------------------------------------------------------
(* The coordinator: the Codex child.                                        *)

Goes(e, pc, out, code) ==
    coordinator' = [coordinator EXCEPT ![e].pc = pc, ![e].out = out,
                                       ![e].code = code]

\* Back to the loop; after SIGTERM, the end of the process.
After(e) == IF coordinator[e].leaving THEN Down ELSE Idle
Leave(e) ==
    /\ coordinator' = [coordinator EXCEPT ![e] = After(e)]
    /\ runs' = Kept(runs, coordinator')

\* The child fails, cannot be started, or is killed for taking too long:
\* runCodex and classifyCodexDiagnostic.
ChildFails(e) ==
    /\ coordinator[e].pc = "running"
    /\ \/ Goes(e, "failing", "failed", "process")
       \/ Goes(e, "failing", "failed", "unavailable")
       \/ Goes(e, "failing", "failed", "none")
       \/ Goes(e, "failing", "timed_out", "process")
    /\ UNCHANGED <<task, runs, circuit, recent, control, faults>>

\* The heartbeat timer of a running child, its answer not lost.
Heartbeat(e) ==
    /\ coordinator[e].pc = "running"
    /\ IF HoldsOwn(e)
       THEN /\ task' = [task EXCEPT ![TaskOf(e)] = HeartbeatRow(TaskOf(e))]
            /\ IF enabled THEN UNCHANGED coordinator
               ELSE coordinator' = [coordinator EXCEPT ![e].pc = "finishing",
                      ![e].out = "cancelled", ![e].code = "process"]
            /\ UNCHANGED runs
       ELSE Leave(e) /\ UNCHANGED task
    /\ UNCHANGED <<circuit, recent, control, faults>>

\* SIGTERM while a child runs: the child is terminated, the task handed back.
Terminate(e) ==
    /\ coordinator[e].pc = "running"
    /\ Mishap
    /\ coordinator' = [coordinator EXCEPT ![e].pc = "failing",
          ![e].leaving = TRUE, ![e].out = "cancelled", ![e].code = "process"]
    /\ UNCHANGED <<task, runs, circuit, recent, control>>

\* The child exits with an artifact, and a heartbeat precedes its submission.
ChildSucceeds(e) ==
    /\ coordinator[e].pc = "running"
    /\ \/ /\ HoldsOwn(e)
          /\ task' = [task EXCEPT ![TaskOf(e)] = HeartbeatRow(TaskOf(e))]
          /\ IF enabled THEN Goes(e, "submitting", "none", "none")
             ELSE Goes(e, "failing", "cancelled", "none")
          /\ UNCHANGED runs /\ NoMishap
       \/ ~HoldsOwn(e) /\ Leave(e) /\ UNCHANGED task /\ NoMishap
       \/ /\ Goes(e, "failing", "failed", "none")
          /\ UNCHANGED <<task, runs>> /\ Mishap
    /\ UNCHANGED <<circuit, recent, control>>

-----------------------------------------------------------------------------
(* The coordinator: submission and report.                                  *)

\* Accepted and answered; accepted with the answer lost; or refused.
SubmitAgentArtifact(e) ==
    /\ coordinator[e].pc = "submitting"
    /\ \/ /\ HoldsOwn(e)
          /\ task' = [task EXCEPT ![TaskOf(e)] = Released(@, "completed")]
          /\ \/ Goes(e, "finishing", "completed", "none") /\ NoMishap
             \/ Goes(e, "resubmitting", "none", "none") /\ Mishap
       \/ /\ Goes(e, "resubmitting", "none", "none")
          /\ UNCHANGED task /\ NoMishap
    /\ UNCHANGED <<runs, circuit, recent, control>>

\* Mutant: the artifact of a task that is no longer leased counts as recorded.
RecordedIfNotHeld(t) == task[t].lease = 0

\* getPipelineTaskStatus: artifact_recorded
ArtifactRecorded(t) == task[t].status \in Terminal

\* retryBridgeArtifactSubmission after a failed attempt: recorded after all;
\* given up, or stopped by the heartbeat; or once more, five times at most in
\* the code and MaxFaults times here.  The status call may be lost as well.
RetryBridgeArtifactSubmission(e) ==
    /\ coordinator[e].pc = "resubmitting"
    /\ \/ /\ ArtifactRecorded(TaskOf(e))
          /\ Goes(e, "finishing", "completed", "none")
          /\ UNCHANGED task /\ NoMishap
       \/ /\ ~ArtifactRecorded(TaskOf(e))
          /\ Goes(e, "failing", "failed", "none")
          /\ task' = IF HoldsOwn(e) /\ ~enabled
                     THEN [task EXCEPT ![TaskOf(e)] = HeartbeatRow(TaskOf(e))] ELSE task
          /\ NoMishap
       \/ /\ HoldsOwn(e) /\ enabled /\ Mishap
          /\ task' = [task EXCEPT ![TaskOf(e)] = HeartbeatRow(TaskOf(e))]
          /\ coordinator' = [coordinator EXCEPT ![e].pc = "submitting"]
       \/ /\ ArtifactRecorded(TaskOf(e)) /\ Mishap
          /\ Goes(e, "failing", "failed", "none")
          /\ UNCHANGED task
    /\ UNCHANGED <<runs, circuit, recent, control>>

\* fail_pipeline_task: its errors are ignored, and so is a lost call.
FailPipelineTask(e) ==
    /\ coordinator[e].pc = "failing"
    /\ \/ /\ task' = IF HoldsOwn(e)
                     THEN [task EXCEPT ![TaskOf(e)] = FailedRow(TaskOf(e))] ELSE task
          /\ NoMishap
       \/ UNCHANGED task /\ Mishap
    /\ coordinator' = [coordinator EXCEPT ![e].pc = "finishing"]
    /\ UNCHANGED <<runs, circuit, recent, control>>

\* record_agent_run_result, first statement.  When finishRun fails, the
\* handler of the error reports once more, as failed unless submitted; when
\* that fails too, the lease is dropped and the run stays open.
FinishRun(e) ==
    /\ coordinator[e].pc = "finishing"
    /\ LET r == coordinator[e].run
           Report(out) ==
             IF runs[r].status = "running"
             THEN /\ runs' = [runs EXCEPT ![r].status = out]
                  /\ coordinator' = [coordinator EXCEPT ![e].pc = "settling",
                                                        ![e].out = out]
             ELSE Leave(e)
       IN \/ Report(coordinator[e].out) /\ NoMishap
          \/ /\ coordinator[e].out # "completed"
             /\ Report("failed") /\ Mishap
          \/ Leave(e) /\ Mishap
    /\ UNCHANGED <<task, circuit, recent, control>>

\* codexCircuitCooldownSeconds, the smaller of two; one tick for its 30 seconds
CodexCircuitCooldown(n) ==
    IF n < 2 THEN 0 ELSE IF 2^(n - 2) \in 0..MaxOpen THEN 2^(n - 2) ELSE MaxOpen

\* Mutant: the failure of any run takes the probe.
OpenedForAll(m, e, ticks, config) ==
    [set |-> TRUE, config |-> config, probe |-> None,
     open |-> IF circuit[m].open > ticks THEN circuit[m].open ELSE ticks]

\* INSERT ... ON CONFLICT DO UPDATE of the circuit
Opened(m, e, ticks, config) ==
    [set |-> TRUE, config |-> config,
     probe |-> IF circuit[m].probe = e THEN None ELSE circuit[m].probe,
     open |-> IF circuit[m].open > ticks THEN circuit[m].open ELSE ticks]

\* Mutant: a completed run closes the circuit of its model.
ClosesAny(m, e) == TRUE

\* DELETE ... WHERE probe_executor_id = the executor
Closes(m, e) == circuit[m].probe = e

\* record_agent_run_result, the statements about the circuit; they are
\* lost when the server stops in between.
SettleCircuit(e) ==
    /\ coordinator[e].pc = "settling"
    /\ LET m == runs[coordinator[e].run].model
           out == coordinator[e].out
           code == coordinator[e].code
           counted == out = "failed" /\ code # "none"
           n == IF recent[m] < MaxRecent THEN recent[m] + 1 ELSE recent[m]
           config == code = "unavailable"
           ticks == IF config THEN OutageOpen ELSE CodexCircuitCooldown(n)
       IN /\ recent' = IF counted THEN [recent EXCEPT ![m] = n] ELSE recent
          /\ \/ /\ circuit' =
                     IF out = "completed" /\ Closes(m, e)
                     THEN [circuit EXCEPT ![m] = Closed]
                     ELSE IF counted /\ ticks > 0
                     THEN [circuit EXCEPT ![m] = Opened(m, e, ticks, config)]
                     ELSE circuit
                /\ NoMishap
             \/ UNCHANGED circuit /\ Mishap
    /\ Leave(e)
    /\ UNCHANGED <<task, control>>

-----------------------------------------------------------------------------
(* The pool, the administrator and time.                                    *)

\* A coordinator dies with its lease file unread; the pool starts it again
\* while the Codex runtime is usable.
Crash(e) ==
    /\ coordinator[e].pc # "down"
    /\ Mishap
    /\ coordinator' = [coordinator EXCEPT ![e] = Down]
    /\ runs' = Kept(runs, coordinator')
    /\ UNCHANGED <<task, circuit, recent, control>>

SpawnExecutor(e) ==
    /\ coordinator[e].pc = "down" /\ usable
    /\ coordinator' = [coordinator EXCEPT ![e] = Idle]
    /\ UNCHANGED <<task, runs, circuit, recent, control, faults>>

\* refreshCatalog and publishExecutionCatalog: an error keeps the old models.
RefreshCatalog ==
    /\ \/ catalog # "fresh" /\ catalog' = "fresh" /\ usable' = TRUE /\ NoMishap
       \/ catalog # "error" /\ catalog' = "error" /\ usable' \in BOOLEAN /\ Mishap
    /\ UNCHANGED <<coordinator, task, runs, circuit, recent, enabled, profile>>

\* catalogMaxAgeMs without a refresh
CatalogAges ==
    /\ catalog = "fresh" /\ Mishap
    /\ catalog' = "stale"
    /\ UNCHANGED <<coordinator, task, runs, circuit, recent, enabled, profile,
                   usable>>

\* setExecutionSettings with other models: the catalog must be fresh.
SetExecutionSettings ==
    /\ catalog = "fresh" /\ Mishap
    /\ profile' \in Profiles \ {profile}
    /\ UNCHANGED <<coordinator, task, runs, circuit, recent, enabled, catalog,
                   usable>>

\* retryConfiguredModel
RetryConfiguredModel(m) ==
    /\ m \in {profile.model, profile.fallback}
    /\ circuit[m].set /\ (circuit[m].config \/ circuit[m].open > 0)
    /\ circuit' = [circuit EXCEPT ![m].config = FALSE, ![m].open = 0]
    /\ UNCHANGED <<coordinator, task, runs, recent, control, faults>>

SetPipelineEnabled ==
    /\ \/ enabled /\ Mishap
       \/ ~enabled /\ NoMishap
    /\ enabled' = ~enabled
    /\ UNCHANGED <<coordinator, task, runs, circuit, recent, profile, catalog,
                   usable>>

Less(n) == IF n > 0 THEN n - 1 ELSE 0

Tick ==
    /\ task' = [t \in Tasks |-> [task[t] EXCEPT !.lease = Less(@)]]
    /\ circuit' = [m \in Models |-> [circuit[m] EXCEPT !.open = Less(@)]]
    /\ UNCHANGED <<coordinator, runs, recent, control, faults>>

\* Failures leave the window of 15 minutes.
WindowPasses(m) ==
    /\ recent[m] > 0
    /\ recent' = [recent EXCEPT ![m] = 0]
    /\ UNCHANGED <<coordinator, task, runs, circuit, control, faults>>

Work(e) ==
    \/ \E t \in Tasks, r \in RunIds : ClaimPipelineTask(e, t, r)
    \/ ClaimNothing(e)
    \/ ChildFails(e) \/ ChildSucceeds(e) \/ SubmitAgentArtifact(e)
    \/ RetryBridgeArtifactSubmission(e) \/ FailPipelineTask(e)
    \/ FinishRun(e) \/ SettleCircuit(e) \/ SpawnExecutor(e)

Next ==
    \/ \E e \in Executors : Work(e) \/ Heartbeat(e) \/ Terminate(e) \/ Crash(e)
    \/ ReconcileExpiredLeases \/ CloseOrphanedRuns
    \/ RefreshCatalog \/ CatalogAges \/ SetExecutionSettings
    \/ SetPipelineEnabled
    \/ \E m \in Models : RetryConfiguredModel(m) \/ WindowPasses(m)
    \/ Tick

\* Processes keep running, the clock moves, the scheduler keeps reconciling,
\* the pool refreshes its catalog every five minutes.
Fairness ==
    /\ \A e \in Executors : WF_vars(Work(e))
    /\ WF_vars(ReconcileExpiredLeases) /\ WF_vars(CloseOrphanedRuns)
    /\ WF_vars(Tick) /\ WF_vars(RefreshCatalog)

Spec == Init /\ [][Next]_vars /\ Fairness

-----------------------------------------------------------------------------
(* Properties.                                                              *)

\* A circuit lets one run try its model: two executors never probe the same
\* model at once, whatever happened to the probes before them
\* (clearStaleModelProbes, the claim's UPDATE, the report's ON CONFLICT).
OneProbe ==
    \A r, q \in RunIds :
        /\ runs[r].probe /\ runs[q].probe
        /\ LiveRun(r) /\ LiveRun(q) /\ runs[r].model = runs[q].model
        => r = q

\* Only the success of its own probe removes a circuit: a run that began
\* before the incident and succeeds late does not (recordAgentRunResult).
ClosedByItsProbe ==
    [][\A m \in Models :
         circuit[m].set /\ ~circuit'[m].set
         => \E r \in RunIds : /\ runs[r].probe /\ runs[r].model = m
                              /\ runs[r].status = "completed"]_vars

\* A run reported as completed left its task finished: a lost answer, a lost
\* lease or a pause never turns unfinished work into a success
\* (retryBridgeArtifactSubmission, getPipelineTaskStatus).
CompletedRunIsSettled ==
    \A r \in RunIds : runs[r].status = "completed"
                      => task[runs[r].task].status \in Terminal

\* Whatever calls are lost and whichever process dies, an agent run does not
\* stay open: its coordinator reports it, its lease expires, or it is closed
\* as an orphan.
EveryRunIsClosed ==
    \A r \in RunIds : (runs[r].status = "running") ~> (runs[r].status # "running")

\* A queued task is not locked out by a circuit: its cooldown ends, the probe
\* of a dead executor is released, and only a configuration error that an
\* administrator must clear, or a pause, keeps the task waiting.
Excused == ~enabled \/ circuit[profile.model].config \/ \A e \in Executors : coordinator[e].pc = "down"
QueuedTaskIsServed ==
    \A t \in Tasks : (task[t].status = "queued")
                     ~> (task[t].status # "queued" \/ Excused)
=============================================================================
