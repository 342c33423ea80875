--------------------------- MODULE AgentRunsProofs ---------------------------
(***************************************************************************)
(* One probe per circuit, closed by nobody else, and no run completed      *)
(* before its task: for any executors, tasks, models and settings, with    *)
(* lost calls, crashes and pauses.                                         *)
(*                                                                         *)
(* A probe is known to three rows: the circuit names its executor, the run *)
(* says that it is one, and the executor knows its run.  Claims and        *)
(* reports change them one at a time, and the executor may have died and   *)
(* come back in between; the invariant says what they have in common       *)
(* then.  Every step but a claim and a report leaves them as they are or   *)
(* ends them, which the first lemmas show once for all.                    *)
(***************************************************************************)
EXTENDS AgentRuns, TLAPS

Busy(e) == coordinator[e].pc \notin {"down", "idle"}

\* What an executor is about to report.
ReportInv(e) ==
    /\ coordinator[e].pc \in {"failing", "finishing"} => coordinator[e].out # "none"
    /\ coordinator[e].pc = "settling" => /\ coordinator[e].out # "none"
                                         /\ runs[coordinator[e].run].status = coordinator[e].out
    /\ coordinator[e].out = "completed" => Busy(e) /\ task[TaskOf(e)].status \in Terminal

\* A busy executor has a run, and the run is its own.
OwnerInv(e) ==
    Busy(e) => /\ coordinator[e].run \in RunIds
               /\ runs[coordinator[e].run].status # "unused"
               /\ runs[coordinator[e].run].owner = e

Budget(row) == /\ row.status = "queued" => row.attempts < AttemptLimit
               /\ row.status = "running" => row.attempts > 0

RowsInv ==
    /\ \A r \in RunIds : runs[r].status # "unused" =>
          runs[r].owner \in Executors /\ runs[r].task \in Tasks /\ runs[r].model \in Models
    /\ CompletedRunIsSettled
    /\ \A t \in Tasks : Budget(task[t])

LiveProbe(r) == runs[r].probe /\ LiveRun(r)

\* The circuit of a live probe names its executor; an executor has no other live
\* probe of the model it is busy with, and is named only for its own probe.
ProbeInv ==
    /\ \A m \in Models : ~circuit[m].set => circuit[m].probe = None
    /\ \A r \in RunIds : LiveProbe(r) =>
          circuit[runs[r].model].set /\ circuit[runs[r].model].probe = runs[r].owner
    /\ \A e \in Executors, r \in RunIds :
          Busy(e) /\ LiveProbe(r) /\ runs[r].owner = e /\ r # coordinator[e].run
             => runs[r].model # runs[coordinator[e].run].model
    /\ \A e \in Executors :
          Busy(e) /\ circuit[runs[coordinator[e].run].model].probe = e
             => runs[coordinator[e].run].probe
    /\ OneProbe

Inv == TypeOK /\ (\A e \in Executors : OwnerInv(e) /\ ReportInv(e)) /\ RowsInv /\ ProbeInv

-----------------------------------------------------------------------------
(* Steps that keep or end what there is.                                    *)

\* A live lease of row is one of task t.
LeaseOf(row, r) == row.status = "running" /\ row.run = r /\ row.lease > 0

TaskKept(t) ==
    /\ Budget(task'[t])
    /\ task[t].status \in Terminal => task'[t].status \in Terminal
    /\ \A r \in RunIds : LeaseOf(task'[t], r) => Holds(t, r)
TasksKept == task' \in [Tasks -> TaskRow] /\ \A t \in Tasks : TaskKept(t)

RunClosed(r) ==
    /\ runs[r].status = "running" /\ runs'[r].status \in Ended
    /\ runs'[r].owner = runs[r].owner /\ runs'[r].task = runs[r].task
    /\ runs'[r].model = runs[r].model /\ runs'[r].probe = runs[r].probe
    /\ runs'[r].status = "completed" => task'[runs[r].task].status \in Terminal
RunForgotten(r) == runs'[r] = UnusedRun /\ \A e \in Executors : coordinator'[e].run # r
RunsKept ==
    /\ runs' \in [RunIds -> RunRow]
    /\ \A r \in RunIds : runs'[r] = runs[r] \/ RunClosed(r) \/ RunForgotten(r)

CoordinatorsKept ==
    /\ coordinator' \in [Executors -> Coordinator]
    /\ \A e \in Executors :
         /\ coordinator'[e].pc \notin {"down", "idle"}
            => Busy(e) /\ coordinator'[e].run = coordinator[e].run
         /\ coordinator'[e] = coordinator[e] \/ ReportInv(e)'

\* A probe is taken from a circuit only where no live one is left.
CircuitsKept ==
    /\ circuit' \in [Models -> Circuit]
    /\ \A m \in Models :
         /\ ~circuit'[m].set => circuit'[m].probe = None
         /\ circuit'[m].probe \in {circuit[m].probe, None}
         /\ (\E r \in RunIds : runs'[r].status = "running" /\ LiveProbe(r) /\ runs[r].model = m)
            => circuit'[m].set /\ circuit'[m].probe = circuit[m].probe

SettingsKept ==
    /\ recent' \in [Models -> 0..MaxRecent]
    /\ enabled' \in BOOLEAN /\ profile' \in Profiles
    /\ catalog' \in {"fresh", "stale", "error"} /\ usable' \in BOOLEAN
    /\ faults' \in 0..MaxFaults

LEMMA KeptInv ==
  ASSUME AgentRunsAssumption, Inv, TasksKept, RunsKept, CoordinatorsKept,
         CircuitsKept, SettingsKept
  PROVE  Inv'
<1>1. TypeOK'
  BY DEF TypeOK, TasksKept, RunsKept, CoordinatorsKept, CircuitsKept, SettingsKept
<1>types. /\ task \in [Tasks -> TaskRow] /\ runs \in [RunIds -> RunRow]
          /\ coordinator \in [Executors -> Coordinator] /\ circuit \in [Models -> Circuit]
          /\ task' \in [Tasks -> TaskRow] /\ runs' \in [RunIds -> RunRow]
          /\ coordinator' \in [Executors -> Coordinator] /\ circuit' \in [Models -> Circuit]
  BY <1>1 DEF Inv, TypeOK
<1>2. ASSUME NEW r \in RunIds, runs'[r].status # "unused"
      PROVE  /\ runs[r].status # "unused"
             /\ runs'[r].owner = runs[r].owner /\ runs'[r].task = runs[r].task
             /\ runs'[r].model = runs[r].model /\ runs'[r].probe = runs[r].probe
             /\ runs'[r].status = "running" => runs'[r] = runs[r]
             /\ runs'[r].status # runs[r].status =>
                  /\ runs[r].status = "running" /\ runs'[r].status \in Ended
                  /\ runs'[r].status = "completed" => task'[runs[r].task].status \in Terminal
  BY <1>2 DEF RunsKept, RunClosed, RunForgotten, UnusedRun, Ended
<1>3. ASSUME NEW e \in Executors, Busy(e)'
      PROVE  /\ Busy(e) /\ coordinator'[e].run = coordinator[e].run
             /\ coordinator[e].run \in RunIds
             /\ runs'[coordinator[e].run].status # "unused"
  <2>1. Busy(e) /\ coordinator'[e].run = coordinator[e].run
    BY <1>3 DEF CoordinatorsKept, Busy
  <2>2. /\ coordinator[e].run \in RunIds /\ runs[coordinator[e].run].status # "unused"
    BY <2>1 DEF Inv, OwnerInv
  <2>3. ~RunForgotten(coordinator[e].run)
    BY <2>1 DEF RunForgotten
  <2> QED BY <2>1, <2>2, <2>3 DEF RunsKept, RunClosed, Ended
<1>4. ASSUME NEW e \in Executors PROVE OwnerInv(e)'
  <2> SUFFICES ASSUME Busy(e)'
               PROVE  /\ coordinator'[e].run \in RunIds
                      /\ runs'[coordinator'[e].run].status # "unused"
                      /\ runs'[coordinator'[e].run].owner = e
    BY DEF OwnerInv
  <2>1. runs[coordinator[e].run].owner = e
    BY <1>3 DEF Inv, OwnerInv
  <2> QED BY <2>1, <1>2, <1>3
<1>5. ASSUME NEW e \in Executors PROVE ReportInv(e)'
  <2>1. CASE ReportInv(e)'
    BY <2>1
  <2>2. CASE coordinator'[e] = coordinator[e]
    <3>1. ReportInv(e) /\ coordinator[e] \in Coordinator
      BY <1>types DEF Inv
    <3>2. Busy(e)' <=> Busy(e)
      BY <2>2 DEF Busy
    <3>3. ASSUME coordinator[e].pc = "settling"
          PROVE  runs'[coordinator[e].run].status = coordinator[e].out
      <4>1. Busy(e)' /\ runs[coordinator[e].run].status = coordinator[e].out
        BY <3>1, <3>2, <3>3 DEF ReportInv, Busy
      <4>2. coordinator[e].out # "running"
        BY <3>1 DEF Coordinator, Ended
      <4> QED BY <4>1, <4>2, <1>2, <1>3
    <3>4. ASSUME coordinator[e].out = "completed"
          PROVE  Busy(e)' /\ task'[runs'[coordinator[e].run].task].status \in Terminal
      <4>1. Busy(e)' /\ task[runs[coordinator[e].run].task].status \in Terminal
        BY <3>1, <3>2, <3>4 DEF ReportInv, TaskOf
      <4>2. runs'[coordinator[e].run].task = runs[coordinator[e].run].task
        BY <4>1, <1>2, <1>3
      <4>3. runs[coordinator[e].run].task \in Tasks
        BY <4>1, <1>2, <1>3 DEF Inv, RowsInv
      <4> QED BY <4>1, <4>2, <4>3 DEF TasksKept, TaskKept
    <3> QED BY <2>2, <3>1, <3>3, <3>4 DEF ReportInv, TaskOf
  <2> QED BY <2>1, <2>2 DEF CoordinatorsKept
<1>6. RowsInv'
  <2>1. ASSUME NEW r \in RunIds, runs'[r].status # "unused"
        PROVE  runs'[r].owner \in Executors /\ runs'[r].task \in Tasks
               /\ runs'[r].model \in Models
    BY <2>1, <1>2 DEF Inv, RowsInv
  <2>2. ASSUME NEW r \in RunIds, runs'[r].status = "completed"
        PROVE  task'[runs'[r].task].status \in Terminal
    <3>1. runs'[r].status # "unused" /\ runs'[r].task = runs[r].task /\ runs[r].task \in Tasks
      BY <2>1, <2>2, <1>2
    <3>2. CASE runs[r].status = "completed"
      BY <3>1, <3>2 DEF Inv, RowsInv, CompletedRunIsSettled, TasksKept, TaskKept
    <3>3. CASE runs[r].status # "completed"
      BY <3>1, <3>3, <2>2, <1>2
    <3> QED BY <3>2, <3>3
  <2>3. \A t \in Tasks : Budget(task[t])'
    BY DEF TasksKept, TaskKept, Budget
  <2> QED BY <2>1, <2>2, <2>3 DEF RowsInv, CompletedRunIsSettled
<1>7. ASSUME NEW r \in RunIds, LiveProbe(r)'
      PROVE  LiveProbe(r) /\ runs'[r] = runs[r] /\ runs[r].model \in Models
             /\ circuit'[runs[r].model].set
             /\ circuit'[runs[r].model].probe = circuit[runs[r].model].probe
  <2>1. runs'[r].status = "running" /\ runs'[r].probe
        /\ LeaseOf(task'[runs'[r].task], r)
    BY <1>7 DEF LiveProbe, LiveRun, Holds, LeaseOf
  <2>2. runs'[r] = runs[r]
    BY <2>1, <1>2
  <2>3. runs[r].task \in Tasks /\ runs[r].model \in Models
    BY <2>1, <2>2 DEF Inv, RowsInv
  <2>4. Holds(runs[r].task, r)
    BY <2>1, <2>2, <2>3 DEF TasksKept, TaskKept
  <2>5. LiveProbe(r)
    BY <2>1, <2>2, <2>4 DEF LiveProbe, LiveRun
  <2> QED BY <2>1, <2>2, <2>3, <2>5 DEF CircuitsKept
<1>8. ProbeInv'
  <2>1. \A m \in Models : ~circuit'[m].set => circuit'[m].probe = None
    BY DEF CircuitsKept
  <2>2. ASSUME NEW r \in RunIds, LiveProbe(r)'
        PROVE  circuit'[runs'[r].model].set
               /\ circuit'[runs'[r].model].probe = runs'[r].owner
    BY <2>2, <1>7 DEF Inv, ProbeInv
  <2>3. ASSUME NEW e \in Executors, NEW r \in RunIds,
               Busy(e)', LiveProbe(r)', runs'[r].owner = e, r # coordinator'[e].run
        PROVE  runs'[r].model # runs'[coordinator'[e].run].model
    <3>1. /\ Busy(e) /\ LiveProbe(r) /\ runs[r].owner = e /\ r # coordinator[e].run
          /\ runs'[r] = runs[r]
      BY <2>3, <1>3, <1>7
    <3>2. runs[r].model # runs[coordinator[e].run].model
      BY <3>1 DEF Inv, ProbeInv
    <3> QED BY <3>1, <3>2, <2>3, <1>2, <1>3
  <2>4. ASSUME NEW e \in Executors, Busy(e)',
               circuit'[runs'[coordinator'[e].run].model].probe = e
        PROVE  runs'[coordinator'[e].run].probe
    <3> DEFINE r == coordinator[e].run
    <3>1. /\ Busy(e) /\ coordinator'[e].run = r /\ r \in RunIds
          /\ runs'[r].model = runs[r].model /\ runs'[r].probe = runs[r].probe
          /\ runs[r].status # "unused"
      BY <2>4, <1>2, <1>3
    <3>2. runs[r].model \in Models
      BY <3>1 DEF Inv, RowsInv
    <3>3. circuit[runs[r].model].probe = e
      BY <2>4, <3>1, <3>2 DEF CircuitsKept, AgentRunsAssumption
    <3> QED BY <3>1, <3>3 DEF Inv, ProbeInv
  <2>5. OneProbe'
    <3> SUFFICES ASSUME NEW r \in RunIds, NEW q \in RunIds, LiveProbe(r)', LiveProbe(q)',
                        runs'[r].model = runs'[q].model
                 PROVE  r = q
      BY DEF OneProbe, LiveProbe
    <3> QED BY <1>7 DEF Inv, ProbeInv, OneProbe, LiveProbe
  <2> QED BY <2>1, <2>2, <2>3, <2>4, <2>5 DEF ProbeInv
<1> QED BY <1>1, <1>4, <1>5, <1>6, <1>8 DEF Inv

-----------------------------------------------------------------------------
(* The pieces of a step.                                                    *)

LEMMA InvTypes ==
  ASSUME Inv
  PROVE  /\ coordinator \in [Executors -> Coordinator] /\ task \in [Tasks -> TaskRow]
         /\ runs \in [RunIds -> RunRow] /\ circuit \in [Models -> Circuit]
         /\ recent \in [Models -> 0..MaxRecent]
         /\ enabled \in BOOLEAN /\ profile \in Profiles
         /\ catalog \in {"fresh", "stale", "error"} /\ usable \in BOOLEAN
         /\ faults \in 0..MaxFaults
BY DEF Inv, TypeOK

LEMMA FaultsKept ==
  ASSUME AgentRunsAssumption, Inv, Mishap \/ NoMishap
  PROVE  faults' \in 0..MaxFaults
BY InvTypes DEF Mishap, NoMishap, AgentRunsAssumption

LEMMA SameTasks == ASSUME Inv, task' = task PROVE TasksKept
BY InvTypes DEF Inv, RowsInv, TasksKept, TaskKept, Holds, LeaseOf, Budget

\* A leased row becomes one with budget whose lease, if any, is the same.
LEMMA OwnTask ==
  ASSUME Inv, NEW t \in Tasks, NEW row \in TaskRow, task' = [task EXCEPT ![t] = row],
         task[t].status = "running", task[t].lease > 0,
         Budget(row), row.status = "running" => row.run = task[t].run
  PROVE  TasksKept
<1>1. task' \in [Tasks -> TaskRow]
  BY InvTypes
<1>2. ASSUME NEW u \in Tasks PROVE TaskKept(u)
  <2>1. CASE u = t
    <3>1. task'[u] = row
      BY <2>1, InvTypes
    <3> QED BY <2>1, <3>1 DEF TaskKept, Holds, LeaseOf, Terminal
  <2>2. CASE u # t
    <3>1. task'[u] = task[u]
      BY <2>2, InvTypes
    <3> QED BY <3>1 DEF Inv, RowsInv, TaskKept, Holds, LeaseOf, Budget
  <2> QED BY <2>1, <2>2
<1> QED BY <1>1, <1>2 DEF TasksKept

LEMMA ReleasedRow ==
  ASSUME AgentRunsAssumption, NEW row \in TaskRow, NEW s \in {"queued"} \cup Terminal
  PROVE  /\ Released(row, s) \in TaskRow
         /\ Released(row, s).status = s
         /\ Released(row, s).attempts = row.attempts
         /\ Released(row, s).run = 0 /\ Released(row, s).lease = 0
<1> DEFINE a == [row EXCEPT !.status = s]
           b == [a EXCEPT !.run = 0]
           c == [b EXCEPT !.lease = 0]
<1>0. 0 \in 0..MaxRuns /\ 0 \in 0..LeaseTicks
  BY DEF AgentRunsAssumption
<1>1. a \in TaskRow /\ a.status = s /\ a.attempts = row.attempts
  BY DEF TaskRow, Terminal
<1>2. b = [a EXCEPT !.run = 0] /\ c = [b EXCEPT !.lease = 0] /\ Released(row, s) = c
  BY DEF Released
<1> HIDE DEF a, b, c
<1>3. b \in TaskRow /\ b.status = s /\ b.attempts = row.attempts /\ b.run = 0
  BY <1>0, <1>1, <1>2 DEF TaskRow
<1>4. c \in TaskRow /\ c.status = s /\ c.attempts = row.attempts /\ c.run = 0 /\ c.lease = 0
  BY <1>0, <1>2, <1>3 DEF TaskRow
<1> QED BY <1>2, <1>4

LEMMA RenewedRow ==
  ASSUME AgentRunsAssumption, Inv, NEW t \in Tasks, task[t].status = "running"
  PROVE  /\ HeartbeatRow(t) \in TaskRow /\ Budget(HeartbeatRow(t))
         /\ HeartbeatRow(t).status = "running" => HeartbeatRow(t).run = task[t].run
<1>1. task[t] \in TaskRow /\ task[t].attempts > 0 /\ task[t].attempts \in 0..AttemptLimit
  BY InvTypes DEF Inv, RowsInv, Budget, TaskRow
<1>2. CASE enabled
  <2>1. HeartbeatRow(t) = [task[t] EXCEPT !.lease = LeaseTicks]
    BY <1>2 DEF HeartbeatRow
  <2>2. [task[t] EXCEPT !.lease = LeaseTicks] \in TaskRow
    BY <1>1 DEF TaskRow, AgentRunsAssumption
  <2>3. /\ HeartbeatRow(t).status = task[t].status /\ HeartbeatRow(t).run = task[t].run
        /\ HeartbeatRow(t).attempts = task[t].attempts
    BY <1>1, <2>1 DEF TaskRow
  <2> QED BY <1>1, <2>1, <2>2, <2>3 DEF Budget
<1>3. CASE ~enabled
  <2> DEFINE row == Released(task[t], "queued")
  <2>1. row \in TaskRow /\ row.status = "queued" /\ row.attempts = task[t].attempts
    BY <1>1, ReleasedRow
  <2>2. HeartbeatRow(t) = [row EXCEPT !.attempts = @ - 1]
    BY <1>3 DEF HeartbeatRow
  <2> HIDE DEF row
  <2>3. row.attempts - 1 \in 0..AttemptLimit /\ row.attempts - 1 < AttemptLimit
    BY <1>1, <2>1 DEF AgentRunsAssumption
  <2>4. /\ [row EXCEPT !.attempts = @ - 1] \in TaskRow
        /\ [row EXCEPT !.attempts = @ - 1].status = "queued"
        /\ [row EXCEPT !.attempts = @ - 1].attempts = row.attempts - 1
    BY <2>1, <2>3 DEF TaskRow
  <2> QED BY <2>2, <2>3, <2>4 DEF Budget
<1> QED BY <1>2, <1>3

LEMMA FailedTaskRow ==
  ASSUME AgentRunsAssumption, Inv, NEW t \in Tasks
  PROVE  FailedRow(t) \in TaskRow /\ Budget(FailedRow(t)) /\ FailedRow(t).status # "running"
<1>1. task[t] \in TaskRow
  BY InvTypes
<1>2. CASE task[t].attempts < AttemptLimit
  BY <1>1, <1>2, ReleasedRow DEF FailedRow, Budget, Terminal
<1>3. CASE ~(task[t].attempts < AttemptLimit)
  BY <1>1, <1>3, ReleasedRow DEF FailedRow, Budget, Terminal
<1> QED BY <1>2, <1>3

\* The task of a busy executor, and what its lease means.
LEMMA OwnTaskOf ==
  ASSUME Inv, NEW e \in Executors, Busy(e)
  PROVE  /\ TaskOf(e) \in Tasks /\ coordinator[e].run \in RunIds
         /\ HoldsOwn(e) => task[TaskOf(e)].status = "running" /\ task[TaskOf(e)].lease > 0
BY DEF Inv, OwnerInv, RowsInv, TaskOf, HoldsOwn, Holds

LEMMA HeartbeatTasks ==
  ASSUME AgentRunsAssumption, Inv, NEW e \in Executors, Busy(e), HoldsOwn(e),
         task' = [task EXCEPT ![TaskOf(e)] = HeartbeatRow(TaskOf(e))]
  PROVE  TasksKept
<1> DEFINE t == TaskOf(e)
           row == HeartbeatRow(t)
<1>1. t \in Tasks /\ task[t].status = "running" /\ task[t].lease > 0
  BY OwnTaskOf
<1>2. row \in TaskRow /\ Budget(row) /\ (row.status = "running" => row.run = task[t].run)
  BY <1>1, RenewedRow
<1>3. task' = [task EXCEPT ![t] = row]
  OBVIOUS
<1> HIDE DEF t, row
<1> QED BY <1>1, <1>2, <1>3, OwnTask

\* Nothing of the circuits or the settings changes but what is allowed to.
LEMMA SameCircuits == ASSUME Inv, circuit' = circuit PROVE CircuitsKept
BY InvTypes DEF Inv, ProbeInv, CircuitsKept

LEMMA SameControl ==
  ASSUME AgentRunsAssumption, Inv, UNCHANGED <<recent, control>>,
         Mishap \/ NoMishap
  PROVE  SettingsKept
BY InvTypes, FaultsKept DEF SettingsKept, control

\* One executor changes what it knows but not its run.
LEMMA OneCoordinator ==
  ASSUME Inv, NEW e \in Executors, NEW c \in Coordinator,
         coordinator' = [coordinator EXCEPT ![e] = c],
         c.pc \notin {"down", "idle"} => Busy(e) /\ c.run = coordinator[e].run,
         ReportInv(e)'
  PROVE  CoordinatorsKept
<1>1. coordinator' \in [Executors -> Coordinator]
  BY InvTypes
<1>2. coordinator'[e] = c /\ \A f \in Executors \ {e} : coordinator'[f] = coordinator[f]
  BY InvTypes
<1> QED BY <1>1, <1>2 DEF CoordinatorsKept, Busy

LEMMA SameCoordinators == ASSUME Inv, coordinator' = coordinator PROVE CoordinatorsKept
BY InvTypes DEF CoordinatorsKept, Busy

LEMMA SameRuns == ASSUME Inv, runs' = runs PROVE RunsKept
BY InvTypes DEF RunsKept

\* What is left of the runs when those of set ended are closed with status s.
LEMMA KeptRuns ==
  ASSUME Inv, NEW c, coordinator' = c, NEW ended \in SUBSET RunIds, NEW s \in Ended \ {"completed"},
         \A r \in ended : runs[r].status = "running",
         runs' = Kept([r \in RunIds |-> IF r \in ended
                                        THEN [runs[r] EXCEPT !.status = s] ELSE runs[r]], c)
  PROVE  RunsKept
<1> DEFINE rs == [r \in RunIds |-> IF r \in ended
                                   THEN [runs[r] EXCEPT !.status = s] ELSE runs[r]]
<1>0. UnusedRun \in RunRow
  BY DEF UnusedRun, RunRow
<1>1. ASSUME NEW r \in RunIds
      PROVE  /\ rs[r] \in RunRow
             /\ r \in ended => /\ rs[r].status = s /\ rs[r].owner = runs[r].owner
                               /\ rs[r].task = runs[r].task /\ rs[r].model = runs[r].model
                               /\ rs[r].probe = runs[r].probe
             /\ r \notin ended => rs[r] = runs[r]
  <2>1. runs[r] \in RunRow
    BY InvTypes
  <2>2. CASE r \in ended
    <3>1. rs[r] = [runs[r] EXCEPT !.status = s]
      BY <2>2
    <3> QED BY <2>1, <2>2, <3>1 DEF RunRow
  <2>3. CASE r \notin ended
    BY <2>1, <2>3
  <2> QED BY <2>2, <2>3
<1>2. runs' = Kept(rs, c)
  OBVIOUS
<1> HIDE DEF rs
<1>3. ASSUME NEW r \in RunIds
      PROVE  runs'[r] = rs[r] \/ (runs'[r] = UnusedRun /\ \A e \in Executors : c[e].run # r)
  BY <1>2 DEF Kept
<1>4. runs' \in [RunIds -> RunRow]
  BY <1>0, <1>1, <1>2 DEF Kept
<1>5. ASSUME NEW r \in RunIds PROVE runs'[r] = runs[r] \/ RunClosed(r) \/ RunForgotten(r)
  <2>1. CASE runs'[r] = rs[r] /\ r \in ended
    BY <1>1, <2>1 DEF RunClosed
  <2>2. CASE runs'[r] = rs[r] /\ r \notin ended
    BY <1>1, <2>2
  <2>3. CASE runs'[r] = UnusedRun /\ \A e \in Executors : c[e].run # r
    BY <2>3 DEF RunForgotten
  <2> QED BY <1>3, <2>1, <2>2, <2>3
<1> QED BY <1>4, <1>5 DEF RunsKept

LEMMA ForgottenRuns ==
  ASSUME Inv, runs' = Kept(runs, coordinator')
  PROVE  RunsKept
<1> DEFINE ended == {}
           rs == [r \in RunIds |-> IF r \in ended
                                   THEN [runs[r] EXCEPT !.status = "failed"] ELSE runs[r]]
<1>1. runs \in [RunIds -> RunRow]
  BY InvTypes
<1>2. rs = runs
  <2>1. \A r \in RunIds : rs[r] = runs[r]
    OBVIOUS
  <2> HIDE DEF rs
  <2> QED BY <1>1, <2>1, Zenon DEF rs
<1>3. runs' = Kept(rs, coordinator')
  BY <1>2
<1>4. ended \in SUBSET RunIds /\ (\A r \in ended : runs[r].status = "running")
      /\ "failed" \in Ended \ {"completed"}
  BY DEF Ended
<1> QED BY <1>3, <1>4, KeptRuns

LEMMA IdleInv ==
  ASSUME AgentRunsAssumption, Inv, NEW e \in Executors, NEW c \in {Idle, Down},
         coordinator' = [coordinator EXCEPT ![e] = c]
  PROVE  CoordinatorsKept
<1>0. /\ Idle \in Coordinator /\ Idle.pc = "idle" /\ Idle.out = "none"
  BY DEF Idle, Coordinator, Diagnostics, AgentRunsAssumption
<1>1. /\ c \in Coordinator /\ c.pc \in {"down", "idle"} /\ c.out = "none"
  BY <1>0 DEF Down, Coordinator
<1>2. coordinator'[e] = c
  BY InvTypes
<1>3. ReportInv(e)'
  BY <1>1, <1>2 DEF ReportInv
<1> QED BY <1>1, <1>3, OneCoordinator

LEMMA LeaveInv ==
  ASSUME AgentRunsAssumption, Inv, NEW e \in Executors, Leave(e)
  PROVE  CoordinatorsKept /\ RunsKept
<1>1. CoordinatorsKept
  BY IdleInv DEF Leave, After
<1>2. RunsKept
  BY ForgottenRuns DEF Leave
<1> QED BY <1>1, <1>2

\* The coordinator goes on with its run.
LEMMA GoesInv ==
  ASSUME Inv, NEW e \in Executors, Busy(e),
         NEW pc \in {"running", "submitting", "resubmitting", "failing", "finishing"},
         NEW out \in Ended \cup {"none"}, NEW code \in Diagnostics, NEW leaving \in BOOLEAN,
         coordinator' = [coordinator EXCEPT ![e] =
            [@ EXCEPT !.pc = pc, !.out = out, !.code = code, !.leaving = leaving]],
         pc \in {"failing", "finishing"} => out # "none",
         out = "completed" => task'[runs'[coordinator[e].run].task].status \in Terminal
  PROVE  CoordinatorsKept
<1> DEFINE c == [coordinator[e] EXCEPT !.pc = pc, !.out = out, !.code = code, !.leaving = leaving]
<1>1. coordinator[e] \in Coordinator
  BY InvTypes
<1>2. /\ c \in Coordinator /\ c.pc = pc /\ c.out = out /\ c.run = coordinator[e].run
  BY <1>1 DEF Coordinator
<1>3. coordinator' = [coordinator EXCEPT ![e] = c]
  OBVIOUS
<1> HIDE DEF c
<1>4. coordinator'[e] = c
  BY <1>3, InvTypes
<1>5. ReportInv(e)'
  BY <1>2, <1>4 DEF ReportInv, Busy, TaskOf
<1> QED BY <1>2, <1>3, <1>5, OneCoordinator

LEMMA GoesRow ==
  ASSUME Inv, NEW e \in Executors, Busy(e),
         NEW pc \in {"running", "submitting", "resubmitting", "failing", "finishing"},
         NEW out \in Ended \cup {"none"}, NEW code \in Diagnostics, Goes(e, pc, out, code),
         pc \in {"failing", "finishing"} => out # "none",
         out = "completed" => task'[runs'[coordinator[e].run].task].status \in Terminal
  PROVE  CoordinatorsKept
<1>1. coordinator[e] \in Coordinator /\ coordinator \in [Executors -> Coordinator]
  BY InvTypes
<1>2. coordinator[e].leaving \in BOOLEAN
  BY <1>1 DEF Coordinator
<1>3. coordinator' = [coordinator EXCEPT ![e] =
            [@ EXCEPT !.pc = pc, !.out = out, !.code = code, !.leaving = coordinator[e].leaving]]
  BY <1>1 DEF Goes, Coordinator
<1> QED BY <1>2, <1>3, GoesInv

-----------------------------------------------------------------------------
(* The steps of a coordinator between its claim and its report.             *)

LEMMA ChildFailsInv ==
  ASSUME AgentRunsAssumption, Inv, NEW e \in Executors, ChildFails(e)
  PROVE  Inv'
<1>1. Busy(e) /\ TasksKept /\ RunsKept /\ CircuitsKept /\ SettingsKept
  BY SameTasks, SameRuns, SameCircuits, SameControl DEF ChildFails, Busy, NoMishap
<1>2. PICK out \in {"failed", "timed_out"}, code \in Diagnostics : Goes(e, "failing", out, code)
  BY DEF ChildFails, Diagnostics
<1>3. CoordinatorsKept
  BY <1>1, <1>2, GoesRow DEF Ended
<1> QED BY <1>1, <1>3, KeptInv

LEMMA HeartbeatInv ==
  ASSUME AgentRunsAssumption, Inv, NEW e \in Executors, Heartbeat(e)
  PROVE  Inv'
<1>1. Busy(e) /\ CircuitsKept /\ SettingsKept
  BY SameCircuits, SameControl DEF Heartbeat, Busy, NoMishap
<1>2. CASE HoldsOwn(e)
  <2>1. TasksKept /\ RunsKept
    BY <1>1, <1>2, HeartbeatTasks, SameRuns DEF Heartbeat
  <2>2. CASE enabled
    BY <1>1, <1>2, <2>1, <2>2, SameCoordinators, KeptInv DEF Heartbeat
  <2>3. CASE ~enabled
    <3>1. Goes(e, "finishing", "cancelled", "process")
      BY <1>2, <2>3 DEF Heartbeat, Goes
    <3>2. CoordinatorsKept
      BY <1>1, <3>1, GoesRow DEF Ended, Diagnostics
    <3> QED BY <1>1, <2>1, <3>2, KeptInv
  <2> QED BY <2>2, <2>3
<1>3. CASE ~HoldsOwn(e)
  BY <1>1, <1>3, LeaveInv, SameTasks, KeptInv DEF Heartbeat
<1> QED BY <1>2, <1>3

LEMMA TerminateInv ==
  ASSUME AgentRunsAssumption, Inv, NEW e \in Executors, Terminate(e)
  PROVE  Inv'
<1>1. Busy(e) /\ TasksKept /\ RunsKept /\ CircuitsKept /\ SettingsKept
  BY SameTasks, SameRuns, SameCircuits, SameControl DEF Terminate, Busy
<1>2. coordinator[e] \in Coordinator /\ coordinator \in [Executors -> Coordinator]
  BY InvTypes
<1> DEFINE c == [coordinator[e] EXCEPT !.pc = "failing", !.leaving = TRUE,
                                       !.out = "cancelled", !.code = "process"]
<1>3. /\ c \in Coordinator /\ c.pc = "failing" /\ c.run = coordinator[e].run
      /\ c.out = "cancelled"
  BY <1>2 DEF Coordinator, Ended, Diagnostics
<1>4. CoordinatorsKept
  <2>1. coordinator' = [coordinator EXCEPT ![e] = c] /\ coordinator'[e] = c
    BY <1>2 DEF Terminate
  <2> HIDE DEF c
  <2>2. ReportInv(e)'
    BY <1>3, <2>1 DEF ReportInv
  <2> QED BY <1>1, <1>3, <2>1, <2>2, OneCoordinator
<1> QED BY <1>1, <1>4, KeptInv

LEMMA ChildSucceedsInv ==
  ASSUME AgentRunsAssumption, Inv, NEW e \in Executors, ChildSucceeds(e)
  PROVE  Inv'
<1>1. Busy(e) /\ CircuitsKept /\ SettingsKept
  BY SameCircuits, SameControl DEF ChildSucceeds, Busy
<1>2. CASE /\ HoldsOwn(e)
           /\ task' = [task EXCEPT ![TaskOf(e)] = HeartbeatRow(TaskOf(e))]
           /\ IF enabled THEN Goes(e, "submitting", "none", "none")
              ELSE Goes(e, "failing", "cancelled", "none")
           /\ UNCHANGED runs
  <2>1. TasksKept /\ RunsKept
    BY <1>1, <1>2, HeartbeatTasks, SameRuns
  <2>2. CoordinatorsKept
    BY <1>1, <1>2, GoesRow DEF Ended, Diagnostics
  <2> QED BY <1>1, <2>1, <2>2, KeptInv
<1>3. CASE Leave(e) /\ UNCHANGED task
  BY <1>1, <1>3, LeaveInv, SameTasks, KeptInv
<1>4. CASE Goes(e, "failing", "failed", "none") /\ UNCHANGED <<task, runs>>
  <2>1. CoordinatorsKept
    BY <1>1, <1>4, GoesRow DEF Ended, Diagnostics
  <2> QED BY <1>1, <1>4, <2>1, SameTasks, SameRuns, KeptInv
<1> QED BY <1>2, <1>3, <1>4 DEF ChildSucceeds

LEMMA SubmitInv ==
  ASSUME AgentRunsAssumption, Inv, NEW e \in Executors, SubmitAgentArtifact(e)
  PROVE  Inv'
<1>1. Busy(e) /\ RunsKept /\ CircuitsKept /\ SettingsKept /\ runs' = runs
  BY SameRuns, SameCircuits, SameControl DEF SubmitAgentArtifact, Busy
<1>2. CASE /\ HoldsOwn(e)
           /\ task' = [task EXCEPT ![TaskOf(e)] = Released(@, "completed")]
           /\ \/ Goes(e, "finishing", "completed", "none")
              \/ Goes(e, "resubmitting", "none", "none")
  <2> DEFINE t == TaskOf(e)
             row == Released(task[t], "completed")
  <2>1. t \in Tasks /\ task[t].status = "running" /\ task[t].lease > 0 /\ task[t] \in TaskRow
    BY <1>1, <1>2, OwnTaskOf, InvTypes
  <2>2. row \in TaskRow /\ row.status = "completed"
    BY <2>1, ReleasedRow DEF Terminal
  <2>3. task' = [task EXCEPT ![t] = row]
    BY <1>2
  <2>4. task'[runs'[coordinator[e].run].task] = row
    BY <1>1, <2>1, <2>3, InvTypes DEF TaskOf
  <2> HIDE DEF t, row
  <2>5. TasksKept
    BY <2>1, <2>2, <2>3, OwnTask DEF Budget
  <2>6. CoordinatorsKept
    BY <1>1, <1>2, <2>2, <2>4, GoesRow DEF Ended, Diagnostics, Terminal
  <2> QED BY <1>1, <2>5, <2>6, KeptInv
<1>3. CASE Goes(e, "resubmitting", "none", "none") /\ UNCHANGED task
  <2>1. CoordinatorsKept
    BY <1>1, <1>3, GoesRow DEF Ended, Diagnostics
  <2> QED BY <1>1, <1>3, <2>1, SameTasks, KeptInv
<1> QED BY <1>2, <1>3 DEF SubmitAgentArtifact

LEMMA RetryInv ==
  ASSUME AgentRunsAssumption, Inv, NEW e \in Executors, RetryBridgeArtifactSubmission(e)
  PROVE  Inv'
<1>1. Busy(e) /\ RunsKept /\ CircuitsKept /\ SettingsKept /\ runs' = runs
  BY SameRuns, SameCircuits, SameControl DEF RetryBridgeArtifactSubmission, Busy
<1>2. CASE ArtifactRecorded(TaskOf(e)) /\ UNCHANGED task /\ Goes(e, "finishing", "completed", "none")
  <2>1. CoordinatorsKept
    BY <1>1, <1>2, GoesRow DEF Ended, Diagnostics, ArtifactRecorded, TaskOf
  <2> QED BY <1>1, <1>2, <2>1, SameTasks, KeptInv
<1>3. CASE /\ Goes(e, "failing", "failed", "none")
           /\ task' = IF HoldsOwn(e) /\ ~enabled
                      THEN [task EXCEPT ![TaskOf(e)] = HeartbeatRow(TaskOf(e))] ELSE task
  <2>1. TasksKept
    BY <1>1, <1>3, HeartbeatTasks, SameTasks
  <2>2. CoordinatorsKept
    BY <1>1, <1>3, GoesRow DEF Ended, Diagnostics
  <2> QED BY <1>1, <2>1, <2>2, KeptInv
<1>4. CASE /\ HoldsOwn(e)
           /\ task' = [task EXCEPT ![TaskOf(e)] = HeartbeatRow(TaskOf(e))]
           /\ coordinator' = [coordinator EXCEPT ![e].pc = "submitting"]
  <2>1. TasksKept
    BY <1>1, <1>4, HeartbeatTasks
  <2> DEFINE c == [coordinator[e] EXCEPT !.pc = "submitting"]
  <2>2. coordinator[e] \in Coordinator /\ ReportInv(e)
    BY InvTypes DEF Inv
  <2>3. c \in Coordinator /\ c.pc = "submitting" /\ c.run = coordinator[e].run
        /\ c.out = coordinator[e].out
    BY <2>2 DEF Coordinator
  <2>4. coordinator' = [coordinator EXCEPT ![e] = c] /\ coordinator'[e] = c
    BY <1>4, InvTypes
  <2> HIDE DEF c
  <2>5. coordinator[e].out = "completed" => task'[TaskOf(e)].status \in Terminal
    BY <1>1, <2>1, <2>2, OwnTaskOf DEF TasksKept, TaskKept, ReportInv
  <2>6. ReportInv(e)'
    BY <1>1, <2>3, <2>4, <2>5 DEF ReportInv, Busy, TaskOf
  <2>7. CoordinatorsKept
    BY <1>1, <2>3, <2>4, <2>6, OneCoordinator
  <2> QED BY <1>1, <2>1, <2>7, KeptInv
<1>5. CASE Goes(e, "failing", "failed", "none") /\ UNCHANGED task
  <2>1. CoordinatorsKept
    BY <1>1, <1>5, GoesRow DEF Ended, Diagnostics
  <2> QED BY <1>1, <1>5, <2>1, SameTasks, KeptInv
<1> QED BY <1>2, <1>3, <1>4, <1>5 DEF RetryBridgeArtifactSubmission

LEMMA FailTaskInv ==
  ASSUME AgentRunsAssumption, Inv, NEW e \in Executors, FailPipelineTask(e)
  PROVE  Inv'
<1>1. Busy(e) /\ RunsKept /\ CircuitsKept /\ SettingsKept /\ runs' = runs
  BY SameRuns, SameCircuits, SameControl DEF FailPipelineTask, Busy
<1>2. TasksKept
  <2>1. CASE task' = task
    BY <2>1, SameTasks
  <2>2. CASE HoldsOwn(e) /\ task' = [task EXCEPT ![TaskOf(e)] = FailedRow(TaskOf(e))]
    <3> DEFINE t == TaskOf(e)
               row == FailedRow(t)
    <3>1. t \in Tasks /\ task[t].status = "running" /\ task[t].lease > 0
      BY <1>1, <2>2, OwnTaskOf
    <3>2. row \in TaskRow /\ Budget(row) /\ row.status # "running"
      BY <3>1, FailedTaskRow
    <3>3. task' = [task EXCEPT ![t] = row]
      BY <2>2
    <3> HIDE DEF t, row
    <3> QED BY <3>1, <3>2, <3>3, OwnTask
  <2> QED BY <2>1, <2>2 DEF FailPipelineTask
<1>3. CoordinatorsKept
  <2> DEFINE c == [coordinator[e] EXCEPT !.pc = "finishing"]
  <2>1. coordinator[e] \in Coordinator /\ ReportInv(e) /\ coordinator[e].out # "none"
    BY InvTypes DEF Inv, ReportInv, FailPipelineTask
  <2>2. c \in Coordinator /\ c.pc = "finishing" /\ c.run = coordinator[e].run
        /\ c.out = coordinator[e].out
    BY <2>1 DEF Coordinator
  <2>3. coordinator' = [coordinator EXCEPT ![e] = c] /\ coordinator'[e] = c
    BY InvTypes DEF FailPipelineTask
  <2> HIDE DEF c
  <2>4. coordinator[e].out = "completed" => task'[TaskOf(e)].status \in Terminal
    BY <1>1, <1>2, <2>1, OwnTaskOf DEF TasksKept, TaskKept, ReportInv
  <2>5. ReportInv(e)'
    BY <1>1, <2>1, <2>2, <2>3, <2>4 DEF ReportInv, Busy, TaskOf
  <2> QED BY <1>1, <2>2, <2>3, <2>5, OneCoordinator
<1> QED BY <1>1, <1>2, <1>3, KeptInv

LEMMA FinishRunInv ==
  ASSUME AgentRunsAssumption, Inv, NEW e \in Executors, FinishRun(e)
  PROVE  Inv'
<1> DEFINE r == coordinator[e].run
<1>1. /\ Busy(e) /\ TasksKept /\ CircuitsKept /\ SettingsKept /\ task' = task
      /\ ReportInv(e) /\ coordinator[e].out # "none"
  BY SameTasks, SameCircuits, SameControl DEF Inv, ReportInv, FinishRun, Busy
<1>2. r \in RunIds /\ coordinator[e] \in Coordinator /\ runs[r] \in RunRow
  BY <1>1, OwnTaskOf, InvTypes
<1>3. ASSUME NEW out \in Ended, runs[r].status = "running",
             out = "completed" => coordinator[e].out = "completed",
             runs' = [runs EXCEPT ![r].status = out],
             coordinator' = [coordinator EXCEPT ![e].pc = "settling", ![e].out = out]
      PROVE  CoordinatorsKept /\ RunsKept
  <2> DEFINE row == [runs[r] EXCEPT !.status = out]
             a == [coordinator[e] EXCEPT !.pc = "settling"]
             c == [a EXCEPT !.out = out]
  <2>1. /\ row \in RunRow /\ row.status = out /\ row.owner = runs[r].owner
        /\ row.task = runs[r].task /\ row.model = runs[r].model /\ row.probe = runs[r].probe
    BY <1>2 DEF RunRow
  <2>2. a \in Coordinator /\ a.pc = "settling" /\ a.run = r
    BY <1>2 DEF Coordinator
  <2>3. runs' = [runs EXCEPT ![r] = row]
    BY <1>3
  <2>4. coordinator' = [coordinator EXCEPT ![e] = c] /\ c = [a EXCEPT !.out = out]
    BY <1>3, InvTypes
  <2> HIDE DEF row, a, c
  <2>5. c \in Coordinator /\ c.pc = "settling" /\ c.run = r /\ c.out = out
    BY <2>2, <2>4 DEF Coordinator
  <2>6. coordinator'[e] = c /\ runs'[r] = row
    BY <1>2, <2>3, <2>4, InvTypes
  <2>7. out = "completed" => task'[runs[r].task].status \in Terminal
    BY <1>1, <1>3 DEF ReportInv, TaskOf
  <2>8. ReportInv(e)'
    BY <2>1, <2>5, <2>6, <2>7 DEF ReportInv, Busy, TaskOf, Ended
  <2>9. RunsKept
    <3>1. RunClosed(r)
      BY <1>3, <2>1, <2>6, <2>7 DEF RunClosed
    <3>2. \A q \in RunIds \ {r} : runs'[q] = runs[q]
      BY <2>3, InvTypes
    <3>3. runs' \in [RunIds -> RunRow]
      BY <2>1, <2>3, InvTypes
    <3> QED BY <3>1, <3>2, <3>3 DEF RunsKept
  <2> QED BY <1>1, <2>4, <2>5, <2>8, <2>9, OneCoordinator
<1>4. coordinator[e].out \in Ended
  BY <1>1, <1>2 DEF Coordinator
<1>5. CASE Leave(e)
  BY <1>1, <1>5, LeaveInv, KeptInv
<1>6. CASE ~Leave(e)
  <2>1. PICK out \in {coordinator[e].out, "failed"} :
          /\ runs[r].status = "running"
          /\ runs' = [runs EXCEPT ![r].status = out]
          /\ coordinator' = [coordinator EXCEPT ![e].pc = "settling", ![e].out = out]
    BY <1>6 DEF FinishRun
  <2>2. out \in Ended /\ (out = "completed" => coordinator[e].out = "completed")
    BY <1>4, <2>1 DEF Ended
  <2> HIDE DEF r
  <2>3. CoordinatorsKept /\ RunsKept
    BY <1>3, <2>1, <2>2
  <2> QED BY <1>1, <2>3, KeptInv
<1> QED BY <1>5, <1>6

-----------------------------------------------------------------------------
(* The server's housekeeping, the pool, the administrator and time.         *)

LEMMA ReconcileInv ==
  ASSUME AgentRunsAssumption, Inv, ReconcileExpiredLeases
  PROVE  Inv'
<1>1. CoordinatorsKept /\ CircuitsKept /\ SettingsKept /\ coordinator' = coordinator
  BY SameCoordinators, SameCircuits, SameControl DEF ReconcileExpiredLeases, NoMishap
<1> DEFINE expired == {t \in Tasks : task[t].status = "running" /\ task[t].lease = 0}
           status(t) == IF task[t].attempts >= AttemptLimit THEN "failed" ELSE "queued"
           ended == {r \in RunIds : runs[r].status = "running" /\ runs[r].task \in expired}
<1>2. task' = [t \in Tasks |-> IF t \notin expired THEN task[t] ELSE Released(task[t], status(t))]
  BY DEF ReconcileExpiredLeases
<1>3. runs' = Kept([r \in RunIds |-> IF r \in ended
                                    THEN [runs[r] EXCEPT !.status = "failed"] ELSE runs[r]],
                   coordinator)
  <2>1. [r \in RunIds |-> IF runs[r].status = "running" /\ runs[r].task \in expired
                          THEN [runs[r] EXCEPT !.status = "failed"] ELSE runs[r]]
        = [r \in RunIds |-> IF r \in ended
                            THEN [runs[r] EXCEPT !.status = "failed"] ELSE runs[r]]
    BY Zenon
  <2> QED BY <2>1 DEF ReconcileExpiredLeases
<1>4. TasksKept
  <2> SUFFICES ASSUME NEW t \in Tasks PROVE task'[t] \in TaskRow /\ TaskKept(t)
    <3>1. task' = [t \in Tasks |-> task'[t]]
      BY <1>2
    <3> QED BY <3>1 DEF TasksKept
  <2>1. task[t] \in TaskRow /\ Budget(task[t])
    BY InvTypes DEF Inv, RowsInv
  <2>2. CASE t \notin expired
    <3>1. task'[t] = task[t]
      BY <1>2, <2>2
    <3> QED BY <2>1, <3>1 DEF TaskKept, Holds, LeaseOf
  <2>3. CASE t \in expired
    <3>1. task'[t] = Released(task[t], status(t)) /\ task[t].status = "running"
      BY <1>2, <2>3
    <3>2. PICK s \in {"queued"} \cup Terminal :
            s = status(t) /\ (s = "queued" => ~(task[t].attempts >= AttemptLimit))
      BY DEF Terminal
    <3>3. task[t].attempts \in 0..AttemptLimit
      BY <2>1 DEF TaskRow
    <3> HIDE DEF status, expired
    <3>4. /\ task'[t] \in TaskRow /\ task'[t].status = s /\ task'[t].lease = 0
          /\ task'[t].attempts = task[t].attempts
      BY <2>1, <3>1, <3>2, ReleasedRow
    <3> QED BY <3>1, <3>2, <3>3, <3>4 DEF TaskKept, Budget, LeaseOf, Terminal, AgentRunsAssumption
  <2> QED BY <2>2, <2>3
<1>5. RunsKept
  <2>1. ended \in SUBSET RunIds /\ (\A r \in ended : runs[r].status = "running")
        /\ "failed" \in Ended \ {"completed"}
    BY DEF Ended
  <2> HIDE DEF ended
  <2> QED BY <1>1, <1>3, <2>1, KeptRuns
<1> QED BY <1>1, <1>4, <1>5, KeptInv

LEMMA OrphansInv ==
  ASSUME AgentRunsAssumption, Inv, CloseOrphanedRuns
  PROVE  Inv'
<1>1. CoordinatorsKept /\ TasksKept /\ CircuitsKept /\ SettingsKept /\ coordinator' = coordinator
  BY SameCoordinators, SameTasks, SameCircuits, SameControl DEF CloseOrphanedRuns, NoMishap
<1>2. runs' = Kept([r \in RunIds |-> IF r \in Orphans
                  THEN [runs[r] EXCEPT !.status = "failed"] ELSE runs[r]], coordinator)
  BY DEF CloseOrphanedRuns
<1>3. Orphans \in SUBSET RunIds /\ (\A r \in Orphans : runs[r].status = "running")
      /\ "failed" \in Ended \ {"completed"}
  BY DEF Orphans, Ended
<1>4. RunsKept
  BY <1>1, <1>2, <1>3, KeptRuns
<1> QED BY <1>1, <1>4, KeptInv

LEMMA ProcessInv ==
  ASSUME AgentRunsAssumption, Inv, NEW e \in Executors, Crash(e) \/ SpawnExecutor(e)
  PROVE  Inv'
<1>1. TasksKept /\ CircuitsKept /\ SettingsKept
  BY SameTasks, SameCircuits, SameControl DEF Crash, SpawnExecutor, NoMishap
<1>2. CoordinatorsKept
  BY IdleInv DEF Crash, SpawnExecutor
<1>3. RunsKept
  BY ForgottenRuns, SameRuns DEF Crash, SpawnExecutor
<1> QED BY <1>1, <1>2, <1>3, KeptInv

LEMMA SettingsInv ==
  ASSUME AgentRunsAssumption, Inv,
         \/ RefreshCatalog \/ CatalogAges \/ SetExecutionSettings \/ SetPipelineEnabled
         \/ \E m \in Models : WindowPasses(m)
  PROVE  Inv'
<1>1. UNCHANGED <<coordinator, task, runs, circuit>>
  BY DEF RefreshCatalog, CatalogAges, SetExecutionSettings, SetPipelineEnabled, WindowPasses
<1>2. SettingsKept
  <2>1. CASE RefreshCatalog
    BY <2>1, InvTypes, FaultsKept DEF RefreshCatalog, SettingsKept
  <2>2. CASE CatalogAges \/ SetExecutionSettings
    BY <2>2, InvTypes, FaultsKept DEF CatalogAges, SetExecutionSettings, SettingsKept
  <2>3. CASE SetPipelineEnabled
    BY <2>3, InvTypes, FaultsKept DEF SetPipelineEnabled, SettingsKept
  <2>4. CASE \E m \in Models : WindowPasses(m)
    BY <2>4, InvTypes DEF WindowPasses, SettingsKept, control, AgentRunsAssumption
  <2> QED BY <2>1, <2>2, <2>3, <2>4
<1> QED BY <1>1, <1>2, SameTasks, SameRuns, SameCoordinators, SameCircuits, KeptInv

LEMMA RetryModelInv ==
  ASSUME AgentRunsAssumption, Inv, NEW m \in Models, RetryConfiguredModel(m)
  PROVE  Inv'
<1>1. TasksKept /\ RunsKept /\ CoordinatorsKept /\ SettingsKept
  BY SameTasks, SameRuns, SameCoordinators, SameControl DEF RetryConfiguredModel, NoMishap
<1> DEFINE a == [circuit[m] EXCEPT !.config = FALSE]
           c == [a EXCEPT !.open = 0]
<1>2. circuit[m] \in Circuit /\ 0 \in 0..Longest
  BY InvTypes DEF Longest, AgentRunsAssumption
<1>3. a \in Circuit /\ a.set = circuit[m].set /\ a.probe = circuit[m].probe
  BY <1>2 DEF Circuit
<1>4. circuit' = [circuit EXCEPT ![m] = c] /\ c = [a EXCEPT !.open = 0]
  BY InvTypes DEF RetryConfiguredModel
<1> HIDE DEF a, c
<1>5. c \in Circuit /\ c.set = circuit[m].set /\ c.probe = circuit[m].probe
  BY <1>2, <1>3, <1>4 DEF Circuit
<1>6. circuit' \in [Models -> Circuit]
      /\ \A n \in Models : circuit'[n].set = circuit[n].set /\ circuit'[n].probe = circuit[n].probe
  BY <1>4, <1>5, InvTypes
<1>7. CircuitsKept
  BY <1>6 DEF Inv, ProbeInv, CircuitsKept
<1> QED BY <1>1, <1>7, KeptInv

LEMMA TickInv ==
  ASSUME AgentRunsAssumption, Inv, Tick
  PROVE  Inv'
<1>1. RunsKept /\ CoordinatorsKept /\ SettingsKept
  BY SameRuns, SameCoordinators, SameControl DEF Tick, NoMishap
<1>2. TasksKept
  <2> SUFFICES ASSUME NEW t \in Tasks PROVE task'[t] \in TaskRow /\ TaskKept(t)
    <3>1. task' = [t \in Tasks |-> task'[t]]
      BY DEF Tick
    <3> QED BY <3>1 DEF TasksKept
  <2>1. task[t] \in TaskRow /\ Budget(task[t])
    BY InvTypes DEF Inv, RowsInv
  <2>2. task'[t] = [task[t] EXCEPT !.lease = Less(task[t].lease)]
    BY DEF Tick
  <2>3. Less(task[t].lease) \in 0..LeaseTicks /\ (Less(task[t].lease) > 0 => task[t].lease > 0)
    BY <2>1 DEF TaskRow, Less, AgentRunsAssumption
  <2>4. /\ task'[t] \in TaskRow /\ task'[t].status = task[t].status
        /\ task'[t].run = task[t].run /\ task'[t].attempts = task[t].attempts
        /\ task'[t].lease = Less(task[t].lease)
    BY <2>1, <2>2, <2>3 DEF TaskRow
  <2> QED BY <2>1, <2>3, <2>4 DEF TaskKept, Budget, LeaseOf, Holds
<1>3. CircuitsKept
  <2>1. ASSUME NEW m \in Models
        PROVE  circuit'[m] \in Circuit /\ circuit'[m].set = circuit[m].set
               /\ circuit'[m].probe = circuit[m].probe
    <3>1. circuit[m] \in Circuit
      BY InvTypes
    <3>2. circuit'[m] = [circuit[m] EXCEPT !.open = Less(circuit[m].open)]
      BY DEF Tick
    <3>3. Less(circuit[m].open) \in 0..Longest
      BY <3>1 DEF Circuit, Less, Longest, AgentRunsAssumption
    <3> QED BY <3>1, <3>2, <3>3 DEF Circuit
  <2>2. circuit' \in [Models -> Circuit]
    <3>1. circuit' = [m \in Models |-> circuit'[m]]
      BY DEF Tick
    <3> QED BY <2>1, <3>1
  <2> QED BY <2>1, <2>2 DEF Inv, ProbeInv, CircuitsKept
<1> QED BY <1>1, <1>2, <1>3, KeptInv

-----------------------------------------------------------------------------
(* Claims and reports: the steps that move a probe.                         *)

LEMMA ClearedCircuits ==
  ASSUME Inv
  PROVE  /\ ClearStaleModelProbes \in [Models -> Circuit]
         /\ \A m \in Models :
              /\ ClearStaleModelProbes[m].set = circuit[m].set
              /\ ClearStaleModelProbes[m].probe \in {circuit[m].probe, None}
              /\ (\E r \in RunIds : LiveProbe(r) /\ runs[r].model = m)
                 => ClearStaleModelProbes[m] = circuit[m]
<1> DEFINE c == ClearStaleModelProbes
<1>1. ASSUME NEW m \in Models
      PROVE  /\ c[m] \in Circuit /\ c[m].set = circuit[m].set
             /\ c[m].probe \in {circuit[m].probe, None}
             /\ (\E r \in RunIds : LiveProbe(r) /\ runs[r].model = m) => c[m] = circuit[m]
  <2> DEFINE P == \E r \in RunIds : /\ LiveRun(r) /\ runs[r].model = m
                                    /\ runs[r].owner = circuit[m].probe
             d == [circuit[m] EXCEPT !.probe = None]
  <2>1. circuit[m] \in Circuit
    BY InvTypes
  <2>2. d \in Circuit /\ d.set = circuit[m].set /\ d.probe = None
    BY <2>1 DEF Circuit
  <2>3. c[m] = IF P THEN circuit[m] ELSE d
    BY DEF ClearStaleModelProbes
  <2>4. (\E r \in RunIds : LiveProbe(r) /\ runs[r].model = m) => P
    BY DEF Inv, ProbeInv, LiveProbe
  <2> HIDE DEF c, P, d
  <2> QED BY <2>1, <2>2, <2>3, <2>4
<1>2. c = [m \in Models |-> c[m]]
  BY DEF ClearStaleModelProbes
<1> HIDE DEF c
<1>3. c \in [Models -> Circuit]
  BY <1>1, <1>2
<1> QED BY <1>1, <1>3 DEF c

LEMMA ClaimNothingInv ==
  ASSUME AgentRunsAssumption, Inv, NEW e \in Executors, ClaimNothing(e)
  PROVE  Inv'
<1>1. TasksKept /\ RunsKept /\ CoordinatorsKept /\ SettingsKept /\ circuit' = ClearStaleModelProbes
  BY SameTasks, SameRuns, SameCoordinators, SameControl DEF ClaimNothing, NoMishap
<1>2. CircuitsKept
  BY <1>1, ClearedCircuits DEF Inv, ProbeInv, CircuitsKept
<1> QED BY <1>1, <1>2, KeptInv

\* A report closes or opens the circuit of its model: no other probe of it is live.
LEMMA SettleInv ==
  ASSUME AgentRunsAssumption, Inv, NEW e \in Executors, SettleCircuit(e)
  PROVE  Inv'
<1> DEFINE r == coordinator[e].run
           m == runs[r].model
<1>1. /\ Busy(e) /\ r \in RunIds /\ m \in Models /\ runs[r].status = coordinator[e].out
      /\ coordinator[e] \in Coordinator
  <2>1. Busy(e)
    BY DEF SettleCircuit, Busy
  <2> QED BY <2>1, InvTypes DEF Inv, OwnerInv, ReportInv, RowsInv, SettleCircuit
<1>2. TasksKept /\ CoordinatorsKept /\ RunsKept
  BY SameTasks, LeaveInv DEF SettleCircuit
<1>3. SettingsKept
  <2>1. recent' \in [Models -> 0..MaxRecent]
    BY <1>1, InvTypes DEF SettleCircuit, AgentRunsAssumption
  <2> QED BY <2>1, InvTypes, FaultsKept DEF SettleCircuit, SettingsKept, control
<1>4. ASSUME NEW q \in RunIds, LiveProbe(q), runs[q].model = m, circuit[m].probe = e
      PROVE  FALSE
  <2>1. runs[q].owner = e
    BY <1>4 DEF Inv, ProbeInv
  <2>2. q # r
    BY <1>1, <1>4 DEF LiveProbe, LiveRun, Coordinator, Ended
  <2> QED BY <1>1, <1>4, <2>1, <2>2 DEF Inv, ProbeInv
<1>5. CircuitsKept
  <2>1. CASE circuit' = circuit
    BY <2>1, SameCircuits
  <2>2. CASE circuit[m].probe = e /\ circuit' = [circuit EXCEPT ![m] = Closed]
    <3>1. Closed \in Circuit /\ ~Closed.set /\ Closed.probe = None
      BY DEF Closed, Circuit, Longest, AgentRunsAssumption
    <3>2. /\ circuit' \in [Models -> Circuit] /\ circuit'[m] = Closed
          /\ \A n \in Models \ {m} : circuit'[n] = circuit[n]
      BY <1>1, <2>2, <3>1, InvTypes
    <3> HIDE DEF m
    <3> QED BY <1>4, <2>2, <3>1, <3>2 DEF Inv, ProbeInv, CircuitsKept
  <2>3. CASE \E n \in 0..MaxRecent, config \in BOOLEAN :
               circuit' = [circuit EXCEPT ![m] =
                 Opened(m, e, IF config THEN OutageOpen ELSE CodexCircuitCooldown(n), config)]
    <3>1. PICK n \in 0..MaxRecent, config \in BOOLEAN :
               circuit' = [circuit EXCEPT ![m] =
                 Opened(m, e, IF config THEN OutageOpen ELSE CodexCircuitCooldown(n), config)]
      BY <2>3
    <3> DEFINE ticks == IF config THEN OutageOpen ELSE CodexCircuitCooldown(n)
               c == Opened(m, e, ticks, config)
    <3>2. CodexCircuitCooldown(n) \in 0..MaxOpen
      <4>1. 0 \in 0..MaxOpen /\ MaxOpen \in 0..MaxOpen
        BY DEF AgentRunsAssumption
      <4> QED BY <4>1, Zenon DEF CodexCircuitCooldown
    <3>3. ticks \in 0..Longest
      BY <3>2 DEF Longest, AgentRunsAssumption
    <3> HIDE DEF ticks
    <3>4. /\ c \in Circuit /\ c.set
          /\ c.probe = IF circuit[m].probe = e THEN None ELSE circuit[m].probe
      BY <1>1, <3>3, InvTypes DEF Opened, Circuit
    <3>5. /\ circuit' \in [Models -> Circuit] /\ circuit'[m] = c
          /\ \A k \in Models \ {m} : circuit'[k] = circuit[k]
      BY <1>1, <3>1, <3>4, InvTypes DEF ticks
    <3> HIDE DEF m, c
    <3> QED BY <1>4, <3>4, <3>5 DEF Inv, ProbeInv, CircuitsKept
  <2> DEFINE n == IF recent[m] < MaxRecent THEN recent[m] + 1 ELSE recent[m]
  <2>4. n \in 0..MaxRecent
    BY <1>1, InvTypes DEF AgentRunsAssumption
  <2>5. (coordinator[e].code = "unavailable") \in BOOLEAN
    OBVIOUS
  <2> QED BY <2>1, <2>2, <2>3, <2>4, <2>5 DEF SettleCircuit, Closes
<1> QED BY <1>2, <1>3, <1>5, KeptInv

\* The claim of a model that is not blocked: no probe of it is live.
LEMMA StartInv ==
  ASSUME AgentRunsAssumption, Inv, NEW e \in Executors, NEW t \in Tasks, NEW r \in RunIds,
         ClaimPipelineTask(e, t, r)
  PROVE  Inv'
<1> DEFINE c == ClearStaleModelProbes
           m == RequestedModel(c)
           row == [status |-> "running", owner |-> e, task |-> t, model |-> m, probe |-> c[m].set]
<1>1. /\ StartRun(e, t, r) /\ Claimable(c, t) /\ task[t].status = "queued"
      /\ runs[r] = UnusedRun /\ runs' = [runs EXCEPT ![r] = row]
      /\ circuit' = IF c[m].set THEN [c EXCEPT ![m].probe = e] ELSE c
      /\ coordinator[e].pc = "idle"
  BY DEF ClaimPipelineTask, StartRun, Claimable
<1>2. m \in Models /\ ~Blocked(c, m)
  <2>1. profile.model \in Models /\ profile.fallback \in Models \cup {None}
    BY InvTypes DEF AgentRunsAssumption
  <2> QED BY <1>1, <2>1 DEF RequestedModel, Claimable, FallbackOpen
<1>3. /\ c \in [Models -> Circuit]
      /\ \A k \in Models :
           /\ c[k].set = circuit[k].set /\ c[k].probe \in {circuit[k].probe, None}
           /\ (\E q \in RunIds : LiveProbe(q) /\ runs[q].model = k) => c[k] = circuit[k]
  BY ClearedCircuits
<1>4. /\ coordinator \in [Executors -> Coordinator] /\ task \in [Tasks -> TaskRow]
      /\ runs \in [RunIds -> RunRow]
  BY InvTypes
<1> HIDE DEF c, m
<1>5. ASSUME NEW q \in RunIds, LiveProbe(q) PROVE runs[q].model # m /\ q # r
  <2>1. runs[q].status = "running" /\ runs[q].model \in Models /\ runs[q].owner \in Executors
    BY <1>5 DEF Inv, RowsInv, LiveProbe, LiveRun
  <2>2. circuit[runs[q].model].set /\ circuit[runs[q].model].probe = runs[q].owner
    BY <1>5 DEF Inv, ProbeInv
  <2>3. c[runs[q].model] = circuit[runs[q].model]
    BY <1>3, <1>5, <2>1
  <2>4. Blocked(c, runs[q].model)
    BY <2>1, <2>2, <2>3 DEF Blocked, AgentRunsAssumption
  <2> QED BY <1>1, <1>2, <2>1, <2>4 DEF UnusedRun
\* The rows after the step.
<1>6. /\ row \in RunRow /\ row.status = "running" /\ row.owner = e /\ row.task = t
      /\ row.model = m /\ row.probe = c[m].set
  BY <1>2, <1>3 DEF RunRow, Circuit
<1>7. /\ runs' \in [RunIds -> RunRow] /\ runs'[r] = row
      /\ \A q \in RunIds \ {r} : runs'[q] = runs[q]
  BY <1>1, <1>4, <1>6
<1>8. /\ circuit' \in [Models -> Circuit] /\ circuit'[m].set = c[m].set
      /\ circuit'[m].probe = IF c[m].set THEN e ELSE c[m].probe
      /\ \A k \in Models \ {m} : circuit'[k] = c[k]
  <2>1. [c[m] EXCEPT !.probe = e] \in Circuit /\ [c[m] EXCEPT !.probe = e].probe = e
        /\ [c[m] EXCEPT !.probe = e].set = c[m].set
    BY <1>2, <1>3 DEF Circuit
  <2> QED BY <1>1, <1>2, <1>3, <2>1
<1>9. /\ task' \in [Tasks -> TaskRow] /\ task'[t].status = "running" /\ task'[t].run = r
      /\ task'[t].attempts > 0 /\ \A u \in Tasks \ {t} : task'[u] = task[u]
  <2> DEFINE tried == IF m = profile.model THEN task[t].tried ELSE profile.model
             g == [status |-> "running", run |-> r, lease |-> LeaseTicks,
                   attempts |-> task[t].attempts + 1, tried |-> tried]
  <2>1. /\ task[t] \in TaskRow /\ task[t].attempts + 1 \in 0..AttemptLimit
        /\ task[t].attempts + 1 > 0
    <3>1. task[t] \in TaskRow /\ task[t].attempts < AttemptLimit
      BY <1>1, <1>4 DEF Inv, RowsInv, Budget
    <3> QED BY <3>1 DEF TaskRow, AgentRunsAssumption
  <2>2. tried \in Models \cup {None}
    <3>1. task[t].tried \in Models \cup {None} /\ profile.model \in Models
      BY <2>1, InvTypes DEF TaskRow, AgentRunsAssumption
    <3> QED BY <3>1
  <2>4. task' = [task EXCEPT ![t] = g]
    BY <1>1, <1>4 DEF StartRun, c, m
  <2>5. g \in TaskRow /\ g.status = "running" /\ g.run = r /\ g.attempts > 0
    BY <2>1, <2>2 DEF TaskRow, RunIds, AgentRunsAssumption
  <2> QED BY <1>4, <2>4, <2>5
<1>10. /\ coordinator' \in [Executors -> Coordinator]
       /\ \A f \in Executors \ {e} : coordinator'[f] = coordinator[f]
       /\ coordinator[e].out # "completed" /\ coordinator'[e].out = coordinator[e].out
       /\ coordinator'[e].pc \in {"idle", "running"}
       /\ Busy(e)' => coordinator'[e].run = r
  <2>1. coordinator[e] \in Coordinator /\ coordinator[e].out # "completed"
    BY <1>1, <1>4 DEF Inv, ReportInv, Busy
  <2>2. CASE coordinator' = coordinator
    BY <1>1, <1>4, <2>1, <2>2 DEF Busy
  <2>3. CASE coordinator' = [coordinator EXCEPT ![e].pc = "running", ![e].run = r]
    <3> DEFINE a == [coordinator[e] EXCEPT !.pc = "running"]
               b == [a EXCEPT !.run = r]
    <3>1. a \in Coordinator /\ a.pc = "running" /\ a.out = coordinator[e].out
      BY <2>1 DEF Coordinator
    <3>2. coordinator' = [coordinator EXCEPT ![e] = b] /\ b = [a EXCEPT !.run = r]
      BY <1>4, <2>3
    <3> HIDE DEF a, b
    <3>3. b \in Coordinator /\ b.pc = "running" /\ b.out = coordinator[e].out /\ b.run = r
      BY <3>1, <3>2 DEF Coordinator, RunIds, AgentRunsAssumption
    <3> QED BY <1>4, <2>1, <3>2, <3>3
  <2> QED BY <2>2, <2>3 DEF ClaimPipelineTask
<1>11. TypeOK'
  BY <1>7, <1>8, <1>9, <1>10, InvTypes, FaultsKept DEF TypeOK, ClaimPipelineTask, control
\* Another busy executor keeps its run, which is not the new one.
<1>12. ASSUME NEW f \in Executors, f # e, Busy(f)'
       PROVE  /\ Busy(f) /\ coordinator'[f] = coordinator[f] /\ coordinator[f].run \in RunIds
              /\ coordinator[f].run # r
              /\ runs'[coordinator[f].run] = runs[coordinator[f].run]
              /\ runs[coordinator[f].run].status # "unused"
              /\ runs[coordinator[f].run].owner = f
  <2>1. Busy(f) /\ coordinator'[f] = coordinator[f]
    BY <1>10, <1>12 DEF Busy
  <2> QED BY <1>1, <1>7, <2>1 DEF Inv, OwnerInv, UnusedRun
<1>13. ASSUME NEW f \in Executors PROVE OwnerInv(f)'
  BY <1>6, <1>7, <1>10, <1>12 DEF OwnerInv
<1>14. ASSUME NEW f \in Executors PROVE ReportInv(f)'
  <2>1. CASE f = e
    BY <1>10, <2>1 DEF ReportInv
  <2>2. CASE f # e
    <3>1. ReportInv(f) /\ coordinator'[f] = coordinator[f] /\ (Busy(f)' <=> Busy(f))
      BY <1>10, <2>2 DEF Inv, Busy
    <3>2. CASE ~Busy(f)
      BY <3>1, <3>2 DEF ReportInv, Busy
    <3>3. CASE Busy(f)
      <4>1. runs'[coordinator[f].run] = runs[coordinator[f].run] /\ TaskOf(f) \in Tasks
        BY <1>12, <2>2, <3>1, <3>3, OwnTaskOf
      <4>2. task[TaskOf(f)].status \in Terminal => task'[TaskOf(f)] = task[TaskOf(f)]
        BY <1>1, <1>9, <4>1 DEF Terminal
      <4> QED BY <3>1, <3>3, <4>1, <4>2 DEF ReportInv, TaskOf
    <3> QED BY <3>2, <3>3
  <2> QED BY <2>1, <2>2
<1>15. RowsInv'
  <2>1. ASSUME NEW q \in RunIds, runs'[q].status # "unused"
        PROVE  runs'[q].owner \in Executors /\ runs'[q].task \in Tasks
               /\ runs'[q].model \in Models
    BY <1>2, <1>6, <1>7, <2>1 DEF Inv, RowsInv
  <2>2. ASSUME NEW q \in RunIds, runs'[q].status = "completed"
        PROVE  task'[runs'[q].task].status \in Terminal
    <3>1. q # r /\ runs'[q] = runs[q]
      BY <1>6, <1>7, <2>2
    <3>2. runs[q].task \in Tasks /\ task[runs[q].task].status \in Terminal
      BY <2>2, <3>1 DEF Inv, RowsInv, CompletedRunIsSettled
    <3> QED BY <1>1, <1>9, <3>1, <3>2 DEF Terminal
  <2>3. ASSUME NEW u \in Tasks PROVE Budget(task'[u])
    BY <1>9 DEF Inv, RowsInv, Budget
  <2> QED BY <2>1, <2>2, <2>3 DEF RowsInv, CompletedRunIsSettled, Budget
<1>16. ASSUME NEW q \in RunIds, q # r, LiveProbe(q)'
       PROVE  LiveProbe(q) /\ runs'[q] = runs[q] /\ runs[q].model \in Models \ {m}
              /\ circuit'[runs[q].model] = circuit[runs[q].model]
  <2>1. runs'[q] = runs[q] /\ runs[q].probe /\ runs[q].status = "running"
        /\ LeaseOf(task'[runs[q].task], q)
    BY <1>7, <1>16 DEF LiveProbe, LiveRun, Holds, LeaseOf
  <2>2. runs[q].task \in Tasks /\ runs[q].model \in Models
    BY <2>1 DEF Inv, RowsInv
  <2>3. LiveProbe(q)
    BY <1>9, <1>16, <2>1, <2>2 DEF LiveProbe, LiveRun, Holds, LeaseOf
  <2> QED BY <1>3, <1>5, <1>8, <2>1, <2>2, <2>3
<1>17. ProbeInv'
  <2>1. ASSUME NEW k \in Models, ~circuit'[k].set PROVE circuit'[k].probe = None
    BY <1>2, <1>3, <1>8, <2>1 DEF Inv, ProbeInv
  <2>2. ASSUME NEW q \in RunIds, LiveProbe(q)'
        PROVE  circuit'[runs'[q].model].set /\ circuit'[runs'[q].model].probe = runs'[q].owner
    <3>1. CASE q = r
      BY <1>2, <1>6, <1>7, <1>8, <2>2, <3>1 DEF LiveProbe
    <3>2. CASE q # r
      BY <1>16, <2>2, <3>2 DEF Inv, ProbeInv
    <3> QED BY <3>1, <3>2
  <2>3. ASSUME NEW f \in Executors, NEW q \in RunIds,
               Busy(f)', LiveProbe(q)', runs'[q].owner = f, q # coordinator'[f].run
        PROVE  runs'[q].model # runs'[coordinator'[f].run].model
    <3>1. q # r
      BY <1>6, <1>7, <1>10, <2>3
    <3>2. LiveProbe(q) /\ runs'[q] = runs[q] /\ runs[q].model # m
      BY <1>16, <2>3, <3>1
    <3>3. CASE f = e
      BY <1>6, <1>7, <1>10, <2>3, <3>2, <3>3
    <3>4. CASE f # e
      BY <1>12, <2>3, <3>2, <3>4 DEF Inv, ProbeInv
    <3> QED BY <3>3, <3>4
  <2>4. ASSUME NEW f \in Executors, Busy(f)',
               circuit'[runs'[coordinator'[f].run].model].probe = f
        PROVE  runs'[coordinator'[f].run].probe
    <3>1. CASE f = e
      <4>1. runs'[coordinator'[f].run] = row /\ circuit'[m].probe = e
        BY <1>6, <1>7, <1>10, <2>4, <3>1
      <4>2. c[m].set
        <5>1. SUFFICES ASSUME ~c[m].set PROVE FALSE
          OBVIOUS
        <5>2. circuit[m].probe = None /\ c[m].probe = None
          BY <1>2, <1>3, <5>1 DEF Inv, ProbeInv
        <5> QED BY <1>8, <4>1, <5>1, <5>2 DEF AgentRunsAssumption
      <4> QED BY <1>6, <4>1, <4>2
    <3>2. CASE f # e
      <4> DEFINE q == coordinator[f].run
      <4>1. /\ Busy(f) /\ coordinator'[f].run = q /\ runs'[q] = runs[q] /\ q \in RunIds
            /\ runs[q].status # "unused"
        BY <1>12, <2>4, <3>2
      <4>2. runs[q].model \in Models
        BY <4>1 DEF Inv, RowsInv
      <4> HIDE DEF q
      <4>3. circuit[runs[q].model].probe = f
        BY <1>3, <1>8, <2>4, <3>2, <4>1, <4>2 DEF AgentRunsAssumption
      <4> QED BY <4>1, <4>3 DEF Inv, ProbeInv, q
    <3> QED BY <3>1, <3>2
  <2>5. ASSUME NEW q \in RunIds, NEW p \in RunIds, LiveProbe(q)', LiveProbe(p)',
               runs'[q].model = runs'[p].model
        PROVE  q = p
    <3>1. CASE q = r \/ p = r
      BY <1>6, <1>7, <1>16, <2>5, <3>1
    <3>2. CASE q # r /\ p # r
      BY <1>16, <2>5, <3>2 DEF Inv, ProbeInv, OneProbe, LiveProbe
    <3> QED BY <3>1, <3>2
  <2>6. OneProbe'
    BY <2>5 DEF OneProbe, LiveProbe
  <2> QED BY <2>1, <2>2, <2>3, <2>4, <2>6 DEF ProbeInv
<1> QED BY <1>11, <1>13, <1>14, <1>15, <1>17 DEF Inv

-----------------------------------------------------------------------------
(* The theorems.                                                            *)

LEMMA InitInv == ASSUME AgentRunsAssumption, Init PROVE Inv
<1>1. Idle \in Coordinator
  BY DEF Idle, Coordinator, Diagnostics, AgentRunsAssumption
<1>2. \A e \in Executors : coordinator[e].pc = "idle" /\ coordinator[e].out = "none"
  BY DEF Init, Idle
<1>3. UnusedRun \in RunRow /\ Closed \in Circuit
  BY DEF UnusedRun, RunRow, Closed, Circuit, Longest, AgentRunsAssumption
<1>4. TypeOK
  BY <1>1, <1>3 DEF Init, TypeOK, TaskRow, AgentRunsAssumption
<1>5. \A r \in RunIds : runs[r].status = "unused" /\ ~runs[r].probe
  BY DEF Init, UnusedRun
<1>6. \A t \in Tasks : Budget(task[t])
  BY DEF Init, Budget, AgentRunsAssumption
<1>7. RowsInv
  BY <1>5, <1>6 DEF RowsInv, CompletedRunIsSettled
<1>8. \A e \in Executors : OwnerInv(e) /\ ReportInv(e)
  BY <1>2 DEF OwnerInv, ReportInv, Busy
<1>9. ProbeInv
  <2>1. \A m \in Models : circuit[m].probe = None
    BY DEF Init, Closed
  <2>2. \A e \in Executors : ~Busy(e)
    BY <1>2 DEF Busy
  <2>3. \A r \in RunIds : ~LiveProbe(r)
    BY <1>5 DEF LiveProbe
  <2>4. OneProbe
    BY <1>5 DEF OneProbe
  <2> QED BY <2>1, <2>2, <2>3, <2>4 DEF ProbeInv
<1> QED BY <1>4, <1>7, <1>8, <1>9 DEF Inv

LEMMA NextInv == ASSUME AgentRunsAssumption, Inv, [Next]_vars PROVE Inv'
<1>1. CASE UNCHANGED vars
  <2>1. SettingsKept
    BY <1>1, InvTypes DEF vars, SettingsKept
  <2> QED BY <1>1, <2>1, SameTasks, SameRuns, SameCoordinators, SameCircuits, KeptInv DEF vars
<1>2. CASE \E e \in Executors : Work(e) \/ Heartbeat(e) \/ Terminate(e) \/ Crash(e)
  <2> PICK e \in Executors : Work(e) \/ Heartbeat(e) \/ Terminate(e) \/ Crash(e)
    BY <1>2
  <2>1. CASE Work(e)
    <3>1. CASE \E t \in Tasks, r \in RunIds : ClaimPipelineTask(e, t, r)
      BY <3>1, StartInv
    <3>2. CASE ClaimNothing(e) \/ SettleCircuit(e)
      BY <3>2, ClaimNothingInv, SettleInv
    <3>3. CASE \/ ChildFails(e) \/ ChildSucceeds(e) \/ SubmitAgentArtifact(e)
               \/ RetryBridgeArtifactSubmission(e)
      BY <3>3, ChildFailsInv, ChildSucceedsInv, SubmitInv, RetryInv
    <3>4. CASE FailPipelineTask(e) \/ FinishRun(e) \/ SpawnExecutor(e)
      BY <3>4, FailTaskInv, FinishRunInv, ProcessInv
    <3> QED BY <2>1, <3>1, <3>2, <3>3, <3>4 DEF Work
  <2>2. CASE Heartbeat(e) \/ Terminate(e) \/ Crash(e)
    BY <2>2, HeartbeatInv, TerminateInv, ProcessInv
  <2> QED BY <2>1, <2>2
<1>3. CASE ReconcileExpiredLeases \/ CloseOrphanedRuns \/ Tick
  BY <1>3, ReconcileInv, OrphansInv, TickInv
<1>4. CASE \/ RefreshCatalog \/ CatalogAges \/ SetExecutionSettings \/ SetPipelineEnabled
           \/ \E m \in Models : WindowPasses(m)
  BY <1>4, SettingsInv
<1>5. CASE \E m \in Models : RetryConfiguredModel(m)
  BY <1>5, RetryModelInv
<1> QED BY <1>1, <1>2, <1>3, <1>4, <1>5 DEF Next

LEMMA InvHolds == Spec => []Inv
<1>1. Init => Inv
  BY InitInv, AgentRunsAssumption
<1>2. Inv /\ [Next]_vars => Inv'
  BY NextInv, AgentRunsAssumption
<1> QED BY <1>1, <1>2, PTL DEF Spec

\* Executors, tasks, runs, circuits and settings keep their types: no attempt is
\* counted beyond the limit of failPipelineTask and no refund goes below none.
THEOREM TypeCorrect == Spec => []TypeOK
<1>1. Inv => TypeOK
  BY DEF Inv
<1> QED BY <1>1, InvHolds, PTL

\* clearStaleModelProbes and the claim never let two live runs probe one model.
THEOREM ProbesAreAlone == Spec => []OneProbe
<1>1. Inv => OneProbe
  BY DEF Inv, ProbeInv
<1> QED BY <1>1, InvHolds, PTL

\* A run is reported completed only when its task is finished
\* (submitAgentArtifact, retryBridgeArtifactSubmission).
THEOREM CompletedIsDone == Spec => []CompletedRunIsSettled
<1>1. Inv => CompletedRunIsSettled
  BY DEF Inv, RowsInv
<1> QED BY <1>1, InvHolds, PTL

\* recordAgentRunResult removes a circuit for the probe that succeeded and for no
\* other run.
THEOREM ProbeCloses == Spec => ClosedByItsProbe
<1> DEFINE A == \A m \in Models :
                  circuit[m].set /\ ~circuit'[m].set
                  => \E r \in RunIds : /\ runs[r].probe /\ runs[r].model = m
                                       /\ runs[r].status = "completed"
<1>1. ASSUME Inv, [Next]_vars PROVE A \/ UNCHANGED vars
  <2> SUFFICES ASSUME Next, NEW m \in Models, circuit[m].set, ~circuit'[m].set
               PROVE  \E r \in RunIds : /\ runs[r].probe /\ runs[r].model = m
                                        /\ runs[r].status = "completed"
    BY <1>1
  <2>1. circuit' # circuit
    OBVIOUS
  <2>2. ASSUME circuit' = ClearStaleModelProbes PROVE FALSE
    BY <1>1, <2>2, ClearedCircuits
  <2>3. ASSUME NEW e \in Executors, NEW t \in Tasks, NEW r \in RunIds,
               ClaimPipelineTask(e, t, r)
        PROVE  FALSE
    <3> DEFINE c == ClearStaleModelProbes
               n == RequestedModel(c)
    <3>1. c \in [Models -> Circuit] /\ c[m].set
      BY <1>1, ClearedCircuits
    <3>2. circuit' = IF c[n].set THEN [c EXCEPT ![n].probe = e] ELSE c
      BY <2>3 DEF ClaimPipelineTask, StartRun
    <3> HIDE DEF c, n
    <3>3. circuit'[m] = c[m] \/ circuit'[m] = [c[m] EXCEPT !.probe = e]
      BY <3>1, <3>2
    <3>4. c[m] \in Circuit /\ [c[m] EXCEPT !.probe = e].set = c[m].set
      BY <3>1 DEF Circuit
    <3> QED BY <3>1, <3>3, <3>4
  <2>4. ASSUME NEW n \in Models, RetryConfiguredModel(n) PROVE FALSE
    <3>1. circuit[m] \in Circuit /\ circuit \in [Models -> Circuit]
      BY <1>1, InvTypes
    <3>2. circuit'[m] = circuit[m] \/ circuit'[m] = [circuit[m] EXCEPT !.config = FALSE, !.open = 0]
      BY <2>4, <3>1 DEF RetryConfiguredModel
    <3> QED BY <3>1, <3>2 DEF Circuit
  <2>5. ASSUME Tick PROVE FALSE
    <3>1. circuit[m] \in Circuit /\ circuit'[m] = [circuit[m] EXCEPT !.open = Less(circuit[m].open)]
      BY <1>1, <2>5, InvTypes DEF Tick
    <3> QED BY <3>1 DEF Circuit
  <2>6. PICK e \in Executors : SettleCircuit(e)
    <3>1. CASE \E e \in Executors : Work(e)
      BY <2>1, <2>2, <2>3, <3>1
         DEF Work, ClaimNothing, ChildFails, ChildSucceeds, SubmitAgentArtifact,
             RetryBridgeArtifactSubmission, FailPipelineTask, FinishRun, SpawnExecutor
    <3>2. CASE \E e \in Executors : Heartbeat(e) \/ Terminate(e) \/ Crash(e)
      BY <2>1, <3>2 DEF Heartbeat, Terminate, Crash
    <3>3. CASE ReconcileExpiredLeases \/ CloseOrphanedRuns
      BY <2>1, <3>3 DEF ReconcileExpiredLeases, CloseOrphanedRuns
    <3>4. CASE \/ RefreshCatalog \/ CatalogAges \/ SetExecutionSettings \/ SetPipelineEnabled
               \/ \E n \in Models : WindowPasses(n)
      BY <2>1, <3>4 DEF RefreshCatalog, CatalogAges, SetExecutionSettings, SetPipelineEnabled,
                        WindowPasses
    <3> QED BY <2>4, <2>5, <3>1, <3>2, <3>3, <3>4 DEF Next
  <2> DEFINE r == coordinator[e].run
             n == runs[r].model
  <2>7. /\ Busy(e) /\ r \in RunIds /\ n \in Models /\ runs[r].status = coordinator[e].out
        /\ circuit \in [Models -> Circuit]
    <3>1. Busy(e)
      BY <2>6 DEF SettleCircuit, Busy
    <3> QED BY <1>1, <2>6, <3>1, InvTypes DEF Inv, OwnerInv, ReportInv, RowsInv, SettleCircuit
  <2>8. PICK ticks, config : \/ circuit' = circuit
                             \/ /\ coordinator[e].out = "completed" /\ Closes(n, e)
                                /\ circuit' = [circuit EXCEPT ![n] = Closed]
                             \/ circuit' = [circuit EXCEPT ![n] = Opened(n, e, ticks, config)]
    BY <2>6 DEF SettleCircuit
  <2> HIDE DEF n
  <2>9. m = n /\ coordinator[e].out = "completed" /\ circuit[n].probe = e
    <3>1. CASE circuit' = [circuit EXCEPT ![n] = Opened(n, e, ticks, config)]
      <4>1. Opened(n, e, ticks, config).set
        BY DEF Opened
      <4> HIDE DEF Opened
      <4> QED BY <2>7, <3>1, <4>1
    <3>2. CASE circuit' = [circuit EXCEPT ![n] = Closed] /\ coordinator[e].out = "completed"
               /\ Closes(n, e)
      BY <2>7, <3>2 DEF Closes
    <3> QED BY <2>1, <2>8, <3>1, <3>2
  <2>10. runs[r].probe
    BY <1>1, <2>7, <2>9 DEF Inv, ProbeInv, n
  <2> QED BY <2>7, <2>9, <2>10 DEF n
<1>2. Inv /\ [Next]_vars => [A]_vars
  BY <1>1
<1> QED BY <1>2, InvHolds, PTL DEF Spec, ClosedByItsProbe
=============================================================================
