------------------------------ MODULE SourceRuns ------------------------------
(***************************************************************************)
(* Documents, their processing runs and their fragments: the streaming     *)
(* scheduler of src/src/domain/pipeline.ts, the deterministic worker of    *)
(* pipeline-worker.ts and the reprocessing of intake.ts.                   *)
(*                                                                         *)
(* A document is downloaded, converted and cut into fragments by worker    *)
(* processes; a bounded number of documents own an analysis lane; the      *)
(* records made of a fragment are published and audited.  A worker writes  *)
(* the document without showing its lease: only its final report is        *)
(* fenced.  Run 1 of a document is the one its download makes, run 2 is    *)
(* the processing version of a reprocess request.  A task row that has     *)
(* ended is forgotten, except that a run remembers a failed one.           *)
(***************************************************************************)
EXTENDS Integers, FiniteSets

CONSTANTS
    Docs,           \* source_candidates
    Copies,         \* documents whose downloaded bytes are equal
    Workers,        \* deterministic worker processes
    None,
    PerRun,         \* fragments of one run
    Batch,          \* fragments of one analysis (16)
    MaxActive,      \* max_active_sources
    Prepared,       \* prepared_source_target
    AttemptLimit,   \* attempts of a task (5)
    FragmentLimit,  \* attempts of a fragment (10)
    MaxFaults,      \* bound: failures, lost leases, continuations, interventions
    Reprocessed     \* documents of which a reprocess may be requested

ASSUME SourceRunsAssumption ==
    /\ IsFiniteSet(Docs) /\ Copies \subseteq Docs /\ Reprocessed \subseteq Docs
    /\ None \notin Docs \cup Workers
    /\ {PerRun, Batch, MaxActive, Prepared, AttemptLimit, FragmentLimit} \subseteq Nat \ {0}
    /\ MaxFaults \in Nat

VARIABLES
    doc,      \* doc[d]: source_candidates.status
    artifact, \* artifact[d]: source_artifacts.status
    run,      \* run[d][v]: source_processing_runs.status
    broken,   \* runs a failed task is bound to
    frag,     \* frag[<<d, v, i>>]: the source_fragments row and its records
    tasks,    \* live pipeline_tasks rows
    slots,    \* documents in active_source_slots
    item,     \* item[d]: intake_job_sources of the reprocess job of d
    stopped,  \* documents whose reprocess job was cancelled
    worker,   \* worker[w]: what the process is doing
    faults

vars == <<doc, artifact, run, broken, frag, tasks, slots, item, stopped, worker,
          faults>>

Runs == 1..2
RunsOf(d) == {d} \X Runs
Fragments == Docs \X Runs \X (1..PerRun)
Mechanical == {"acquire", "convert", "chunk"}
Kinds == Mechanical \cup {"analyze", "audit", "publish"}
AI == "executor"

DocStatus ==
    {"discovered", "approved", "acquiring", "acquired", "converting", "converted",
     "chunking", "prepared", "analyzing", "verifying", "completed", "duplicate",
     "rejected", "failed"}
Buffered == {"approved", "acquiring", "acquired", "converting", "converted", "chunking"}
Closed == {"completed", "duplicate", "rejected"}

RunStatus == {"none", "converting", "segmenting", "extracting", "auditing",
              "completed", "failed", "cancelled"}
ActiveRun == {"converting", "segmenting", "extracting", "auditing"}

\* records: the statuses its candidates have; audit: a fidelity audit is due.
FragmentRow ==
    [status : {"none", "queued", "reserved", "analyzing", "analyzed", "published",
               "failed"},
     disposition : {"none", "settled", "open"},
     held : BOOLEAN, attempts : 0..FragmentLimit,
     records : SUBSET {"verified", "deep_review", "published", "rejected"},
     audit : BOOLEAN]

\* A live task: kind, document, scope and frags make its dedupe key.
TaskRow == [kind : Kinds, doc : Docs \cup {None}, scope : 0..3, run : 0..2,
            frags : SUBSET Fragments, holder : Workers \cup {None, AI},
            attempts : 0..AttemptLimit]

Key(t) == <<t.kind, t.doc, t.scope, t.frags>>

\* What a process does with the row it claimed.
IdleWorker == [pc |-> "idle", task |-> None]

OpenStatus == {"queued", "reserved", "analyzing"}
NoFragment == [status |-> "none", disposition |-> "none", held |-> FALSE,
               attempts |-> 0, records |-> {}, audit |-> FALSE]

TypeOK ==
    /\ doc \in [Docs -> DocStatus]
    /\ run \in [Docs -> [Runs -> RunStatus]]
    /\ broken \in [Docs -> SUBSET Runs]
    /\ DOMAIN frag = Fragments /\ \A f \in Fragments : frag[f] \in FragmentRow
    /\ tasks \subseteq TaskRow /\ slots \subseteq Docs /\ stopped \subseteq Docs
    /\ artifact \in [Docs -> {"none", "downloaded", "converted", "chunked"}]
    /\ item \in [Docs -> {"none", "queued", "running", "completed", "failed",
                          "cancelled"}]
    /\ DOMAIN worker = Workers
    /\ \A w \in Workers : \/ worker[w] = IdleWorker
                          \/ /\ worker[w].pc \in {"working", "segmented", "written"}
                             /\ worker[w].task \in TaskRow
    /\ faults \in 0..MaxFaults

Init ==
    /\ doc = [d \in Docs |-> "discovered"]
    /\ run = [d \in Docs |-> [v \in Runs |-> "none"]]
    /\ broken = [d \in Docs |-> {}]
    /\ frag = [f \in Fragments |-> NoFragment]
    /\ tasks = {} /\ slots = {}
    /\ artifact = [d \in Docs |-> "none"]
    /\ item = [d \in Docs |-> "none"] /\ stopped = {}
    /\ worker = [w \in Workers |-> IdleWorker]
    /\ faults = 0

Mishap == faults < MaxFaults /\ faults' = faults + 1

-----------------------------------------------------------------------------
(* A transaction is a function of the tables it reads and writes.           *)

Tables == [doc |-> doc, artifact |-> artifact, run |-> run, broken |-> broken,
           frag |-> frag, tasks |-> tasks, slots |-> slots, item |-> item,
           stopped |-> stopped]

Commit(s) ==
    /\ doc' = s.doc /\ run' = s.run /\ broken' = s.broken /\ frag' = s.frag
    /\ tasks' = s.tasks /\ slots' = s.slots /\ item' = s.item
    /\ artifact' = s.artifact /\ stopped' = s.stopped

OpenOf(s, d) == {f \in Fragments : f[1] = d /\ s.frag[f].status \in OpenStatus}
Claimable(s, d, v) ==
    {f \in Fragments : /\ f[1] = d /\ f[2] = v
                       /\ s.frag[f].status = "queued" /\ ~s.frag[f].held}
RecordsOf(s, fs) == UNION {s.frag[f].records : f \in fs}
OfRun(d, v) == {f \in Fragments : f[1] = d /\ f[2] = v}
OfDoc(d) == {f \in Fragments : f[1] = d}
BoundTo(s, d, v) == {t \in s.tasks : t.doc = d /\ t.run = v}

\* The tables with row(f) for the fragments fs, or status x for document d.
Fragged(s, fs, row(_)) ==
    [s EXCEPT !.frag = [f \in Fragments |-> IF f \in fs THEN row(f) ELSE @[f]]]
Marked(s, ds, x) == [s EXCEPT !.doc = [d \in Docs |-> IF d \in ds THEN x ELSE @[d]]]

\* insertTask: nothing happens while a live task has the key.
NewTask(kind, d, scope, v, fs) ==
    [kind |-> kind, doc |-> d, scope |-> scope, run |-> v, frags |-> fs,
     holder |-> None, attempts |-> 0]
CanInsert(s, t) == \A q \in s.tasks : Key(q) # Key(t)
InsertTask(s, t) == IF CanInsert(s, t) THEN [s EXCEPT !.tasks = @ \cup {t}] ELSE s

\* Every subset of xs that LIMIT n may return.
Limited(xs, n) ==
    {ys \in SUBSET xs :
       Cardinality(ys) = IF n < 0 THEN 0
                         ELSE IF Cardinality(xs) < n THEN Cardinality(xs) ELSE n}

-----------------------------------------------------------------------------
(* Closing runs.                                                            *)

\* Mutant: any failed run loses all its fragments.
NeverLeased(s, f) == FALSE

Leased(s, f) == \E t \in s.tasks : t.holder # None /\ f \in t.frags

\* The runs among rs that a failed task or a cancelled job ends.
Terminal(s, rs) ==
    {r \in rs :
       /\ s.run[r[1]][r[2]] \in ActiveRun
       /\ \/ r[2] \in s.broken[r[1]]
          \/ /\ r[2] = 2 /\ r[1] \in s.stopped
             /\ \A t \in BoundTo(s, r[1], 2) : t.holder = None}

\* reconcileTerminalProcessingRunsWithClient; leased work is left alone.
ReconcileTerminal(s, rs) ==
    LET ended == Terminal(s, rs)
        outcome(r) == IF r[2] = 2 /\ r[1] \in s.stopped THEN "cancelled" ELSE "failed"
        lost == {f \in Fragments : /\ <<f[1], f[2]>> \in ended
                                   /\ s.frag[f].status \in OpenStatus
                                   /\ ~(s.frag[f].held /\ Leased(s, f))}
        s1 == Fragged(s, lost, LAMBDA f : [s.frag[f] EXCEPT !.status = "failed",
                                                            !.held = FALSE])
    IN  [s1 EXCEPT
           !.run = [d \in Docs |-> [v \in Runs |->
                      IF <<d, v>> \in ended THEN outcome(<<d, v>>) ELSE @[d][v]]],
           !.tasks = {t \in @ : ~(t.holder = None /\ <<t.doc, t.run>> \in ended)},
           !.item = [d \in Docs |->
                       IF <<d, 2>> \in ended /\ @[d] \in {"queued", "running"}
                       THEN outcome(<<d, 2>>) ELSE @[d]],
           !.slots = {d \in @ : \/ \A v \in Runs : <<d, v>> \notin ended
                                \/ \E v \in Runs : /\ <<d, v>> \notin ended
                                                   /\ s.run[d][v] \in ActiveRun}]

\* A live task that has failed for good.
EndFailed(s, t) ==
    LET s1 == [s EXCEPT
                 !.tasks = @ \ {t},
                 !.broken = IF t.run = 0 THEN @
                            ELSE [s.broken EXCEPT ![t.doc] = @ \cup {t.run}]]
        fs == {f \in t.frags : t.kind = "analyze" /\ s.frag[f].held
                               /\ s.frag[f].status \in {"reserved", "analyzing"}}
    IN  Fragged(s1, fs, LAMBDA f : [s.frag[f] EXCEPT !.status = "failed",
                                                     !.held = FALSE])

\* A live task that goes back to the queue with its reservations.
Requeued(s, t) ==
    LET fs == {f \in t.frags : t.kind = "analyze" /\ s.frag[f].held
                               /\ s.frag[f].status \in {"reserved", "analyzing"}}
    IN  Fragged([s EXCEPT !.tasks = (@ \ {t}) \cup {[t EXCEPT !.holder = None]}],
                fs, LAMBDA f : [s.frag[f] EXCEPT !.status = "reserved"])

Bound(t) == IF t.run = 0 THEN {} ELSE {<<t.doc, t.run>>}

\* reconcileExpiredLeasesWithClient for one task.
ExpiredLease(s, t) ==
    IF t.attempts < AttemptLimit THEN Requeued(s, t)
    ELSE ReconcileTerminal(EndFailed(s, t), Bound(t))

RetryStatus(kind) ==
    CASE kind = "convert" -> "acquired" [] kind = "chunk" -> "converted"
      [] kind \in {"analyze", "audit"} -> "analyzing" [] OTHER -> "approved"

\* failPipelineTask: the document follows the failure, whatever its status.
FailedTask(s, t, final) ==
    LET s1 == IF final THEN EndFailed(s, t) ELSE Requeued(s, t)
        s2 == Marked(s1, {t.doc} \cap Docs,
                     IF final /\ t.kind \notin {"analyze", "audit"} THEN "failed"
                     ELSE RetryStatus(t.kind))
    IN  IF final THEN ReconcileTerminal(s2, Bound(t)) ELSE s2

-----------------------------------------------------------------------------
(* The scheduler: the parts of ensureStreamingWorkInTransaction.            *)

\* reconcileExpiredAndCompletedWork
Spent(s) == {t \in s.tasks : /\ t.kind = "analyze" /\ t.holder = None
                             /\ \E f \in t.frags : /\ s.frag[f].held
                                                   /\ s.frag[f].attempts = FragmentLimit}
\* Mutant: Fragments that have used up their attempts are not ended.
EndNone(s) == s

EndExhausted(s) ==
    LET spent == Spent(s)
        fs == {f \in UNION {t.frags : t \in spent} :
                 s.frag[f].held /\ s.frag[f].status \in {"reserved", "analyzing"}}
        s1 == [s EXCEPT
                 !.tasks = @ \ spent,
                 !.broken = [d \in Docs |->
                               @[d] \cup {t.run : t \in {q \in spent : q.doc = d}}]]
        s2 == Fragged(s1, fs, LAMBDA f : [s.frag[f] EXCEPT !.status = "failed",
                                            !.held = FALSE, !.disposition = "open"])
    IN  ReconcileTerminal(s2, UNION {Bound(t) : t \in spent})

Unresolved == {"verified", "deep_review"}

\* Mutant: The buffered fragments of a document do not count.
DrainedOfTasks(s) ==
    {d \in Docs : /\ s.doc[d] \in {"prepared", "analyzing", "verifying"}
                  /\ RecordsOf(s, OfDoc(d)) \cap Unresolved = {}
                  /\ \A t \in s.tasks : t.doc = d => t.kind \in Mechanical}

\* The documents whose asynchronous work has drained.
Drained(s) ==
    {d \in Docs : /\ s.doc[d] \in {"prepared", "analyzing", "verifying"}
                  /\ OpenOf(s, d) = {}
                  /\ RecordsOf(s, OfDoc(d)) \cap Unresolved = {}
                  /\ \A t \in s.tasks : t.doc = d => t.kind \in Mechanical}

RunDrained(s, d, v) ==
    /\ s.doc[d] \in Closed /\ s.run[d][v] \in ActiveRun
    /\ BoundTo(s, d, v) = {}
    /\ \A f \in OfRun(d, v) : s.frag[f].status \notin OpenStatus
    /\ RecordsOf(s, OfRun(d, v)) \cap Unresolved = {}

\* reconcileCompletedSources
ReconcileCompleted(s) ==
    LET s1 == Marked(s, Drained(s), "completed")
    IN  [s1 EXCEPT !.run = [d \in Docs |-> [v \in Runs |->
                              IF RunDrained(s1, d, v) THEN "completed" ELSE @[d][v]]]]

\* The run whose work queueSourceWork continues; 0 is none.
ChosenRun(s, d, analysis) ==
    LET pending == {v \in Runs : Claimable(s, d, v) # {}}
        active == {v \in Runs : s.run[d][v] \in ActiveRun}
        best == IF analysis /\ pending # {}
                THEN IF pending \cap active = {} THEN pending ELSE pending \cap active
                ELSE IF active # {} THEN active ELSE pending
    IN  IF best = {} THEN 0 ELSE CHOOSE v \in best : \A u \in best : u <= v

\* queueSourceWork, mechanical stages.
MechanicalTask(s, d) ==
    LET v == ChosenRun(s, d, FALSE)
        kind == CASE s.doc[d] \in {"acquired", "converting"} -> "convert"
                  [] s.doc[d] \in {"converted", "chunking"} -> "chunk"
                  [] OTHER -> "acquire"
    IN  NewTask(kind, d, v, v, {})
QueueMechanical(s, ds) ==
    [s EXCEPT !.tasks = @ \cup {t \in {MechanicalTask(s, d) : d \in ds} : CanInsert(s, t)}]

\* queueRunningReprocessMechanicalWork
ReprocessDocs(s) ==
    {d \in Docs : /\ s.item[d] = "running" /\ d \notin s.stopped
                  /\ s.run[d][2] \in {"converting", "segmenting"}
                  /\ s.doc[d] \in Buffered
                  /\ \A t \in BoundTo(s, d, 2) : t.kind \notin Mechanical}

\* maintainPreparedSourceBuffer
Unprepared(s) ==
    {d \in Docs : /\ s.doc[d] \in Buffered
                  /\ \A t \in s.tasks : t.doc = d => t.kind \notin Mechanical}
PreparationLimit(s) == Prepared - Cardinality({d \in Docs : s.doc[d] = "prepared"})
Available(s) ==
    Prepared - Cardinality({d \in Docs : s.doc[d] \in Buffered \cup {"prepared"}})
DiscoveredDocs(s) == {d \in Docs : s.doc[d] = "discovered"}

\* reconcileSourceLanes, up to the choice of new lanes.
AdjustLanes(s) ==
    LET stale == {f \in Fragments :
                    /\ s.frag[f].status \in OpenStatus /\ s.frag[f].held
                    /\ ~\E t \in s.tasks : t.kind = "analyze" /\ f \in t.frags}
        s1 == Fragged(s, stale, LAMBDA f : [s.frag[f] EXCEPT !.status = "queued",
                                                             !.held = FALSE])
        idle(d) == \E v \in Runs : Claimable(s1, d, v) # {}
        s2 == Marked(s1, {d \in Docs : s.doc[d] \in {"verifying", "failed"} /\ idle(d)},
                     "prepared")
        s3 == Marked(s2, {d \in Docs : /\ s2.doc[d] \in {"prepared", "analyzing"}
                                       /\ OpenOf(s2, d) = {}}, "verifying")
    IN  [s3 EXCEPT !.slots = {d \in @ : OpenOf(s3, d) # {}}]
Waiting(s) ==
    {d \in Docs \ s.slots : /\ s.doc[d] \in {"prepared", "analyzing"}
                            /\ \E v \in Runs : Claimable(s, d, v) # {}}
TakeLanes(s, ds) ==
    Marked([s EXCEPT !.slots = @ \cup ds], ds, "analyzing")

InLive(s, kind, f) == \E t \in s.tasks : t.kind = kind /\ f \in t.frags

\* queueCandidatePublication: one batch of every ready record; the task names
\* a document only when the batch has no other.
QueuePublication(s) ==
    LET ready == {f \in Fragments : "verified" \in s.frag[f].records
                                    /\ ~InLive(s, "publish", f)}
        owners == {f[1] : f \in ready}
        owner == IF Cardinality(owners) = 1 THEN CHOOSE d \in owners : TRUE ELSE None
    IN  IF ready = {} THEN s ELSE InsertTask(s, NewTask("publish", owner, 0, 0, ready))

\* queueSourceWork, fidelity audits: also of documents that are completed.
AuditTasks(s) ==
    LET due(d, v) == {f \in OfRun(d, v) :
                        /\ s.frag[f].audit /\ ~InLive(s, "audit", f)
                        /\ s.frag[f].records \cap {"verified", "published"} # {}}
    IN  {NewTask("audit", r[1], r[2], r[2], due(r[1], r[2])) :
           r \in {r \in Docs \X Runs : due(r[1], r[2]) # {}}}
QueueAudits(s) == [s EXCEPT !.tasks = @ \cup {t \in AuditTasks(s) : CanInsert(s, t)}]

\* queueSourceWork, analysis: the first claimable fragments of the chosen run are
\* reserved for one task.
AnalysisTask(s, d) ==
    LET v == ChosenRun(s, d, TRUE)
        fs == Claimable(s, d, v)
    IN  NewTask("analyze", d, v, v,
                {f \in fs : Cardinality({g \in fs : g[3] < f[3]}) < Batch})
QueueAnalysis(s) ==
    LET new == {t \in {AnalysisTask(s, d) : d \in {d \in s.slots : s.doc[d] \notin Closed}} :
                  t.frags # {} /\ CanInsert(s, t)}
        s1 == Fragged(s, UNION {t.frags : t \in new},
                      LAMBDA f : [s.frag[f] EXCEPT !.status = "reserved", !.held = TRUE])
    IN  Marked([s1 EXCEPT !.tasks = @ \cup new], {t.doc : t \in new}, "analyzing")

\* One pass; ripes: whether the ready records may be old enough to be published,
\* idles: whether an executor may have no work.
Schedule(ripes, idles) ==
    \E s0 \in {EndExhausted(Tables)} :
    \E s1 \in {ReconcileCompleted(s0)} :
    \E s2 \in {QueueMechanical(s1, ds) : ds \in Limited(ReprocessDocs(s1), MaxActive)} :
    \E s3 \in {QueueMechanical(s2, ds) : ds \in Limited(Unprepared(s2), PreparationLimit(s2))} :
    \E s4 \in {QueueMechanical(Marked(s3, ds, "approved"), ds) :
                 ds \in Limited(DiscoveredDocs(s3), Available(s2))} :
    \E s5 \in {AdjustLanes(s4)} :
    \E s6 \in {TakeLanes(s5, ds) :
                 ds \in Limited(Waiting(s5), MaxActive - Cardinality(s5.slots))} :
    \E s7 \in {IF ripe THEN QueuePublication(s6) ELSE s6 : ripe \in ripes} :
    \E s8 \in {IF idle THEN QueueAnalysis(QueueAudits(s7)) ELSE s7 : idle \in idles} :
      s8 # Tables /\ Commit(s8) /\ UNCHANGED <<worker, faults>>

-----------------------------------------------------------------------------
(* Executors: fragment analysis, audits and reviews, all fenced.            *)

Taken(t, h) == [t EXCEPT !.holder = h, !.attempts = @ + 1]
Complete(s, t) == [s EXCEPT !.tasks = @ \ {t}]

\* claimPipelineTask
ClaimAI(t) ==
    LET fs == {f \in t.frags : /\ t.kind = "analyze" /\ frag[f].held
                               /\ frag[f].status = "reserved"}
    IN  /\ t.kind \in {"analyze", "audit"} /\ t.holder = None
        /\ t.attempts < AttemptLimit
        /\ \A f \in fs : frag[f].attempts < FragmentLimit
        /\ Commit(Fragged([Tables EXCEPT !.tasks = (@ \ {t}) \cup {Taken(t, AI)}], fs,
                          LAMBDA f : [frag[f] EXCEPT !.status = "analyzing",
                                                     !.attempts = @ + 1]))
        /\ UNCHANGED <<worker, faults>>

Incomplete(s, d, v) ==
    \E f \in OfRun(d, v) : /\ s.frag[f].status # "none"
                           /\ s.frag[f].disposition \in {"none", "open"}

\* The run after a submission or a publication has settled its fragments.
RunSettled(s, d, v) ==
    IF v = 0 \/ Incomplete(s, d, v) THEN s
    ELSE [s EXCEPT !.run[d][v] =
            IF RecordsOf(s, OfRun(d, v)) \cap Unresolved = {} THEN "completed"
            ELSE "auditing"]

Recorded(row) == [row EXCEPT !.records = @ \cup {"verified"}]

\* submitCandidateAnalysis: records are made of the fragments rs, the fragments
\* os are to be continued, audited are the records that quality control samples.
SubmitAnalysis(t, rs, os, audited) ==
    LET own == {f \in t.frags : frag[f].held}
        row(f) == LET r == IF f \in rs THEN Recorded(frag[f]) ELSE frag[f]
                  IN  [r EXCEPT !.audit = @ \/ (f \in rs /\ audited)]
        closed(f) == IF f \in own
                     THEN [row(f) EXCEPT
                             !.held = FALSE,
                             !.status = IF f \in os THEN "queued" ELSE "analyzed",
                             !.disposition = IF f \in os THEN "open" ELSE "settled"]
                     ELSE row(f)
    IN  /\ t.kind = "analyze" /\ t.holder = AI
        /\ rs \subseteq t.frags /\ os \subseteq t.frags
        /\ IF os = {} THEN UNCHANGED faults ELSE Mishap
        /\ Commit(Complete(RunSettled(Fragged(Tables, t.frags, closed), t.doc, t.run), t))
        /\ UNCHANGED worker

\* submitCandidateVerification of a fidelity audit; a record in ms has a
\* material error and goes to deep review.
SubmitAudit(t, ms) ==
    LET repaired(f) ==
          [frag[f] EXCEPT !.audit = FALSE,
                          !.records = IF f \in ms
                                      THEN (@ \ {"verified", "published"}) \cup {"deep_review"}
                                      ELSE @]
    IN  /\ t.kind = "audit" /\ t.holder = AI /\ ms \subseteq t.frags
        /\ IF ms = {} THEN UNCHANGED faults ELSE Mishap
        /\ Commit(Complete(Fragged(Tables, t.frags, repaired), t))
        /\ UNCHANGED worker

\* The deep review of a record, see CandidateLifecycle.
Review(f, outcome) ==
    /\ "deep_review" \in frag[f].records /\ outcome \in {"verified", "rejected"}
    /\ Commit(Fragged(Tables, {f}, LAMBDA g :
                [frag[g] EXCEPT !.records = (@ \ {"deep_review"}) \cup {outcome}]))
    /\ UNCHANGED <<worker, faults>>

\* failPipelineTask by an executor; the last attempt is final.
FailAI(t) ==
    /\ t.holder = AI /\ Mishap
    /\ Commit(FailedTask(Tables, t, t.attempts >= AttemptLimit))
    /\ UNCHANGED worker

-----------------------------------------------------------------------------
(* The deterministic worker.                                                *)

\* The row that w still holds.
Mine(w) == {t \in tasks : t.holder = w /\ worker[w].pc # "idle"
                          /\ Key(t) = Key(worker[w].task)}
Goes(w, pc) == worker' = [worker EXCEPT ![w].pc = pc]
Rests(w) == worker' = [worker EXCEPT ![w] = IdleWorker]

StartStatus(kind) ==
    CASE kind = "acquire" -> "acquiring" [] kind = "convert" -> "converting"
      [] kind = "chunk" -> "chunking"

\* claimMechanicalPipelineTask
ClaimMechanical(w, t) ==
    LET s == [Tables EXCEPT !.tasks = (@ \ {t}) \cup {Taken(t, w)}]
    IN  /\ worker[w].pc = "idle"
        /\ t.kind \in Mechanical \cup {"publish"} /\ t.holder = None
        /\ t.attempts < AttemptLimit
        /\ Commit(IF t.kind = "publish" THEN s ELSE Marked(s, {t.doc}, StartStatus(t.kind)))
        /\ worker' = [worker EXCEPT ![w] = [pc |-> "working", task |-> t]]
        /\ UNCHANGED faults

Working(w, kind) == worker[w].pc = "working" /\ worker[w].task.kind = kind

\* markSourceCandidateDuplicate
Duplicate(s, d) == Marked([s EXCEPT !.slots = @ \ {d}], {d}, "duplicate")

\* The documents whose content_hash is stored.
Hashed == {d \in Docs : run[d][1] # "none" /\ doc[d] # "duplicate"}

\* acquireSource: the document gets run 1, whatever run was asked for.
AcquireSource(w) ==
    LET d == worker[w].task.doc
        live == {t \in tasks : Key(t) = Key(worker[w].task)}
        s == [Tables EXCEPT
                !.artifact[d] = "downloaded", !.run[d][1] = "converting",
                !.tasks = (@ \ live) \cup {[t EXCEPT !.run = 1] : t \in live}]
    IN  /\ Working(w, "acquire")
        /\ Commit(IF d \in Copies /\ (Copies \cap Hashed) \ {d} # {}
                  THEN Duplicate(Tables, d) ELSE Marked(s, {d}, "acquired"))
        /\ Goes(w, "written") /\ UNCHANGED faults

LatestRun(d) ==
    LET vs == {v \in Runs : run[d][v] # "none"}
    IN  IF vs = {} THEN 0 ELSE CHOOSE v \in vs : \A u \in vs : u <= v

\* convertSource
ConvertSource(w) ==
    LET d == worker[w].task.doc
        v == worker[w].task.run
        s == [Tables EXCEPT !.artifact[d] = "converted",
                            !.run[d] = IF v = 0 THEN @
                                       ELSE [run[d] EXCEPT ![v] = "segmenting"]]
    IN  /\ Working(w, "convert")
        /\ Commit(Marked(s, {d}, "converted"))
        /\ Goes(w, "written") /\ UNCHANGED faults

Segmented(w) ==
    IF worker[w].task.run = 0 THEN LatestRun(worker[w].task.doc) ELSE worker[w].task.run

\* chunkSource, first transaction: the fragments that are not there yet; ns
\* hold no knowledge.
SegmentSource(w, ns) ==
    LET d == worker[w].task.doc
        v == Segmented(w)
        new == {f \in OfRun(d, v) : frag[f].status = "none"}
        inserted(f) == [NoFragment EXCEPT
                          !.status = IF f \in ns THEN "analyzed" ELSE "queued",
                          !.disposition = IF f \in ns THEN "settled" ELSE "none"]
    IN  /\ Working(w, "chunk") /\ v # 0 /\ ns \subseteq new
        /\ Commit(Fragged([Tables EXCEPT !.artifact[d] = "chunked",
                                         !.run[d][v] = "extracting"], new, inserted))
        /\ Goes(w, "segmented") /\ UNCHANGED faults

\* chunkSource, the rest: runDeterministicFastPath handles the fragments hs,
\* then the document is prepared unless its status has changed.
FastPath(w, hs) ==
    LET d == worker[w].task.doc
        handled(f) == [Recorded(frag[f]) EXCEPT !.status = "analyzed",
                                                !.disposition = "settled"]
    IN  /\ worker[w].pc = "segmented"
        /\ hs \subseteq {f \in OfRun(d, Segmented(w)) : frag[f].status = "queued"}
        /\ Commit(Marked(Fragged(Tables, hs, handled),
                         {d} \cap {e \in Docs : doc[e] = "chunking"}, "prepared"))
        /\ Goes(w, "written") /\ UNCHANGED faults

\* A fragment of a published record; an analysis under way keeps it.
PublishedRow(row) ==
    [row EXCEPT !.records = (@ \ {"verified"}) \cup {"published"},
                !.status = IF @ = "analyzing" /\ row.held THEN @ ELSE "published"]

RunsAfter(s, rs) ==
    [s EXCEPT !.run = [d \in Docs |-> [v \in Runs |->
       IF /\ <<d, v>> \in rs /\ ~Incomplete(s, d, v)
          /\ RecordsOf(s, OfRun(d, v)) \cap Unresolved = {}
       THEN "completed" ELSE @[d][v]]]]

\* publishCandidateBatch: records that fail the policy checks go to review; the
\* task's own reservation fences the batch.
PublishCandidateBatch(w, ds) ==
    LET fs == {f \in worker[w].task.frags : "verified" \in frag[f].records}
        live == \E t \in tasks : Key(t) = Key(worker[w].task)
        s1 == Fragged(Tables, fs \ ds, LAMBDA f : PublishedRow(frag[f]))
        s2 == Fragged(s1, ds, LAMBDA f :
                [frag[f] EXCEPT !.records = (@ \ {"verified"}) \cup {"deep_review"}])
    IN  /\ Working(w, "publish") /\ ds \subseteq fs
        /\ IF ds = {} THEN UNCHANGED faults ELSE Mishap
        /\ Commit(IF live THEN RunsAfter(s2, {<<f[1], f[2]>> : f \in fs \ ds}) ELSE Tables)
        /\ Goes(w, "written")

\* completeMechanicalPipelineTask; without the lease the report is refused.
CompleteMechanical(w) ==
    /\ worker[w].pc = "written"
    /\ Commit([Tables EXCEPT !.tasks = @ \ Mine(w)])
    /\ Rests(w) /\ UNCHANGED faults

\* A stage fails: the network, the disk, the database.  SOURCE_HTTP_404 and a
\* policy rejection are final at once.
FailMechanical(w, final) ==
    /\ worker[w].pc # "idle" /\ Mishap
    /\ final => worker[w].task.kind = "acquire"
    /\ IF Mine(w) = {} THEN Commit(Tables)
       ELSE \E t \in Mine(w) :
              Commit(FailedTask(Tables, t, final \/ t.attempts >= AttemptLimit))
    /\ Rests(w)

Crash(w) ==
    /\ worker[w].pc # "idle" /\ Mishap /\ Rests(w) /\ Commit(Tables)

\* The lease of a task runs out: at once when its worker has died, else because
\* its holder could not renew it.
LeaseExpires(t) ==
    /\ t.holder # None
    /\ IF t.holder \in Workers /\ t \notin Mine(t.holder) THEN UNCHANGED faults ELSE Mishap
    /\ Commit(ExpiredLease(Tables, t)) /\ UNCHANGED worker

-----------------------------------------------------------------------------
(* The worker loop, reprocessing and administrators.                        *)

\* reconcileTerminalProcessingRuns, every 30 s.
ReconcileTerminalRuns ==
    /\ Terminal(Tables, Docs \X Runs) # {}
    /\ Commit(ReconcileTerminal(Tables, Docs \X Runs)) /\ UNCHANGED <<worker, faults>>

\* createReprocessJob for one document.
CreateReprocessJob(d) ==
    /\ d \in Reprocessed /\ item[d] = "none" /\ doc[d] # "rejected"
    /\ Mishap
    /\ Commit([Tables EXCEPT !.item[d] = "queued"]) /\ UNCHANGED worker

\* controlIntakeJob, cancel
CancelJob(d) ==
    /\ item[d] \in {"queued", "running"} /\ d \notin stopped
    /\ Mishap
    /\ Commit([Tables EXCEPT !.stopped = @ \cup {d},
                             !.item[d] = IF @ = "queued" THEN "cancelled" ELSE @])
    /\ UNCHANGED worker

\* processNextReprocessItem: close the items whose runs have ended, then start
\* one: convert its artifact again, or download it again.
ItemOutcome(d) ==
    IF item[d] # "running" THEN item[d]
    ELSE CASE run[d][2] = "completed" -> "completed"
           [] run[d][2] \in {"failed", "cancelled"} -> "failed"
           [] OTHER -> item[d]

CloseItems ==
    /\ \E d \in Docs : ItemOutcome(d) # item[d]
    /\ Commit([Tables EXCEPT !.item = [d \in Docs |-> ItemOutcome(d)]])
    /\ UNCHANGED <<worker, faults>>

ReprocessCapacity ==
    Cardinality({d \in Docs \ stopped : item[d] = "running"}) < MaxActive

Reconverted(s, d) ==
    InsertTask(Marked([s EXCEPT !.run[d][2] = "converting"], {d}, "acquired"),
               NewTask("convert", d, 2, 2, {}))
Redownloaded(s, d) ==
    InsertTask(Marked(s, {d}, "approved"), NewTask("acquire", d, 3, 0, {}))

StartItem(d) ==
    /\ item[d] = "queued" /\ d \notin stopped /\ ReprocessCapacity
    /\ \A e \in Docs : ItemOutcome(e) = item[e]
    /\ LET s == [Tables EXCEPT !.item[d] = "running"]
       IN  Commit(IF artifact[d] = "none" THEN Redownloaded(s, d) ELSE Reconverted(s, d))
    /\ UNCHANGED <<worker, faults>>

\* Mutant: The tasks of a retried document stay.
SkippedNone(s, d) == s

\* actOnSource: the document's tasks are skipped.
Skipped(s, d) == [s EXCEPT !.tasks = {t \in @ : t.doc # d}]

RetrySource(d) ==
    LET next == CASE artifact[d] = "chunked" -> "analyzing"
                  [] artifact[d] = "converted" -> "converted"
                  [] artifact[d] = "downloaded" -> "acquired"
                  [] OTHER -> "approved"
        fs == {f \in OfDoc(d) : /\ artifact[d] = "chunked"
                                /\ frag[f].status \in OpenStatus \cup {"failed"}}
    IN  /\ doc[d] # "discovered" /\ Mishap
        /\ Commit(Skipped(Marked(Fragged(Tables, fs, LAMBDA f :
                    [frag[f] EXCEPT !.status = "queued", !.held = FALSE, !.attempts = 0]),
                    {d}, next), d))
        /\ UNCHANGED worker

RejectSource(d) ==
    /\ doc[d] # "rejected" /\ Mishap
    /\ Commit(Skipped(Marked([Tables EXCEPT !.slots = @ \ {d}], {d}, "rejected"), d))
    /\ UNCHANGED worker

-----------------------------------------------------------------------------
Executor ==
    \/ \E t \in tasks : ClaimAI(t)
    \/ \E t \in tasks : \E rs, os \in SUBSET t.frags : \E audited \in BOOLEAN :
         SubmitAnalysis(t, rs, os, audited /\ rs # {})
    \/ \E t \in tasks : \E ms \in SUBSET t.frags : SubmitAudit(t, ms)
    \/ \E f \in Fragments : \E o \in {"verified", "rejected"} : Review(f, o)

WorkerStep(w) ==
    \/ \E t \in tasks : ClaimMechanical(w, t)
    \/ AcquireSource(w) \/ ConvertSource(w)
    \/ \E ns \in SUBSET Fragments : SegmentSource(w, ns)
    \/ \E hs \in SUBSET Fragments : FastPath(w, hs)
    \/ \E ds \in SUBSET Fragments : PublishCandidateBatch(w, ds)
    \/ CompleteMechanical(w)

Faults ==
    \/ \E t \in tasks : FailAI(t) \/ LeaseExpires(t)
    \/ \E w \in Workers : Crash(w) \/ \E final \in BOOLEAN : FailMechanical(w, final)
    \/ \E d \in Docs : CreateReprocessJob(d) \/ CancelJob(d) \/ RetrySource(d)
                       \/ RejectSource(d)

Next ==
    \/ Schedule(BOOLEAN, BOOLEAN)
    \/ Executor \/ (\E w \in Workers : WorkerStep(w))
    \/ ReconcileTerminalRuns \/ CloseItems \/ (\E d \in Docs : StartItem(d))
    \/ Faults

\* The lease of a worker that is gone expires and is swept.
SweepWorkers ==
    \E t \in tasks : t.holder \in Workers /\ t \notin Mine(t.holder) /\ LeaseExpires(t)

\* Executors poll for work; the worker loops; an expired lease is swept.
Fairness ==
    /\ WF_vars(Schedule({TRUE}, {TRUE}))
    /\ WF_vars(Executor)
    /\ \A w \in Workers : WF_vars(WorkerStep(w))
    /\ WF_vars(SweepWorkers)
    /\ WF_vars(ReconcileTerminalRuns) /\ WF_vars(CloseItems)
    /\ \A d \in Docs : WF_vars(StartItem(d))

Spec == Init /\ [][Next]_vars
FairSpec == Spec /\ Fairness

-----------------------------------------------------------------------------
(* Properties.                                                              *)

\* Every document comes to rest, and so do its processing runs unless it was
\* rejected, failed or is processed again: failures, lost leases, dead workers,
\* retries of an administrator and the several transactions that settle fragments
\* and close runs never leave one waiting in the scheduler.
DocumentsSettle ==
    \A d \in Docs :
      <>[](/\ doc[d] \in Closed \cup {"failed"}
           /\ \/ doc[d] \in {"rejected", "failed"} \/ item[d] # "none"
              \/ \A v \in Runs : run[d][v] \notin ActiveRun)

\* A document that was never reprocessed is not completed while one of its
\* fragments waits for an analysis, although a worker that has lost its lease may
\* still write fragments.
CompletedDocumentIsDrained ==
    \A d \in Docs : doc[d] = "completed" /\ item[d] = "none" => OpenOf(Tables, d) = {}

\* A live analysis holds the reservation of every one of its fragments: whatever
\* requeues, releases, retries or publishes them, no executor works on a fragment
\* that the scheduler may give to another one.
AnalysisHoldsItsFragments ==
    \A t \in tasks : t.kind = "analyze" => \A f \in t.frags : frag[f].held

\* Closing a failed run, stopping a reprocess job or sweeping leases never takes a
\* fragment away from the executor whose lease on it is live.
LeasedWorkIsPreserved ==
    [][\A t \in tasks \cap tasks' :
         t.kind = "analyze" /\ t.holder = AI =>
           \A f \in t.frags : frag[f].held => frag'[f].held /\ frag'[f].status # "failed"]_vars

\* A completed run has no fragment without an answer and none that waits for its
\* continuation (docs/KNOWLEDGE_PIPELINE_2.md: an open continuation or retry means
\* that the run is incomplete).
CompletedRunIsComplete ==
    \A d \in Docs, v \in Runs : run[d][v] = "completed" => ~Incomplete(Tables, d, v)
==============================================================================
