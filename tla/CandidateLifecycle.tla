------------------------- MODULE CandidateLifecycle -------------------------
(***************************************************************************)
(* A knowledge candidate from extraction to publication, its asynchronous  *)
(* Fidelity audit and its repair: src/domain/pipeline.ts and               *)
(* publishCandidateBatch of src/domain/pipeline-worker.ts.                 *)
(*                                                                         *)
(* A candidate is reserved by the tasks that work on it, one column per    *)
(* kind of task.  The lease protocol of a task is in PipelineLease; here a *)
(* task is live until its one accepted result, its final failure or an     *)
(* administrator closes it.  Agents' submissions are one transaction.  The *)
(* publication worker is not: it reads its batch, creates each revision in *)
(* a transaction of its own and publishes the batch in a last one, and     *)
(* none of them looks at the lease again, so a worker whose lease ran out  *)
(* goes on beside its successor.                                           *)
(*                                                                         *)
(* A payload is its version: a repair makes the next one.  A revision is   *)
(* the payload it was created from, and each candidate is an item of its   *)
(* own; the history of releases is in ReleaseHistory.                      *)
(***************************************************************************)
EXTENDS Naturals, FiniteSets

CONSTANTS
    Candidates,
    Workers,      \* publication workers, a late one beside its successor
    Slots,        \* task rows 1..Slots; a row nothing refers to is reused
    MaxPayload,   \* bound on payload versions
    Refused,      \* the payloads the preflight of a revision refuses
    MaxFaults     \* bound on stopped workers, failed and skipped tasks

ASSUME SetsAssumption == IsFiniteSet(Candidates) /\ IsFiniteSet(Workers)
ASSUME BoundsAssumption ==
    /\ Slots \in Nat \ {0}
    /\ MaxPayload \in Nat \ {0}
    /\ Refused \subseteq 1..MaxPayload
    /\ MaxFaults \in Nat

VARIABLES
    cand,    \* cand[c]: its row of knowledge_candidates
    served,  \* served[c]: the revision of it readers see, 0 if none
    task,    \* task[k]: a row of pipeline_tasks
    run,     \* run[w]: what a publication worker holds in memory
    faults   \* how many of MaxFaults have happened

vars == <<cand, served, task, run, faults>>

TaskIds == 1..Slots
NoTask == 0
Payload == 1..MaxPayload

Status == {"absent", "analyzed", "verified", "deep_review", "rejected",
           "conflict", "published"}
Audit == {"pending", "sampled_out", "checking", "passed", "repair", "excluded"}

Candidate == [status    : Status,
              audit     : Audit,               \* fidelity_status
              reviewed  : BOOLEAN,             \* resolution_attempts > 0
              payload   : Payload,
              revision  : {0} \cup Payload,    \* revision_id
              verifier  : {NoTask} \cup TaskIds,  \* verification_task_id
              auditor   : {NoTask} \cup TaskIds,  \* fidelity_task_id
              reviewer  : {NoTask} \cup TaskIds,  \* deep_review_task_id
              publisher : {NoTask} \cup TaskIds]  \* publication_task_id

Task == [kind   : {"verify", "audit", "review", "publish"},
         cands  : SUBSET Candidates,
         status : {"absent", "live", "completed", "failed", "skipped"}]

\* todo: the candidates read and not yet handled, with the payload and the
\* attempts as they were read; made: revisions; held: preflight rejections.
Partial(S) == UNION {[D -> S] : D \in SUBSET Candidates}
Run == [task : {NoTask} \cup TaskIds,
        todo : Partial([payload : Payload, reviewed : BOOLEAN]),
        made : Partial(Payload),
        held : Partial(BOOLEAN),
        done : BOOLEAN]

NewCandidate == [status |-> "absent", audit |-> "pending", reviewed |-> FALSE,
                 payload |-> 1, revision |-> 0, verifier |-> NoTask,
                 auditor |-> NoTask, reviewer |-> NoTask, publisher |-> NoTask]
Idle == [task |-> NoTask, todo |-> <<>>, made |-> <<>>, held |-> <<>>,
         done |-> FALSE]

Init ==
    /\ cand = [c \in Candidates |-> NewCandidate]
    /\ served = [c \in Candidates |-> 0]
    /\ task = [k \in TaskIds |->
                 [kind |-> "verify", cands |-> {}, status |-> "absent"]]
    /\ run = [w \in Workers |-> Idle]
    /\ faults = 0

-----------------------------------------------------------------------------
(* Task rows.                                                               *)

Live(k) == k # NoTask /\ task[k].status = "live"

Referenced(k) ==
    \/ \E c \in Candidates :
         k \in {cand[c].verifier, cand[c].auditor, cand[c].reviewer,
                cand[c].publisher}
    \/ \E w \in Workers : run[w].task = k

Free(k) == ~Live(k) /\ ~Referenced(k)
NewTask(k) == Free(k) /\ \A j \in 1..(k - 1) : ~Free(j)

Queued(k, kind, S) ==
    task' = [task EXCEPT ![k] = [kind |-> kind, cands |-> S, status |-> "live"]]

Closed(k, status) == task' = [task EXCEPT ![k].status = status]

Fault == faults < MaxFaults /\ faults' = faults + 1

-----------------------------------------------------------------------------
(* Extraction and verification.                                             *)

\* An extracted record is 'verified' at once; a deterministic extractor may
\* leave it to Verify.
SubmitCandidateAnalysis(c, status, payload) ==
    /\ cand[c].status = "absent"
    /\ cand' = [cand EXCEPT ![c].status = status, ![c].payload = payload]
    /\ UNCHANGED <<served, task, run, faults>>

QueueVerification(k, S) ==
    /\ NewTask(k)
    /\ S # {}
    /\ \A c \in S : cand[c].status = "analyzed" /\ cand[c].verifier = NoTask
    /\ Queued(k, "verify", S)
    /\ cand' = [c \in Candidates |->
                  IF c \in S THEN [cand[c] EXCEPT !.verifier = k] ELSE cand[c]]
    /\ UNCHANGED <<served, run, faults>>

\* decision: what the agent and the deterministic preflight decided for some
\* of the leased candidates.  The others are queued again at once, in tasks
\* half the size: retry[c] is the one c goes to.
SubmitCandidateVerification(k, decision, retry) ==
    LET batch == task[k].cands
        used == {retry[c] : c \in DOMAIN retry}
    IN
    /\ Live(k) /\ task[k].kind = "verify"
    /\ DOMAIN decision \subseteq batch
    /\ \A c \in DOMAIN decision :
         cand[c].verifier = k /\ cand[c].status = "analyzed"
    /\ DOMAIN retry = batch \ DOMAIN decision
    /\ \A n \in used :
         /\ Free(n)
         /\ \A j \in 1..(n - 1) : Free(j) => j \in used
         /\ LET size == Cardinality({c \in DOMAIN retry : retry[c] = n})
            IN size = 1 \/ 2 * size <= Cardinality(batch)
    /\ cand' = [c \in Candidates |->
          IF c \in DOMAIN decision
          THEN [cand[c] EXCEPT !.status = decision[c], !.verifier = NoTask]
          ELSE IF c \in DOMAIN retry /\ cand[c].status = "analyzed"
                  /\ cand[c].verifier \in {NoTask, k}
          THEN [cand[c] EXCEPT !.verifier = retry[c]]
          ELSE IF cand[c].verifier = k
          THEN [cand[c] EXCEPT !.verifier = NoTask]
          ELSE cand[c]]
    /\ task' = [n \in TaskIds |->
          IF n = k THEN [task[k] EXCEPT !.status = "completed"]
          ELSE IF n \in used
          THEN [kind |-> "verify", status |-> "live",
                cands |-> {c \in DOMAIN retry : retry[c] = n}]
          ELSE task[n]]
    /\ UNCHANGED <<served, run, faults>>

-----------------------------------------------------------------------------
(* Fidelity audit.                                                          *)

Auditable(c) ==
    /\ cand[c].status \in {"verified", "published"}
    /\ cand[c].audit = "pending"
    /\ cand[c].auditor = NoTask

\* Quality sampling leaves those of out unchecked.
SampleOut(out) ==
    /\ out # {}
    /\ \A c \in out : Auditable(c)
    /\ cand' = [c \in Candidates |->
                  IF c \in out THEN [cand[c] EXCEPT !.audit = "sampled_out"]
                  ELSE cand[c]]
    /\ UNCHANGED <<served, task, run, faults>>

QueueFidelityAudit(k, S, out) ==
    /\ NewTask(k)
    /\ S # {}
    /\ S \cap out = {}
    /\ \A c \in S \cup out : Auditable(c)
    /\ Queued(k, "audit", S)
    /\ cand' = [c \in Candidates |->
          IF c \in S THEN [cand[c] EXCEPT !.audit = "checking", !.auditor = k]
          ELSE IF c \in out THEN [cand[c] EXCEPT !.audit = "sampled_out"]
          ELSE cand[c]]
    /\ UNCHANGED <<served, run, faults>>

\* finding: 'verified', 'rejected' or anything else ('deep_review').  A
\* rejected record that is published is taken out of the active state if its
\* own revision is the one served.
SubmitFidelityAudit(k, finding) ==
    /\ Live(k) /\ task[k].kind = "audit"
    /\ DOMAIN finding \subseteq task[k].cands
    /\ \A c \in DOMAIN finding :
         cand[c].auditor = k /\ cand[c].audit = "checking"
    /\ cand' = [c \in Candidates |->
          IF c \in DOMAIN finding /\ finding[c] = "verified"
          THEN [cand[c] EXCEPT !.audit = "passed", !.auditor = NoTask]
          ELSE IF c \in DOMAIN finding
          THEN [cand[c] EXCEPT !.audit = "repair", !.auditor = NoTask,
                               !.status = "deep_review"]
          ELSE IF cand[c].auditor = k
          THEN [cand[c] EXCEPT !.audit = "pending", !.auditor = NoTask]
          ELSE cand[c]]
    /\ served' = [c \in Candidates |->
          IF /\ c \in DOMAIN finding /\ finding[c] = "rejected"
             /\ cand[c].status = "published"
             /\ served[c] = cand[c].revision
          THEN 0 ELSE served[c]]
    /\ Closed(k, "completed")
    /\ UNCHANGED <<run, faults>>

-----------------------------------------------------------------------------
(* Deep review and repair.                                                  *)

\* A batch is of one pass: low for those never reviewed, else medium.
QueueDeepReview(k, S) ==
    /\ NewTask(k)
    /\ S # {}
    /\ \A c \in S : cand[c].status = "deep_review" /\ cand[c].reviewer = NoTask
    /\ \A c, d \in S : cand[c].reviewed = cand[d].reviewed
    /\ Queued(k, "review", S)
    /\ cand' = [c \in Candidates |->
                  IF c \in S THEN [cand[c] EXCEPT !.reviewer = k] ELSE cand[c]]
    /\ UNCHANGED <<served, run, faults>>

\* What an 'unresolved' record becomes after the low and the medium pass.
Disposition(c, decision) ==
    IF decision # "unresolved" THEN decision
    ELSE IF cand[c].reviewed THEN "rejected" ELSE "deep_review"

\* Mutant: what the agent leaves out stays reserved.
OmittedKept(c, k) == cand[c]

\* What the agent leaves out of its answer waits for another batch.
Omitted(c, k) ==
    IF cand[c].reviewer = k
    THEN [cand[c] EXCEPT !.status = "deep_review", !.reviewer = NoTask]
    ELSE cand[c]

\* A repair replaces the payload and nothing else: revision_id stays.
SubmitCandidateDeepReview(k, decision, repair) ==
    /\ Live(k) /\ task[k].kind = "review"
    /\ DOMAIN decision \subseteq task[k].cands
    /\ \A c \in DOMAIN decision :
         cand[c].reviewer = k /\ cand[c].status = "deep_review"
    /\ DOMAIN repair \subseteq DOMAIN decision
    /\ \A c \in DOMAIN repair : repair[c] > cand[c].payload
    /\ cand' = [c \in Candidates |->
          IF c \in DOMAIN decision
          THEN [cand[c] EXCEPT
                  !.status = Disposition(c, decision[c]),
                  !.payload = IF c \in DOMAIN repair THEN repair[c] ELSE @,
                  !.reviewed = TRUE, !.reviewer = NoTask]
          ELSE Omitted(c, k)]
    /\ Closed(k, "completed")
    /\ UNCHANGED <<served, run, faults>>

\* An unanswered demand sends rejected evidence back to review.
ReuseRejectedEvidence(S) ==
    /\ S # {}
    /\ \A c \in S : cand[c].status = "rejected"
    /\ cand' = [c \in Candidates |->
          IF c \in S
          THEN [cand[c] EXCEPT !.status = "deep_review", !.reviewed = FALSE,
                               !.verifier = NoTask, !.reviewer = NoTask,
                               !.publisher = NoTask]
          ELSE cand[c]]
    /\ UNCHANGED <<served, task, run, faults>>

-----------------------------------------------------------------------------
(* Publication.                                                             *)

QueueCandidatePublication(k, S) ==
    /\ NewTask(k)
    /\ S # {}
    /\ \A c \in S : cand[c].status = "verified" /\ cand[c].publisher = NoTask
    /\ Queued(k, "publish", S)
    /\ cand' = [c \in Candidates |->
                  IF c \in S THEN [cand[c] EXCEPT !.publisher = k] ELSE cand[c]]
    /\ UNCHANGED <<served, run, faults>>

Reserved(c, k) == cand[c].status = "verified" /\ cand[c].publisher = k

\* publishCandidateBatch, first statement: no lock is kept.
ReadBatch(w, k) ==
    /\ run[w].task = NoTask
    /\ Live(k) /\ task[k].kind = "publish"
    /\ run' = [run EXCEPT ![w] =
          [Idle EXCEPT
             !.task = k,
             !.todo = [c \in {c \in task[k].cands : Reserved(c, k)} |->
                         [payload |-> cand[c].payload,
                          reviewed |-> cand[c].reviewed]]]]
    /\ UNCHANGED <<cand, served, task, faults>>

\* f and x for c.
With(f, c, x) == [d \in DOMAIN f \cup {c} |-> IF d = c THEN x ELSE f[d]]

\* run[w] without c among those to do.
Handled(w, c) ==
    [run[w] EXCEPT !.todo = [d \in DOMAIN @ \ {c} |-> @[d]]]

\* The revision of a reserved candidate, if there is one to be had: the
\* recorded one, else a new one of the payload that was read before.
Revision(w, c) ==
    IF ~Reserved(c, run[w].task) THEN {}
    ELSE IF cand[c].revision # 0 THEN {cand[c].revision}
    ELSE {run[w].todo[c].payload} \ Refused

\* One candidate in a transaction of its own.
CreateRevision(w, c) ==
    /\ c \in DOMAIN run[w].todo
    /\ \E revision \in Revision(w, c) :
         /\ cand' = [cand EXCEPT ![c].revision = revision]
         /\ run' = [run EXCEPT ![w] =
                      [Handled(w, c) EXCEPT !.made = With(@, c, revision)]]
    /\ UNCHANGED <<served, task, faults>>

\* CANDIDATE_ALREADY_PROCESSED
SkipCandidate(w, c) ==
    /\ c \in DOMAIN run[w].todo
    /\ ~Reserved(c, run[w].task)
    /\ run' = [run EXCEPT ![w] = Handled(w, c)]
    /\ UNCHANGED <<cand, served, task, faults>>

\* Mutant: what the transaction has written before the refusal stays.
PreflightRejectsTooLate(w, c) ==
    /\ c \in DOMAIN run[w].todo
    /\ Reserved(c, run[w].task)
    /\ cand[c].revision = 0
    /\ run[w].todo[c].payload \in Refused
    /\ run' = [run EXCEPT ![w] =
                 [Handled(w, c) EXCEPT
                    !.held = With(@, c, run[w].todo[c].reviewed)]]
    /\ cand' = [cand EXCEPT ![c].revision = run[w].todo[c].payload]
    /\ UNCHANGED <<served, task, faults>>

\* createKnowledgeRevision refuses the payload; its transaction is undone.
PreflightRejects(w, c) ==
    /\ c \in DOMAIN run[w].todo
    /\ Reserved(c, run[w].task)
    /\ cand[c].revision = 0
    /\ run[w].todo[c].payload \in Refused
    /\ run' = [run EXCEPT ![w] =
                 [Handled(w, c) EXCEPT
                    !.held = With(@, c, run[w].todo[c].reviewed)]]
    /\ UNCHANGED <<cand, served, task, faults>>

\* The last transaction: what was refused goes to review, or out for good if
\* it has been there; what was made is published.
PublishBatch(w) ==
    LET k == run[w].task
        held == {c \in DOMAIN run[w].held : cand[c].publisher = k}
        made == DOMAIN run[w].made
    IN /\ k # NoTask /\ DOMAIN run[w].todo = {} /\ ~run[w].done
       /\ cand' = [c \in Candidates |->
             IF c \in held /\ ~run[w].held[c]
             THEN [cand[c] EXCEPT !.status = "deep_review",
                                  !.publisher = NoTask, !.reviewer = NoTask]
             ELSE IF c \in held
             THEN [cand[c] EXCEPT !.status = "rejected", !.audit = "excluded",
                                  !.publisher = NoTask, !.reviewer = NoTask]
             ELSE IF c \in made /\ cand[c].publisher = k
             THEN [cand[c] EXCEPT !.status = "published",
                                  !.revision = run[w].made[c],
                                  !.publisher = NoTask]
             ELSE cand[c]]
       /\ served' = [c \in Candidates |->
                       IF c \in made THEN run[w].made[c] ELSE served[c]]
       /\ run' = [run EXCEPT ![w].done = TRUE]
       /\ UNCHANGED <<task, faults>>

\* completeMechanicalPipelineTask: refused if the lease is not w's any more.
CompletePublication(w) ==
    /\ run[w].done
    /\ IF Live(run[w].task) THEN Closed(run[w].task, "completed")
                            ELSE UNCHANGED task
    /\ run' = [run EXCEPT ![w] = Idle]
    /\ UNCHANGED <<cand, served, faults>>

\* A crash, or an error that undoes the transaction it is raised in.
StopWorker(w) ==
    /\ run[w].task # NoTask
    /\ Fault
    /\ run' = [run EXCEPT ![w] = Idle]
    /\ UNCHANGED <<cand, served, task>>

-----------------------------------------------------------------------------
(* Failure and recovery.                                                    *)

\* The last retry of k is used up.  A failure the agent reports moves every
\* candidate k reserves for review back to it, an expired lease only those
\* that are still there.
FailTask(k, reported) ==
    /\ Live(k)
    /\ IF task[k].kind = "publish" THEN Fault ELSE UNCHANGED faults
    /\ cand' = [c \in Candidates |->
          IF task[k].kind = "verify" /\ cand[c].verifier = k
             /\ cand[c].status = "analyzed"
          THEN [cand[c] EXCEPT !.status = "deep_review", !.verifier = NoTask]
          ELSE IF task[k].kind = "review" /\ cand[c].reviewer = k
                  /\ (reported \/ cand[c].status = "deep_review")
          THEN [cand[c] EXCEPT !.status = "deep_review", !.reviewer = NoTask]
          ELSE IF task[k].kind = "publish" /\ Reserved(c, k)
          THEN [cand[c] EXCEPT !.publisher = NoTask]
          ELSE cand[c]]
    /\ Closed(k, "failed")
    /\ UNCHANGED <<served, run>>

\* An administrator replaces the stage of a source: its live tasks end, and
\* only a retry gives back what waits for verification.
ReplaceStage(S, retry) ==
    /\ S # {}
    /\ \A k \in S : Live(k)
    /\ Fault
    /\ task' = [k \in TaskIds |->
          IF k \in S THEN [task[k] EXCEPT !.status = "skipped"] ELSE task[k]]
    /\ cand' = [c \in Candidates |->
          IF retry /\ cand[c].status = "analyzed" /\ cand[c].verifier \in S
          THEN [cand[c] EXCEPT !.verifier = NoTask] ELSE cand[c]]
    /\ UNCHANGED <<served, run>>

Stale(c) == Reserved(c, cand[c].publisher) /\ cand[c].publisher # NoTask
            /\ ~Live(cand[c].publisher)

\* Mutant: only failed publications are looked at.
ReleaseFailedReservations ==
    LET stale == {c \in Candidates :
                    Stale(c) /\ task[cand[c].publisher].status = "failed"}
    IN /\ stale # {}
       /\ cand' = [c \in Candidates |->
             IF c \in stale THEN [cand[c] EXCEPT !.publisher = NoTask]
             ELSE cand[c]]
       /\ UNCHANGED <<served, task, run, faults>>

\* reconcileCompletedSources: reservations of publications that have ended.
ReleaseStaleReservations ==
    LET stale == {c \in Candidates : Stale(c)}
    IN /\ stale # {}
       /\ cand' = [c \in Candidates |->
             IF c \in stale THEN [cand[c] EXCEPT !.publisher = NoTask]
             ELSE cand[c]]
       /\ UNCHANGED <<served, task, run, faults>>

-----------------------------------------------------------------------------

Decisions(k, S) == UNION {[D -> S] : D \in SUBSET task[k].cands}
Verdicts == {"verified", "rejected", "conflict", "deep_review"}
Findings == {"verified", "rejected", "deep_review"}
Resolutions == {"verified", "rejected", "conflict", "unresolved"}

Verify(k) ==
    \/ \E S \in SUBSET Candidates : QueueVerification(k, S)
    \/ \E decision \in Decisions(k, Verdicts) :
         \E retry \in [task[k].cands \ DOMAIN decision -> TaskIds] :
            SubmitCandidateVerification(k, decision, retry)

AuditStep(k) ==
    \/ \E S, out \in SUBSET Candidates : QueueFidelityAudit(k, S, out)
    \/ \E finding \in Decisions(k, Findings) : SubmitFidelityAudit(k, finding)

Review(k) ==
    \/ \E S \in SUBSET Candidates : QueueDeepReview(k, S)
    \/ \E decision \in Decisions(k, Resolutions) :
         \E repair \in Decisions(k, Payload) :
            SubmitCandidateDeepReview(k, decision, repair)

Publish(w) ==
    \/ \E k \in TaskIds : ReadBatch(w, k)
    \/ \E c \in Candidates :
         CreateRevision(w, c) \/ SkipCandidate(w, c) \/ PreflightRejects(w, c)
    \/ PublishBatch(w)
    \/ CompletePublication(w)

QueuePublication ==
    \E k \in TaskIds, S \in SUBSET Candidates : QueueCandidatePublication(k, S)

Next ==
    \/ \E c \in Candidates, payload \in Payload :
         \E status \in {"verified", "analyzed"} :
            SubmitCandidateAnalysis(c, status, payload)
    \/ \E k \in TaskIds : Verify(k) \/ AuditStep(k) \/ Review(k)
    \/ \E out \in SUBSET Candidates : SampleOut(out)
    \/ \E S \in SUBSET Candidates : ReuseRejectedEvidence(S)
    \/ QueuePublication
    \/ \E w \in Workers : Publish(w) \/ StopWorker(w)
    \/ \E k \in TaskIds, reported \in BOOLEAN : FailTask(k, reported)
    \/ \E S \in SUBSET TaskIds, retry \in BOOLEAN : ReplaceStage(S, retry)
    \/ ReleaseStaleReservations

Spec == Init /\ [][Next]_vars

\* The worker's loop, the scheduler and its recovery keep running; an AI task
\* ends (EveryTaskSettles of PipelineLease), at worst by failing.
Fairness ==
    /\ \A w \in Workers : WF_vars(Publish(w))
    /\ WF_vars(QueuePublication)
    /\ WF_vars(ReleaseStaleReservations)

FairSpec == Spec /\ Fairness
-----------------------------------------------------------------------------
(* Properties.                                                              *)

\* Rows and workers have their types, and a reservation names the task rows
\* of its kind.
TypeOK ==
    /\ cand \in [Candidates -> Candidate]
    /\ served \in [Candidates -> {0} \cup Payload]
    /\ task \in [TaskIds -> Task]
    /\ run \in [Workers -> Run]
    /\ faults \in 0..MaxFaults
    /\ \A c \in Candidates, k \in TaskIds :
          /\ cand[c].verifier = k => task[k].kind = "verify"
          /\ cand[c].auditor = k => task[k].kind = "audit"
          /\ cand[c].reviewer = k => task[k].kind = "review"
          /\ cand[c].publisher = k => task[k].kind = "publish"

\* However many workers handle a candidate, in one publication task or in
\* several, one immutable revision is recorded for it and never replaced.
OneRevisionPerCandidate ==
    [][\A c \in Candidates :
          cand[c].revision # 0 => cand'[c].revision = cand[c].revision]_vars

\* What is served of a record that no audit has sent to repair and no
\* preflight has excluded is the payload that was verified, although the
\* worker reads the payload long before it locks the candidate and another
\* task may have repaired it in between.
ServedAsVerified ==
    \A c \in Candidates :
        served[c] # 0 /\ cand[c].audit \notin {"repair", "excluded"} =>
            served[c] = cand[c].payload

\* A published record has a revision, and readers see no other revision of it.
PublishedHasRevision ==
    \A c \in Candidates :
        /\ cand[c].status = "published" => cand[c].revision # 0
        /\ served[c] \in {0, cand[c].revision}

\* A record that waits for an agent is never reserved by a task that has ended
\* or that would not take an answer for it, whatever its batch left out, was
\* cut into and became in the meantime, unless an administrator skipped the task.
ReservedByALiveTask ==
    \A c \in Candidates :
        LET Waited(k) == k # NoTask =>
                \/ task[k].status = "skipped"
                \/ Live(k) /\ c \in task[k].cands
        IN /\ cand[c].status = "analyzed" => Waited(cand[c].verifier)
           /\ cand[c].status = "deep_review" => Waited(cand[c].reviewer)

\* A verified record never waits for ever on a publication that died: it is
\* published, or sent to review, in the end.
VerifiedRecordMovesOn ==
    \A c \in Candidates :
        cand[c].status = "verified" ~> cand[c].status # "verified"
=============================================================================
