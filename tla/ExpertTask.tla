----------------------------- MODULE ExpertTask -----------------------------
(***************************************************************************)
(* One expert task from a question to its published answer:                *)
(* src/domain/tasks.ts, researcher.ts and processNextCandidate of          *)
(* publication.ts, with the pipeline task that may carry it.               *)
(*                                                                         *)
(* Two clients can take a queued task: a researcher through                *)
(* claim_research_task, and an executor through the pipeline task that is  *)
(* queued for it, whose lease it then shares.  Every research call presents *)
(* a lease token.  The requester's continue and cancel read the row in one *)
(* statement and write it in another that checks nothing, and a            *)
(* publication worker reserves the task in one transaction and publishes   *)
(* in the next.                                                            *)
(*                                                                         *)
(* A claim is its number, a submission too; a lease is live or has run     *)
(* out, and the task is overdue once expires_at has passed.                *)
(***************************************************************************)
EXTENDS Naturals, FiniteSets

CONSTANTS
    Workers,           \* publication workers, a late one beside its successor
    Requesters,        \* concurrent calls of the task's owner
    ResearchAttempts,  \* attempts after which claim_research_task passes (5)
    AttemptLimit,      \* the CHECK of expert_tasks.attempts (10)
    RetryBudget,       \* attempts of one pipeline task (5)
    MaxClaims,         \* bound on claims
    MaxSubmissions,    \* bound on submissions
    MaxAdminActions    \* bound on an administrator's requeue and cancel

ASSUME SetsAssumption == IsFiniteSet(Workers) /\ IsFiniteSet(Requesters)
ASSUME BoundsAssumption ==
    /\ ResearchAttempts \in Nat
    /\ AttemptLimit \in Nat
    /\ RetryBudget \in Nat \ {0}
    /\ MaxClaims \in Nat
    /\ MaxSubmissions \in Nat
    /\ MaxAdminActions \in Nat

VARIABLES
    expert,     \* the row of expert_tasks
    pipeline,   \* the pipeline task that carries it
    artifact,   \* the newest submission, 0 before the first
    published,  \* published[s]: revisions made of submission s
    worker,     \* worker[w]: the submission w has reserved, 0 if none
    requester,  \* requester[r]: what r has decided on the row it read
    overdue,    \* expires_at <= now
    claims,     \* claims granted
    adminActions

vars == <<expert, pipeline, artifact, published, worker, requester, overdue,
          claims, adminActions>>

NoToken == 0
Tokens == 0..MaxClaims
Submissions == 1..MaxSubmissions

Terminal == {"completed", "failed", "cancelled", "expired"}
Status == Terminal \cup
    {"queued", "researching", "input_required", "validating", "publishing"}

Expert == [status : Status, attempts : 0..AttemptLimit, token : Tokens,
           live : BOOLEAN,                      \* lease_until > now
           answer : {0} \cup Submissions]       \* result_revision_id
Pipeline == [status : {"closed", "queued", "running"},
             attempts : 0..RetryBudget, token : Tokens, live : BOOLEAN]

Closed == [status |-> "closed", attempts |-> 0, token |-> NoToken,
           live |-> FALSE]

\* createExpertTask
Init ==
    /\ expert = [status |-> "queued", attempts |-> 0, token |-> NoToken,
                 live |-> FALSE, answer |-> 0]
    /\ pipeline = Closed
    /\ artifact = 0
    /\ published = [s \in Submissions |-> 0]
    /\ worker = [w \in Workers |-> 0]
    /\ requester = [r \in Requesters |-> "idle"]
    /\ overdue = FALSE
    /\ claims = 0
    /\ adminActions = 0

-----------------------------------------------------------------------------
(* Time.                                                                    *)

ExpiryPasses ==
    /\ ~overdue
    /\ overdue' = TRUE
    /\ UNCHANGED <<expert, pipeline, artifact, published, worker, requester,
                   claims, adminActions>>

\* A claim through the pipeline gives both rows one lease_until and a
\* heartbeat renews both, so they run out together.
LeaseRunsOut(token) ==
    /\ \/ expert.live /\ expert.token = token
       \/ pipeline.live /\ pipeline.token = token
    /\ expert' = [expert EXCEPT !.live = @ /\ expert.token # token]
    /\ pipeline' = [pipeline EXCEPT !.live = @ /\ pipeline.token # token]
    /\ UNCHANGED <<artifact, published, worker, requester, overdue, claims,
                   adminActions>>

-----------------------------------------------------------------------------
(* Research.                                                                *)

Released(row, status) ==
    [row EXCEPT !.status = status, !.token = NoToken, !.live = FALSE]

Researching(status) ==
    IF expert.status = "researching" THEN Released(expert, status) ELSE expert

NextToken == claims + 1

Leased(row, status) ==
    [row EXCEPT !.status = status, !.attempts = @ + 1, !.token = NextToken,
                !.live = TRUE]

ClaimResearchTask ==
    /\ claims < MaxClaims
    /\ expert.status = "queued" /\ ~overdue
    /\ expert.attempts < ResearchAttempts /\ expert.attempts < AttemptLimit
    /\ expert' = Leased(expert, "researching")
    /\ claims' = NextToken
    /\ UNCHANGED <<pipeline, artifact, published, worker, requester, overdue,
                   adminActions>>

HoldsResearch(token) ==
    /\ token # NoToken /\ expert.token = token
    /\ expert.status = "researching"
    /\ expert.live

RequestResearchInput(token) ==
    /\ HoldsResearch(token)
    /\ expert' = Released(expert, "input_required")
    /\ UNCHANGED <<pipeline, artifact, published, worker, requester, overdue,
                   claims, adminActions>>

SubmitCandidateRevision(token) ==
    /\ HoldsResearch(token)
    /\ artifact < MaxSubmissions
    /\ expert' = Released(expert, "validating")
    /\ artifact' = artifact + 1
    /\ UNCHANGED <<pipeline, published, worker, requester, overdue, claims,
                   adminActions>>

FailResearchTask(token) ==
    /\ HoldsResearch(token)
    /\ expert' = Released(expert, "failed")
    /\ UNCHANGED <<pipeline, artifact, published, worker, requester, overdue,
                   claims, adminActions>>

-----------------------------------------------------------------------------
(* The pipeline task.                                                       *)

QueueExpertWork ==
    /\ expert.status = "queued" /\ pipeline.status = "closed"
    /\ pipeline' = [Closed EXCEPT !.status = "queued"]
    /\ UNCHANGED <<expert, artifact, published, worker, requester, overdue,
                   claims, adminActions>>

\* EXPERT_TASK_NOT_AVAILABLE undoes the claim unless the task is queued; so
\* does the CHECK on its attempts.
ClaimPipelineTask ==
    /\ claims < MaxClaims
    /\ pipeline.status = "queued"
    /\ expert.status = "queued" /\ expert.attempts < AttemptLimit
    /\ pipeline' = Leased(pipeline, "running")
    /\ expert' = Leased(expert, "researching")
    /\ claims' = NextToken
    /\ UNCHANGED <<artifact, published, worker, requester, overdue,
                   adminActions>>

HoldsPipeline(token) ==
    pipeline.status = "running" /\ pipeline.token = token /\ pipeline.live

\* A heartbeat while the pipeline is paused gives both rows back.
PausedHeartbeat(token) ==
    /\ HoldsPipeline(token)
    /\ pipeline' = [Released(pipeline, "queued") EXCEPT
                      !.attempts = IF @ > 0 THEN @ - 1 ELSE 0]
    /\ expert' = IF expert.status = "researching"
                 THEN [Released(expert, "queued") EXCEPT
                         !.attempts = IF @ > 0 THEN @ - 1 ELSE 0]
                 ELSE expert
    /\ UNCHANGED <<artifact, published, worker, requester, overdue, claims,
                   adminActions>>

\* The expert task goes with the pipeline task, whoever is researching it.
FailPipelineTask(token, retrying) ==
    /\ HoldsPipeline(token)
    /\ retrying => pipeline.attempts < RetryBudget
    /\ pipeline' = IF retrying THEN Released(pipeline, "queued") ELSE Closed
    /\ expert' = Researching(IF retrying THEN "queued" ELSE "failed")
    /\ UNCHANGED <<artifact, published, worker, requester, overdue, claims,
                   adminActions>>

\* reconcileExpiredLeases
RecoverPipelineTask ==
    LET exhausted == pipeline.attempts >= RetryBudget
    IN /\ pipeline.status = "running" /\ ~pipeline.live
       /\ pipeline' = IF exhausted THEN Closed ELSE Released(pipeline, "queued")
       /\ expert' = Researching(IF exhausted THEN "failed" ELSE "queued")
       /\ UNCHANGED <<artifact, published, worker, requester, overdue, claims,
                      adminActions>>

\* reconcileExpiredAndCompletedWork
ClosePipelineTask ==
    /\ pipeline.status # "closed"
    /\ expert.status \in Terminal
    /\ pipeline' = Closed
    /\ UNCHANGED <<expert, artifact, published, worker, requester, overdue,
                   claims, adminActions>>

-----------------------------------------------------------------------------
(* The owner of the task and the administrators.                            *)

\* Each call reads the row first; a terminal task is returned as it is.  The
\* native MCP cancel reads it through the task store.
ReadTask(r, intent) ==
    /\ requester[r] = "idle"
    /\ ~overdue
    /\ IF intent = "continue" THEN expert.status = "input_required"
                              ELSE expert.status \notin Terminal
    /\ requester' = [requester EXCEPT ![r] = intent]
    /\ UNCHANGED <<expert, pipeline, artifact, published, worker, overdue,
                   claims, adminActions>>

WriteTask(r) ==
    /\ requester[r] # "idle"
    /\ expert' = CASE requester[r] = "continue" ->
                        [expert EXCEPT !.status = "queued"]
                   [] requester[r] = "cancel" -> Released(expert, "cancelled")
                   [] requester[r] = "native_cancel" ->
                        [expert EXCEPT !.status = "cancelled"]
    /\ requester' = [requester EXCEPT ![r] = "idle"]
    /\ UNCHANGED <<pipeline, artifact, published, worker, overdue, claims,
                   adminActions>>

ActOnExpertTask(status) ==
    /\ adminActions < MaxAdminActions
    /\ adminActions' = adminActions + 1
    /\ expert' = Released(expert, status)
    /\ pipeline' = Closed
    /\ UNCHANGED <<artifact, published, worker, requester, overdue, claims>>

-----------------------------------------------------------------------------
(* Publication.                                                             *)

\* processNextCandidate, first transaction
ReserveCandidate(w) ==
    /\ worker[w] = 0
    /\ expert.status = "validating"
    /\ worker' = [worker EXCEPT ![w] = artifact]
    /\ expert' = [expert EXCEPT !.status = "publishing", !.live = TRUE]
    /\ UNCHANGED <<pipeline, artifact, published, requester, overdue, claims,
                   adminActions>>

\* The publication lease has no token: it runs out for whoever holds it.
PublicationLeaseRunsOut ==
    /\ expert.status = "publishing" /\ expert.live
    /\ expert' = [expert EXCEPT !.live = FALSE]
    /\ UNCHANGED <<pipeline, artifact, published, worker, requester, overdue,
                   claims, adminActions>>

\* Mutant: the reservation is not looked at again.
PublishReserved(w) ==
    /\ worker[w] # 0
    /\ published' = [published EXCEPT ![worker[w]] = @ + 1]
    /\ expert' = [Released(expert, "completed") EXCEPT !.answer = worker[w]]
    /\ worker' = [worker EXCEPT ![w] = 0]
    /\ UNCHANGED <<pipeline, artifact, requester, overdue, claims,
                   adminActions>>

\* The second transaction.
PublishCandidate(w) ==
    /\ worker[w] # 0
    /\ expert.status = "publishing" /\ expert.live
    /\ published' = [published EXCEPT ![worker[w]] = @ + 1]
    /\ expert' = [expert EXCEPT !.status = "completed", !.live = FALSE,
                                !.answer = worker[w]]
    /\ worker' = [worker EXCEPT ![w] = 0]
    /\ UNCHANGED <<pipeline, artifact, requester, overdue, claims,
                   adminActions>>

\* PUBLICATION_LEASE_INVALID, a conflict or a refused payload.
RejectCandidate(w) ==
    /\ worker[w] # 0
    /\ expert' = IF expert.status = "publishing"
                 THEN [expert EXCEPT !.status = "failed", !.live = FALSE]
                 ELSE expert
    /\ worker' = [worker EXCEPT ![w] = 0]
    /\ UNCHANGED <<pipeline, artifact, published, requester, overdue, claims,
                   adminActions>>

StopWorker(w) ==
    /\ worker[w] # 0
    /\ worker' = [worker EXCEPT ![w] = 0]
    /\ UNCHANGED <<expert, pipeline, artifact, published, requester, overdue,
                   claims, adminActions>>

-----------------------------------------------------------------------------
(* runWorkerMaintenance.                                                    *)

\* Mutant: what waits for its requester is not looked at.
ExpiredIfAsked ==
    overdue /\ expert.status \notin Terminal \cup {"input_required"}

Expired == overdue /\ expert.status \notin Terminal

\* The statements of one transaction, of which at most one finds the task.
Maintained ==
    CASE Expired -> Released(expert, "expired")
      [] ~Expired /\ expert.status = "researching" /\ ~expert.live ->
           Released(expert, IF expert.attempts >= ResearchAttempts
                            THEN "failed" ELSE "queued")
      [] ~Expired /\ expert.status = "publishing" /\ ~expert.live ->
           [expert EXCEPT !.status = "validating"]
      [] OTHER -> expert

RunWorkerMaintenance ==
    /\ expert' = Maintained
    /\ expert' # expert
    /\ UNCHANGED <<pipeline, artifact, published, worker, requester, overdue,
                   claims, adminActions>>

-----------------------------------------------------------------------------

ResearchCall(token) ==
    \/ RequestResearchInput(token)
    \/ SubmitCandidateRevision(token)
    \/ FailResearchTask(token)

ExecutorCall(token) ==
    \/ PausedHeartbeat(token)
    \/ \E retrying \in BOOLEAN : FailPipelineTask(token, retrying)

OwnerCall(r) ==
    \/ \E intent \in {"continue", "cancel", "native_cancel"} :
         ReadTask(r, intent)
    \/ WriteTask(r)

Publication(w) ==
    \/ ReserveCandidate(w)
    \/ PublishCandidate(w)
    \/ RejectCandidate(w)
    \/ StopWorker(w)

Reconcile == QueueExpertWork \/ RecoverPipelineTask \/ ClosePipelineTask

Next ==
    \/ ExpiryPasses
    \/ ClaimResearchTask \/ ClaimPipelineTask
    \/ \E token \in 1..MaxClaims :
         LeaseRunsOut(token) \/ ResearchCall(token) \/ ExecutorCall(token)
    \/ Reconcile
    \/ \E r \in Requesters : OwnerCall(r)
    \/ \E status \in {"queued", "cancelled"} : ActOnExpertTask(status)
    \/ \E w \in Workers : Publication(w)
    \/ PublicationLeaseRunsOut
    \/ RunWorkerMaintenance

Spec == Init /\ [][Next]_vars

\* Time passes, the worker's maintenance and the recovery of the pipeline run
\* periodically, and an owner's call ends.
Fairness ==
    /\ WF_vars(ExpiryPasses)
    /\ WF_vars(RunWorkerMaintenance)
    /\ WF_vars(ClosePipelineTask)
    /\ \A r \in Requesters : WF_vars(WriteTask(r))

FairSpec == Spec /\ Fairness
-----------------------------------------------------------------------------
(* Properties.                                                              *)

\* The rows have their types, and the attempts stay within their CHECK.
TypeOK ==
    /\ expert \in Expert
    /\ pipeline \in Pipeline
    /\ artifact \in 0..MaxSubmissions
    /\ published \in [Submissions -> Nat]
    /\ worker \in [Workers -> 0..artifact]
    /\ requester \in
         [Requesters -> {"idle", "continue", "cancel", "native_cancel"}]
    /\ overdue \in BOOLEAN
    /\ claims \in Tokens
    /\ adminActions \in 0..MaxAdminActions

\* Two workers, one of them late, never publish one submission twice, unless an
\* administrator (or a second call of the owner) has reopened the task after
\* its answer: it is checked with one requester.
PublishedOnce ==
    adminActions = 0 => \A s \in Submissions : published[s] <= 1

\* Every expert task ends and stays ended, whoever gave up on it and whatever
\* late calls reopen it, and its pipeline task does not outlive it, so the lane
\* it holds is given back.
ExpertTaskSettles == <>[](expert.status \in Terminal /\ pipeline.status = "closed")
=============================================================================
