-------------------------- MODULE ExpertTaskProofs --------------------------
(***************************************************************************)
(* Safety of ExpertTask for every number of workers, submissions, claims   *)
(* and attempts: the types of the rows with their bounds, and that a       *)
(* submission is published once as long as nobody reopens an ended task.   *)
(***************************************************************************)
EXTENDS ExpertTask, TLAPS

(***************************************************************************)
(* TypeOK is not inductive: that the claim of a pipeline task stays within *)
(* its budget follows from what put the task into the queue.               *)
(***************************************************************************)
QueuedHasBudget ==
    pipeline.status = "queued" => pipeline.attempts < RetryBudget

TypeInv == TypeOK /\ QueuedHasBudget

\* The values the actions write are of the columns' types.
LEMMA ColumnValues ==
    /\ 0 \in Tokens /\ NoToken \in Tokens
    /\ 0 \in 0..AttemptLimit /\ 0 \in 0..RetryBudget /\ 0 < RetryBudget
    /\ Closed \in Pipeline
    /\ Terminal \subseteq Status
    /\ {"queued", "researching", "input_required", "validating", "publishing"}
         \subseteq Status
<1>1. /\ 0 \in Tokens /\ NoToken \in Tokens
      /\ 0 \in 0..AttemptLimit /\ 0 \in 0..RetryBudget /\ 0 < RetryBudget
  BY BoundsAssumption DEF Tokens, NoToken
<1> QED BY <1>1 DEF Closed, Pipeline, Status

\* Giving a row back clears its lease and keeps its counters.
LEMMA ReleasedExpert ==
  ASSUME NEW r \in Expert, NEW s \in Status
  PROVE  /\ Released(r, s) \in Expert
         /\ Released(r, s).status = s
         /\ Released(r, s).attempts = r.attempts
         /\ Released(r, s).answer = r.answer
<1> QED BY ColumnValues DEF Expert, Released

LEMMA ReleasedPipeline ==
  ASSUME NEW r \in Pipeline
  PROVE  /\ Released(r, "queued") \in Pipeline
         /\ Released(r, "queued").status = "queued"
         /\ Released(r, "queued").attempts = r.attempts
<1> QED BY ColumnValues DEF Pipeline, Released

LEMMA ResearchingRow ==
  ASSUME expert \in Expert, NEW s \in Status
  PROVE  Researching(s) \in Expert
<1> QED BY ReleasedExpert DEF Researching

\* A claim leases the row under the next token.
LEMMA LeasedRows ==
  ASSUME claims \in Tokens, claims < MaxClaims
  PROVE  /\ NextToken \in Tokens
         /\ \A r \in Expert : r.attempts < AttemptLimit =>
               Leased(r, "researching") \in Expert
         /\ \A r \in Pipeline : r.attempts < RetryBudget =>
               /\ Leased(r, "running") \in Pipeline
               /\ Leased(r, "running").status = "running"
<1>1. NextToken \in Tokens
  BY BoundsAssumption DEF NextToken, Tokens
<1>2. ASSUME NEW r \in Expert, r.attempts < AttemptLimit
      PROVE  Leased(r, "researching") \in Expert
  <2>1. r.attempts + 1 \in 0..AttemptLimit
    BY <1>2, BoundsAssumption DEF Expert
  <2> QED BY <1>1, <2>1, ColumnValues DEF Expert, Leased
<1>3. ASSUME NEW r \in Pipeline, r.attempts < RetryBudget
      PROVE  /\ Leased(r, "running") \in Pipeline
             /\ Leased(r, "running").status = "running"
  <2>1. r.attempts + 1 \in 0..RetryBudget
    BY <1>3, BoundsAssumption DEF Pipeline
  <2> QED BY <1>1, <2>1, ColumnValues DEF Pipeline, Leased
<1> QED BY <1>1, <1>2, <1>3

-----------------------------------------------------------------------------
(* Types.                                                                   *)

LEMMA InitTypes == Init => TypeInv
<1> SUFFICES ASSUME Init PROVE TypeInv
  OBVIOUS
<1>1. expert \in Expert
  BY ColumnValues DEF Init, Expert
<1>2. pipeline \in Pipeline /\ QueuedHasBudget
  BY ColumnValues DEF Init, QueuedHasBudget, Closed
<1>3. artifact \in 0..MaxSubmissions /\ adminActions \in 0..MaxAdminActions
  BY BoundsAssumption DEF Init
<1>4. published \in [Submissions -> Nat] /\ worker \in [Workers -> 0..artifact]
  BY DEF Init
<1>5. /\ requester \in
           [Requesters -> {"idle", "continue", "cancel", "native_cancel"}]
      /\ overdue \in BOOLEAN /\ claims \in Tokens
  BY ColumnValues DEF Init
<1> QED BY <1>1, <1>2, <1>3, <1>4, <1>5 DEF TypeInv, TypeOK

\* Steps that write the two rows only.
RowsOnly == UNCHANGED <<artifact, published, worker, requester, overdue>>

LEMMA RowsStep ==
  ASSUME TypeInv, RowsOnly, expert' \in Expert, pipeline' \in Pipeline,
         QueuedHasBudget', claims' \in Tokens,
         adminActions' \in 0..MaxAdminActions
  PROVE  TypeInv'
  BY DEF TypeInv, TypeOK, RowsOnly

\* The research calls and claim_research_task.
LEMMA ResearchTypes ==
  ASSUME TypeInv,
         ClaimResearchTask \/ \E token \in 1..MaxClaims : ResearchCall(token)
  PROVE  TypeInv'
<1> USE ColumnValues
<1>0. /\ expert \in Expert /\ claims \in Tokens
      /\ pipeline \in Pipeline /\ QueuedHasBudget
      /\ adminActions \in 0..MaxAdminActions
  BY DEF TypeInv, TypeOK
<1>1. CASE ClaimResearchTask
  <2>1. expert' \in Expert /\ claims' \in Tokens /\ RowsOnly
    BY <1>0, <1>1, LeasedRows DEF ClaimResearchTask, RowsOnly
  <2> QED BY <1>0, <1>1, <2>1, RowsStep
          DEF ClaimResearchTask, QueuedHasBudget
<1>2. ASSUME NEW token \in 1..MaxClaims,
             RequestResearchInput(token) \/ FailResearchTask(token)
      PROVE  TypeInv'
  <2>1. expert' \in Expert
    BY <1>0, <1>2, ReleasedExpert
       DEF RequestResearchInput, FailResearchTask, Terminal
  <2> QED BY <1>0, <1>2, <2>1, RowsStep
          DEF RequestResearchInput, FailResearchTask, RowsOnly,
              QueuedHasBudget
<1>3. ASSUME NEW token \in 1..MaxClaims, SubmitCandidateRevision(token)
      PROVE  TypeInv'
  <2>1. expert' \in Expert
    BY <1>0, <1>3, ReleasedExpert DEF SubmitCandidateRevision
  <2>2. artifact \in 0..MaxSubmissions /\ artifact' = artifact + 1
        /\ artifact < MaxSubmissions
    BY <1>3 DEF SubmitCandidateRevision, TypeInv, TypeOK
  <2>3. artifact' \in 0..MaxSubmissions
    BY <2>2, BoundsAssumption
  <2>4. worker' \in [Workers -> 0..artifact']
    <3>1. worker \in [Workers -> 0..artifact] /\ worker' = worker
      BY <1>3 DEF SubmitCandidateRevision, TypeInv, TypeOK
    <3>2. 0..artifact \subseteq 0..artifact'
      BY <2>2
    <3> QED BY <3>1, <3>2
  <2> QED BY <1>0, <1>3, <2>1, <2>3, <2>4
          DEF SubmitCandidateRevision, TypeInv, TypeOK, QueuedHasBudget
<1> QED BY <1>1, <1>2, <1>3 DEF ResearchCall

\* The pipeline task: queueing, claim, pause, failure, recovery, closing.
LEMMA PipelineTypes ==
  ASSUME TypeInv,
         \/ Reconcile
         \/ ClaimPipelineTask
         \/ \E token \in 1..MaxClaims : ExecutorCall(token)
  PROVE  TypeInv'
<1> USE ColumnValues
<1>0. /\ expert \in Expert /\ claims \in Tokens
      /\ pipeline \in Pipeline /\ QueuedHasBudget
      /\ adminActions \in 0..MaxAdminActions
  BY DEF TypeInv, TypeOK
<1>1. CASE QueueExpertWork
  <2>1. /\ pipeline' \in Pipeline /\ pipeline'.attempts = 0
        /\ expert' = expert /\ RowsOnly /\ claims' = claims
        /\ adminActions' = adminActions
    BY <1>1 DEF QueueExpertWork, Closed, Pipeline, RowsOnly
  <2> QED BY <1>0, <2>1, RowsStep DEF QueuedHasBudget
<1>2. CASE ClaimPipelineTask
  <2>1. /\ pipeline' \in Pipeline /\ pipeline'.status = "running"
        /\ expert' \in Expert /\ claims' \in Tokens
    BY <1>0, <1>2, LeasedRows DEF ClaimPipelineTask, QueuedHasBudget
  <2> QED BY <1>0, <1>2, <2>1, RowsStep
          DEF ClaimPipelineTask, RowsOnly, QueuedHasBudget
<1>3. ASSUME NEW token \in 1..MaxClaims, PausedHeartbeat(token)
      PROVE  TypeInv'
  <2> DEFINE Less(n) == IF n > 0 THEN n - 1 ELSE 0
             p == Released(pipeline, "queued")
             e == Released(expert, "queued")
  <2>1. /\ p \in Pipeline /\ p.status = "queued"
        /\ e \in Expert
    BY <1>0, ReleasedPipeline, ReleasedExpert
  <2>2. /\ \A n \in 0..RetryBudget : Less(n) \in 0..RetryBudget /\ Less(n) < RetryBudget
        /\ \A n \in 0..AttemptLimit : Less(n) \in 0..AttemptLimit
    BY BoundsAssumption
  <2>3. /\ pipeline' = [p EXCEPT !.attempts = Less(p.attempts)]
        /\ \/ expert' = expert
           \/ expert' = [e EXCEPT !.attempts = Less(e.attempts)]
    BY <1>3 DEF PausedHeartbeat
  <2> HIDE DEF p, e, Less
  <2>4. /\ pipeline' \in Pipeline
        /\ pipeline'.attempts = Less(p.attempts)
        /\ p.attempts \in 0..RetryBudget
    BY <2>1, <2>2, <2>3 DEF Pipeline
  <2>5. expert' \in Expert
    BY <1>0, <2>1, <2>2, <2>3 DEF Expert
  <2>6. QueuedHasBudget'
    BY <2>2, <2>4 DEF QueuedHasBudget
  <2> QED BY <1>0, <1>3, <2>4, <2>5, <2>6, RowsStep
          DEF PausedHeartbeat, RowsOnly
<1>4. ASSUME NEW token \in 1..MaxClaims, NEW retrying \in BOOLEAN,
             FailPipelineTask(token, retrying)
      PROVE  TypeInv'
  <2>1. expert' \in Expert
    BY <1>0, <1>4, ResearchingRow DEF FailPipelineTask, Terminal
  <2>2. pipeline' \in Pipeline /\ QueuedHasBudget'
    BY <1>0, <1>4, ReleasedPipeline
       DEF FailPipelineTask, QueuedHasBudget, Closed
  <2> QED BY <1>0, <1>4, <2>1, <2>2, RowsStep
          DEF FailPipelineTask, RowsOnly
<1>5. CASE RecoverPipelineTask
  <2>1. expert' \in Expert
    BY <1>0, <1>5, ResearchingRow DEF RecoverPipelineTask, Terminal
  <2>2. pipeline.attempts \in 0..RetryBudget /\ RetryBudget \in Nat
    BY <1>0, BoundsAssumption DEF Pipeline
  <2>3. pipeline' \in Pipeline /\ QueuedHasBudget'
    BY <1>0, <1>5, <2>2, ReleasedPipeline
       DEF RecoverPipelineTask, QueuedHasBudget, Closed
  <2> QED BY <1>0, <1>5, <2>1, <2>3, RowsStep
          DEF RecoverPipelineTask, RowsOnly
<1>6. CASE ClosePipelineTask
  BY <1>0, <1>6, RowsStep
     DEF ClosePipelineTask, RowsOnly, QueuedHasBudget, Closed
<1> QED BY <1>1, <1>2, <1>3, <1>4, <1>5, <1>6 DEF Reconcile, ExecutorCall

\* Time, the owner's calls and an administrator's.
LEMMA OwnerTypes ==
  ASSUME TypeInv,
         \/ ExpiryPasses
         \/ \E token \in 1..MaxClaims : LeaseRunsOut(token)
         \/ \E r \in Requesters : OwnerCall(r)
         \/ \E status \in {"queued", "cancelled"} : ActOnExpertTask(status)
  PROVE  TypeInv'
<1> USE ColumnValues
<1>0. /\ expert \in Expert /\ claims \in Tokens
      /\ pipeline \in Pipeline /\ QueuedHasBudget
      /\ adminActions \in 0..MaxAdminActions
  BY DEF TypeInv, TypeOK
<1>1. CASE ExpiryPasses
  BY <1>1 DEF ExpiryPasses, TypeInv, TypeOK, QueuedHasBudget
<1>2. ASSUME NEW token \in 1..MaxClaims, LeaseRunsOut(token) PROVE TypeInv'
  <2>1. expert' \in Expert
    <3>1. (expert.live /\ expert.token # token) \in BOOLEAN
      OBVIOUS
    <3> QED BY <1>0, <1>2, <3>1 DEF LeaseRunsOut, Expert
  <2>2. /\ pipeline' \in Pipeline
        /\ pipeline'.status = pipeline.status
        /\ pipeline'.attempts = pipeline.attempts
    <3>1. (pipeline.live /\ pipeline.token # token) \in BOOLEAN
      OBVIOUS
    <3> QED BY <1>0, <1>2, <3>1 DEF LeaseRunsOut, Pipeline
  <2> QED BY <1>0, <1>2, <2>1, <2>2, RowsStep
          DEF LeaseRunsOut, RowsOnly, QueuedHasBudget
<1>3. ASSUME NEW r \in Requesters,
             NEW intent \in {"continue", "cancel", "native_cancel"},
             ReadTask(r, intent)
      PROVE  TypeInv'
  BY <1>3 DEF ReadTask, TypeInv, TypeOK, QueuedHasBudget
<1>4. ASSUME NEW r \in Requesters, WriteTask(r) PROVE TypeInv'
  <2>1. requester \in
          [Requesters -> {"idle", "continue", "cancel", "native_cancel"}]
    BY DEF TypeInv, TypeOK
  <2>2. /\ requester[r] \in {"continue", "cancel", "native_cancel"}
        /\ requester' \in
             [Requesters -> {"idle", "continue", "cancel", "native_cancel"}]
    BY <1>4, <2>1 DEF WriteTask
  <2>3. \/ expert' = [expert EXCEPT !.status = "queued"]
        \/ expert' = Released(expert, "cancelled")
        \/ expert' = [expert EXCEPT !.status = "cancelled"]
    BY <1>4, <2>2 DEF WriteTask
  <2>4. "cancelled" \in Status /\ "queued" \in Status
    BY DEF Terminal
  <2>5. expert' \in Expert
    BY <1>0, <2>3, <2>4, ReleasedExpert DEF Expert
  <2> QED BY <1>4, <2>2, <2>5
          DEF WriteTask, TypeInv, TypeOK, QueuedHasBudget
<1>5. ASSUME NEW status \in {"queued", "cancelled"}, ActOnExpertTask(status)
      PROVE  TypeInv'
  <2>1. expert' \in Expert /\ pipeline' \in Pipeline
    BY <1>0, <1>5, ReleasedExpert DEF ActOnExpertTask, Terminal
  <2>2. adminActions' \in 0..MaxAdminActions
    BY <1>0, <1>5, BoundsAssumption DEF ActOnExpertTask
  <2> QED BY <1>0, <1>5, <2>1, <2>2, RowsStep
          DEF ActOnExpertTask, RowsOnly, QueuedHasBudget, Closed
<1> QED BY <1>1, <1>2, <1>3, <1>4, <1>5 DEF OwnerCall

\* The publication workers and the maintenance of the worker.
LEMMA PublicationTypes ==
  ASSUME TypeInv,
         \/ \E w \in Workers : Publication(w)
         \/ PublicationLeaseRunsOut
         \/ RunWorkerMaintenance
  PROVE  TypeInv'
<1> USE ColumnValues
<1>0. /\ expert \in Expert /\ claims \in Tokens
      /\ pipeline \in Pipeline /\ QueuedHasBudget
      /\ adminActions \in 0..MaxAdminActions
      /\ worker \in [Workers -> 0..artifact]
      /\ artifact \in 0..MaxSubmissions
      /\ published \in [Submissions -> Nat]
  BY DEF TypeInv, TypeOK
<1>1. 0 \in 0..artifact /\ artifact \in 0..artifact
      /\ 0..artifact \subseteq {0} \cup Submissions
  BY <1>0, BoundsAssumption DEF Submissions
<1>2. ASSUME NEW w \in Workers, ReserveCandidate(w) PROVE TypeInv'
  <2>1. expert' \in Expert
    BY <1>0, <1>2 DEF ReserveCandidate, Expert
  <2>2. worker' \in [Workers -> 0..artifact]
    BY <1>0, <1>1, <1>2 DEF ReserveCandidate
  <2> QED BY <1>2, <2>1, <2>2
          DEF ReserveCandidate, TypeInv, TypeOK, QueuedHasBudget
<1>3. ASSUME NEW w \in Workers, PublishCandidate(w) PROVE TypeInv'
  <2>1. worker[w] \in Submissions
    BY <1>0, <1>1, <1>3 DEF PublishCandidate
  <2>2. published[worker[w]] + 1 \in Nat
    BY <1>0, <2>1
  <2>3. published' \in [Submissions -> Nat]
    BY <1>0, <1>3, <2>1, <2>2 DEF PublishCandidate
  <2>4. expert' \in Expert
    BY <1>0, <1>3, <2>1 DEF PublishCandidate, Expert, Terminal
  <2>5. worker' \in [Workers -> 0..artifact]
    BY <1>0, <1>1, <1>3 DEF PublishCandidate
  <2> QED BY <1>3, <2>3, <2>4, <2>5
          DEF PublishCandidate, TypeInv, TypeOK, QueuedHasBudget
<1>4. ASSUME NEW w \in Workers, RejectCandidate(w) \/ StopWorker(w)
      PROVE  TypeInv'
  <2>1. expert' \in Expert
    BY <1>0, <1>4 DEF RejectCandidate, StopWorker, Expert, Terminal
  <2>2. worker' \in [Workers -> 0..artifact]
    BY <1>0, <1>1, <1>4 DEF RejectCandidate, StopWorker
  <2> QED BY <1>4, <2>1, <2>2
          DEF RejectCandidate, StopWorker, TypeInv, TypeOK, QueuedHasBudget
<1>5. CASE PublicationLeaseRunsOut
  <2>1. expert' \in Expert
    BY <1>0, <1>5 DEF PublicationLeaseRunsOut, Expert
  <2> QED BY <1>0, <1>5, <2>1, RowsStep
          DEF PublicationLeaseRunsOut, RowsOnly, QueuedHasBudget
<1>6. CASE RunWorkerMaintenance
  <2>1. \/ Maintained \in {Released(expert, s) : s \in {"expired", "failed", "queued"}}
        \/ Maintained = [expert EXCEPT !.status = "validating"]
        \/ Maintained = expert
    BY DEF Maintained
  <2>2. {"expired", "failed", "queued"} \subseteq Status
    BY DEF Terminal
  <2>3. expert' \in Expert
    <3>1. \A s \in {"expired", "failed", "queued"} : Released(expert, s) \in Expert
      BY <1>0, <2>2, ReleasedExpert
    <3>2. [expert EXCEPT !.status = "validating"] \in Expert
      BY <1>0 DEF Expert
    <3> QED BY <1>0, <1>6, <2>1, <3>1, <3>2 DEF RunWorkerMaintenance
  <2> QED BY <1>0, <1>6, <2>3, RowsStep
          DEF RunWorkerMaintenance, RowsOnly, QueuedHasBudget
<1> QED BY <1>2, <1>3, <1>4, <1>5, <1>6 DEF Publication

LEMMA NextTypes == TypeInv /\ [Next]_vars => TypeInv'
<1> SUFFICES ASSUME TypeInv, [Next]_vars PROVE TypeInv'
  OBVIOUS
<1>1. CASE UNCHANGED vars
  BY <1>1 DEF vars, TypeInv, TypeOK, QueuedHasBudget
<1>2. CASE Next
  BY <1>2, ResearchTypes, PipelineTypes, OwnerTypes, PublicationTypes DEF Next
<1> QED BY <1>1, <1>2

LEMMA TypesHold == Spec => []TypeInv
<1> QED BY InitTypes, NextTypes, PTL DEF Spec

\* The rows keep their types: attempts never exceed the CHECK of their table
\* and every worker's reservation is a submission that was made.
THEOREM TypeCorrect == Spec => []TypeOK
<1>1. TypeInv => TypeOK
  BY DEF TypeInv
<1> QED BY <1>1, TypesHold, PTL

-----------------------------------------------------------------------------
(* One publication.                                                         *)

(***************************************************************************)
(* A submission is published from status 'publishing' only, so it is       *)
(* enough that an answered task never returns there.  With one requester   *)
(* and no administrator it never leaves the terminal states: the only late *)
(* write that reopens a task is a continue that read 'input_required', and *)
(* nothing but expiry moves the task while that call is pending.           *)
(***************************************************************************)
Answered == \E s \in Submissions : published[s] # 0
Continuing == \E r \in Requesters : requester[r] = "continue"

AnswerInv ==
    adminActions = 0 =>
        /\ \A s \in Submissions : published[s] <= 1
        /\ Answered => expert.status \in Terminal
        /\ Answered => ~Continuing
        /\ Continuing => expert.status \in {"input_required", "expired"}

\* The steps that leave published, the requesters and the count of an
\* administrator's actions alone, and end no task that was not ended.
Neutral ==
    /\ published' = published
    /\ adminActions' = adminActions
    /\ requester' = requester
    /\ expert.status \in Terminal \cup {"input_required"} =>
         expert'.status \in {expert.status, "expired"}
    /\ expert.status \in Terminal => expert'.status = expert.status

LEMMA NeutralStep == ASSUME AnswerInv, Neutral PROVE AnswerInv'
  BY DEF AnswerInv, Neutral, Answered, Continuing, Terminal

\* Every step but the requester's, the administrator's and a publication.
LEMMA NeutralSteps ==
  ASSUME TypeInv,
         \/ ExpiryPasses \/ ClaimResearchTask \/ ClaimPipelineTask
         \/ \E token \in 1..MaxClaims :
              LeaseRunsOut(token) \/ ResearchCall(token) \/ ExecutorCall(token)
         \/ Reconcile
         \/ \E w \in Workers :
              ReserveCandidate(w) \/ RejectCandidate(w) \/ StopWorker(w)
         \/ PublicationLeaseRunsOut
         \/ RunWorkerMaintenance
  PROVE  Neutral
<1>0. expert \in Expert
  BY DEF TypeInv, TypeOK
<1>1. CASE ExpiryPasses
  BY <1>1 DEF ExpiryPasses, Neutral
<1>2. CASE ClaimResearchTask
  BY <1>2 DEF ClaimResearchTask, Neutral, Terminal
<1>3. CASE ClaimPipelineTask
  BY <1>3 DEF ClaimPipelineTask, Neutral, Terminal
<1>4. ASSUME NEW token \in 1..MaxClaims, LeaseRunsOut(token) PROVE Neutral
  BY <1>0, <1>4 DEF LeaseRunsOut, Neutral, Expert
<1>5. ASSUME NEW token \in 1..MaxClaims, ResearchCall(token) PROVE Neutral
  BY <1>5 DEF ResearchCall, RequestResearchInput, SubmitCandidateRevision,
              FailResearchTask, HoldsResearch, Neutral, Terminal
<1>6. ASSUME NEW token \in 1..MaxClaims, ExecutorCall(token) PROVE Neutral
  BY <1>6 DEF ExecutorCall, PausedHeartbeat, FailPipelineTask, Researching,
              Neutral, Terminal
<1>7. CASE Reconcile
  BY <1>7 DEF Reconcile, QueueExpertWork, RecoverPipelineTask,
              ClosePipelineTask, Researching, Neutral, Terminal
<1>8. ASSUME NEW w \in Workers,
             ReserveCandidate(w) \/ RejectCandidate(w) \/ StopWorker(w)
      PROVE  Neutral
  BY <1>0, <1>8 DEF ReserveCandidate, RejectCandidate, StopWorker, Neutral,
                    Terminal, Expert
<1>9. CASE PublicationLeaseRunsOut
  BY <1>0, <1>9 DEF PublicationLeaseRunsOut, Neutral, Expert
<1>10. CASE RunWorkerMaintenance
  <2>1. CASE Expired
    <3>1. expert'.status = "expired" /\ expert.status \notin Terminal
      BY <1>0, <1>10, <2>1, ReleasedExpert
         DEF RunWorkerMaintenance, Maintained, Expired, Terminal, Status
    <3> QED BY <1>10, <3>1 DEF RunWorkerMaintenance, Neutral
  <2>2. CASE ~Expired
    <3>1. expert.status \in {"researching", "publishing"}
      BY <1>10, <2>2 DEF RunWorkerMaintenance, Maintained
    <3> QED BY <1>10, <3>1 DEF RunWorkerMaintenance, Neutral, Terminal
  <2> QED BY <2>1, <2>2
<1> QED BY <1>1, <1>2, <1>3, <1>4, <1>5, <1>6, <1>7, <1>8, <1>9, <1>10

LEMMA NextAnswer ==
  ASSUME \A r, q \in Requesters : r = q, TypeInv, AnswerInv, [Next]_vars
  PROVE  AnswerInv'
<1>0. /\ expert \in Expert
      /\ requester \in
           [Requesters -> {"idle", "continue", "cancel", "native_cancel"}]
      /\ published \in [Submissions -> Nat]
      /\ worker \in [Workers -> 0..artifact]
      /\ artifact \in 0..MaxSubmissions
      /\ adminActions \in 0..MaxAdminActions
  BY DEF TypeInv, TypeOK
<1>1. CASE UNCHANGED vars
  BY <1>1 DEF vars, AnswerInv, Answered, Continuing
<1>2. CASE Neutral
  BY <1>2, NeutralStep
<1>3. ASSUME NEW r \in Requesters,
             NEW intent \in {"continue", "cancel", "native_cancel"},
             ReadTask(r, intent)
      PROVE  AnswerInv'
  <2>1. /\ requester' = [q \in Requesters |-> intent]
        /\ expert' = expert /\ published' = published
        /\ adminActions' = adminActions
    BY <1>0, <1>3 DEF ReadTask
  <2>2. Continuing' => intent = "continue"
    BY <2>1 DEF Continuing
  <2>3. intent = "continue" => expert.status = "input_required"
    BY <1>3 DEF ReadTask
  <2> QED BY <2>1, <2>2, <2>3 DEF AnswerInv, Answered, Terminal
<1>4. ASSUME NEW r \in Requesters, WriteTask(r) PROVE AnswerInv'
  <2>1. /\ requester' = [q \in Requesters |-> "idle"]
        /\ published' = published /\ adminActions' = adminActions
    BY <1>0, <1>4 DEF WriteTask
  <2>2. ~Continuing'
    BY <2>1 DEF Continuing
  <2>3. requester[r] # "continue" => expert'.status = "cancelled"
    BY <1>0, <1>4 DEF WriteTask, Released, Expert
  <2>4. requester[r] = "continue" => Continuing
    BY DEF Continuing
  <2> QED BY <2>1, <2>2, <2>3, <2>4 DEF AnswerInv, Answered, Terminal
<1>5. ASSUME NEW status \in {"queued", "cancelled"}, ActOnExpertTask(status)
      PROVE  AnswerInv'
  BY <1>0, <1>5, BoundsAssumption DEF ActOnExpertTask, AnswerInv
<1>6. ASSUME NEW w \in Workers, PublishCandidate(w) PROVE AnswerInv'
  <2>1. /\ expert.status = "publishing" /\ expert'.status = "completed"
        /\ requester' = requester /\ adminActions' = adminActions
    BY <1>0, <1>6 DEF PublishCandidate, Expert
  <2>2. worker[w] \in Submissions
    BY <1>0, <1>6, BoundsAssumption DEF PublishCandidate, Submissions
  <2> SUFFICES ASSUME adminActions = 0 PROVE AnswerInv'
    BY <2>1 DEF AnswerInv
  <2>3. ~Answered /\ ~Continuing
    BY <2>1 DEF AnswerInv, Terminal
  <2>4. \A s \in Submissions : published[s] = 0
    BY <2>3 DEF Answered
  <2>5. \A s \in Submissions : published'[s] \in {0, 1}
    BY <1>0, <1>6, <2>2, <2>4 DEF PublishCandidate
  <2>6. ~Continuing'
    BY <2>1, <2>3 DEF Continuing
  <2>7. expert'.status \in Terminal
    BY <2>1 DEF Terminal
  <2> QED BY <2>5, <2>6, <2>7 DEF AnswerInv
<1> QED BY <1>1, <1>2, <1>3, <1>4, <1>5, <1>6, NeutralSteps
        DEF Next, OwnerCall, Publication

\* With one requester, and until an administrator reopens the task, no
\* submission is published twice, however many workers reserve it and however
\* late they are (processNextCandidate).
THEOREM OnePublication ==
  ASSUME \A r, q \in Requesters : r = q
  PROVE  Spec => []PublishedOnce
<1>1. Init => AnswerInv
  BY DEF Init, AnswerInv, Answered, Continuing
<1>2. TypeInv /\ AnswerInv /\ [Next]_vars => AnswerInv'
  BY NextAnswer
<1>3. AnswerInv => PublishedOnce
  BY DEF AnswerInv, PublishedOnce
<1> QED BY <1>1, <1>2, <1>3, TypesHold, PTL DEF Spec
=============================================================================
