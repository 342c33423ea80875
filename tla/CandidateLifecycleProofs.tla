---------------------- MODULE CandidateLifecycleProofs ----------------------
(***************************************************************************)
(* Safety of CandidateLifecycle for every number of candidates, workers,   *)
(* task rows and payload versions, and any preflight: the types, that a    *)
(* candidate has one revision, that what is served is what was verified,   *)
(* and that nobody waits for a task that has ended.  The first argument    *)
(* relates each row to what the workers that hold its reservation remember *)
(* of it (WorkInv), the second to the tasks it names (ReservationInv).     *)
(***************************************************************************)
EXTENDS CandidateLifecycle, TLAPS

-----------------------------------------------------------------------------
(* Types.                                                                   *)

Typed ==
    /\ cand \in [Candidates -> Candidate]
    /\ served \in [Candidates -> {0} \cup Payload]
    /\ task \in [TaskIds -> Task]
    /\ run \in [Workers -> Run]
    /\ faults \in 0..MaxFaults

\* A reservation names a task of its kind.
KindsMatch ==
    \A c \in Candidates, k \in TaskIds :
        /\ cand[c].verifier = k => task[k].kind = "verify"
        /\ cand[c].auditor = k => task[k].kind = "audit"
        /\ cand[c].reviewer = k => task[k].kind = "review"
        /\ cand[c].publisher = k => task[k].kind = "publish"

LEMMA TypeParts == TypeOK <=> Typed /\ KindsMatch
BY DEF TypeOK, Typed, KindsMatch

\* The constants the actions write are of the columns' types.
LEMMA ColumnValues ==
    /\ {"absent", "analyzed", "verified", "deep_review", "rejected",
        "conflict", "published"} \subseteq Status
    /\ {"pending", "sampled_out", "checking", "passed", "repair", "excluded"}
          \subseteq Audit
    /\ 1 \in Payload /\ 0 \notin Payload
    /\ NoTask \notin TaskIds
<1>1. 1 \in Payload /\ 0 \notin Payload /\ NoTask \notin TaskIds
  BY BoundsAssumption DEF Payload, TaskIds, NoTask
<1> QED BY <1>1 DEF Status, Audit

\* A partial function of candidates is one on some of them.
LEMMA PartialFunction ==
  ASSUME NEW S, NEW f
  PROVE  f \in Partial(S) <=> /\ DOMAIN f \subseteq Candidates
                              /\ f = [d \in DOMAIN f |-> f[d]]
                              /\ \A d \in DOMAIN f : f[d] \in S
<1>1. ASSUME f \in Partial(S)
      PROVE  /\ DOMAIN f \subseteq Candidates
             /\ f = [d \in DOMAIN f |-> f[d]]
             /\ \A d \in DOMAIN f : f[d] \in S
  <2>1. PICK D \in SUBSET Candidates : f \in [D -> S]
    BY <1>1 DEF Partial
  <2> QED BY <2>1
<1>2. ASSUME DOMAIN f \subseteq Candidates, f = [d \in DOMAIN f |-> f[d]],
             \A d \in DOMAIN f : f[d] \in S
      PROVE  f \in Partial(S)
  <2>1. f \in [DOMAIN f -> S]
    BY <1>2
  <2> QED BY <1>2, <2>1 DEF Partial
<1> QED BY <1>1, <1>2

LEMMA NothingDone == ASSUME NEW S PROVE << >> \in Partial(S)
<1>1. << >> = [d \in {} |-> 0]
  OBVIOUS
<1>2. << >> \in [{} -> S]
  BY <1>1
<1> QED BY <1>2 DEF Partial

LEMMA Extended ==
  ASSUME NEW S, NEW f \in Partial(S), NEW c \in Candidates, NEW x \in S
  PROVE  With(f, c, x) \in Partial(S)
<1>1. /\ DOMAIN With(f, c, x) = DOMAIN f \cup {c}
      /\ \A d \in DOMAIN f \cup {c} :
            With(f, c, x)[d] = IF d = c THEN x ELSE f[d]
      /\ With(f, c, x) = [d \in DOMAIN With(f, c, x) |-> With(f, c, x)[d]]
  BY DEF With
<1> QED BY <1>1, PartialFunction

LEMMA InitTypes == Init => TypeOK
<1> SUFFICES ASSUME Init PROVE Typed /\ KindsMatch
  BY TypeParts
<1>1. NewCandidate \in Candidate
  BY ColumnValues DEF NewCandidate, Candidate
<1>2. Idle \in Run
  BY NothingDone DEF Idle, Run
<1>3. \A k \in TaskIds :
        [kind |-> "verify", cands |-> {}, status |-> "absent"] \in Task
  BY DEF Task
<1>4. faults \in 0..MaxFaults
  BY BoundsAssumption DEF Init
<1>5. Typed
  BY <1>1, <1>2, <1>3, <1>4 DEF Init, Typed
<1>6. KindsMatch
  BY ColumnValues DEF Init, KindsMatch, NewCandidate
<1> QED BY <1>5, <1>6

\* Steps of the agents' and the scheduler's: rows of candidates and tasks.
LEMMA RowsStep ==
  ASSUME TypeOK, UNCHANGED <<served, run>>,
         cand' = [c \in Candidates |-> cand'[c]],
         task' = [k \in TaskIds |-> task'[k]],
         \A c \in Candidates : cand'[c] \in Candidate,
         \A k \in TaskIds : task'[k] \in Task,
         faults' \in 0..MaxFaults
  PROVE  Typed'
BY DEF TypeOK, Typed

LEMMA QueueTypes ==
  ASSUME TypeOK, NEW k \in TaskIds, NEW S \in SUBSET Candidates,
         NEW kind \in {"verify", "audit", "review", "publish"},
         Queued(k, kind, S)
  PROVE  /\ task' \in [TaskIds -> Task]
         /\ task'[k].kind = kind
         /\ \A j \in TaskIds \ {k} : task'[j] = task[j]
BY DEF TypeOK, Queued, Task

LEMMA ClosedTypes ==
  ASSUME TypeOK, NEW k \in TaskIds,
         NEW s \in {"completed", "failed", "skipped"},
         Closed(k, s)
  PROVE  /\ task' \in [TaskIds -> Task]
         /\ \A j \in TaskIds : task'[j].kind = task[j].kind
BY DEF TypeOK, Closed, Task

\* A reservation stays, ends, or is of a task of its kind, and no task that is
\* referred to changes its kind.
LEMMA KindsStep ==
  ASSUME TypeOK,
         \A j \in TaskIds : Referenced(j) => task'[j].kind = task[j].kind,
         \A c \in Candidates :
           /\ cand'[c].verifier \in {cand[c].verifier, NoTask}
                \/ task'[cand'[c].verifier].kind = "verify"
           /\ cand'[c].auditor \in {cand[c].auditor, NoTask}
                \/ task'[cand'[c].auditor].kind = "audit"
           /\ cand'[c].reviewer \in {cand[c].reviewer, NoTask}
                \/ task'[cand'[c].reviewer].kind = "review"
           /\ cand'[c].publisher \in {cand[c].publisher, NoTask}
                \/ task'[cand'[c].publisher].kind = "publish"
  PROVE  KindsMatch'
<1> SUFFICES ASSUME NEW c \in Candidates, NEW k \in TaskIds
             PROVE  /\ cand'[c].verifier = k => task'[k].kind = "verify"
                    /\ cand'[c].auditor = k => task'[k].kind = "audit"
                    /\ cand'[c].reviewer = k => task'[k].kind = "review"
                    /\ cand'[c].publisher = k => task'[k].kind = "publish"
  BY DEF KindsMatch
<1>1. k # NoTask
  BY ColumnValues
<1>2. \/ cand[c].verifier = k \/ cand[c].auditor = k
      \/ cand[c].reviewer = k \/ cand[c].publisher = k
      => task'[k].kind = task[k].kind
  BY DEF Referenced
<1>3. /\ cand[c].verifier = k => task[k].kind = "verify"
      /\ cand[c].auditor = k => task[k].kind = "audit"
      /\ cand[c].reviewer = k => task[k].kind = "review"
      /\ cand[c].publisher = k => task[k].kind = "publish"
  BY TypeParts DEF KindsMatch
<1> QED BY <1>1, <1>2, <1>3

\* The step of a task's end: every reservation stays or ends.
LEMMA ClosingStep ==
  ASSUME TypeOK, UNCHANGED <<served, run>>, faults' \in 0..MaxFaults,
         task' \in [TaskIds -> Task],
         \A j \in TaskIds : task'[j].kind = task[j].kind,
         cand' \in [Candidates -> Candidate],
         \A c \in Candidates :
           /\ cand'[c].verifier \in {cand[c].verifier, NoTask}
           /\ cand'[c].auditor \in {cand[c].auditor, NoTask}
           /\ cand'[c].reviewer \in {cand[c].reviewer, NoTask}
           /\ cand'[c].publisher \in {cand[c].publisher, NoTask}
  PROVE  TypeOK'
<1>1. KindsMatch'
  BY KindsStep
<1>2. Typed'
  BY DEF TypeOK, Typed
<1> QED BY <1>1, <1>2 DEF TypeOK, Typed, KindsMatch

\* The step that reserves the candidates of S for a new task.
LEMMA QueueStep ==
  ASSUME TypeOK, NEW k \in TaskIds, NewTask(k), NEW S \in SUBSET Candidates,
         NEW kind \in {"verify", "audit", "review", "publish"},
         Queued(k, kind, S), UNCHANGED <<served, run, faults>>,
         cand' \in [Candidates -> Candidate],
         \A c \in Candidates :
           /\ cand'[c].verifier # cand[c].verifier =>
                 kind = "verify" /\ cand'[c].verifier = k
           /\ cand'[c].auditor # cand[c].auditor =>
                 kind = "audit" /\ cand'[c].auditor = k
           /\ cand'[c].reviewer # cand[c].reviewer =>
                 kind = "review" /\ cand'[c].reviewer = k
           /\ cand'[c].publisher # cand[c].publisher =>
                 kind = "publish" /\ cand'[c].publisher = k
  PROVE  TypeOK'
<1>1. /\ task' \in [TaskIds -> Task]
      /\ task'[k].kind = kind
      /\ \A j \in TaskIds \ {k} : task'[j] = task[j]
  BY QueueTypes
<1>2. ~Referenced(k)
  BY DEF NewTask, Free
<1>3. KindsMatch'
  BY <1>1, <1>2, KindsStep
<1>4. Typed'
  BY <1>1 DEF TypeOK, Typed
<1> QED BY <1>3, <1>4 DEF TypeOK, Typed, KindsMatch

\* Every scheduling of a task.
LEMMA SchedulingTypes ==
  ASSUME TypeOK, NEW k \in TaskIds, NEW S \in SUBSET Candidates,
         \/ QueueVerification(k, S)
         \/ \E out \in SUBSET Candidates : QueueFidelityAudit(k, S, out)
         \/ QueueDeepReview(k, S)
         \/ QueueCandidatePublication(k, S)
  PROVE  TypeOK'
<1>0. \A c \in Candidates : cand[c] \in Candidate
  BY DEF TypeOK
<1> USE ColumnValues
<1>1. CASE QueueVerification(k, S)
  <2>1. /\ cand' \in [Candidates -> Candidate]
        /\ \A c \in Candidates :
             /\ cand'[c].verifier \in {cand[c].verifier, k}
             /\ cand'[c].auditor = cand[c].auditor
             /\ cand'[c].reviewer = cand[c].reviewer
             /\ cand'[c].publisher = cand[c].publisher
    BY <1>0, <1>1, SMTT(40) DEF QueueVerification, Candidate
  <2> QED BY <1>1, <2>1, QueueStep DEF QueueVerification
<1>2. ASSUME NEW out \in SUBSET Candidates, QueueFidelityAudit(k, S, out)
      PROVE  TypeOK'
  <2>1. /\ cand' \in [Candidates -> Candidate]
        /\ \A c \in Candidates :
             /\ cand'[c].verifier = cand[c].verifier
             /\ cand'[c].auditor \in {cand[c].auditor, k}
             /\ cand'[c].reviewer = cand[c].reviewer
             /\ cand'[c].publisher = cand[c].publisher
    BY <1>0, <1>2, ZenonT(40) DEF QueueFidelityAudit, Candidate
  <2> QED BY <1>2, <2>1, QueueStep, ZenonT(40) DEF QueueFidelityAudit
<1>3. CASE QueueDeepReview(k, S)
  <2>1. /\ cand' \in [Candidates -> Candidate]
        /\ \A c \in Candidates :
             /\ cand'[c].verifier = cand[c].verifier
             /\ cand'[c].auditor = cand[c].auditor
             /\ cand'[c].reviewer \in {cand[c].reviewer, k}
             /\ cand'[c].publisher = cand[c].publisher
    BY <1>0, <1>3 DEF QueueDeepReview, Candidate
  <2> QED BY <1>3, <2>1, QueueStep DEF QueueDeepReview
<1>4. CASE QueueCandidatePublication(k, S)
  <2>1. /\ cand' \in [Candidates -> Candidate]
        /\ \A c \in Candidates :
             /\ cand'[c].verifier = cand[c].verifier
             /\ cand'[c].auditor = cand[c].auditor
             /\ cand'[c].reviewer = cand[c].reviewer
             /\ cand'[c].publisher \in {cand[c].publisher, k}
    BY <1>0, <1>4 DEF QueueCandidatePublication, Candidate
  <2> QED BY <1>4, <2>1, QueueStep DEF QueueCandidatePublication
<1> QED BY <1>1, <1>2, <1>3, <1>4
\* The steps that change rows of candidates only.
LEMMA CandidateTypes ==
  ASSUME TypeOK,
         \/ \E c \in Candidates, payload \in Payload :
              \E status \in {"verified", "analyzed"} :
                 SubmitCandidateAnalysis(c, status, payload)
         \/ \E S \in SUBSET Candidates :
              SampleOut(S) \/ ReuseRejectedEvidence(S)
         \/ ReleaseStaleReservations
  PROVE  TypeOK'
<1> USE ColumnValues
<1>0. /\ \A c \in Candidates : cand[c] \in Candidate
      /\ cand \in [Candidates -> Candidate]
      /\ faults \in 0..MaxFaults /\ task \in [TaskIds -> Task]
  BY DEF TypeOK
<1>1. ASSUME NEW c \in Candidates, NEW payload \in Payload,
             NEW status \in {"verified", "analyzed"},
             SubmitCandidateAnalysis(c, status, payload)
      PROVE  TypeOK'
  <2>1. /\ cand' \in [Candidates -> Candidate]
        /\ \A d \in Candidates :
             /\ cand'[d].verifier = cand[d].verifier
             /\ cand'[d].auditor = cand[d].auditor
             /\ cand'[d].reviewer = cand[d].reviewer
             /\ cand'[d].publisher = cand[d].publisher
    BY <1>0, <1>1 DEF SubmitCandidateAnalysis, Candidate
  <2> QED BY <1>0, <1>1, <2>1, ClosingStep DEF SubmitCandidateAnalysis
<1>2. ASSUME NEW S \in SUBSET Candidates, SampleOut(S)
      PROVE  TypeOK'
  <2>1. /\ cand' \in [Candidates -> Candidate]
        /\ \A d \in Candidates :
             /\ cand'[d].verifier = cand[d].verifier
             /\ cand'[d].auditor = cand[d].auditor
             /\ cand'[d].reviewer = cand[d].reviewer
             /\ cand'[d].publisher = cand[d].publisher
    BY <1>0, <1>2 DEF SampleOut, Candidate
  <2> QED BY <1>0, <1>2, <2>1, ClosingStep DEF SampleOut
<1>3. ASSUME NEW S \in SUBSET Candidates, ReuseRejectedEvidence(S)
      PROVE  TypeOK'
  <2>1. /\ cand' \in [Candidates -> Candidate]
        /\ \A d \in Candidates :
             /\ cand'[d].verifier \in {cand[d].verifier, NoTask}
             /\ cand'[d].auditor = cand[d].auditor
             /\ cand'[d].reviewer \in {cand[d].reviewer, NoTask}
             /\ cand'[d].publisher \in {cand[d].publisher, NoTask}
    BY <1>0, <1>3, ZenonT(40) DEF ReuseRejectedEvidence, Candidate
  <2> QED BY <1>0, <1>3, <2>1, ClosingStep DEF ReuseRejectedEvidence
<1>4. CASE ReleaseStaleReservations
  <2>1. /\ cand' \in [Candidates -> Candidate]
        /\ \A d \in Candidates :
             /\ cand'[d].verifier = cand[d].verifier
             /\ cand'[d].auditor = cand[d].auditor
             /\ cand'[d].reviewer = cand[d].reviewer
             /\ cand'[d].publisher \in {cand[d].publisher, NoTask}
    BY <1>0, <1>4 DEF ReleaseStaleReservations, Candidate
  <2> QED BY <1>0, <1>4, <2>1, ClosingStep DEF ReleaseStaleReservations
<1> QED BY <1>1, <1>2, <1>3, <1>4

\* A verification's answer: what it decides is released, and the rest goes to
\* new tasks of the same kind.
LEMMA VerificationTypes ==
  ASSUME TypeOK, NEW k \in TaskIds, NEW decision \in Decisions(k, Verdicts),
         NEW retry \in [task[k].cands \ DOMAIN decision -> TaskIds],
         SubmitCandidateVerification(k, decision, retry)
  PROVE  TypeOK'
<1> USE ColumnValues
<1> DEFINE used == {retry[c] : c \in DOMAIN retry}
<1>0. /\ \A c \in Candidates : cand[c] \in Candidate
      /\ \A n \in TaskIds : task[n] \in Task
      /\ task[k].cands \subseteq Candidates
  BY DEF TypeOK, Task
<1>1. /\ DOMAIN decision \subseteq Candidates
      /\ \A c \in DOMAIN decision : decision[c] \in Verdicts
      /\ DOMAIN retry \subseteq Candidates
      /\ \A c \in DOMAIN retry : retry[c] \in TaskIds
  BY <1>0 DEF Decisions
<1>2. Verdicts \subseteq Status
  BY DEF Verdicts
<1>3. \A c \in Candidates :
        /\ cand'[c] \in Candidate
        /\ cand'[c].verifier \in {cand[c].verifier, NoTask} \cup used
        /\ cand'[c].auditor = cand[c].auditor
        /\ cand'[c].reviewer = cand[c].reviewer
        /\ cand'[c].publisher = cand[c].publisher
  BY <1>0, <1>1, <1>2, ZenonT(40) DEF SubmitCandidateVerification, Candidate
<1>4. cand' = [c \in Candidates |-> cand'[c]]
  BY DEF SubmitCandidateVerification
<1>5. \A n \in used : n \in TaskIds /\ ~Live(n) /\ ~Referenced(n)
  BY <1>1 DEF SubmitCandidateVerification, Free
<1>6. task[k].kind = "verify" /\ Live(k)
  BY DEF SubmitCandidateVerification
<1>7. \A n \in TaskIds :
        /\ task'[n] \in Task
        /\ n \in used => task'[n].kind = "verify"
        /\ n \notin used => task'[n].kind = task[n].kind
  <2> SUFFICES ASSUME NEW n \in TaskIds
               PROVE  /\ task'[n] \in Task
                      /\ n \in used => task'[n].kind = "verify"
                      /\ n \notin used => task'[n].kind = task[n].kind
    OBVIOUS
  <2>1. CASE n = k
    BY <1>0, <1>5, <1>6, <2>1, ZenonT(40) DEF SubmitCandidateVerification, Task
  <2>2. CASE n # k /\ n \in used
    BY <1>0, <1>1, <2>2 DEF SubmitCandidateVerification, Task
  <2>3. CASE n # k /\ n \notin used
    BY <1>0, <2>3 DEF SubmitCandidateVerification
  <2> QED BY <2>1, <2>2, <2>3
<1>8. task' = [n \in TaskIds |-> task'[n]]
  BY DEF SubmitCandidateVerification
<1> HIDE DEF used
<1>9. KindsMatch'
  BY <1>3, <1>5, <1>7, KindsStep
<1>10. Typed'
  BY <1>3, <1>4, <1>7, <1>8 DEF TypeOK, Typed, SubmitCandidateVerification
<1> QED BY <1>9, <1>10 DEF TypeOK, Typed, KindsMatch

LEMMA DispositionStatus ==
  ASSUME NEW c, NEW d \in Resolutions
  PROVE  Disposition(c, d)
            \in {"verified", "rejected", "conflict", "deep_review"}
BY DEF Disposition, Resolutions

\* The answers of the audit and of the review, and failures.
LEMMA EndTypes ==
  ASSUME TypeOK, NEW k \in TaskIds,
         \/ \E finding \in Decisions(k, Findings) :
              SubmitFidelityAudit(k, finding)
         \/ \E decision \in Decisions(k, Resolutions) :
              \E repair \in Decisions(k, Payload) :
                 SubmitCandidateDeepReview(k, decision, repair)
         \/ \E reported \in BOOLEAN : FailTask(k, reported)
  PROVE  TypeOK'
<1> USE ColumnValues
<1>0. /\ \A c \in Candidates : cand[c] \in Candidate
      /\ cand \in [Candidates -> Candidate]
      /\ served \in [Candidates -> {0} \cup Payload]
      /\ faults \in 0..MaxFaults
  BY DEF TypeOK
<1>1. ASSUME NEW finding \in Decisions(k, Findings),
             SubmitFidelityAudit(k, finding)
      PROVE  TypeOK'
  <2>1. /\ cand' \in [Candidates -> Candidate]
        /\ \A c \in Candidates :
             /\ cand'[c].verifier = cand[c].verifier
             /\ cand'[c].auditor \in {cand[c].auditor, NoTask}
             /\ cand'[c].reviewer = cand[c].reviewer
             /\ cand'[c].publisher = cand[c].publisher
    BY <1>0, <1>1, ZenonT(40) DEF SubmitFidelityAudit, Candidate
  <2>2. /\ task' \in [TaskIds -> Task]
        /\ \A j \in TaskIds : task'[j].kind = task[j].kind
    BY <1>1, ClosedTypes DEF SubmitFidelityAudit
  <2>3. KindsMatch'
    BY <2>1, <2>2, KindsStep
  <2>4. served' \in [Candidates -> {0} \cup Payload]
    BY <1>0, <1>1 DEF SubmitFidelityAudit
  <2>5. Typed'
    BY <1>1, <2>1, <2>2, <2>4 DEF TypeOK, Typed, SubmitFidelityAudit
  <2> QED BY <2>3, <2>5 DEF TypeOK, Typed, KindsMatch
<1>2. ASSUME NEW decision \in Decisions(k, Resolutions),
             NEW repair \in Decisions(k, Payload),
             SubmitCandidateDeepReview(k, decision, repair)
      PROVE  TypeOK'
  <2>1. /\ \A c \in DOMAIN decision : Disposition(c, decision[c]) \in Status
        /\ \A c \in DOMAIN repair : repair[c] \in Payload
    BY DispositionStatus DEF Decisions
  <2>2. \A c \in Candidates :
           /\ Omitted(c, k) \in Candidate
           /\ Omitted(c, k).verifier = cand[c].verifier
           /\ Omitted(c, k).auditor = cand[c].auditor
           /\ Omitted(c, k).reviewer \in {cand[c].reviewer, NoTask}
           /\ Omitted(c, k).publisher = cand[c].publisher
    BY <1>0 DEF Omitted, Candidate
  <2>3. \A c \in Candidates :
             /\ cand'[c] \in Candidate
             /\ cand'[c].verifier = cand[c].verifier
             /\ cand'[c].auditor = cand[c].auditor
             /\ cand'[c].reviewer \in {cand[c].reviewer, NoTask}
             /\ cand'[c].publisher = cand[c].publisher
    <3> SUFFICES ASSUME NEW c \in Candidates, c \in DOMAIN decision
                 PROVE  /\ cand'[c] \in Candidate
                        /\ cand'[c].verifier = cand[c].verifier
                        /\ cand'[c].auditor = cand[c].auditor
                        /\ cand'[c].reviewer = NoTask
                        /\ cand'[c].publisher = cand[c].publisher
      BY <1>2, <2>2 DEF SubmitCandidateDeepReview
    <3>1. PICK s \in Status, p \in Payload :
            cand'[c] = [cand[c] EXCEPT !.status = s, !.payload = p,
                                       !.reviewed = TRUE, !.reviewer = NoTask]
      <4>1. cand[c].payload \in Payload
        BY <1>0 DEF Candidate
      <4> QED BY <1>2, <2>1, <4>1 DEF SubmitCandidateDeepReview
    <3> QED BY <1>0, <3>1 DEF Candidate
  <2>4. cand' \in [Candidates -> Candidate]
    BY <1>2, <2>3 DEF SubmitCandidateDeepReview
  <2>5. /\ task' \in [TaskIds -> Task]
        /\ \A j \in TaskIds : task'[j].kind = task[j].kind
    BY <1>2, ClosedTypes DEF SubmitCandidateDeepReview
  <2> QED BY <1>0, <1>2, <2>3, <2>4, <2>5, ClosingStep
          DEF SubmitCandidateDeepReview
<1>3. ASSUME NEW reported \in BOOLEAN, FailTask(k, reported)
      PROVE  TypeOK'
  <2>1. \A c \in Candidates :
          \/ cand'[c] = cand[c]
          \/ cand'[c] = [cand[c] EXCEPT !.status = "deep_review",
                                       !.verifier = NoTask]
          \/ cand'[c] = [cand[c] EXCEPT !.status = "deep_review",
                                       !.reviewer = NoTask]
          \/ cand'[c] = [cand[c] EXCEPT !.publisher = NoTask]
    BY <1>3 DEF FailTask
  <2>2. /\ cand' = [c \in Candidates |-> cand'[c]]
        /\ faults' = faults \/ (faults < MaxFaults /\ faults' = faults + 1)
    BY <1>3 DEF FailTask, Fault
  <2>4. \A c \in Candidates :
          /\ cand'[c] \in Candidate
          /\ cand'[c].verifier \in {cand[c].verifier, NoTask}
          /\ cand'[c].auditor = cand[c].auditor
          /\ cand'[c].reviewer \in {cand[c].reviewer, NoTask}
          /\ cand'[c].publisher \in {cand[c].publisher, NoTask}
    <3> SUFFICES ASSUME NEW c \in Candidates
                 PROVE  /\ cand'[c] \in Candidate
                        /\ cand'[c].verifier \in {cand[c].verifier, NoTask}
                        /\ cand'[c].auditor = cand[c].auditor
                        /\ cand'[c].reviewer \in {cand[c].reviewer, NoTask}
                        /\ cand'[c].publisher \in {cand[c].publisher, NoTask}
      OBVIOUS
    <3>1. CASE cand'[c] = cand[c]
      BY <1>0, <3>1
    <3>2. CASE cand'[c] = [cand[c] EXCEPT !.status = "deep_review",
                                          !.verifier = NoTask]
      BY <1>0, <3>2 DEF Candidate
    <3>3. CASE cand'[c] = [cand[c] EXCEPT !.status = "deep_review",
                                          !.reviewer = NoTask]
      BY <1>0, <3>3 DEF Candidate
    <3>4. CASE cand'[c] = [cand[c] EXCEPT !.publisher = NoTask]
      BY <1>0, <3>4 DEF Candidate
    <3> QED BY <2>1, <3>1, <3>2, <3>3, <3>4
  <2>5. cand' \in [Candidates -> Candidate] /\ faults' \in 0..MaxFaults
    BY <1>0, <2>2, <2>4, BoundsAssumption
  <2>3. /\ task' \in [TaskIds -> Task]
        /\ \A j \in TaskIds : task'[j].kind = task[j].kind
    BY <1>3, ClosedTypes DEF FailTask
  <2> QED BY <1>3, <2>3, <2>4, <2>5, ClosingStep DEF FailTask
<1> QED BY <1>1, <1>2, <1>3

LEMMA ReplacementTypes ==
  ASSUME TypeOK, NEW S \in SUBSET TaskIds, NEW retry \in BOOLEAN,
         ReplaceStage(S, retry)
  PROVE  TypeOK'
<1>1. /\ cand' \in [Candidates -> Candidate]
      /\ \A c \in Candidates :
           /\ cand'[c].verifier \in {cand[c].verifier, NoTask}
           /\ cand'[c].auditor = cand[c].auditor
           /\ cand'[c].reviewer = cand[c].reviewer
           /\ cand'[c].publisher = cand[c].publisher
  BY ColumnValues, SMTT(40) DEF TypeOK, ReplaceStage, Candidate
<1>2. /\ task' \in [TaskIds -> Task]
      /\ \A j \in TaskIds : task'[j].kind = task[j].kind
  BY DEF TypeOK, ReplaceStage, Task
<1>3. faults' \in 0..MaxFaults
  BY BoundsAssumption DEF TypeOK, ReplaceStage, Fault
<1> QED BY <1>1, <1>2, <1>3, ClosingStep DEF ReplaceStage

\* What a worker remembers is about candidates.
LEMMA RunMemory ==
  ASSUME TypeOK, NEW w \in Workers
  PROVE  /\ run[w] \in Run
         /\ run[w].todo \in Partial([payload : Payload, reviewed : BOOLEAN])
         /\ run[w].made \in Partial(Payload)
         /\ run[w].held \in Partial(BOOLEAN)
         /\ \A c \in DOMAIN run[w].todo :
               /\ c \in Candidates
               /\ run[w].todo[c].payload \in Payload
               /\ run[w].todo[c].reviewed \in BOOLEAN
         /\ \A c \in DOMAIN run[w].made :
               c \in Candidates /\ run[w].made[c] \in Payload
         /\ DOMAIN run[w].held \subseteq Candidates
<1>1. /\ run[w] \in Run
      /\ run[w].todo \in Partial([payload : Payload, reviewed : BOOLEAN])
      /\ run[w].made \in Partial(Payload)
      /\ run[w].held \in Partial(BOOLEAN)
  BY DEF TypeOK, Run
<1>2. /\ DOMAIN run[w].todo \subseteq Candidates
      /\ \A c \in DOMAIN run[w].todo :
            run[w].todo[c] \in [payload : Payload, reviewed : BOOLEAN]
  BY <1>1, PartialFunction
<1>3. /\ DOMAIN run[w].made \subseteq Candidates
      /\ \A c \in DOMAIN run[w].made : run[w].made[c] \in Payload
      /\ DOMAIN run[w].held \subseteq Candidates
  BY <1>1, PartialFunction
<1> QED BY <1>1, <1>2, <1>3

\* A candidate that has been handled leaves the worker's batch.
LEMMA HandledRun ==
  ASSUME TypeOK, NEW w \in Workers, NEW c
  PROVE  /\ Handled(w, c) \in Run
         /\ Handled(w, c).task = run[w].task
         /\ Handled(w, c).made = run[w].made
         /\ Handled(w, c).held = run[w].held
         /\ DOMAIN Handled(w, c).todo = DOMAIN run[w].todo \ {c}
         /\ \A d \in DOMAIN run[w].todo \ {c} :
               Handled(w, c).todo[d] = run[w].todo[d]
<1> DEFINE Read == [payload : Payload, reviewed : BOOLEAN]
           rest == [d \in DOMAIN run[w].todo \ {c} |-> run[w].todo[d]]
<1>1. run[w] \in Run /\ run[w].todo \in Partial(Read)
  BY DEF TypeOK, Run
<1>2. /\ DOMAIN rest = DOMAIN run[w].todo \ {c}
      /\ \A d \in DOMAIN rest : rest[d] = run[w].todo[d]
      /\ rest = [d \in DOMAIN rest |-> rest[d]]
  OBVIOUS
<1>3. rest \in Partial(Read)
  BY <1>1, <1>2, PartialFunction
<1>4. Handled(w, c) = [run[w] EXCEPT !.todo = rest]
  BY DEF Handled
<1> HIDE DEF rest
<1> QED BY <1>1, <1>2, <1>3, <1>4 DEF Run

\* What changes in a worker's memory when it makes a revision or keeps a
\* refusal.
LEMMA MadeRun ==
  ASSUME TypeOK, NEW w \in Workers, NEW c \in Candidates, NEW x \in Payload
  PROVE  LET r == [Handled(w, c) EXCEPT !.made = With(@, c, x)]
         IN /\ r \in Run
            /\ r.task = run[w].task /\ r.held = run[w].held
            /\ r.todo = Handled(w, c).todo
            /\ DOMAIN r.made = DOMAIN run[w].made \cup {c}
            /\ \A d \in DOMAIN run[w].made \cup {c} :
                  r.made[d] = IF d = c THEN x ELSE run[w].made[d]
<1>1. /\ Handled(w, c) \in Run /\ Handled(w, c).made = run[w].made
      /\ run[w].made \in Partial(Payload)
  BY HandledRun, RunMemory
<1> DEFINE m == With(run[w].made, c, x)
<1>2. m \in Partial(Payload)
  BY <1>1, Extended, Zenon
<1>4. /\ DOMAIN m = DOMAIN run[w].made \cup {c}
      /\ \A d \in DOMAIN run[w].made \cup {c} :
            m[d] = IF d = c THEN x ELSE run[w].made[d]
  BY DEF With
<1> HIDE DEF m
<1>3. [Handled(w, c) EXCEPT !.made = With(@, c, x)]
        = [Handled(w, c) EXCEPT !.made = m]
  BY <1>1 DEF m
<1> QED BY <1>1, <1>2, <1>3, <1>4, HandledRun DEF Run

LEMMA HeldRun ==
  ASSUME TypeOK, NEW w \in Workers, NEW c \in Candidates, NEW x \in BOOLEAN
  PROVE  LET r == [Handled(w, c) EXCEPT !.held = With(@, c, x)]
         IN /\ r \in Run
            /\ r.task = run[w].task /\ r.made = run[w].made
            /\ r.todo = Handled(w, c).todo
            /\ DOMAIN r.held = DOMAIN run[w].held \cup {c}
<1>1. /\ Handled(w, c) \in Run /\ Handled(w, c).held = run[w].held
      /\ run[w].held \in Partial(BOOLEAN)
  BY HandledRun, RunMemory
<1> DEFINE m == With(run[w].held, c, x)
<1>2. m \in Partial(BOOLEAN)
  BY <1>1, Extended, Zenon
<1>4. DOMAIN m = DOMAIN run[w].held \cup {c}
  BY DEF With
<1> HIDE DEF m
<1>3. [Handled(w, c) EXCEPT !.held = With(@, c, x)]
        = [Handled(w, c) EXCEPT !.held = m]
  BY <1>1 DEF m
<1> QED BY <1>1, <1>2, <1>3, <1>4, HandledRun DEF Run

\* What a worker holds after its first statement.
LEMMA ReadRun ==
  ASSUME TypeOK, NEW w \in Workers, NEW k \in TaskIds, ReadBatch(w, k)
  PROVE  /\ run' \in [Workers -> Run]
         /\ \A v \in Workers \ {w} : run'[v] = run[v]
         /\ run'[w].task = k
         /\ DOMAIN run'[w].made = {} /\ DOMAIN run'[w].held = {}
         /\ \A c \in DOMAIN run'[w].todo :
               /\ c \in Candidates /\ Reserved(c, k)
               /\ run'[w].todo[c].payload = cand[c].payload
<1> DEFINE S == {c \in task[k].cands : Reserved(c, k)}
           todo == [c \in S |-> [payload |-> cand[c].payload,
                                 reviewed |-> cand[c].reviewed]]
           r == [Idle EXCEPT !.task = k, !.todo = todo]
<1>1. S \subseteq Candidates
  BY DEF TypeOK, Task
<1>2. \A c \in S : [payload |-> cand[c].payload,
                    reviewed |-> cand[c].reviewed]
                      \in [payload : Payload, reviewed : BOOLEAN]
  BY <1>1 DEF TypeOK, Candidate
<1>3. /\ todo \in [S -> [payload : Payload, reviewed : BOOLEAN]]
      /\ DOMAIN todo = S
      /\ \A c \in S : todo[c].payload = cand[c].payload
  BY <1>2
<1>4. todo \in Partial([payload : Payload, reviewed : BOOLEAN])
  BY <1>1, <1>3 DEF Partial
<1>5. DOMAIN << >> = {}
  <2>1. << >> = [d \in {} |-> 0]
    OBVIOUS
  <2> QED BY <2>1
<1>6. run' = [run EXCEPT ![w] = r]
  BY DEF ReadBatch
<1> HIDE DEF todo
<1>7. Idle \in Run /\ Idle.made = << >> /\ Idle.held = << >>
  BY NothingDone DEF Idle, Run
<1>8. r \in Run /\ r.task = k /\ r.todo = todo
      /\ r.made = Idle.made /\ r.held = Idle.held
  BY <1>4, <1>7 DEF Run
<1> HIDE DEF r
<1>9. run \in [Workers -> Run]
  BY DEF TypeOK
<1>10. /\ run' \in [Workers -> Run] /\ run'[w] = r
       /\ \A v \in Workers \ {w} : run'[v] = run[v]
  BY <1>6, <1>8, <1>9
<1> QED BY <1>1, <1>3, <1>5, <1>7, <1>8, <1>10

\* A worker's step leaves every reservation as it is, or ends it.
LEMMA WorkerStep ==
  ASSUME TypeOK, run' \in [Workers -> Run],
         task' \in [TaskIds -> Task],
         \A j \in TaskIds : task'[j].kind = task[j].kind,
         cand' \in [Candidates -> Candidate],
         served' \in [Candidates -> {0} \cup Payload],
         faults' \in 0..MaxFaults,
         \A c \in Candidates :
           /\ cand'[c].verifier = cand[c].verifier
           /\ cand'[c].auditor = cand[c].auditor
           /\ cand'[c].reviewer \in {cand[c].reviewer, NoTask}
           /\ cand'[c].publisher \in {cand[c].publisher, NoTask}
  PROVE  TypeOK'
<1>1. KindsMatch'
  BY KindsStep
<1>2. Typed'
  BY DEF TypeOK, Typed
<1> QED BY <1>1, <1>2 DEF TypeOK, Typed, KindsMatch

\* The revision a worker makes is a payload.
LEMMA RevisionPayload ==
  ASSUME TypeOK, NEW w \in Workers, NEW c \in DOMAIN run[w].todo,
         NEW x \in Revision(w, c)
  PROVE  c \in Candidates /\ x \in Payload
<1>1. c \in Candidates /\ run[w].todo[c].payload \in Payload
  BY RunMemory
<1>2. cand[c].revision \in {0} \cup Payload
  BY <1>1, SMTT(40) DEF TypeOK, Candidate
<1> QED BY <1>1, <1>2 DEF Revision

\* What a worker publishes.
LEMMA PublishBatchRows ==
  ASSUME TypeOK, NEW w \in Workers, PublishBatch(w), NEW c \in Candidates
  PROVE  \/ cand'[c] = cand[c]
         \/ /\ c \in DOMAIN run[w].held /\ cand[c].publisher = run[w].task
            /\ \/ cand'[c] = [cand[c] EXCEPT !.status = "deep_review",
                                !.publisher = NoTask, !.reviewer = NoTask]
               \/ cand'[c] = [cand[c] EXCEPT !.status = "rejected",
                                !.audit = "excluded",
                                !.publisher = NoTask, !.reviewer = NoTask]
         \/ /\ c \in DOMAIN run[w].made /\ cand[c].publisher = run[w].task
            /\ cand'[c] = [cand[c] EXCEPT !.status = "published",
                              !.revision = run[w].made[c],
                              !.publisher = NoTask]
BY DEF PublishBatch

LEMMA PublishTypes ==
  ASSUME TypeOK, NEW w \in Workers, Publish(w) \/ StopWorker(w)
  PROVE  TypeOK'
<1> USE ColumnValues
<1>0. /\ run \in [Workers -> Run] /\ task \in [TaskIds -> Task]
      /\ cand \in [Candidates -> Candidate]
      /\ served \in [Candidates -> {0} \cup Payload]
      /\ faults \in 0..MaxFaults
      /\ Idle \in Run
  BY NothingDone DEF TypeOK, Idle, Run
<1>1. ASSUME NEW k \in TaskIds, ReadBatch(w, k) PROVE TypeOK'
  BY <1>0, <1>1, ReadRun, WorkerStep DEF ReadBatch
<1>2. ASSUME NEW c \in Candidates, CreateRevision(w, c) PROVE TypeOK'
  <2>1. PICK x \in Revision(w, c) :
          /\ cand' = [cand EXCEPT ![c].revision = x]
          /\ run' = [run EXCEPT ![w] =
                       [Handled(w, c) EXCEPT !.made = With(@, c, x)]]
    BY <1>2 DEF CreateRevision
  <2>2. x \in Payload
    BY <1>2, RevisionPayload DEF CreateRevision
  <2>3. [Handled(w, c) EXCEPT !.made = With(@, c, x)] \in Run
    BY <2>2, MadeRun
  <2>4. run' \in [Workers -> Run]
    BY <1>0, <2>1, <2>3
  <2>5. /\ cand' \in [Candidates -> Candidate]
        /\ \A d \in Candidates :
             /\ cand'[d].verifier = cand[d].verifier
             /\ cand'[d].auditor = cand[d].auditor
             /\ cand'[d].reviewer = cand[d].reviewer
             /\ cand'[d].publisher = cand[d].publisher
    BY <1>0, <2>1, <2>2 DEF Candidate
  <2> QED BY <1>0, <1>2, <2>4, <2>5, WorkerStep DEF CreateRevision
<1>3. ASSUME NEW c \in Candidates, SkipCandidate(w, c) PROVE TypeOK'
  <2>1. run' \in [Workers -> Run]
    BY <1>0, <1>3, HandledRun DEF SkipCandidate
  <2> QED BY <1>0, <1>3, <2>1, WorkerStep DEF SkipCandidate
<1>4. ASSUME NEW c \in Candidates, PreflightRejects(w, c) PROVE TypeOK'
  <2>1. run[w].todo[c].reviewed \in BOOLEAN
    BY <1>4, RunMemory DEF PreflightRejects
  <2>2. run' \in [Workers -> Run]
    BY <1>0, <1>4, <2>1, HeldRun DEF PreflightRejects
  <2> QED BY <1>0, <1>4, <2>2, WorkerStep DEF PreflightRejects
<1>5. CASE PublishBatch(w)
  <2>1. /\ DOMAIN run[w].made \subseteq Candidates
        /\ \A c \in DOMAIN run[w].made : run[w].made[c] \in Payload
    BY RunMemory
  <2>2. \A c \in Candidates :
          /\ cand'[c] \in Candidate
          /\ cand'[c].verifier = cand[c].verifier
          /\ cand'[c].auditor = cand[c].auditor
          /\ cand'[c].reviewer \in {cand[c].reviewer, NoTask}
          /\ cand'[c].publisher \in {cand[c].publisher, NoTask}
    <3> SUFFICES ASSUME NEW c \in Candidates
                 PROVE  /\ cand'[c] \in Candidate
                        /\ cand'[c].verifier = cand[c].verifier
                        /\ cand'[c].auditor = cand[c].auditor
                        /\ cand'[c].reviewer \in {cand[c].reviewer, NoTask}
                        /\ cand'[c].publisher \in {cand[c].publisher, NoTask}
      OBVIOUS
    <3>1. CASE cand'[c] = cand[c]
      BY <1>0, <3>1
    <3>2. CASE \/ cand'[c] = [cand[c] EXCEPT !.status = "deep_review",
                                !.publisher = NoTask, !.reviewer = NoTask]
               \/ cand'[c] = [cand[c] EXCEPT !.status = "rejected",
                                !.audit = "excluded",
                                !.publisher = NoTask, !.reviewer = NoTask]
      BY <1>0, <3>2 DEF Candidate
    <3>3. ASSUME NEW x \in Payload,
                 cand'[c] = [cand[c] EXCEPT !.status = "published",
                                !.revision = x, !.publisher = NoTask]
          PROVE  /\ cand'[c] \in Candidate
                 /\ cand'[c].verifier = cand[c].verifier
                 /\ cand'[c].auditor = cand[c].auditor
                 /\ cand'[c].reviewer = cand[c].reviewer
                 /\ cand'[c].publisher = NoTask
      BY <1>0, <3>3, ZenonT(40) DEF Candidate
    <3>4. CASE /\ c \in DOMAIN run[w].made
               /\ cand'[c] = [cand[c] EXCEPT !.status = "published",
                                 !.revision = run[w].made[c],
                                 !.publisher = NoTask]
      <4>1. run[w].made[c] \in Payload
        BY <2>1, <3>4
      <4> QED BY <3>3, <3>4, <4>1
    <3>5. \/ cand'[c] = cand[c]
          \/ cand'[c] = [cand[c] EXCEPT !.status = "deep_review",
                                !.publisher = NoTask, !.reviewer = NoTask]
          \/ cand'[c] = [cand[c] EXCEPT !.status = "rejected",
                                !.audit = "excluded",
                                !.publisher = NoTask, !.reviewer = NoTask]
          \/ /\ c \in DOMAIN run[w].made
             /\ cand'[c] = [cand[c] EXCEPT !.status = "published",
                               !.revision = run[w].made[c],
                               !.publisher = NoTask]
      BY <1>5, PublishBatchRows, ZenonT(40)
    <3> QED BY <3>1, <3>2, <3>4, <3>5
  <2>3. cand' \in [Candidates -> Candidate]
    BY <1>5, <2>2 DEF PublishBatch
  <2>4. served' \in [Candidates -> {0} \cup Payload]
    BY <1>0, <1>5, <2>1 DEF PublishBatch
  <2>5. run' \in [Workers -> Run]
    BY <1>0, <1>5 DEF PublishBatch, Run
  <2>6. task' \in [TaskIds -> Task] /\ faults' \in 0..MaxFaults
        /\ \A j \in TaskIds : task'[j].kind = task[j].kind
    BY <1>0, <1>5 DEF PublishBatch
  <2> QED BY <2>2, <2>3, <2>4, <2>5, <2>6, WorkerStep
<1>6. CASE CompletePublication(w)
  <2>1. /\ task' \in [TaskIds -> Task]
        /\ \A j \in TaskIds : task'[j].kind = task[j].kind
    <3>1. run[w].task \in {NoTask} \cup TaskIds
      BY <1>0 DEF Run
    <3> QED BY <1>0, <1>6, <3>1, ClosedTypes DEF CompletePublication, Live
  <2>2. run' \in [Workers -> Run]
    BY <1>0, <1>6 DEF CompletePublication
  <2> QED BY <1>0, <1>6, <2>1, <2>2, WorkerStep DEF CompletePublication
<1>7. CASE StopWorker(w)
  <2>1. run' \in [Workers -> Run]
    BY <1>0, <1>7 DEF StopWorker
  <2>2. faults' \in 0..MaxFaults
    BY <1>0, <1>7, BoundsAssumption DEF StopWorker, Fault
  <2> QED BY <1>0, <1>7, <2>1, <2>2, WorkerStep DEF StopWorker
<1> QED BY <1>1, <1>2, <1>3, <1>4, <1>5, <1>6, <1>7 DEF Publish

LEMMA NextTypes == TypeOK /\ [Next]_vars => TypeOK'
<1> SUFFICES ASSUME TypeOK, [Next]_vars PROVE TypeOK'
  OBVIOUS
<1>1. CASE UNCHANGED vars
  BY <1>1 DEF vars, TypeOK
<1>2. ASSUME NEW k \in TaskIds, Verify(k) \/ AuditStep(k) \/ Review(k)
      PROVE  TypeOK'
  BY <1>2, SchedulingTypes, VerificationTypes, EndTypes
     DEF Verify, AuditStep, Review
<1>3. CASE QueuePublication
  BY <1>3, SchedulingTypes DEF QueuePublication
<1> QED BY <1>1, <1>2, <1>3, CandidateTypes, PublishTypes, EndTypes,
           ReplacementTypes DEF Next

\* Whatever agents answer, workers interleave and administrators replace, rows
\* and workers have their types, and a candidate's reservation is of a task of
\* the column's kind (pipeline.ts, publishCandidateBatch).
THEOREM TypeCorrect == Spec => []TypeOK
<1> QED BY InitTypes, NextTypes, PTL DEF Spec

-----------------------------------------------------------------------------
(* Revisions, and what is served.                                           *)

\* Refused after it was verified, and for good: no audit answers for it.
Refuted(r) == r.audit \in {"repair", "excluded"} /\ r.auditor = NoTask

RowInv(r) ==
    /\ r.audit = "repair" => r.auditor = NoTask
    /\ r.status = "published" => r.revision # 0
    /\ ~Refuted(r) =>
         /\ r.revision # 0 =>
               r.revision = r.payload /\ r.status \in {"verified", "published"}
         /\ r.reviewer # NoTask => r.status = "deep_review"
         /\ r.publisher # NoTask => r.status = "verified"

\* A worker that holds a reservation remembers what the row says.
WorkInv(w, c) ==
    /\ c \in DOMAIN run[w].todo => run[w].task # NoTask
    /\ c \in DOMAIN run[w].made => run[w].made[c] = cand[c].revision
    /\ /\ cand[c].publisher # NoTask
       /\ run[w].task = cand[c].publisher
       /\ ~Refuted(cand[c])
       => /\ c \in DOMAIN run[w].todo =>
                run[w].todo[c].payload = cand[c].payload
          /\ c \in DOMAIN run[w].held =>
                cand[c].payload \in Refused /\ cand[c].revision = 0

CandInv(c) ==
    /\ RowInv(cand[c])
    /\ served[c] \in {0, cand[c].revision}
    /\ \A w \in Workers : WorkInv(w, c)

VersionInv == \A c \in Candidates : CandInv(c)

\* What every step but the making of a revision does to a row.
Carries(r, s) ==
    /\ RowInv(s)
    /\ Refuted(r) => Refuted(s)
    /\ s.revision = r.revision
    /\ \/ s.publisher = NoTask
       \/ Refuted(s)
       \/ s.publisher = r.publisher /\ s.payload = r.payload

LEMMA Untouched == ASSUME NEW r, RowInv(r) PROVE Carries(r, r)
BY DEF Carries

LEMMA InitVersions == Init => VersionInv
<1> SUFFICES ASSUME Init, NEW c \in Candidates PROVE CandInv(c)
  BY DEF VersionInv
<1>1. cand[c] = NewCandidate /\ served[c] = 0
  BY DEF Init
<1>2. \A w \in Workers : run[w].made = << >> /\ run[w].todo = << >>
  BY DEF Init, Idle
<1>3. DOMAIN << >> = {}
  <2>1. << >> = [d \in {} |-> 0]
    OBVIOUS
  <2> QED BY <2>1
<1>4. \A w \in Workers : WorkInv(w, c)
  BY <1>1, <1>2, <1>3 DEF WorkInv, NewCandidate
<1> QED BY <1>1, <1>4 DEF CandInv, RowInv, NewCandidate, Refuted

\* A step that leaves a worker alone leaves what it remembers true.
LEMMA Remembered ==
  ASSUME TypeOK, NEW c \in Candidates, NEW w \in Workers, WorkInv(w, c),
         Carries(cand[c], cand'[c]), run'[w] = run[w]
  PROVE  WorkInv(w, c)'
<1>1. /\ cand'[c].revision = cand[c].revision
      /\ \/ cand'[c].publisher = NoTask
         \/ Refuted(cand'[c])
         \/ /\ cand'[c].publisher = cand[c].publisher
            /\ cand'[c].payload = cand[c].payload
            /\ ~Refuted(cand[c])
  BY DEF Carries
<1> HIDE DEF Refuted
<1> QED BY <1>1 DEF WorkInv

\* What a step does for the invariant, and for the one revision.
StepKeeps(c) ==
    /\ CandInv(c)'
    /\ cand[c].revision # 0 => cand'[c].revision = cand[c].revision

\* A step of the agents', the scheduler's or an administrator's.
LEMMA CarriedCandidate ==
  ASSUME TypeOK, NEW c \in Candidates, CandInv(c), UNCHANGED run,
         Carries(cand[c], cand'[c]), served'[c] \in {0, served[c]}
  PROVE  StepKeeps(c)
<1>1. ASSUME NEW w \in Workers PROVE WorkInv(w, c)'
  BY Remembered DEF CandInv
<1>2. served'[c] \in {0, cand'[c].revision}
  BY DEF CandInv, Carries
<1>3. RowInv(cand'[c])
  BY DEF Carries
<1>4. cand'[c].revision = cand[c].revision
  BY DEF Carries
<1> QED BY <1>1, <1>2, <1>3, <1>4 DEF CandInv, StepKeeps

\* Verification and the audit.
LEMMA VerifyVersions ==
  ASSUME TypeOK, VersionInv, NEW k \in TaskIds, Verify(k) \/ AuditStep(k)
  PROVE  \A c \in Candidates : StepKeeps(c)
<1> SUFFICES ASSUME NEW c \in Candidates PROVE StepKeeps(c)
  OBVIOUS
<1>0. /\ cand[c] \in Candidate /\ RowInv(cand[c]) /\ CandInv(c)
      /\ Carries(cand[c], cand[c])
  BY Untouched DEF TypeOK, VersionInv, CandInv
<1>1. ASSUME NEW S \in SUBSET Candidates, QueueVerification(k, S)
      PROVE  StepKeeps(c)
  <2>1. Carries(cand[c], cand'[c])
    BY <1>0, <1>1 DEF QueueVerification, Carries, RowInv, Refuted, Candidate
  <2> QED BY <1>0, <1>1, <2>1, CarriedCandidate DEF QueueVerification
<1>2. ASSUME NEW decision \in Decisions(k, Verdicts),
             NEW retry \in [task[k].cands \ DOMAIN decision -> TaskIds],
             SubmitCandidateVerification(k, decision, retry)
      PROVE  StepKeeps(c)
  <2>1. CASE c \in DOMAIN decision
    <3>1. PICK v \in Verdicts :
            cand'[c] = [cand[c] EXCEPT !.status = v, !.verifier = NoTask]
      <4>1. decision[c] \in Verdicts
        BY <2>1 DEF Decisions
      <4> QED BY <1>2, <2>1, <4>1 DEF SubmitCandidateVerification
    <3>2. cand[c].status = "analyzed"
      BY <1>2, <2>1 DEF SubmitCandidateVerification
    <3>3. Carries(cand[c], cand'[c])
      BY <1>0, <3>1, <3>2
         DEF Carries, RowInv, Refuted, Candidate, Verdicts
    <3> QED BY <1>0, <1>2, <3>3, CarriedCandidate
            DEF SubmitCandidateVerification
  <2>2. CASE c \notin DOMAIN decision
    <3>1. \/ cand'[c] = cand[c]
          \/ \E n : cand'[c] = [cand[c] EXCEPT !.verifier = n]
      BY <1>2, <2>2 DEF SubmitCandidateVerification
    <3>2. Carries(cand[c], cand'[c])
      BY <1>0, <3>1 DEF Carries, RowInv, Refuted, Candidate
    <3> QED BY <1>0, <1>2, <3>2, CarriedCandidate
            DEF SubmitCandidateVerification
  <2> QED BY <2>1, <2>2
<1>3. ASSUME NEW S \in SUBSET Candidates, NEW out \in SUBSET Candidates,
             QueueFidelityAudit(k, S, out)
      PROVE  StepKeeps(c)
  <2>1. Carries(cand[c], cand'[c])
    BY <1>0, <1>3, ColumnValues
       DEF QueueFidelityAudit, Auditable, Carries, RowInv, Refuted, Candidate
  <2> QED BY <1>0, <1>3, <2>1, CarriedCandidate DEF QueueFidelityAudit
<1>4. ASSUME NEW finding \in Decisions(k, Findings),
             SubmitFidelityAudit(k, finding)
      PROVE  StepKeeps(c)
  <2>1. k # NoTask
    BY ColumnValues
  <2>2. \/ cand'[c] = cand[c]
        \/ /\ cand[c].audit = "checking"
           /\ \/ cand'[c] = [cand[c] EXCEPT !.audit = "passed",
                                            !.auditor = NoTask]
              \/ cand'[c] = [cand[c] EXCEPT !.audit = "repair",
                                            !.auditor = NoTask,
                                            !.status = "deep_review"]
        \/ /\ cand[c].auditor = k
           /\ cand'[c] = [cand[c] EXCEPT !.audit = "pending",
                                         !.auditor = NoTask]
    BY <1>4 DEF SubmitFidelityAudit
  <2>3. Carries(cand[c], cand'[c])
    BY <1>0, <2>1, <2>2 DEF Carries, RowInv, Refuted, Candidate
  <2>4. served'[c] \in {0, served[c]}
    BY <1>4 DEF SubmitFidelityAudit
  <2> QED BY <1>0, <1>4, <2>3, <2>4, CarriedCandidate DEF SubmitFidelityAudit
<1> QED BY <1>1, <1>2, <1>3, <1>4 DEF Verify, AuditStep

\* Review, failure, recovery and administrators.
LEMMA ReviewVersions ==
  ASSUME TypeOK, VersionInv,
         \/ \E k \in TaskIds : Review(k)
         \/ \E c \in Candidates, payload \in Payload :
              \E status \in {"verified", "analyzed"} :
                 SubmitCandidateAnalysis(c, status, payload)
         \/ \E S \in SUBSET Candidates :
              SampleOut(S) \/ ReuseRejectedEvidence(S)
         \/ \E k \in TaskIds, reported \in BOOLEAN : FailTask(k, reported)
         \/ \E S \in SUBSET TaskIds, retry \in BOOLEAN : ReplaceStage(S, retry)
         \/ ReleaseStaleReservations
  PROVE  \A c \in Candidates : StepKeeps(c)
<1> SUFFICES ASSUME NEW c \in Candidates PROVE StepKeeps(c)
  OBVIOUS
<1>0. /\ cand[c] \in Candidate /\ RowInv(cand[c]) /\ CandInv(c)
      /\ Carries(cand[c], cand[c])
  BY Untouched DEF TypeOK, VersionInv, CandInv
<1>1. ASSUME NEW k \in TaskIds, NEW S \in SUBSET Candidates,
             QueueDeepReview(k, S)
      PROVE  StepKeeps(c)
  <2>1. \/ cand'[c] = cand[c]
        \/ /\ cand[c].status = "deep_review"
           /\ cand'[c] = [cand[c] EXCEPT !.reviewer = k]
    BY <1>1 DEF QueueDeepReview
  <2>2. Carries(cand[c], cand'[c])
    BY <1>0, <2>1 DEF Carries, RowInv, Refuted, Candidate
  <2> QED BY <1>0, <1>1, <2>2, CarriedCandidate DEF QueueDeepReview
<1>2. ASSUME NEW k \in TaskIds, NEW decision \in Decisions(k, Resolutions),
             NEW repair \in Decisions(k, Payload),
             SubmitCandidateDeepReview(k, decision, repair)
      PROVE  StepKeeps(c)
  <2>1. k # NoTask
    BY ColumnValues
  <2>2. CASE c \in DOMAIN decision
    <3>1. PICK s \in {"verified", "rejected", "conflict", "deep_review"},
               p \in Payload :
            cand'[c] = [cand[c] EXCEPT !.status = s, !.payload = p,
                                       !.reviewed = TRUE, !.reviewer = NoTask]
      <4>1. Disposition(c, decision[c])
              \in {"verified", "rejected", "conflict", "deep_review"}
        BY <2>2, DispositionStatus DEF Decisions
      <4>2. /\ cand[c].payload \in Payload
            /\ \A d \in DOMAIN repair : repair[d] \in Payload
        BY <1>0 DEF Candidate, Decisions
      <4> QED BY <1>2, <2>2, <4>1, <4>2 DEF SubmitCandidateDeepReview
    <3>2. cand[c].status = "deep_review"
      BY <1>2, <2>2 DEF SubmitCandidateDeepReview
    <3>3. Carries(cand[c], cand'[c])
      BY <1>0, <3>1, <3>2 DEF Carries, RowInv, Refuted, Candidate
    <3> QED BY <1>0, <1>2, <3>3, CarriedCandidate
            DEF SubmitCandidateDeepReview
  <2>3. CASE c \notin DOMAIN decision
    <3>1. \/ cand'[c] = cand[c]
          \/ /\ cand[c].reviewer = k
             /\ cand'[c] = [cand[c] EXCEPT !.status = "deep_review",
                                           !.reviewer = NoTask]
      BY <1>2, <2>3 DEF SubmitCandidateDeepReview, Omitted
    <3>2. Carries(cand[c], cand'[c])
      BY <1>0, <2>1, <3>1 DEF Carries, RowInv, Refuted, Candidate
    <3> QED BY <1>0, <1>2, <3>2, CarriedCandidate
            DEF SubmitCandidateDeepReview
  <2> QED BY <2>2, <2>3
<1>3. ASSUME NEW d \in Candidates, NEW payload \in Payload,
             NEW status \in {"verified", "analyzed"},
             SubmitCandidateAnalysis(d, status, payload)
      PROVE  StepKeeps(c)
  <2>1. \/ cand'[c] = cand[c]
        \/ /\ cand[c].status = "absent"
           /\ cand'[c] = [cand[c] EXCEPT !.status = status,
                                         !.payload = payload]
    BY <1>3 DEF SubmitCandidateAnalysis, TypeOK
  <2>2. ASSUME cand'[c] # cand[c] PROVE Carries(cand[c], cand'[c])
    <3>1. /\ cand'[c].audit = cand[c].audit
          /\ cand'[c].auditor = cand[c].auditor
          /\ cand'[c].revision = cand[c].revision
          /\ cand'[c].reviewer = cand[c].reviewer
          /\ cand'[c].publisher = cand[c].publisher
          /\ cand'[c].status \in {"verified", "analyzed"}
      BY <1>0, <2>1, <2>2 DEF Candidate
    <3> QED BY <1>0, <2>1, <2>2, <3>1 DEF Carries, RowInv, Refuted
  <2>3. Carries(cand[c], cand'[c])
    BY <1>0, <2>2
  <2> QED BY <1>0, <1>3, <2>3, CarriedCandidate DEF SubmitCandidateAnalysis
<1>4. ASSUME NEW S \in SUBSET Candidates, SampleOut(S)
      PROVE  StepKeeps(c)
  <2>1. Carries(cand[c], cand'[c])
    BY <1>0, <1>4
       DEF SampleOut, Auditable, Carries, RowInv, Refuted, Candidate
  <2> QED BY <1>0, <1>4, <2>1, CarriedCandidate DEF SampleOut
<1>5. ASSUME NEW S \in SUBSET Candidates, ReuseRejectedEvidence(S)
      PROVE  StepKeeps(c)
  <2>1. \/ cand'[c] = cand[c]
        \/ /\ cand[c].status = "rejected"
           /\ cand'[c] = [cand[c] EXCEPT
                            !.status = "deep_review", !.reviewed = FALSE,
                            !.verifier = NoTask, !.reviewer = NoTask,
                            !.publisher = NoTask]
    BY <1>5 DEF ReuseRejectedEvidence
  <2>2. ASSUME cand'[c] # cand[c] PROVE Carries(cand[c], cand'[c])
    <3>1. /\ cand'[c].audit = cand[c].audit
          /\ cand'[c].auditor = cand[c].auditor
          /\ cand'[c].revision = cand[c].revision
          /\ cand'[c].status = "deep_review"
          /\ cand'[c].reviewer = NoTask /\ cand'[c].publisher = NoTask
      BY <1>0, <2>1, <2>2 DEF Candidate
    <3> QED BY <1>0, <2>1, <2>2, <3>1 DEF Carries, RowInv, Refuted
  <2>3. Carries(cand[c], cand'[c])
    BY <1>0, <2>2
  <2> QED BY <1>0, <1>5, <2>3, CarriedCandidate DEF ReuseRejectedEvidence
<1>6. ASSUME NEW k \in TaskIds, NEW reported \in BOOLEAN,
             FailTask(k, reported)
      PROVE  StepKeeps(c)
  <2>1. k # NoTask
    BY ColumnValues
  <2>2. \/ cand'[c] = cand[c]
        \/ /\ cand[c].status = "analyzed"
           /\ cand'[c] = [cand[c] EXCEPT !.status = "deep_review",
                                         !.verifier = NoTask]
        \/ /\ cand[c].reviewer = k
           /\ cand'[c] = [cand[c] EXCEPT !.status = "deep_review",
                                         !.reviewer = NoTask]
        \/ cand'[c] = [cand[c] EXCEPT !.publisher = NoTask]
    BY <1>6 DEF FailTask
  <2>3. Carries(cand[c], cand'[c])
    BY <1>0, <2>1, <2>2 DEF Carries, RowInv, Refuted, Candidate
  <2> QED BY <1>0, <1>6, <2>3, CarriedCandidate DEF FailTask
<1>7. ASSUME NEW S \in SUBSET TaskIds, NEW retry \in BOOLEAN,
             ReplaceStage(S, retry)
      PROVE  StepKeeps(c)
  <2>1. Carries(cand[c], cand'[c])
    BY <1>0, <1>7 DEF ReplaceStage, Carries, RowInv, Refuted, Candidate
  <2> QED BY <1>0, <1>7, <2>1, CarriedCandidate DEF ReplaceStage
<1>8. CASE ReleaseStaleReservations
  <2>1. Carries(cand[c], cand'[c])
    BY <1>0, <1>8
       DEF ReleaseStaleReservations, Carries, RowInv, Refuted, Candidate
  <2> QED BY <1>0, <1>8, <2>1, CarriedCandidate DEF ReleaseStaleReservations
<1> QED BY <1>1, <1>2, <1>3, <1>4, <1>5, <1>6, <1>7, <1>8 DEF Review
\* A worker's step keeps the memory of the others, and its own if its row
\* agrees with it.
LEMMA WorkerCandidate ==
  ASSUME TypeOK, NEW c \in Candidates, CandInv(c), NEW w \in Workers,
         \A v \in Workers \ {w} : run'[v] = run[v],
         Carries(cand[c], cand'[c]),
         served'[c] \in {0, served[c], cand[c].revision},
         WorkInv(w, c)'
  PROVE  StepKeeps(c)
<1>1. ASSUME NEW v \in Workers PROVE WorkInv(v, c)'
  <2>1. CASE v = w
    BY <2>1
  <2>2. CASE v # w
    BY <2>2, Remembered DEF CandInv
  <2> QED BY <2>1, <2>2
<1>2. served'[c] \in {0, cand'[c].revision}
  BY DEF CandInv, Carries
<1>3. RowInv(cand'[c]) /\ cand'[c].revision = cand[c].revision
  BY DEF Carries
<1> QED BY <1>1, <1>2, <1>3 DEF CandInv, StepKeeps

\* A revision is made of the payload that was read, which is still the row's
\* if no audit has refused it.
LEMMA CreateRevisionVersions ==
  ASSUME TypeOK, VersionInv, NEW w \in Workers, NEW d \in Candidates,
         CreateRevision(w, d), NEW c \in Candidates
  PROVE  StepKeeps(c)
<1>0. /\ cand[c] \in Candidate /\ RowInv(cand[c]) /\ CandInv(c)
      /\ Carries(cand[c], cand[c])
      /\ \A v \in Workers : WorkInv(v, c)
  BY Untouched DEF TypeOK, VersionInv, CandInv
<1>1. PICK x \in Revision(w, d) :
        /\ cand' = [cand EXCEPT ![d].revision = x]
        /\ run' = [run EXCEPT ![w] =
                     [Handled(w, d) EXCEPT !.made = With(@, d, x)]]
  BY DEF CreateRevision
<1>2. d \in DOMAIN run[w].todo /\ x \in Payload /\ x # 0
  BY RevisionPayload, ColumnValues DEF CreateRevision
<1>3. /\ run'[w].task = run[w].task /\ run'[w].held = run[w].held
      /\ DOMAIN run'[w].todo = DOMAIN run[w].todo \ {d}
      /\ \A e \in DOMAIN run[w].todo \ {d} :
            run'[w].todo[e] = run[w].todo[e]
      /\ DOMAIN run'[w].made = DOMAIN run[w].made \cup {d}
      /\ \A e \in DOMAIN run[w].made \cup {d} :
            run'[w].made[e] = IF e = d THEN x ELSE run[w].made[e]
  <2> DEFINE r == [Handled(w, d) EXCEPT !.made = With(@, d, x)]
  <2>3. /\ r.task = run[w].task /\ r.held = run[w].held
        /\ r.todo = Handled(w, d).todo
        /\ DOMAIN r.made = DOMAIN run[w].made \cup {d}
        /\ \A e \in DOMAIN run[w].made \cup {d} :
              r.made[e] = IF e = d THEN x ELSE run[w].made[e]
    BY <1>2, MadeRun, ZenonT(40)
  <2>4. run' = [run EXCEPT ![w] = r]
    BY <1>1
  <2> HIDE DEF r
  <2>1. run'[w] = r
    BY <2>4 DEF TypeOK
  <2>2. /\ run'[w].task = run[w].task /\ run'[w].held = run[w].held
        /\ run'[w].todo = Handled(w, d).todo
        /\ DOMAIN run'[w].made = DOMAIN run[w].made \cup {d}
        /\ \A e \in DOMAIN run[w].made \cup {d} :
              run'[w].made[e] = IF e = d THEN x ELSE run[w].made[e]
    BY <2>1, <2>3
  <2> QED BY <2>2, HandledRun
<1>4. \A v \in Workers \ {w} : run'[v] = run[v]
  BY <1>1 DEF TypeOK
<1>5. served' = served
  BY DEF CreateRevision
<1>6. CASE c # d
  <2>1. cand'[c] = cand[c]
    BY <1>1, <1>6 DEF TypeOK
  <2>2. WorkInv(w, c)'
    BY <1>0, <1>3, <1>6, <2>1 DEF WorkInv
  <2> QED BY <1>0, <1>4, <1>5, <2>1, <2>2, WorkerCandidate
<1>7. CASE c = d /\ cand[c].revision # 0
  <2>1. x = cand[c].revision
    BY <1>7 DEF Revision
  <2>2. cand'[c] = cand[c]
    BY <1>0, <1>1, <1>7, <2>1 DEF TypeOK, Candidate
  <2>3. WorkInv(w, c)'
    BY <1>0, <1>3, <1>7, <2>1, <2>2 DEF WorkInv
  <2> QED BY <1>0, <1>4, <1>5, <2>2, <2>3, WorkerCandidate
<1>8. CASE c = d /\ cand[c].revision = 0
  <2>1. /\ cand[c].status = "verified"
        /\ cand[c].publisher = run[w].task
        /\ x = run[w].todo[c].payload /\ x \notin Refused
    BY <1>8 DEF Revision, Reserved
  <2>2. run[w].task # NoTask
    BY <1>0, <1>2, <1>8 DEF WorkInv
  <2>3. cand'[c] = [cand[c] EXCEPT !.revision = x]
    BY <1>1, <1>8 DEF TypeOK
  <2>4. /\ cand'[c].revision = x /\ cand'[c].status = cand[c].status
        /\ cand'[c].audit = cand[c].audit
        /\ cand'[c].auditor = cand[c].auditor
        /\ cand'[c].reviewer = cand[c].reviewer
        /\ cand'[c].publisher = cand[c].publisher
        /\ cand'[c].payload = cand[c].payload
    BY <1>0, <2>3 DEF Candidate
  <2>5. Refuted(cand'[c]) <=> Refuted(cand[c])
    BY <2>4 DEF Refuted
  <2>6. ~Refuted(cand[c]) => x = cand[c].payload
    BY <1>0, <1>2, <1>8, <2>1, <2>2 DEF WorkInv
  <2>7. RowInv(cand'[c])
    BY <1>0, <1>2, <2>1, <2>4, <2>5, <2>6 DEF RowInv
  <2>10. ASSUME NEW v \in Workers PROVE c \notin DOMAIN run[v].made
    <3>1. c \in DOMAIN run[v].made => run[v].made[c] \in Payload
      BY RunMemory
    <3>2. c \in DOMAIN run[v].made => run[v].made[c] = 0
      BY <1>0, <1>8 DEF WorkInv
    <3> QED BY <3>1, <3>2, ColumnValues
  <2>11. ASSUME NEW v \in Workers, cand[c].publisher # NoTask,
                run[v].task = cand[c].publisher, ~Refuted(cand[c])
         PROVE  c \notin DOMAIN run[v].held
    BY <1>0, <2>1, <2>6, <2>11 DEF WorkInv
  <2> HIDE DEF Refuted
  <2>8. ASSUME NEW v \in Workers PROVE WorkInv(v, c)'
    <3>1. CASE v = w
      BY <1>0, <1>3, <1>8, <2>2, <2>4, <2>5, <2>11, <3>1 DEF WorkInv
    <3>2. CASE v # w
      <4>1. run'[v] = run[v]
        BY <1>4, <3>2
      <4> QED BY <1>0, <2>4, <2>5, <2>10, <2>11, <4>1 DEF WorkInv
    <3> QED BY <3>1, <3>2
  <2>9. served'[c] = 0
    BY <1>0, <1>5, <1>8 DEF CandInv
  <2> QED BY <1>8, <2>7, <2>8, <2>9 DEF CandInv, StepKeeps
<1> QED BY <1>6, <1>7, <1>8

\* The last transaction publishes the revision that is recorded, and sends to
\* review only what has none.
LEMMA PublishBatchVersions ==
  ASSUME TypeOK, VersionInv, NEW w \in Workers, PublishBatch(w),
         NEW c \in Candidates
  PROVE  StepKeeps(c)
<1>0. /\ cand[c] \in Candidate /\ RowInv(cand[c]) /\ CandInv(c)
      /\ Carries(cand[c], cand[c])
      /\ WorkInv(w, c)
  BY Untouched DEF TypeOK, VersionInv, CandInv
<1>1. run[w].task # NoTask
  BY DEF PublishBatch
<1>2. c \in DOMAIN run[w].made =>
        run[w].made[c] = cand[c].revision /\ cand[c].revision # 0
  <2>1. c \in DOMAIN run[w].made => run[w].made[c] \in Payload
    BY RunMemory
  <2> QED BY <1>0, <2>1, ColumnValues DEF WorkInv
<1>3. /\ c \in DOMAIN run[w].held
      /\ cand[c].publisher = run[w].task
      /\ ~Refuted(cand[c])
      => cand[c].revision = 0
  BY <1>0, <1>1 DEF WorkInv
<1>4. Carries(cand[c], cand'[c])
  <2>1. CASE cand'[c] = cand[c]
    BY <1>0, <2>1
  <2>2. CASE /\ c \in DOMAIN run[w].held /\ cand[c].publisher = run[w].task
             /\ cand'[c] = [cand[c] EXCEPT !.status = "deep_review",
                              !.publisher = NoTask, !.reviewer = NoTask]
    <3>1. /\ cand'[c].audit = cand[c].audit
          /\ cand'[c].auditor = cand[c].auditor
          /\ cand'[c].revision = cand[c].revision
          /\ cand'[c].status = "deep_review"
          /\ cand'[c].reviewer = NoTask /\ cand'[c].publisher = NoTask
      BY <1>0, <2>2 DEF Candidate
    <3> QED BY <1>0, <1>3, <2>2, <3>1 DEF Carries, RowInv, Refuted
  <2>3. CASE /\ c \in DOMAIN run[w].held /\ cand[c].publisher = run[w].task
             /\ cand'[c] = [cand[c] EXCEPT !.status = "rejected",
                              !.audit = "excluded",
                              !.publisher = NoTask, !.reviewer = NoTask]
    <3>1. /\ cand'[c].audit = "excluded"
          /\ cand'[c].auditor = cand[c].auditor
          /\ cand'[c].revision = cand[c].revision
          /\ cand'[c].status = "rejected"
          /\ cand'[c].reviewer = NoTask /\ cand'[c].publisher = NoTask
      BY <1>0, <2>3 DEF Candidate
    <3> QED BY <1>0, <1>3, <2>3, <3>1 DEF Carries, RowInv, Refuted
  <2>4. CASE /\ c \in DOMAIN run[w].made /\ cand[c].publisher = run[w].task
             /\ cand'[c] = [cand[c] EXCEPT !.status = "published",
                               !.revision = run[w].made[c],
                               !.publisher = NoTask]
    <3>1. /\ cand'[c].audit = cand[c].audit
          /\ cand'[c].auditor = cand[c].auditor
          /\ cand'[c].revision = cand[c].revision
          /\ cand'[c].payload = cand[c].payload
          /\ cand'[c].status = "published"
          /\ cand'[c].reviewer = cand[c].reviewer
          /\ cand'[c].publisher = NoTask
      BY <1>0, <1>2, <2>4 DEF Candidate
    <3> QED BY <1>0, <1>1, <1>2, <2>4, <3>1 DEF Carries, RowInv, Refuted
  <2> QED BY <2>1, <2>2, <2>3, <2>4, PublishBatchRows, ZenonT(40)
<1>5. served'[c] \in {0, served[c], cand[c].revision}
  BY <1>2 DEF PublishBatch
<1>6. /\ run'[w].task = run[w].task /\ run'[w].todo = run[w].todo
      /\ run'[w].made = run[w].made /\ run'[w].held = run[w].held
      /\ \A v \in Workers \ {w} : run'[v] = run[v]
  BY ZenonT(40) DEF PublishBatch, TypeOK, Run
<1>7. WorkInv(w, c)'
  <2>1. /\ cand'[c].revision = cand[c].revision
        /\ \/ cand'[c].publisher = NoTask
           \/ Refuted(cand'[c])
           \/ /\ cand'[c].publisher = cand[c].publisher
              /\ cand'[c].payload = cand[c].payload
              /\ ~Refuted(cand[c])
    BY <1>4 DEF Carries
  <2> HIDE DEF Refuted
  <2> QED BY <1>0, <1>6, <2>1 DEF WorkInv
<1> QED BY <1>0, <1>4, <1>5, <1>6, <1>7, WorkerCandidate

\* What a worker reads is what the row says when it reads it.
LEMMA PublishVersions ==
  ASSUME TypeOK, VersionInv, NEW w \in Workers, Publish(w) \/ StopWorker(w)
  PROVE  \A c \in Candidates : StepKeeps(c)
<1> SUFFICES ASSUME NEW c \in Candidates PROVE StepKeeps(c)
  OBVIOUS
<1>0. /\ CandInv(c) /\ Carries(cand[c], cand[c]) /\ WorkInv(w, c)
      /\ RowInv(cand[c])
      /\ run \in [Workers -> Run]
  BY Untouched DEF TypeOK, VersionInv, CandInv
<1>1. ASSUME UNCHANGED <<cand, served>>,
             \A v \in Workers \ {w} : run'[v] = run[v],
             WorkInv(w, c)'
      PROVE  StepKeeps(c)
  BY <1>0, <1>1, WorkerCandidate
<1>2. ASSUME NEW k \in TaskIds, ReadBatch(w, k) PROVE StepKeeps(c)
  <2>1. /\ \A v \in Workers \ {w} : run'[v] = run[v]
        /\ run'[w].task = k
        /\ DOMAIN run'[w].made = {} /\ DOMAIN run'[w].held = {}
        /\ \A d \in DOMAIN run'[w].todo :
              run'[w].todo[d].payload = cand[d].payload
    BY <1>2, ReadRun
  <2>2. UNCHANGED <<cand, served>>
    BY <1>2 DEF ReadBatch
  <2>3. WorkInv(w, c)'
    BY <2>1, <2>2, ColumnValues DEF WorkInv
  <2> QED BY <1>1, <2>1, <2>2, <2>3
<1>3. ASSUME NEW d \in Candidates, CreateRevision(w, d) PROVE StepKeeps(c)
  BY <1>3, CreateRevisionVersions
<1>4. ASSUME NEW d \in Candidates, SkipCandidate(w, d) PROVE StepKeeps(c)
  <2>1. /\ run'[w] = Handled(w, d)
        /\ \A v \in Workers \ {w} : run'[v] = run[v]
        /\ UNCHANGED <<cand, served>>
    BY <1>0, <1>4 DEF SkipCandidate
  <2>2. WorkInv(w, c)'
    BY <1>0, <2>1, HandledRun DEF WorkInv
  <2> QED BY <1>1, <2>1, <2>2
<1>5. ASSUME NEW d \in Candidates, PreflightRejects(w, d) PROVE StepKeeps(c)
  <2> DEFINE x == run[w].todo[d].reviewed
             r == [Handled(w, d) EXCEPT !.held = With(@, d, x)]
  <2>1. /\ d \in DOMAIN run[w].todo /\ Reserved(d, run[w].task)
        /\ cand[d].revision = 0 /\ run[w].todo[d].payload \in Refused
        /\ x \in BOOLEAN
    BY <1>5, RunMemory DEF PreflightRejects
  <2>2. /\ r.task = run[w].task /\ r.made = run[w].made
        /\ r.todo = Handled(w, d).todo
        /\ DOMAIN r.held = DOMAIN run[w].held \cup {d}
    BY <2>1, HeldRun, ZenonT(40)
  <2>3. run' = [run EXCEPT ![w] = r] /\ UNCHANGED <<cand, served>>
    BY <1>5 DEF PreflightRejects
  <2> HIDE DEF r, x
  <2>4. run'[w] = r /\ \A v \in Workers \ {w} : run'[v] = run[v]
    BY <1>0, <2>3
  <2>5. /\ DOMAIN r.todo = DOMAIN run[w].todo \ {d}
        /\ \A e \in DOMAIN run[w].todo \ {d} : r.todo[e] = run[w].todo[e]
    BY <2>2, HandledRun
  <2>6. WorkInv(w, c)'
    BY <1>0, <2>1, <2>2, <2>3, <2>4, <2>5 DEF WorkInv
  <2> QED BY <1>1, <2>3, <2>4, <2>6
<1>6. CASE PublishBatch(w)
  BY <1>6, PublishBatchVersions
<1>7. CASE CompletePublication(w) \/ StopWorker(w)
  <2>1. /\ run'[w] = Idle
        /\ \A v \in Workers \ {w} : run'[v] = run[v]
        /\ UNCHANGED <<cand, served>>
    BY <1>0, <1>7 DEF CompletePublication, StopWorker
  <2>2. DOMAIN Idle.todo = {} /\ DOMAIN Idle.made = {} /\ DOMAIN Idle.held = {}
    <3>1. << >> = [d \in {} |-> 0]
      OBVIOUS
    <3>2. Idle.todo = << >> /\ Idle.made = << >> /\ Idle.held = << >>
      BY DEF Idle
    <3>3. DOMAIN << >> = {}
      BY <3>1
    <3> QED BY <3>2, <3>3
  <2>3. WorkInv(w, c)'
    BY <2>1, <2>2 DEF WorkInv
  <2> QED BY <1>1, <2>1, <2>3
<1> QED BY <1>2, <1>3, <1>4, <1>5, <1>6, <1>7 DEF Publish

LEMMA NextVersions ==
  ASSUME TypeOK, VersionInv, Next
  PROVE  \A c \in Candidates : StepKeeps(c)
<1>1. ASSUME NEW k \in TaskIds, NEW S \in SUBSET Candidates,
             QueueCandidatePublication(k, S), NEW c \in Candidates
      PROVE  StepKeeps(c)
  <2>0. /\ cand[c] \in Candidate /\ RowInv(cand[c]) /\ CandInv(c)
        /\ Carries(cand[c], cand[c])
    BY Untouched DEF TypeOK, VersionInv, CandInv
  <2>1. CASE cand'[c] = cand[c]
    BY <1>1, <2>0, <2>1, CarriedCandidate DEF QueueCandidatePublication
  <2>2. CASE cand'[c] # cand[c]
    <3>1. /\ cand[c].status = "verified"
          /\ cand'[c] = [cand[c] EXCEPT !.publisher = k]
      BY <1>1, <2>2 DEF QueueCandidatePublication
    <3>2. /\ cand'[c].audit = cand[c].audit
          /\ cand'[c].auditor = cand[c].auditor
          /\ cand'[c].revision = cand[c].revision
          /\ cand'[c].payload = cand[c].payload
          /\ cand'[c].status = "verified"
          /\ cand'[c].reviewer = cand[c].reviewer
          /\ cand'[c].publisher = k
      BY <2>0, <3>1 DEF Candidate
    <3>3. \A w \in Workers : run[w].task # k
      BY <1>1 DEF QueueCandidatePublication, NewTask, Free, Referenced
    <3>4. RowInv(cand'[c])
      BY <2>0, <3>1, <3>2 DEF RowInv, Refuted
    <3>5. /\ UNCHANGED <<served, run>>
          /\ \A w \in Workers : WorkInv(w, c)
      BY <1>1, <2>0 DEF QueueCandidatePublication, CandInv
    <3>6. ASSUME NEW w \in Workers PROVE WorkInv(w, c)'
      BY <3>2, <3>3, <3>5 DEF WorkInv
    <3> QED BY <2>0, <3>2, <3>4, <3>5, <3>6 DEF CandInv, StepKeeps
  <2> QED BY <2>1, <2>2
<1>2. CASE QueuePublication
  BY <1>1, <1>2 DEF QueuePublication
<1> QED BY <1>2, VerifyVersions, ReviewVersions, PublishVersions DEF Next

LEMMA Inductive == TypeOK /\ VersionInv /\ [Next]_vars => VersionInv'
<1> SUFFICES ASSUME TypeOK, VersionInv, [Next]_vars PROVE VersionInv'
  OBVIOUS
<1>1. CASE Next
  BY <1>1, NextVersions DEF StepKeeps, VersionInv
<1>2. CASE UNCHANGED vars
  BY <1>2 DEF vars, VersionInv, CandInv, WorkInv
<1> QED BY <1>1, <1>2

LEMMA Versions == Spec => [](TypeOK /\ VersionInv)
<1>1. Init => TypeOK /\ VersionInv
  BY InitTypes, InitVersions
<1>2. TypeOK /\ VersionInv /\ [Next]_vars => (TypeOK /\ VersionInv)'
  BY NextTypes, Inductive
<1> QED BY <1>1, <1>2, PTL DEF Spec

\* What readers see of a record no audit has refused is what was verified,
\* however many workers publish its batch and whatever is repaired between
\* their statements (publishCandidateBatch, pipeline-worker.ts).
THEOREM VerifiedIsServed == Spec => []ServedAsVerified
<1>1. TypeOK /\ VersionInv => ServedAsVerified
  BY DEF VersionInv, CandInv, RowInv, Refuted, ServedAsVerified
<1> QED BY <1>1, Versions, PTL

\* Whatever is published has a revision, and no reader sees another one
\* (publishCandidateBatch, submitFidelityAudit).
THEOREM RevisionIsServed == Spec => []PublishedHasRevision
<1>1. TypeOK /\ VersionInv => PublishedHasRevision
  BY DEF VersionInv, CandInv, RowInv, PublishedHasRevision
<1> QED BY <1>1, Versions, PTL

\* A revision, once recorded for a candidate, is never replaced, by a late
\* worker, a repair or a second publication (publishCandidateBatch).
THEOREM RevisionIsFinal == Spec => OneRevisionPerCandidate
<1>1. TypeOK /\ VersionInv /\ [Next]_vars =>
        [\A c \in Candidates :
            cand[c].revision # 0 => cand'[c].revision = cand[c].revision]_vars
  BY NextVersions DEF StepKeeps
<1> QED BY <1>1, Versions, PTL DEF Spec, OneRevisionPerCandidate
-----------------------------------------------------------------------------
(* Reservations: whoever waits for an agent waits for a task that lives.    *)

Waits(c, k) ==
    k # NoTask =>
        (task[k].status = "skipped" \/ (Live(k) /\ c \in task[k].cands))

\* The columns of a row that say which task may still move it.
Columns(r) ==
    /\ r.status = "absent" => r.verifier = NoTask
    /\ r.reviewer # NoTask =>
          \/ r.status = "deep_review"
          \/ r.status = "published" /\ r.audit = "repair"
    /\ r.publisher # NoTask => (r.status = "verified" \/ r.audit = "repair")
    /\ r.audit = "repair" => r.auditor = NoTask

Waiting(c) ==
    /\ cand[c].status = "analyzed" => Waits(c, cand[c].verifier)
    /\ cand[c].status = "deep_review" => Waits(c, cand[c].reviewer)

ReservationInv ==
    /\ \A c \in Candidates : Columns(cand[c]) /\ Waiting(c)
    /\ \A w \in Workers :
          run[w].task # NoTask => task[run[w].task].kind = "publish"

LEMMA InitReservations == Init => ReservationInv
<1> SUFFICES ASSUME Init PROVE ReservationInv
  OBVIOUS
<1>1. \A c \in Candidates : cand[c] = NewCandidate
  BY DEF Init
<1>2. \A w \in Workers : run[w].task = NoTask
  BY DEF Init, Idle
<1> QED BY <1>1, <1>2
        DEF ReservationInv, Columns, Waiting, Waits, NewCandidate

\* A step leaves k as it is, or an administrator's skips it.
Undisturbed(k) ==
    k # NoTask => (task'[k] = task[k] \/ task'[k].status = "skipped")

\* c goes on waiting for the task it waited for, or for a new one, or for none.
Reserves(c, was, old, new) ==
    \/ new = NoTask
    \/ was /\ new = old /\ Undisturbed(old)
    \/ task'[new].status = "live" /\ c \in task'[new].cands

Reservations(c) ==
    /\ Columns(cand'[c])
    /\ cand'[c].status = "analyzed" =>
          Reserves(c, cand[c].status = "analyzed", cand[c].verifier,
                   cand'[c].verifier)
    /\ cand'[c].status = "deep_review" =>
          Reserves(c, cand[c].status = "deep_review", cand[c].reviewer,
                   cand'[c].reviewer)

LEMMA ReservationStep ==
  ASSUME ReservationInv, \A c \in Candidates : Reservations(c),
         \A w \in Workers :
            run'[w].task # NoTask => task'[run'[w].task].kind = "publish"
  PROVE  ReservationInv'
<1>1. ASSUME NEW c \in Candidates PROVE Columns(cand'[c]) /\ Waiting(c)'
  <2>1. /\ cand[c].status = "analyzed" => Waits(c, cand[c].verifier)
        /\ cand[c].status = "deep_review" => Waits(c, cand[c].reviewer)
    BY DEF ReservationInv, Waiting
  <2>2. cand'[c].status = "analyzed" => Waits(c, cand[c].verifier)'
    BY <2>1 DEF Reservations, Reserves, Waits, Live, Undisturbed
  <2>3. cand'[c].status = "deep_review" => Waits(c, cand[c].reviewer)'
    BY <2>1 DEF Reservations, Reserves, Waits, Live, Undisturbed
  <2> QED BY <2>2, <2>3 DEF Reservations, Waiting
<1> QED BY <1>1 DEF ReservationInv

\* A new task is none that a row or a worker names.
LEMMA FreshTask ==
  ASSUME TypeOK, NEW k \in TaskIds, ~Referenced(k),
         \A j \in TaskIds \ {k} : task'[j] = task[j]
  PROVE  /\ \A c \in Candidates :
              Undisturbed(cand[c].verifier) /\ Undisturbed(cand[c].reviewer)
         /\ \A w \in Workers :
              run[w].task # NoTask => task'[run[w].task] = task[run[w].task]
<1>1. \A c \in Candidates : cand[c] \in Candidate
  BY DEF TypeOK
<1>2. \A w \in Workers : run[w] \in Run
  BY DEF TypeOK
<1> QED BY <1>1, <1>2 DEF Referenced, Undisturbed, Candidate, Run

\* A task that ends disturbs the reservations of its kind only.
LEMMA EndedTask ==
  ASSUME TypeOK, NEW k \in TaskIds,
         \A j \in TaskIds \ {k} : task'[j] = task[j],
         task'[k].kind = task[k].kind
  PROVE  /\ \A c \in Candidates :
              /\ task[k].kind # "verify" \/ cand[c].verifier # k =>
                    Undisturbed(cand[c].verifier)
              /\ task[k].kind # "review" \/ cand[c].reviewer # k =>
                    Undisturbed(cand[c].reviewer)
         /\ \A j \in TaskIds : task'[j].kind = task[j].kind
<1>1. \A c \in Candidates : cand[c] \in Candidate
  BY DEF TypeOK
<1>2. \A c \in Candidates :
         /\ cand[c].verifier = k => task[k].kind = "verify"
         /\ cand[c].reviewer = k => task[k].kind = "review"
  BY DEF TypeOK
<1> QED BY <1>1, <1>2 DEF Undisturbed, Candidate

\* Every scheduling of a task.
LEMMA SchedulingReserves ==
  ASSUME TypeOK, ReservationInv, NEW k \in TaskIds,
         NEW S \in SUBSET Candidates,
         \/ QueueVerification(k, S)
         \/ \E out \in SUBSET Candidates : QueueFidelityAudit(k, S, out)
         \/ QueueDeepReview(k, S)
         \/ QueueCandidatePublication(k, S)
  PROVE  ReservationInv'
<1>0. \A c \in Candidates : cand[c] \in Candidate /\ Columns(cand[c])
  BY DEF TypeOK, ReservationInv
<1>1. ~Referenced(k) /\ UNCHANGED run /\ k # NoTask
  BY ColumnValues
     DEF QueueVerification, QueueFidelityAudit, QueueDeepReview,
         QueueCandidatePublication, NewTask, Free
<1>2. ASSUME NEW kind \in {"verify", "audit", "review", "publish"},
             Queued(k, kind, S), \A c \in Candidates : Reservations(c)
      PROVE  ReservationInv'
  <2>1. \A j \in TaskIds \ {k} : task'[j] = task[j]
    BY <1>2, QueueTypes
  <2> QED BY <1>1, <1>2, <2>1, FreshTask, ReservationStep DEF ReservationInv
<1>3. ASSUME NEW kind \in {"verify", "audit", "review", "publish"},
             Queued(k, kind, S)
      PROVE  /\ \A c \in Candidates :
                  Undisturbed(cand[c].verifier) /\ Undisturbed(cand[c].reviewer)
             /\ task'[k].status = "live" /\ task'[k].cands = S
  <2>1. \A j \in TaskIds \ {k} : task'[j] = task[j]
    BY <1>3, QueueTypes
  <2>2. task'[k] = [kind |-> kind, cands |-> S, status |-> "live"]
    BY <1>3 DEF Queued, TypeOK
  <2> QED BY <1>1, <2>1, <2>2, FreshTask
<1>4. CASE QueueVerification(k, S)
  <2>1. ASSUME NEW c \in Candidates PROVE Reservations(c)
    <3>1. \/ cand'[c] = cand[c]
          \/ /\ c \in S /\ cand[c].status = "analyzed"
             /\ cand'[c] = [cand[c] EXCEPT !.verifier = k]
      BY <1>4 DEF QueueVerification
    <3> QED BY <1>0, <1>3, <1>4, <3>1
            DEF QueueVerification, Reservations, Reserves, Columns, Candidate
  <2> QED BY <1>2, <1>4, <2>1 DEF QueueVerification
<1>5. ASSUME NEW out \in SUBSET Candidates, QueueFidelityAudit(k, S, out)
      PROVE  ReservationInv'
  <2>1. ASSUME NEW c \in Candidates PROVE Reservations(c)
    <3>1. \/ cand'[c] = cand[c]
          \/ /\ cand[c].audit = "pending"
             /\ \/ cand'[c] = [cand[c] EXCEPT !.audit = "checking",
                                              !.auditor = k]
                \/ cand'[c] = [cand[c] EXCEPT !.audit = "sampled_out"]
      BY <1>5 DEF QueueFidelityAudit, Auditable
    <3> QED BY <1>0, <1>3, <1>5, <3>1
            DEF QueueFidelityAudit, Reservations, Reserves, Columns, Candidate
  <2> QED BY <1>2, <1>5, <2>1 DEF QueueFidelityAudit
<1>6. CASE QueueDeepReview(k, S)
  <2>1. ASSUME NEW c \in Candidates PROVE Reservations(c)
    <3>1. \/ cand'[c] = cand[c]
          \/ /\ c \in S /\ cand[c].status = "deep_review"
             /\ cand'[c] = [cand[c] EXCEPT !.reviewer = k]
      BY <1>6 DEF QueueDeepReview
    <3> QED BY <1>0, <1>3, <1>6, <3>1
            DEF QueueDeepReview, Reservations, Reserves, Columns, Candidate
  <2> QED BY <1>2, <1>6, <2>1 DEF QueueDeepReview
<1>7. CASE QueueCandidatePublication(k, S)
  <2>1. ASSUME NEW c \in Candidates PROVE Reservations(c)
    <3>1. \/ cand'[c] = cand[c]
          \/ /\ cand[c].status = "verified"
             /\ cand'[c] = [cand[c] EXCEPT !.publisher = k]
      BY <1>7 DEF QueueCandidatePublication
    <3> QED BY <1>0, <1>3, <1>7, <3>1
            DEF QueueCandidatePublication, Reservations, Reserves, Columns,
                Candidate
  <2> QED BY <1>2, <1>7, <2>1 DEF QueueCandidatePublication
<1> QED BY <1>4, <1>5, <1>6, <1>7

\* The steps that change rows of candidates only.
LEMMA CandidateReserves ==
  ASSUME TypeOK, ReservationInv,
         \/ \E c \in Candidates, payload \in Payload :
              \E status \in {"verified", "analyzed"} :
                 SubmitCandidateAnalysis(c, status, payload)
         \/ \E S \in SUBSET Candidates :
              SampleOut(S) \/ ReuseRejectedEvidence(S)
         \/ ReleaseStaleReservations
  PROVE  ReservationInv'
<1>0. /\ \A c \in Candidates : cand[c] \in Candidate /\ Columns(cand[c])
      /\ UNCHANGED <<task, run>>
  BY DEF TypeOK, ReservationInv, SubmitCandidateAnalysis, SampleOut,
         ReuseRejectedEvidence, ReleaseStaleReservations
<1>1. \A k : Undisturbed(k)
  BY <1>0 DEF Undisturbed
<1>2. ASSUME NEW c \in Candidates PROVE Reservations(c)
  <2>1. \/ cand'[c] = cand[c]
        \/ /\ cand[c].status = "absent"
           /\ \E payload \in Payload, status \in {"verified", "analyzed"} :
                cand'[c] = [cand[c] EXCEPT !.status = status,
                                           !.payload = payload]
        \/ /\ cand[c].audit = "pending"
           /\ cand'[c] = [cand[c] EXCEPT !.audit = "sampled_out"]
        \/ cand'[c] = [cand[c] EXCEPT
                         !.status = "deep_review", !.reviewed = FALSE,
                         !.verifier = NoTask, !.reviewer = NoTask,
                         !.publisher = NoTask]
        \/ cand'[c] = [cand[c] EXCEPT !.publisher = NoTask]
    <3>1. CASE \E d \in Candidates, payload \in Payload :
                 \E status \in {"verified", "analyzed"} :
                    SubmitCandidateAnalysis(d, status, payload)
      <4>1. PICK d \in Candidates, payload \in Payload,
                 status \in {"verified", "analyzed"} :
                   SubmitCandidateAnalysis(d, status, payload)
        BY <3>1
      <4>2. CASE c = d
        BY <4>1, <4>2 DEF TypeOK, SubmitCandidateAnalysis
      <4>3. CASE c # d
        BY <4>1, <4>3 DEF TypeOK, SubmitCandidateAnalysis
      <4> QED BY <4>2, <4>3
    <3>2. CASE \E S \in SUBSET Candidates : SampleOut(S)
      BY <3>2 DEF SampleOut, Auditable
    <3>3. CASE \E S \in SUBSET Candidates : ReuseRejectedEvidence(S)
      BY <3>3 DEF ReuseRejectedEvidence
    <3>4. CASE ReleaseStaleReservations
      BY <3>4 DEF ReleaseStaleReservations
    <3> QED BY <3>1, <3>2, <3>3, <3>4
  <2>2. CASE cand'[c] = cand[c]
    BY <1>0, <1>1, <2>2 DEF Reservations, Reserves
  <2>3. ASSUME cand[c].status = "absent",
               NEW payload \in Payload, NEW status \in {"verified", "analyzed"},
               cand'[c] = [cand[c] EXCEPT !.status = status,
                                          !.payload = payload]
        PROVE  Reservations(c)
    <3>1. /\ cand'[c].status \in {"verified", "analyzed"}
          /\ cand'[c].verifier = NoTask
          /\ cand'[c].reviewer = cand[c].reviewer
          /\ cand'[c].publisher = cand[c].publisher
          /\ cand'[c].audit = cand[c].audit
          /\ cand'[c].auditor = cand[c].auditor
      BY <1>0, <2>3 DEF Columns, Candidate
    <3> QED BY <1>0, <2>3, <3>1 DEF Reservations, Reserves, Columns
  <2>4. CASE /\ cand[c].audit = "pending"
             /\ cand'[c] = [cand[c] EXCEPT !.audit = "sampled_out"]
    BY <1>0, <1>1, <2>4 DEF Reservations, Reserves, Columns, Candidate
  <2>5. CASE cand'[c] = [cand[c] EXCEPT
                           !.status = "deep_review", !.reviewed = FALSE,
                           !.verifier = NoTask, !.reviewer = NoTask,
                           !.publisher = NoTask]
    <3>1. /\ cand'[c].status = "deep_review"
          /\ cand'[c].reviewer = NoTask /\ cand'[c].publisher = NoTask
          /\ cand'[c].audit = cand[c].audit
          /\ cand'[c].auditor = cand[c].auditor
      BY <1>0, <2>5 DEF Candidate
    <3> QED BY <1>0, <3>1 DEF Reservations, Reserves, Columns
  <2>6. CASE cand'[c] = [cand[c] EXCEPT !.publisher = NoTask]
    BY <1>0, <1>1, <2>6 DEF Reservations, Reserves, Columns, Candidate
  <2> QED BY <2>1, <2>2, <2>3, <2>4, <2>5, <2>6
<1> QED BY <1>0, <1>2, ReservationStep DEF ReservationInv

\* A verification's answer: what it leaves undecided waits for tasks that are
\* made with it.
LEMMA VerificationReserves ==
  ASSUME TypeOK, ReservationInv, NEW k \in TaskIds,
         NEW decision \in Decisions(k, Verdicts),
         NEW retry \in [task[k].cands \ DOMAIN decision -> TaskIds],
         SubmitCandidateVerification(k, decision, retry)
  PROVE  ReservationInv'
<1> USE ColumnValues
<1> DEFINE used == {retry[c] : c \in DOMAIN retry}
<1>0. /\ \A c \in Candidates : cand[c] \in Candidate /\ Columns(cand[c])
                               /\ Waiting(c)
      /\ \A w \in Workers : run[w] \in Run
      /\ task \in [TaskIds -> Task]
      /\ UNCHANGED run
  BY DEF TypeOK, ReservationInv, SubmitCandidateVerification
<1>1. \A n \in used : n \in TaskIds /\ ~Live(n) /\ ~Referenced(n) /\ n # k
  BY DEF SubmitCandidateVerification, Free
<1>2. /\ task'[k].kind = task[k].kind /\ task[k].kind = "verify"
      /\ \A n \in TaskIds \ ({k} \cup used) : task'[n] = task[n]
      /\ \A n \in used : /\ task'[n].status = "live"
                         /\ task'[n].cands = {c \in DOMAIN retry : retry[c] = n}
  <2>1. task'[k] = [task[k] EXCEPT !.status = "completed"]
    BY DEF SubmitCandidateVerification
  <2>2. task'[k].kind = task[k].kind
    BY <1>0, <2>1 DEF Task
  <2> QED BY <1>1, <2>2 DEF SubmitCandidateVerification
<1>3. /\ \A c \in Candidates :
           /\ cand[c].verifier # k => Undisturbed(cand[c].verifier)
           /\ Undisturbed(cand[c].reviewer)
      /\ \A w \in Workers :
           run[w].task # NoTask =>
              task'[run[w].task].kind = task[run[w].task].kind
  <2>1. \A c \in Candidates :
           /\ cand[c].verifier \notin used /\ cand[c].reviewer \notin used
           /\ cand[c].reviewer # k
    BY <1>1, <1>2 DEF Referenced, TypeOK
  <2>2. \A w \in Workers : run[w].task \notin used
    BY <1>1 DEF Referenced
  <2> HIDE DEF used
  <2> QED BY <1>0, <1>2, <2>1, <2>2 DEF Undisturbed, Candidate, Run
<1>4. ASSUME NEW c \in Candidates PROVE Reservations(c)
  <2>1. CASE c \in DOMAIN decision
    <3>1. PICK v \in Verdicts :
            cand'[c] = [cand[c] EXCEPT !.status = v, !.verifier = NoTask]
      <4>1. decision[c] \in Verdicts
        BY <2>1 DEF Decisions
      <4> QED BY <2>1, <4>1 DEF SubmitCandidateVerification
    <3>2. cand[c].status = "analyzed"
      BY <2>1 DEF SubmitCandidateVerification
    <3>3. /\ cand'[c].status \in Verdicts /\ cand'[c].verifier = NoTask
          /\ cand'[c].reviewer = cand[c].reviewer
          /\ cand'[c].publisher = cand[c].publisher
          /\ cand'[c].audit = cand[c].audit
          /\ cand'[c].auditor = cand[c].auditor
      BY <1>0, <3>1 DEF Candidate, Verdicts, Status
    <3> QED BY <1>0, <3>2, <3>3 DEF Reservations, Reserves, Columns, Verdicts
  <2>2. CASE /\ c \in DOMAIN retry
             /\ cand'[c] = [cand[c] EXCEPT !.verifier = retry[c]]
             /\ cand[c].status = "analyzed"
    <3>1. /\ task'[retry[c]].status = "live"
          /\ c \in task'[retry[c]].cands
      BY <1>2, <2>2
    <3>2. /\ cand'[c].status = "analyzed" /\ cand'[c].verifier = retry[c]
          /\ cand'[c].reviewer = cand[c].reviewer
          /\ cand'[c].publisher = cand[c].publisher
          /\ cand'[c].audit = cand[c].audit
          /\ cand'[c].auditor = cand[c].auditor
      BY <1>0, <2>2 DEF Candidate
    <3> QED BY <1>0, <2>2, <3>1, <3>2 DEF Reservations, Reserves, Columns
  <2>3. CASE /\ cand[c].verifier = k
             /\ cand'[c] = [cand[c] EXCEPT !.verifier = NoTask]
    <3>1. /\ cand'[c].status = cand[c].status /\ cand'[c].verifier = NoTask
          /\ cand'[c].reviewer = cand[c].reviewer
          /\ cand'[c].publisher = cand[c].publisher
          /\ cand'[c].audit = cand[c].audit
          /\ cand'[c].auditor = cand[c].auditor
      BY <1>0, <2>3 DEF Candidate
    <3> QED BY <1>0, <1>3, <3>1 DEF Reservations, Reserves, Columns
  <2>4. CASE cand'[c] = cand[c] /\ cand[c].verifier # k
    BY <1>0, <1>3, <2>4 DEF Reservations, Reserves
  <2> QED BY <2>1, <2>2, <2>3, <2>4 DEF SubmitCandidateVerification
<1> QED BY <1>0, <1>3, <1>4, ReservationStep DEF ReservationInv

\* The answers of the audit and of the review, failures, and administrators.
LEMMA EndReserves ==
  ASSUME TypeOK, ReservationInv, NEW k \in TaskIds,
         \/ \E finding \in Decisions(k, Findings) :
              SubmitFidelityAudit(k, finding)
         \/ \E decision \in Decisions(k, Resolutions) :
              \E repair \in Decisions(k, Payload) :
                 SubmitCandidateDeepReview(k, decision, repair)
         \/ \E reported \in BOOLEAN : FailTask(k, reported)
  PROVE  ReservationInv'
<1> USE ColumnValues
<1>0. /\ \A c \in Candidates : cand[c] \in Candidate /\ Columns(cand[c])
                               /\ Waiting(c)
      /\ UNCHANGED run
      /\ k # NoTask
      /\ \A w \in Workers : run[w] \in Run
  BY DEF TypeOK, ReservationInv, SubmitFidelityAudit,
         SubmitCandidateDeepReview, FailTask
<1>1. /\ \A j \in TaskIds \ {k} : task'[j] = task[j]
      /\ task'[k].kind = task[k].kind
  <2>1. PICK s \in {"completed", "failed", "skipped"} : Closed(k, s)
    BY DEF SubmitFidelityAudit, SubmitCandidateDeepReview, FailTask
  <2>2. task'[k].kind = task[k].kind
    BY <2>1, ClosedTypes
  <2> QED BY <2>1, <2>2 DEF Closed, TypeOK
<1>2. /\ \A c \in Candidates :
           /\ task[k].kind # "verify" \/ cand[c].verifier # k =>
                 Undisturbed(cand[c].verifier)
           /\ task[k].kind # "review" \/ cand[c].reviewer # k =>
                 Undisturbed(cand[c].reviewer)
      /\ \A w \in Workers : run'[w].task # NoTask =>
             task'[run'[w].task].kind = "publish"
  BY <1>0, <1>1, EndedTask DEF ReservationInv, Run
<1>3. ASSUME NEW finding \in Decisions(k, Findings),
             SubmitFidelityAudit(k, finding), NEW c \in Candidates
      PROVE  Reservations(c)
  <2>0. task[k].kind = "audit"
    BY <1>3 DEF SubmitFidelityAudit
  <2>1. \/ cand'[c] = cand[c]
        \/ /\ cand[c].audit = "checking"
           /\ \/ cand'[c] = [cand[c] EXCEPT !.audit = "passed",
                                            !.auditor = NoTask]
              \/ cand'[c] = [cand[c] EXCEPT !.audit = "repair",
                                            !.auditor = NoTask,
                                            !.status = "deep_review"]
        \/ /\ cand[c].auditor = k
           /\ cand'[c] = [cand[c] EXCEPT !.audit = "pending",
                                         !.auditor = NoTask]
    BY <1>3 DEF SubmitFidelityAudit
  <2>2. /\ cand'[c].verifier = cand[c].verifier
        /\ cand'[c].reviewer = cand[c].reviewer
        /\ cand'[c].publisher = cand[c].publisher
        /\ \/ /\ cand'[c].status = cand[c].status
              /\ cand'[c].audit = cand[c].audit
              /\ cand'[c].auditor = cand[c].auditor
           \/ /\ cand[c].audit # "repair" /\ cand'[c].audit # "repair"
              /\ cand'[c].status = cand[c].status
           \/ /\ cand[c].audit = "checking" /\ cand'[c].auditor = NoTask
              /\ cand'[c].audit = "repair"
              /\ cand'[c].status = "deep_review"
    BY <1>0, <2>1 DEF Candidate, Columns
  <2> QED BY <1>0, <1>2, <2>0, <2>2 DEF Reservations, Reserves, Columns
<1>4. ASSUME NEW decision \in Decisions(k, Resolutions),
             NEW repair \in Decisions(k, Payload),
             SubmitCandidateDeepReview(k, decision, repair),
             NEW c \in Candidates
      PROVE  Reservations(c)
  <2>0. task[k].kind = "review"
    BY <1>4 DEF SubmitCandidateDeepReview
  <2>1. CASE c \in DOMAIN decision
    <3>1. PICK s \in {"verified", "rejected", "conflict", "deep_review"},
               p \in Payload :
            cand'[c] = [cand[c] EXCEPT !.status = s, !.payload = p,
                                       !.reviewed = TRUE, !.reviewer = NoTask]
      <4>1. Disposition(c, decision[c])
              \in {"verified", "rejected", "conflict", "deep_review"}
        BY <2>1, DispositionStatus DEF Decisions
      <4>2. /\ cand[c].payload \in Payload
            /\ \A d \in DOMAIN repair : repair[d] \in Payload
        BY <1>0 DEF Candidate, Decisions
      <4> QED BY <1>4, <2>1, <4>1, <4>2 DEF SubmitCandidateDeepReview
    <3>2. cand[c].status = "deep_review"
      BY <1>4, <2>1 DEF SubmitCandidateDeepReview
    <3>3. /\ cand'[c].status \notin {"absent", "analyzed"}
          /\ cand'[c].verifier = cand[c].verifier
          /\ cand'[c].reviewer = NoTask
          /\ cand'[c].publisher = cand[c].publisher
          /\ cand'[c].audit = cand[c].audit
          /\ cand'[c].auditor = cand[c].auditor
      BY <1>0, <3>1 DEF Candidate
    <3> QED BY <1>0, <3>2, <3>3 DEF Reservations, Reserves, Columns
  <2>2. CASE /\ cand[c].reviewer = k
             /\ cand'[c] = [cand[c] EXCEPT !.status = "deep_review",
                                           !.reviewer = NoTask]
    <3>1. /\ cand'[c].status = "deep_review" /\ cand'[c].reviewer = NoTask
          /\ cand'[c].publisher = cand[c].publisher
          /\ cand'[c].audit = cand[c].audit
          /\ cand'[c].auditor = cand[c].auditor
      BY <1>0, <2>2 DEF Candidate
    <3> QED BY <1>0, <2>2, <3>1 DEF Reservations, Reserves, Columns
  <2>3. CASE cand[c].reviewer # k /\ cand'[c] = cand[c]
    BY <1>0, <1>2, <2>0, <2>3 DEF Reservations, Reserves
  <2> QED BY <1>4, <2>1, <2>2, <2>3 DEF SubmitCandidateDeepReview, Omitted
<1>5. ASSUME NEW reported \in BOOLEAN, FailTask(k, reported),
             NEW c \in Candidates
      PROVE  Reservations(c)
  <2>1. CASE /\ cand[c].status = "analyzed" /\ cand[c].verifier = k
             /\ cand'[c] = [cand[c] EXCEPT !.status = "deep_review",
                                           !.verifier = NoTask]
    <3>1. /\ cand'[c].status = "deep_review"
          /\ cand'[c].reviewer = cand[c].reviewer
          /\ cand'[c].publisher = cand[c].publisher
          /\ cand'[c].audit = cand[c].audit
          /\ cand'[c].auditor = cand[c].auditor
      BY <1>0, <2>1 DEF Candidate
    <3> QED BY <1>0, <2>1, <3>1 DEF Reservations, Reserves, Columns
  <2>2. CASE /\ cand[c].reviewer = k
             /\ cand'[c] = [cand[c] EXCEPT !.status = "deep_review",
                                           !.reviewer = NoTask]
    <3>1. /\ cand'[c].status = "deep_review" /\ cand'[c].reviewer = NoTask
          /\ cand'[c].publisher = cand[c].publisher
          /\ cand'[c].audit = cand[c].audit
          /\ cand'[c].auditor = cand[c].auditor
      BY <1>0, <2>2 DEF Candidate
    <3> QED BY <1>0, <2>2, <3>1 DEF Reservations, Reserves, Columns
  <2>3. CASE /\ task[k].kind = "publish"
             /\ cand'[c] = [cand[c] EXCEPT !.publisher = NoTask]
    <3>1. /\ cand'[c].status = cand[c].status /\ cand'[c].publisher = NoTask
          /\ cand'[c].verifier = cand[c].verifier
          /\ cand'[c].reviewer = cand[c].reviewer
          /\ cand'[c].audit = cand[c].audit
          /\ cand'[c].auditor = cand[c].auditor
      BY <1>0, <2>3 DEF Candidate
    <3> QED BY <1>0, <1>2, <2>3, <3>1 DEF Reservations, Reserves, Columns
  <2>4. CASE /\ cand'[c] = cand[c]
             /\ ~(task[k].kind = "verify" /\ cand[c].verifier = k
                  /\ cand[c].status = "analyzed")
             /\ ~(task[k].kind = "review" /\ cand[c].reviewer = k
                  /\ cand[c].status = "deep_review")
    BY <1>0, <1>2, <2>4 DEF Reservations, Reserves
  <2> QED BY <1>5, <2>1, <2>2, <2>3, <2>4 DEF FailTask
<1> QED BY <1>2, <1>3, <1>4, <1>5, ReservationStep

LEMMA ReplacementReserves ==
  ASSUME TypeOK, ReservationInv,
         NEW S \in SUBSET TaskIds, NEW retry \in BOOLEAN,
         ReplaceStage(S, retry)
  PROVE  ReservationInv'
<1>0. /\ \A c \in Candidates : cand[c] \in Candidate /\ Columns(cand[c])
      /\ \A k \in TaskIds : task[k] \in Task
      /\ \A w \in Workers : run[w] \in Run
      /\ UNCHANGED run
  BY DEF TypeOK, ReservationInv, ReplaceStage
<1>1. \A k \in TaskIds :
        /\ task'[k] = task[k] \/ task'[k].status = "skipped"
        /\ task'[k].kind = task[k].kind
  BY <1>0 DEF ReplaceStage, Task
<1>2. ASSUME NEW c \in Candidates PROVE Reservations(c)
  <2>1. Undisturbed(cand[c].verifier) /\ Undisturbed(cand[c].reviewer)
    BY <1>0, <1>1 DEF Undisturbed, Candidate
  <2>2. \/ cand'[c] = cand[c]
        \/ /\ cand[c].status = "analyzed"
           /\ cand'[c] = [cand[c] EXCEPT !.verifier = NoTask]
    BY DEF ReplaceStage
  <2> QED BY <1>0, <2>1, <2>2 DEF Reservations, Reserves, Columns, Candidate
<1> QED BY <1>0, <1>1, <1>2, ReservationStep DEF ReservationInv, Run

\* A worker's step: only the last transaction moves rows, and the task a
\* worker closes is a publication.
LEMMA PublishReserves ==
  ASSUME TypeOK, ReservationInv, NEW w \in Workers, Publish(w) \/ StopWorker(w)
  PROVE  ReservationInv'
<1> USE ColumnValues
<1>0. /\ \A c \in Candidates : cand[c] \in Candidate /\ Columns(cand[c])
      /\ \A v \in Workers : run[v] \in Run
      /\ run \in [Workers -> Run] /\ cand \in [Candidates -> Candidate]
  BY DEF TypeOK, ReservationInv
<1>1. ASSUME \A c \in Candidates : Reservations(c),
             \A v \in Workers \ {w} : run'[v] = run[v],
             \A j \in TaskIds : task'[j].kind = task[j].kind,
             run'[w].task \in {NoTask, run[w].task}
      PROVE  ReservationInv'
  <2>1. \A v \in Workers : run'[v].task # NoTask =>
           task'[run'[v].task].kind = "publish"
    BY <1>0, <1>1 DEF ReservationInv, Run
  <2> QED BY <1>1, <2>1, ReservationStep
<1>2. ASSUME UNCHANGED task, NEW c \in Candidates,
             /\ cand'[c].status = cand[c].status
             /\ cand'[c].verifier = cand[c].verifier
             /\ cand'[c].reviewer = cand[c].reviewer
             /\ cand'[c].publisher = cand[c].publisher
             /\ cand'[c].audit = cand[c].audit
             /\ cand'[c].auditor = cand[c].auditor
      PROVE  Reservations(c)
  BY <1>0, <1>2 DEF Reservations, Reserves, Columns, Undisturbed
<1>3. ASSUME NEW k \in TaskIds, ReadBatch(w, k) PROVE ReservationInv'
  <2>1. /\ run'[w].task = k /\ task[k].kind = "publish"
        /\ \A v \in Workers \ {w} : run'[v] = run[v]
        /\ UNCHANGED <<cand, task>>
    BY <1>3, ReadRun DEF ReadBatch
  <2>2. \A v \in Workers : run'[v].task # NoTask =>
           task'[run'[v].task].kind = "publish"
    BY <2>1 DEF ReservationInv
  <2>3. \A c \in Candidates : Reservations(c)
    BY <1>2, <2>1
  <2> QED BY <2>2, <2>3, ReservationStep
<1>4. ASSUME NEW d \in Candidates, CreateRevision(w, d) PROVE ReservationInv'
  <2>1. PICK x \in Revision(w, d) :
          /\ cand' = [cand EXCEPT ![d].revision = x]
          /\ run' = [run EXCEPT ![w] =
                       [Handled(w, d) EXCEPT !.made = With(@, d, x)]]
    BY <1>4 DEF CreateRevision
  <2>2. x \in Payload
    BY <1>4, RevisionPayload DEF CreateRevision
  <2>3. [Handled(w, d) EXCEPT !.made = With(@, d, x)].task = run[w].task
    BY <1>0, <2>2, HandledRun DEF Run
  <2>4. /\ run'[w].task = run[w].task /\ UNCHANGED task
        /\ \A v \in Workers \ {w} : run'[v] = run[v]
    <3> DEFINE r == [Handled(w, d) EXCEPT !.made = With(@, d, x)]
    <3>1. r.task = run[w].task /\ run' = [run EXCEPT ![w] = r]
      BY <2>1, <2>3
    <3> HIDE DEF r
    <3> QED BY <1>0, <1>4, <3>1 DEF CreateRevision
  <2>5. ASSUME NEW c \in Candidates PROVE Reservations(c)
    <3>1. /\ cand'[c].status = cand[c].status
          /\ cand'[c].verifier = cand[c].verifier
          /\ cand'[c].reviewer = cand[c].reviewer
          /\ cand'[c].publisher = cand[c].publisher
          /\ cand'[c].audit = cand[c].audit
          /\ cand'[c].auditor = cand[c].auditor
      BY <1>0, <2>1 DEF Candidate
    <3> QED BY <1>2, <2>4, <3>1
  <2> QED BY <1>1, <2>4, <2>5
<1>5. ASSUME NEW d \in Candidates,
             SkipCandidate(w, d) \/ PreflightRejects(w, d)
      PROVE  ReservationInv'
  <2>1. /\ run'[w].task = run[w].task /\ UNCHANGED <<cand, task>>
        /\ \A v \in Workers \ {w} : run'[v] = run[v]
    <3>1. CASE SkipCandidate(w, d)
      BY <1>0, <3>1, HandledRun DEF SkipCandidate
    <3>2. CASE PreflightRejects(w, d)
      <4> DEFINE r == [Handled(w, d) EXCEPT
                         !.held = With(@, d, run[w].todo[d].reviewed)]
      <4>1. r.task = run[w].task /\ run' = [run EXCEPT ![w] = r]
        BY <1>0, <3>2, HandledRun DEF PreflightRejects, Run
      <4> HIDE DEF r
      <4> QED BY <1>0, <3>2, <4>1 DEF PreflightRejects
    <3> QED BY <1>5, <3>1, <3>2
  <2>2. \A c \in Candidates : Reservations(c)
    BY <1>2, <2>1
  <2> QED BY <1>1, <2>1, <2>2
<1>6. CASE PublishBatch(w)
  <2>1. /\ run'[w].task = run[w].task /\ UNCHANGED task
        /\ run[w].task # NoTask
        /\ \A v \in Workers \ {w} : run'[v] = run[v]
    BY <1>0, <1>6, ZenonT(40) DEF PublishBatch, Run
  <2>2. ASSUME NEW c \in Candidates PROVE Reservations(c)
    <3>1. CASE cand'[c] = cand[c]
      BY <1>2, <2>1, <3>1
    <3>2. CASE cand'[c] = [cand[c] EXCEPT !.status = "deep_review",
                              !.publisher = NoTask, !.reviewer = NoTask]
      <4>1. /\ cand'[c].status = "deep_review"
            /\ cand'[c].reviewer = NoTask /\ cand'[c].publisher = NoTask
            /\ cand'[c].audit = cand[c].audit
            /\ cand'[c].auditor = cand[c].auditor
        BY <1>0, <3>2 DEF Candidate
      <4> QED BY <1>0, <4>1 DEF Reservations, Reserves, Columns
    <3>3. CASE cand'[c] = [cand[c] EXCEPT !.status = "rejected",
                              !.audit = "excluded",
                              !.publisher = NoTask, !.reviewer = NoTask]
      <4>1. /\ cand'[c].status = "rejected" /\ cand'[c].audit = "excluded"
            /\ cand'[c].reviewer = NoTask /\ cand'[c].publisher = NoTask
        BY <1>0, <3>3 DEF Candidate
      <4> QED BY <4>1 DEF Reservations, Columns
    <3>4. CASE /\ cand[c].publisher = run[w].task
               /\ cand'[c] = [cand[c] EXCEPT !.status = "published",
                                !.revision = run[w].made[c],
                                !.publisher = NoTask]
      <4>1. /\ cand'[c].status = "published" /\ cand'[c].publisher = NoTask
            /\ cand'[c].reviewer = cand[c].reviewer
            /\ cand'[c].audit = cand[c].audit
            /\ cand'[c].auditor = cand[c].auditor
        BY <1>0, <3>4 DEF Candidate
      <4> QED BY <1>0, <2>1, <3>4, <4>1 DEF Reservations, Columns
    <3> QED BY <1>6, <3>1, <3>2, <3>3, <3>4, PublishBatchRows, ZenonT(40)
  <2> QED BY <1>1, <2>1, <2>2
<1>7. CASE CompletePublication(w) \/ StopWorker(w)
  <2>1. /\ run'[w].task = NoTask /\ UNCHANGED cand
        /\ \A v \in Workers \ {w} : run'[v] = run[v]
    BY <1>0, <1>7 DEF CompletePublication, StopWorker, Idle
  <2>2. CASE UNCHANGED task
    BY <1>1, <1>2, <2>1, <2>2
  <2>3. CASE Live(run[w].task) /\ Closed(run[w].task, "completed")
    <3> DEFINE k == run[w].task
    <3>1. k \in TaskIds /\ task[k].kind = "publish"
      BY <1>0, <2>3 DEF Live, Run, ReservationInv
    <3>2. /\ \A j \in TaskIds \ {k} : task'[j] = task[j]
          /\ task'[k].kind = task[k].kind
      BY <2>3, <3>1 DEF Closed, TypeOK, Task
    <3> HIDE DEF k
    <3>3. /\ \A c \in Candidates :
               Undisturbed(cand[c].verifier) /\ Undisturbed(cand[c].reviewer)
          /\ \A j \in TaskIds : task'[j].kind = task[j].kind
      BY <3>1, <3>2, EndedTask
    <3>4. \A c \in Candidates : Reservations(c)
      BY <1>0, <2>1, <3>3 DEF Reservations, Reserves
    <3> QED BY <1>1, <2>1, <3>3, <3>4
  <2> QED BY <1>7, <2>2, <2>3 DEF CompletePublication, StopWorker
<1> QED BY <1>3, <1>4, <1>5, <1>6, <1>7 DEF Publish

\* Nobody waits for a task that will not answer: what a batch leaves out, what
\* a failure ends and what is halved is released or reserved again in the same
\* transaction (submitCandidateVerification, failPipelineTask, pipeline.ts).
THEOREM NobodyIsForgotten == Spec => []ReservedByALiveTask
<1>1. TypeOK /\ ReservationInv /\ [Next]_vars => ReservationInv'
  <2> SUFFICES ASSUME TypeOK, ReservationInv, [Next]_vars PROVE ReservationInv'
    OBVIOUS
  <2>1. CASE Next
    <3>1. ASSUME NEW k \in TaskIds, Verify(k) \/ AuditStep(k) \/ Review(k)
          PROVE  ReservationInv'
      BY <3>1, SchedulingReserves, VerificationReserves, EndReserves
         DEF Verify, AuditStep, Review
    <3>2. CASE QueuePublication
      BY <3>2, SchedulingReserves DEF QueuePublication
    <3> QED BY <2>1, <3>1, <3>2, CandidateReserves, EndReserves,
               ReplacementReserves, PublishReserves DEF Next
  <2>2. CASE UNCHANGED vars
    BY <2>2 DEF vars, ReservationInv, Waiting, Waits, Live
  <2> QED BY <2>1, <2>2
<1>2. ReservationInv => ReservedByALiveTask
  BY DEF ReservationInv, Waiting, Waits, ReservedByALiveTask
<1>3. TypeOK /\ [Next]_vars => TypeOK'
  BY NextTypes
<1> QED BY <1>1, <1>2, <1>3, InitTypes, InitReservations, PTL DEF Spec
=============================================================================
