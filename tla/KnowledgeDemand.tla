--------------------------- MODULE KnowledgeDemand ---------------------------
(***************************************************************************)
(* Unanswered questions as durable learning goals.  A public request that  *)
(* the knowledge base cannot answer becomes a row of knowledge_demands     *)
(* (queue_network_knowledge_demand, mcp-observability.ts).  The scheduler  *)
(* of pipeline.ts has it diagnosed, searches for official documents, has   *)
(* them prepared and studied, and closes the demand when the question can  *)
(* be answered: a network demand by replaying it over the active release   *)
(* (pipeline-worker.ts), a technical one by drafting, reviewing and        *)
(* publishing an answer of its own (technical-demand.ts).                  *)
(*                                                                         *)
(* A document stands for one evidence span.  Its preparation and study are *)
(* one task each: SourceRuns has their detail.  The scheduler's capacity   *)
(* is taken to be at least the number of demands.                          *)
(***************************************************************************)
EXTENDS Integers, FiniteSets

CONSTANTS
    Demands,
    Domains,        \* domains a demand may belong to
    Docs,           \* official documents there are to be found
    None,
    Spans,          \* evidence spans that fit one draft (16 in the code)
    AttemptLimit,   \* attempts of a task
    MaxFeedback,    \* bound: gaps reported about a technical answer
    MaxFaults       \* bound: failures, expired leases, crashes, repeated requests

ASSUME KnowledgeDemandAssumption ==
    /\ IsFiniteSet(Demands) /\ Domains \subseteq {"network", "technical"}
    /\ IsFiniteSet(Docs) /\ None \notin Demands
    /\ Spans \in Nat \ {0} /\ AttemptLimit \in Nat \ {0}
    /\ MaxFeedback \in Nat /\ MaxFaults \in Nat

VARIABLES
    demand,     \* demand[d]: the knowledge_demands row
    task,       \* task[d]: the live tasks of d, one of each class at most
    answers,    \* answers[d]: the technical_demand_answers rows
    searched,   \* searched[d]: searched_source_urls of completed searches
    attempted,  \* attempted[d]: knowledge_demand_source_attempts
    doc,        \* doc[x]: the source_candidates row, absent until found
    known,      \* known[d]: whether the active release answers network demand d
                \* completely, and not by the revision reported to be wrong
    replays,    \* demands a worker is about to replay
    missed,     \* unknown answers logged whose demand could not be queued
    faults

vars == <<demand, task, answers, searched, attempted, doc, known, replays,
          missed, faults>>

Open == {"diagnosing", "queued", "discovering", "acquiring", "processing",
         "unresolved", "failed"}
Demand == [domain : Domains,
           status : Open \cup {"none", "published"},
           diag : {"pending", "queued", "running", "completed", "failed"},
           code : {"none", "context", "system"}, \* last_error_code, those read
           due : BOOLEAN,                     \* next_retry_at <= now
           feedback : 0..MaxFeedback]         \* technical_feedback_hash

Slot == [st : {"none", "queued", "running"}, n : 0..AttemptLimit]
Free == [st |-> "none", n |-> 0]
Queued == [st |-> "queued", n |-> 0]

Technical == {d \in Demands : demand[d].domain = "technical"}

\* An answer task names the row it works for by its feedback and evidence.
Work == [kind : {"none", "draft", "review", "publish"},
         feedback : 0..MaxFeedback, refs : SUBSET Docs]
NoWork == [kind |-> "none", feedback |-> 0, refs |-> {}]

Classes == {"diagnose", "search", "answer"}
Tasks == [diagnose : Slot, search : Slot, answer : Slot, work : Work]
NoTasks == [diagnose |-> Free, search |-> Free, answer |-> Free,
            work |-> NoWork]

\* An incomplete answer may name what to search for next (next_searches).
Results == {"none", "partial", "searchable", "complete"}
Answer == [feedback : 0..MaxFeedback, refs : SUBSET Docs,
           status : {"drafting", "review_queued", "publication_queued",
                     "unresolved", "published", "superseded"},
           result : Results]          \* answer_status as a review leaves it

Doc == [st : {"absent", "approved", "preparing", "prepared", "studying", "closed"},
        owner : Demands \cup {None},
        text : BOOLEAN]     \* it has been cut into fragments

TypeOK ==
    /\ demand \in [Demands -> Demand]
    /\ task \in [Demands -> Tasks]
    /\ \A d \in Demands : answers[d] \subseteq Answer
    /\ searched \in [Demands -> SUBSET Docs]
    /\ attempted \in [Demands -> SUBSET Docs]
    /\ doc \in [Docs -> Doc]
    /\ known \in [Demands -> {"no", "yes", "reported"}]
    /\ replays \subseteq Demands /\ missed \subseteq Demands
    /\ faults \in 0..MaxFaults

\* Some documents may be in the library before anyone asks.
Init ==
    /\ \E domain \in [Demands -> Domains] :
         demand = [d \in Demands |->
                     [domain |-> domain[d], status |-> "none", diag |-> "pending",
                      code |-> "none", due |-> TRUE, feedback |-> 0]]
    /\ task = [d \in Demands |-> NoTasks]
    /\ answers = [d \in Demands |-> {}]
    /\ searched = [d \in Demands |-> {}]
    /\ attempted = [d \in Demands |-> {}]
    /\ \E library \in SUBSET Docs :
         doc = [x \in Docs |->
                  IF x \in library
                  THEN [st |-> "closed", owner |-> None, text |-> TRUE]
                  ELSE [st |-> "absent", owner |-> None, text |-> FALSE]]
    /\ known = [d \in Demands |-> "no"] /\ replays = {} /\ missed = {} /\ faults = 0

Mishap == faults < MaxFaults /\ faults' = faults + 1

Owned(docs, d) == {x \in Docs : docs[x].owner = d /\ docs[x].st # "absent"}
Live(tasks, c) == tasks[c].st # "none"
DocTask(docs, d, stages) == \E x \in Owned(docs, d) : docs[x].st \in stages

-----------------------------------------------------------------------------
(* Requests.                                                               *)

\* queue_network_knowledge_demand for demand row r with tasks k, in its two
\* parts: the upsert, and the diagnosis task that a diagnosing demand gets.
Upserted(r, reported) ==
    LET waits == r.domain = "technical" /\ r.code = "context" /\ ~reported
        finished == r.diag = "completed" /\ r.status # "published"
    IN [domain |-> r.domain,
        status |->
          IF waits THEN "unresolved"
          ELSE IF reported THEN "diagnosing"
          ELSE IF finished THEN "queued"
          ELSE IF r.status \in {"diagnosing", "discovering", "acquiring", "processing"}
               THEN r.status
          ELSE "diagnosing",
        diag |->
          IF r.diag \in {"queued", "running"} THEN r.diag
          ELSE IF reported THEN "pending"
          ELSE IF finished THEN "completed"
          ELSE "queued",
        code |-> IF waits THEN r.code ELSE "none",
        due |-> TRUE,
        feedback |-> IF reported /\ r.domain = "technical"
                     THEN r.feedback + 1 ELSE r.feedback]

\* The row and the tasks after the request.
Requested(r, k, reported) ==
    LET u == Upserted(r, reported)
        asks == Live(k, "diagnose") \/ u.status = "diagnosing"
    IN [row |->
          IF asks THEN [u EXCEPT !.diag = "queued", !.status = "diagnosing"]
          ELSE u,
        tasks |->
          IF asks /\ ~Live(k, "diagnose")
          THEN [k EXCEPT !.diagnose = Queued] ELSE k]

\* technicalRequestScope, lookupTechnicalAnswer and the deterministic network
\* answer: the request d is answered completely.
Answered(d) ==
    IF d \in Technical
    THEN \E a \in answers[d] : /\ a.status = "published" /\ a.result = "complete"
                               /\ a.feedback = demand[d].feedback
    ELSE known[d] = "yes"

Apply(d, q) ==
    /\ demand' = [demand EXCEPT ![d] = q.row]
    /\ task' = [task EXCEPT ![d] = q.tasks]

\* The reported revisions stay excluded for a technical question; a new request
\* about a network question replaces its context and with it their list.
Forgotten(ds) ==
    [d \in Demands |-> IF d \in ds /\ known[d] = "reported" THEN "yes" ELSE known[d]]

\* queueUnknownKnowledgeDemand.  A repeated request counts as a mishap.
Ask(d) ==
    /\ ~Answered(d)
    /\ IF demand[d].status = "none" THEN UNCHANGED faults ELSE Mishap
    /\ Apply(d, Requested(demand[d], task[d], FALSE))
    /\ known' = Forgotten({d})
    /\ UNCHANGED <<answers, searched, attempted, doc, replays, missed>>

\* The request is logged and its demand is not queued: a deploy, a database error.
AskFails(d) ==
    /\ ~Answered(d) /\ d \notin missed /\ Mishap
    /\ missed' = missed \cup {d}
    /\ UNCHANGED <<demand, task, answers, searched, attempted, doc, known, replays>>

\* A first request that names no platform: learning_context_required.
AskWithoutContext(d) ==
    /\ d \notin Technical /\ demand[d].status = "none" /\ Mishap
    /\ demand' = [demand EXCEPT ![d].status = "unresolved", ![d].code = "context"]
    /\ UNCHANGED <<task, answers, searched, attempted, doc, known, replays, missed>>

\* reportKnowledgeGap: the answer given is reported not to help.
Report(d) ==
    /\ demand[d].status # "none" /\ Mishap
    /\ demand[d].feedback < MaxFeedback
    /\ Apply(d, Requested(demand[d], task[d], TRUE))
    /\ known' = [known EXCEPT ![d] = IF @ = "yes" THEN "reported" ELSE @]
    /\ UNCHANGED <<answers, searched, attempted, doc, replays, missed>>

\* reconcileKnownKnowledgeDemand: a request that is answered closes its demand
\* and skips a diagnosis that no one has claimed.
AskAnswered(d) ==
    /\ Answered(d) /\ demand[d].status \in Open
    /\ demand' = [demand EXCEPT ![d].status = "published", ![d].code = "none"]
    /\ task' = [task EXCEPT ![d].diagnose = IF @.st = "queued" THEN Free ELSE @]
    /\ UNCHANGED <<answers, searched, attempted, doc, known, replays, missed, faults>>

\* next_retry_at passes.
RetryComesDue(d) ==
    /\ ~demand[d].due
    /\ demand' = [demand EXCEPT ![d].due = TRUE]
    /\ UNCHANGED <<task, answers, searched, attempted, doc, known, replays,
                   missed, faults>>

-----------------------------------------------------------------------------
(* Scheduling: ensureStreamingWorkInTransaction is one transaction whose   *)
(* parts run in this order.  Each takes and returns the rows it changes.   *)

\* Mutant: the log is marked as checked and nothing is queued.
CheckedOnly(w) == w

\* recoverUnqueuedKnowledgeDemands
Recovered(w) ==
    LET q(d) == Requested(w.demand[d], w.task[d], FALSE)
    IN [demand |-> [d \in Demands |->
                      IF d \in missed THEN q(d).row ELSE w.demand[d]],
        task |-> [d \in Demands |->
                    IF d \in missed THEN q(d).tasks ELSE w.task[d]],
        answers |-> w.answers, doc |-> w.doc, attempted |-> w.attempted]

\* Mutant: only a demand that waits for its documents is taken back.
FruitlessAcquisition(w, d) ==
    /\ w.demand[d].status = "acquiring"
    /\ Owned(w.doc, d) # {} /\ \A x \in Owned(w.doc, d) : w.doc[x].st = "closed"
    /\ \A c \in Classes : ~Live(w.task[d], c)

\* reconcileCompletedSources, its last part: every document of the demand has
\* come to its end without an answer.
Fruitless(w, d) ==
    /\ w.demand[d].status \in {"acquiring", "processing"}
    /\ Owned(w.doc, d) # {} /\ \A x \in Owned(w.doc, d) : w.doc[x].st = "closed"
    /\ \A c \in Classes : ~Live(w.task[d], c)

Reconciled(w) ==
    [w EXCEPT !.demand = [d \in Demands |->
       IF Fruitless(w, d)
       THEN [@[d] EXCEPT !.status = "unresolved", !.code = "none", !.due = TRUE]
       ELSE @[d]]]

\* reconcileTechnicalDemandFailures: a technical failure beside a document that
\* is still being studied.
Resumed(w) ==
    [w EXCEPT !.demand = [d \in Demands |->
       IF /\ @[d].status = "failed" /\ @[d].code = "system"
          /\ DocTask(w.doc, d, {"studying"})
       THEN [@[d] EXCEPT !.status = "processing", !.due = TRUE]
       ELSE @[d]]]

\* queueSourceWork for the documents at stage from: the demand follows.
Started(w, from, to, status) ==
    [demand |-> [d \in Demands |->
        IF DocTask(w.doc, d, {from}) /\ w.demand[d].status # "published"
        THEN [w.demand[d] EXCEPT !.status = status] ELSE w.demand[d]],
     doc |-> [x \in Docs |->
        IF w.doc[x].st = from THEN [w.doc[x] EXCEPT !.st = to] ELSE w.doc[x]],
     task |-> w.task, answers |-> w.answers, attempted |-> w.attempted]

\* queueDemandDiagnosisWork
Undiagnosed(w, d) ==
    /\ w.demand[d].status \in Open
    /\ w.demand[d].diag \in {"pending", "failed", "queued", "running"}
    /\ w.demand[d].code # "context" /\ w.demand[d].due
    /\ ~Live(w.task[d], "diagnose")

Diagnosed(w) ==
    [demand |-> [d \in Demands |->
        IF Undiagnosed(w, d)
        THEN [w.demand[d] EXCEPT !.status = "diagnosing", !.diag = "queued",
                                 !.code = "none"]
        ELSE w.demand[d]],
     task |-> [d \in Demands |->
        IF Undiagnosed(w, d) THEN [w.task[d] EXCEPT !.diagnose = Queued]
        ELSE w.task[d]],
     answers |-> w.answers, doc |-> w.doc, attempted |-> w.attempted]

\* The linked documents of queueTechnicalAnswer that have text, and of their
\* spans those that no row of the current feedback has used.
Linked(w, d) ==
    {x \in Docs : /\ w.doc[x].text
                  /\ \/ w.doc[x].owner = d
                     \/ x \in attempted[d] \cup searched[d]}

\* Mutant: the spans of a row that came to no result may be used again.
UnusedByResults(w, d) ==
    Linked(w, d) \ UNION {a.refs : a \in {b \in w.answers[d] :
                            /\ b.feedback = w.demand[d].feedback
                            /\ b.status \in {"published", "unresolved"}}}

Unused(w, d) ==
    Linked(w, d) \ UNION {a.refs : a \in {b \in w.answers[d] :
                                            b.feedback = w.demand[d].feedback}}

\* queueTechnicalAnswer: demands to be drafted now.
Draftable(w) ==
    {d \in Technical :
       /\ w.demand[d].status \in Open /\ w.demand[d].diag = "completed"
       /\ w.demand[d].code # "context"
       /\ ~Live(w.task[d], "answer") /\ Unused(w, d) # {}}

\* The spans a draft is given: as many as fit, the ranking left open.
Selections(w, d) ==
    LET unused == Unused(w, d)
        size == IF Cardinality(unused) <= Spans THEN Cardinality(unused) ELSE Spans
    IN {refs \in SUBSET unused : Cardinality(refs) = size}

Drafting(w, spans) ==
    [answers |-> [d \in Demands |->
        IF d \in DOMAIN spans
        THEN w.answers[d] \cup
               {[feedback |-> w.demand[d].feedback, refs |-> spans[d],
                 status |-> "drafting", result |-> "none"]}
        ELSE w.answers[d]],
     task |-> [d \in Demands |->
        IF d \in DOMAIN spans
        THEN [w.task[d] EXCEPT !.answer = Queued,
                               !.work = [kind |-> "draft", refs |-> spans[d],
                                         feedback |-> w.demand[d].feedback]]
        ELSE w.task[d]],
     demand |-> [d \in Demands |->
        IF d \in DOMAIN spans
        THEN [w.demand[d] EXCEPT !.status = "processing", !.code = "none"]
        ELSE w.demand[d]],
     doc |-> w.doc, attempted |-> w.attempted]

\* A review has named what to search for next: focused_technical_discovery.
Focused(w, d) ==
    \E a \in w.answers[d] : a.status \in {"published", "unresolved"}
                            /\ a.result = "searchable"

\* queueDemandDiscoveryWork: demands to be searched for now.
Searchable(w) ==
    {d \in Demands :
       /\ \/ w.demand[d].status \in {"queued", "unresolved", "failed"}
          \/ d \in Technical /\ w.demand[d].status = "processing"
       /\ w.demand[d].code # "context" /\ w.demand[d].diag = "completed"
       /\ w.demand[d].due
       /\ ~Live(w.task[d], "search") /\ ~Live(w.task[d], "diagnose")
       /\ ~DocTask(w.doc, d, {"preparing"})
       /\ IF d \in Technical THEN Live(w.task[d], "answer") => Focused(w, d)
          ELSE ~DocTask(w.doc, d, {"studying"})}

\* A finished document that demand d may study again: nobody else's, and not
\* already tried for d (its content does not change).
Reusable(docs, open, d) ==
    {x \in Docs : /\ docs[x].st = "closed" /\ docs[x].text
                  /\ docs[x].owner \in {None, d} \cup (Demands \ open)
                  /\ x \notin attempted[d]}

\* reuseDuplicateSourcesForKnowledgeDemand for the documents that winner gives
\* to a demand.
Reused(docs, winner) ==
    [x \in Docs |-> IF winner[x] = None THEN docs[x]
                    ELSE [docs[x] EXCEPT !.st = "prepared", !.owner = winner[x]]]

\* The ways to share the reusable documents among the network demands that
\* search; a technical demand always asks for a new search.
Sharings(w) ==
    LET open == {d \in Demands : w.demand[d].status \in Open}
        wanters(x) == {d \in Searchable(w) \ Technical : x \in Reusable(w.doc, open, d)}
    IN {winner \in [Docs -> Demands \cup {None}] :
          \A x \in Docs : IF wanters(x) = {} THEN winner[x] = None
                          ELSE winner[x] \in wanters(x)}

Won(winner) == {winner[x] : x \in Docs} \ {None}

Searching(w, winner) ==
    LET new == Searchable(w) \ Won(winner)
    IN [doc |-> Reused(w.doc, winner),
        attempted |-> [d \in Demands |->
           w.attempted[d] \cup {x \in Docs : winner[x] = d}],
        demand |-> [d \in Demands |->
           IF d \in Won(winner)
           THEN [w.demand[d] EXCEPT !.status = "processing", !.code = "none",
                                    !.due = TRUE]
           ELSE IF d \in new
           THEN [w.demand[d] EXCEPT !.status = "discovering", !.code = "none"]
           ELSE w.demand[d]],
        task |-> [d \in Demands |->
           IF d \in new THEN [w.task[d] EXCEPT !.search = Queued] ELSE w.task[d]],
        answers |-> w.answers]

World == [demand |-> demand, task |-> task, answers |-> answers, doc |-> doc,
          attempted |-> attempted]

\* queueUrgentDemandWork starts the study of prepared documents last.
Schedule ==
    /\ UNCHANGED <<searched, replays, faults>>
    /\ missed' = {} /\ known' = Forgotten(missed)
    /\ \E w0 \in {Resumed(Reconciled(Recovered(World)))} :
       \E w1 \in {Diagnosed(Started(w0, "approved", "preparing", "acquiring"))} :
       \E spans \in {f \in [Draftable(w1) -> SUBSET Docs] :
                       \A d \in Draftable(w1) : f[d] \in Selections(w1, d)} :
       \E w2 \in {Drafting(w1, spans)} :
       \E winner \in Sharings(w2) :
       \E w3 \in {Started(Searching(w2, winner), "prepared", "studying", "processing")} :
         /\ w3 # World \/ missed # {}
         /\ demand' = w3.demand /\ task' = w3.task /\ answers' = w3.answers
         /\ doc' = w3.doc /\ attempted' = w3.attempted

-----------------------------------------------------------------------------
(* Workers.                                                                *)

\* leasePipelineTask; a diagnosis marks its demand.
Claim(d, c) ==
    /\ task[d][c].st = "queued"
    /\ task' = [task EXCEPT ![d][c] = [st |-> "running", n |-> @.n + 1]]
    /\ demand' = IF c = "diagnose" /\ demand[d].status # "published"
                 THEN [demand EXCEPT ![d].status = "diagnosing", ![d].diag = "running"]
                 ELSE demand
    /\ UNCHANGED <<answers, searched, attempted, doc, known, replays, missed, faults>>

\* reconcileExpiredLeases leaves the demand alone, also after the last attempt.
LeaseExpires(d, c) ==
    /\ task[d][c].st = "running" /\ Mishap
    /\ task' = [task EXCEPT ![d][c] =
                  IF @.n >= AttemptLimit THEN Free ELSE [@ EXCEPT !.st = "queued"]]
    /\ UNCHANGED <<demand, answers, searched, attempted, doc, known, replays, missed>>

\* demandFailureDisposition and the demand part of failPipelineTask.
\* c names the class of the task, doc tasks being "prepare" and "study".
AfterFailure(r, c, kind, retrying, code) ==
    IF r.status = "published" THEN r
    ELSE LET keep == c = "study" \/ (c = "answer" /\ kind # "publish")
             restart == ~retrying /\ c \in {"search", "prepare"}
         IN [r EXCEPT
               !.status = IF c = "diagnose"
                          THEN IF retrying THEN "diagnosing" ELSE "failed"
                          ELSE IF keep THEN "processing"
                          ELSE IF ~retrying THEN "failed"
                          ELSE IF c = "search" THEN "discovering"
                          ELSE IF c = "prepare" THEN "acquiring"
                          ELSE "processing",
               !.diag = IF c # "diagnose" THEN @
                        ELSE IF retrying THEN "queued" ELSE "failed",
               !.code = code,
               !.due = IF c = "diagnose" THEN retrying
                       ELSE keep \/ restart \/ retrying]

MayRetry(d, c) == task[d][c].n < AttemptLimit

\* failPipelineTask: some failures are final at once, others on the last attempt.
Fail(d, c, retrying, code) ==
    /\ task[d][c].st = "running" /\ Mishap
    /\ retrying => MayRetry(d, c)
    /\ task' = [task EXCEPT ![d][c] =
                  IF retrying THEN [@ EXCEPT !.st = "queued"] ELSE Free]
    /\ demand' = [demand EXCEPT
                    ![d] = AfterFailure(@, c, task[d].work.kind, retrying, code)]
    /\ UNCHANGED <<answers, searched, attempted, doc, known, replays, missed>>

\* The demand after its diagnosis, whatever its status is by now.
AfterDiagnosis(r, complete) ==
    [r EXCEPT !.status = IF complete THEN "published" ELSE "queued",
              !.diag = "completed", !.code = "none", !.due = complete => @]

\* submitDemandDiagnosis replays the question: a complete network answer closes
\* the demand, everything else sends it to discovery.
SubmitDiagnosis(d, complete) ==
    /\ task[d].diagnose.st = "running"
    /\ complete => d \notin Technical /\ known[d] = "yes"
    /\ task' = [task EXCEPT ![d].diagnose = Free]
    /\ demand' = [demand EXCEPT ![d] = AfterDiagnosis(@, complete)]
    /\ UNCHANGED <<answers, searched, attempted, doc, known, replays, missed, faults>>

\* submitSourceDiscovery: found are the documents that pass the preflight.  New
\* ones are approved for the demand, finished ones are studied again.
NewSources(found) == {x \in found : doc[x].st = "absent"}
ReusedSources(found, d) ==
    IF demand[d].status = "published" THEN {}
    ELSE (found \ NewSources(found)) \cap
           Reusable(doc, {e \in Demands : demand[e].status \in Open}, d)

\* The demand after its search.
AfterSearch(r, new, reused) ==
    IF r.status = "published" THEN r
    ELSE [r EXCEPT !.status = IF new # {} THEN "acquiring"
                              ELSE IF reused # {} THEN "processing" ELSE "unresolved",
                   !.code = "none",
                   !.due = new \cup reused # {}]

SubmitDiscovery(d, found) ==
    LET new == NewSources(found)
        reused == ReusedSources(found, d)
    IN /\ task[d].search.st = "running"
       /\ task' = [task EXCEPT ![d].search = Free]
       /\ doc' = [x \in Docs |->
            IF x \in new THEN [st |-> "approved", owner |-> d, text |-> FALSE]
            ELSE IF x \in reused THEN [doc[x] EXCEPT !.st = "prepared", !.owner = d]
            ELSE doc[x]]
       /\ attempted' = [attempted EXCEPT ![d] = @ \cup reused]
       /\ searched' = [searched EXCEPT ![d] = @ \cup found]
       /\ demand' = [demand EXCEPT ![d] = AfterSearch(@, new, reused)]
       /\ UNCHANGED <<answers, known, replays, missed, faults>>

\* The row an answer task works for.
RowOf(d) == CHOOSE a \in answers[d] : /\ a.feedback = task[d].work.feedback
                                      /\ a.refs = task[d].work.refs
SetRow(d, row) == answers' = [answers EXCEPT ![d] = (@ \ {RowOf(d)}) \cup {row}]

\* Mutant: a worker's snapshot is current whatever was reported meanwhile.
AnySnapshot(d) == task[d].work.kind # "none"

\* currentSnapshot: the question and the reported gaps are still the same.
currentSnapshot(d) ==
    task[d].work.kind # "none" /\ task[d].work.feedback = demand[d].feedback

\* recordTechnicalGap
WithGap(r, context) ==
    [r EXCEPT !.status = "unresolved", !.due = TRUE,
              !.code = IF context THEN "context" ELSE "none"]

Done(d) == [task[d] EXCEPT !.answer = Free, !.work = NoWork]
Then(d, kind) == [task[d] EXCEPT !.answer = Queued, !.work.kind = kind]

Superseded(d, kinds) ==
    /\ task[d].answer.st = "running" /\ task[d].work.kind \in kinds
    /\ ~currentSnapshot(d)
    /\ SetRow(d, [RowOf(d) EXCEPT !.status = "superseded", !.result = "none"])
    /\ task' = [task EXCEPT ![d] = Done(d)]
    /\ UNCHANGED <<demand, searched, attempted, doc, known, replays, missed, faults>>

\* submitTechnicalArtifact of a draft.
SubmitDraft(d) ==
    /\ task[d].answer.st = "running" /\ task[d].work.kind = "draft"
    /\ currentSnapshot(d)
    /\ SetRow(d, [RowOf(d) EXCEPT !.status = "review_queued"])
    /\ task' = [task EXCEPT ![d] = Then(d, "review")]
    /\ UNCHANGED <<demand, searched, attempted, doc, known, replays, missed, faults>>

\* submitTechnicalArtifact of a review.  assertTechnicalReviewCoverage: what is
\* approved answers something.  Its gap, if any, is recorded when it is published.
SubmitReview(d, approved, result, context) ==
    /\ task[d].answer.st = "running" /\ task[d].work.kind = "review"
    /\ currentSnapshot(d)
    /\ IF approved THEN result # "none" /\ ~context
       ELSE result \in {"none", "searchable"}
    /\ SetRow(d, [RowOf(d) EXCEPT
                    !.status = IF approved THEN "publication_queued" ELSE "unresolved",
                    !.result = result])
    /\ task' = [task EXCEPT ![d] = IF approved THEN Then(d, "publish") ELSE Done(d)]
    /\ demand' = IF approved THEN demand
                 ELSE [demand EXCEPT ![d] = WithGap(@, context)]
    /\ UNCHANGED <<searched, attempted, doc, known, replays, missed, faults>>

\* publishTechnicalAnswer: only a complete answer closes the demand.
PublishAnswer(d, context) ==
    /\ task[d].answer.st = "running" /\ task[d].work.kind = "publish"
    /\ currentSnapshot(d)
    /\ SetRow(d, [RowOf(d) EXCEPT !.status = "published"])
    /\ task' = [task EXCEPT ![d] = Done(d)]
    /\ IF RowOf(d).result = "complete"
       THEN /\ ~context
            /\ demand' = [demand EXCEPT ![d].status = "published", ![d].code = "none"]
       ELSE demand' = [demand EXCEPT ![d] = WithGap(@, context)]
    /\ UNCHANGED <<searched, attempted, doc, known, replays, missed, faults>>

-----------------------------------------------------------------------------
(* Documents and their owners.                                             *)

\* submitSourceChunks: the document has text; an unrelated one is rejected with it.
DocumentPrepared(x) ==
    /\ doc[x].st = "preparing"
    /\ \E st \in {"prepared", "closed"} :
         doc' = [doc EXCEPT ![x].st = st, ![x].text = TRUE]
    /\ UNCHANGED <<demand, task, answers, searched, attempted, known, replays,
                   missed, faults>>

\* failPipelineTask of a document's own task; a final failure closes it.
DocumentFails(x, retrying, code) ==
    LET c == IF doc[x].st = "preparing" THEN "prepare" ELSE "study"
    IN /\ doc[x].st \in {"preparing", "studying"} /\ Mishap
       /\ doc' = IF c = "prepare" /\ ~retrying
                 THEN [doc EXCEPT ![x].st = "closed"] ELSE doc
       /\ demand' = [demand EXCEPT
                       ![doc[x].owner] = AfterFailure(@, c, "none", retrying, code)]
       /\ UNCHANGED <<task, answers, searched, attempted, known, replays, missed>>

\* A publication batch of the document's facts; its worker will replay the demand.
DocumentPublishes(x) ==
    /\ doc[x].st = "studying" /\ doc[x].owner \notin Technical
    /\ \E answers_it \in BOOLEAN :
         known' = IF answers_it THEN [known EXCEPT ![doc[x].owner] = "yes"] ELSE known
    /\ replays' = replays \cup {doc[x].owner}
    /\ UNCHANGED <<demand, task, answers, searched, attempted, doc, missed, faults>>

DocumentSettles(x) ==
    /\ doc[x].st = "studying"
    /\ doc' = [doc EXCEPT ![x].st = "closed"]
    /\ UNCHANGED <<demand, task, answers, searched, attempted, known, replays,
                   missed, faults>>

\* reconcilePublishedKnowledgeDemands
Replay(d) ==
    /\ d \in replays /\ replays' = replays \ {d}
    /\ demand' = IF known[d] = "yes" /\ demand[d].status \in Open
                 THEN [demand EXCEPT ![d].status = "published", ![d].code = "none"]
                 ELSE demand
    /\ UNCHANGED <<task, answers, searched, attempted, doc, known, missed, faults>>

\* The worker stops between a publication and its replay.
WorkerStops ==
    /\ replays # {} /\ Mishap /\ replays' = {}
    /\ UNCHANGED <<demand, task, answers, searched, attempted, doc, known, missed>>

\* The release that held the answer is rolled back.
Withdraw(d) ==
    /\ known[d] # "no" /\ Mishap /\ known' = [known EXCEPT ![d] = "no"]
    /\ UNCHANGED <<demand, task, answers, searched, attempted, doc, replays, missed>>

-----------------------------------------------------------------------------
Request(d) ==
    \/ Ask(d)
    \/ AskFails(d)
    \/ AskWithoutContext(d)
    \/ Report(d)
    \/ AskAnswered(d)

Submit(d, c) ==
    \/ c = "diagnose" /\ \E complete \in BOOLEAN : SubmitDiagnosis(d, complete)
    \/ c = "search" /\ \E found \in SUBSET Docs : SubmitDiscovery(d, found)
    \/ /\ c = "answer"
       /\ \/ Superseded(d, {"draft", "review", "publish"})
          \/ SubmitDraft(d)
          \/ \E approved, context \in BOOLEAN, result \in Results :
               SubmitReview(d, approved, result, context)
          \/ \E context \in BOOLEAN : PublishAnswer(d, context)

Failure(d, c) ==
    \/ LeaseExpires(d, c)
    \/ \E retrying \in BOOLEAN, code \in {"system", "none"} :
         Fail(d, c, retrying, code)

DocumentStep(x) ==
    \/ DocumentPrepared(x)
    \/ DocumentSettles(x)

DocumentEvent(x) ==
    \/ DocumentPublishes(x)
    \/ \E retrying \in BOOLEAN, code \in {"system", "none"} :
         DocumentFails(x, retrying, code)

Next ==
    \/ Schedule
    \/ \E d \in Demands : \/ Request(d)
                          \/ RetryComesDue(d)
                          \/ Replay(d)
                          \/ Withdraw(d)
    \/ \E d \in Demands, c \in Classes : \/ Claim(d, c)
                                         \/ Submit(d, c)
                                         \/ Failure(d, c)
    \/ \E x \in Docs : DocumentStep(x) \/ DocumentEvent(x)
    \/ WorkerStops

Spec == Init /\ [][Next]_vars

\* The scheduler runs after every submission and heartbeat, the executors claim
\* what is queued and end what they claimed, and time passes.
Fairness ==
    /\ WF_vars(Schedule)
    /\ \A d \in Demands : WF_vars(RetryComesDue(d))
    /\ \A d \in Demands, c \in Classes : WF_vars(Claim(d, c) \/ Submit(d, c))
    /\ \A x \in Docs : WF_vars(DocumentStep(x))

FairSpec == Spec /\ Fairness

-----------------------------------------------------------------------------
(* Properties.                                                             *)

\* A technical demand is closed only while an answer that a review found
\* complete is published for the question with every gap reported so far: a
\* draft written before a report never closes the demand that the report
\* reopened (currentSnapshot).
PublishedDemandIsAnswered ==
    \A d \in Technical : demand[d].status = "published" => Answered(d)

\* One evidence span is put before the drafter once for a question and its
\* reported gaps, whatever became of the earlier draft (the used spans of
\* queueTechnicalAnswer).
NoEvidenceTwice ==
    \A d \in Technical : \A a, b \in answers[d] :
      a # b /\ a.feedback = b.feedback => a.refs \cap b.refs = {}

\* The search of d was given up because the lease of its last attempt expired:
\* the scheduler does not look for such a demand again.
SearchLost(d) == demand[d].status = "discovering" /\ task[d].search = Free

\* An unanswered request is a durable learning goal: unless it is answered,
\* needs more context from its user or has lost its search to an expired lease,
\* it is searched for again and again.
ResearchNeverStops ==
    \A d \in Demands :
      []<>(\/ demand[d].status \in {"none", "published"} \/ demand[d].code = "context"
           \/ task[d].search.st = "running" \/ SearchLost(d))

\* A request that was logged while its demand could not be queued is learned.
MissedRequestIsLearned ==
    \A d \in Demands : d \in missed ~> demand[d].status # "none"
==============================================================================
