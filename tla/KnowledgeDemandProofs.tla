------------------------ MODULE KnowledgeDemandProofs ------------------------
(***************************************************************************)
(* Safety of KnowledgeDemand for every number of demands, documents,       *)
(* attempts and reports: the types, that a technical demand is closed only *)
(* while its question is answered, and that no evidence is put before the  *)
(* drafter twice.  The two rest on one another: an answer task names its   *)
(* row by feedback and evidence, so only because no two rows share their   *)
(* evidence does a worker never overwrite the answer that closed a demand  *)
(* (Rows).                                                                 *)
(***************************************************************************)
EXTENDS KnowledgeDemand, FiniteSetTheorems, TLAPS

\* A task that waits may be attempted once more.
Slots(k) == \A c \in Classes : k[c].st = "queued" => k[c].n < AttemptLimit

InWork == {"drafting", "review_queued", "publication_queued"}

\* The answers of a demand in row r with tasks k: they have evidence, no two of
\* one question share any, the task at work has its row among those that are
\* not done, and a closed technical demand has its answer.
Rows(r, k, A) ==
    /\ \A a \in A : a.refs # {}
    /\ \A a, b \in A :
          a # b /\ a.feedback = b.feedback => a.refs \cap b.refs = {}
    /\ k.work.kind # "none" =>
          \E a \in A : /\ a.feedback = k.work.feedback /\ a.refs = k.work.refs
                       /\ a.status \in InWork
    /\ r.domain = "technical" /\ r.status = "published" =>
          \E a \in A : /\ a.status = "published" /\ a.result = "complete"
                       /\ a.feedback = r.feedback

\* A document that is worked on has an owner.
DocOwned(y) ==
    y.st \in {"approved", "preparing", "prepared", "studying"} =>
        y.owner \in Demands

Worlds == [demand : [Demands -> Demand], task : [Demands -> Tasks],
           answers : [Demands -> SUBSET Answer], doc : [Docs -> Doc],
           attempted : [Demands -> SUBSET Docs]]

\* What holds of the rows before, between and after the parts of Schedule.
GoodWorld(w) ==
    /\ w \in Worlds
    /\ \A d \in Demands :
          /\ w.demand[d].domain = demand[d].domain
          /\ Slots(w.task[d])
          /\ Rows(w.demand[d], w.task[d], w.answers[d])
    /\ \A x \in Docs : DocOwned(w.doc[x])

\* The replays are of network demands, and so is what a release answers.
LedgerInv ==
    /\ known \in [Demands -> {"no", "yes", "reported"}]
    /\ \A d \in Demands : demand[d].domain = "technical" => known[d] = "no"
    /\ searched \in [Demands -> SUBSET Docs]
    /\ replays \subseteq Demands /\ missed \subseteq Demands
    /\ faults \in 0..MaxFaults

Inv == GoodWorld(World) /\ LedgerInv

-----------------------------------------------------------------------------
(* Rows of demands and of tasks.                                            *)

\* s is r after a step that asks the same question and does not close it.
Follows(r, s) ==
    /\ s \in Demand
    /\ s.domain = r.domain /\ s.feedback = r.feedback
    /\ s.status = "published" => r.status = "published"

\* m is k after a step that leaves the work of the answer task.
KeepsWork(k, m) == m \in Tasks /\ Slots(m) /\ m.work = k.work

LEMMA Bounds ==
    /\ MaxFeedback \in Nat /\ MaxFaults \in Nat
    /\ AttemptLimit \in Nat /\ AttemptLimit > 0
    /\ Spans \in Nat /\ Spans > 0
    /\ None \notin Demands /\ IsFiniteSet(Docs)
    /\ Free \in Slot /\ Queued \in Slot
    /\ Free.st = "none" /\ Queued.st = "queued" /\ Queued.n = 0
BY KnowledgeDemandAssumption DEF Free, Queued, Slot

LEMMA SlotTypes ==
  ASSUME NEW k \in Tasks, NEW c \in Classes
  PROVE  k[c] \in Slot /\ k.work \in Work
BY DEF Tasks, Classes

LEMMA SlotChanged ==
  ASSUME NEW k \in Tasks, Slots(k), NEW c \in Classes, NEW s \in Slot,
         s.st = "queued" => s.n < AttemptLimit
  PROVE  KeepsWork(k, [k EXCEPT ![c] = s])
<1> DEFINE m == [k EXCEPT ![c] = s]
<1>1. m \in Tasks /\ m.work = k.work
  BY DEF Tasks, Classes
<1>2. m[c] = s /\ \A e \in Classes \ {c} : m[e] = k[e]
  BY DEF Tasks, Classes
<1> HIDE DEF m
<1>3. Slots(m)
  BY <1>2 DEF Slots
<1> QED BY <1>1, <1>3 DEF KeepsWork, m

LEMMA SameWork == ASSUME NEW k \in Tasks, Slots(k) PROVE KeepsWork(k, k)
BY DEF KeepsWork

LEMMA RowsFollow ==
  ASSUME NEW r, NEW k, NEW A, NEW s, NEW m, Rows(r, k, A),
         Follows(r, s), KeepsWork(k, m)
  PROVE  Rows(s, m, A)
BY DEF Rows, Follows, KeepsWork

\* A request opens a demand, and a report asks a new question.
LEMMA RequestedRow ==
  ASSUME NEW r \in Demand, NEW k \in Tasks, Slots(k), NEW reported \in BOOLEAN,
         reported => r.feedback < MaxFeedback
  PROVE  /\ Requested(r, k, reported).row \in Demand
         /\ Requested(r, k, reported).row.domain = r.domain
         /\ Requested(r, k, reported).row.status # "published"
         /\ ~reported => Requested(r, k, reported).row.feedback = r.feedback
         /\ KeepsWork(k, Requested(r, k, reported).tasks)
<1> USE Bounds
<1> DEFINE u == Upserted(r, reported)
           asks == Live(k, "diagnose") \/ u.status = "diagnosing"
<1>1. /\ u \in Demand /\ u.domain = r.domain /\ u.status # "published"
      /\ ~reported => u.feedback = r.feedback
  <2>1. /\ u.domain = r.domain
        /\ u.status \in {"unresolved", "diagnosing", "queued", "discovering",
                         "acquiring", "processing"}
        /\ u.diag \in {"pending", "queued", "running", "completed", "failed"}
        /\ u.code \in {"none", r.code}
        /\ u.due = TRUE
        /\ u.feedback = IF reported /\ r.domain = "technical"
                        THEN r.feedback + 1 ELSE r.feedback
    BY DEF Upserted, Demand, Open
  <2>2. u = [domain |-> u.domain, status |-> u.status, diag |-> u.diag,
             code |-> u.code, due |-> u.due, feedback |-> u.feedback]
    BY DEF Upserted
  <2>3. u.feedback \in 0..MaxFeedback /\ r.domain \in Domains
        /\ r.code \in {"none", "context", "system"}
    BY <2>1 DEF Demand
  <2> HIDE DEF u
  <2>4. u.status \in Open \cup {"none", "published"} /\ u.status # "published"
    BY <2>1 DEF Open
  <2>5. /\ u.code \in {"none", "context", "system"} /\ u.due \in BOOLEAN
        /\ u.domain \in Domains
    BY <2>1, <2>3
  <2>6. u \in Demand
    BY <2>1, <2>2, <2>3, <2>4, <2>5 DEF Demand
  <2>7. ~reported => u.feedback = r.feedback
    BY <2>1
  <2>8. u.domain = r.domain
    BY <2>1
  <2> QED BY <2>4, <2>6, <2>7, <2>8
<1> HIDE DEF u
<1> DEFINE v == [u EXCEPT !.diag = "queued", !.status = "diagnosing"]
<1>2. /\ v \in Demand /\ v.domain = u.domain /\ v.status # "published"
      /\ v.feedback = u.feedback
  BY <1>1 DEF Demand, Open
<1> HIDE DEF v
<1>4. Requested(r, k, reported).row = IF asks THEN v ELSE u
  BY DEF Requested, u, v
<1>5. Requested(r, k, reported).tasks =
        IF asks /\ ~Live(k, "diagnose")
        THEN [k EXCEPT !.diagnose = Queued] ELSE k
  BY DEF Requested, u
<1>3. KeepsWork(k, IF asks /\ ~Live(k, "diagnose")
                   THEN [k EXCEPT !.diagnose = Queued] ELSE k)
  <2>1. KeepsWork(k, [k EXCEPT !["diagnose"] = Queued])
    BY SlotChanged DEF Classes
  <2> QED BY <2>1, SameWork
<1> QED BY <1>1, <1>2, <1>3, <1>4, <1>5

LEMMA FailedRow ==
  ASSUME NEW r \in Demand,
         NEW c \in {"diagnose", "search", "answer", "prepare", "study"},
         NEW kind, NEW retrying \in BOOLEAN, NEW code \in {"system", "none"}
  PROVE  Follows(r, AfterFailure(r, c, kind, retrying, code))
<1>1. CASE r.status = "published"
  BY <1>1 DEF AfterFailure, Follows
<1>2. CASE r.status # "published"
  <2> DEFINE
        keep == c = "study" \/ (c = "answer" /\ kind # "publish")
        restart == ~retrying /\ c \in {"search", "prepare"}
        st == IF c = "diagnose"
              THEN IF retrying THEN "diagnosing" ELSE "failed"
              ELSE IF keep THEN "processing"
              ELSE IF ~retrying THEN "failed"
              ELSE IF c = "search" THEN "discovering"
              ELSE IF c = "prepare" THEN "acquiring"
              ELSE "processing"
        dg == IF c # "diagnose" THEN r.diag
              ELSE IF retrying THEN "queued" ELSE "failed"
        du == IF c = "diagnose" THEN retrying ELSE keep \/ restart \/ retrying
  <2>1. AfterFailure(r, c, kind, retrying, code) =
           [r EXCEPT !.status = st, !.diag = dg, !.code = code, !.due = du]
    BY <1>2 DEF AfterFailure
  <2>2. st \in Open /\ st # "published"
    BY DEF Open
  <2>3. dg \in {"pending", "queued", "running", "completed", "failed"}
    BY DEF Demand
  <2>4. du \in BOOLEAN
    OBVIOUS
  <2> HIDE DEF st, dg, du
  <2> QED BY <2>1, <2>2, <2>3, <2>4 DEF Follows, Demand, Open
<1> QED BY <1>1, <1>2

-----------------------------------------------------------------------------
(* The parts of Schedule.                                                   *)

LEMMA WorldParts ==
  ASSUME NEW w, GoodWorld(w), NEW d \in Demands
  PROVE  /\ w.demand[d] \in Demand /\ w.task[d] \in Tasks
         /\ Slots(w.task[d]) /\ w.answers[d] \subseteq Answer
BY DEF GoodWorld, Worlds

LEMMA WorldStep ==
  ASSUME NEW w, GoodWorld(w), NEW D, NEW T, NEW X,
         NEW A \in [Demands -> SUBSET Docs],
         D = [d \in Demands |-> D[d]], T = [d \in Demands |-> T[d]],
         \A d \in Demands : Follows(w.demand[d], D[d]),
         \A d \in Demands : KeepsWork(w.task[d], T[d]),
         X = [x \in Docs |-> X[x]],
         \A x \in Docs : X[x] \in Doc /\ DocOwned(X[x])
  PROVE  GoodWorld([demand |-> D, task |-> T, answers |-> w.answers,
                    doc |-> X, attempted |-> A])
<1> DEFINE v == [demand |-> D, task |-> T, answers |-> w.answers,
                 doc |-> X, attempted |-> A]
<1>1. /\ \A d \in Demands : D[d] \in Demand /\ T[d] \in Tasks /\ Slots(T[d])
      /\ \A d \in Demands : D[d].domain = w.demand[d].domain
  BY DEF Follows, KeepsWork
<1>2. v \in Worlds
  BY <1>1 DEF GoodWorld, Worlds
<1>3. \A d \in Demands : Rows(D[d], T[d], w.answers[d])
  BY RowsFollow DEF GoodWorld
<1>4. /\ v.demand = D /\ v.task = T /\ v.answers = w.answers /\ v.doc = X
  OBVIOUS
<1> HIDE DEF v
<1>5. GoodWorld(v)
  BY <1>1, <1>2, <1>3, <1>4 DEF GoodWorld
<1> QED BY <1>5 DEF v

\* A step that leaves the documents.
LEMMA DemandsStep ==
  ASSUME NEW w, GoodWorld(w), NEW D, NEW T,
         D = [d \in Demands |-> D[d]], T = [d \in Demands |-> T[d]],
         \A d \in Demands : Follows(w.demand[d], D[d]),
         \A d \in Demands : KeepsWork(w.task[d], T[d])
  PROVE  GoodWorld([demand |-> D, task |-> T, answers |-> w.answers,
                    doc |-> w.doc, attempted |-> w.attempted])
<1>2. /\ w.attempted \in [Demands -> SUBSET Docs]
      /\ w.doc = [x \in Docs |-> w.doc[x]]
      /\ \A x \in Docs : w.doc[x] \in Doc /\ DocOwned(w.doc[x])
  BY DEF GoodWorld, Worlds
<1> QED BY <1>2, WorldStep

LEMMA RowsOnly ==
  ASSUME NEW w, GoodWorld(w), NEW D, D = [d \in Demands |-> D[d]],
         \A d \in Demands : Follows(w.demand[d], D[d])
  PROVE  GoodWorld([w EXCEPT !.demand = D])
<1>1. [w EXCEPT !.demand = D]
        = [demand |-> D, task |-> w.task, answers |-> w.answers,
           doc |-> w.doc, attempted |-> w.attempted]
  BY DEF GoodWorld, Worlds
<1>2. /\ w.task = [d \in Demands |-> w.task[d]]
      /\ \A d \in Demands : KeepsWork(w.task[d], w.task[d])
  BY SameWork DEF GoodWorld, Worlds
<1>3. GoodWorld([demand |-> D, task |-> w.task, answers |-> w.answers,
                 doc |-> w.doc, attempted |-> w.attempted])
  BY <1>2, DemandsStep
<1> QED BY <1>1, <1>3

LEMMA RecoveredWorld ==
  ASSUME NEW w, GoodWorld(w) PROVE GoodWorld(Recovered(w))
<1> DEFINE q(d) == Requested(w.demand[d], w.task[d], FALSE)
           D == [d \in Demands |->
                   IF d \in missed THEN q(d).row ELSE w.demand[d]]
           T == [d \in Demands |->
                   IF d \in missed THEN q(d).tasks ELSE w.task[d]]
<1>1. Recovered(w) = [demand |-> D, task |-> T, answers |-> w.answers,
                      doc |-> w.doc, attempted |-> w.attempted]
  BY DEF Recovered
<1>2. ASSUME NEW d \in Demands
      PROVE  Follows(w.demand[d], D[d]) /\ KeepsWork(w.task[d], T[d])
  <2>1. /\ w.demand[d] \in Demand /\ w.task[d] \in Tasks /\ Slots(w.task[d])
    BY WorldParts
  <2>2. /\ q(d).row \in Demand /\ q(d).row.domain = w.demand[d].domain
        /\ q(d).row.status # "published"
        /\ q(d).row.feedback = w.demand[d].feedback
        /\ KeepsWork(w.task[d], q(d).tasks)
    BY <2>1, RequestedRow
  <2> HIDE DEF q
  <2> QED BY <2>1, <2>2, SameWork DEF Follows
<1>3. D = [d \in Demands |-> D[d]] /\ T = [d \in Demands |-> T[d]]
  OBVIOUS
<1> HIDE DEF D, T
<1>4. GoodWorld([demand |-> D, task |-> T, answers |-> w.answers,
                 doc |-> w.doc, attempted |-> w.attempted])
  BY <1>2, <1>3, DemandsStep
<1> QED BY <1>1, <1>4

LEMMA ReconciledWorld ==
  ASSUME NEW w, GoodWorld(w) PROVE GoodWorld(Reconciled(w))
<1> DEFINE D == [d \in Demands |->
                   IF Fruitless(w, d)
                   THEN [w.demand[d] EXCEPT !.status = "unresolved",
                                            !.code = "none", !.due = TRUE]
                   ELSE w.demand[d]]
<1>1. Reconciled(w) = [w EXCEPT !.demand = D] /\ D = [d \in Demands |-> D[d]]
  BY DEF Reconciled
<1>2. ASSUME NEW d \in Demands PROVE Follows(w.demand[d], D[d])
  <2>1. w.demand[d] \in Demand
    BY WorldParts
  <2>2. Follows(w.demand[d], [w.demand[d] EXCEPT !.status = "unresolved",
                                                 !.code = "none", !.due = TRUE])
    BY <2>1 DEF Follows, Demand, Open
  <2>3. Follows(w.demand[d], w.demand[d])
    BY <2>1 DEF Follows
  <2>4. D[d] \in {[w.demand[d] EXCEPT !.status = "unresolved",
                                      !.code = "none", !.due = TRUE],
                  w.demand[d]}
    OBVIOUS
  <2> QED BY <2>2, <2>3, <2>4
<1> HIDE DEF D
<1> QED BY <1>1, <1>2, RowsOnly

LEMMA ResumedWorld ==
  ASSUME NEW w, GoodWorld(w) PROVE GoodWorld(Resumed(w))
<1> DEFINE D == [d \in Demands |->
                   IF /\ w.demand[d].status = "failed"
                      /\ w.demand[d].code = "system"
                      /\ DocTask(w.doc, d, {"studying"})
                   THEN [w.demand[d] EXCEPT !.status = "processing", !.due = TRUE]
                   ELSE w.demand[d]]
<1>1. Resumed(w) = [w EXCEPT !.demand = D] /\ D = [d \in Demands |-> D[d]]
  BY DEF Resumed
<1>2. \A d \in Demands : Follows(w.demand[d], D[d])
  BY WorldParts DEF Follows, Demand, Open
<1> HIDE DEF D
<1> QED BY <1>1, <1>2, RowsOnly

LEMMA StartedWorld ==
  ASSUME NEW w, GoodWorld(w), NEW from \in {"approved", "prepared"},
         NEW to \in {"preparing", "studying"},
         NEW status \in {"acquiring", "processing"}
  PROVE  GoodWorld(Started(w, from, to, status))
<1> DEFINE X == [x \in Docs |->
                   IF w.doc[x].st = from THEN [w.doc[x] EXCEPT !.st = to]
                   ELSE w.doc[x]]
           D == [d \in Demands |->
                   IF DocTask(w.doc, d, {from}) /\ w.demand[d].status # "published"
                   THEN [w.demand[d] EXCEPT !.status = status] ELSE w.demand[d]]
<1>1. Started(w, from, to, status)
        = [demand |-> D, task |-> w.task, answers |-> w.answers, doc |-> X,
           attempted |-> w.attempted]
  BY DEF Started
<1>3. D = [d \in Demands |-> D[d]] /\ X = [x \in Docs |-> X[x]]
  OBVIOUS
<1>4. \A d \in Demands : Follows(w.demand[d], D[d])
  BY WorldParts DEF Follows, Demand, Open
<1>5. \A x \in Docs : X[x] \in Doc /\ DocOwned(X[x])
  <2>1. \A x \in Docs : w.doc[x] \in Doc /\ DocOwned(w.doc[x])
    BY DEF GoodWorld, Worlds
  <2> QED BY <2>1 DEF Doc, DocOwned
<1>6. /\ w.task = [d \in Demands |-> w.task[d]]
      /\ \A d \in Demands : KeepsWork(w.task[d], w.task[d])
      /\ w.attempted \in [Demands -> SUBSET Docs]
  BY SameWork DEF GoodWorld, Worlds
<1> HIDE DEF D, X
<1>7. GoodWorld([demand |-> D, task |-> w.task, answers |-> w.answers,
                 doc |-> X, attempted |-> w.attempted])
  BY <1>3, <1>4, <1>5, <1>6, WorldStep
<1> QED BY <1>1, <1>7

LEMMA DiagnosedWorld ==
  ASSUME NEW w, GoodWorld(w) PROVE GoodWorld(Diagnosed(w))
<1> DEFINE D == [d \in Demands |->
                   IF Undiagnosed(w, d)
                   THEN [w.demand[d] EXCEPT !.status = "diagnosing",
                                            !.diag = "queued", !.code = "none"]
                   ELSE w.demand[d]]
           T == [d \in Demands |->
                   IF Undiagnosed(w, d)
                   THEN [w.task[d] EXCEPT !.diagnose = Queued] ELSE w.task[d]]
<1>1. /\ Diagnosed(w) = [demand |-> D, task |-> T, answers |-> w.answers,
                         doc |-> w.doc, attempted |-> w.attempted]
      /\ D = [d \in Demands |-> D[d]] /\ T = [d \in Demands |-> T[d]]
  BY DEF Diagnosed
<1>2. ASSUME NEW d \in Demands PROVE Follows(w.demand[d], D[d])
  <2>1. w.demand[d] \in Demand
    BY WorldParts
  <2>2. Follows(w.demand[d], [w.demand[d] EXCEPT !.status = "diagnosing",
                                    !.diag = "queued", !.code = "none"])
    BY <2>1 DEF Follows, Demand, Open
  <2>3. Follows(w.demand[d], w.demand[d])
    BY <2>1 DEF Follows
  <2>4. D[d] \in {[w.demand[d] EXCEPT !.status = "diagnosing",
                                      !.diag = "queued", !.code = "none"],
                  w.demand[d]}
    OBVIOUS
  <2> QED BY <2>2, <2>3, <2>4
<1>3. ASSUME NEW d \in Demands PROVE KeepsWork(w.task[d], T[d])
  <2>1. w.task[d] \in Tasks /\ Slots(w.task[d])
    BY WorldParts
  <2>2. KeepsWork(w.task[d], [w.task[d] EXCEPT !["diagnose"] = Queued])
    BY <2>1, Bounds, SlotChanged DEF Classes
  <2> QED BY <2>1, <2>2, SameWork
<1> HIDE DEF D, T
<1>4. GoodWorld([demand |-> D, task |-> T, answers |-> w.answers,
                 doc |-> w.doc, attempted |-> w.attempted])
  BY <1>1, <1>2, <1>3, DemandsStep
<1> QED BY <1>1, <1>4

\* A draft of evidence that no row of its question has used.
LEMMA NewRow ==
  ASSUME NEW r, NEW k, NEW A, Rows(r, k, A), NEW S, S # {},
         \A a \in A : a.feedback = r.feedback => S \cap a.refs = {},
         NEW s, Follows(r, s), s.status # "published", NEW m,
         m.work = [kind |-> "draft", refs |-> S, feedback |-> r.feedback]
  PROVE  Rows(s, m, A \cup {[feedback |-> r.feedback, refs |-> S,
                             status |-> "drafting", result |-> "none"]})
<1> DEFINE n == [feedback |-> r.feedback, refs |-> S,
                 status |-> "drafting", result |-> "none"]
<1>1. n.feedback = r.feedback /\ n.refs = S /\ n.status = "drafting"
  OBVIOUS
<1>2. /\ m.work.kind = "draft" /\ m.work.refs = S
      /\ m.work.feedback = r.feedback
  OBVIOUS
<1> HIDE DEF n
<1>3. \A a, b \in A \cup {n} :
         a # b /\ a.feedback = b.feedback => a.refs \cap b.refs = {}
  BY <1>1 DEF Rows
<1>4. \A a \in A \cup {n} : a.refs # {}
  BY <1>1 DEF Rows
<1>5. Rows(s, m, A \cup {n})
  BY <1>1, <1>2, <1>3, <1>4 DEF Rows, InWork
<1> QED BY <1>5 DEF n

LEMMA SelectionFits ==
  ASSUME NEW w, GoodWorld(w), NEW d \in Draftable(w),
         NEW S \in Selections(w, d)
  PROVE  /\ S \subseteq Docs /\ S # {}
         /\ \A a \in w.answers[d] :
               a.feedback = w.demand[d].feedback => S \cap a.refs = {}
<1>1. Unused(w, d) \subseteq Docs
  BY DEF Unused, Linked
<1>2. IsFiniteSet(Unused(w, d)) /\ Unused(w, d) # {}
  BY <1>1, Bounds, FS_Subset DEF Draftable
<1>3. Cardinality(Unused(w, d)) \in Nat /\ Cardinality(Unused(w, d)) # 0
  BY <1>2, FS_CardinalityType, FS_EmptySet
<1>4. S \subseteq Unused(w, d) /\ Cardinality(S) # 0
  BY <1>3, Bounds DEF Selections
<1>5. S # {}
  BY <1>4, FS_EmptySet
<1>6. \A a \in w.answers[d] :
         a.feedback = w.demand[d].feedback => S \cap a.refs = {}
  BY <1>4 DEF Unused
<1> QED BY <1>1, <1>4, <1>5, <1>6

LEMMA DraftingWorld ==
  ASSUME NEW w, GoodWorld(w), NEW spans \in [Draftable(w) -> SUBSET Docs],
         \A d \in Draftable(w) : spans[d] \in Selections(w, d)
  PROVE  GoodWorld(Drafting(w, spans))
<1> DEFINE
      n(d) == [feedback |-> w.demand[d].feedback, refs |-> spans[d],
               status |-> "drafting", result |-> "none"]
      A == [d \in Demands |->
              IF d \in DOMAIN spans THEN w.answers[d] \cup {n(d)}
              ELSE w.answers[d]]
      work(d) == [kind |-> "draft", refs |-> spans[d],
                  feedback |-> w.demand[d].feedback]
      T == [d \in Demands |->
              IF d \in DOMAIN spans
              THEN [w.task[d] EXCEPT !.answer = Queued, !.work = work(d)]
              ELSE w.task[d]]
      D == [d \in Demands |->
              IF d \in DOMAIN spans
              THEN [w.demand[d] EXCEPT !.status = "processing", !.code = "none"]
              ELSE w.demand[d]]
      v == [answers |-> A, task |-> T, demand |-> D, doc |-> w.doc,
            attempted |-> w.attempted]
<1>1. Drafting(w, spans) = v
  BY DEF Drafting
<1>2. ASSUME NEW d \in Demands
      PROVE  /\ D[d] \in Demand /\ D[d].domain = w.demand[d].domain
             /\ T[d] \in Tasks /\ Slots(T[d]) /\ A[d] \subseteq Answer
             /\ Rows(D[d], T[d], A[d])
  <2>1. /\ w.demand[d] \in Demand /\ w.task[d] \in Tasks /\ Slots(w.task[d])
        /\ w.answers[d] \subseteq Answer
        /\ Rows(w.demand[d], w.task[d], w.answers[d])
    BY WorldParts DEF GoodWorld
  <2>2. CASE d \notin DOMAIN spans
    BY <2>1, <2>2
  <2>3. CASE d \in DOMAIN spans
    <3>1. d \in Draftable(w) /\ spans[d] \in Selections(w, d)
      BY <2>3
    <3>2. /\ spans[d] \subseteq Docs /\ spans[d] # {}
          /\ \A a \in w.answers[d] :
                a.feedback = w.demand[d].feedback => spans[d] \cap a.refs = {}
      BY <3>1, SelectionFits
    <3>3. Follows(w.demand[d], D[d]) /\ D[d].status # "published"
      BY <2>1, <2>3 DEF Follows, Demand, Open
    <3>4. /\ work(d) \in Work /\ n(d) \in Answer
      BY <2>1, <3>2 DEF Work, Answer, Results, Demand
    <3> DEFINE m == [w.task[d] EXCEPT !.answer = Queued, !.work = work(d)]
    <3>5. T[d] = m /\ A[d] = w.answers[d] \cup {n(d)}
      BY <2>3
    <3> HIDE DEF work, n, D, A, T
    <3>6. /\ m["diagnose"] = w.task[d]["diagnose"]
          /\ m["search"] = w.task[d]["search"] /\ m["answer"] = Queued
          /\ m.work = work(d)
      BY <2>1 DEF Tasks
    <3>7. m \in Tasks
      BY <2>1, <3>4, Bounds DEF Tasks
    <3> HIDE DEF m
    <3>8. Slots(m)
      BY <3>6, <2>1, Bounds DEF Slots, Classes
    <3>9. Rows(D[d], m, w.answers[d] \cup {n(d)})
      <4>1. m.work = [kind |-> "draft", refs |-> spans[d],
                      feedback |-> w.demand[d].feedback]
        BY <3>6 DEF work
      <4> QED BY <4>1, <2>1, <3>2, <3>3, NewRow DEF n
    <3>10. D[d] \in Demand /\ D[d].domain = w.demand[d].domain
      BY <3>3 DEF Follows
    <3>11. A[d] \subseteq Answer
      BY <2>1, <3>4, <3>5
    <3> QED BY <3>5, <3>7, <3>8, <3>9, <3>10, <3>11
  <2> QED BY <2>2, <2>3
<1>3. /\ D = [d \in Demands |-> D[d]] /\ T = [d \in Demands |-> T[d]]
      /\ A = [d \in Demands |-> A[d]]
  OBVIOUS
<1>4. /\ w.doc \in [Docs -> Doc] /\ w.attempted \in [Demands -> SUBSET Docs]
      /\ \A x \in Docs : DocOwned(w.doc[x])
      /\ \A d \in Demands : w.demand[d].domain = demand[d].domain
  BY DEF GoodWorld, Worlds
<1> HIDE DEF D, T, A
<1>5. v \in Worlds
  BY <1>2, <1>3, <1>4 DEF Worlds
<1>6. /\ v.demand = D /\ v.task = T /\ v.answers = A /\ v.doc = w.doc
  OBVIOUS
<1> HIDE DEF v
<1>7. GoodWorld(v)
  BY <1>2, <1>4, <1>5, <1>6 DEF GoodWorld
<1> QED BY <1>1, <1>7

LEMMA SearchingWorld ==
  ASSUME NEW w, GoodWorld(w), NEW winner \in Sharings(w)
  PROVE  GoodWorld(Searching(w, winner))
<1> DEFINE
      new == Searchable(w) \ Won(winner)
      X == Reused(w.doc, winner)
      A == [d \in Demands |-> w.attempted[d] \cup {x \in Docs : winner[x] = d}]
      D == [d \in Demands |->
           IF d \in Won(winner)
           THEN [w.demand[d] EXCEPT !.status = "processing", !.code = "none",
                                    !.due = TRUE]
           ELSE IF d \in new
           THEN [w.demand[d] EXCEPT !.status = "discovering", !.code = "none"]
           ELSE w.demand[d]]
      T == [d \in Demands |->
           IF d \in new THEN [w.task[d] EXCEPT !.search = Queued] ELSE w.task[d]]
<1>1. Searching(w, winner) = [demand |-> D, task |-> T, answers |-> w.answers,
                              doc |-> X, attempted |-> A]
  BY DEF Searching
<1>2. A \in [Demands -> SUBSET Docs]
  BY DEF GoodWorld, Worlds
<1>3. /\ D = [d \in Demands |-> D[d]] /\ T = [d \in Demands |-> T[d]]
      /\ X = [x \in Docs |-> X[x]]
  BY DEF Reused
<1>4. ASSUME NEW d \in Demands PROVE Follows(w.demand[d], D[d])
  <2>1. w.demand[d] \in Demand
    BY WorldParts
  <2>2. Follows(w.demand[d], [w.demand[d] EXCEPT !.status = "processing",
                                          !.code = "none", !.due = TRUE])
    BY <2>1 DEF Follows, Demand, Open
  <2>3. Follows(w.demand[d], [w.demand[d] EXCEPT !.status = "discovering",
                                          !.code = "none"])
    BY <2>1 DEF Follows, Demand, Open
  <2>4. Follows(w.demand[d], w.demand[d])
    BY <2>1 DEF Follows
  <2>5. D[d] \in {[w.demand[d] EXCEPT !.status = "processing",
                                      !.code = "none", !.due = TRUE],
                  [w.demand[d] EXCEPT !.status = "discovering",
                                      !.code = "none"],
                  w.demand[d]}
    OBVIOUS
  <2> QED BY <2>2, <2>3, <2>4, <2>5
<1>5. ASSUME NEW d \in Demands PROVE KeepsWork(w.task[d], T[d])
  <2>1. w.task[d] \in Tasks /\ Slots(w.task[d])
    BY WorldParts
  <2>2. KeepsWork(w.task[d], [w.task[d] EXCEPT !["search"] = Queued])
    BY <2>1, Bounds, SlotChanged DEF Classes
  <2> QED BY <2>1, <2>2, SameWork
<1>6. ASSUME NEW x \in Docs PROVE X[x] \in Doc /\ DocOwned(X[x])
  <2>1. w.doc[x] \in Doc /\ DocOwned(w.doc[x])
    BY DEF GoodWorld, Worlds
  <2>2. winner[x] \in Demands \cup {None}
    BY DEF Sharings
  <2> QED BY <2>1, <2>2 DEF Reused, Doc, DocOwned
<1> HIDE DEF D, T, X, A
<1>7. GoodWorld([demand |-> D, task |-> T, answers |-> w.answers,
                 doc |-> X, attempted |-> A])
  BY <1>2, <1>3, <1>4, <1>5, <1>6, WorldStep
<1> QED BY <1>1, <1>7

-----------------------------------------------------------------------------
(* The invariant as each action sees it.                                    *)

RowsInv ==
    /\ demand \in [Demands -> Demand] /\ task \in [Demands -> Tasks]
    /\ answers \in [Demands -> SUBSET Answer]
    /\ \A d \in Demands :
          Slots(task[d]) /\ Rows(demand[d], task[d], answers[d])

DocsInv ==
    /\ doc \in [Docs -> Doc] /\ attempted \in [Demands -> SUBSET Docs]
    /\ \A x \in Docs : DocOwned(doc[x])

LEMMA Parts == Inv <=> RowsInv /\ DocsInv /\ LedgerInv
<1>1. /\ World.demand = demand /\ World.task = task /\ World.doc = doc
      /\ World.answers = answers /\ World.attempted = attempted
      /\ World = [demand |-> demand, task |-> task, answers |-> answers,
                  doc |-> doc, attempted |-> attempted]
  BY DEF World
<1>2. World \in Worlds <=>
        /\ demand \in [Demands -> Demand] /\ task \in [Demands -> Tasks]
        /\ answers \in [Demands -> SUBSET Answer]
        /\ doc \in [Docs -> Doc] /\ attempted \in [Demands -> SUBSET Docs]
  BY <1>1 DEF Worlds
<1> QED BY <1>1, <1>2 DEF Inv, GoodWorld, RowsInv, DocsInv

LEMMA PartsNext == Inv' <=> RowsInv' /\ DocsInv' /\ LedgerInv'
BY Parts, PTL

\* The domain of a demand never changes.
Settled == \A d \in Demands : demand'[d].domain = demand[d].domain

\* One demand moves.
LEMMA DemandMoves ==
  ASSUME RowsInv, NEW d \in Demands, NEW s \in Demand, NEW m \in Tasks,
         NEW A \in SUBSET Answer,
         s.domain = demand[d].domain, Slots(m), Rows(s, m, A),
         demand' = [demand EXCEPT ![d] = s], task' = [task EXCEPT ![d] = m],
         answers' = [answers EXCEPT ![d] = A]
  PROVE  RowsInv' /\ Settled
<1>1. /\ demand' \in [Demands -> Demand] /\ task' \in [Demands -> Tasks]
      /\ answers' \in [Demands -> SUBSET Answer]
  BY DEF RowsInv
<1>2. ASSUME NEW e \in Demands
      PROVE  /\ Slots(task'[e]) /\ Rows(demand'[e], task'[e], answers'[e])
             /\ demand'[e].domain = demand[e].domain
  <2>1. CASE e = d
    <3>1. demand'[e] = s /\ task'[e] = m /\ answers'[e] = A
      BY <2>1 DEF RowsInv
    <3> QED BY <2>1, <3>1
  <2>2. CASE e # d
    <3>1. /\ demand'[e] = demand[e] /\ task'[e] = task[e]
          /\ answers'[e] = answers[e]
      BY <2>2 DEF RowsInv
    <3>2. Slots(task[e]) /\ Rows(demand[e], task[e], answers[e])
      BY DEF RowsInv
    <3> QED BY <3>1, <3>2
  <2> QED BY <2>1, <2>2
<1> QED BY <1>1, <1>2 DEF RowsInv, Settled

\* One demand moves and none of its answers.
LEMMA DemandFollows ==
  ASSUME RowsInv, NEW d \in Demands, NEW s, NEW m,
         Follows(demand[d], s), KeepsWork(task[d], m),
         demand' = [demand EXCEPT ![d] = s], task' = [task EXCEPT ![d] = m],
         answers' = answers
  PROVE  RowsInv' /\ Settled
<1>1. /\ s \in Demand /\ s.domain = demand[d].domain
      /\ m \in Tasks /\ Slots(m)
  BY DEF Follows, KeepsWork
<1>2. Rows(s, m, answers[d])
  BY RowsFollow DEF RowsInv
<1>3. answers' = [answers EXCEPT ![d] = answers[d]]
      /\ answers[d] \in SUBSET Answer
  BY DEF RowsInv
<1> QED BY <1>1, <1>2, <1>3, DemandMoves

LEMMA RowsStay ==
  ASSUME RowsInv, UNCHANGED <<demand, task, answers>>
  PROVE  RowsInv' /\ Settled
BY DEF RowsInv, Settled

LEMMA OfDemand ==
  ASSUME RowsInv, NEW d \in Demands
  PROVE  /\ demand[d] \in Demand /\ task[d] \in Tasks /\ Slots(task[d])
         /\ answers[d] \in SUBSET Answer
         /\ Rows(demand[d], task[d], answers[d])
         /\ demand = [demand EXCEPT ![d] = demand[d]]
         /\ task = [task EXCEPT ![d] = task[d]]
         /\ answers = [answers EXCEPT ![d] = answers[d]]
         /\ Follows(demand[d], demand[d]) /\ KeepsWork(task[d], task[d])
BY SameWork DEF RowsInv, Follows

LEMMA DocsStay ==
  ASSUME DocsInv, UNCHANGED <<doc, attempted>> PROVE DocsInv'
BY DEF DocsInv

\* The ledger of a step that moves none of it but the mishaps.
LEMMA LedgerStays ==
  ASSUME LedgerInv, Settled, faults' = faults \/ Mishap,
         UNCHANGED <<known, searched, replays, missed>>
  PROVE  LedgerInv'
BY Bounds DEF LedgerInv, Settled, Mishap

-----------------------------------------------------------------------------
(* The steps.                                                               *)

LEMMA AskInv ==
  ASSUME Inv, NEW d \in Demands, Ask(d) PROVE Inv'
<1>1. RowsInv /\ DocsInv /\ LedgerInv
  BY Parts
<1> DEFINE q == Requested(demand[d], task[d], FALSE)
<1>2. /\ Follows(demand[d], q.row) /\ KeepsWork(task[d], q.tasks)
  BY <1>1, OfDemand, RequestedRow DEF Follows
<1>3. /\ demand' = [demand EXCEPT ![d] = q.row]
      /\ task' = [task EXCEPT ![d] = q.tasks] /\ answers' = answers
  BY DEF Ask, Apply
<1> HIDE DEF q
<1>4. RowsInv' /\ Settled
  BY <1>1, <1>2, <1>3, DemandFollows
<1>5. DocsInv'
  BY <1>1, DocsStay DEF Ask
<1>6. known' = Forgotten({d}) /\ UNCHANGED <<searched, replays, missed>>
      /\ faults' \in 0..MaxFaults
  BY <1>1, Bounds DEF Ask, Mishap, LedgerInv
<1>7. LedgerInv'
  BY <1>1, <1>4, <1>6 DEF LedgerInv, Forgotten, Settled
<1> QED BY <1>4, <1>5, <1>7, PartsNext

LEMMA ReportInv ==
  ASSUME Inv, NEW d \in Demands, Report(d) PROVE Inv'
<1>1. RowsInv /\ DocsInv /\ LedgerInv
  BY Parts
<1> DEFINE q == Requested(demand[d], task[d], TRUE)
<1>2. /\ q.row \in Demand /\ q.row.domain = demand[d].domain
      /\ q.row.status # "published" /\ KeepsWork(task[d], q.tasks)
  BY <1>1, OfDemand, RequestedRow DEF Report
<1>3. /\ demand' = [demand EXCEPT ![d] = q.row]
      /\ task' = [task EXCEPT ![d] = q.tasks] /\ answers' = answers
  BY DEF Report, Apply
<1> HIDE DEF q
<1>a. Rows(q.row, q.tasks, answers[d]) /\ Slots(q.tasks) /\ q.tasks \in Tasks
  BY <1>1, <1>2, OfDemand DEF Rows, KeepsWork
<1>4. RowsInv' /\ Settled
  BY <1>1, <1>2, <1>3, <1>a, OfDemand, DemandMoves
<1>5. DocsInv'
  BY <1>1, DocsStay DEF Report
<1>6. /\ known' = [known EXCEPT ![d] = IF @ = "yes" THEN "reported" ELSE @]
      /\ UNCHANGED <<searched, replays, missed>> /\ faults' \in 0..MaxFaults
  BY <1>1, Bounds DEF Report, Mishap, LedgerInv
<1>7. LedgerInv'
  BY <1>1, <1>4, <1>6 DEF LedgerInv, Settled
<1> QED BY <1>4, <1>5, <1>7, PartsNext

LEMMA AskFailsInv ==
  ASSUME Inv, NEW d \in Demands, AskFails(d) PROVE Inv'
<1>1. RowsInv /\ DocsInv /\ LedgerInv
  BY Parts
<1>2. RowsInv' /\ Settled
  BY <1>1, RowsStay DEF AskFails
<1>3. DocsInv'
  BY <1>1, DocsStay DEF AskFails
<1>4. LedgerInv'
  BY <1>1, <1>2, Bounds DEF AskFails, Mishap, LedgerInv, Settled
<1> QED BY <1>2, <1>3, <1>4, PartsNext

LEMMA AskWithoutContextInv ==
  ASSUME Inv, NEW d \in Demands, AskWithoutContext(d) PROVE Inv'
<1>1. RowsInv /\ DocsInv /\ LedgerInv
  BY Parts
<1> DEFINE s == [demand[d] EXCEPT !.status = "unresolved", !.code = "context"]
<1>2. Follows(demand[d], s)
  BY <1>1, OfDemand DEF Follows, Demand, Open
<1>3. demand' = [demand EXCEPT ![d] = s]
  BY <1>1 DEF AskWithoutContext, RowsInv
<1> HIDE DEF s
<1>4. RowsInv' /\ Settled
  BY <1>1, <1>2, <1>3, OfDemand, DemandFollows DEF AskWithoutContext
<1>5. DocsInv'
  BY <1>1, DocsStay DEF AskWithoutContext
<1>6. LedgerInv'
  BY <1>1, <1>4, LedgerStays DEF AskWithoutContext
<1> QED BY <1>4, <1>5, <1>6, PartsNext

\* A demand is closed: a technical one has its answer.
LEMMA DemandCloses ==
  ASSUME RowsInv, NEW d \in Demands, NEW s, NEW m,
         s \in Demand, s.domain = demand[d].domain,
         s.feedback = demand[d].feedback,
         demand[d].domain = "technical" =>
            \E a \in answers[d] : /\ a.status = "published"
                                  /\ a.result = "complete"
                                  /\ a.feedback = demand[d].feedback,
         KeepsWork(task[d], m),
         demand' = [demand EXCEPT ![d] = s], task' = [task EXCEPT ![d] = m],
         answers' = answers
  PROVE  RowsInv' /\ Settled
<1>1. m \in Tasks /\ Slots(m)
  BY DEF KeepsWork
<1>2. Rows(s, m, answers[d])
  BY OfDemand DEF Rows, KeepsWork
<1>3. answers' = [answers EXCEPT ![d] = answers[d]]
      /\ answers[d] \in SUBSET Answer
  BY DEF RowsInv
<1> QED BY <1>1, <1>2, <1>3, DemandMoves

LEMMA AskAnsweredInv ==
  ASSUME Inv, NEW d \in Demands, AskAnswered(d) PROVE Inv'
<1>1. RowsInv /\ DocsInv /\ LedgerInv
  BY Parts
<1> DEFINE s == [demand[d] EXCEPT !.status = "published", !.code = "none"]
           t == IF task[d].diagnose.st = "queued" THEN Free ELSE task[d].diagnose
           m == [task[d] EXCEPT !["diagnose"] = t]
<1>2. /\ s \in Demand /\ s.domain = demand[d].domain
      /\ s.feedback = demand[d].feedback
  BY <1>1, OfDemand DEF Demand
<1>3. KeepsWork(task[d], m)
  <2>1. t \in Slot /\ (t.st = "queued" => t.n < AttemptLimit)
    BY <1>1, OfDemand, Bounds, SlotTypes DEF Tasks
  <2> HIDE DEF t
  <2> QED BY <1>1, <2>1, OfDemand, SlotChanged DEF Classes
<1>4. /\ demand' = [demand EXCEPT ![d] = s] /\ task' = [task EXCEPT ![d] = m]
  BY <1>1 DEF AskAnswered, RowsInv
<1>5. demand[d].domain = "technical" =>
            \E a \in answers[d] : /\ a.status = "published"
                                  /\ a.result = "complete"
                                  /\ a.feedback = demand[d].feedback
  BY DEF AskAnswered, Answered, Technical
<1> HIDE DEF s, m
<1>6. RowsInv' /\ Settled
  BY <1>1, <1>2, <1>3, <1>4, <1>5, DemandCloses DEF AskAnswered
<1>7. DocsInv' /\ LedgerInv'
  BY <1>1, <1>6, DocsStay, LedgerStays DEF AskAnswered
<1> QED BY <1>6, <1>7, PartsNext

LEMMA RetryComesDueInv ==
  ASSUME Inv, NEW d \in Demands, RetryComesDue(d) PROVE Inv'
<1>1. RowsInv /\ DocsInv /\ LedgerInv
  BY Parts
<1> DEFINE s == [demand[d] EXCEPT !.due = TRUE]
<1>2. Follows(demand[d], s)
  BY <1>1, OfDemand DEF Follows, Demand
<1>3. demand' = [demand EXCEPT ![d] = s]
  BY <1>1 DEF RetryComesDue, RowsInv
<1> HIDE DEF s
<1>4. RowsInv' /\ Settled
  BY <1>1, <1>2, <1>3, OfDemand, DemandFollows DEF RetryComesDue
<1>5. DocsInv' /\ LedgerInv'
  BY <1>1, <1>4, DocsStay, LedgerStays DEF RetryComesDue
<1> QED BY <1>4, <1>5, PartsNext

\* A worker gets to an answer that is published meanwhile.
LEMMA ReplayInv ==
  ASSUME Inv, NEW d \in Demands, Replay(d) PROVE Inv'
<1>1. RowsInv /\ DocsInv /\ LedgerInv
  BY Parts
<1> DEFINE s == IF known[d] = "yes" /\ demand[d].status \in Open
                THEN [demand[d] EXCEPT !.status = "published", !.code = "none"]
                ELSE demand[d]
<1>2. /\ s \in Demand /\ s.domain = demand[d].domain
      /\ s.feedback = demand[d].feedback
  BY <1>1, OfDemand DEF Demand
<1>3. demand' = [demand EXCEPT ![d] = s]
  BY <1>1 DEF Replay, RowsInv
<1>4. RowsInv' /\ Settled
  <2>1. CASE known[d] = "yes"
    <3>1. demand[d].domain # "technical"
      BY <1>1, <2>1 DEF LedgerInv
    <3> HIDE DEF s
    <3> QED BY <1>1, <1>2, <1>3, <3>1, OfDemand, DemandCloses DEF Replay
  <2>2. CASE known[d] # "yes"
    BY <1>1, <2>2, RowsStay DEF Replay
  <2> QED BY <2>1, <2>2
<1>5. DocsInv'
  BY <1>1, DocsStay DEF Replay
<1>6. LedgerInv'
  BY <1>1, <1>4 DEF Replay, LedgerInv, Settled
<1> QED BY <1>4, <1>5, <1>6, PartsNext

LEMMA WithdrawInv ==
  ASSUME Inv, NEW d \in Demands, Withdraw(d) PROVE Inv'
<1>1. RowsInv /\ DocsInv /\ LedgerInv
  BY Parts
<1>2. RowsInv' /\ Settled
  BY <1>1, RowsStay DEF Withdraw
<1>3. DocsInv'
  BY <1>1, DocsStay DEF Withdraw
<1>4. LedgerInv'
  BY <1>1, <1>2, Bounds DEF Withdraw, Mishap, LedgerInv, Settled
<1> QED BY <1>2, <1>3, <1>4, PartsNext

LEMMA WorkerStopsInv ==
  ASSUME Inv, WorkerStops PROVE Inv'
<1>1. RowsInv /\ DocsInv /\ LedgerInv
  BY Parts
<1>2. RowsInv' /\ Settled
  BY <1>1, RowsStay DEF WorkerStops
<1>3. DocsInv'
  BY <1>1, DocsStay DEF WorkerStops
<1>4. LedgerInv'
  BY <1>1, <1>2, Bounds DEF WorkerStops, Mishap, LedgerInv, Settled
<1> QED BY <1>2, <1>3, <1>4, PartsNext

LEMMA InitInv == Init => Inv
<1> SUFFICES ASSUME Init PROVE Inv
  OBVIOUS
<1>1. /\ demand \in [Demands -> Demand]
      /\ \A d \in Demands : demand[d].status = "none"
  BY Bounds DEF Init, Demand
<1>2. /\ task \in [Demands -> Tasks] /\ answers \in [Demands -> SUBSET Answer]
      /\ \A d \in Demands : answers[d] = {} /\ task[d] = NoTasks
  BY Bounds DEF Init, Tasks, NoTasks, Work, NoWork
<1>3. \A d \in Demands : Slots(task[d]) /\ task[d].work.kind = "none"
  BY <1>2 DEF Slots, NoTasks, Classes, Free, NoWork
<1>4. RowsInv
  BY <1>1, <1>2, <1>3 DEF RowsInv, Rows
<1>5. DocsInv
  BY DEF Init, DocsInv, Doc, DocOwned
<1>6. LedgerInv
  BY Bounds DEF Init, LedgerInv
<1> QED BY <1>4, <1>5, <1>6, Parts

LEMMA ScheduleInv == ASSUME Inv, Schedule PROVE Inv'
<1>0. GoodWorld(World) /\ LedgerInv
  BY DEF Inv
<1> DEFINE w0 == Resumed(Reconciled(Recovered(World)))
           w1 == Diagnosed(Started(w0, "approved", "preparing", "acquiring"))
<1>1. GoodWorld(w1)
  <2>1. GoodWorld(w0)
    BY <1>0, RecoveredWorld, ReconciledWorld, ResumedWorld
  <2> HIDE DEF w0
  <2> QED BY <2>1, StartedWorld, DiagnosedWorld
<1> HIDE DEF w1
<1>2. PICK spans \in [Draftable(w1) -> SUBSET Docs] :
        /\ \A d \in Draftable(w1) : spans[d] \in Selections(w1, d)
        /\ \E winner \in Sharings(Drafting(w1, spans)) :
             LET w3 == Started(Searching(Drafting(w1, spans), winner),
                               "prepared", "studying", "processing")
             IN /\ demand' = w3.demand /\ task' = w3.task
                /\ answers' = w3.answers /\ doc' = w3.doc
                /\ attempted' = w3.attempted
  BY DEF Schedule, w1
<1> DEFINE w2 == Drafting(w1, spans)
<1>3. GoodWorld(w2)
  BY <1>1, <1>2, DraftingWorld
<1> HIDE DEF w2
<1>4. PICK winner \in Sharings(w2) :
        LET w3 == Started(Searching(w2, winner),
                          "prepared", "studying", "processing")
        IN /\ demand' = w3.demand /\ task' = w3.task
           /\ answers' = w3.answers /\ doc' = w3.doc
           /\ attempted' = w3.attempted
  BY <1>2 DEF w2
<1> DEFINE w3 == Started(Searching(w2, winner),
                         "prepared", "studying", "processing")
<1>5. GoodWorld(w3)
  <2>1. GoodWorld(Searching(w2, winner))
    BY <1>3, SearchingWorld
  <2> QED BY <2>1, StartedWorld
<1>6. /\ demand' = w3.demand /\ task' = w3.task /\ answers' = w3.answers
      /\ doc' = w3.doc /\ attempted' = w3.attempted
  BY <1>4
<1> HIDE DEF w3
<1>7. RowsInv' /\ DocsInv' /\ Settled
  BY <1>5, <1>6 DEF GoodWorld, Worlds, RowsInv, DocsInv, Settled
<1>8. LedgerInv'
  BY <1>0, <1>7 DEF Schedule, LedgerInv, Forgotten, Settled
<1> QED BY <1>7, <1>8, PartsNext

LEMMA ClaimInv ==
  ASSUME Inv, NEW d \in Demands, NEW c \in Classes, Claim(d, c) PROVE Inv'
<1>1. RowsInv /\ DocsInv /\ LedgerInv
  BY Parts
<1> DEFINE t == [st |-> "running", n |-> task[d][c].n + 1]
           m == [task[d] EXCEPT ![c] = t]
           s == IF c = "diagnose" /\ demand[d].status # "published"
                THEN [demand[d] EXCEPT !.status = "diagnosing", !.diag = "running"]
                ELSE demand[d]
<1>2. task[d] \in Tasks /\ task[d][c] \in Slot /\ task[d][c].n < AttemptLimit
  BY <1>1, OfDemand, SlotTypes DEF Claim, Slots
<1>3. t \in Slot /\ t.st = "running"
  BY <1>2, Bounds DEF Slot
<1>4. task' = [task EXCEPT ![d] = m]
  BY <1>1, <1>2 DEF Claim, RowsInv
<1> HIDE DEF t
<1>5. KeepsWork(task[d], m)
  BY <1>1, <1>3, OfDemand, SlotChanged
<1>6. Follows(demand[d], s)
  BY <1>1, OfDemand DEF Follows, Demand, Open
<1>7. demand' = [demand EXCEPT ![d] = s]
  BY <1>1, OfDemand DEF Claim, RowsInv
<1> HIDE DEF m, s
<1>8. RowsInv' /\ Settled
  BY <1>1, <1>4, <1>5, <1>6, <1>7, DemandFollows DEF Claim
<1>9. DocsInv' /\ LedgerInv'
  BY <1>1, <1>8, DocsStay, LedgerStays DEF Claim
<1> QED BY <1>8, <1>9, PartsNext

LEMMA LeaseExpiresInv ==
  ASSUME Inv, NEW d \in Demands, NEW c \in Classes, LeaseExpires(d, c)
  PROVE  Inv'
<1>1. RowsInv /\ DocsInv /\ LedgerInv
  BY Parts
<1> DEFINE t == IF task[d][c].n >= AttemptLimit THEN Free
                ELSE [task[d][c] EXCEPT !.st = "queued"]
           m == [task[d] EXCEPT ![c] = t]
<1>2. task[d] \in Tasks /\ task[d][c] \in Slot
  BY <1>1, OfDemand, SlotTypes
<1>3. t \in Slot /\ (t.st = "queued" => t.n < AttemptLimit)
  BY <1>2, Bounds DEF Slot
<1>4. task' = [task EXCEPT ![d] = m]
  BY <1>1, <1>2 DEF LeaseExpires, RowsInv
<1> HIDE DEF t
<1>5. KeepsWork(task[d], m)
  BY <1>1, <1>3, OfDemand, SlotChanged
<1> HIDE DEF m
<1>8. RowsInv' /\ Settled
  BY <1>1, <1>4, <1>5, OfDemand, DemandFollows DEF LeaseExpires
<1>9. DocsInv' /\ LedgerInv'
  BY <1>1, <1>8, DocsStay, LedgerStays DEF LeaseExpires
<1> QED BY <1>8, <1>9, PartsNext

LEMMA FailInv ==
  ASSUME Inv, NEW d \in Demands, NEW c \in Classes, NEW retrying \in BOOLEAN,
         NEW code \in {"system", "none"}, Fail(d, c, retrying, code)
  PROVE  Inv'
<1>1. RowsInv /\ DocsInv /\ LedgerInv
  BY Parts
<1> DEFINE t == IF retrying THEN [task[d][c] EXCEPT !.st = "queued"] ELSE Free
           m == [task[d] EXCEPT ![c] = t]
           s == AfterFailure(demand[d], c, task[d].work.kind, retrying, code)
<1>2. task[d] \in Tasks /\ task[d][c] \in Slot
  BY <1>1, OfDemand, SlotTypes
<1>3. t \in Slot /\ (t.st = "queued" => t.n < AttemptLimit)
  BY <1>2, Bounds DEF Slot, Fail, MayRetry
<1>4. task' = [task EXCEPT ![d] = m]
  BY <1>1, <1>2 DEF Fail, RowsInv
<1> HIDE DEF t
<1>5. KeepsWork(task[d], m)
  BY <1>1, <1>3, OfDemand, SlotChanged
<1>6. Follows(demand[d], s)
  BY <1>1, OfDemand, FailedRow DEF Classes
<1>7. demand' = [demand EXCEPT ![d] = s]
  BY <1>1 DEF Fail, RowsInv
<1> HIDE DEF m, s
<1>8. RowsInv' /\ Settled
  BY <1>1, <1>4, <1>5, <1>6, <1>7, DemandFollows DEF Fail
<1>9. DocsInv' /\ LedgerInv'
  BY <1>1, <1>8, DocsStay, LedgerStays DEF Fail
<1> QED BY <1>8, <1>9, PartsNext

LEMMA SubmitDiagnosisInv ==
  ASSUME Inv, NEW d \in Demands, NEW complete \in BOOLEAN,
         SubmitDiagnosis(d, complete)
  PROVE  Inv'
<1>1. RowsInv /\ DocsInv /\ LedgerInv
  BY Parts
<1> DEFINE m == [task[d] EXCEPT !["diagnose"] = Free]
           s == AfterDiagnosis(demand[d], complete)
<1>2. KeepsWork(task[d], m)
  BY <1>1, OfDemand, Bounds, SlotChanged DEF Classes
<1>3. /\ s \in Demand /\ s.domain = demand[d].domain
      /\ s.feedback = demand[d].feedback
      /\ ~complete => Follows(demand[d], s)
  <2> DEFINE st == IF complete THEN "published" ELSE "queued"
             du == complete => demand[d].due
  <2>1. s = [demand[d] EXCEPT !.status = st, !.diag = "completed",
                              !.code = "none", !.due = du]
    BY DEF AfterDiagnosis
  <2>2. /\ demand[d] \in Demand /\ st \in Open \cup {"published"}
        /\ du \in BOOLEAN /\ (~complete => st # "published")
    BY <1>1, OfDemand DEF Open
  <2> HIDE DEF st, du, s
  <2> QED BY <2>1, <2>2 DEF Demand, Follows
<1>4. /\ demand' = [demand EXCEPT ![d] = s] /\ task' = [task EXCEPT ![d] = m]
      /\ answers' = answers
  BY <1>1 DEF SubmitDiagnosis, RowsInv
<1> HIDE DEF m, s
<1>5. RowsInv' /\ Settled
  <2>1. CASE complete
    <3>1. demand[d].domain # "technical"
      BY <2>1 DEF SubmitDiagnosis, Technical
    <3> QED BY <1>1, <1>2, <1>3, <1>4, <3>1, DemandCloses
  <2>2. CASE ~complete
    BY <1>1, <1>2, <1>3, <1>4, <2>2, DemandFollows
  <2> QED BY <2>1, <2>2
<1>6. DocsInv' /\ LedgerInv'
  BY <1>1, <1>5, DocsStay, LedgerStays DEF SubmitDiagnosis
<1> QED BY <1>5, <1>6, PartsNext

LEMMA SubmitDiscoveryInv ==
  ASSUME Inv, NEW d \in Demands, NEW found \in SUBSET Docs,
         SubmitDiscovery(d, found)
  PROVE  Inv'
<1>1. RowsInv /\ DocsInv /\ LedgerInv
  BY Parts
<1> DEFINE new == NewSources(found)
           reused == ReusedSources(found, d)
           m == [task[d] EXCEPT !["search"] = Free]
           s == AfterSearch(demand[d], new, reused)
<1>2. KeepsWork(task[d], m)
  BY <1>1, OfDemand, Bounds, SlotChanged DEF Classes
<1>3. Follows(demand[d], s)
  <2>1. demand[d] \in Demand
    BY <1>1, OfDemand
  <2>2. CASE demand[d].status = "published"
    BY <2>1, <2>2 DEF AfterSearch, Follows
  <2>3. CASE demand[d].status # "published"
    <3> DEFINE st == IF new # {} THEN "acquiring"
                     ELSE IF reused # {} THEN "processing" ELSE "unresolved"
               du == new \cup reused # {}
    <3>1. s = [demand[d] EXCEPT !.status = st, !.code = "none", !.due = du]
      BY <2>3 DEF AfterSearch
    <3>2. st \in Open /\ st # "published" /\ du \in BOOLEAN
      BY DEF Open
    <3> HIDE DEF st, du, s
    <3> QED BY <2>1, <3>1, <3>2 DEF Follows, Demand
  <2> QED BY <2>2, <2>3
<1>4. /\ demand' = [demand EXCEPT ![d] = s] /\ task' = [task EXCEPT ![d] = m]
      /\ answers' = answers
  BY <1>1 DEF SubmitDiscovery, RowsInv
<1>5. reused \subseteq Docs
  BY DEF ReusedSources
<1>6. DocsInv'
  <2>1. /\ doc' = [x \in Docs |->
              IF x \in new THEN [st |-> "approved", owner |-> d, text |-> FALSE]
              ELSE IF x \in reused
                   THEN [doc[x] EXCEPT !.st = "prepared", !.owner = d]
              ELSE doc[x]]
        /\ attempted' = [attempted EXCEPT ![d] = @ \cup reused]
    BY DEF SubmitDiscovery
  <2> HIDE DEF new, reused
  <2>2. attempted' \in [Demands -> SUBSET Docs]
    BY <1>1, <1>5, <2>1 DEF DocsInv
  <2>3. ASSUME NEW x \in Docs PROVE doc'[x] \in Doc /\ DocOwned(doc'[x])
    <3>1. doc[x] \in Doc /\ DocOwned(doc[x])
      BY <1>1 DEF DocsInv
    <3>2. CASE x \in new
      BY <2>1, <3>2 DEF Doc, DocOwned
    <3>3. CASE x \notin new /\ x \in reused
      <4>1. doc'[x] = [doc[x] EXCEPT !.st = "prepared", !.owner = d]
        BY <2>1, <3>3
      <4> QED BY <3>1, <4>1 DEF Doc, DocOwned
    <3>4. CASE x \notin new /\ x \notin reused
      BY <2>1, <3>1, <3>4
    <3> QED BY <3>2, <3>3, <3>4
  <2>4. doc' \in [Docs -> Doc]
    BY <2>1, <2>3
  <2> QED BY <2>2, <2>3, <2>4 DEF DocsInv
<1>7. searched' = [searched EXCEPT ![d] = @ \cup found]
  BY DEF SubmitDiscovery
<1> HIDE DEF m, s, new, reused
<1>8. RowsInv' /\ Settled
  BY <1>1, <1>2, <1>3, <1>4, DemandFollows
<1>9. LedgerInv'
  BY <1>1, <1>7, <1>8 DEF SubmitDiscovery, LedgerInv, Settled
<1> QED BY <1>6, <1>8, <1>9, PartsNext

\* The row of an answer task is the only one with its question and evidence.
LEMMA RowAtWork ==
  ASSUME RowsInv, NEW d \in Demands, task[d].work.kind # "none"
  PROVE  /\ RowOf(d) \in answers[d] /\ RowOf(d) \in Answer
         /\ RowOf(d).feedback = task[d].work.feedback
         /\ RowOf(d).refs = task[d].work.refs
         /\ RowOf(d).status \in InWork
<1>1. Rows(demand[d], task[d], answers[d]) /\ answers[d] \in SUBSET Answer
  BY OfDemand
<1>2. PICK a \in answers[d] :
        /\ a.feedback = task[d].work.feedback /\ a.refs = task[d].work.refs
        /\ a.status \in InWork
  BY <1>1 DEF Rows, InWork
<1>3. \A b \in answers[d] :
         b.feedback = task[d].work.feedback /\ b.refs = task[d].work.refs
           => b = a
  BY <1>1, <1>2 DEF Rows
<1>4. RowOf(d) \in answers[d] /\ RowOf(d).feedback = task[d].work.feedback
      /\ RowOf(d).refs = task[d].work.refs
  BY <1>2 DEF RowOf
<1>5. RowOf(d) = a
  BY <1>3, <1>4
<1> QED BY <1>1, <1>2, <1>4, <1>5

\* A row at work is replaced by one of the same question and evidence.
LEMMA RowReplaced ==
  ASSUME NEW r, NEW k, NEW A, Rows(r, k, A), NEW a \in A, a.status \in InWork,
         NEW b, b.feedback = a.feedback, b.refs = a.refs,
         NEW m, \/ m.work.kind = "none"
                \/ /\ m.work.feedback = b.feedback /\ m.work.refs = b.refs
                   /\ b.status \in InWork,
         NEW s, s.domain = r.domain, s.feedback = r.feedback,
         s.status = "published" =>
           \/ r.status = "published"
           \/ /\ b.status = "published" /\ b.result = "complete"
              /\ b.feedback = r.feedback
  PROVE  Rows(s, m, (A \ {a}) \cup {b})
<1> DEFINE B == (A \ {a}) \cup {b}
<1>1. \A e \in B : e.refs # {}
  BY DEF Rows
<1>2. \A e, f \in B :
         e # f /\ e.feedback = f.feedback => e.refs \cap f.refs = {}
  BY DEF Rows
<1>3. m.work.kind # "none" =>
          \E e \in B : /\ e.feedback = m.work.feedback
                       /\ e.refs = m.work.refs /\ e.status \in InWork
  OBVIOUS
<1>4. ASSUME s.domain = "technical", s.status = "published"
      PROVE  \E e \in B : /\ e.status = "published" /\ e.result = "complete"
                          /\ e.feedback = s.feedback
  <2>1. CASE r.status = "published"
    <3>1. PICK e \in A : /\ e.status = "published" /\ e.result = "complete"
                         /\ e.feedback = r.feedback
      BY <1>4, <2>1 DEF Rows
    <3>2. e # a
      BY <3>1 DEF InWork
    <3> QED BY <3>1, <3>2
  <2>2. CASE r.status # "published"
    BY <1>4, <2>2
  <2> QED BY <2>1, <2>2
<1> HIDE DEF B
<1>5. Rows(s, m, B)
  BY <1>1, <1>2, <1>3, <1>4 DEF Rows, InWork
<1> QED BY <1>5 DEF B

\* A step of an answer task.
LEMMA AnswerMoves ==
  ASSUME RowsInv, NEW d \in Demands, task[d].work.kind # "none",
         NEW b \in Answer, b.feedback = RowOf(d).feedback,
         b.refs = RowOf(d).refs, SetRow(d, b),
         NEW m \in Tasks, Slots(m),
         \/ m.work.kind = "none"
         \/ /\ m.work.feedback = task[d].work.feedback
            /\ m.work.refs = task[d].work.refs /\ b.status \in InWork,
         task' = [task EXCEPT ![d] = m],
         NEW s \in Demand, s.domain = demand[d].domain,
         s.feedback = demand[d].feedback,
         s.status = "published" =>
           \/ demand[d].status = "published"
           \/ /\ b.status = "published" /\ b.result = "complete"
              /\ b.feedback = demand[d].feedback,
         demand' = [demand EXCEPT ![d] = s]
  PROVE  RowsInv' /\ Settled
<1>1. /\ RowOf(d) \in answers[d] /\ RowOf(d).status \in InWork
      /\ RowOf(d).feedback = task[d].work.feedback
      /\ RowOf(d).refs = task[d].work.refs
  BY RowAtWork
<1> DEFINE A == (answers[d] \ {RowOf(d)}) \cup {b}
<1>2. answers' = [answers EXCEPT ![d] = A] /\ A \in SUBSET Answer
  BY OfDemand DEF SetRow
<1>3. Rows(demand[d], task[d], answers[d])
  BY OfDemand
<1>4. Rows(s, m, A)
  BY <1>1, <1>3, RowReplaced
<1> HIDE DEF A
<1> QED BY <1>2, <1>4, DemandMoves

LEMMA DoneTasks ==
  ASSUME RowsInv, NEW d \in Demands
  PROVE  Done(d) \in Tasks /\ Slots(Done(d)) /\ Done(d).work.kind = "none"
<1>1. task[d] \in Tasks /\ Slots(task[d])
  BY OfDemand
<1>2. NoWork \in Work /\ NoWork.kind = "none"
  BY Bounds DEF NoWork, Work
<1> DEFINE m == [task[d] EXCEPT !.answer = Free, !.work = NoWork]
<1>3. m \in Tasks /\ m.work = NoWork
  BY <1>1, <1>2, Bounds DEF Tasks
<1>4. /\ m["diagnose"] = task[d]["diagnose"]
      /\ m["search"] = task[d]["search"] /\ m["answer"] = Free
  BY <1>1 DEF Tasks
<1> HIDE DEF m
<1>5. Slots(m)
  BY <1>1, <1>4, Bounds DEF Slots, Classes
<1> QED BY <1>2, <1>3, <1>5 DEF Done, m

LEMMA ThenTasks ==
  ASSUME RowsInv, NEW d \in Demands, NEW kind \in {"review", "publish"}
  PROVE  /\ Then(d, kind) \in Tasks /\ Slots(Then(d, kind))
         /\ Then(d, kind).work.feedback = task[d].work.feedback
         /\ Then(d, kind).work.refs = task[d].work.refs
<1>1. task[d] \in Tasks /\ Slots(task[d])
  BY OfDemand
<1> DEFINE v == [task[d].work EXCEPT !.kind = kind]
           m == [task[d] EXCEPT !.answer = Queued, !.work = v]
<1>2. /\ v \in Work /\ v.feedback = task[d].work.feedback
      /\ v.refs = task[d].work.refs
  BY <1>1 DEF Tasks, Work
<1>3. Then(d, kind) = m
  BY <1>1 DEF Then, Tasks
<1> HIDE DEF v
<1>4. m \in Tasks /\ m.work = v
  BY <1>1, <1>2, Bounds DEF Tasks
<1>5. /\ m["diagnose"] = task[d]["diagnose"]
      /\ m["search"] = task[d]["search"] /\ m["answer"] = Queued
  BY <1>1 DEF Tasks
<1> HIDE DEF m
<1>6. Slots(m)
  BY <1>1, <1>5, Bounds DEF Slots, Classes
<1> QED BY <1>2, <1>3, <1>4, <1>6

\* The demand after a gap.
LEMMA GapRow ==
  ASSUME NEW r \in Demand, NEW context \in BOOLEAN
  PROVE  Follows(r, WithGap(r, context))
<1> DEFINE code == IF context THEN "context" ELSE "none"
<1>1. code \in {"none", "context", "system"}
  OBVIOUS
<1>2. WithGap(r, context) = [r EXCEPT !.status = "unresolved", !.due = TRUE,
                                      !.code = code]
  BY DEF WithGap
<1> HIDE DEF code
<1> QED BY <1>1, <1>2 DEF Follows, Demand, Open

LEMMA SupersededInv ==
  ASSUME Inv, NEW d \in Demands, NEW kinds \in SUBSET {"draft", "review", "publish"},
         Superseded(d, kinds)
  PROVE  Inv'
<1>1. RowsInv /\ DocsInv /\ LedgerInv
  BY Parts
<1>2. task[d].work.kind # "none"
  BY DEF Superseded
<1> DEFINE b == [RowOf(d) EXCEPT !.status = "superseded", !.result = "none"]
<1>3. /\ b \in Answer /\ b.feedback = RowOf(d).feedback
      /\ b.refs = RowOf(d).refs
  BY <1>1, <1>2, RowAtWork DEF Answer, Results
<1>4. SetRow(d, b) /\ task' = [task EXCEPT ![d] = Done(d)]
      /\ demand' = [demand EXCEPT ![d] = demand[d]]
  BY <1>1, OfDemand DEF Superseded
<1> HIDE DEF b
<1>5. RowsInv' /\ Settled
  BY <1>1, <1>2, <1>3, <1>4, DoneTasks, OfDemand, AnswerMoves
<1>6. DocsInv' /\ LedgerInv'
  BY <1>1, <1>5, DocsStay, LedgerStays DEF Superseded
<1> QED BY <1>5, <1>6, PartsNext

LEMMA SubmitDraftInv ==
  ASSUME Inv, NEW d \in Demands, SubmitDraft(d) PROVE Inv'
<1>1. RowsInv /\ DocsInv /\ LedgerInv
  BY Parts
<1>2. task[d].work.kind # "none"
  BY DEF SubmitDraft
<1> DEFINE b == [RowOf(d) EXCEPT !.status = "review_queued"]
<1>3. /\ b \in Answer /\ b.feedback = RowOf(d).feedback
      /\ b.refs = RowOf(d).refs /\ b.status \in InWork
  BY <1>1, <1>2, RowAtWork DEF Answer, InWork
<1>4. SetRow(d, b) /\ task' = [task EXCEPT ![d] = Then(d, "review")]
      /\ demand' = [demand EXCEPT ![d] = demand[d]]
  BY <1>1, OfDemand DEF SubmitDraft
<1> HIDE DEF b
<1>5. RowsInv' /\ Settled
  BY <1>1, <1>2, <1>3, <1>4, ThenTasks, OfDemand, AnswerMoves
<1>6. DocsInv' /\ LedgerInv'
  BY <1>1, <1>5, DocsStay, LedgerStays DEF SubmitDraft
<1> QED BY <1>5, <1>6, PartsNext

LEMMA SubmitReviewInv ==
  ASSUME Inv, NEW d \in Demands, NEW approved \in BOOLEAN,
         NEW context \in BOOLEAN, NEW result \in Results,
         SubmitReview(d, approved, result, context)
  PROVE  Inv'
<1>1. RowsInv /\ DocsInv /\ LedgerInv
  BY Parts
<1>2. task[d].work.kind # "none"
  BY DEF SubmitReview
<1> DEFINE st == IF approved THEN "publication_queued" ELSE "unresolved"
           b == [RowOf(d) EXCEPT !.status = st, !.result = result]
<1>3. /\ b \in Answer /\ b.feedback = RowOf(d).feedback
      /\ b.refs = RowOf(d).refs /\ b.status = st
  BY <1>1, <1>2, RowAtWork DEF Answer
<1>4. SetRow(d, b)
  BY DEF SubmitReview
<1> HIDE DEF b
<1>5. RowsInv' /\ Settled
  <2>1. CASE approved
    <3>1. /\ task' = [task EXCEPT ![d] = Then(d, "publish")]
          /\ demand' = [demand EXCEPT ![d] = demand[d]]
          /\ b.status \in InWork
      BY <1>1, <1>3, <2>1, OfDemand DEF SubmitReview, InWork
    <3> QED BY <1>1, <1>2, <1>3, <1>4, <3>1, ThenTasks, OfDemand, AnswerMoves
  <2>2. CASE ~approved
    <3>1. /\ task' = [task EXCEPT ![d] = Done(d)]
          /\ demand' = [demand EXCEPT ![d] = WithGap(demand[d], context)]
      BY <1>1, <2>2 DEF SubmitReview, RowsInv
    <3>2. Follows(demand[d], WithGap(demand[d], context))
      BY <1>1, OfDemand, GapRow
    <3> QED BY <1>1, <1>2, <1>3, <1>4, <3>1, <3>2, DoneTasks, AnswerMoves
            DEF Follows
  <2> QED BY <2>1, <2>2
<1>6. DocsInv' /\ LedgerInv'
  BY <1>1, <1>5, DocsStay, LedgerStays DEF SubmitReview
<1> QED BY <1>5, <1>6, PartsNext

LEMMA PublishAnswerInv ==
  ASSUME Inv, NEW d \in Demands, NEW context \in BOOLEAN,
         PublishAnswer(d, context)
  PROVE  Inv'
<1>1. RowsInv /\ DocsInv /\ LedgerInv
  BY Parts
<1>2. task[d].work.kind # "none"
  BY DEF PublishAnswer
<1> DEFINE b == [RowOf(d) EXCEPT !.status = "published"]
<1>3. /\ b \in Answer /\ b.feedback = RowOf(d).feedback
      /\ b.refs = RowOf(d).refs /\ b.status = "published"
      /\ b.result = RowOf(d).result
  BY <1>1, <1>2, RowAtWork DEF Answer
<1>4. SetRow(d, b) /\ task' = [task EXCEPT ![d] = Done(d)]
  BY DEF PublishAnswer
<1>5. b.feedback = demand[d].feedback
  BY <1>1, <1>2, <1>3, RowAtWork DEF PublishAnswer, currentSnapshot
<1> HIDE DEF b
<1>6. RowsInv' /\ Settled
  <2>1. CASE RowOf(d).result = "complete"
    <3> DEFINE s == [demand[d] EXCEPT !.status = "published", !.code = "none"]
    <3>1. /\ s \in Demand /\ s.domain = demand[d].domain
          /\ s.feedback = demand[d].feedback
      BY <1>1, OfDemand DEF Demand
    <3>2. demand' = [demand EXCEPT ![d] = s]
      BY <1>1, <2>1 DEF PublishAnswer, RowsInv
    <3> HIDE DEF s
    <3> QED BY <1>1, <1>2, <1>3, <1>4, <1>5, <2>1, <3>1, <3>2, DoneTasks,
               AnswerMoves
  <2>2. CASE RowOf(d).result # "complete"
    <3>1. demand' = [demand EXCEPT ![d] = WithGap(demand[d], context)]
      BY <1>1, <2>2 DEF PublishAnswer, RowsInv
    <3>2. Follows(demand[d], WithGap(demand[d], context))
      BY <1>1, OfDemand, GapRow
    <3> QED BY <1>1, <1>2, <1>3, <1>4, <3>1, <3>2, DoneTasks, AnswerMoves
            DEF Follows
  <2> QED BY <2>1, <2>2
<1>7. DocsInv' /\ LedgerInv'
  BY <1>1, <1>6, DocsStay, LedgerStays DEF PublishAnswer
<1> QED BY <1>6, <1>7, PartsNext

LEMMA DocumentPreparedInv ==
  ASSUME Inv, NEW x \in Docs, DocumentPrepared(x) PROVE Inv'
<1>1. RowsInv /\ DocsInv /\ LedgerInv
  BY Parts
<1>2. RowsInv' /\ Settled
  BY <1>1, RowsStay DEF DocumentPrepared
<1>3. DocsInv'
  <2>1. PICK st \in {"prepared", "closed"} :
          doc' = [doc EXCEPT ![x] = [doc[x] EXCEPT !.st = st, !.text = TRUE]]
    BY <1>1 DEF DocumentPrepared, DocsInv
  <2>2. doc[x] \in Doc /\ doc[x].owner \in Demands
    BY <1>1 DEF DocsInv, DocOwned, DocumentPrepared
  <2> DEFINE y == [doc[x] EXCEPT !.st = st, !.text = TRUE]
  <2>3. y \in Doc /\ DocOwned(y)
    BY <2>2 DEF Doc, DocOwned
  <2>4. doc' = [doc EXCEPT ![x] = y] /\ attempted' = attempted
    BY <2>1 DEF DocumentPrepared
  <2> HIDE DEF y
  <2> QED BY <1>1, <2>3, <2>4 DEF DocsInv
<1>4. LedgerInv'
  BY <1>1, <1>2, LedgerStays DEF DocumentPrepared
<1> QED BY <1>2, <1>3, <1>4, PartsNext

LEMMA DocumentFailsInv ==
  ASSUME Inv, NEW x \in Docs, NEW retrying \in BOOLEAN,
         NEW code \in {"system", "none"}, DocumentFails(x, retrying, code)
  PROVE  Inv'
<1>1. RowsInv /\ DocsInv /\ LedgerInv
  BY Parts
<1> DEFINE c == IF doc[x].st = "preparing" THEN "prepare" ELSE "study"
           d == doc[x].owner
           s == AfterFailure(demand[d], c, "none", retrying, code)
<1>2. d \in Demands /\ doc[x] \in Doc
  BY <1>1 DEF DocumentFails, DocsInv, DocOwned
<1>3. Follows(demand[d], s)
  BY <1>1, <1>2, OfDemand, FailedRow
<1>4. demand' = [demand EXCEPT ![d] = s]
  BY <1>1, <1>2 DEF DocumentFails, RowsInv
<1>5. DocsInv'
  <2>1. CASE doc' = doc
    BY <1>1, <2>1, DocsStay DEF DocumentFails
  <2>2. CASE doc' = [doc EXCEPT ![x].st = "closed"]
    BY <1>1, <1>2, <2>2 DEF DocumentFails, DocsInv, Doc, DocOwned
  <2> QED BY <2>1, <2>2 DEF DocumentFails
<1> HIDE DEF c, d, s
<1>6. RowsInv' /\ Settled
  BY <1>1, <1>2, <1>3, <1>4, OfDemand, DemandFollows DEF DocumentFails
<1>7. LedgerInv'
  BY <1>1, <1>6, LedgerStays DEF DocumentFails
<1> QED BY <1>5, <1>6, <1>7, PartsNext

LEMMA DocumentPublishesInv ==
  ASSUME Inv, NEW x \in Docs, DocumentPublishes(x) PROVE Inv'
<1>1. RowsInv /\ DocsInv /\ LedgerInv
  BY Parts
<1>2. RowsInv' /\ Settled
  BY <1>1, RowsStay DEF DocumentPublishes
<1>3. DocsInv'
  BY <1>1, DocsStay DEF DocumentPublishes
<1>4. doc[x].owner \in Demands /\ demand[doc[x].owner].domain # "technical"
  BY <1>1 DEF DocumentPublishes, DocsInv, DocOwned, Technical
<1>5. LedgerInv'
  BY <1>1, <1>2, <1>4 DEF DocumentPublishes, LedgerInv, Settled
<1> QED BY <1>2, <1>3, <1>5, PartsNext

LEMMA DocumentSettlesInv ==
  ASSUME Inv, NEW x \in Docs, DocumentSettles(x) PROVE Inv'
<1>1. RowsInv /\ DocsInv /\ LedgerInv
  BY Parts
<1>2. RowsInv' /\ Settled
  BY <1>1, RowsStay DEF DocumentSettles
<1>3. DocsInv'
  BY <1>1 DEF DocumentSettles, DocsInv, Doc, DocOwned
<1>4. LedgerInv'
  BY <1>1, <1>2, LedgerStays DEF DocumentSettles
<1> QED BY <1>2, <1>3, <1>4, PartsNext

LEMMA StutterInv == ASSUME Inv, UNCHANGED vars PROVE Inv'
<1>1. RowsInv /\ DocsInv /\ LedgerInv
  BY Parts
<1>2. RowsInv' /\ Settled
  BY <1>1, RowsStay DEF vars
<1>3. DocsInv' /\ LedgerInv'
  BY <1>1, <1>2, DocsStay, LedgerStays DEF vars
<1> QED BY <1>2, <1>3, PartsNext

LEMMA NextInv == ASSUME Inv, [Next]_vars PROVE Inv'
<1>1. ASSUME NEW d \in Demands, Request(d) PROVE Inv'
  BY <1>1, AskInv, AskFailsInv, AskWithoutContextInv, ReportInv,
     AskAnsweredInv DEF Request
<1>2. ASSUME NEW d \in Demands, NEW c \in Classes, Submit(d, c) PROVE Inv'
  <2>1. CASE \E complete \in BOOLEAN : SubmitDiagnosis(d, complete)
    BY <2>1, SubmitDiagnosisInv
  <2>2. CASE \E found \in SUBSET Docs : SubmitDiscovery(d, found)
    BY <2>2, SubmitDiscoveryInv
  <2>3. CASE Superseded(d, {"draft", "review", "publish"})
    BY <2>3, SupersededInv
  <2>4. CASE SubmitDraft(d)
    BY <2>4, SubmitDraftInv
  <2>5. CASE \E approved, context \in BOOLEAN, result \in Results :
               SubmitReview(d, approved, result, context)
    BY <2>5, SubmitReviewInv
  <2>6. CASE \E context \in BOOLEAN : PublishAnswer(d, context)
    BY <2>6, PublishAnswerInv
  <2> QED BY <1>2, <2>1, <2>2, <2>3, <2>4, <2>5, <2>6 DEF Submit
<1>3. ASSUME NEW d \in Demands, NEW c \in Classes, Failure(d, c) PROVE Inv'
  BY <1>3, LeaseExpiresInv, FailInv DEF Failure
<1>4. ASSUME NEW x \in Docs, DocumentStep(x) \/ DocumentEvent(x) PROVE Inv'
  BY <1>4, DocumentPreparedInv, DocumentSettlesInv, DocumentPublishesInv,
     DocumentFailsInv DEF DocumentStep, DocumentEvent
<1> QED BY <1>1, <1>2, <1>3, <1>4, ScheduleInv, RetryComesDueInv, ReplayInv,
           WithdrawInv, ClaimInv, WorkerStopsInv, StutterInv DEF Next

LEMMA InvHolds == Spec => []Inv
BY InitInv, NextInv, PTL DEF Spec

\* Every variable keeps its type, whatever fails or is repeated.
THEOREM TypeCorrect == Spec => []TypeOK
<1>1. Inv => TypeOK
  BY Parts DEF RowsInv, DocsInv, LedgerInv, TypeOK
<1> QED BY <1>1, InvHolds, PTL

\* publishTechnicalAnswer, submitDemandDiagnosis, reconcileKnownKnowledgeDemand
\* and the replays never close a technical demand whose question, with every
\* gap reported so far, has no published complete answer.
THEOREM PublishedIsAnswered == Spec => []PublishedDemandIsAnswered
<1>1. Inv => PublishedDemandIsAnswered
  BY Parts DEF RowsInv, Rows, PublishedDemandIsAnswered, Technical, Answered
<1> QED BY <1>1, InvHolds, PTL

\* queueTechnicalAnswer never selects a span that a row of the same question
\* and gaps has used, also not after the row is superseded or its task fails.
THEOREM EvidenceOnce == Spec => []NoEvidenceTwice
<1>1. Inv => NoEvidenceTwice
  BY Parts DEF RowsInv, Rows, NoEvidenceTwice, Technical
<1> QED BY <1>1, InvHolds, PTL
=============================================================================
