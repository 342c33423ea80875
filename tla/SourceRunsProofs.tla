--------------------------- MODULE SourceRunsProofs ---------------------------
(***************************************************************************)
(* Safety of SourceRuns for every number of documents, workers, fragments, *)
(* attempts and failures.  A live analysis holds its fragments because no  *)
(* two analyses share one and whatever gives a fragment back first ends    *)
(* the analysis that holds it.  A completed document stays drained because *)
(* the fragments of a run are inserted together: a worker that has lost    *)
(* its lease finds them all there (Cut).                                   *)
(***************************************************************************)
EXTENDS SourceRuns, TLAPS

ArtifactStatus == {"none", "downloaded", "converted", "chunked"}
ItemStatus == {"none", "queued", "running", "completed", "failed", "cancelled"}

TablesSet ==
    [doc : [Docs -> DocStatus], artifact : [Docs -> ArtifactStatus],
     run : [Docs -> [Runs -> RunStatus]], broken : [Docs -> SUBSET Runs],
     frag : [Fragments -> FragmentRow], tasks : SUBSET TaskRow,
     slots : SUBSET Docs, item : [Docs -> ItemStatus], stopped : SUBSET Docs]

\* A fragment that is not there has no records, one that is held has not failed,
\* and the fragments of a run are there together.
RowOk(r) ==
    /\ r.held => r.status \notin {"none", "failed"}
    /\ r.status = "none" => r.records = {} /\ ~r.audit

Together(fr) ==
    \A f, g \in Fragments :
      f[1] = g[1] /\ f[2] = g[2] =>
        (fr[f].status = "none" <=> fr[g].status = "none")

FragsOk(fr) == Together(fr) /\ \A f \in Fragments : RowOk(fr[f])

\* A live task works on fragments that are there, an analysis holds them.
TaskOk(fr, t) ==
    /\ \A f \in t.frags : fr[f].status # "none"
    /\ t.kind \in Mechanical => t.doc \in Docs
    /\ t.kind \in {"analyze", "audit"} =>
         /\ t.frags # {} /\ t.doc \in Docs /\ t.run \in Runs
         /\ \A f \in t.frags : f[1] = t.doc /\ f[2] = t.run
    /\ t.kind = "analyze" => \A f \in t.frags : fr[f].held

Apart(ts) ==
    \A t, u \in ts : t.kind = "analyze" /\ u.kind = "analyze" /\ t # u
                       => t.frags \cap u.frags = {}

TasksOk(fr, ts) == Apart(ts) /\ \A t \in ts : TaskOk(fr, t)

\* The document has been cut into the fragments of its first run.
Cut(fr, d) == \A f \in OfRun(d, 1) : fr[f].status # "none"

Studied == {"prepared", "analyzing", "verifying", "completed"}

\* A document that was never reprocessed has one run, it is cut before it is
\* studied, and it is completed when nothing is left to do.
DocOk(s, d) ==
    s.item[d] = "none" =>
      /\ s.run[d][2] = "none"
      /\ \A f \in OfRun(d, 2) : s.frag[f].status = "none"
      /\ \A t \in s.tasks : t.doc = d => t.run # 2
      /\ s.doc[d] \in Studied => Cut(s.frag, d)
      /\ s.artifact[d] = "chunked" => Cut(s.frag, d)
      /\ s.doc[d] = "completed" =>
           /\ OpenOf(s, d) = {}
           /\ \A t \in s.tasks : t.doc = d => t.kind # "analyze"

Good(s) ==
    /\ s \in TablesSet
    /\ FragsOk(s.frag) /\ TasksOk(s.frag, s.tasks)
    /\ \A d \in Docs : DocOk(s, d)

\* What a worker goes on with after it has lost its lease.
WorkerOk(w) ==
    worker[w].pc # "idle" =>
      LET t == worker[w].task
      IN  /\ t.kind \in Mechanical => t.doc \in Docs
          /\ worker[w].pc = "segmented" => t.kind = "chunk"
          /\ t.kind \in Mechanical /\ item[t.doc] = "none" =>
               /\ t.run # 2
               /\ worker[w].pc = "segmented" => Cut(frag, t.doc)

WorkersInv ==
    /\ DOMAIN worker = Workers
    /\ \A w \in Workers :
          /\ \/ worker[w] = IdleWorker
             \/ /\ worker[w].pc \in {"working", "segmented", "written"}
                /\ worker[w].task \in TaskRow
          /\ WorkerOk(w)
    /\ faults \in 0..MaxFaults

Inv == Good(Tables) /\ WorkersInv

-----------------------------------------------------------------------------
(* Fragments and tasks.                                                     *)

LEMMA Bounds ==
    /\ PerRun \in Nat /\ PerRun > 0 /\ Batch \in Nat /\ Batch > 0
    /\ AttemptLimit \in Nat /\ AttemptLimit > 0
    /\ FragmentLimit \in Nat /\ FragmentLimit > 0 /\ MaxFaults \in Nat
    /\ None \notin Docs /\ None \notin Workers
    /\ 1 \in Runs /\ 2 \in Runs /\ \A v \in Runs : v \in {1, 2} /\ v \in 0..2
BY SourceRunsAssumption DEF Runs

LEMMA FragmentParts ==
  ASSUME NEW f \in Fragments
  PROVE  f[1] \in Docs /\ f[2] \in Runs /\ f[3] \in 1..PerRun
BY DEF Fragments

LEMMA RunHasFragments ==
  ASSUME NEW d \in Docs, NEW v \in Runs
  PROVE  <<d, v, 1>> \in OfRun(d, v)
BY Bounds DEF OfRun, Fragments

\* q is fragment row r after a step that neither makes nor deletes it.
RowStep(r, q) ==
    /\ q \in FragmentRow /\ RowOk(q)
    /\ q.status = "none" <=> r.status = "none"

LEMMA FragsStep ==
  ASSUME NEW fr, FragsOk(fr), NEW G, \A f \in Fragments : RowStep(fr[f], G[f])
  PROVE  FragsOk(G)
BY DEF FragsOk, RowStep, Together

LEMMA SameRow == ASSUME NEW r \in FragmentRow, RowOk(r) PROVE RowStep(r, r)
BY DEF RowStep

\* A row with another status.
LEMMA StatusRow ==
  ASSUME NEW r \in FragmentRow, RowOk(r), r.status # "none",
         NEW st \in {"queued", "reserved", "analyzing", "analyzed", "published"}
  PROVE  RowStep(r, [r EXCEPT !.status = st])
BY DEF RowStep, RowOk, FragmentRow

\* A row that is released.
LEMMA ReleasedRow ==
  ASSUME NEW r \in FragmentRow, RowOk(r), r.status # "none",
         NEW st \in {"queued", "reserved", "analyzing", "analyzed", "failed"}
  PROVE  RowStep(r, [r EXCEPT !.status = st, !.held = FALSE])
BY DEF RowStep, RowOk, FragmentRow

LEMMA FieldTypes ==
  ASSUME NEW s \in TablesSet
  PROVE  /\ s.doc \in [Docs -> DocStatus]
         /\ s.artifact \in [Docs -> ArtifactStatus]
         /\ s.run \in [Docs -> [Runs -> RunStatus]]
         /\ s.broken \in [Docs -> SUBSET Runs]
         /\ s.frag \in [Fragments -> FragmentRow]
         /\ s.tasks \in SUBSET TaskRow /\ s.slots \in SUBSET Docs
         /\ s.item \in [Docs -> ItemStatus] /\ s.stopped \in SUBSET Docs
BY DEF TablesSet

\* The tables with other fragments.
LEMMA WithFrag ==
  ASSUME NEW s \in TablesSet, NEW G \in [Fragments -> FragmentRow]
  PROVE  LET u == [s EXCEPT !.frag = G]
         IN  /\ u \in TablesSet /\ u.frag = G /\ u.tasks = s.tasks
             /\ u.doc = s.doc /\ u.artifact = s.artifact /\ u.run = s.run
             /\ u.item = s.item /\ u.slots = s.slots /\ u.stopped = s.stopped
             /\ u.broken = s.broken
BY DEF TablesSet

LEMMA TasksStep ==
  ASSUME NEW fr, NEW ts \in SUBSET TaskRow, TasksOk(fr, ts), NEW G,
         \A f \in Fragments : RowStep(fr[f], G[f]), NEW us \in SUBSET ts,
         \A t \in us : t.kind = "analyze" => \A f \in t.frags : G[f].held
  PROVE  TasksOk(G, us)
<1>1. Apart(us)
  BY DEF TasksOk, Apart
<1>2. ASSUME NEW t \in us PROVE TaskOk(G, t)
  <2>1. t.frags \subseteq Fragments
    BY DEF TaskRow
  <2>2. TaskOk(fr, t)
    BY DEF TasksOk
  <2> QED BY <2>1, <2>2 DEF TaskOk, RowStep
<1> QED BY <1>1, <1>2 DEF TasksOk

\* u is s after a part of a transaction.
DocStep(s, u, d) ==
    u.item[d] = "none" =>
      /\ s.item[d] = "none" /\ u.run[d][2] = "none"
      /\ \A t \in u.tasks : t.doc = d => t.run # 2
      /\ u.doc[d] \in Studied \/ u.artifact[d] = "chunked" => Cut(s.frag, d)
      /\ u.doc[d] = "completed" =>
           /\ OpenOf(u, d) = {}
           /\ \A t \in u.tasks : t.doc = d => t.kind # "analyze"

Moves(s, u) ==
    /\ Good(u)
    /\ \A d \in Docs : u.item[d] = "none" => s.item[d] = "none"
    /\ \A f \in Fragments :
          u.frag[f].status = "none" => s.frag[f].status = "none"

LEMMA MovesOn ==
  ASSUME NEW s, NEW u, NEW v, Moves(s, u), Moves(u, v)
  PROVE  Moves(s, v)
BY DEF Moves

LEMMA StaysGood == ASSUME NEW s, Good(s) PROVE Moves(s, s)
BY DEF Moves

LEMMA GoodStep ==
  ASSUME NEW s, NEW u, Good(s), u \in TablesSet,
         \A f \in Fragments : RowStep(s.frag[f], u.frag[f]),
         TasksOk(u.frag, u.tasks),
         \A d \in Docs : DocStep(s, u, d)
  PROVE  Moves(s, u)
<1>1. FragsOk(u.frag)
  BY FragsStep DEF Good
<1>2. ASSUME NEW d \in Docs PROVE DocOk(u, d)
  <2>1. DocOk(s, d) /\ DocStep(s, u, d)
    BY DEF Good
  <2>2. \A v : \A f \in OfRun(d, v) :
           u.frag[f].status = "none" <=> s.frag[f].status = "none"
    BY DEF OfRun, RowStep
  <2> QED BY <2>1, <2>2 DEF DocOk, DocStep, Cut
<1>3. \A d \in Docs : u.item[d] = "none" => s.item[d] = "none"
  BY DEF DocStep
<1> QED BY <1>1, <1>2, <1>3 DEF Good, Moves, RowStep

LEMMA RowsGood ==
  ASSUME NEW s, Good(s), NEW f \in Fragments
  PROVE  s.frag[f] \in FragmentRow /\ RowOk(s.frag[f])
BY FieldTypes DEF Good, FragsOk

LEMMA TaskGood ==
  ASSUME NEW s, Good(s), NEW t \in s.tasks
  PROVE  t \in TaskRow /\ t.frags \subseteq Fragments /\ TaskOk(s.frag, t)
BY FieldTypes DEF Good, TasksOk, TaskRow

\* A part that leaves fragments, tasks, runs, artifacts and items.
LEMMA MarkedMoves ==
  ASSUME NEW s, Good(s), NEW ds, NEW x \in DocStatus,
         x \in Studied => \A d \in ds \cap Docs : s.item[d] = "none" => Cut(s.frag, d),
         x # "completed"
  PROVE  Moves(s, Marked(s, ds, x))
<1> DEFINE D == [d \in Docs |-> IF d \in ds THEN x ELSE s.doc[d]]
           u == [s EXCEPT !.doc = D]
<1>1. Marked(s, ds, x) = u
  BY DEF Marked
<1>2. s \in TablesSet
  BY DEF Good
<1>3. D \in [Docs -> DocStatus]
  BY <1>2, FieldTypes
<1> HIDE DEF D
<1>4. /\ u \in TablesSet /\ u.doc = D /\ u.frag = s.frag /\ u.tasks = s.tasks
      /\ u.item = s.item /\ u.run = s.run /\ u.artifact = s.artifact
  BY <1>2, <1>3 DEF TablesSet
<1> HIDE DEF u
<1>5. \A f \in Fragments : RowStep(s.frag[f], u.frag[f])
  BY <1>4, RowsGood, SameRow
<1>6. ASSUME NEW d \in Docs PROVE DocStep(s, u, d)
  <2>1. DocOk(s, d)
    BY DEF Good
  <2>2. OpenOf(u, d) = OpenOf(s, d)
    BY <1>4 DEF OpenOf
  <2>3. u.doc[d] = IF d \in ds THEN x ELSE s.doc[d]
    BY <1>4 DEF D
  <2> QED BY <1>4, <2>1, <2>2, <2>3 DEF DocOk, DocStep
<1>7. TasksOk(u.frag, u.tasks)
  BY <1>4 DEF Good
<1> QED BY <1>1, <1>4, <1>5, <1>6, <1>7, GoodStep

\* A part that only changes rows of fragments.
LEMMA FragsMove ==
  ASSUME NEW s, Good(s), NEW G \in [Fragments -> FragmentRow],
         \A f \in Fragments : RowStep(s.frag[f], G[f]),
         \A t \in s.tasks : t.kind = "analyze" => \A f \in t.frags : G[f].held,
         \A f \in Fragments :
            /\ s.item[f[1]] = "none" /\ s.doc[f[1]] = "completed"
            /\ G[f].status \in OpenStatus
            => s.frag[f].status \in OpenStatus
  PROVE  Moves(s, [s EXCEPT !.frag = G])
<1> DEFINE u == [s EXCEPT !.frag = G]
<1>1. s \in TablesSet
  BY DEF Good
<1>2. /\ u \in TablesSet /\ u.doc = s.doc /\ u.frag = G /\ u.tasks = s.tasks
      /\ u.item = s.item /\ u.run = s.run /\ u.artifact = s.artifact
  BY <1>1, WithFrag
<1> HIDE DEF u
<1>3. TasksOk(u.frag, u.tasks)
  <2>1. TasksOk(s.frag, s.tasks) /\ s.tasks \in SUBSET TaskRow
        /\ s.tasks \in SUBSET s.tasks
    BY <1>1, FieldTypes DEF Good
  <2>2. TasksOk(G, s.tasks)
    BY <2>1, TasksStep
  <2> QED BY <1>2, <2>2
<1>4. ASSUME NEW d \in Docs PROVE DocStep(s, u, d)
  <2>1. DocOk(s, d)
    BY DEF Good
  <2>2. s.item[d] = "none" /\ s.doc[d] = "completed" => OpenOf(u, d) = {}
    BY <1>2, <2>1 DEF OpenOf, DocOk
  <2> QED BY <1>2, <2>1, <2>2 DEF DocOk, DocStep
<1>5. Moves(s, u)
  BY <1>2, <1>3, <1>4, GoodStep
<1> QED BY <1>5 DEF u

\* A part that ends tasks, and changes what else no invariant reads.
LEMMA TasksEnd ==
  ASSUME NEW s, Good(s), NEW u \in TablesSet, u.frag = s.frag, u.doc = s.doc,
         u.artifact = s.artifact, u.run = s.run, u.item = s.item,
         u.tasks \subseteq s.tasks
  PROVE  Moves(s, u)
<1>1. \A f \in Fragments : RowStep(s.frag[f], u.frag[f])
  BY RowsGood, SameRow
<1>2. TasksOk(u.frag, u.tasks)
  BY DEF Good, TasksOk, Apart
<1>3. ASSUME NEW d \in Docs PROVE DocStep(s, u, d)
  <2>1. DocOk(s, d)
    BY DEF Good
  <2>2. OpenOf(u, d) = OpenOf(s, d)
    BY DEF OpenOf
  <2> QED BY <2>1, <2>2 DEF DocOk, DocStep
<1> QED BY <1>1, <1>2, <1>3, GoodStep

-----------------------------------------------------------------------------
(* Runs and tasks that end, documents that are completed.                   *)

LEMMA ReconcileTerminalMoves ==
  ASSUME NEW s, Good(s), NEW rs PROVE Moves(s, ReconcileTerminal(s, rs))
<1> DEFINE
      ended == Terminal(s, rs)
      outcome(r) == IF r[2] = 2 /\ r[1] \in s.stopped THEN "cancelled" ELSE "failed"
      lost == {f \in Fragments : /\ <<f[1], f[2]>> \in ended
                                 /\ s.frag[f].status \in OpenStatus
                                 /\ ~(s.frag[f].held /\ Leased(s, f))}
      G == [f \in Fragments |->
              IF f \in lost THEN [s.frag[f] EXCEPT !.status = "failed", !.held = FALSE]
              ELSE s.frag[f]]
      R == [d \in Docs |-> [v \in Runs |->
              IF <<d, v>> \in ended THEN outcome(<<d, v>>) ELSE s.run[d][v]]]
      T == {t \in s.tasks : ~(t.holder = None /\ <<t.doc, t.run>> \in ended)}
      I == [d \in Docs |->
              IF <<d, 2>> \in ended /\ s.item[d] \in {"queued", "running"}
              THEN outcome(<<d, 2>>) ELSE s.item[d]]
      u == ReconcileTerminal(s, rs)
<1>1. s \in TablesSet
  BY DEF Good
<1>2. ASSUME NEW f \in Fragments PROVE RowStep(s.frag[f], G[f])
  <2>1. s.frag[f] \in FragmentRow /\ RowOk(s.frag[f])
    BY RowsGood
  <2>2. f \in lost => s.frag[f].status # "none"
    BY DEF OpenStatus
  <2>3. G[f] = IF f \in lost
               THEN [s.frag[f] EXCEPT !.status = "failed", !.held = FALSE]
               ELSE s.frag[f]
    OBVIOUS
  <2> HIDE DEF lost, G
  <2> QED BY <2>1, <2>2, <2>3, ReleasedRow, SameRow
<1>3. G \in [Fragments -> FragmentRow]
  BY <1>2 DEF RowStep
<1>4. R \in [Docs -> [Runs -> RunStatus]] /\ I \in [Docs -> ItemStatus]
      /\ T \subseteq s.tasks
  BY <1>1, FieldTypes DEF RunStatus, ItemStatus
<1>5. /\ u \in TablesSet /\ u.frag = G /\ u.run = R /\ u.tasks = T /\ u.item = I
      /\ u.doc = s.doc /\ u.artifact = s.artifact
  <2> DEFINE
        s1 == [s EXCEPT !.frag = G]
        L == {d \in s.slots : \/ \A v \in Runs : <<d, v>> \notin ended
                              \/ \E v \in Runs : /\ <<d, v>> \notin ended
                                                 /\ s.run[d][v] \in ActiveRun}
  <2>1. /\ s1 \in TablesSet /\ s1.frag = G /\ s1.run = s.run /\ s1.item = s.item
        /\ s1.tasks = s.tasks /\ s1.slots = s.slots /\ s1.doc = s.doc
        /\ s1.artifact = s.artifact
    BY <1>1, <1>3, WithFrag
  <2>2. s1 = Fragged(s, lost, LAMBDA f : [s.frag[f] EXCEPT !.status = "failed",
                                                         !.held = FALSE])
    BY DEF Fragged
  <2> HIDE DEF s1
  <2>3. u = [s1 EXCEPT !.run = R, !.tasks = T, !.item = I, !.slots = L]
    BY <2>1, <2>2 DEF ReconcileTerminal
  <2>4. L \in SUBSET Docs /\ T \in SUBSET TaskRow
    BY <1>1, FieldTypes
  <2> HIDE DEF u, R, T, I, L, G, ended, lost
  <2> QED BY <1>4, <2>1, <2>3, <2>4 DEF TablesSet
<1>6. TasksOk(u.frag, u.tasks)
  <2>1. ASSUME NEW t \in T, t.kind = "analyze", NEW f \in t.frags
        PROVE  G[f].held
    <3>1. t \in s.tasks /\ f \in Fragments /\ TaskOk(s.frag, t)
      BY <2>1, TaskGood
    <3>2. s.frag[f].held /\ f[1] = t.doc /\ f[2] = t.run
      BY <2>1, <3>1 DEF TaskOk
    <3>3. f \notin lost
      BY <3>1, <3>2, <2>1 DEF Leased
    <3> QED BY <3>1, <3>2, <3>3
  <2>2. TasksOk(s.frag, s.tasks) /\ s.tasks \in SUBSET TaskRow
        /\ T \in SUBSET s.tasks
    BY <1>1, FieldTypes DEF Good
  <2> HIDE DEF T, G
  <2>3. TasksOk(G, T)
    BY <1>2, <2>1, <2>2, TasksStep
  <2> QED BY <2>3, <1>5
<1>7. ASSUME NEW d \in Docs PROVE DocStep(s, u, d)
  <2>1. DocOk(s, d)
    BY DEF Good
  <2>2. I[d] = "none" => s.item[d] = "none"
    OBVIOUS
  <2>3. s.run[d][2] = "none" => R[d][2] = "none"
    <3>1. s.run[d][2] = "none" => <<d, 2>> \notin ended
      BY DEF Terminal, ActiveRun
    <3> HIDE DEF ended
    <3> QED BY <3>1, Bounds
  <2>4. OpenOf(u, d) \subseteq OpenOf(s, d)
    <3>1. \A f \in Fragments : G[f].status \in OpenStatus
                                 => s.frag[f].status \in OpenStatus
      <4>1. ASSUME NEW f \in Fragments PROVE s.frag[f] \in FragmentRow
        BY RowsGood
      <4> HIDE DEF ended
      <4> QED BY <4>1 DEF OpenStatus, FragmentRow
    <3> HIDE DEF G
    <3> QED BY <1>5, <3>1 DEF OpenOf
  <2> HIDE DEF I, R, T, G, u
  <2> QED BY <1>4, <1>5, <2>1, <2>2, <2>3, <2>4 DEF DocOk, DocStep
<1> HIDE DEF u, G
<1>8. Moves(s, u)
  BY <1>2, <1>5, <1>6, <1>7, GoodStep
<1> QED BY <1>8 DEF u

\* A task that is taken, given back or bound to its run.
LEMMA TaskReplaced ==
  ASSUME NEW s, Good(s), NEW t \in s.tasks, NEW q \in TaskRow,
         q.kind = t.kind, q.doc = t.doc, q.run = t.run, q.frags = t.frags
  PROVE  LET u == [s EXCEPT !.tasks = (@ \ {t}) \cup {q}]
         IN  Moves(s, u) /\ u.frag = s.frag /\ u.item = s.item
<1> DEFINE T == (s.tasks \ {t}) \cup {q}
           u == [s EXCEPT !.tasks = T]
<1>1. s \in TablesSet /\ T \in SUBSET TaskRow
  BY FieldTypes DEF Good
<1>2. \A f \in Fragments : RowStep(s.frag[f], s.frag[f])
  BY RowsGood, SameRow
<1>3. TasksOk(s.frag, T)
  <2>1. Apart(s.tasks) /\ \A e \in s.tasks : TaskOk(s.frag, e)
    BY DEF Good, TasksOk
  <2>2. TaskOk(s.frag, q)
    BY <2>1 DEF TaskOk
  <2>3. Apart(T)
    BY <2>1 DEF Apart
  <2> QED BY <2>1, <2>2, <2>3 DEF TasksOk
<1>4. \A e \in T : \E o \in s.tasks : e.doc = o.doc /\ e.run = o.run /\ e.kind = o.kind
  OBVIOUS
<1> HIDE DEF T
<1>5. /\ u \in TablesSet /\ u.tasks = T /\ u.frag = s.frag /\ u.doc = s.doc
      /\ u.item = s.item /\ u.run = s.run /\ u.artifact = s.artifact
  BY <1>1 DEF TablesSet
<1> HIDE DEF u
<1>6. ASSUME NEW d \in Docs PROVE DocStep(s, u, d)
  <2>1. DocOk(s, d)
    BY DEF Good
  <2>2. OpenOf(u, d) = OpenOf(s, d)
    BY <1>5 DEF OpenOf
  <2> QED BY <1>4, <1>5, <2>1, <2>2 DEF DocOk, DocStep
<1>7. Moves(s, u)
  BY <1>2, <1>3, <1>5, <1>6, GoodStep
<1> QED BY <1>5, <1>7 DEF u, T

LEMMA EndFailedMoves ==
  ASSUME NEW s, Good(s), NEW t \in s.tasks PROVE Moves(s, EndFailed(s, t))
<1> DEFINE
      B == IF t.run = 0 THEN s.broken
           ELSE [s.broken EXCEPT ![t.doc] = @ \cup {t.run}]
      T == s.tasks \ {t}
      s1 == [s EXCEPT !.tasks = T, !.broken = B]
      fs == {f \in t.frags : t.kind = "analyze" /\ s.frag[f].held
                             /\ s.frag[f].status \in {"reserved", "analyzing"}}
      G == [f \in Fragments |->
              IF f \in fs THEN [s.frag[f] EXCEPT !.status = "failed", !.held = FALSE]
              ELSE s.frag[f]]
<1>1. s \in TablesSet /\ t \in TaskRow
  BY TaskGood DEF Good
<1>2. B \in [Docs -> SUBSET Runs] /\ T \in SUBSET TaskRow /\ T \subseteq s.tasks
  <2>1. t.run # 0 => t.run \in Runs
    BY <1>1 DEF TaskRow, Runs
  <2> QED BY <1>1, <2>1, FieldTypes
<1> HIDE DEF B, T
<1>3. /\ s1 \in TablesSet /\ s1.tasks = T /\ s1.frag = s.frag /\ s1.doc = s.doc
      /\ s1.artifact = s.artifact /\ s1.run = s.run /\ s1.item = s.item
  BY <1>1, <1>2 DEF TablesSet
<1> HIDE DEF s1
<1>4. Moves(s, s1)
  BY <1>2, <1>3, TasksEnd
<1>5. ASSUME NEW f \in Fragments
      PROVE  /\ RowStep(s1.frag[f], G[f])
             /\ G[f].status \in OpenStatus => s1.frag[f].status \in OpenStatus
  <2>1. s.frag[f] \in FragmentRow /\ RowOk(s.frag[f])
    BY RowsGood
  <2>2. CASE f \in fs
    BY <1>3, <2>1, <2>2, ReleasedRow DEF OpenStatus, FragmentRow
  <2>3. CASE f \notin fs
    BY <1>3, <2>1, <2>3, SameRow
  <2> QED BY <2>2, <2>3
<1>6. ASSUME NEW q \in s1.tasks, q.kind = "analyze", NEW f \in q.frags
      PROVE  G[f].held
  <2>1. q \in s.tasks /\ q # t
    BY <1>3 DEF T
  <2>2. s.frag[f].held /\ f \in Fragments
    BY <1>6, <2>1, TaskGood DEF TaskOk
  <2>3. f \notin fs
    BY <1>6, <2>1 DEF Good, TasksOk, Apart
  <2> QED BY <2>2, <2>3
<1>7. G \in [Fragments -> FragmentRow]
  BY <1>5 DEF RowStep
<1>8. EndFailed(s, t) = [s1 EXCEPT !.frag = G]
  BY <1>3 DEF EndFailed, Fragged, s1, B, T
<1> HIDE DEF G
<1>9. Moves(s1, [s1 EXCEPT !.frag = G])
  BY <1>4, <1>5, <1>6, <1>7, FragsMove DEF Moves
<1> QED BY <1>4, <1>8, <1>9, MovesOn

LEMMA RequeuedMoves ==
  ASSUME NEW s, Good(s), NEW t \in s.tasks PROVE Moves(s, Requeued(s, t))
<1> DEFINE
      q == [t EXCEPT !.holder = None]
      s1 == [s EXCEPT !.tasks = (@ \ {t}) \cup {q}]
      fs == {f \in t.frags : t.kind = "analyze" /\ s.frag[f].held
                             /\ s.frag[f].status \in {"reserved", "analyzing"}}
      G == [f \in Fragments |->
              IF f \in fs THEN [s.frag[f] EXCEPT !.status = "reserved"]
              ELSE s.frag[f]]
<1>1. t \in TaskRow
  BY TaskGood
<1>2. q \in TaskRow /\ q.kind = t.kind /\ q.doc = t.doc /\ q.run = t.run
      /\ q.frags = t.frags
  BY <1>1 DEF TaskRow
<1> HIDE DEF q
<1>3. Moves(s, s1) /\ s1.frag = s.frag
  BY <1>2, TaskReplaced
<1> HIDE DEF s1
<1>5. ASSUME NEW f \in Fragments
      PROVE  /\ RowStep(s1.frag[f], G[f])
             /\ G[f].status \in OpenStatus => s1.frag[f].status \in OpenStatus
             /\ s1.frag[f].held => G[f].held
  <2>1. s.frag[f] \in FragmentRow /\ RowOk(s.frag[f])
    BY RowsGood
  <2>2. CASE f \in fs
    BY <1>3, <2>1, <2>2, StatusRow DEF OpenStatus, FragmentRow
  <2>3. CASE f \notin fs
    BY <1>3, <2>1, <2>3, SameRow
  <2> QED BY <2>2, <2>3
<1>7. G \in [Fragments -> FragmentRow]
  BY <1>5 DEF RowStep
<1>8. Requeued(s, t) = [s1 EXCEPT !.frag = G]
  BY <1>3 DEF Requeued, Fragged, s1, q
<1> HIDE DEF G
<1>6. ASSUME NEW e \in s1.tasks, e.kind = "analyze", NEW f \in e.frags
      PROVE  G[f].held
  <2>1. Good(s1)
    BY <1>3 DEF Moves
  <2>2. s1.frag[f].held /\ f \in Fragments
    BY <1>6, <2>1, TaskGood DEF TaskOk
  <2> QED BY <2>2, <1>5
<1>9. Moves(s1, [s1 EXCEPT !.frag = G])
  BY <1>3, <1>5, <1>6, <1>7, FragsMove DEF Moves
<1> QED BY <1>3, <1>8, <1>9, MovesOn

LEMMA ExpiredLeaseMoves ==
  ASSUME NEW s, Good(s), NEW t \in s.tasks PROVE Moves(s, ExpiredLease(s, t))
<1>1. Moves(s, Requeued(s, t)) /\ Moves(s, EndFailed(s, t))
  BY RequeuedMoves, EndFailedMoves
<1>2. Moves(EndFailed(s, t), ReconcileTerminal(EndFailed(s, t), Bound(t)))
  BY <1>1, ReconcileTerminalMoves DEF Moves
<1> QED BY <1>1, <1>2, MovesOn DEF ExpiredLease

\* A document that is analyzed or audited has been cut.
LEMMA TaskCut ==
  ASSUME NEW s, Good(s), NEW t \in s.tasks, t.kind \in {"analyze", "audit"},
         s.item[t.doc] = "none"
  PROVE  Cut(s.frag, t.doc)
<1>1. TaskOk(s.frag, t) /\ t.frags \subseteq Fragments
  BY TaskGood
<1>2. /\ t.doc \in Docs /\ t.run \in Runs
  BY <1>1 DEF TaskOk
<1>3. t.run = 1
  BY <1>2, Bounds DEF Good, DocOk
<1>4. PICK f \in t.frags : /\ f[1] = t.doc /\ f[2] = 1
                           /\ s.frag[f].status # "none"
  BY <1>1, <1>3 DEF TaskOk
<1> QED BY <1>1, <1>4 DEF Good, FragsOk, Together, Cut, OfRun

LEMMA FailedTaskMoves ==
  ASSUME NEW s, Good(s), NEW t \in s.tasks, NEW final \in BOOLEAN
  PROVE  Moves(s, FailedTask(s, t, final))
<1> DEFINE s1 == IF final THEN EndFailed(s, t) ELSE Requeued(s, t)
           x == IF final /\ t.kind \notin {"analyze", "audit"} THEN "failed"
                ELSE RetryStatus(t.kind)
           ds == {t.doc} \cap Docs
           s2 == Marked(s1, ds, x)
<1>1. Moves(s, s1)
  BY RequeuedMoves, EndFailedMoves
<1>2. /\ x \in DocStatus /\ x # "completed"
      /\ x \in Studied => t.kind \in {"analyze", "audit"}
  BY DEF RetryStatus, DocStatus, Studied
<1> HIDE DEF s1, x
<1>3. ASSUME NEW d \in ds, x \in Studied, s1.item[d] = "none"
      PROVE  Cut(s1.frag, d)
  <2>1. d = t.doc /\ s.item[d] = "none" /\ d \in Docs
    BY <1>1, <1>3 DEF Moves
  <2>2. Cut(s.frag, d)
    BY <1>2, <1>3, <2>1, TaskCut
  <2> QED BY <1>1, <2>2 DEF Moves, Cut, OfRun
<1>4. Moves(s1, s2)
  BY <1>1, <1>2, <1>3, MarkedMoves DEF Moves
<1> HIDE DEF ds, s2
<1>5. Moves(s, s2)
  BY <1>1, <1>4, MovesOn
<1>6. Moves(s, ReconcileTerminal(s2, Bound(t)))
  BY <1>5, ReconcileTerminalMoves, MovesOn DEF Moves
<1> QED BY <1>5, <1>6 DEF FailedTask, s1, x, ds, s2

LEMMA EndExhaustedMoves ==
  ASSUME NEW s, Good(s) PROVE Moves(s, EndExhausted(s))
<1> DEFINE
      spent == Spent(s)
      fs == {f \in UNION {t.frags : t \in spent} :
               s.frag[f].held /\ s.frag[f].status \in {"reserved", "analyzing"}}
      B == [d \in Docs |->
              s.broken[d] \cup {t.run : t \in {q \in spent : q.doc = d}}]
      T == s.tasks \ spent
      s1 == [s EXCEPT !.tasks = T, !.broken = B]
      G == [f \in Fragments |->
              IF f \in fs
              THEN [s.frag[f] EXCEPT !.status = "failed", !.held = FALSE,
                                     !.disposition = "open"]
              ELSE s.frag[f]]
      s2 == [s1 EXCEPT !.frag = G]
<1>1. s \in TablesSet
  BY DEF Good
<1>2. B \in [Docs -> SUBSET Runs] /\ T \in SUBSET TaskRow /\ T \subseteq s.tasks
  <2>1. \A t \in spent : t \in s.tasks /\ t.kind = "analyze" /\ t.run \in Runs
    BY TaskGood DEF Spent, TaskOk
  <2> HIDE DEF spent
  <2> QED BY <1>1, <2>1, FieldTypes
<1> HIDE DEF B
<1>3. /\ s1 \in TablesSet /\ s1.tasks = T /\ s1.frag = s.frag /\ s1.doc = s.doc
      /\ s1.artifact = s.artifact /\ s1.run = s.run /\ s1.item = s.item
  <2> HIDE DEF T
  <2> QED BY <1>1, <1>2 DEF TablesSet
<1> HIDE DEF s1
<1>4. Moves(s, s1)
  BY <1>2, <1>3, TasksEnd
<1>5. ASSUME NEW f \in Fragments
      PROVE  /\ RowStep(s1.frag[f], G[f])
             /\ G[f].status \in OpenStatus => s1.frag[f].status \in OpenStatus
  <2>1. s.frag[f] \in FragmentRow /\ RowOk(s.frag[f])
    BY RowsGood
  <2>2. CASE f \in fs
    <3> DEFINE q == [s.frag[f] EXCEPT !.status = "failed", !.held = FALSE,
                                      !.disposition = "open"]
    <3>1. RowStep(s.frag[f], q) /\ q.status = "failed"
      BY <2>1, <2>2 DEF RowStep, RowOk, FragmentRow
    <3>2. G[f] = q
      BY <2>2
    <3> HIDE DEF q, G
    <3> QED BY <1>3, <3>1, <3>2 DEF OpenStatus
  <2>3. CASE f \notin fs
    BY <1>3, <2>1, <2>3, SameRow
  <2> QED BY <2>2, <2>3
<1>6. ASSUME NEW q \in s1.tasks, q.kind = "analyze", NEW f \in q.frags
      PROVE  G[f].held
  <2>1. q \in s.tasks /\ q \notin spent
    BY <1>3
  <2>2. s.frag[f].held /\ f \in Fragments
    BY <1>6, <2>1, TaskGood DEF TaskOk
  <2>3. \A t \in spent : t \in s.tasks /\ t.kind = "analyze" /\ t # q
    BY <2>1 DEF Spent
  <2>4. f \notin UNION {t.frags : t \in spent}
    <3> HIDE DEF spent
    <3> QED BY <1>6, <2>1, <2>3 DEF Good, TasksOk, Apart
  <2> QED BY <2>2, <2>4
<1>7. G \in [Fragments -> FragmentRow]
  BY <1>5 DEF RowStep
<1>8. EndExhausted(s) = ReconcileTerminal(s2, UNION {Bound(t) : t \in spent})
  BY <1>3 DEF EndExhausted, Fragged, s1, B
<1> HIDE DEF G
<1>9. Moves(s1, s2)
  BY <1>4, <1>5, <1>6, <1>7, FragsMove DEF Moves
<1>10. Moves(s2, ReconcileTerminal(s2, UNION {Bound(t) : t \in spent}))
  BY <1>9, ReconcileTerminalMoves DEF Moves
<1> HIDE DEF s2, spent
<1> QED BY <1>4, <1>8, <1>9, <1>10, MovesOn

LEMMA ReconcileCompletedMoves ==
  ASSUME NEW s, Good(s) PROVE Moves(s, ReconcileCompleted(s))
<1> DEFINE
      D == [d \in Docs |-> IF d \in Drained(s) THEN "completed" ELSE s.doc[d]]
      s1 == Marked(s, Drained(s), "completed")
      R == [d \in Docs |-> [v \in Runs |->
              IF RunDrained(s1, d, v) THEN "completed" ELSE s1.run[d][v]]]
      u == [s1 EXCEPT !.run = R]
<1>1. s \in TablesSet
  BY DEF Good
<1>2. D \in [Docs -> DocStatus]
  BY <1>1, FieldTypes DEF DocStatus
<1>3. s1 = [s EXCEPT !.doc = D]
  BY DEF Marked
<1> HIDE DEF s1, D
<1>4. /\ s1 \in TablesSet /\ s1.doc = D /\ s1.frag = s.frag /\ s1.run = s.run
      /\ s1.tasks = s.tasks /\ s1.item = s.item /\ s1.artifact = s.artifact
  BY <1>1, <1>2, <1>3 DEF TablesSet
<1>5. R \in [Docs -> [Runs -> RunStatus]]
  BY <1>4, FieldTypes DEF RunStatus
<1>6. \A d \in Docs : s1.run[d][2] = "none" => R[d][2] = "none"
  BY Bounds DEF RunDrained, ActiveRun
<1>7. u = ReconcileCompleted(s)
  BY DEF ReconcileCompleted, s1
<1> HIDE DEF R
<1>8. /\ u \in TablesSet /\ u.doc = D /\ u.frag = s.frag /\ u.run = R
      /\ u.tasks = s.tasks /\ u.item = s.item /\ u.artifact = s.artifact
  BY <1>4, <1>5 DEF TablesSet
<1> HIDE DEF u
<1>9. ASSUME NEW d \in Docs PROVE DocStep(s, u, d)
  <2>1. DocOk(s, d)
    BY DEF Good
  <2>2. OpenOf(u, d) = OpenOf(s, d)
    BY <1>8 DEF OpenOf
  <2>3. D[d] = IF d \in Drained(s) THEN "completed" ELSE s.doc[d]
    BY DEF D
  <2>4. d \in Drained(s) =>
           /\ s.doc[d] \in Studied /\ OpenOf(s, d) = {}
           /\ \A t \in s.tasks : t.doc = d => t.kind # "analyze"
    BY DEF Drained, Studied, Mechanical
  <2> QED BY <1>4, <1>6, <1>8, <2>1, <2>2, <2>3, <2>4 DEF DocOk, DocStep
<1>10. /\ \A f \in Fragments : RowStep(s.frag[f], u.frag[f])
       /\ TasksOk(u.frag, u.tasks)
  BY <1>8, RowsGood, SameRow DEF Good
<1>11. Moves(s, u)
  BY <1>8, <1>9, <1>10, GoodStep
<1> QED BY <1>7, <1>11

\* Tasks that are no analyses are added.
LEMMA TasksAdd ==
  ASSUME NEW s, Good(s), NEW N \in SUBSET TaskRow,
         \A t \in N : /\ TaskOk(s.frag, t) /\ t.kind # "analyze"
                      /\ t.doc \in Docs => (s.item[t.doc] = "none" => t.run # 2)
  PROVE  Moves(s, [s EXCEPT !.tasks = @ \cup N])
<1> DEFINE T == s.tasks \cup N
           u == [s EXCEPT !.tasks = T]
<1>1. s \in TablesSet /\ T \in SUBSET TaskRow
  BY FieldTypes DEF Good
<1>2. \A f \in Fragments : RowStep(s.frag[f], s.frag[f])
  BY RowsGood, SameRow
<1>3. TasksOk(s.frag, T)
  BY DEF Good, TasksOk, Apart
<1>4. \A t \in T : t \in s.tasks \/ t \in N
  OBVIOUS
<1> HIDE DEF T
<1>5. /\ u \in TablesSet /\ u.tasks = T /\ u.frag = s.frag /\ u.doc = s.doc
      /\ u.item = s.item /\ u.run = s.run /\ u.artifact = s.artifact
  BY <1>1 DEF TablesSet
<1> HIDE DEF u
<1>6. ASSUME NEW d \in Docs PROVE DocStep(s, u, d)
  <2>1. DocOk(s, d)
    BY DEF Good
  <2>2. OpenOf(u, d) = OpenOf(s, d)
    BY <1>5 DEF OpenOf
  <2> QED BY <1>4, <1>5, <2>1, <2>2 DEF DocOk, DocStep
<1>7. Moves(s, u)
  BY <1>2, <1>3, <1>5, <1>6, GoodStep
<1> QED BY <1>7 DEF u, T

LEMMA ClaimableRows ==
  ASSUME NEW s, Good(s), NEW d \in Docs, NEW v \in Runs, NEW f \in Claimable(s, d, v)
  PROVE  /\ f \in Fragments /\ f[1] = d /\ f[2] = v
         /\ s.frag[f].status = "queued" /\ ~s.frag[f].held
         /\ s.item[d] = "none" => v = 1 /\ Cut(s.frag, d)
<1>1. /\ f \in Fragments /\ f[1] = d /\ f[2] = v
      /\ s.frag[f].status = "queued" /\ ~s.frag[f].held
  BY DEF Claimable
<1>2. s.item[d] = "none" => v # 2
  BY <1>1 DEF Good, DocOk, OfRun
<1>3. s.item[d] = "none" => v = 1
  BY <1>2, Bounds
<1>4. s.item[d] = "none" => Cut(s.frag, d)
  BY <1>1, <1>3 DEF Good, FragsOk, Together, Cut, OfRun
<1> QED BY <1>1, <1>3, <1>4

LEMMA ChosenRunOk ==
  ASSUME NEW s, Good(s), NEW d \in Docs, NEW analysis \in BOOLEAN
  PROVE  /\ ChosenRun(s, d, analysis) \in 0..2
         /\ ChosenRun(s, d, analysis) \in 0..3
         /\ s.item[d] = "none" => ChosenRun(s, d, analysis) # 2
<1> DEFINE pending == {v \in Runs : Claimable(s, d, v) # {}}
           active == {v \in Runs : s.run[d][v] \in ActiveRun}
           best == IF analysis /\ pending # {}
                   THEN IF pending \cap active = {} THEN pending
                        ELSE pending \cap active
                   ELSE IF active # {} THEN active ELSE pending
           chosen == CHOOSE v \in best : \A u \in best : u <= v
<1>1. best \subseteq {1, 2}
  BY Bounds
<1>2. s.item[d] = "none" => 2 \notin best
  <2>1. s.item[d] = "none" => 2 \notin pending
    BY ClaimableRows, Bounds
  <2>2. s.item[d] = "none" => 2 \notin active
    BY DEF Good, DocOk, ActiveRun
  <2> HIDE DEF pending, active
  <2> QED BY <2>1, <2>2
<1>3. ChosenRun(s, d, analysis) = IF best = {} THEN 0 ELSE chosen
  BY DEF ChosenRun
<1> HIDE DEF best
<1>4. ASSUME best # {} PROVE \E v \in best : \A u \in best : u <= v
  <2>1. CASE 2 \in best
    BY <1>1, <2>1
  <2>2. CASE 2 \notin best
    <3>1. \A u \in best : u = 1
      BY <1>1, <2>2
    <3>2. 1 \in best /\ \A u \in best : u <= 1
      BY <1>4, <3>1
    <3> QED BY <3>2
  <2> QED BY <2>1, <2>2
<1>5. best # {} => chosen \in best
  BY <1>4
<1> HIDE DEF chosen
<1>6. CASE best = {}
  BY <1>3, <1>6
<1>7. CASE best # {}
  <2>1. chosen \in {1, 2} /\ (s.item[d] = "none" => chosen # 2)
    BY <1>1, <1>2, <1>5, <1>7
  <2>2. chosen \in 0..2 /\ chosen \in 0..3
    BY <2>1
  <2> QED BY <1>3, <1>7, <2>1, <2>2
<1> QED BY <1>6, <1>7

LEMMA NewTaskRow ==
  ASSUME NEW kind \in Kinds, NEW d \in Docs \cup {None}, NEW scope \in 0..3,
         NEW v \in 0..2, NEW fs \in SUBSET Fragments
  PROVE  LET t == NewTask(kind, d, scope, v, fs)
         IN  /\ t \in TaskRow /\ t.kind = kind /\ t.doc = d /\ t.run = v
             /\ t.frags = fs /\ t.holder = None
BY Bounds DEF NewTask, TaskRow

LEMMA QueueMechanicalMoves ==
  ASSUME NEW s, Good(s), NEW ds \in SUBSET Docs
  PROVE  Moves(s, QueueMechanical(s, ds))
<1> DEFINE N == {t \in {MechanicalTask(s, d) : d \in ds} : CanInsert(s, t)}
<1>1. ASSUME NEW d \in ds
      PROVE  LET t == MechanicalTask(s, d)
             IN  /\ t \in TaskRow /\ TaskOk(s.frag, t) /\ t.kind # "analyze"
                 /\ t.doc = d /\ (s.item[d] = "none" => t.run # 2)
  <2> DEFINE v == ChosenRun(s, d, FALSE)
             kind == CASE s.doc[d] \in {"acquired", "converting"} -> "convert"
                       [] s.doc[d] \in {"converted", "chunking"} -> "chunk"
                       [] OTHER -> "acquire"
             t == NewTask(kind, d, v, v, {})
  <2>1. kind \in Mechanical /\ kind \in Kinds /\ kind \notin {"analyze", "audit"}
    BY DEF Mechanical, Kinds
  <2>2. v \in 0..2 /\ v \in 0..3 /\ (s.item[d] = "none" => v # 2)
    BY ChosenRunOk
  <2>3. MechanicalTask(s, d) = t
    BY DEF MechanicalTask
  <2> HIDE DEF v, kind
  <2>4. /\ t \in TaskRow /\ t.kind = kind /\ t.doc = d /\ t.run = v
        /\ t.frags = {}
    BY <2>1, <2>2, NewTaskRow
  <2> HIDE DEF t
  <2> QED BY <2>1, <2>2, <2>3, <2>4 DEF TaskOk
<1>2. /\ N \in SUBSET TaskRow
      /\ \A t \in N : /\ TaskOk(s.frag, t) /\ t.kind # "analyze"
                      /\ t.doc \in Docs => (s.item[t.doc] = "none" => t.run # 2)
  BY <1>1
<1>3. QueueMechanical(s, ds) = [s EXCEPT !.tasks = @ \cup N]
  BY DEF QueueMechanical
<1> HIDE DEF N
<1> QED BY <1>2, <1>3, TasksAdd

LEMMA QueuePublicationMoves ==
  ASSUME NEW s, Good(s) PROVE Moves(s, QueuePublication(s))
<1> DEFINE ready == {f \in Fragments : "verified" \in s.frag[f].records
                                       /\ ~InLive(s, "publish", f)}
           owners == {f[1] : f \in ready}
           owner == IF Cardinality(owners) = 1 THEN CHOOSE d \in owners : TRUE
                    ELSE None
           t == NewTask("publish", owner, 0, 0, ready)
<1>1. CASE ready = {}
  BY <1>1, StaysGood DEF QueuePublication
<1>2. CASE ready # {}
  <2>1. owners \subseteq Docs /\ owners # {}
    BY <1>2, FragmentParts
  <2>2. owner \in Docs \cup {None}
    <3> HIDE DEF owners
    <3> QED BY <2>1
  <2>3. \A f \in ready : s.frag[f].status # "none"
    BY RowsGood DEF RowOk
  <2>4. QueuePublication(s) = InsertTask(s, t)
    BY <1>2 DEF QueuePublication
  <2>5. /\ ready \in SUBSET Fragments
        /\ 0 \in 0..2 /\ 0 \in 0..3 /\ "publish" \in Kinds
    BY DEF Kinds
  <2> HIDE DEF owner, ready
  <2>6. /\ t \in TaskRow /\ t.kind = "publish" /\ t.run = 0 /\ t.frags = ready
    BY <2>2, <2>5, NewTaskRow
  <2> HIDE DEF t
  <2>7. TaskOk(s.frag, t)
    BY <2>3, <2>6 DEF TaskOk, Mechanical
  <2>8. Moves(s, [s EXCEPT !.tasks = @ \cup {t}])
    <3>1. /\ {t} \in SUBSET TaskRow
          /\ \A q \in {t} :
               /\ TaskOk(s.frag, q) /\ q.kind # "analyze"
               /\ q.doc \in Docs => (s.item[q.doc] = "none" => q.run # 2)
      BY <2>6, <2>7
    <3> QED BY <3>1, TasksAdd
  <2> QED BY <2>4, <2>8, StaysGood DEF InsertTask
<1> QED BY <1>1, <1>2

LEMMA QueueAuditsMoves ==
  ASSUME NEW s, Good(s) PROVE Moves(s, QueueAudits(s))
<1> DEFINE due(d, v) == {f \in OfRun(d, v) :
                           /\ s.frag[f].audit /\ ~InLive(s, "audit", f)
                           /\ s.frag[f].records \cap {"verified", "published"} # {}}
           N == {t \in AuditTasks(s) : CanInsert(s, t)}
<1>1. ASSUME NEW t \in AuditTasks(s)
      PROVE  /\ t \in TaskRow /\ TaskOk(s.frag, t) /\ t.kind = "audit"
             /\ s.item[t.doc] = "none" => t.run # 2
  <2>1. PICK r \in Docs \X Runs :
           /\ due(r[1], r[2]) # {}
           /\ t = NewTask("audit", r[1], r[2], r[2], due(r[1], r[2]))
    BY DEF AuditTasks
  <2> DEFINE fs == due(r[1], r[2])
  <2>2. /\ r[1] \in Docs /\ r[2] \in Runs /\ r[2] \in 0..2 /\ r[2] \in 0..3
    BY Bounds
  <2>3. ASSUME NEW f \in fs
        PROVE  /\ f \in Fragments /\ f[1] = r[1] /\ f[2] = r[2]
               /\ s.frag[f].status # "none"
    BY RowsGood DEF RowOk, OfRun
  <2>4. s.item[r[1]] = "none" => r[2] # 2
    <3>1. PICK f \in fs : f \in OfRun(r[1], r[2]) /\ s.frag[f].status # "none"
      BY <2>1, <2>3
    <3> QED BY <2>2, <3>1 DEF Good, DocOk
  <2> HIDE DEF fs
  <2>5. fs \in SUBSET Fragments /\ fs # {}
    BY <2>1, <2>3 DEF fs
  <2>6. t = NewTask("audit", r[1], r[2], r[2], fs)
    BY <2>1 DEF fs
  <2>a. "audit" \in Kinds /\ r[1] \in Docs \cup {None} /\ fs \in SUBSET Fragments
    BY <2>2, <2>5 DEF Kinds
  <2>7. /\ t \in TaskRow /\ t.kind = "audit" /\ t.doc = r[1] /\ t.run = r[2]
        /\ t.frags = fs
    BY <2>2, <2>6, <2>a, NewTaskRow
  <2> QED BY <2>2, <2>3, <2>4, <2>5, <2>7 DEF TaskOk, Mechanical
<1>2. /\ N \in SUBSET TaskRow
      /\ \A t \in N : /\ TaskOk(s.frag, t) /\ t.kind # "analyze"
                      /\ t.doc \in Docs => (s.item[t.doc] = "none" => t.run # 2)
  BY <1>1
<1>3. QueueAudits(s) = [s EXCEPT !.tasks = @ \cup N]
  BY DEF QueueAudits
<1> HIDE DEF N
<1> QED BY <1>2, <1>3, TasksAdd

LEMMA AnalysisTaskOk ==
  ASSUME NEW s, Good(s), NEW d \in Docs
  PROVE  LET t == AnalysisTask(s, d)
         IN  /\ t.kind = "analyze" /\ t.doc = d
             /\ t.frags \in SUBSET Fragments
             /\ \A f \in t.frags : /\ f[1] = d /\ f[2] = t.run
                                   /\ s.frag[f].status = "queued"
                                   /\ ~s.frag[f].held
             /\ t.frags # {} => /\ t \in TaskRow /\ t.run \in Runs
                                /\ s.item[d] = "none" => t.run # 2
<1> DEFINE v == ChosenRun(s, d, TRUE)
           fs == Claimable(s, d, v)
           gs == {f \in fs : Cardinality({g \in fs : g[3] < f[3]}) < Batch}
           t == NewTask("analyze", d, v, v, gs)
<1>1. AnalysisTask(s, d) = t
  BY DEF AnalysisTask
<1>2. /\ v \in 0..2 /\ v \in 0..3 /\ (s.item[d] = "none" => v # 2)
  BY ChosenRunOk
<1>3. gs \subseteq fs
  OBVIOUS
<1>4. \A f \in fs : /\ f \in Fragments /\ f[1] = d /\ f[2] = v
                    /\ s.frag[f].status = "queued" /\ ~s.frag[f].held
  BY DEF Claimable
<1>5. /\ gs \in SUBSET Fragments /\ "analyze" \in Kinds /\ d \in Docs \cup {None}
  BY <1>3, <1>4 DEF Kinds
<1> HIDE DEF v, fs, gs
<1>6. /\ t \in TaskRow /\ t.kind = "analyze" /\ t.doc = d /\ t.run = v
      /\ t.frags = gs
  BY <1>2, <1>5, NewTaskRow
<1>7. gs # {} => v \in Runs
  BY <1>3, <1>4, FragmentParts
<1> HIDE DEF t
<1> QED BY <1>1, <1>2, <1>3, <1>4, <1>5, <1>6, <1>7

LEMMA QueueAnalysisMoves ==
  ASSUME NEW s, Good(s) PROVE Moves(s, QueueAnalysis(s))
<1> DEFINE
      new == {t \in {AnalysisTask(s, d) : d \in {d \in s.slots : s.doc[d] \notin Closed}} :
                t.frags # {} /\ CanInsert(s, t)}
      fs == UNION {t.frags : t \in new}
      G == [f \in Fragments |->
              IF f \in fs THEN [s.frag[f] EXCEPT !.status = "reserved", !.held = TRUE]
              ELSE s.frag[f]]
      T == s.tasks \cup new
      s1 == [s EXCEPT !.frag = G]
      u == [s1 EXCEPT !.tasks = T]
      ds == {t.doc : t \in new}
<1>1. s \in TablesSet
  BY DEF Good
<1>2. ASSUME NEW t \in new
      PROVE  /\ t \in TaskRow /\ t.kind = "analyze" /\ t.frags # {}
             /\ t.frags \in SUBSET Fragments
             /\ t.doc \in Docs /\ t.run \in Runs /\ s.doc[t.doc] # "completed"
             /\ s.item[t.doc] = "none" => t.run # 2
             /\ \A f \in t.frags : /\ f[1] = t.doc /\ f[2] = t.run
                                   /\ s.frag[f].status = "queued"
                                   /\ ~s.frag[f].held
             /\ t = AnalysisTask(s, t.doc)
  <2>1. PICK d \in s.slots : /\ s.doc[d] \notin Closed
                             /\ t = AnalysisTask(s, d)
    OBVIOUS
  <2>2. d \in Docs /\ t.frags # {}
    BY <1>1, FieldTypes
  <2>3. s.doc[d] # "completed"
    BY <2>1 DEF Closed
  <2> HIDE DEF new
  <2> QED BY <2>1, <2>2, <2>3, AnalysisTaskOk
<1> HIDE DEF new
<1>3. \A f \in fs : f \in Fragments /\ s.frag[f].status = "queued"
  BY <1>2
<1>4. ASSUME NEW f \in Fragments
      PROVE  /\ RowStep(s.frag[f], G[f])
             /\ G[f].status \in OpenStatus => s.frag[f].status \in OpenStatus
             /\ s.frag[f].held => G[f].held
             /\ f \in fs => G[f].held
  <2>1. s.frag[f] \in FragmentRow /\ RowOk(s.frag[f])
    BY RowsGood
  <2>2. CASE f \in fs
    <3> DEFINE q == [s.frag[f] EXCEPT !.status = "reserved", !.held = TRUE]
    <3>1. s.frag[f].status = "queued"
      BY <1>3, <2>2
    <3>2. RowStep(s.frag[f], q) /\ q.held
      BY <2>1, <3>1 DEF RowStep, RowOk, FragmentRow
    <3>3. G[f] = q
      BY <2>2
    <3> HIDE DEF q, G, fs
    <3> QED BY <3>1, <3>2, <3>3 DEF OpenStatus
  <2>3. CASE f \notin fs
    BY <2>1, <2>3, SameRow
  <2> QED BY <2>2, <2>3
<1>5. G \in [Fragments -> FragmentRow] /\ T \in SUBSET TaskRow
  BY <1>1, <1>2, <1>4, FieldTypes DEF RowStep
<1>6. TasksOk(G, T)
  <2>1. ASSUME NEW t \in s.tasks PROVE TaskOk(G, t)
    <3>1. TaskOk(s.frag, t) /\ t.frags \subseteq Fragments
      BY TaskGood
    <3> HIDE DEF G
    <3> QED BY <1>4, <3>1 DEF TaskOk, RowStep
  <2>2. ASSUME NEW t \in new PROVE TaskOk(G, t)
    <3>1. \A f \in t.frags : f \in fs /\ f \in Fragments
      BY <1>2
    <3>2. \A f \in t.frags : s.frag[f].status # "none"
      BY <1>2
    <3> HIDE DEF G, fs
    <3> QED BY <1>2, <1>4, <3>1, <3>2 DEF TaskOk, RowStep, Mechanical
  <2>3. ASSUME NEW t \in new, NEW q \in s.tasks, q.kind = "analyze"
        PROVE  t.frags \cap q.frags = {}
    <3>1. \A f \in q.frags : s.frag[f].held
      BY <2>3, TaskGood DEF TaskOk
    <3> QED BY <1>2, <3>1
  <2>4. ASSUME NEW t \in new, NEW q \in new, t # q
        PROVE  t.frags \cap q.frags = {}
    <3>1. t.doc # q.doc
      BY <1>2, <2>4
    <3> QED BY <1>2, <3>1
  <2>5. Apart(s.tasks)
    BY DEF Good, TasksOk
  <2>6. Apart(T)
    BY <2>3, <2>4, <2>5 DEF Apart
  <2> HIDE DEF G
  <2> QED BY <2>1, <2>2, <2>6 DEF TasksOk
<1>7. \A f \in Fragments : RowStep(s.frag[f], G[f])
  BY <1>4
<1>8. \A f \in Fragments : G[f].status \in OpenStatus => s.frag[f].status \in OpenStatus
  BY <1>4
<1>9. s1 = Fragged(s, fs, LAMBDA f : [s.frag[f] EXCEPT !.status = "reserved",
                                                       !.held = TRUE])
  BY DEF Fragged
<1>10. \A t \in T : t \in s.tasks \/ t \in new
  OBVIOUS
<1>11. QueueAnalysis(s) = Marked(u, ds, "analyzing")
  BY <1>9 DEF QueueAnalysis, new
<1> HIDE DEF G, T, s1, u
<1>12. /\ u \in TablesSet /\ u.frag = G /\ u.tasks = T /\ u.doc = s.doc
       /\ u.item = s.item /\ u.run = s.run /\ u.artifact = s.artifact
  <2>1. /\ s1 \in TablesSet /\ s1.frag = G /\ s1.doc = s.doc
        /\ s1.item = s.item /\ s1.run = s.run /\ s1.artifact = s.artifact
    BY <1>1, <1>5, WithFrag DEF s1
  <2> QED BY <1>5, <2>1 DEF TablesSet, u
<1>13. ASSUME NEW d \in Docs PROVE DocStep(s, u, d)
  <2>1. DocOk(s, d)
    BY DEF Good
  <2>2. OpenOf(u, d) \subseteq OpenOf(s, d)
    BY <1>8, <1>12 DEF OpenOf
  <2> QED BY <1>2, <1>10, <1>12, <2>1, <2>2 DEF DocOk, DocStep
<1>14. Moves(s, u)
  BY <1>6, <1>7, <1>12, <1>13, GoodStep
<1>15. ASSUME NEW d \in ds, u.item[d] = "none" PROVE Cut(u.frag, d)
  <2>1. PICK t \in new : d = t.doc
    BY <1>15
  <2>2. t \in u.tasks /\ t.kind = "analyze"
    BY <1>2, <1>12 DEF T
  <2> QED BY <1>14, <1>15, <2>1, <2>2, TaskCut DEF Moves
<1>16. Moves(u, Marked(u, ds, "analyzing"))
  <2> HIDE DEF ds
  <2>1. "analyzing" \in DocStatus /\ "analyzing" # "completed"
    BY DEF DocStatus
  <2> QED BY <1>14, <1>15, <2>1, MarkedMoves DEF Moves
<1> QED BY <1>11, <1>14, <1>16, MovesOn

LEMMA AdjustLanesMoves ==
  ASSUME NEW s, Good(s) PROVE Moves(s, AdjustLanes(s))
<1> DEFINE
      stale == {f \in Fragments :
                  /\ s.frag[f].status \in OpenStatus /\ s.frag[f].held
                  /\ ~\E t \in s.tasks : t.kind = "analyze" /\ f \in t.frags}
      G == [f \in Fragments |->
              IF f \in stale THEN [s.frag[f] EXCEPT !.status = "queued", !.held = FALSE]
              ELSE s.frag[f]]
      s1 == [s EXCEPT !.frag = G]
      idle(d) == \E v \in Runs : Claimable(s1, d, v) # {}
      ds2 == {d \in Docs : s.doc[d] \in {"verifying", "failed"} /\ idle(d)}
      s2 == Marked(s1, ds2, "prepared")
      ds3 == {d \in Docs : /\ s2.doc[d] \in {"prepared", "analyzing"}
                           /\ OpenOf(s2, d) = {}}
      s3 == Marked(s2, ds3, "verifying")
      u == [s3 EXCEPT !.slots = {d \in @ : OpenOf(s3, d) # {}}]
<1>1. s \in TablesSet
  BY DEF Good
<1>2. ASSUME NEW f \in Fragments
      PROVE  /\ RowStep(s.frag[f], G[f])
             /\ G[f].status \in OpenStatus => s.frag[f].status \in OpenStatus
  <2>1. s.frag[f] \in FragmentRow /\ RowOk(s.frag[f])
    BY RowsGood
  <2>2. CASE f \in stale
    BY <2>1, <2>2, ReleasedRow DEF OpenStatus
  <2>3. CASE f \notin stale
    BY <2>1, <2>3, SameRow
  <2> QED BY <2>2, <2>3
<1>3. ASSUME NEW t \in s.tasks, t.kind = "analyze", NEW f \in t.frags
      PROVE  G[f].held
  BY <1>3, TaskGood DEF TaskOk
<1>4. G \in [Fragments -> FragmentRow]
  BY <1>2 DEF RowStep
<1>5. Moves(s, s1)
  <2> HIDE DEF G
  <2> QED BY <1>2, <1>3, <1>4, FragsMove
<1>6. AdjustLanes(s) = u
  <2>1. s1 = Fragged(s, stale, LAMBDA f : [s.frag[f] EXCEPT !.status = "queued",
                                                          !.held = FALSE])
    BY DEF Fragged
  <2> HIDE DEF s1, G
  <2> QED BY <2>1 DEF AdjustLanes
<1> HIDE DEF s1
<1>7. ASSUME NEW d \in ds2, s1.item[d] = "none" PROVE Cut(s1.frag, d)
  <2>1. Good(s1) /\ d \in Docs
    BY <1>5 DEF Moves
  <2>2. \E v \in Runs : Claimable(s1, d, v) # {}
    OBVIOUS
  <2>3. PICK v \in Runs : \E f : f \in Claimable(s1, d, v)
    BY <2>2
  <2>4. PICK f : f \in Claimable(s1, d, v)
    BY <2>3
  <2> QED BY <1>7, <2>1, <2>4, ClaimableRows
<1>8. Moves(s1, s2)
  <2> HIDE DEF ds2
  <2>1. "prepared" \in DocStatus /\ "prepared" # "completed"
    BY DEF DocStatus
  <2> QED BY <1>5, <1>7, <2>1, MarkedMoves DEF Moves
<1> HIDE DEF s2
<1>9. ASSUME NEW d \in ds3, s2.item[d] = "none" PROVE Cut(s2.frag, d)
  BY <1>8, <1>9 DEF Moves, Good, DocOk, Studied
<1>10. Moves(s2, s3)
  <2> HIDE DEF ds3
  <2>1. "verifying" \in DocStatus /\ "verifying" # "completed"
    BY DEF DocStatus
  <2> QED BY <1>8, <1>9, <2>1, MarkedMoves DEF Moves
<1> HIDE DEF s3
<1>11. Moves(s3, u)
  <2>1. Good(s3) /\ s3 \in TablesSet
    BY <1>10 DEF Moves, Good
  <2>2. /\ u \in TablesSet /\ u.frag = s3.frag /\ u.doc = s3.doc
        /\ u.artifact = s3.artifact /\ u.run = s3.run /\ u.item = s3.item
        /\ u.tasks = s3.tasks
    BY <2>1 DEF TablesSet
  <2> HIDE DEF u
  <2> QED BY <2>1, <2>2, TasksEnd
<1> QED BY <1>5, <1>6, <1>8, <1>10, <1>11, MovesOn

LEMMA TakeLanesMoves ==
  ASSUME NEW s, Good(s), NEW ds \in SUBSET Waiting(s)
  PROVE  Moves(s, TakeLanes(s, ds))
<1> DEFINE s1 == [s EXCEPT !.slots = @ \cup ds]
<1>1. s \in TablesSet /\ ds \subseteq Docs
  BY DEF Good, Waiting
<1>2. /\ s1 \in TablesSet /\ s1.frag = s.frag /\ s1.doc = s.doc
      /\ s1.artifact = s.artifact /\ s1.run = s.run /\ s1.item = s.item
      /\ s1.tasks = s.tasks
  BY <1>1 DEF TablesSet
<1>3. TakeLanes(s, ds) = Marked(s1, ds, "analyzing")
  BY DEF TakeLanes
<1> HIDE DEF s1
<1>4. Moves(s, s1)
  BY <1>2, TasksEnd
<1>5. ASSUME NEW d \in ds, s1.item[d] = "none" PROVE Cut(s1.frag, d)
  BY <1>1, <1>2, <1>5 DEF Good, DocOk, Waiting, Studied
<1>6. "analyzing" \in DocStatus /\ "analyzing" # "completed"
  BY DEF DocStatus
<1>7. Moves(s1, Marked(s1, ds, "analyzing"))
  BY <1>4, <1>5, <1>6, MarkedMoves DEF Moves
<1> QED BY <1>3, <1>4, <1>7, MovesOn

LEMMA LimitedSubset ==
  ASSUME NEW xs, NEW n, NEW ys \in Limited(xs, n) PROVE ys \in SUBSET xs
BY DEF Limited

\* One pass of the scheduler.
LEMMA ScheduleMoves ==
  ASSUME Good(Tables), Schedule(BOOLEAN, BOOLEAN)
  PROVE  \E u : Moves(Tables, u) /\ Commit(u) /\ UNCHANGED <<worker, faults>>
<1> DEFINE s0 == EndExhausted(Tables)
           s1 == ReconcileCompleted(s0)
<1>1. Moves(Tables, s0)
  BY EndExhaustedMoves
<1>2. Moves(Tables, s1)
  BY <1>1, ReconcileCompletedMoves, MovesOn DEF Moves
<1>3. PICK d2 \in Limited(ReprocessDocs(s1), MaxActive) :
        \E s2 \in {QueueMechanical(s1, d2)} :
        \E s3 \in {QueueMechanical(s2, ds) : ds \in Limited(Unprepared(s2), PreparationLimit(s2))} :
        \E s4 \in {QueueMechanical(Marked(s3, ds, "approved"), ds) :
                     ds \in Limited(DiscoveredDocs(s3), Available(s2))} :
        \E s5 \in {AdjustLanes(s4)} :
        \E s6 \in {TakeLanes(s5, ds) :
                     ds \in Limited(Waiting(s5), MaxActive - Cardinality(s5.slots))} :
        \E s7 \in {IF ripe THEN QueuePublication(s6) ELSE s6 : ripe \in BOOLEAN} :
        \E s8 \in {IF idle THEN QueueAnalysis(QueueAudits(s7)) ELSE s7 : idle \in BOOLEAN} :
          s8 # Tables /\ Commit(s8) /\ UNCHANGED <<worker, faults>>
  BY DEF Schedule
<1> DEFINE s2 == QueueMechanical(s1, d2)
<1> HIDE DEF s0, s1
<1>4. Moves(Tables, s2)
  <2>1. d2 \in SUBSET Docs /\ Good(s1)
    BY <1>2, LimitedSubset DEF ReprocessDocs, Moves
  <2> QED BY <1>2, <2>1, QueueMechanicalMoves, MovesOn
<1>5. PICK d3 \in Limited(Unprepared(s2), PreparationLimit(s2)) :
        \E s3 \in {QueueMechanical(s2, d3)} :
        \E s4 \in {QueueMechanical(Marked(s3, ds, "approved"), ds) :
                     ds \in Limited(DiscoveredDocs(s3), Available(s2))} :
        \E s5 \in {AdjustLanes(s4)} :
        \E s6 \in {TakeLanes(s5, ds) :
                     ds \in Limited(Waiting(s5), MaxActive - Cardinality(s5.slots))} :
        \E s7 \in {IF ripe THEN QueuePublication(s6) ELSE s6 : ripe \in BOOLEAN} :
        \E s8 \in {IF idle THEN QueueAnalysis(QueueAudits(s7)) ELSE s7 : idle \in BOOLEAN} :
          s8 # Tables /\ Commit(s8) /\ UNCHANGED <<worker, faults>>
  BY <1>3
<1> DEFINE s3 == QueueMechanical(s2, d3)
<1> HIDE DEF s2
<1>6. Moves(Tables, s3)
  <2>1. d3 \in SUBSET Docs /\ Good(s2)
    BY <1>4, LimitedSubset DEF Unprepared, Moves
  <2> QED BY <1>4, <2>1, QueueMechanicalMoves, MovesOn
<1>7. PICK d4 \in Limited(DiscoveredDocs(s3), Available(s2)) :
        \E s4 \in {QueueMechanical(Marked(s3, d4, "approved"), d4)} :
        \E s5 \in {AdjustLanes(s4)} :
        \E s6 \in {TakeLanes(s5, ds) :
                     ds \in Limited(Waiting(s5), MaxActive - Cardinality(s5.slots))} :
        \E s7 \in {IF ripe THEN QueuePublication(s6) ELSE s6 : ripe \in BOOLEAN} :
        \E s8 \in {IF idle THEN QueueAnalysis(QueueAudits(s7)) ELSE s7 : idle \in BOOLEAN} :
          s8 # Tables /\ Commit(s8) /\ UNCHANGED <<worker, faults>>
  BY <1>5
<1> DEFINE m4 == Marked(s3, d4, "approved")
           s4 == QueueMechanical(m4, d4)
<1> HIDE DEF s3
<1>8. Moves(Tables, s4)
  <2>1. d4 \in SUBSET Docs /\ Good(s3)
    BY <1>6, LimitedSubset DEF DiscoveredDocs, Moves
  <2>2. "approved" \in DocStatus /\ "approved" \notin Studied /\ "approved" # "completed"
    BY DEF DocStatus, Studied
  <2>3. Moves(s3, m4)
    BY <2>1, <2>2, MarkedMoves
  <2>4. Moves(m4, s4)
    <3> HIDE DEF m4
    <3> QED BY <2>1, <2>3, QueueMechanicalMoves DEF Moves
  <2> QED BY <1>6, <2>3, <2>4, MovesOn
<1> DEFINE s5 == AdjustLanes(s4)
<1> HIDE DEF s4
<1>9. Moves(Tables, s5)
  BY <1>8, AdjustLanesMoves, MovesOn DEF Moves
<1>10. PICK d6 \in Limited(Waiting(s5), MaxActive - Cardinality(s5.slots)) :
        \E s6 \in {TakeLanes(s5, d6)} :
        \E s7 \in {IF ripe THEN QueuePublication(s6) ELSE s6 : ripe \in BOOLEAN} :
        \E s8 \in {IF idle THEN QueueAnalysis(QueueAudits(s7)) ELSE s7 : idle \in BOOLEAN} :
          s8 # Tables /\ Commit(s8) /\ UNCHANGED <<worker, faults>>
  BY <1>7 DEF s4
<1> DEFINE s6 == TakeLanes(s5, d6)
<1> HIDE DEF s5
<1>11. Moves(Tables, s6)
  <2>1. d6 \in SUBSET Waiting(s5) /\ Good(s5)
    BY <1>9, LimitedSubset DEF Moves
  <2> QED BY <1>9, <2>1, TakeLanesMoves, MovesOn
<1>12. PICK ripe \in BOOLEAN :
        \E s7 \in {IF ripe THEN QueuePublication(s6) ELSE s6} :
        \E s8 \in {IF idle THEN QueueAnalysis(QueueAudits(s7)) ELSE s7 : idle \in BOOLEAN} :
          s8 # Tables /\ Commit(s8) /\ UNCHANGED <<worker, faults>>
  BY <1>10
<1> DEFINE s7 == IF ripe THEN QueuePublication(s6) ELSE s6
<1>13. PICK idle \in BOOLEAN :
        \E s8 \in {IF idle THEN QueueAnalysis(QueueAudits(s7)) ELSE s7} :
          s8 # Tables /\ Commit(s8) /\ UNCHANGED <<worker, faults>>
  BY <1>12
<1> HIDE DEF s6
<1>14. Moves(Tables, s7)
  <2>1. Moves(Tables, QueuePublication(s6))
    BY <1>11, QueuePublicationMoves, MovesOn DEF Moves
  <2> QED BY <1>11, <2>1
<1> HIDE DEF s7
<1>15. Moves(Tables, QueueAnalysis(QueueAudits(s7)))
  <2>1. Moves(Tables, QueueAudits(s7))
    BY <1>14, QueueAuditsMoves, MovesOn DEF Moves
  <2> QED BY <2>1, QueueAnalysisMoves, MovesOn DEF Moves
<1> DEFINE s8 == IF idle THEN QueueAnalysis(QueueAudits(s7)) ELSE s7
<1>16. Moves(Tables, s8)
  BY <1>14, <1>15
<1>17. Commit(s8) /\ UNCHANGED <<worker, faults>>
  BY <1>13
<1> QED BY <1>16, <1>17

LEMMA Parts ==
  /\ Tables.doc = doc /\ Tables.artifact = artifact /\ Tables.run = run
  /\ Tables.broken = broken /\ Tables.frag = frag /\ Tables.tasks = tasks
  /\ Tables.slots = slots /\ Tables.item = item /\ Tables.stopped = stopped
BY DEF Tables

LEMMA PartsNext ==
  /\ Tables'.doc = doc' /\ Tables'.artifact = artifact' /\ Tables'.run = run'
  /\ Tables'.broken = broken' /\ Tables'.frag = frag' /\ Tables'.tasks = tasks'
  /\ Tables'.slots = slots' /\ Tables'.item = item' /\ Tables'.stopped = stopped'
BY DEF Tables

\* A record is made of its fields.
LEMMA TablesEqual ==
  ASSUME NEW u \in TablesSet, Commit(u) PROVE Tables' = u
BY DEF TablesSet, Commit, Tables

\* A transaction after which no worker does anything else.
LEMMA QuietStep ==
  ASSUME Inv, NEW u, Moves(Tables, u), Commit(u), UNCHANGED worker,
         faults' \in 0..MaxFaults
  PROVE  Inv'
<1>1. Tables' = u /\ Good(u)
  BY TablesEqual DEF Moves, Good
<1>2. Good(Tables')
  BY <1>1
<1>3. /\ \A d \in Docs : item'[d] = "none" => item[d] = "none"
      /\ \A f \in Fragments : frag'[f].status = "none" => frag[f].status = "none"
  BY Parts DEF Moves, Commit
<1>4. ASSUME NEW w \in Workers PROVE WorkerOk(w)'
  <2>1. WorkerOk(w)
    BY DEF Inv, WorkersInv
  <2>2. \A d \in Docs : Cut(frag, d) => Cut(frag', d)
    BY <1>3 DEF Cut, OfRun
  <2> QED BY <1>3, <2>1, <2>2 DEF WorkerOk
<1> QED BY <1>2, <1>4 DEF Inv, WorkersInv

-----------------------------------------------------------------------------
(* The actions.                                                             *)

LEMMA Counted ==
  ASSUME Inv, UNCHANGED faults \/ Mishap PROVE faults' \in 0..MaxFaults
BY Bounds DEF Inv, WorkersInv, Mishap

\* A row of a fragment that keeps its reservation and is not opened again.
LEMMA FragsKeep ==
  ASSUME NEW s, Good(s), NEW G,
         \A f \in Fragments : /\ RowStep(s.frag[f], G[f])
                              /\ G[f].status \in OpenStatus => s.frag[f].status \in OpenStatus
                              /\ s.frag[f].held => G[f].held,
         NEW H, H = [f \in Fragments |-> G[f]]
  PROVE  Moves(s, [s EXCEPT !.frag = H])
<1>1. H \in [Fragments -> FragmentRow]
  BY DEF RowStep
<1>2. ASSUME NEW t \in s.tasks, t.kind = "analyze", NEW f \in t.frags
      PROVE  H[f].held
  <2>1. s.frag[f].held /\ f \in Fragments
    BY <1>2, TaskGood DEF TaskOk
  <2> QED BY <2>1
<1>3. \A f \in Fragments : RowStep(s.frag[f], H[f])
  OBVIOUS
<1>4. \A f \in Fragments : H[f].status \in OpenStatus => s.frag[f].status \in OpenStatus
  OBVIOUS
<1> QED BY <1>1, <1>2, <1>3, <1>4, FragsMove

\* A worker w that goes on to x.
LEMMA WorkStep ==
  ASSUME Inv, NEW u, Moves(Tables, u), Commit(u), faults' \in 0..MaxFaults,
         NEW w \in Workers, NEW x, worker' = [worker EXCEPT ![w] = x],
         \/ x = IdleWorker
         \/ x.pc \in {"working", "segmented", "written"} /\ x.task \in TaskRow,
         WorkerOk(w)'
  PROVE  Inv'
<1>1. Tables' = u /\ Good(u)
  BY TablesEqual DEF Moves, Good
<1>2. Good(Tables')
  BY <1>1
<1>3. /\ \A d \in Docs : item'[d] = "none" => item[d] = "none"
      /\ \A f \in Fragments : frag'[f].status = "none" => frag[f].status = "none"
  BY Parts DEF Moves, Commit
<1>4. DOMAIN worker = Workers /\ worker' \in [Workers -> {worker'[e] : e \in Workers}]
      /\ worker'[w] = x /\ \A e \in Workers \ {w} : worker'[e] = worker[e]
  BY DEF Inv, WorkersInv
<1>5. ASSUME NEW e \in Workers \ {w} PROVE WorkerOk(e)'
  <2>1. WorkerOk(e)
    BY DEF Inv, WorkersInv
  <2>2. \A d \in Docs : Cut(frag, d) => Cut(frag', d)
    BY <1>3 DEF Cut, OfRun
  <2> QED BY <1>3, <1>4, <2>1, <2>2 DEF WorkerOk
<1>6. ASSUME NEW e \in Workers
      PROVE  /\ \/ worker'[e] = IdleWorker
                \/ /\ worker'[e].pc \in {"working", "segmented", "written"}
                   /\ worker'[e].task \in TaskRow
             /\ WorkerOk(e)'
  BY <1>4, <1>5 DEF Inv, WorkersInv
<1>7. DOMAIN worker' = Workers
  BY <1>4
<1> QED BY <1>2, <1>6, <1>7 DEF Inv, WorkersInv

LEMMA RestsStep ==
  ASSUME Inv, NEW u, Moves(Tables, u), Commit(u), faults' \in 0..MaxFaults,
         NEW w \in Workers, Rests(w)
  PROVE  Inv'
<1>1. worker' = [worker EXCEPT ![w] = IdleWorker] /\ DOMAIN worker = Workers
  BY DEF Rests, Inv, WorkersInv
<1>2. WorkerOk(w)'
  BY <1>1 DEF WorkerOk, IdleWorker
<1> QED BY <1>1, <1>2, WorkStep

LEMMA GoesStep ==
  ASSUME Inv, NEW u, Moves(Tables, u), Commit(u), faults' \in 0..MaxFaults,
         NEW w \in Workers, worker[w].pc # "idle", NEW pc \in {"segmented", "written"},
         Goes(w, pc),
         pc = "segmented" =>
           LET t == worker[w].task
           IN  t.kind = "chunk" /\ (item'[t.doc] = "none" => Cut(frag', t.doc))
  PROVE  Inv'
<1> DEFINE x == [worker[w] EXCEPT !.pc = pc]
<1>1. worker' = [worker EXCEPT ![w] = x] /\ DOMAIN worker = Workers
  BY DEF Goes, Inv, WorkersInv
<1>2. worker[w].pc \in {"working", "segmented", "written"} /\ worker[w].task \in TaskRow
      /\ WorkerOk(w)
  BY DEF Inv, WorkersInv, IdleWorker
<1>3. \A d \in Docs : item'[d] = "none" => item[d] = "none"
  BY Parts DEF Moves, Commit
<1>4. x.pc = pc /\ x.task = worker[w].task /\ worker'[w] = x
  BY <1>1, <1>2
<1> HIDE DEF x
<1>5. WorkerOk(w)'
  BY <1>2, <1>3, <1>4 DEF WorkerOk
<1> QED BY <1>1, <1>2, <1>4, <1>5, WorkStep

LEMMA ReconcileTerminalRunsInv == ASSUME Inv, ReconcileTerminalRuns PROVE Inv'
<1>1. Good(Tables)
  BY DEF Inv
<1>2. Moves(Tables, ReconcileTerminal(Tables, Docs \X Runs))
  BY <1>1, ReconcileTerminalMoves
<1>3. /\ Commit(ReconcileTerminal(Tables, Docs \X Runs)) /\ UNCHANGED worker
      /\ faults' \in 0..MaxFaults
  BY Counted DEF ReconcileTerminalRuns
<1> QED BY <1>2, <1>3, QuietStep

LEMMA LeaseExpiresInv == ASSUME Inv, NEW t \in tasks, LeaseExpires(t) PROVE Inv'
<1>1. Good(Tables) /\ t \in Tables.tasks
  BY Parts DEF Inv
<1>2. Moves(Tables, ExpiredLease(Tables, t))
  BY <1>1, ExpiredLeaseMoves
<1>3. /\ Commit(ExpiredLease(Tables, t)) /\ UNCHANGED worker
      /\ faults' \in 0..MaxFaults
  BY Counted DEF LeaseExpires
<1> QED BY <1>2, <1>3, QuietStep

LEMMA FailAIInv == ASSUME Inv, NEW t \in tasks, FailAI(t) PROVE Inv'
<1> DEFINE final == t.attempts >= AttemptLimit
<1>1. Good(Tables) /\ t \in Tables.tasks
  BY Parts DEF Inv
<1>2. t \in TaskRow /\ final \in BOOLEAN
  BY <1>1, TaskGood, Bounds
<1>3. /\ Commit(FailedTask(Tables, t, final)) /\ UNCHANGED worker
      /\ faults' \in 0..MaxFaults
  BY Counted DEF FailAI
<1> HIDE DEF final
<1>4. Moves(Tables, FailedTask(Tables, t, final))
  BY <1>1, <1>2, FailedTaskMoves
<1> QED BY <1>3, <1>4, QuietStep

LEMMA CrashInv == ASSUME Inv, NEW w \in Workers, Crash(w) PROVE Inv'
<1>1. Moves(Tables, Tables)
  BY StaysGood DEF Inv
<1>2. Commit(Tables) /\ Rests(w) /\ faults' \in 0..MaxFaults
  BY Counted DEF Crash
<1> QED BY <1>1, <1>2, RestsStep

LEMMA FailMechanicalInv ==
  ASSUME Inv, NEW w \in Workers, NEW final \in BOOLEAN, FailMechanical(w, final)
  PROVE  Inv'
<1>1. Good(Tables) /\ Rests(w) /\ faults' \in 0..MaxFaults
  BY Counted DEF FailMechanical, Inv
<1>2. CASE Commit(Tables)
  BY <1>1, <1>2, StaysGood, RestsStep
<1>3. CASE \E t \in Mine(w) :
             Commit(FailedTask(Tables, t, final \/ t.attempts >= AttemptLimit))
  <2>1. PICK t \in Mine(w) :
          Commit(FailedTask(Tables, t, final \/ t.attempts >= AttemptLimit))
    BY <1>3
  <2> DEFINE b == final \/ t.attempts >= AttemptLimit
  <2>2. t \in Tables.tasks /\ b \in BOOLEAN
    BY Parts DEF Mine
  <2>3. Commit(FailedTask(Tables, t, b))
    BY <2>1
  <2> HIDE DEF b
  <2>4. Moves(Tables, FailedTask(Tables, t, b))
    BY <1>1, <2>2, FailedTaskMoves
  <2> QED BY <1>1, <2>3, <2>4, RestsStep
<1> QED BY <1>2, <1>3 DEF FailMechanical

LEMMA CompleteMechanicalInv ==
  ASSUME Inv, NEW w \in Workers, CompleteMechanical(w) PROVE Inv'
<1> DEFINE T == tasks \ Mine(w)
           u == [Tables EXCEPT !.tasks = T]
<1>1. Good(Tables) /\ Tables \in TablesSet
  BY DEF Inv, Good
<1>2. u = [Tables EXCEPT !.tasks = @ \ Mine(w)]
  BY Parts
<1>3. T \in SUBSET TaskRow /\ T \subseteq Tables.tasks
  BY <1>1, FieldTypes, Parts
<1> HIDE DEF T
<1>4. /\ u \in TablesSet /\ u.frag = Tables.frag /\ u.doc = Tables.doc
      /\ u.artifact = Tables.artifact /\ u.run = Tables.run /\ u.item = Tables.item
      /\ u.tasks = T
  BY <1>1, <1>3 DEF TablesSet
<1>5. Commit(u) /\ Rests(w) /\ faults' \in 0..MaxFaults
  BY <1>2, Counted DEF CompleteMechanical
<1> HIDE DEF u
<1>6. Moves(Tables, u)
  BY <1>1, <1>3, <1>4, TasksEnd
<1> QED BY <1>5, <1>6, RestsStep

LEMMA TakenRow ==
  ASSUME NEW t \in TaskRow, NEW h \in Workers \cup {None, AI}, t.attempts < AttemptLimit
  PROVE  LET q == Taken(t, h)
         IN  /\ q \in TaskRow /\ q.kind = t.kind /\ q.doc = t.doc /\ q.run = t.run
             /\ q.frags = t.frags
<1>1. t.attempts + 1 \in 0..AttemptLimit
  BY Bounds DEF TaskRow
<1> QED BY <1>1 DEF Taken, TaskRow

LEMMA ClaimAIInv == ASSUME Inv, NEW t \in tasks, ClaimAI(t) PROVE Inv'
<1> DEFINE
      fs == {f \in t.frags : /\ t.kind = "analyze" /\ frag[f].held
                             /\ frag[f].status = "reserved"}
      s1 == [Tables EXCEPT !.tasks = (@ \ {t}) \cup {Taken(t, AI)}]
      G == [f \in Fragments |->
              IF f \in fs THEN [frag[f] EXCEPT !.status = "analyzing", !.attempts = @ + 1]
              ELSE frag[f]]
      u == [s1 EXCEPT !.frag = G]
<1>1. Good(Tables) /\ t \in Tables.tasks /\ t \in TaskRow
  BY Parts, TaskGood DEF Inv
<1>2. /\ t.attempts < AttemptLimit /\ UNCHANGED worker
      /\ \A f \in fs : frag[f].attempts < FragmentLimit
      /\ faults' \in 0..MaxFaults
  BY Counted DEF ClaimAI
<1>3. Moves(Tables, s1) /\ s1.frag = frag
  <2> DEFINE q == Taken(t, AI)
  <2>1. /\ q \in TaskRow /\ q.kind = t.kind /\ q.doc = t.doc /\ q.run = t.run
        /\ q.frags = t.frags
    BY <1>1, <1>2, TakenRow
  <2> HIDE DEF q
  <2>2. LET v == [Tables EXCEPT !.tasks = (@ \ {t}) \cup {q}]
        IN  Moves(Tables, v) /\ v.frag = Tables.frag
    BY <1>1, <2>1, TaskReplaced
  <2> QED BY <2>2, Parts DEF q
<1>4. Commit(u)
  <2>1. Fragged(s1, fs, LAMBDA f : [frag[f] EXCEPT !.status = "analyzing",
                                                   !.attempts = @ + 1]) = u
    BY <1>3 DEF Fragged
  <2> QED BY <2>1 DEF ClaimAI
<1> HIDE DEF s1
<1>5. ASSUME NEW f \in Fragments
      PROVE  /\ RowStep(frag[f], G[f])
             /\ G[f].status \in OpenStatus => frag[f].status \in OpenStatus
             /\ frag[f].held => G[f].held
  <2>1. frag[f] \in FragmentRow /\ RowOk(frag[f])
    BY <1>1, RowsGood, Parts
  <2>2. CASE f \in fs
    <3> DEFINE r == frag[f]
               q == [r EXCEPT !.status = "analyzing", !.attempts = @ + 1]
    <3>1. r.held /\ r.status = "reserved" /\ r.attempts < FragmentLimit
      BY <1>2, <2>2
    <3>2. G[f] = q
      BY <2>2
    <3>3. r \in FragmentRow /\ RowOk(r)
      BY <2>1
    <3> HIDE DEF r, G, fs
    <3>4. r.attempts + 1 \in 0..FragmentLimit
      BY <3>1, <3>3, Bounds DEF FragmentRow
    <3>5. q \in FragmentRow /\ RowOk(q) /\ q.status = "analyzing" /\ q.held
      BY <3>1, <3>3, <3>4 DEF FragmentRow, RowOk
    <3> QED BY <3>1, <3>2, <3>5 DEF RowStep, OpenStatus, r
  <2>3. CASE f \notin fs
    BY <2>1, <2>3, SameRow
  <2> QED BY <2>2, <2>3
<1>6. G = [f \in Fragments |-> G[f]]
  OBVIOUS
<1> HIDE DEF G
<1>7. Moves(s1, u)
  <2>1. Good(s1)
    BY <1>3 DEF Moves
  <2> QED BY <1>3, <1>5, <1>6, <2>1, FragsKeep
<1> HIDE DEF u
<1> QED BY <1>2, <1>3, <1>4, <1>7, MovesOn, QuietStep

LEMMA SubmitAuditInv ==
  ASSUME Inv, NEW t \in tasks, NEW ms \in SUBSET t.frags, SubmitAudit(t, ms)
  PROVE  Inv'
<1> DEFINE
      repaired(f) ==
          [frag[f] EXCEPT !.audit = FALSE,
                          !.records = IF f \in ms
                                      THEN (@ \ {"verified", "published"}) \cup {"deep_review"}
                                      ELSE @]
      G == [f \in Fragments |-> IF f \in t.frags THEN repaired(f) ELSE frag[f]]
      s1 == [Tables EXCEPT !.frag = G]
      u == [s1 EXCEPT !.tasks = @ \ {t}]
<1>1. Good(Tables) /\ TaskOk(frag, t) /\ t.frags \subseteq Fragments
  BY Parts, TaskGood DEF Inv
<1>2. Commit(u) /\ UNCHANGED worker /\ faults' \in 0..MaxFaults
  <2>1. Fragged(Tables, t.frags, repaired) = s1
    BY Parts DEF Fragged
  <2>2. Complete(Fragged(Tables, t.frags, repaired), t) = u
    BY <2>1 DEF Complete
  <2> QED BY <2>2, Counted DEF SubmitAudit
<1>3. ASSUME NEW f \in Fragments
      PROVE  /\ RowStep(frag[f], G[f])
             /\ G[f].status \in OpenStatus => frag[f].status \in OpenStatus
             /\ frag[f].held => G[f].held
  <2>1. frag[f] \in FragmentRow /\ RowOk(frag[f])
    BY <1>1, RowsGood, Parts
  <2>2. CASE f \in t.frags
    <3> DEFINE r == frag[f]
               rc == IF f \in ms
                     THEN (r.records \ {"verified", "published"}) \cup {"deep_review"}
                     ELSE r.records
               q == [r EXCEPT !.audit = FALSE, !.records = rc]
    <3>1. r.status # "none"
      BY <1>1, <2>2 DEF TaskOk
    <3>2. G[f] = q
      BY <2>2
    <3>3. r \in FragmentRow /\ RowOk(r)
      BY <2>1
    <3> HIDE DEF r, G
    <3>4. rc \in SUBSET {"verified", "deep_review", "published", "rejected"}
      BY <3>3 DEF FragmentRow
    <3> HIDE DEF rc
    <3>5. q \in FragmentRow /\ RowOk(q) /\ q.status = r.status /\ q.held = r.held
      BY <3>1, <3>3, <3>4 DEF FragmentRow, RowOk
    <3> QED BY <3>1, <3>2, <3>5 DEF RowStep, r
  <2>3. CASE f \notin t.frags
    BY <2>1, <2>3, SameRow
  <2> QED BY <2>2, <2>3
<1>4. G = [f \in Fragments |-> G[f]]
  OBVIOUS
<1> HIDE DEF G
<1>5. Moves(Tables, s1)
  BY <1>1, <1>3, <1>4, FragsKeep, Parts
<1> HIDE DEF s1
<1>6. Moves(s1, u)
  <2>1. Good(s1) /\ s1 \in TablesSet
    BY <1>5 DEF Moves, Good
  <2>2. /\ u \in TablesSet /\ u.frag = s1.frag /\ u.doc = s1.doc
        /\ u.artifact = s1.artifact /\ u.run = s1.run /\ u.item = s1.item
        /\ u.tasks \subseteq s1.tasks
    BY <2>1 DEF TablesSet
  <2> HIDE DEF u
  <2> QED BY <2>1, <2>2, TasksEnd
<1> HIDE DEF u
<1> QED BY <1>2, <1>5, <1>6, MovesOn, QuietStep

LEMMA ReviewInv ==
  ASSUME Inv, NEW e \in Fragments, NEW o \in {"verified", "rejected"}, Review(e, o)
  PROVE  Inv'
<1> DEFINE
      reviewed(f) == [frag[f] EXCEPT !.records = (@ \ {"deep_review"}) \cup {o}]
      G == [f \in Fragments |-> IF f \in {e} THEN reviewed(f) ELSE frag[f]]
      u == [Tables EXCEPT !.frag = G]
<1>1. Good(Tables)
  BY DEF Inv
<1>2. Commit(u) /\ UNCHANGED worker /\ faults' \in 0..MaxFaults
  <2>1. Fragged(Tables, {e}, LAMBDA f :
           [frag[f] EXCEPT !.records = (@ \ {"deep_review"}) \cup {o}]) = u
    BY Parts DEF Fragged
  <2> QED BY <2>1, Counted DEF Review
<1>3. ASSUME NEW f \in Fragments
      PROVE  /\ RowStep(frag[f], G[f])
             /\ G[f].status \in OpenStatus => frag[f].status \in OpenStatus
             /\ frag[f].held => G[f].held
  <2>1. frag[f] \in FragmentRow /\ RowOk(frag[f])
    BY <1>1, RowsGood, Parts
  <2>2. CASE f = e
    <3> DEFINE r == frag[f]
               rc == (r.records \ {"deep_review"}) \cup {o}
               q == [r EXCEPT !.records = rc]
    <3>1. r.records # {} /\ G[f] = q
      BY <2>2 DEF Review
    <3>2. r \in FragmentRow /\ RowOk(r)
      BY <2>1
    <3> HIDE DEF r, G
    <3>3. rc \in SUBSET {"verified", "deep_review", "published", "rejected"}
      BY <3>2 DEF FragmentRow
    <3> HIDE DEF rc
    <3>4. q \in FragmentRow /\ RowOk(q) /\ q.status = r.status /\ q.held = r.held
      BY <3>1, <3>2, <3>3 DEF FragmentRow, RowOk
    <3> QED BY <3>1, <3>4 DEF RowStep, r
  <2>3. CASE f # e
    BY <2>1, <2>3, SameRow
  <2> QED BY <2>2, <2>3
<1>4. G = [f \in Fragments |-> G[f]]
  OBVIOUS
<1> HIDE DEF G
<1>5. Moves(Tables, u)
  BY <1>1, <1>3, <1>4, FragsKeep, Parts
<1> HIDE DEF u
<1> QED BY <1>2, <1>5, QuietStep

LEMMA SubmitAnalysisInv ==
  ASSUME Inv, NEW t \in tasks, NEW rs \in SUBSET t.frags, NEW os \in SUBSET t.frags,
         NEW audited \in BOOLEAN, SubmitAnalysis(t, rs, os, audited)
  PROVE  Inv'
<1> DEFINE
      own == {f \in t.frags : frag[f].held}
      row(f) == LET r == IF f \in rs THEN Recorded(frag[f]) ELSE frag[f]
                IN  [r EXCEPT !.audit = @ \/ (f \in rs /\ audited)]
      closed(f) == IF f \in own
                   THEN [row(f) EXCEPT
                           !.held = FALSE,
                           !.status = IF f \in os THEN "queued" ELSE "analyzed",
                           !.disposition = IF f \in os THEN "open" ELSE "settled"]
                   ELSE row(f)
      G == [f \in Fragments |-> IF f \in t.frags THEN closed(f) ELSE frag[f]]
      s1 == [Tables EXCEPT !.frag = G]
      s2 == RunSettled(s1, t.doc, t.run)
      u == [s2 EXCEPT !.tasks = @ \ {t}]
      T == tasks \ {t}
<1>1. /\ Good(Tables) /\ TaskOk(frag, t) /\ t.frags \subseteq Fragments
      /\ t \in TaskRow /\ Tables \in TablesSet
  BY Parts, TaskGood DEF Inv, Good
<1>2. t.kind = "analyze" /\ t.holder = AI
  BY DEF SubmitAnalysis
<1>3. Commit(u) /\ UNCHANGED worker /\ faults' \in 0..MaxFaults
  <2>1. Fragged(Tables, t.frags, closed) = s1
    BY Parts DEF Fragged
  <2>2. u = Complete(RunSettled(Fragged(Tables, t.frags, closed), t.doc, t.run), t)
    BY <2>1 DEF Complete
  <2> QED BY <2>2, Counted DEF SubmitAnalysis
<1>4. /\ t.frags # {} /\ t.doc \in Docs /\ t.run \in Runs
      /\ \A f \in t.frags : f[1] = t.doc /\ f[2] = t.run
      /\ \A f \in t.frags : frag[f].held /\ frag[f].status # "none"
  BY <1>1, <1>2 DEF TaskOk
<1>5. ASSUME NEW f \in t.frags PROVE RowStep(frag[f], G[f])
  <2> DEFINE r == frag[f]
             st == IF f \in os THEN "queued" ELSE "analyzed"
             dp == IF f \in os THEN "open" ELSE "settled"
             r1 == IF f \in rs THEN Recorded(r) ELSE r
             b == r1.audit \/ (f \in rs /\ audited)
             r2 == [r1 EXCEPT !.audit = b]
             q == [r2 EXCEPT !.held = FALSE, !.status = st, !.disposition = dp]
  <2>1. r \in FragmentRow /\ r.status # "none"
    BY <1>1, <1>4, RowsGood, Parts
  <2>2. G[f] = q
    BY <1>1, <1>4
  <2> HIDE DEF r, G
  <2>3. r1 \in FragmentRow
    BY <2>1 DEF Recorded, FragmentRow
  <2> HIDE DEF r1
  <2>4. b \in BOOLEAN
    BY <2>3 DEF FragmentRow
  <2> HIDE DEF b
  <2>5. r2 \in FragmentRow
    BY <2>3, <2>4 DEF FragmentRow
  <2> HIDE DEF r2
  <2>6. q \in FragmentRow /\ q.held = FALSE /\ q.status \in {"queued", "analyzed"}
    BY <2>5 DEF FragmentRow
  <2> QED BY <2>1, <2>2, <2>6 DEF RowStep, RowOk, r
<1>6. \A f \in Fragments : RowStep(frag[f], G[f])
  <2>1. ASSUME NEW f \in Fragments, f \notin t.frags PROVE RowStep(frag[f], G[f])
    <3>1. frag[f] \in FragmentRow /\ RowOk(frag[f]) /\ G[f] = frag[f]
      BY <1>1, <2>1, RowsGood, Parts
    <3> QED BY <3>1, SameRow
  <2> QED BY <1>5, <2>1
<1>7. \A f \in Fragments \ t.frags : G[f] = frag[f]
  OBVIOUS
<1>8. G \in [Fragments -> FragmentRow]
  BY <1>6 DEF RowStep
<1> HIDE DEF G
<1>9. /\ s1 \in TablesSet /\ s1.frag = G /\ s1.tasks = tasks /\ s1.doc = doc
      /\ s1.artifact = artifact /\ s1.run = run /\ s1.item = item
  BY <1>1, <1>8, WithFrag, Parts
<1> HIDE DEF s1
<1>10. /\ s2 \in TablesSet /\ s2.frag = G /\ s2.tasks = tasks /\ s2.doc = doc
       /\ s2.artifact = artifact /\ s2.item = item
       /\ \A d \in Docs : t.doc # d \/ t.run # 2 => s2.run[d][2] = run[d][2]
  <2> DEFINE x == IF RecordsOf(s1, OfRun(t.doc, t.run)) \cap Unresolved = {}
                  THEN "completed" ELSE "auditing"
             R == [run EXCEPT ![t.doc][t.run] = x]
  <2>1. CASE t.run = 0 \/ Incomplete(s1, t.doc, t.run)
    BY <1>9, <2>1 DEF RunSettled
  <2>2. CASE ~(t.run = 0 \/ Incomplete(s1, t.doc, t.run))
    <3>1. s2 = [s1 EXCEPT !.run = R]
      BY <1>9, <2>2 DEF RunSettled
    <3>2. x \in RunStatus /\ run \in [Docs -> [Runs -> RunStatus]]
      BY <1>1, FieldTypes, Parts DEF RunStatus
    <3> HIDE DEF x
    <3>3. R \in [Docs -> [Runs -> RunStatus]]
      BY <1>4, <3>2
    <3>4. \A d \in Docs : t.doc # d \/ t.run # 2 => R[d][2] = run[d][2]
      BY <1>4, <3>2, Bounds
    <3> HIDE DEF R, s2
    <3> QED BY <1>9, <3>1, <3>3, <3>4 DEF TablesSet
  <2> QED BY <2>1, <2>2
<1> HIDE DEF s2
<1>11. T \in SUBSET TaskRow
  BY <1>1, FieldTypes, Parts
<1>12. /\ u \in TablesSet /\ u.frag = G /\ u.tasks = T /\ u.doc = doc
       /\ u.artifact = artifact /\ u.item = item /\ u.run = s2.run
  BY <1>10, <1>11 DEF TablesSet
<1> HIDE DEF u
<1>13. TasksOk(G, T)
  <2>1. TasksOk(frag, tasks) /\ tasks \in SUBSET TaskRow /\ T \in SUBSET tasks
    BY <1>1, FieldTypes, Parts DEF Good
  <2>2. ASSUME NEW e \in T, e.kind = "analyze", NEW f \in e.frags PROVE G[f].held
    <3>1. TaskOk(frag, e) /\ e.frags \subseteq Fragments
      BY <1>1, TaskGood, Parts
    <3>2. frag[f].held /\ f \in Fragments
      BY <2>2, <3>1 DEF TaskOk
    <3>3. f \notin t.frags
      BY <1>2, <2>1, <2>2 DEF TasksOk, Apart
    <3> QED BY <1>7, <3>2, <3>3
  <2> HIDE DEF T
  <2> QED BY <1>6, <2>1, <2>2, TasksStep
<1>14. ASSUME NEW d \in Docs PROVE DocStep(Tables, u, d)
  <2>1. DocOk(Tables, d)
    BY <1>1 DEF Good
  <2>2. item[d] = "none" => t.doc # d \/ t.run # 2
    BY <2>1, Parts DEF DocOk
  <2>3. item[d] = "none" /\ doc[d] = "completed" => t.doc # d
    BY <1>2, <2>1, Parts DEF DocOk
  <2>4. t.doc # d => OpenOf(u, d) = OpenOf(Tables, d)
    <3>1. t.doc # d => \A f \in Fragments : f[1] = d => G[f] = frag[f]
      BY <1>4, <1>7
    <3> QED BY <1>12, <3>1, Parts DEF OpenOf
  <2> QED BY <1>10, <1>12, <2>1, <2>2, <2>3, <2>4, Parts DEF DocOk, DocStep
<1>15. Moves(Tables, u)
  BY <1>1, <1>6, <1>12, <1>13, <1>14, GoodStep, Parts
<1> QED BY <1>3, <1>15, QuietStep

LEMMA ClaimMechanicalInv ==
  ASSUME Inv, NEW w \in Workers, NEW t \in tasks, ClaimMechanical(w, t) PROVE Inv'
<1> DEFINE s1 == [Tables EXCEPT !.tasks = (@ \ {t}) \cup {Taken(t, w)}]
           x == StartStatus(t.kind)
           u == IF t.kind = "publish" THEN s1 ELSE Marked(s1, {t.doc}, x)
           a == [pc |-> "working", task |-> t]
<1>1. Good(Tables) /\ t \in Tables.tasks /\ t \in TaskRow /\ TaskOk(frag, t)
  BY Parts, TaskGood DEF Inv
<1>2. /\ t.kind \in Mechanical \cup {"publish"} /\ t.attempts < AttemptLimit
      /\ Commit(u) /\ worker' = [worker EXCEPT ![w] = a]
      /\ faults' \in 0..MaxFaults
  BY Counted DEF ClaimMechanical
<1>3. Moves(Tables, s1) /\ s1.item = item
  <2> DEFINE q == Taken(t, w)
  <2>1. /\ q \in TaskRow /\ q.kind = t.kind /\ q.doc = t.doc /\ q.run = t.run
        /\ q.frags = t.frags
    BY <1>1, <1>2, TakenRow
  <2> HIDE DEF q
  <2>2. LET v == [Tables EXCEPT !.tasks = (@ \ {t}) \cup {q}]
        IN  Moves(Tables, v) /\ v.item = Tables.item
    BY <1>1, <2>1, TaskReplaced
  <2> QED BY <2>2, Parts DEF q
<1> HIDE DEF s1
<1>4. Moves(Tables, u)
  <2>1. t.kind # "publish" =>
          x \in DocStatus /\ x \notin Studied /\ x # "completed"
    BY <1>2 DEF StartStatus, Mechanical, DocStatus, Studied
  <2> HIDE DEF x
  <2>2. t.kind # "publish" => Moves(s1, Marked(s1, {t.doc}, x))
    BY <1>3, <2>1, MarkedMoves DEF Moves
  <2> QED BY <1>3, <2>2, MovesOn
<1>5. Tables'.item = item' /\ \A d \in Docs : item'[d] = "none" => item[d] = "none"
  BY <1>2, <1>4, Parts DEF Moves, Commit, Tables
<1>6. WorkerOk(w)'
  <2>1. worker'[w] = a /\ DOMAIN worker = Workers
    BY <1>2 DEF Inv, WorkersInv
  <2>2. t.kind \in Mechanical => t.doc \in Docs
    BY <1>1 DEF TaskOk
  <2>3. t.kind \in Mechanical /\ item[t.doc] = "none" => t.run # 2
    BY <1>1, <2>2, Parts DEF Good, DocOk
  <2> QED BY <1>5, <2>1, <2>2, <2>3 DEF WorkerOk
<1>7. a.pc \in {"working", "segmented", "written"} /\ a.task \in TaskRow
  BY <1>1
<1> HIDE DEF u, a
<1> QED BY <1>2, <1>4, <1>6, <1>7, WorkStep

\* What a worker that works on a document knows.
LEMMA WorkerKnows ==
  ASSUME Inv, NEW w \in Workers, NEW kind \in Mechanical, Working(w, kind)
  PROVE  LET t == worker[w].task
         IN  /\ t \in TaskRow /\ t.kind = kind /\ t.doc \in Docs
             /\ worker[w].pc # "idle"
             /\ item[t.doc] = "none" => t.run # 2
BY DEF Inv, WorkersInv, WorkerOk, Working, IdleWorker

LEMMA AcquireSourceInv ==
  ASSUME Inv, NEW w \in Workers, AcquireSource(w) PROVE Inv'
<1> DEFINE
      d == worker[w].task.doc
      live == {t \in tasks : Key(t) = Key(worker[w].task)}
      T == (tasks \ live) \cup {[t EXCEPT !.run = 1] : t \in live}
      s == [Tables EXCEPT
              !.artifact[d] = "downloaded", !.run[d][1] = "converting",
              !.tasks = (@ \ live) \cup {[t EXCEPT !.run = 1] : t \in live}]
      dup == d \in Copies /\ (Copies \cap Hashed) \ {d} # {}
      u == IF dup THEN Duplicate(Tables, d) ELSE Marked(s, {d}, "acquired")
<1>1. /\ Good(Tables) /\ Tables \in TablesSet /\ d \in Docs
      /\ worker[w].task.kind = "acquire" /\ worker[w].pc # "idle"
  BY WorkerKnows DEF Inv, Good, AcquireSource, Mechanical
<1>2. Commit(u) /\ Goes(w, "written") /\ faults' \in 0..MaxFaults
  BY Counted DEF AcquireSource
<1>3. ASSUME NEW t \in tasks
      PROVE  /\ t \in TaskRow /\ t.frags \subseteq Fragments /\ TaskOk(frag, t)
  BY <1>1, TaskGood, Parts
<1>4. ASSUME NEW t \in live
      PROVE  LET q == [t EXCEPT !.run = 1]
             IN  /\ t \in tasks /\ q \in TaskRow /\ q.kind = "acquire" /\ q.doc = t.doc
                 /\ q.run = 1 /\ TaskOk(frag, q)
  <2>1. t \in TaskRow /\ t.kind = "acquire" /\ t \in tasks /\ TaskOk(frag, t)
    BY <1>1, <1>3 DEF Key
  <2> DEFINE q == [t EXCEPT !.run = 1]
  <2>2. /\ q \in TaskRow /\ q.kind = "acquire" /\ q.doc = t.doc /\ q.run = 1
        /\ q.frags = t.frags
    BY <2>1, Bounds DEF TaskRow
  <2> HIDE DEF q
  <2>3. TaskOk(frag, q)
    BY <2>1, <2>2 DEF TaskOk, Mechanical
  <2> QED BY <2>1, <2>2, <2>3 DEF q
<1> HIDE DEF live
<1>5. ASSUME NEW t \in T
      PROVE  /\ t \in TaskRow /\ TaskOk(frag, t)
             /\ t \in tasks \/ (t.kind = "acquire" /\ t.run = 1)
  <2>1. CASE t \in tasks
    BY <1>3, <2>1
  <2>2. CASE t \notin tasks
    <3>1. PICK e \in live : t = [e EXCEPT !.run = 1]
      BY <2>2
    <3> HIDE DEF T
    <3> QED BY <1>4, <3>1
  <2> QED BY <2>1, <2>2
<1>6. T \in SUBSET TaskRow /\ TasksOk(frag, T)
  <2>1. Apart(tasks)
    BY <1>1, Parts DEF Good, TasksOk
  <2>2. Apart(T)
    BY <1>5, <2>1 DEF Apart
  <2> QED BY <1>5, <2>2 DEF TasksOk
<1>7. /\ s \in TablesSet /\ s.frag = frag /\ s.tasks = T /\ s.doc = doc
      /\ s.item = item /\ s.artifact = [artifact EXCEPT ![d] = "downloaded"]
      /\ s.run = [run EXCEPT ![d][1] = "converting"]
  <2> DEFINE A == [artifact EXCEPT ![d] = "downloaded"]
             R == [run EXCEPT ![d][1] = "converting"]
  <2>1. artifact \in [Docs -> ArtifactStatus] /\ run \in [Docs -> [Runs -> RunStatus]]
    BY <1>1, FieldTypes, Parts
  <2>2. A \in [Docs -> ArtifactStatus] /\ R \in [Docs -> [Runs -> RunStatus]]
    BY <1>1, <2>1, Bounds DEF ArtifactStatus, RunStatus
  <2>3. s.artifact = A /\ s.run = R /\ s.tasks = T /\ s.frag = frag /\ s.doc = doc
        /\ s.item = item
    BY <1>1, Parts DEF TablesSet
  <2>4. /\ Tables.artifact = artifact /\ Tables.run = run /\ Tables.tasks = tasks
        /\ T \in SUBSET TaskRow
    BY <1>6, Parts
  <2>5. s \in TablesSet
    BY <1>1, <2>2, <2>4 DEF TablesSet
  <2> QED BY <2>3, <2>5 DEF A, R
<1> HIDE DEF T, s
<1>8. Moves(Tables, s)
  <2>1. \A f \in Fragments : RowStep(frag[f], s.frag[f])
    BY <1>1, <1>7, RowsGood, SameRow, Parts
  <2>2. ASSUME NEW e \in Docs PROVE DocStep(Tables, s, e)
    <3>1. DocOk(Tables, e)
      BY <1>1 DEF Good
    <3>2. OpenOf(s, e) = OpenOf(Tables, e)
      BY <1>7, Parts DEF OpenOf
    <3>3. s.artifact[e] = "chunked" => artifact[e] = "chunked"
      BY <1>1, <1>7, FieldTypes, Parts
    <3>4. s.run[e][2] = run[e][2]
      BY <1>1, <1>7, FieldTypes, Parts, Bounds
    <3> QED BY <1>5, <1>7, <3>1, <3>2, <3>3, <3>4, Parts DEF DocOk, DocStep
  <2> QED BY <1>1, <1>6, <1>7, <2>1, <2>2, GoodStep, Parts
<1>9. Moves(Tables, Marked(s, {d}, "acquired"))
  <2>1. "acquired" \in DocStatus /\ "acquired" \notin Studied /\ "acquired" # "completed"
    BY DEF DocStatus, Studied
  <2>2. Moves(s, Marked(s, {d}, "acquired"))
    BY <1>8, <2>1, MarkedMoves DEF Moves
  <2> QED BY <1>8, <2>2, MovesOn
<1>10. Moves(Tables, Duplicate(Tables, d))
  <2> DEFINE v == [Tables EXCEPT !.slots = @ \ {d}]
  <2>1. /\ v \in TablesSet /\ v.frag = Tables.frag /\ v.doc = Tables.doc
        /\ v.artifact = Tables.artifact /\ v.run = Tables.run /\ v.item = Tables.item
        /\ v.tasks \subseteq Tables.tasks
    BY <1>1 DEF TablesSet
  <2>2. Duplicate(Tables, d) = Marked(v, {d}, "duplicate")
    BY DEF Duplicate
  <2> HIDE DEF v
  <2>3. Moves(Tables, v)
    BY <1>1, <2>1, TasksEnd
  <2>4. "duplicate" \in DocStatus /\ "duplicate" \notin Studied /\ "duplicate" # "completed"
    BY DEF DocStatus, Studied
  <2>5. Moves(v, Marked(v, {d}, "duplicate"))
    BY <2>3, <2>4, MarkedMoves DEF Moves
  <2> QED BY <2>2, <2>3, <2>5, MovesOn
<1>11. Moves(Tables, u)
  BY <1>9, <1>10
<1>12. "written" \in {"segmented", "written"} /\ "written" # "segmented"
  OBVIOUS
<1> HIDE DEF u
<1> QED BY <1>1, <1>2, <1>11, <1>12, GoesStep

LEMMA ConvertSourceInv ==
  ASSUME Inv, NEW w \in Workers, ConvertSource(w) PROVE Inv'
<1> DEFINE
      d == worker[w].task.doc
      v == worker[w].task.run
      A == [artifact EXCEPT ![d] = "converted"]
      r == IF v = 0 THEN run[d] ELSE [run[d] EXCEPT ![v] = "segmenting"]
      R == [run EXCEPT ![d] = r]
      s == [Tables EXCEPT !.artifact[d] = "converted",
                          !.run[d] = IF v = 0 THEN @
                                     ELSE [run[d] EXCEPT ![v] = "segmenting"]]
      u == Marked(s, {d}, "converted")
<1>1. /\ Good(Tables) /\ Tables \in TablesSet /\ d \in Docs /\ v \in 0..2
      /\ item[d] = "none" => v # 2
      /\ worker[w].pc # "idle"
  BY WorkerKnows DEF Inv, Good, ConvertSource, Mechanical, TaskRow
<1>2. Commit(u) /\ Goes(w, "written") /\ faults' \in 0..MaxFaults
  BY Counted DEF ConvertSource
<1>3. artifact \in [Docs -> ArtifactStatus] /\ run \in [Docs -> [Runs -> RunStatus]]
  BY <1>1, FieldTypes, Parts
<1> HIDE DEF d, v
<1>4. r \in [Runs -> RunStatus] /\ (item[d] = "none" => r[2] = run[d][2])
  BY <1>1, <1>3, Bounds DEF RunStatus
<1>5. /\ s.frag = frag /\ s.tasks = tasks /\ s.doc = doc /\ s.item = item
      /\ s.artifact = A /\ s.run = R
  BY <1>1, Parts DEF TablesSet
<1>6. /\ A \in [Docs -> ArtifactStatus] /\ R \in [Docs -> [Runs -> RunStatus]]
      /\ \A e \in Docs : A[e] = "chunked" => artifact[e] = "chunked"
      /\ \A e \in Docs : item[e] = "none" => R[e][2] = run[e][2]
  <2> HIDE DEF r
  <2> QED BY <1>1, <1>3, <1>4 DEF ArtifactStatus
<1>7. s \in TablesSet
  <2>1. Tables.artifact = artifact /\ Tables.run = run
    BY Parts
  <2> QED BY <1>1, <1>6, <2>1 DEF TablesSet
<1> HIDE DEF A, R, s
<1>8. /\ s.frag = frag /\ s.tasks = tasks /\ s.doc = doc /\ s.item = item
      /\ s.artifact = A /\ s.run = R
  BY <1>5
<1>9. Moves(Tables, s)
  <2>1. \A f \in Fragments : RowStep(frag[f], s.frag[f])
    BY <1>1, <1>8, RowsGood, SameRow, Parts
  <2>2. ASSUME NEW e \in Docs PROVE DocStep(Tables, s, e)
    <3>1. DocOk(Tables, e)
      BY <1>1 DEF Good
    <3>2. OpenOf(s, e) = OpenOf(Tables, e)
      BY <1>8, Parts DEF OpenOf
    <3>3. s.artifact[e] = "chunked" => artifact[e] = "chunked"
      BY <1>6, <1>8
    <3>4. item[e] = "none" => s.run[e][2] = run[e][2]
      BY <1>6, <1>8
    <3> QED BY <1>8, <3>1, <3>2, <3>3, <3>4, Parts DEF DocOk, DocStep
  <2>3. TasksOk(s.frag, s.tasks)
    BY <1>1, <1>8, Parts DEF Good
  <2> QED BY <1>1, <1>7, <1>8, <2>1, <2>2, <2>3, GoodStep, Parts
<1>10. Moves(Tables, u)
  <2>1. "converted" \in DocStatus /\ "converted" \notin Studied /\ "converted" # "completed"
    BY DEF DocStatus, Studied
  <2>2. Moves(s, Marked(s, {d}, "converted"))
    BY <1>9, <2>1, MarkedMoves DEF Moves
  <2> QED BY <1>9, <2>2, MovesOn
<1>11. "written" \in {"segmented", "written"} /\ "written" # "segmented"
  OBVIOUS
<1> HIDE DEF u
<1> QED BY <1>1, <1>2, <1>10, <1>11, GoesStep

\* The run that chunkSource cuts.
LEMMA SegmentedOk ==
  ASSUME Inv, NEW w \in Workers, Working(w, "chunk"), Segmented(w) # 0
  PROVE  LET d == worker[w].task.doc
             v == Segmented(w)
         IN  v \in Runs /\ (item[d] = "none" => v = 1)
<1> DEFINE t == worker[w].task
           vs == {v \in Runs : run[t.doc][v] # "none"}
<1>1. /\ t \in TaskRow /\ t.doc \in Docs /\ (item[t.doc] = "none" => t.run # 2)
  BY WorkerKnows DEF Mechanical
<1>2. t.run \in 0..2
  BY <1>1 DEF TaskRow
<1>3. item[t.doc] = "none" => run[t.doc][2] = "none"
  BY <1>1, Parts DEF Inv, Good, DocOk
<1>4. CASE t.run # 0
  BY <1>1, <1>2, <1>4, Bounds DEF Segmented, Runs
<1>5. CASE t.run = 0
  <2>1. Segmented(w) = LatestRun(t.doc)
    BY <1>5 DEF Segmented
  <2>2. vs # {}
    BY <2>1 DEF LatestRun
  <2>3. LatestRun(t.doc) = CHOOSE v \in vs : \A e \in vs : e <= v
    BY <2>2 DEF LatestRun
  <2>4. vs \subseteq {1, 2} /\ (item[t.doc] = "none" => 2 \notin vs)
    BY <1>3, Bounds
  <2> HIDE DEF vs
  <2>5. \E v \in vs : \A e \in vs : e <= v
    <3>1. vs = {1} \/ vs = {2} \/ vs = {1, 2}
      BY <2>2, <2>4
    <3> QED BY <3>1
  <2>6. LatestRun(t.doc) \in vs
    BY <2>3, <2>5
  <2> QED BY <2>1, <2>4, <2>6, Bounds
<1> QED BY <1>4, <1>5

LEMMA SegmentSourceInv ==
  ASSUME Inv, NEW w \in Workers, NEW ns \in SUBSET Fragments, SegmentSource(w, ns)
  PROVE  Inv'
<1> DEFINE
      d == worker[w].task.doc
      v == Segmented(w)
      new == {f \in OfRun(d, v) : frag[f].status = "none"}
      inserted(f) == [NoFragment EXCEPT
                        !.status = IF f \in ns THEN "analyzed" ELSE "queued",
                        !.disposition = IF f \in ns THEN "settled" ELSE "none"]
      A == [artifact EXCEPT ![d] = "chunked"]
      R == [run EXCEPT ![d][v] = "extracting"]
      G == [f \in Fragments |-> IF f \in new THEN inserted(f) ELSE frag[f]]
      s1 == [Tables EXCEPT !.artifact[d] = "chunked", !.run[d][v] = "extracting"]
      u == [s1 EXCEPT !.frag = G]
<1>1. Good(Tables) /\ Tables \in TablesSet
  BY DEF Inv, Good
<1>2. Working(w, "chunk") /\ v # 0 /\ Goes(w, "segmented") /\ faults' \in 0..MaxFaults
  BY Counted DEF SegmentSource
<1>3. /\ d \in Docs /\ worker[w].pc # "idle" /\ worker[w].task.kind = "chunk"
      /\ v \in Runs /\ (item[d] = "none" => v = 1)
  BY <1>2, WorkerKnows, SegmentedOk DEF Mechanical
<1>4. artifact \in [Docs -> ArtifactStatus] /\ run \in [Docs -> [Runs -> RunStatus]]
  BY <1>1, FieldTypes, Parts
<1>5. /\ s1.frag = frag /\ s1.tasks = tasks /\ s1.doc = doc /\ s1.item = item
      /\ s1.artifact = A /\ s1.run = R
  BY <1>1, Parts DEF TablesSet
<1>6. Commit(u)
  <2>1. u = Fragged(s1, new, inserted)
    BY <1>5 DEF Fragged
  <2> QED BY <2>1 DEF SegmentSource
<1> HIDE DEF v, d
<1>7. /\ A \in [Docs -> ArtifactStatus] /\ R \in [Docs -> [Runs -> RunStatus]]
      /\ \A e \in Docs : e # d => A[e] = artifact[e]
      /\ \A e \in Docs : item[e] = "none" => R[e][2] = run[e][2]
  BY <1>3, <1>4, Bounds DEF ArtifactStatus, RunStatus
<1>8. s1 \in TablesSet
  <2>1. Tables.artifact = artifact /\ Tables.run = run
    BY Parts
  <2> QED BY <1>1, <1>7, <2>1 DEF TablesSet
<1> HIDE DEF A, R, s1
<1>9. ASSUME NEW f \in new
      PROVE  /\ G[f] \in FragmentRow /\ RowOk(G[f]) /\ G[f].status # "none"
             /\ f \in Fragments /\ f[1] = d /\ f[2] = v /\ frag[f].status = "none"
  <2>1. f \in Fragments /\ f[1] = d /\ f[2] = v /\ frag[f].status = "none"
    BY DEF OfRun
  <2>2. G[f] = inserted(f)
    BY <2>1
  <2>3. NoFragment \in FragmentRow
    BY Bounds DEF NoFragment, FragmentRow
  <2>4. inserted(f) \in FragmentRow /\ RowOk(inserted(f)) /\ inserted(f).status # "none"
    BY <2>3 DEF NoFragment, FragmentRow, RowOk
  <2> QED BY <2>1, <2>2, <2>4
<1>10. ASSUME NEW f \in Fragments, f \notin new PROVE G[f] = frag[f]
  BY <1>10
<1>11. \A f \in Fragments : f[1] = d /\ f[2] = v => G[f].status # "none"
  <2>1. ASSUME NEW f \in Fragments, f[1] = d, f[2] = v, f \notin new
        PROVE  frag[f].status # "none"
    BY <2>1 DEF OfRun
  <2> QED BY <1>9, <1>10, <2>1
<1>12. \A f \in new : d \in Docs /\ frag[f].status = "none"
  BY <1>3, <1>9
<1> HIDE DEF G, new
<1>13. FragsOk(G) /\ \A f \in Fragments : G[f] \in FragmentRow
  <2>1. ASSUME NEW f \in Fragments PROVE RowOk(G[f]) /\ G[f] \in FragmentRow
    <3>1. frag[f] \in FragmentRow /\ RowOk(frag[f])
      BY <1>1, RowsGood, Parts
    <3> QED BY <1>9, <1>10, <3>1
  <2>2. ASSUME NEW f \in Fragments, NEW g \in Fragments, f[1] = g[1], f[2] = g[2]
        PROVE  G[f].status = "none" <=> G[g].status = "none"
    <3>1. CASE f[1] = d /\ f[2] = v
      BY <1>11, <2>2, <3>1
    <3>2. CASE ~(f[1] = d /\ f[2] = v)
      <4>1. G[f] = frag[f] /\ G[g] = frag[g]
        BY <1>9, <1>10, <2>2, <3>2
      <4> QED BY <1>1, <2>2, <4>1, Parts DEF Good, FragsOk, Together
    <3> QED BY <3>1, <3>2
  <2> QED BY <2>1, <2>2 DEF FragsOk, Together
<1>14. G \in [Fragments -> FragmentRow]
  BY <1>13 DEF G
<1>15. /\ u \in TablesSet /\ u.frag = G /\ u.tasks = tasks /\ u.doc = doc
       /\ u.artifact = A /\ u.run = R /\ u.item = item
  BY <1>5, <1>8, <1>14, WithFrag
<1> HIDE DEF u
<1>16. \A f \in Fragments : frag[f].status # "none" => G[f] = frag[f]
  BY <1>9, <1>10
<1>17. TasksOk(G, tasks)
  <2>1. TasksOk(frag, tasks)
    BY <1>1, Parts DEF Good
  <2>2. ASSUME NEW t \in tasks PROVE TaskOk(G, t)
    <3>1. TaskOk(frag, t) /\ t.frags \subseteq Fragments
      BY <1>1, TaskGood, Parts
    <3> QED BY <1>16, <3>1 DEF TaskOk
  <2> QED BY <2>1, <2>2 DEF TasksOk
<1>18. \A e \in Docs : Cut(frag, e) => Cut(G, e)
  BY <1>16 DEF Cut, OfRun
<1>19. item[d] = "none" => Cut(G, d)
  BY <1>3, <1>11 DEF Cut, OfRun
<1>20. ASSUME NEW e \in Docs, item[e] = "none" PROVE DocOk(u, e)
  <2>1. DocOk(Tables, e)
    BY <1>1 DEF Good
  <2>2. \A f \in OfRun(e, 2) : frag[f].status = "none"
    BY <1>20, <2>1, Parts DEF DocOk
  <2>3. \A f \in OfRun(e, 2) : G[f].status = "none"
    <3>1. ASSUME NEW f \in OfRun(e, 2) PROVE f \notin new
      <4>1. f \in Fragments /\ f[1] = e /\ f[2] = 2
        BY DEF OfRun
      <4> QED BY <1>3, <1>9, <1>20, <4>1
    <3>2. \A f \in OfRun(e, 2) : f \in Fragments
      BY DEF OfRun
    <3> QED BY <1>10, <2>2, <3>1, <3>2
  <2>4. Cut(frag, e) => OpenOf(u, e) = OpenOf(Tables, e)
    <3>1. ASSUME Cut(frag, e), NEW f \in Fragments, f[1] = e PROVE G[f] = frag[f]
      <4>1. CASE e # d
        BY <1>9, <1>10, <3>1, <4>1
      <4>2. CASE e = d /\ f[2] = 1
        BY <1>16, <3>1, <4>2 DEF Cut, OfRun
      <4>3. CASE e = d /\ f[2] # 1
        BY <1>3, <1>9, <1>10, <1>20, <4>3
      <4> QED BY <4>1, <4>2, <4>3
    <3> QED BY <1>15, <3>1, Parts DEF OpenOf
  <2>5. Cut(frag, e) => Cut(G, e)
    BY <1>18
  <2>6. A[e] = "chunked" => Cut(G, e)
    BY <1>7, <1>19, <1>20, <2>1, <2>5, Parts DEF DocOk
  <2>7. R[e][2] = "none"
    BY <1>7, <1>20, <2>1, Parts DEF DocOk
  <2>8. doc[e] = "completed" => doc[e] \in Studied
    BY DEF Studied
  <2> QED BY <1>15, <1>20, <2>1, <2>3, <2>4, <2>5, <2>6, <2>7, <2>8, Parts DEF DocOk
<1>21. Moves(Tables, u)
  <2>1. \A e \in Docs : DocOk(u, e)
    BY <1>15, <1>20 DEF DocOk
  <2>2. Good(u)
    BY <1>13, <1>15, <1>17, <2>1 DEF Good
  <2>3. \A f \in Fragments : u.frag[f].status = "none" => frag[f].status = "none"
    BY <1>15, <1>16
  <2> QED BY <1>15, <2>2, <2>3, Parts DEF Moves
<1>22. frag' = G /\ item' = item
  BY <1>6, <1>15 DEF Commit
<1>23. item'[d] = "none" => Cut(frag', d)
  BY <1>19, <1>22
<1> QED BY <1>2, <1>3, <1>6, <1>21, <1>23, GoesStep DEF d

LEMMA FastPathInv ==
  ASSUME Inv, NEW w \in Workers, NEW hs \in SUBSET Fragments, FastPath(w, hs)
  PROVE  Inv'
<1> DEFINE
      d == worker[w].task.doc
      handled(f) == [Recorded(frag[f]) EXCEPT !.status = "analyzed",
                                              !.disposition = "settled"]
      G == [f \in Fragments |-> IF f \in hs THEN handled(f) ELSE frag[f]]
      s1 == [Tables EXCEPT !.frag = G]
      ds == {d} \cap {e \in Docs : doc[e] = "chunking"}
      u == Marked(s1, ds, "prepared")
<1>1. Good(Tables)
  BY DEF Inv
<1>2. /\ Commit(u) /\ Goes(w, "written") /\ faults' \in 0..MaxFaults
      /\ worker[w].pc = "segmented" /\ \A f \in hs : frag[f].status = "queued"
  <2>1. Fragged(Tables, hs, handled) = s1
    BY Parts DEF Fragged
  <2> QED BY <2>1, Counted DEF FastPath
<1>3. item[d] = "none" /\ d \in Docs => Cut(frag, d)
  BY <1>2 DEF Inv, WorkersInv, WorkerOk, IdleWorker, Mechanical
<1>4. ASSUME NEW f \in Fragments
      PROVE  /\ RowStep(frag[f], G[f])
             /\ G[f].status \in OpenStatus => frag[f].status \in OpenStatus
             /\ frag[f].held => G[f].held
  <2>1. frag[f] \in FragmentRow /\ RowOk(frag[f])
    BY <1>1, RowsGood, Parts
  <2>2. CASE f \in hs
    <3> DEFINE r == frag[f]
               r1 == Recorded(r)
               q == [r1 EXCEPT !.status = "analyzed", !.disposition = "settled"]
    <3>1. r.status = "queued" /\ G[f] = q
      BY <1>2, <2>2
    <3>2. r \in FragmentRow /\ RowOk(r)
      BY <2>1
    <3> HIDE DEF r, G
    <3>3. r1 \in FragmentRow /\ r1.held = r.held
      BY <3>2 DEF Recorded, FragmentRow
    <3> HIDE DEF r1
    <3>4. q \in FragmentRow /\ q.status = "analyzed" /\ q.held = r.held
      BY <3>3 DEF FragmentRow
    <3> QED BY <3>1, <3>2, <3>4 DEF RowStep, RowOk, OpenStatus, r
  <2>3. CASE f \notin hs
    BY <2>1, <2>3, SameRow
  <2> QED BY <2>2, <2>3
<1>5. G = [f \in Fragments |-> G[f]]
  OBVIOUS
<1> HIDE DEF G
<1>6. Moves(Tables, s1)
  BY <1>1, <1>4, <1>5, FragsKeep, Parts
<1> HIDE DEF s1
<1>7. ASSUME NEW e \in ds \cap Docs, s1.item[e] = "none" PROVE Cut(s1.frag, e)
  <2>1. e = d /\ item[e] = "none" /\ e \in Docs
    BY <1>6, <1>7, Parts DEF Moves
  <2>2. Cut(frag, e)
    BY <1>3, <2>1
  <2> QED BY <1>6, <2>2, Parts DEF Moves, Cut, OfRun
<1>8. Moves(Tables, u)
  <2>1. "prepared" \in DocStatus /\ "prepared" # "completed"
    BY DEF DocStatus
  <2> HIDE DEF ds
  <2>2. Moves(s1, Marked(s1, ds, "prepared"))
    BY <1>6, <1>7, <2>1, MarkedMoves DEF Moves
  <2> QED BY <1>6, <2>2, MovesOn
<1>9. "written" \in {"segmented", "written"} /\ "written" # "segmented"
  OBVIOUS
<1>10. worker[w].pc # "idle"
  BY <1>2
<1> HIDE DEF u
<1> QED BY <1>2, <1>8, <1>9, <1>10, GoesStep

LEMMA PublishCandidateBatchInv ==
  ASSUME Inv, NEW w \in Workers, NEW ds \in SUBSET Fragments,
         PublishCandidateBatch(w, ds)
  PROVE  Inv'
<1> DEFINE
      fs == {f \in worker[w].task.frags : "verified" \in frag[f].records}
      gs == fs \ ds
      reviewed(f) == [frag[f] EXCEPT !.records = (@ \ {"verified"}) \cup {"deep_review"}]
      H == [f \in Fragments |-> IF f \in gs THEN PublishedRow(frag[f]) ELSE frag[f]]
      G == [f \in Fragments |-> IF f \in ds THEN reviewed(f) ELSE H[f]]
      s1 == [Tables EXCEPT !.frag = H]
      s2 == [s1 EXCEPT !.frag = G]
      rs == {<<f[1], f[2]>> : f \in gs}
      live == \E t \in tasks : Key(t) = Key(worker[w].task)
      u == RunsAfter(s2, rs)
<1>1. Good(Tables) /\ Tables \in TablesSet
  BY DEF Inv, Good
<1>2. /\ ds \subseteq fs /\ Goes(w, "written") /\ faults' \in 0..MaxFaults
      /\ worker[w].pc # "idle" /\ worker[w].task.frags \subseteq Fragments
  BY Counted DEF PublishCandidateBatch, Working, Inv, WorkersInv, IdleWorker, TaskRow
<1>3. Commit(IF live THEN u ELSE Tables)
  <2>1. s1 = Fragged(Tables, fs \ ds, LAMBDA f : PublishedRow(frag[f]))
    BY Parts DEF Fragged
  <2>2. s1.frag = H
    BY Parts DEF Tables
  <2> HIDE DEF s1, H
  <2>3. s2 = Fragged(s1, ds, LAMBDA f :
               [frag[f] EXCEPT !.records = (@ \ {"verified"}) \cup {"deep_review"}])
    BY <2>2 DEF Fragged
  <2> HIDE DEF s2, G
  <2> QED BY <2>1, <2>3 DEF PublishCandidateBatch
<1>4. ASSUME NEW f \in Fragments
      PROVE  /\ RowStep(frag[f], G[f])
             /\ G[f].status \in OpenStatus => frag[f].status \in OpenStatus
             /\ frag[f].held => G[f].held
  <2> DEFINE r == frag[f]
             ra == (r.records \ {"verified"}) \cup {"deep_review"}
             rb == (r.records \ {"verified"}) \cup {"published"}
             st == IF r.status = "analyzing" /\ r.held THEN r.status ELSE "published"
             qa == [r EXCEPT !.records = ra]
             qb == [r EXCEPT !.records = rb, !.status = st]
  <2>1. r \in FragmentRow /\ RowOk(r)
    BY <1>1, RowsGood, Parts
  <2>2. ra \in SUBSET {"verified", "deep_review", "published", "rejected"}
        /\ rb \in SUBSET {"verified", "deep_review", "published", "rejected"}
        /\ st \in {"none", "queued", "reserved", "analyzing", "analyzed", "published", "failed"}
    BY <2>1 DEF FragmentRow
  <2>3. CASE f \in ds
    <3>1. r.records # {} /\ G[f] = qa
      BY <1>2, <2>3
    <3> HIDE DEF r, G, ra, rb, st
    <3>2. qa \in FragmentRow /\ RowOk(qa) /\ qa.status = r.status /\ qa.held = r.held
      BY <2>1, <2>2, <3>1 DEF FragmentRow, RowOk
    <3> QED BY <2>1, <3>1, <3>2 DEF RowStep, r
  <2>4. CASE f \notin ds /\ f \in fs
    <3>1. r.records # {} /\ G[f] = qb
      BY <2>4 DEF PublishedRow
    <3>2. r.status # "none"
      BY <2>1, <3>1 DEF RowOk
    <3>3. st = "published" \/ (st = r.status /\ r.status = "analyzing")
      OBVIOUS
    <3> HIDE DEF r, G, ra, rb, st
    <3>4. qb \in FragmentRow /\ qb.status = st /\ qb.held = r.held
      BY <2>1, <2>2 DEF FragmentRow
    <3> HIDE DEF qb
    <3> QED BY <2>1, <3>1, <3>2, <3>3, <3>4 DEF RowStep, RowOk, OpenStatus, r
  <2>5. CASE f \notin ds /\ f \notin fs
    <3>1. G[f] = frag[f]
      BY <2>5
    <3> QED BY <2>1, <3>1, SameRow
  <2> QED BY <2>3, <2>4, <2>5
<1>5. \A f \in gs : f \in Fragments /\ frag[f].status # "none"
  <2>1. ASSUME NEW f \in gs PROVE f \in Fragments /\ frag[f].status # "none"
    <3>1. f \in Fragments /\ frag[f].records # {}
      BY <1>2
    <3> QED BY <1>1, <3>1, RowsGood, Parts DEF RowOk
  <2> QED BY <2>1
<1>6. G = [f \in Fragments |-> G[f]]
  OBVIOUS
<1>7. s2 = [Tables EXCEPT !.frag = G]
  <2> HIDE DEF G, H
  <2> QED BY DEF Tables
<1> HIDE DEF G
<1>8. Moves(Tables, s2)
  <2>1. Moves(Tables, [Tables EXCEPT !.frag = G])
    BY <1>1, <1>4, <1>6, FragsKeep, Parts
  <2> QED BY <1>7, <2>1
<1> HIDE DEF s1, s2
<1>9. Moves(s2, u)
  <2> DEFINE R == [d \in Docs |-> [v \in Runs |->
                     IF /\ <<d, v>> \in rs /\ ~Incomplete(s2, d, v)
                        /\ RecordsOf(s2, OfRun(d, v)) \cap Unresolved = {}
                     THEN "completed" ELSE s2.run[d][v]]]
  <2>1. Good(s2) /\ s2 \in TablesSet
    BY <1>8 DEF Moves, Good
  <2>2. u = [s2 EXCEPT !.run = R]
    BY DEF RunsAfter
  <2>3. R \in [Docs -> [Runs -> RunStatus]]
    BY <2>1, FieldTypes DEF RunStatus
  <2>4. ASSUME NEW d \in Docs, s2.item[d] = "none" PROVE R[d][2] = s2.run[d][2]
    <3>1. item[d] = "none"
      BY <1>8, <2>4, Parts DEF Moves
    <3>2. \A f \in OfRun(d, 2) : frag[f].status = "none"
      BY <1>1, <3>1, Parts DEF Good, DocOk
    <3>3. <<d, 2>> \notin rs
      BY <1>5, <3>2 DEF OfRun
    <3> QED BY <3>3, Bounds
  <2> HIDE DEF R
  <2>5. /\ u \in TablesSet /\ u.frag = s2.frag /\ u.tasks = s2.tasks /\ u.doc = s2.doc
        /\ u.item = s2.item /\ u.artifact = s2.artifact /\ u.run = R
    BY <2>1, <2>2, <2>3 DEF TablesSet
  <2> HIDE DEF u
  <2>6. \A f \in Fragments : RowStep(s2.frag[f], u.frag[f])
    BY <2>1, <2>5, RowsGood, SameRow
  <2>7. ASSUME NEW e \in Docs PROVE DocStep(s2, u, e)
    <3>1. DocOk(s2, e)
      BY <2>1 DEF Good
    <3>2. OpenOf(u, e) = OpenOf(s2, e)
      BY <2>5 DEF OpenOf
    <3> QED BY <2>4, <2>5, <3>1, <3>2 DEF DocOk, DocStep
  <2>8. TasksOk(u.frag, u.tasks)
    BY <2>1, <2>5 DEF Good
  <2> QED BY <2>1, <2>5, <2>6, <2>7, <2>8, GoodStep
<1> DEFINE z == IF live THEN u ELSE Tables
<1> HIDE DEF u, live
<1>10. Moves(Tables, z)
  BY <1>1, <1>8, <1>9, MovesOn, StaysGood
<1>11. Commit(z)
  BY <1>3
<1>12. "written" \in {"segmented", "written"} /\ "written" # "segmented"
  OBVIOUS
<1> HIDE DEF z
<1> QED BY <1>2, <1>10, <1>11, <1>12, GoesStep

\* A part that moves reprocess items, and changes what no invariant reads.
LEMMA ItemsMove ==
  ASSUME NEW s, Good(s), NEW u \in TablesSet, u.frag = s.frag, u.doc = s.doc,
         u.artifact = s.artifact, u.run = s.run, u.tasks = s.tasks,
         \A d \in Docs : u.item[d] = "none" => s.item[d] = "none"
  PROVE  Moves(s, u)
<1>1. \A f \in Fragments : RowStep(s.frag[f], u.frag[f])
  BY RowsGood, SameRow
<1>2. TasksOk(u.frag, u.tasks)
  BY DEF Good
<1>3. ASSUME NEW d \in Docs PROVE DocStep(s, u, d)
  <2>1. DocOk(s, d)
    BY DEF Good
  <2>2. OpenOf(u, d) = OpenOf(s, d)
    BY DEF OpenOf
  <2> QED BY <2>1, <2>2 DEF DocOk, DocStep
<1> QED BY <1>1, <1>2, <1>3, GoodStep

LEMMA CreateReprocessJobInv ==
  ASSUME Inv, NEW d \in Docs, CreateReprocessJob(d) PROVE Inv'
<1> DEFINE u == [Tables EXCEPT !.item[d] = "queued"]
<1>1. Good(Tables) /\ Tables \in TablesSet
  BY DEF Inv, Good
<1>2. Commit(u) /\ UNCHANGED worker /\ faults' \in 0..MaxFaults
  BY Counted DEF CreateReprocessJob
<1>3. /\ u \in TablesSet /\ u.frag = Tables.frag /\ u.doc = Tables.doc
      /\ u.artifact = Tables.artifact /\ u.run = Tables.run /\ u.tasks = Tables.tasks
      /\ u.item = [Tables.item EXCEPT ![d] = "queued"]
  BY <1>1 DEF TablesSet, ItemStatus
<1> HIDE DEF u
<1>4. \A e \in Docs : u.item[e] = "none" => Tables.item[e] = "none"
  BY <1>1, <1>3, FieldTypes
<1>5. Moves(Tables, u)
  BY <1>1, <1>3, <1>4, ItemsMove
<1> QED BY <1>2, <1>5, QuietStep

LEMMA CancelJobInv ==
  ASSUME Inv, NEW d \in Docs, CancelJob(d) PROVE Inv'
<1> DEFINE x == IF Tables.item[d] = "queued" THEN "cancelled" ELSE Tables.item[d]
           u == [Tables EXCEPT !.stopped = @ \cup {d},
                               !.item[d] = IF @ = "queued" THEN "cancelled" ELSE @]
<1>1. Good(Tables) /\ Tables \in TablesSet
  BY DEF Inv, Good
<1>2. Commit(u) /\ UNCHANGED worker /\ faults' \in 0..MaxFaults
  BY Counted DEF CancelJob
<1>3. x \in ItemStatus /\ (x = "none" => Tables.item[d] = "none")
  BY <1>1, FieldTypes DEF ItemStatus
<1>4. /\ u \in TablesSet /\ u.frag = Tables.frag /\ u.doc = Tables.doc
      /\ u.artifact = Tables.artifact /\ u.run = Tables.run /\ u.tasks = Tables.tasks
      /\ u.item = [Tables.item EXCEPT ![d] = x]
  BY <1>1, <1>3 DEF TablesSet
<1> HIDE DEF u, x
<1>5. \A e \in Docs : u.item[e] = "none" => Tables.item[e] = "none"
  BY <1>1, <1>3, <1>4, FieldTypes
<1>6. Moves(Tables, u)
  BY <1>1, <1>4, <1>5, ItemsMove
<1> QED BY <1>2, <1>6, QuietStep

LEMMA CloseItemsInv == ASSUME Inv, CloseItems PROVE Inv'
<1> DEFINE J == [d \in Docs |-> ItemOutcome(d)]
           u == [Tables EXCEPT !.item = J]
<1>1. Good(Tables) /\ Tables \in TablesSet
  BY DEF Inv, Good
<1>2. Commit(u) /\ UNCHANGED worker /\ faults' \in 0..MaxFaults
  BY Counted DEF CloseItems
<1>3. ASSUME NEW d \in Docs
      PROVE  ItemOutcome(d) \in ItemStatus /\ (ItemOutcome(d) = "none" => item[d] = "none")
  <2>1. item[d] \in ItemStatus
    BY <1>1, FieldTypes, Parts
  <2> QED BY <2>1 DEF ItemOutcome, ItemStatus
<1>4. J \in [Docs -> ItemStatus]
  BY <1>3
<1>5. /\ u \in TablesSet /\ u.frag = Tables.frag /\ u.doc = Tables.doc
      /\ u.artifact = Tables.artifact /\ u.run = Tables.run /\ u.tasks = Tables.tasks
      /\ u.item = J
  <2> HIDE DEF J
  <2> QED BY <1>1, <1>4 DEF TablesSet
<1> HIDE DEF u
<1>6. \A e \in Docs : u.item[e] = "none" => Tables.item[e] = "none"
  BY <1>3, <1>5, Parts
<1>7. Moves(Tables, u)
  BY <1>1, <1>5, <1>6, ItemsMove
<1> QED BY <1>2, <1>7, QuietStep

\* insertTask of a mechanical task of a document that is processed again.
LEMMA InsertMoves ==
  ASSUME NEW s, Good(s), NEW d \in Docs, s.item[d] # "none", NEW kind \in Mechanical,
         NEW scope \in 0..3, NEW v \in 0..2
  PROVE  Moves(s, InsertTask(s, NewTask(kind, d, scope, v, {})))
<1> DEFINE t == NewTask(kind, d, scope, v, {})
<1>1. d \in Docs \cup {None} /\ {} \in SUBSET Fragments /\ kind \in Kinds
      /\ kind \notin {"analyze", "audit"}
  BY DEF Kinds, Mechanical
<1>2. /\ t \in TaskRow /\ t.kind = kind /\ t.doc = d /\ t.run = v /\ t.frags = {}
  BY <1>1, NewTaskRow
<1> HIDE DEF t
<1>3. TaskOk(s.frag, t) /\ t.kind # "analyze"
  BY <1>1, <1>2 DEF TaskOk, Mechanical
<1>4. {t} \in SUBSET TaskRow
  BY <1>2
<1>5. Moves(s, [s EXCEPT !.tasks = @ \cup {t}])
  BY <1>2, <1>3, <1>4, TasksAdd
<1> QED BY <1>5, StaysGood DEF InsertTask, t

LEMMA StartItemInv == ASSUME Inv, NEW d \in Docs, StartItem(d) PROVE Inv'
<1> DEFINE s == [Tables EXCEPT !.item[d] = "running"]
           c == [s EXCEPT !.run[d][2] = "converting"]
           u == IF artifact[d] = "none" THEN Redownloaded(s, d) ELSE Reconverted(s, d)
<1>1. Good(Tables) /\ Tables \in TablesSet
  BY DEF Inv, Good
<1>2. Commit(u) /\ UNCHANGED worker /\ faults' \in 0..MaxFaults
  BY Counted DEF StartItem
<1>3. /\ s \in TablesSet /\ s.frag = Tables.frag /\ s.doc = Tables.doc
      /\ s.artifact = Tables.artifact /\ s.run = Tables.run /\ s.tasks = Tables.tasks
      /\ s.item = [Tables.item EXCEPT ![d] = "running"]
  BY <1>1 DEF TablesSet, ItemStatus
<1> HIDE DEF s
<1>4. (\A e \in Docs : s.item[e] = "none" => Tables.item[e] = "none") /\ s.item[d] = "running"
  BY <1>1, <1>3, FieldTypes
<1>5. Moves(Tables, s)
  BY <1>1, <1>3, <1>4, ItemsMove
<1>6. /\ c \in TablesSet /\ c.frag = s.frag /\ c.doc = s.doc /\ c.item = s.item
      /\ c.artifact = s.artifact /\ c.tasks = s.tasks
      /\ \A e \in Docs : e # d => c.run[e] = s.run[e]
  BY <1>3, Bounds DEF TablesSet, RunStatus
<1> HIDE DEF c
<1>7. Moves(s, c)
  <2>1. Good(s)
    BY <1>5 DEF Moves
  <2>2. \A f \in Fragments : RowStep(s.frag[f], c.frag[f])
    BY <1>6, <2>1, RowsGood, SameRow
  <2>3. ASSUME NEW e \in Docs PROVE DocStep(s, c, e)
    <3>1. DocOk(s, e)
      BY <2>1 DEF Good
    <3>2. OpenOf(c, e) = OpenOf(s, e)
      BY <1>6 DEF OpenOf
    <3> QED BY <1>4, <1>6, <3>1, <3>2 DEF DocOk, DocStep
  <2>4. TasksOk(c.frag, c.tasks)
    BY <1>6, <2>1 DEF Good
  <2> QED BY <1>6, <2>1, <2>2, <2>3, <2>4, GoodStep
<1>8. "acquired" \in DocStatus /\ "acquired" \notin Studied /\ "acquired" # "completed"
      /\ "approved" \in DocStatus /\ "approved" \notin Studied /\ "approved" # "completed"
      /\ "convert" \in Mechanical /\ "acquire" \in Mechanical
      /\ 2 \in 0..3 /\ 3 \in 0..3 /\ 2 \in 0..2 /\ 0 \in 0..2
  BY DEF DocStatus, Studied, Mechanical
<1>9. ASSUME NEW x \in {"acquired", "approved"}, NEW a, Moves(Tables, a),
             a.item[d] = "running", NEW kind \in Mechanical, NEW scope \in 0..3,
             NEW v \in 0..2
      PROVE  Moves(Tables, InsertTask(Marked(a, {d}, x), NewTask(kind, d, scope, v, {})))
  <2> DEFINE m == Marked(a, {d}, x)
  <2>1. Moves(a, m)
    BY <1>8, <1>9, MarkedMoves DEF Moves
  <2>2. m.item[d] = "running"
    BY <1>9 DEF Marked, Moves, Good, TablesSet
  <2> HIDE DEF m
  <2>3. Good(m) /\ m.item[d] # "none"
    BY <2>1, <2>2 DEF Moves
  <2>4. Moves(m, InsertTask(m, NewTask(kind, d, scope, v, {})))
    BY <2>3, InsertMoves
  <2>5. Moves(Tables, m)
    BY <1>9, <2>1, MovesOn
  <2>6. Moves(Tables, InsertTask(m, NewTask(kind, d, scope, v, {})))
    BY <2>4, <2>5, MovesOn
  <2> QED BY <2>6 DEF m
<1>10. Moves(Tables, Redownloaded(s, d))
  BY <1>4, <1>5, <1>8, <1>9 DEF Redownloaded
<1>11. Moves(Tables, Reconverted(s, d))
  <2>1. Moves(Tables, c) /\ c.item[d] = "running"
    BY <1>4, <1>5, <1>6, <1>7, MovesOn
  <2>2. Reconverted(s, d) = InsertTask(Marked(c, {d}, "acquired"),
                                       NewTask("convert", d, 2, 2, {}))
    BY DEF Reconverted, c
  <2> QED BY <1>8, <1>9, <2>1, <2>2
<1>12. Moves(Tables, u)
  BY <1>10, <1>11
<1> HIDE DEF u
<1> QED BY <1>2, <1>12, QuietStep

LEMMA RetrySourceInv == ASSUME Inv, NEW d \in Docs, RetrySource(d) PROVE Inv'
<1> DEFINE
      next == CASE artifact[d] = "chunked" -> "analyzing"
                [] artifact[d] = "converted" -> "converted"
                [] artifact[d] = "downloaded" -> "acquired"
                [] OTHER -> "approved"
      fs == {f \in OfDoc(d) : /\ artifact[d] = "chunked"
                              /\ frag[f].status \in OpenStatus \cup {"failed"}}
      G == [f \in Fragments |->
              IF f \in fs
              THEN [frag[f] EXCEPT !.status = "queued", !.held = FALSE, !.attempts = 0]
              ELSE frag[f]]
      D == [e \in Docs |-> IF e \in {d} THEN next ELSE doc[e]]
      T == {t \in tasks : t.doc # d}
      s1 == [Tables EXCEPT !.frag = G]
      s2 == [s1 EXCEPT !.doc = D]
      u == [s2 EXCEPT !.tasks = T]
<1>1. Good(Tables) /\ Tables \in TablesSet
  BY DEF Inv, Good
<1>2. next \in DocStatus \ {"completed"} /\ (next \in Studied => artifact[d] = "chunked")
  <2>1. artifact[d] \in ArtifactStatus
    BY <1>1, FieldTypes, Parts
  <2> QED BY <2>1 DEF ArtifactStatus, DocStatus, Studied
<1>3. s1.frag = G /\ s1.doc = doc /\ s1.tasks = tasks
  BY DEF Tables
<1>4. s1 = Fragged(Tables, fs, LAMBDA f :
             [frag[f] EXCEPT !.status = "queued", !.held = FALSE, !.attempts = 0])
  BY Parts DEF Fragged
<1>5. ASSUME NEW f \in Fragments PROVE RowStep(frag[f], G[f])
  <2> DEFINE r == frag[f]
             q == [r EXCEPT !.status = "queued", !.held = FALSE, !.attempts = 0]
  <2>1. r \in FragmentRow /\ RowOk(r)
    BY <1>1, RowsGood, Parts
  <2>2. CASE f \in fs
    <3>1. r.status # "none" /\ G[f] = q
      BY <2>2 DEF OpenStatus
    <3> HIDE DEF r, G
    <3>2. 0 \in 0..FragmentLimit
      BY Bounds
    <3>3. q \in FragmentRow /\ q.status = "queued" /\ q.held = FALSE
      BY <2>1, <3>2 DEF FragmentRow
    <3> QED BY <3>1, <3>3 DEF RowStep, RowOk, r
  <2>3. CASE f \notin fs
    BY <2>1, <2>3, SameRow
  <2> QED BY <2>2, <2>3
<1>6. \A f \in Fragments : f[1] # d => G[f] = frag[f]
  BY DEF OfDoc
<1>7. G \in [Fragments -> FragmentRow] /\ D \in [Docs -> DocStatus] /\ T \in SUBSET TaskRow
  <2>1. G \in [Fragments -> FragmentRow]
    BY <1>5 DEF RowStep
  <2>2. D \in [Docs -> DocStatus]
    <3>1. next \in DocStatus /\ doc \in [Docs -> DocStatus]
      BY <1>1, <1>2, FieldTypes, Parts
    <3> HIDE DEF next
    <3> QED BY <3>1
  <2> QED BY <1>1, <2>1, <2>2, FieldTypes, Parts
<1> HIDE DEF fs, G, next
<1>8. Commit(u) /\ UNCHANGED worker /\ faults' \in 0..MaxFaults
  <2> HIDE DEF s1
  <2>1. s2 = Marked(s1, {d}, next)
    BY <1>3 DEF Marked
  <2>2. s2.tasks = tasks
    BY <1>3, Parts DEF s1, Tables
  <2> HIDE DEF s2
  <2>3. u = Skipped(s2, d)
    BY <2>2 DEF Skipped
  <2> HIDE DEF u
  <2> QED BY <1>4, <2>1, <2>3, Counted DEF RetrySource, fs, next
<1>9. \A t \in T : t \in tasks /\ t.doc # d
  OBVIOUS
<1>10. \A e \in Docs : D[e] = IF e = d THEN next ELSE doc[e]
  OBVIOUS
<1> HIDE DEF D, T
<1>11. /\ s1 \in TablesSet /\ s1.frag = G /\ s1.tasks = tasks /\ s1.run = run
       /\ s1.item = item /\ s1.artifact = artifact
  BY <1>1, <1>7, WithFrag, Parts
<1> HIDE DEF s1
<1>12. /\ s2 \in TablesSet /\ s2.doc = D /\ s2.frag = G /\ s2.run = run
       /\ s2.item = item /\ s2.artifact = artifact
  BY <1>7, <1>11 DEF TablesSet
<1> HIDE DEF s2
<1>13. /\ u \in TablesSet /\ u.doc = D /\ u.frag = G /\ u.tasks = T /\ u.run = run
       /\ u.item = item /\ u.artifact = artifact
  BY <1>7, <1>12 DEF TablesSet
<1> HIDE DEF u
<1>14. TasksOk(G, T)
  <2>1. TasksOk(frag, tasks) /\ tasks \in SUBSET TaskRow /\ T \in SUBSET tasks
    BY <1>1, <1>9, FieldTypes, Parts DEF Good
  <2>2. ASSUME NEW t \in T, t.kind = "analyze", NEW f \in t.frags PROVE G[f].held
    <3>1. TaskOk(frag, t) /\ t.frags \subseteq Fragments /\ t.doc # d
      BY <1>1, <1>9, TaskGood, Parts
    <3>2. frag[f].held /\ f \in Fragments /\ f[1] # d
      BY <2>2, <3>1 DEF TaskOk
    <3> QED BY <1>6, <3>2
  <2> QED BY <1>5, <2>1, <2>2, TasksStep
<1>15. ASSUME NEW e \in Docs PROVE DocStep(Tables, u, e)
  <2>1. DocOk(Tables, e)
    BY <1>1 DEF Good
  <2>2. e # d => OpenOf(u, e) = OpenOf(Tables, e)
    BY <1>6, <1>13, Parts DEF OpenOf
  <2>3. e = d => u.doc[e] # "completed" /\ (u.doc[e] \in Studied => artifact[e] = "chunked")
    BY <1>2, <1>10, <1>13
  <2>4. e # d => u.doc[e] = doc[e]
    BY <1>10, <1>13
  <2> QED BY <1>9, <1>13, <2>1, <2>2, <2>3, <2>4, Parts DEF DocOk, DocStep
<1>16. Moves(Tables, u)
  BY <1>1, <1>5, <1>13, <1>14, <1>15, GoodStep, Parts
<1> QED BY <1>8, <1>16, QuietStep

LEMMA RejectSourceInv == ASSUME Inv, NEW d \in Docs, RejectSource(d) PROVE Inv'
<1> DEFINE s1 == [Tables EXCEPT !.slots = @ \ {d}]
           s2 == Marked(s1, {d}, "rejected")
           u == [s2 EXCEPT !.tasks = {t \in @ : t.doc # d}]
<1>1. Good(Tables) /\ Tables \in TablesSet
  BY DEF Inv, Good
<1>2. Commit(u) /\ UNCHANGED worker /\ faults' \in 0..MaxFaults
  BY Counted DEF RejectSource, Skipped
<1>3. /\ s1 \in TablesSet /\ s1.frag = Tables.frag /\ s1.doc = Tables.doc
      /\ s1.artifact = Tables.artifact /\ s1.run = Tables.run /\ s1.item = Tables.item
      /\ s1.tasks \subseteq Tables.tasks
  BY <1>1 DEF TablesSet
<1> HIDE DEF s1
<1>4. Moves(Tables, s1)
  BY <1>1, <1>3, TasksEnd
<1>5. "rejected" \in DocStatus /\ "rejected" \notin Studied /\ "rejected" # "completed"
  BY DEF DocStatus, Studied
<1>6. Moves(s1, s2)
  BY <1>4, <1>5, MarkedMoves DEF Moves
<1> HIDE DEF s2
<1>7. Moves(s2, u)
  <2>1. Good(s2) /\ s2 \in TablesSet
    BY <1>6 DEF Moves, Good
  <2>2. /\ u \in TablesSet /\ u.frag = s2.frag /\ u.doc = s2.doc
        /\ u.artifact = s2.artifact /\ u.run = s2.run /\ u.item = s2.item
        /\ u.tasks \subseteq s2.tasks
    BY <2>1 DEF TablesSet
  <2> HIDE DEF u
  <2> QED BY <2>1, <2>2, TasksEnd
<1> HIDE DEF u
<1> QED BY <1>2, <1>4, <1>6, <1>7, MovesOn, QuietStep

-----------------------------------------------------------------------------
(* The theorems.                                                            *)

LEMMA InitInv == Init => Inv
<1> SUFFICES ASSUME Init PROVE Inv
  OBVIOUS
<1>1. NoFragment \in FragmentRow /\ RowOk(NoFragment) /\ NoFragment.status = "none"
  BY Bounds DEF NoFragment, FragmentRow, RowOk
<1>2. Tables \in TablesSet
  <2>1. /\ doc \in [Docs -> DocStatus] /\ artifact \in [Docs -> ArtifactStatus]
        /\ run \in [Docs -> [Runs -> RunStatus]] /\ broken \in [Docs -> SUBSET Runs]
        /\ frag \in [Fragments -> FragmentRow] /\ tasks \in SUBSET TaskRow
        /\ slots \in SUBSET Docs /\ item \in [Docs -> ItemStatus]
        /\ stopped \in SUBSET Docs
    BY <1>1 DEF Init, DocStatus, ArtifactStatus, RunStatus, ItemStatus
  <2> QED BY <2>1 DEF Tables, TablesSet
<1>3. FragsOk(frag) /\ TasksOk(frag, tasks)
  BY <1>1 DEF Init, FragsOk, Together, TasksOk, Apart
<1>4. ASSUME NEW d \in Docs PROVE DocOk(Tables, d)
  <2>1. /\ run[d][2] = "none" /\ doc[d] = "discovered" /\ artifact[d] = "none"
        /\ tasks = {} /\ \A f \in OfRun(d, 2) : frag[f].status = "none"
    BY <1>1, Bounds DEF Init, OfRun
  <2> QED BY <2>1, Parts DEF DocOk, Studied
<1>5. WorkersInv
  BY Bounds DEF Init, WorkersInv, WorkerOk, IdleWorker
<1> QED BY <1>2, <1>3, <1>4, <1>5, Parts DEF Inv, Good

LEMMA ScheduleInv ==
  ASSUME Inv, Schedule(BOOLEAN, BOOLEAN)
  PROVE  Inv'
<1>1. PICK u : Moves(Tables, u) /\ Commit(u) /\ UNCHANGED <<worker, faults>>
  BY ScheduleMoves DEF Inv
<1> QED BY <1>1, Counted, QuietStep

LEMMA StutterInv == ASSUME Inv, UNCHANGED vars PROVE Inv'
<1>1. Tables' = Tables
  BY DEF vars, Tables
<1>2. \A w \in Workers : WorkerOk(w)' <=> WorkerOk(w)
  BY DEF vars, WorkerOk, Cut
<1> QED BY <1>1, <1>2 DEF Inv, WorkersInv, vars

LEMMA NextInv == Inv /\ [Next]_vars => Inv'
<1> SUFFICES ASSUME Inv, [Next]_vars PROVE Inv'
  OBVIOUS
<1>1. CASE Schedule(BOOLEAN, BOOLEAN)
  BY <1>1, ScheduleInv
<1>2. CASE Executor
  BY <1>2, ClaimAIInv, SubmitAnalysisInv, SubmitAuditInv, ReviewInv DEF Executor
<1>3. ASSUME NEW w \in Workers, WorkerStep(w) PROVE Inv'
  BY <1>3, ClaimMechanicalInv, AcquireSourceInv, ConvertSourceInv, SegmentSourceInv,
     FastPathInv, PublishCandidateBatchInv, CompleteMechanicalInv DEF WorkerStep
<1>4. CASE ReconcileTerminalRuns \/ CloseItems \/ \E d \in Docs : StartItem(d)
  BY <1>4, ReconcileTerminalRunsInv, CloseItemsInv, StartItemInv
<1>5. CASE Faults
  BY <1>5, FailAIInv, LeaseExpiresInv, CrashInv, FailMechanicalInv,
     CreateReprocessJobInv, CancelJobInv, RetrySourceInv, RejectSourceInv DEF Faults
<1>6. CASE UNCHANGED vars
  BY <1>6, StutterInv
<1> QED BY <1>1, <1>2, <1>3, <1>4, <1>5, <1>6 DEF Next

LEMMA InvHolds == Spec => []Inv
BY InitInv, NextInv, PTL DEF Spec

\* Every table keeps its type, whatever fails, expires or is written twice.
THEOREM TypeCorrect == Spec => []TypeOK
<1>1. Inv => TypeOK
  <2> SUFFICES ASSUME Inv PROVE TypeOK
    OBVIOUS
  <2>1. Tables \in TablesSet
    BY DEF Inv, Good
  <2> QED BY <2>1, FieldTypes, Parts DEF Inv, WorkersInv, TypeOK, ArtifactStatus, ItemStatus
<1> QED BY <1>1, InvHolds, PTL

\* reconcileCompletedSources completes a document of which nothing waits, and
\* chunkSource of a worker that has lost its lease adds nothing to it afterwards.
THEOREM CompletedIsDrained == Spec => []CompletedDocumentIsDrained
<1>1. Inv => CompletedDocumentIsDrained
  BY Parts DEF Inv, Good, DocOk, CompletedDocumentIsDrained
<1> QED BY <1>1, InvHolds, PTL

\* queueSourceWork, the reconcilers, failPipelineTask, the retries and publications
\* leave every fragment of a live analysis reserved for it.
THEOREM AnalysesHold == Spec => []AnalysisHoldsItsFragments
<1>1. Inv => AnalysisHoldsItsFragments
  BY Parts DEF Inv, Good, TasksOk, TaskOk, AnalysisHoldsItsFragments
<1> QED BY <1>1, InvHolds, PTL

\* No step takes or fails a fragment of an analysis that an executor is working on
\* and whose task survives the step.
THEOREM LeasedIsPreserved == Spec => LeasedWorkIsPreserved
<1>1. Inv' => \A t \in tasks' : t.kind = "analyze" =>
                \A f \in t.frags : frag'[f].held /\ frag'[f].status # "failed"
  <2> SUFFICES ASSUME Inv', NEW t \in tasks', t.kind = "analyze", NEW f \in t.frags
               PROVE  frag'[f].held /\ frag'[f].status # "failed"
    OBVIOUS
  <2>1. Good(Tables')
    BY DEF Inv
  <2>2. t \in Tables'.tasks /\ Tables'.frag = frag'
    BY PartsNext
  <2>3. TaskOk(frag', t) /\ t.frags \subseteq Fragments
    BY <2>1, <2>2, TaskGood
  <2>4. frag'[f].held /\ RowOk(frag'[f])
    BY <2>1, <2>2, <2>3, RowsGood DEF TaskOk
  <2> QED BY <2>4 DEF RowOk
<1>2. Inv' =>
        [\A t \in tasks \cap tasks' :
           t.kind = "analyze" /\ t.holder = AI =>
             \A f \in t.frags : frag[f].held => frag'[f].held /\ frag'[f].status # "failed"]_vars
  BY <1>1
<1> QED BY <1>2, InvHolds, PTL DEF LeasedWorkIsPreserved
===============================================================================
