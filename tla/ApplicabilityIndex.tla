------------------------- MODULE ApplicabilityIndex -------------------------
(***************************************************************************)
(* The applicability index, without which a revision cannot be found for a *)
(* device: publication writes the row of a revision whose operating system *)
(* it knows, and src/cli/reindex-applicability.ts classifies all of them   *)
(* again, in batches along their identifiers, while the worker goes on     *)
(* publishing.                                                             *)
(*                                                                         *)
(* Identifiers are random: a new revision may come before or after the     *)
(* cursor of any run.  A process may stop between two transactions, lose   *)
(* the answer to a COMMIT, run beside another one, and resume a run that   *)
(* failed or was left running.  How a row is classified is the subject of  *)
(* KnowledgeSearch.                                                        *)
(***************************************************************************)
EXTENDS Naturals, FiniteSets, FiniteSetsExt

CONSTANTS
    LastRevision,     \* revisions are 1..LastRevision, in the order of their identifiers
    Known,            \* those of an operating system publication knows
    Processes,        \* processes of the command
    BatchSize,        \* revisions of a batch (2,000)
    MaxRuns,          \* bound on rows of applicability_reindex_runs
    MaxIndexFaults    \* bound on failed statements, lost answers and crashes

Revisions == 1..LastRevision
Runs == 1..MaxRuns

IndexAssumption ==
    /\ LastRevision \in Nat /\ Known \subseteq Revisions /\ BatchSize \in Nat \ {0}
    /\ MaxRuns \in Nat /\ MaxIndexFaults \in Nat

VARIABLES
    revisions,    \* knowledge_revisions of the network domain, committed
    families,     \* those the catalog has a software family for
    indexed,      \* those with a row of knowledge_applicability_index
    reindex,      \* applicability_reindex_runs
    process,      \* process[p]: where it stands, with what it holds in memory
    indexFaults   \* how many of MaxIndexFaults have happened

indexVars == <<revisions, families, indexed, reindex, process, indexFaults>>

\* The row stores how many revisions were counted; the set is what the number
\* stands for.
NoRun == [status |-> "none", counted |-> {}, cursor |-> 0]
AtRest == [pc |-> "idle", counted |-> {}, run |-> 0, cursor |-> 0]

\* Revisions of an import have no row yet.
IndexInit ==
    /\ revisions \in SUBSET Revisions
    /\ families = revisions \cap Known
    /\ indexed = revisions \cap Known
    /\ reindex = [r \in Runs |-> NoRun]
    /\ process = [p \in Processes |-> AtRest]
    /\ indexFaults = 0

Fault == indexFaults < MaxIndexFaults /\ indexFaults' = indexFaults + 1

-----------------------------------------------------------------------------
\* createKnowledgeRevision commits with the release it belongs to.
CreateKnowledgeRevision(i) ==
    /\ i \notin revisions
    /\ revisions' = revisions \cup {i}
    /\ families' = families \cup ({i} \cap Known)
    /\ indexed' = indexed \cup ({i} \cap Known)
    /\ UNCHANGED <<reindex, process, indexFaults>>

\* The command begins with its count, in a statement of its own.
CountExpected(p) ==
    /\ process[p].pc \in {"idle", "completed"}
    /\ process' = [process EXCEPT ![p] =
                      [AtRest EXCEPT !.pc = "counted", !.counted = revisions]]
    /\ UNCHANGED <<revisions, families, indexed, reindex, indexFaults>>

\* Mutant: any run that did not complete is resumed.
ResumableAny(counted) == {r \in Runs : reindex[r].status \in {"running", "failed"}}

Resumable(counted) ==
    {r \in Runs : /\ reindex[r].status \in {"running", "failed"}
                  /\ Cardinality(reindex[r].counted) = Cardinality(counted)}

\* The first transaction: the latest run that can be resumed (--resume), or a
\* new one, and a family for every operating system and vendor that has none.
Setup(p) ==
    LET counted == process[p].counted
        begin(r, row) ==
            /\ reindex' = [reindex EXCEPT ![r] = [row EXCEPT !.status = "running"]]
            /\ process' = [process EXCEPT ![p].pc = "rebuild", ![p].run = r,
                                          ![p].cursor = row.cursor]
        resumed == Resumable(counted)
        fresh == {r \in Runs : reindex[r].status = "none"}
    IN  /\ process[p].pc = "counted"
        /\ families' = families \cup revisions
        /\ \/ resumed # {} /\ begin(Max(resumed), reindex[Max(resumed)])
           \/ fresh # {} /\ begin(Min(fresh), [NoRun EXCEPT !.counted = counted])
        /\ UNCHANGED <<revisions, indexed, indexFaults>>

\* The revisions after the cursor, and the first of them a batch takes.
After(cursor) == {i \in revisions : i > cursor}
Batch(cursor) ==
    {i \in After(cursor) : Cardinality({j \in After(cursor) : j <= i}) <= BatchSize}

\* One batch with its cursor: the rows, and where a resumed run goes on.
RebuildIndexBatch(p) ==
    LET batch == Batch(process[p].cursor)
    IN  /\ process[p].pc = "rebuild"
        /\ batch # {}
        /\ indexed' = indexed \cup (batch \cap families)
        /\ reindex' = [reindex EXCEPT ![process[p].run].cursor = Max(batch)]
        /\ process' = [process EXCEPT ![p].cursor = Max(batch)]
        /\ UNCHANGED <<revisions, families, indexFaults>>

\* The last transaction: with --verify as many revisions must be indexed as the
\* process has counted, and a revision published since makes it fail.
Complete(p) ==
    LET whole == Cardinality(indexed) = Cardinality(process[p].counted)
    IN  /\ process[p].pc = "rebuild"
        /\ Batch(process[p].cursor) = {}
        /\ \E verify \in BOOLEAN :
              IF verify /\ ~whole
              THEN /\ reindex' = [reindex EXCEPT ![process[p].run].status = "failed"]
                   /\ process' = [process EXCEPT ![p] = AtRest]
              ELSE /\ reindex' = [reindex EXCEPT ![process[p].run].status = "completed"]
                   /\ process' = [process EXCEPT ![p].pc = "completed"]
        /\ UNCHANGED <<revisions, families, indexed, indexFaults>>

\* A statement fails or an answer is lost, after the last COMMIT too: the run is
\* recorded as failed, whatever another process has made of it.
Fail(p) ==
    /\ process[p].pc \in {"rebuild", "completed"} /\ Fault
    /\ reindex' = [reindex EXCEPT ![process[p].run].status = "failed"]
    /\ process' = [process EXCEPT ![p] = AtRest]
    /\ UNCHANGED <<revisions, families, indexed>>

\* The process stops, and its run stays "running".
Crash(p) ==
    /\ process[p].pc \in {"counted", "rebuild"} /\ Fault
    /\ process' = [process EXCEPT ![p] = AtRest]
    /\ UNCHANGED <<revisions, families, indexed, reindex>>

IndexNext ==
    \/ \E i \in Revisions : CreateKnowledgeRevision(i)
    \/ \E p \in Processes :
          \/ CountExpected(p) \/ Setup(p) \/ RebuildIndexBatch(p)
          \/ Complete(p) \/ Fail(p) \/ Crash(p)

IndexSpec == IndexInit /\ [][IndexNext]_indexVars

-----------------------------------------------------------------------------
IndexTypeOK ==
    /\ revisions \subseteq Revisions
    /\ indexed \subseteq families /\ families \subseteq revisions
    /\ reindex \in [Runs -> [status : {"none", "running", "failed", "completed"},
                         counted : SUBSET Revisions, cursor : 0..LastRevision]]
    /\ process \in [Processes -> [pc : {"idle", "counted", "rebuild", "completed"},
                                  counted : SUBSET Revisions,
                                  run : 0..MaxRuns, cursor : 0..LastRevision]]
    /\ indexFaults \in 0..MaxIndexFaults

\* Whatever is published, resumed, run twice or cut off: of the revisions a process
\* has counted, those up to its cursor are indexed, and all of them once it has
\* completed (the conservation reindex-applicability.ts verifies by numbers only).
CountedIsIndexed ==
    \A p \in Processes :
        LET counted == process[p].counted
        IN  /\ process[p].pc = "rebuild" =>
                  {i \in counted : i <= process[p].cursor} \subseteq indexed
            /\ process[p].pc = "completed" => counted \subseteq indexed
=============================================================================
