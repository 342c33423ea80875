--------------------------- MODULE EvidenceExtraction ---------------------------
(***************************************************************************)
(* How the text of a source becomes fragments, what an agent's answer does *)
(* to the fragments it was leased, and what the records made of them keep  *)
(* of their evidence through audits and repairs: the chunker               *)
(* (domain/pipeline-worker.ts), the deterministic classification and the   *)
(* batches (domain/pipeline-v2.ts), the validation of answers and their    *)
(* submission (domain/pipeline.ts) and the risk rules (domain/risk.ts).    *)
(* Leases, attempts and runs are those of PipelineLease and SourceRuns.    *)
(***************************************************************************)
EXTENDS Integers, FiniteSetsExt, SequencesExt, Subsequences

CONSTANTS
    NotGiven,        \* a field that is not given, no task, no repair
    Texts,           \* sources: sequences of blocks [kind, text, size]
    MaxBytes,        \* of a fragment
    BatchFragments, BatchBytes,   \* of an analysis task
    WindowFragments,              \* fragments of one evidence window
    MaximumRecords, TargetTokens, HardTokens,   \* of an audit or a review
    Extractions,     \* what the domain pack may extract: [handled, candidates]
    AnalysisAnswers, \* what an agent may answer to an analysis task
    Reviews,         \* what an agent may answer to an audit or a review
    MaxRecords       \* bound: records of the source

RiskPriority ==
    [safe_read_only |-> 0, changes_config |-> 2, unknown |-> 4, credential_sensitive |-> 5,
     service_disruptive |-> 6, firmware_change |-> 6, data_loss |-> 7, boot_change |-> 7,
     storage_wipe |-> 8, factory_reset |-> 9]

\* What an agent claims: a command and a procedure are what their lines do.
IsClaim(c) ==
    /\ DOMAIN c = {"command", "procedure", "level", "dangerous", "evidence"}
    /\ c.level \in DOMAIN RiskPriority \cup {NotGiven} /\ c.dangerous \in BOOLEAN

\* What a reviewer may change of a claim, and what he may clear.
IsPatch(repair) ==
    /\ repair.clear \subseteq {"command"}
    /\ "level" \in DOMAIN repair.changes => repair.changes.level \in DOMAIN RiskPriority
    /\ "dangerous" \in DOMAIN repair.changes => repair.changes.dangerous \in BOOLEAN

TaskKinds == {"analysis", "fidelity", "low", "medium"}

ExtractionAssumption ==
    /\ {MaxBytes, BatchFragments, BatchBytes, WindowFragments, MaximumRecords,
        TargetTokens, HardTokens, MaxRecords} \subseteq Nat \ {0}
    /\ TargetTokens <= HardTokens
    /\ \A t \in Texts : t \in Seq(ToSet(t)) /\ \A b \in ToSet(t) : b.size \in Nat \ {0}
    /\ \A x \in Extractions : \A c \in ToSet(x.candidates) : IsClaim(c.candidate)
    /\ \A x \in Extractions : x.candidates \in Seq(ToSet(x.candidates))
    /\ \A a \in AnalysisAnswers :
          /\ a.candidates \in Seq(ToSet(a.candidates))
          /\ \A c \in ToSet(a.candidates) : c.candidate = NotGiven \/ IsClaim(c.candidate)
          /\ \A d \in ToSet(a.dispositions) :
                d.disposition \in {"non_knowledge", "continuation_required", "targeted_retry"}
    /\ \A decisions \in Reviews : \A d \in ToSet(decisions) :
          d.repair = NotGiven \/ IsPatch(d.repair)
    \* What is not given is no task and no disposition.
    /\ NotGiven # "knowledge_extracted" /\ NotGiven \notin [kind : TaskKinds, items : Seq(Nat)]

VARIABLES
    text,       \* the text of the source
    fragments,  \* source_fragments by ordinal
    records,    \* knowledge_candidates by creation
    lease       \* the task an agent works on: its kind and its fragments or records

extractVars == <<text, fragments, records, lease>>

(***************************************************************************)
(* Segmentation.                                                           *)
(***************************************************************************)
\* The pieces of a block without blanks to break it at.
SplitOversizedText(b) ==
    LET n == (b.size + MaxBytes - 1) \div MaxBytes
    IN [i \in 1..n |-> [kind |-> b.kind, text |-> <<b.text, i>>,
                        size |-> IF i < n THEN MaxBytes ELSE b.size - (n - 1) * MaxBytes]]

\* Each piece counts the blank line after it.
Bytes(content) ==
    LET upto[n \in 0..Len(content)] ==
          IF n = 0 THEN 0 ELSE upto[n - 1] + content[n].size + 2
    IN upto[Len(content)]

Flushed(c) ==
    LET seen == \E i \in DOMAIN c.fragments : c.fragments[i].content = c.current
    IN [c EXCEPT !.current = <<>>,
                 !.fragments = IF c.current = <<>> \/ seen THEN @
                               ELSE Append(@, [title |-> c.title, content |-> c.current])]

WithPiece(c, p) ==
    IF p.kind = "heading" THEN [Flushed(c) EXCEPT !.title = p.text]
    ELSE LET full == c.current # <<>> /\ Bytes(c.current) + p.size + 2 > MaxBytes
         IN [(IF full THEN Flushed(c) ELSE c) EXCEPT !.current = Append(@, p)]

ChunkSourceText(t) ==
    LET pieces == FlattenSeq([i \in DOMAIN t |-> SplitOversizedText(t[i])])
        after[n \in 0..Len(pieces)] ==
          IF n = 0 THEN [title |-> NotGiven, current |-> <<>>, fragments |-> <<>>]
          ELSE WithPiece(after[n - 1], pieces[n])
    IN Flushed(after[Len(pieces)]).fragments

\* "contents" is a table of contents, "command" anything operational, "legal" one of
\* the texts that are never knowledge.
ClassifyFragmentDisposition(content) ==
    LET kinds == {content[i].kind : i \in DOMAIN content}
    IN CASE "contents" \in kinds -> "non_knowledge"
         [] kinds \cap {"contents", "command"} = {} /\ "legal" \in kinds -> "non_knowledge"
         [] OTHER -> NotGiven

ChunkSource ==
    /\ fragments = <<>> /\ ChunkSourceText(text) # <<>>
    /\ fragments' = [i \in DOMAIN ChunkSourceText(text) |->
         LET f == ChunkSourceText(text)[i]
             disposition == ClassifyFragmentDisposition(f.content)
         IN [content |-> f.content, disposition |-> disposition,
             status |-> IF disposition = NotGiven THEN "queued" ELSE "analyzed"]]
    /\ UNCHANGED <<text, records, lease>>

(***************************************************************************)
(* The risk of a candidate: a line is named by what it does.               *)
(***************************************************************************)
RiskOrder == <<"factory_reset", "storage_wipe", "data_loss", "credential_sensitive",
               "boot_change", "firmware_change", "service_disruptive", "changes_config">>

ClassifyKnowledgeRisk(lines) ==
    LET found == {i \in DOMAIN RiskOrder : RiskOrder[i] \in lines}
    IN CASE lines \subseteq {"safe_read_only"} -> "safe_read_only"
         [] ~(lines \subseteq {"safe_read_only"}) /\ found # {} -> RiskOrder[Min(found)]
         [] OTHER -> "unknown"

OperationLines(c) == (IF c.command = NotGiven THEN {} ELSE {c.command}) \cup c.procedure

EnforceKnowledgeRisk(c) ==
    LET deterministic == ClassifyKnowledgeRisk(OperationLines(c))
        declared == IF c.level # NotGiven THEN c.level
                    ELSE IF c.dangerous THEN "changes_config" ELSE "safe_read_only"
        level == IF RiskPriority[deterministic] > RiskPriority[declared]
                 THEN deterministic ELSE declared
    IN [c EXCEPT !.level = level,
                 !.dangerous = \/ c.dangerous
                               \/ deterministic # "safe_read_only"
                               \/ level # "safe_read_only"]

\* Records of candidates made of fragments; a candidate with the content of a record of
\* its fragment is that record.
WithCandidates(s, made) ==
    LET new == {k \in DOMAIN made :
                  /\ \A r \in DOMAIN s : ~(/\ s[r].fragment = made[k].fragment
                                            /\ s[r].created = made[k].candidate)
                  /\ \A l \in 1..(k - 1) : made[l] # made[k]}
        chosen == Subsequence(made, new)
    IN s \o [k \in DOMAIN chosen |->
               [fragment |-> chosen[k].fragment, created |-> chosen[k].candidate,
                payload |-> chosen[k].candidate, stage |-> "pending", reserved |-> FALSE]]

\* The domain pack extracts what it can without an agent.  Of a fragment it handled to
\* the end it keeps every valid candidate, of the others those ready to be published.
Kept(x) ==
    Subsequence(x.candidates,
      {k \in DOMAIN x.candidates :
         LET c == x.candidates[k]
         IN /\ c.fragment \in DOMAIN fragments /\ fragments[c.fragment].status = "queued"
            /\ c.fragment \in x.handled \/ c.ready
            /\ c.valid})

\* The evidence of a candidate is its fragment, whatever an agent wrote; the pack's is.
BindCandidateAnalysisProvenance(c, i) == [c EXCEPT !.evidence = fragments[i].content]

Made(c, i) ==
    [fragment |-> i, candidate |-> BindCandidateAnalysisProvenance(EnforceKnowledgeRisk(c), i)]

\* A fragment handled to the end is verified unless a record of it waits to be.
ExtractedFragment(f, handled, made, waits) ==
    IF handled /\ f.status = "queued"
    THEN [f EXCEPT !.status = IF waits THEN "analyzed" ELSE "verified",
                   !.disposition = CASE made -> "knowledge_extracted"
                                     [] ~made /\ f.disposition = NotGiven -> "targeted_retry"
                                     [] OTHER -> f.disposition]
    ELSE f

RunDeterministicFastPath(x) ==
    LET kept == Kept(x)
        of(i) == {k \in DOMAIN kept : kept[k].fragment = i}
    IN /\ fragments # <<>> /\ records = <<>> /\ lease = NotGiven
       /\ \A i \in DOMAIN fragments : fragments[i].status \in {"queued", "analyzed"}
       /\ records' = WithCandidates(records,
                       [k \in DOMAIN kept |-> Made(kept[k].candidate, kept[k].fragment)])
       /\ Len(records') <= MaxRecords
       /\ fragments' = [i \in DOMAIN fragments |->
            ExtractedFragment(fragments[i], i \in x.handled, of(i) # {},
                              \E k \in of(i) : ~kept[k].ready)]
       /\ UNCHANGED <<text, lease>>

(***************************************************************************)
(* Analysis.  An answer names a fragment by its place in the lease, 0 is   *)
(* any other one; a candidate the schema refuses is NotGiven.              *)
(***************************************************************************)
\* The first fragments fit in a task; one always does.
Fits(queued, n) ==
    /\ n <= BatchFragments
    /\ n > 1 => FoldLeft(LAMBDA sum, i : sum + Bytes(fragments[i].content) - 2,
                         0, SubSeq(queued, 1, n)) <= BatchBytes

BoundFragmentAnalysisBatch(queued) ==
    SubSeq(queued, 1, Cardinality({n \in DOMAIN queued : \A k \in 1..n : Fits(queued, k)}))

\* The ordinals at some places, in their order.
Ordinals(s, places) == Subsequence([i \in DOMAIN s |-> i], places)

QueuedFragments ==
    Ordinals(fragments, {i \in DOMAIN fragments : fragments[i].status = "queued"})

QueueAnalysis ==
    /\ lease = NotGiven /\ QueuedFragments # <<>>
    /\ lease' = [kind |-> "analysis", items |-> BoundFragmentAnalysisBatch(QueuedFragments)]
    /\ fragments' = [i \in DOMAIN fragments |->
         IF i \in ToSet(lease'.items) THEN [fragments[i] EXCEPT !.status = "reserved"]
         ELSE fragments[i]]
    /\ UNCHANGED <<text, records>>

\* What is valid of an answer; the last disposition of a fragment counts.
ValidAnalysis(a) ==
    LET leased == DOMAIN lease.items
        candidates == Subsequence(a.candidates,
                        {k \in DOMAIN a.candidates : /\ a.candidates[k].fragment \in leased
                                                     /\ a.candidates[k].candidate # NotGiven})
        extracted == {candidates[k].fragment : k \in DOMAIN candidates}
        rejected == (a.rejected \cap leased) \ extracted
        given == a.dispositions
        valid == {k \in DOMAIN given :
                    /\ given[k].fragment \in leased \ rejected
                    /\ ~(/\ given[k].fragment \in extracted
                         /\ given[k].disposition = "non_knowledge")}
        last == {k \in valid : \A l \in valid : l > k => given[l].fragment # given[k].fragment}
    IN [candidates |-> candidates, rejected |-> rejected,
        dispositions |-> [i \in {given[k].fragment : k \in last} |->
          given[CHOOSE k \in last : given[k].fragment = i].disposition]]

Extracted(m) == {m.candidates[k].fragment : k \in DOMAIN m.candidates}
Handled(m) == Extracted(m) \cup m.rejected \cup DOMAIN m.dispositions

\* Mutant: fragments the answer leaves out are not asked for again.
WithoutRetry(a) == ValidAnalysis(a)

MaterializeCandidateAnalysisArtifact(a) ==
    LET m == ValidAnalysis(a)
        given == m.dispositions
        missing == DOMAIN lease.items \ Handled(m)
    IN [candidates |-> m.candidates, rejected |-> m.rejected,
        dispositions |-> [i \in DOMAIN given \cup missing |->
          IF i \in DOMAIN given THEN given[i] ELSE "targeted_retry"]]

\* The schema, and the completeness the server asks for.
Accepted(m) ==
    LET given == DOMAIN m.dispositions
    IN /\ m.rejected \cap (Extracted(m) \cup given) = {}
       /\ \A i \in Extracted(m) \cap given : m.dispositions[i] # "non_knowledge"
       /\ Handled(m) = DOMAIN lease.items

AnalyzedFragment(f, m, place) ==
    LET continued == place \in DOMAIN m.dispositions
                     /\ m.dispositions[place] # "non_knowledge"
    IN CASE continued -> [f EXCEPT !.status = "queued",
                                   !.disposition = m.dispositions[place]]
         [] ~continued /\ place \in Extracted(m) ->
              [f EXCEPT !.status = "analyzed", !.disposition = "knowledge_extracted"]
         [] OTHER -> [f EXCEPT !.status = "analyzed", !.disposition = "non_knowledge"]

SubmitCandidateAnalysis(a) ==
    /\ lease # NotGiven /\ lease.kind = "analysis"
    /\ LET m == MaterializeCandidateAnalysisArtifact(a)
       IN /\ Accepted(m)
          /\ records' = WithCandidates(records, [k \in DOMAIN m.candidates |->
               Made(m.candidates[k].candidate, lease.items[m.candidates[k].fragment])])
          /\ Len(records') <= MaxRecords
          /\ fragments' = [i \in DOMAIN fragments |->
               IF i \in ToSet(lease.items)
               THEN AnalyzedFragment(fragments[i], m,
                                     CHOOSE p \in DOMAIN lease.items : lease.items[p] = i)
               ELSE fragments[i]]
    /\ lease' = NotGiven /\ UNCHANGED text

(***************************************************************************)
(* Audits and deep reviews: batches of records of one evidence window.     *)
(***************************************************************************)
EvidenceTokens(r) == Bytes(records[r].payload.evidence)
Window(r) == (records[r].fragment - 1) \div WindowFragments

WithUnit(b, r) ==
    LET closes == /\ b.current # <<>>
                  /\ \/ Window(Head(b.current)) # Window(r)
                     \/ b.tokens + EvidenceTokens(r) > TargetTokens
                     \/ Len(b.current) >= MaximumRecords
        open == IF closes
                THEN [batches |-> Append(b.batches, b.current), current |-> <<>>, tokens |-> 0]
                ELSE b
    IN IF EvidenceTokens(r) > HardTokens THEN [open EXCEPT !.batches = Append(@, <<r>>)]
       ELSE [open EXCEPT !.current = Append(@, r), !.tokens = @ + EvidenceTokens(r)]

BatchEvidenceUnits(units) ==
    LET all == FoldLeft(WithUnit, [batches |-> <<>>, current |-> <<>>, tokens |-> 0], units)
    IN IF all.current = <<>> THEN all.batches ELSE Append(all.batches, all.current)

StageOf == [fidelity |-> "pending", low |-> "low", medium |-> "medium"]

\* The window of the first record is reviewed, as much of it as fits.
ReviewBatch(waiting) == BatchEvidenceUnits(waiting)[1]

QueueReview(kind) ==
    LET waiting == Ordinals(records, {r \in DOMAIN records :
                              records[r].stage = StageOf[kind] /\ ~records[r].reserved})
    IN /\ lease = NotGiven /\ waiting # <<>>
       /\ lease' = [kind |-> kind, items |-> ReviewBatch(waiting)]
       /\ records' = [r \in DOMAIN records |->
            [records[r] EXCEPT !.reserved = @ \/ r \in ToSet(lease'.items)]]
       /\ UNCHANGED <<text, fragments>>

\* A repair changes or clears something, and no field both.
ValidRepair(repair) ==
    \/ repair = NotGiven
    \/ /\ DOMAIN repair.changes # {} \/ repair.clear # {}
       /\ DOMAIN repair.changes \cap repair.clear = {}

\* The first valid decision of each leased index.
NormalizeLeasedDecisionIndexes(decisions) ==
    LET valid == {k \in DOMAIN decisions : /\ decisions[k].index \in DOMAIN lease.items
                                           /\ ValidRepair(decisions[k].repair)}
        first == {k \in valid : \A l \in valid : l < k => decisions[l].index # decisions[k].index}
    IN {decisions[k] : k \in first}

\* Provenance is never the reviewer's.
Patched(c, repair) ==
    [field \in DOMAIN c |->
       IF field # "evidence" /\ field \in repair.clear THEN NotGiven
       ELSE IF field # "evidence" /\ field \in DOMAIN repair.changes THEN repair.changes[field]
       ELSE c[field]]

\* Mutant: the risk of the repaired candidate is what the reviewer says.
RepairedOnly(c, repair) == Patched(c, repair)

ApplyDeepReviewRepair(c, repair) == EnforceKnowledgeRisk(Patched(c, repair))

\* A decision is the agent's after the deterministic checks.  A repair the domain pack
\* does not accept leaves the candidate and what it was verified for unresolved.
Reviewed(record, kind, d) ==
    LET applies == d.repair # NotGiven /\ kind # "fidelity"
        unfit == applies /\ ~d.repair.fits
        decision == IF unfit /\ d.decision = "verified" THEN "unresolved" ELSE d.decision
        next == CASE decision = "verified" -> "passed"
                  [] decision # "verified" /\ kind = "fidelity" -> "low"
                  [] kind = "low" /\ decision = "unresolved" -> "medium"
                  [] OTHER -> "rejected"
    IN [record EXCEPT !.stage = next, !.reserved = FALSE,
          !.payload = IF applies /\ ~unfit THEN ApplyDeepReviewRepair(@, d.repair) ELSE @]

SubmitReview(decisions) ==
    /\ lease # NotGiven /\ lease.kind # "analysis"
    /\ LET made == NormalizeLeasedDecisionIndexes(decisions)
       IN /\ made # {}
          /\ records' = [r \in DOMAIN records |->
               IF \E d \in made : lease.items[d.index] = r
               THEN Reviewed(records[r], lease.kind,
                             CHOOSE d \in made : lease.items[d.index] = r)
               ELSE [records[r] EXCEPT !.reserved = FALSE]]
    /\ lease' = NotGiven /\ UNCHANGED <<text, fragments>>

\* The task fails for good: its fragments fail, its records wait for another.
FailTask ==
    /\ lease # NotGiven /\ lease' = NotGiven
    /\ fragments' = [i \in DOMAIN fragments |->
         IF fragments[i].status = "reserved" THEN [fragments[i] EXCEPT !.status = "failed"]
         ELSE fragments[i]]
    /\ records' = [r \in DOMAIN records |-> [records[r] EXCEPT !.reserved = FALSE]]
    /\ UNCHANGED text

ExtractionInit == text \in Texts /\ fragments = <<>> /\ records = <<>> /\ lease = NotGiven

ExtractionNext ==
    \/ ChunkSource
    \/ \E x \in Extractions : RunDeterministicFastPath(x)
    \/ QueueAnalysis
    \/ \E a \in AnalysisAnswers : SubmitCandidateAnalysis(a)
    \/ \E kind \in DOMAIN StageOf : QueueReview(kind)
    \/ \E decisions \in Reviews : SubmitReview(decisions)
    \/ FailTask

ExtractionSpec == ExtractionInit /\ [][ExtractionNext]_extractVars
-----------------------------------------------------------------------------
(* Properties.                                                             *)

\* No text is lost on its way to an agent: every piece of the source but a heading is in
\* a fragment no larger than an agent may be given; whatever an agent answers, the server
\* takes what is usable of it; and a fragment is done only when it was set aside or a
\* record was made of it.
EvidenceIsKept ==
    /\ fragments # <<>> =>
         /\ \A b \in ToSet(text) : b.kind # "heading" =>
              \A p \in ToSet(SplitOversizedText(b)) :
                 \E i \in DOMAIN fragments : p \in ToSet(fragments[i].content)
         /\ \A i \in DOMAIN fragments : Bytes(fragments[i].content) - 2 <= MaxBytes
    /\ lease # NotGiven /\ lease.kind = "analysis" =>
         \A a \in AnalysisAnswers : Accepted(MaterializeCandidateAnalysisArtifact(a))
    /\ \A i \in DOMAIN fragments :
         /\ fragments[i].status = "analyzed"
            => fragments[i].disposition \in {"knowledge_extracted", "non_knowledge"}
         /\ fragments[i].disposition = "knowledge_extracted"
            => \E r \in DOMAIN records : records[r].fragment = i
         /\ fragments[i].status = "reserved"
            => lease # NotGiven /\ lease.kind = "analysis" /\ i \in ToSet(lease.items)

\* Whatever agents write and reviewers repair, a record rests on the text of its own
\* fragment, carries at least the risk its lines are classified with, and is marked
\* dangerous unless every line of it only reads.
RecordsKeepTheirEvidence ==
    \A r \in DOMAIN records :
        LET c == records[r].payload
        IN /\ c.evidence = fragments[records[r].fragment].content
           /\ c.level \in DOMAIN RiskPriority
           /\ RiskPriority[c.level] >= RiskPriority[ClassifyKnowledgeRisk(OperationLines(c))]
           /\ c.dangerous \/ OperationLines(c) \subseteq {"safe_read_only"}
=============================================================================
