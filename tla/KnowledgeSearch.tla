--------------------------- MODULE KnowledgeSearch ---------------------------
(***************************************************************************)
(* What a published answer applies to and which answers a question gets:   *)
(* the applicability index written at publication (domain/applicability.ts)*)
(* the resolution of the request's context (domain/context.ts), the search *)
(* (domain/knowledge.ts) and the coverage of the parts of a question       *)
(* (domain/demand-intelligence.ts).  Texts are their ranks, and the parts  *)
(* of a question they answer.  A version is a patch of the branch of its   *)
(* family, where the family's versions have branches.                      *)
(***************************************************************************)
EXTENDS Integers, FiniteSets, SequencesExt, Subsequences

CONSTANTS
    Unset,                 \* what a candidate, a row or a request leaves open
    Vendors, VendorOf,     \* vendors; the vendor of each platform
    ArchitectureOf,        \* the architecture of each platform, or Unset
    Systems,               \* pairs of a vendor and a family: its operating systems
    Portable,              \* families of portability_mode "portable"
    Parents,               \* the families each family inherits from
    VendorFamily,          \* the family of each vendor's vendor-level guidance, or Unset
    Branched,              \* families whose version strategy has branches
    BranchOf,              \* the branch of each version
    Parts,                 \* the parts of the question
    SupportParts,          \* those that ask what is supported, compatible or upgradable
    AnswerLimit,                 \* answers asked for
    Candidates,            \* what may be published
    Requests,              \* the contexts that may be asked about
    Exclusions,            \* knowledge_applicability_exclusions that may be written
    MaxKnowledge           \* bound: published revisions

Platforms == DOMAIN VendorOf
Families == DOMAIN Parents
Versions == DOMAIN BranchOf
Scopes == {"model", "vendor_os", "architecture", "os_family"}

SearchAssumption ==
    /\ VendorOf \in [Platforms -> Vendors] /\ Systems \subseteq Vendors \X Families
    /\ Portable \subseteq Families /\ Parents \in [Families -> SUBSET Families]
    /\ Versions \subseteq Nat /\ Branched \subseteq Families
    /\ \A c \in Candidates :
          /\ c.family \in Families /\ {c.min, c.max} \subseteq Versions \cup {Unset}
          /\ c.scope \in Scopes \cup {Unset} /\ c.text \in Int
    /\ \A r \in Requests : r.version \in Versions \cup {Unset}
    /\ AnswerLimit \in Nat \ {0} /\ MaxKnowledge \in Nat

VARIABLES
    knowledge,  \* the active revisions, with their index rows
    conflicts,  \* open knowledge_conflicts: pairs <<left, right>>
    excluded,   \* knowledge_applicability_exclusions
    request     \* the context of the request

searchVars == <<knowledge, conflicts, excluded, request>>

(***************************************************************************)
(* The index row of a published candidate.                                 *)
(***************************************************************************)
DeriveVersionBranch(version, family) ==
    IF version = Unset \/ family \notin Branched THEN Unset ELSE BranchOf[version]

EffectiveApplicability(c) ==
    LET asked == IF c.scope # Unset THEN c.scope
                 ELSE IF c.platform # Unset THEN "model" ELSE "vendor_os"
        scope == IF \/ asked = "model" /\ c.platform = Unset
                    \/ asked = "architecture" /\ c.architecture = Unset
                 THEN "vendor_os" ELSE asked
        askedVersions == IF c.versions # Unset THEN c.versions
                         ELSE IF c.min # Unset /\ c.max # Unset
                              THEN IF c.min = c.max THEN "exact" ELSE "range"
                              ELSE "unbounded"
        branch == CASE askedVersions = "exact" -> DeriveVersionBranch(c.min, c.family)
                    [] askedVersions = "branch" ->
                         DeriveVersionBranch(IF c.min # Unset THEN c.min ELSE c.max, c.family)
                    [] OTHER -> Unset
        versions == IF askedVersions = "branch" /\ branch = Unset THEN "unbounded"
                    ELSE askedVersions
    IN [scope |-> scope, versions |-> versions,
        branch |-> IF versions = "unbounded" THEN Unset ELSE branch,
        confirm |-> scope # "model" /\ asked \in {"model", "architecture"}]

HardwareSensitive(c) == c.risk \in {"dangerous", "flagged"}

Indexed(c) ==
    LET e == EffectiveApplicability(c)
    IN [of |-> c, vendor |-> c.vendor, platform |-> c.platform, family |-> c.family,
        min |-> c.min, max |-> c.max, scope |-> e.scope, versions |-> e.versions,
        branch |-> e.branch,
        onVendor |-> IF e.scope = "vendor_os" THEN c.vendor ELSE Unset,
        onPlatform |-> IF e.scope = "model" THEN c.platform ELSE Unset,
        onArchitecture |-> IF e.scope = "architecture" THEN c.architecture ELSE Unset,
        confirm |-> e.confirm \/ (e.scope # "model" /\ HardwareSensitive(c))]

(***************************************************************************)
(* The context a request is resolved to.  A match is sure when its score   *)
(* reaches the minimum.                                                    *)
(***************************************************************************)
\* A family and what it inherits from, at any remove.
Inherited(family) ==
    {f \in Families : \A closed \in SUBSET Families :
        family \in closed /\ (\A g \in closed : Parents[g] \subseteq closed) => f \in closed}

Unresolved(r, vendor, platform) ==
    [vendor |-> vendor, platform |-> platform, os |-> Unset, system |-> r.system,
     families |-> {}, architecture |-> Unset, version |-> r.version]

ResolveNetworkContext(r) ==
    LET vendor == IF r.sureVendor THEN r.vendor ELSE Unset
        vendorSystem == r.system # Unset /\ <<vendor, r.system>> \in Systems
        explicit == r.system \in Families
        platform == IF vendor # Unset /\ r.model \in Platforms /\ VendorOf[r.model] = vendor
                    THEN r.model ELSE Unset
    IN IF \/ ~vendorSystem /\ explicit /\ ~r.sureSystem
          \/ vendor = Unset /\ r.system \notin Portable
       THEN Unresolved(r, Unset, Unset)
       ELSE IF ~vendorSystem /\ ~explicit THEN Unresolved(r, vendor, platform)
       ELSE IF ~vendorSystem /\ r.system \notin Portable THEN Unresolved(r, Unset, Unset)
       ELSE [vendor |-> vendor, platform |-> platform,
             os |-> IF vendorSystem THEN r.system ELSE Unset, system |-> r.system,
             families |-> Inherited(r.system)
                          \cup (IF vendor = Unset THEN {} ELSE {VendorFamily[vendor]} \ {Unset}),
             architecture |-> IF platform = Unset THEN Unset ELSE ArchitectureOf[platform],
             version |-> r.version]

(***************************************************************************)
(* How a revision relates to a context.                                    *)
(***************************************************************************)
MatchVersionApplicability(row, version) ==
    CASE version = Unset -> IF row.versions = "unbounded" THEN "unbounded" ELSE "branch"
      [] version # Unset /\ row.versions = "unbounded" -> "unbounded"
      [] version # Unset /\ row.versions = "range" ->
           IF \/ row.min # Unset /\ version < row.min
              \/ row.max # Unset /\ version > row.max
           THEN Unset ELSE "explicit_range"
      [] version # Unset /\ row.versions = "branch" ->
           IF DeriveVersionBranch(version, row.family) = row.branch THEN "branch" ELSE Unset
      [] version # Unset /\ row.versions = "exact" ->
           IF row.min = version /\ row.max = version THEN "exact"
           ELSE LET branch == DeriveVersionBranch(version, row.family)
                IN IF branch # Unset /\ branch = row.branch THEN "same_branch_fallback"
                   ELSE Unset

CandidateContextRelation(row, ctx) ==
    LET sameVendor == row.vendor # Unset /\ row.vendor = ctx.vendor
        sameFamily == \/ sameVendor /\ row.family = ctx.system
                      \/ row.family \in ctx.families
    IN CASE sameFamily /\ row.scope = "model" /\ row.platform = ctx.platform -> "same_model"
         [] sameFamily /\ row.scope = "vendor_os" /\ row.vendor = ctx.vendor ->
              "same_software_family"
         [] sameFamily /\ row.scope = "architecture"
            /\ row.onArchitecture = ctx.architecture -> "same_software_family"
         [] sameFamily /\ row.scope = "os_family" ->
              IF row.family \in Portable THEN "portable" ELSE "same_software_family"
         [] OTHER -> IF sameVendor THEN "same_vendor" ELSE "cross_platform"

Comparable == {"same_model", "same_software_family", "portable"}

ContextPriority == [same_model |-> 5, same_software_family |-> 4, portable |-> 3,
                    same_vendor |-> 2, cross_platform |-> 1]
ScopePriority == [model |-> 4, vendor_os |-> 3, architecture |-> 2, os_family |-> 1]
VersionPriority(match) ==
    CASE match = "exact" -> 5 [] match = "explicit_range" -> 4 [] match = "branch" -> 3
      [] match = "unbounded" -> 2 [] match = "same_branch_fallback" -> 1 [] OTHER -> 0

\* A revision excluded for the vendor, platform and version of the context.
Excluded(row, ctx) ==
    \E x \in excluded :
        /\ x.candidate = row.of
        /\ x.vendor \in {Unset, ctx.vendor} /\ x.platform \in {Unset, ctx.platform}
        /\ \/ x.min = Unset /\ x.max = Unset
           \/ /\ ctx.version # Unset
              /\ (x.min = Unset \/ ctx.version >= x.min) /\ (x.max = Unset \/ ctx.version <= x.max)

(***************************************************************************)
(* The search of one part: the rows of the context's families first, those *)
(* of the vendor and of everything else if they are too few.               *)
(***************************************************************************)
InScope(row, ctx) ==
    /\ row.family \in ctx.families
    /\ \/ row.scope = "os_family"
       \/ row.scope = "vendor_os" /\ ctx.vendor # Unset /\ row.onVendor = ctx.vendor
       \/ row.scope = "model" /\ ctx.platform # Unset /\ row.onPlatform = ctx.platform
       \/ /\ row.scope = "architecture" /\ ctx.architecture # Unset
          /\ row.onArchitecture = ctx.architecture

\* The texts' ranks are hundredths.
Rank(row) ==
    row.of.text + CASE row.scope = "model" -> 30 [] row.scope = "vendor_os" -> 20
                    [] row.scope = "architecture" -> 15 [] OTHER -> 5

\* Sort keys are sequences of integers, greater first; equal keys keep their order.
Precedes(x, y) ==
    \E i \in DOMAIN x : x[i] > y[i] /\ \A k \in 1..(i - 1) : x[k] = y[k]

SortBy(s, keys) ==
    LET Before(i) == {j \in DOMAIN s : \/ Precedes(keys[j], keys[i])
                                       \/ keys[j] = keys[i] /\ j < i}
    IN [n \in DOMAIN s |-> s[CHOOSE i \in DOMAIN s : Cardinality(Before(i)) = n - 1]]

\* The first row of each semantic key.
FirstOfEachKey(s) ==
    Subsequence(s, {i \in DOMAIN s : \A k \in 1..(i - 1) : s[k].row.of.key # s[i].row.of.key})

Entry(row, ctx, match) ==
    [row |-> row, relation |-> CandidateContextRelation(row, ctx), match |-> match]

ExactRows(part, ctx) ==
    LET found == {row \in knowledge : InScope(row, ctx) /\ part \in row.of.parts
                                      /\ ~Excluded(row, ctx)}
        best == {row \in found : \A other \in found : 2 * Rank(row) >= Rank(other)}
        applicable == {row \in best : MatchVersionApplicability(row, ctx.version) # Unset}
        entries == SetToSeq({Entry(row, ctx, MatchVersionApplicability(row, ctx.version)) :
                               row \in applicable})
        SortKey(e) == <<ContextPriority[e.relation], VersionPriority(e.match),
                        ScopePriority[e.row.scope], Rank(e.row)>>
    IN FirstOfEachKey(SortBy(entries, [i \in DOMAIN entries |-> SortKey(entries[i])]))

SearchBroadKnowledgeRows(part, ctx, vendors) ==
    LET rows == SetToSeq({row \in knowledge : part \in row.of.parts /\ row.vendor \in vendors
                                               /\ ~Excluded(row, ctx)})
    IN SortBy(rows, [i \in DOMAIN rows |-> <<rows[i].of.text>>])

WidenedEntry(row, ctx) ==
    Entry(row, ctx, IF CandidateContextRelation(row, ctx) \in Comparable
                    THEN MatchVersionApplicability(row, ctx.version) ELSE Unset)

\* Everything else is asked for when the exact rows and the vendor's are too few.
BroadRows(exact, ofVendor, part, ctx) ==
    IF Len(exact) + Len(ofVendor) >= AnswerLimit THEN ofVendor
    ELSE ofVendor \o SearchBroadKnowledgeRows(part, ctx, Vendors)

Widened(rows, ctx) == FirstOfEachKey([i \in DOMAIN rows |-> WidenedEntry(rows[i], ctx)])

WithWidened(exact, part, ctx) ==
    LET ofVendor == IF ctx.vendor = Unset THEN <<>>
                    ELSE SearchBroadKnowledgeRows(part, ctx, {ctx.vendor})
        widened == Widened(BroadRows(exact, ofVendor, part, ctx), ctx)
        new == {i \in DOMAIN widened :
                  \A k \in DOMAIN exact : exact[k].row.of.key # widened[i].row.of.key}
        entries == exact \o Subsequence(widened, new)
        SortKey(e) == <<ContextPriority[e.relation], e.row.of.text, VersionPriority(e.match),
                        ScopePriority[e.row.scope], Rank(e.row)>>
    IN SortBy(entries, [i \in DOMAIN entries |-> SortKey(entries[i])])

FirstOf(s) == SubSeq(s, 1, IF Len(s) < AnswerLimit THEN Len(s) ELSE AnswerLimit)

ApplicableRows(part, ctx) == FirstOf(WithWidened(ExactRows(part, ctx), part, ctx))

(***************************************************************************)
(* What is shown of a revision.                                            *)
(***************************************************************************)

AssuranceFor(scope, match) ==
    CASE match = "same_branch_fallback" -> "best_effort"
      [] match = "exact" /\ scope = "model" -> "exact"
      [] scope = "os_family" /\ match # "same_branch_fallback" -> "generic"
      [] OTHER -> "compatible"

\* Mutant: a dangerous answer of its own model scope needs no confirmation.
ConfirmedByScope(e, reference, dangerous) ==
    /\ e.row.of.risk \notin {"read_only", "flagged"}
    /\ e.row.confirm \/ (e.row.scope # "model" /\ dangerous)

RequiresPlatformConfirmation(e, reference, dangerous) ==
    /\ e.row.of.risk \notin {"read_only", "flagged"}
    /\ \/ e.row.confirm
       \/ e.row.scope # "model" /\ dangerous
       \/ reference /\ dangerous

\* A conflict is listed with the left revision if the left one is shown, else with the right.
ConflictsOf(row, shown) ==
    {p \in conflicts : row.of = IF \E e \in shown : e.row.of = p[1] THEN p[1] ELSE p[2]}

ToPublicKnowledge(e, shown) ==
    LET reference == e.relation \in {"same_vendor", "cross_platform"} \/ e.match = Unset
        \* A command that only reads is not dangerous, whatever its row was flagged.
        dangerous == e.row.of.risk = "dangerous"
    IN [row |-> e.row, relation |-> e.relation, match |-> e.match, dangerous |-> dangerous,
        assurance |-> IF reference THEN "best_effort" ELSE AssuranceFor(e.row.scope, e.match),
        confirm |-> RequiresPlatformConfirmation(e, reference, dangerous),
        conflicts |-> ConflictsOf(e.row, shown)]

Published(entries) ==
    [i \in DOMAIN entries |-> ToPublicKnowledge(entries[i], ToSet(entries))]

SearchKnowledge(part, ctx) == Published(ApplicableRows(part, ctx))

(***************************************************************************)
(* The coverage of a question.                                             *)
(***************************************************************************)
IsExample(a, ctx) ==
    \/ a.relation = "cross_platform"
    \/ ctx.os # Unset /\ a.relation = "same_vendor"

AnswerProvidesContextualCoverage(a, part, ctx) ==
    /\ a.assurance # "best_effort" /\ a.match # "same_branch_fallback"
    /\ a.relation \notin {"same_vendor", "cross_platform"}
    /\ ~(ctx.version # Unset /\ part \in SupportParts /\ a.match = "unbounded")

\* The answers, the examples of other contexts, and the answers that cover the part.
PartitionContextualExamples(found, part, ctx) ==
    LET answers == Subsequence(found, {i \in DOMAIN found : ~IsExample(found[i], ctx)})
    IN [answers |-> answers,
        examples |-> {a \in ToSet(found) : IsExample(a, ctx)},
        covered |-> {a \in ToSet(answers) : AnswerProvidesContextualCoverage(a, part, ctx)}]

SearchPart(part, ctx) == PartitionContextualExamples(SearchKnowledge(part, ctx), part, ctx)

WithCoverage(result) ==
    [parts |-> result,
     status |-> IF \A part \in Parts : result[part].covered # {} THEN "complete"
                ELSE IF \E part \in Parts : result[part].answers # <<>> THEN "partial"
                ELSE "unknown"]

SearchKnowledgeWithCoverage(ctx) == WithCoverage([part \in Parts |-> SearchPart(part, ctx)])

(***************************************************************************)
(* Behaviour: revisions are published, conflicts and exclusions recorded.  *)
(***************************************************************************)
SearchInit == knowledge = {} /\ conflicts = {} /\ excluded = {} /\ request \in Requests

IndexPublishedKnowledge(c) ==
    /\ Cardinality(knowledge) < MaxKnowledge /\ \A row \in knowledge : row.of # c
    /\ knowledge' = knowledge \cup {Indexed(c)}
    /\ UNCHANGED <<conflicts, excluded, request>>

OpenConflict(left, right) ==
    /\ left # right /\ conflicts' = {<<left.of, right.of>>}
    /\ UNCHANGED <<knowledge, excluded, request>>

Exclude(x) ==
    /\ \E row \in knowledge : row.of = x.candidate
    /\ excluded' = excluded \cup {x} /\ UNCHANGED <<knowledge, conflicts, request>>

SearchNext ==
    \/ \E c \in Candidates : IndexPublishedKnowledge(c)
    \/ \E left, right \in knowledge : OpenConflict(left, right)
    \/ \E x \in Exclusions : Exclude(x)

SearchSpec == SearchInit /\ [][SearchNext]_searchVars
-----------------------------------------------------------------------------
(* Properties.                                                             *)

Result == SearchKnowledgeWithCoverage(ResolveNetworkContext(request))

Shown(result) ==
    UNION {ToSet(result.parts[part].answers) \cup result.parts[part].examples : part \in Parts}

\* A dangerous operation is shown without a demand to confirm the platform only for the
\* platform of the request, and only where its documented versions match the request's:
\* publication, resolution, widening and presentation never lose that together.
DangerIsConfined(result) ==
    \A a \in Shown(result) :
        a.dangerous /\ ~a.confirm
        => /\ a.row.of.platform # Unset /\ request.sureVendor
           /\ a.row.of.platform = request.model /\ a.match # Unset

\* What a candidate says itself of a request: its software is the request's or an
\* ancestor of it, its model is the request's unless it claims a wider scope, and so
\* are its versions when both ends are documented.
Applies(c) ==
    LET ctx == ResolveNetworkContext(request)
    IN /\ c.family \in ctx.families
       /\ c.platform # Unset /\ c.scope \in {Unset, "model"} => c.platform = request.model
       /\ c.versions = Unset /\ c.min # Unset /\ c.max # Unset /\ request.version # Unset
          => request.version \in c.min..c.max

\* A question is answered "complete" only when every part has an answer that applies,
\* by what its candidate says, to the context of the request, and nothing else counts
\* as the coverage of a part.
CoverageApplies(result) ==
    /\ \A part \in Parts : \A a \in result.parts[part].covered : Applies(a.row.of)
    /\ result.status = "complete"
       => \A part \in Parts : \E a \in ToSet(result.parts[part].answers) : Applies(a.row.of)

\* What is answered applies to the request it answers.
AllApplies(result) == DangerIsConfined(result) /\ CoverageApplies(result)
AnswersApply == AllApplies(Result)
=============================================================================
