--------------------------- MODULE ReleaseHistory ---------------------------
(***************************************************************************)
(* Knowledge revisions, the releases that publish them and the table of    *)
(* active revisions every reader uses: src/domain/publication.ts with      *)
(* migrations 001, 017 and 034.                                            *)
(*                                                                         *)
(* Every writer of a release runs in one transaction under the advisory    *)
(* lock 'clideck-mcp-release-publication', so each is one action here.     *)
(* What a writer read before it took that lock is state of its own: the    *)
(* fidelity audit reads which items to take down and only then queues for  *)
(* the lock.                                                               *)
(*                                                                         *)
(* A revision is its number within its item; 0 stands for no row.          *)
(***************************************************************************)
EXTENDS Naturals, Sequences, FiniteSets

CONSTANTS
    Items,            \* knowledge items
    CheckpointEvery,  \* 120 in the code
    MaxRevisions,     \* bound on revisions per item
    MaxReleases,      \* bound on releases
    MaxSequence       \* bound on the identity column releases.sequence

ASSUME ItemsAssumption == IsFiniteSet(Items)
ASSUME HistoryAssumption ==
    /\ CheckpointEvery \in Nat \ {0}
    /\ MaxRevisions \in Nat
    /\ MaxReleases \in Nat
    /\ MaxSequence \in Nat

VARIABLES
    revisions,   \* revisions[i]: how many revisions of i exist
    active,      \* active[i]: its row in active_knowledge_state
    releases,    \* the releases, in the order they were published
    head,        \* active_release: index into releases, 0 if no row
    sequence,    \* last value drawn from the identity of releases
    takedown     \* items the audit has decided to take down

vars == <<revisions, active, releases, head, sequence, takedown>>

Content == [Items -> 0..MaxRevisions]
Nothing == [i \in Items |-> 0]

\* release_changes of one release: for the changed items, the revision the
\* change replaced and the one it put in its place, 0 for a deactivation.
Change == [old : 0..MaxRevisions, new : 0..MaxRevisions]
Delta == UNION {[S -> Change] : S \in SUBSET Items}

Release == [parent   : 0..MaxReleases,
            mode     : {"delta", "checkpoint"},
            status   : {"published", "superseded"},
            delta    : Delta,
            snapshot : Content]      \* release_items, of a checkpoint

Init ==
    /\ revisions = Nothing
    /\ active = Nothing
    /\ releases = <<>>
    /\ head = 0
    /\ sequence = 0
    /\ takedown = {}

-----------------------------------------------------------------------------
(* Reconstruction of a release's content.                                   *)

\* Mutant: deltas whose deactivations are not replayed.
ReplayUpserts(content, delta) ==
    [i \in Items |-> IF i \in DOMAIN delta /\ delta[i].new # 0
                     THEN delta[i].new ELSE content[i]]

\* One delta on top of the desired state: its upserts, then its deletions.
Replay(content, delta) ==
    [i \in Items |-> IF i \in DOMAIN delta THEN delta[i].new ELSE content[i]]

\* The nearest checkpoint among the ancestors, then the deltas after it.
Reconstructed ==
    LET content[n \in DOMAIN releases] ==
          IF releases[n].mode = "checkpoint" THEN releases[n].snapshot
          ELSE Replay(content[releases[n].parent], releases[n].delta)
    IN content

-----------------------------------------------------------------------------
(* Writers.                                                                 *)

\* createKnowledgeRevision; the UNIQUE (item, number) aborts a concurrent
\* creator of the same item, which may try again.
CreateKnowledgeRevision(i) ==
    /\ revisions[i] < MaxRevisions
    /\ revisions' = [revisions EXCEPT ![i] = @ + 1]
    /\ UNCHANGED <<active, releases, head, sequence, takedown>>

\* A value of an identity column is not returned when its transaction aborts.
AbortPublication ==
    /\ sequence < MaxSequence
    /\ sequence' = sequence + 1
    /\ UNCHANGED <<revisions, active, releases, head, takedown>>

\* The active state a publication leaves behind.
Changed(delta) ==
    [i \in Items |-> IF i \in DOMAIN delta THEN delta[i].new ELSE active[i]]

\* Mutants: the parent is the newest release rather than the active one; the
\* predecessor keeps its status.
AppendReleaseToNewest(delta) ==
    LET checkpoint == head = 0 \/ (sequence + 1) % CheckpointEvery = 0
        release == [parent |-> Len(releases),
                    mode |-> IF checkpoint THEN "checkpoint" ELSE "delta",
                    status |-> "published", delta |-> delta,
                    snapshot |-> IF checkpoint THEN Changed(delta)
                                 ELSE Nothing]
    IN /\ Len(releases) < MaxReleases /\ sequence < MaxSequence
       /\ releases' = Append([n \in DOMAIN releases |->
                                IF n = head
                                THEN [releases[n] EXCEPT !.status = "superseded"]
                                ELSE releases[n]], release)
       /\ active' = Changed(delta)
       /\ head' = Len(releases) + 1
       /\ sequence' = sequence + 1

AppendReleaseBesideHead(delta) ==
    LET checkpoint == head = 0 \/ (sequence + 1) % CheckpointEvery = 0
        release == [parent |-> head,
                    mode |-> IF checkpoint THEN "checkpoint" ELSE "delta",
                    status |-> "published", delta |-> delta,
                    snapshot |-> IF checkpoint THEN Changed(delta)
                                 ELSE Nothing]
    IN /\ Len(releases) < MaxReleases /\ sequence < MaxSequence
       /\ releases' = Append(releases, release)
       /\ active' = Changed(delta)
       /\ head' = Len(releases) + 1
       /\ sequence' = sequence + 1

\* The tail the two publishing transactions share: insert the release and its
\* changes, change the active state, snapshot it at a checkpoint, supersede
\* the previous release and switch the pointer.
AppendRelease(delta) ==
    LET checkpoint == head = 0 \/ (sequence + 1) % CheckpointEvery = 0
        release == [parent |-> head,
                    mode |-> IF checkpoint THEN "checkpoint" ELSE "delta",
                    status |-> "published", delta |-> delta,
                    snapshot |-> IF checkpoint THEN Changed(delta)
                                 ELSE Nothing]
    IN /\ Len(releases) < MaxReleases /\ sequence < MaxSequence
       /\ releases' = Append([n \in DOMAIN releases |->
                                IF n = head
                                THEN [releases[n] EXCEPT !.status = "superseded"]
                                ELSE releases[n]], release)
       /\ active' = Changed(delta)
       /\ head' = Len(releases) + 1
       /\ sequence' = sequence + 1

\* The changes that make the items of target differ from the active state.
Changes(target) ==
    [i \in {i \in DOMAIN target : active[i] # target[i]} |->
        [old |-> active[i], new |-> target[i]]]

\* batch: one revision per item, the last one of the caller's list.  A batch
\* that changes nothing still makes a release.
PublishKnowledgeBatch(batch) ==
    /\ DOMAIN batch # {}
    /\ \A i \in DOMAIN batch : batch[i] \in 1..revisions[i]
    /\ AppendRelease(Changes(batch))
    /\ UNCHANGED <<revisions, takedown>>

\* deactivatePublishedCandidates, first statement: the items whose active
\* revision is that of a rejected candidate.
ReadTakedown(S) ==
    /\ takedown = {}
    /\ S # {}
    /\ \A i \in S : active[i] # 0
    /\ takedown' = S
    /\ UNCHANGED <<revisions, active, releases, head, sequence>>

\* publishCompensatingChanges of that audit, once it holds the lock.
DeactivatePublishedCandidates ==
    /\ takedown # {}
    /\ AppendRelease(Changes([i \in takedown |-> 0]))
    /\ takedown' = {}
    /\ UNCHANGED revisions

AbortTakedown ==
    /\ takedown # {}
    /\ takedown' = {}
    /\ UNCHANGED <<revisions, active, releases, head, sequence>>

\* Any release, also the active one, may be activated again.
ActivateKnowledgeRelease(n) ==
    /\ head' = n
    /\ active' = Reconstructed[n]
    /\ releases' = [m \in DOMAIN releases |->
                      [releases[m] EXCEPT !.status =
                         IF m = n THEN "published"
                         ELSE IF @ = "published" THEN "superseded" ELSE @]]
    /\ UNCHANGED <<revisions, sequence, takedown>>

Batches == UNION {[S -> 1..MaxRevisions] : S \in SUBSET Items \ {{}}}

Next ==
    \/ \E i \in Items : CreateKnowledgeRevision(i)
    \/ AbortPublication
    \/ \E batch \in Batches : PublishKnowledgeBatch(batch)
    \/ \E S \in SUBSET Items : ReadTakedown(S)
    \/ DeactivatePublishedCandidates
    \/ AbortTakedown
    \/ \E n \in DOMAIN releases : ActivateKnowledgeRelease(n)

Spec == Init /\ [][Next]_vars

-----------------------------------------------------------------------------
(* Properties.                                                              *)

\* The rows have their types and an active revision exists.
TypeOK ==
    /\ revisions \in Content
    /\ active \in Content
    /\ \A i \in Items : active[i] <= revisions[i]
    /\ releases \in Seq(Release)
    /\ Len(releases) <= MaxReleases
    /\ head \in 0..Len(releases)
    /\ sequence \in 0..MaxSequence
    /\ takedown \in SUBSET Items

\* Exactly the release the pointer names is 'published', also after any
\* number of activations of older releases and publications on top of them.
OnePublishedRelease ==
    {n \in DOMAIN releases : releases[n].status = "published"} = {head} \ {0}

\* Every recorded change starts from what its parent release served, on
\* whichever branch of the history it was published; previous_revision_id is
\* what a compensating release restores.
ChangesStartFromParent ==
    \A n \in DOMAIN releases : \A i \in DOMAIN releases[n].delta :
        releases[n].delta[i].old =
            IF releases[n].parent = 0 THEN 0
            ELSE Reconstructed[releases[n].parent][i]

\* "Arbitrary release rollback reconstructs from the nearest checkpoint plus
\* deltas atomically": what readers see is the content of one release, and
\* every release's content, rebuilt from the tables, is for ever the one it
\* was published with.
Store == INSTANCE ReleaseStore WITH
            Contents <- Content, contents <- Reconstructed, serving <- active

ImplementsReleaseStore == Store!Spec
=============================================================================
