------------------------ MODULE ReleaseHistoryProofs ------------------------
(***************************************************************************)
(* Safety of ReleaseHistory for any items, any number of releases and any  *)
(* checkpoint interval.                                                    *)
(*                                                                         *)
(* First, the pointer and the 'published' status agree (IInv).  Then, what *)
(* the tables serve: content is rebuilt by a function that is recursive in *)
(* the history.  Every solution of its equation is the same one, because a *)
(* release is appended on top of an earlier one, and what it serves is     *)
(* thereby fixed for ever; the induction over the releases is the one over *)
(* the steps that made them (Rebuilt).                                     *)
(***************************************************************************)
EXTENDS ReleaseHistory, SequenceTheorems, TLAPS

\* The releases are rows numbered from 1, each with a status.
Rows(h, m) ==
    /\ m \in Nat
    /\ h = [n \in 1..m |-> h[n]]
    /\ Len(h) = m
    /\ \A n \in 1..m : "status" \in DOMAIN h[n]

IInv ==
    /\ Rows(releases, Len(releases))
    /\ head \in 0..Len(releases)
    /\ OnePublishedRelease

\* Appending a row to a history of rows.
LEMMA AppendRow ==
  ASSUME NEW g, NEW m \in Nat, g = [n \in 1..m |-> g[n]], NEW e
  PROVE  /\ Append(g, e) = [n \in 1..(m + 1) |-> IF n = m + 1 THEN e ELSE g[n]]
         /\ Len(Append(g, e)) = m + 1
<1> DEFINE S == {g[n] : n \in 1..m} \cup {e}
<1>1. g \in [1..m -> S]
  OBVIOUS
<1>2. g \in Seq(S) /\ Len(g) = m /\ e \in S
  BY <1>1
<1> HIDE DEF S
<1>3. /\ Append(g, e) \in Seq(S)
      /\ Len(Append(g, e)) = m + 1
      /\ \A n \in 1..m : Append(g, e)[n] = g[n]
      /\ Append(g, e)[m + 1] = e
  BY <1>2, AppendProperties
<1>4. Append(g, e) = [n \in 1..(m + 1) |-> Append(g, e)[n]]
  BY <1>3
<1> QED BY <1>3, <1>4

LEMMA InitInv == Init => IInv
<1> SUFFICES ASSUME Init PROVE IInv
  OBVIOUS
<1>1. releases = << >> /\ Len(releases) = 0 /\ head = 0
  BY DEF Init
<1>2. Rows(releases, 0)
  BY <1>1 DEF Rows
<1> QED BY <1>1, <1>2 DEF IInv, OnePublishedRelease

\* A publication supersedes the head and becomes the head.
LEMMA AppendReleaseStep ==
  ASSUME IInv, NEW delta, AppendRelease(delta)
  PROVE  IInv'
<1> DEFINE m == Len(releases)
           checkpoint == head = 0 \/ (sequence + 1) % CheckpointEvery = 0
           e == [parent |-> head,
                 mode |-> IF checkpoint THEN "checkpoint" ELSE "delta",
                 status |-> "published", delta |-> delta,
                 snapshot |-> IF checkpoint THEN Changed(delta) ELSE Nothing]
           kept == [n \in DOMAIN releases |->
                      IF n = head
                      THEN [releases[n] EXCEPT !.status = "superseded"]
                      ELSE releases[n]]
<1>1. m \in Nat /\ DOMAIN releases = 1..m /\ head \in 0..m
  BY DEF IInv, Rows
<1>2. /\ "status" \in DOMAIN e /\ e.status = "published"
      /\ releases' = Append(kept, e)
  BY DEF AppendRelease
<1> HIDE DEF e
<1>3. head' = m + 1
  BY DEF AppendRelease
<1>4. kept = [n \in 1..m |-> kept[n]]
  BY <1>1
<1>5. \A n \in 1..m :
        /\ "status" \in DOMAIN kept[n]
        /\ kept[n].status = IF n = head THEN "superseded"
                            ELSE releases[n].status
  BY <1>1 DEF IInv, Rows
<1> HIDE DEF kept
<1>6. /\ releases' = [n \in 1..(m + 1) |-> IF n = m + 1 THEN e ELSE kept[n]]
      /\ Len(releases') = m + 1
  BY <1>1, <1>2, <1>4, AppendRow
<1> HIDE DEF m
<1>7. \A n \in 1..(m + 1) :
        /\ "status" \in DOMAIN releases'[n]
        /\ n # m + 1 => n \in 1..m /\ releases'[n] = kept[n]
        /\ n = m + 1 => releases'[n].status = "published"
  BY <1>1, <1>2, <1>5, <1>6
<1>8. Rows(releases', m + 1)
  BY <1>1, <1>6, <1>7 DEF Rows
<1>9. \A n \in 1..m : releases[n].status = "published" <=> n = head
  BY <1>1 DEF IInv, OnePublishedRelease
<1>10. \A n \in 1..(m + 1) : releases'[n].status = "published" <=> n = m + 1
  BY <1>1, <1>5, <1>7, <1>9
<1> QED BY <1>1, <1>3, <1>6, <1>8, <1>10 DEF IInv, OnePublishedRelease

\* An activation publishes its release and supersedes the one it replaces.
LEMMA ActivationStep ==
  ASSUME IInv, NEW n \in DOMAIN releases, ActivateKnowledgeRelease(n)
  PROVE  IInv'
<1> DEFINE m == Len(releases)
<1>1. m \in Nat /\ DOMAIN releases = 1..m
  BY DEF IInv, Rows
<1>2. \A k \in 1..m :
        /\ "status" \in DOMAIN releases'[k]
        /\ releases'[k].status = IF k = n THEN "published"
                                 ELSE IF releases[k].status = "published"
                                 THEN "superseded" ELSE releases[k].status
  BY <1>1 DEF ActivateKnowledgeRelease, IInv, Rows
<1>3. releases' = [k \in 1..m |-> releases'[k]] /\ head' = n
  BY <1>1 DEF ActivateKnowledgeRelease
<1>4. Len(releases') = m
  BY <1>1, <1>3
<1>5. Rows(releases', m)
  BY <1>1, <1>2, <1>3, <1>4 DEF Rows
<1>6. \A k \in 1..m : releases'[k].status = "published" <=> k = n
  BY <1>2
<1> QED BY <1>1, <1>3, <1>4, <1>5, <1>6 DEF IInv, OnePublishedRelease

LEMMA NextInv == IInv /\ [Next]_vars => IInv'
<1> SUFFICES ASSUME IInv, [Next]_vars PROVE IInv'
  OBVIOUS
<1>1. CASE releases' = releases /\ head' = head
  BY <1>1 DEF IInv, Rows, OnePublishedRelease
<1>2. ASSUME NEW batch, PublishKnowledgeBatch(batch) PROVE IInv'
  BY <1>2, AppendReleaseStep DEF PublishKnowledgeBatch
<1>3. CASE DeactivatePublishedCandidates
  BY <1>3, AppendReleaseStep DEF DeactivatePublishedCandidates
<1>4. ASSUME NEW n \in DOMAIN releases, ActivateKnowledgeRelease(n)
      PROVE  IInv'
  BY <1>4, ActivationStep
<1>5. \/ UNCHANGED vars
      \/ \E i \in Items : CreateKnowledgeRevision(i)
      \/ AbortPublication
      \/ \E S \in SUBSET Items : ReadTakedown(S)
      \/ AbortTakedown
      => releases' = releases /\ head' = head
  BY DEF vars, CreateKnowledgeRevision, AbortPublication, ReadTakedown,
         AbortTakedown
<1> QED BY <1>1, <1>2, <1>3, <1>4, <1>5 DEF Next

\* Whatever is published, taken down or activated again, in whatever order,
\* the release the pointer names is the only published one
\* (publishKnowledgeBatch, publishCompensatingChanges,
\* activateKnowledgeRelease).
THEOREM PointerMatchesStatus == Spec => []OnePublishedRelease
<1>1. IInv => OnePublishedRelease
  BY DEF IInv
<1> QED BY <1>1, InitInv, NextInv, PTL DEF Spec

-----------------------------------------------------------------------------
(* What the releases serve.                                                 *)

\* g[n] is what release n of the history h serves.
Solves(g, h) ==
    g = [n \in DOMAIN h |->
           IF h[n].mode = "checkpoint" THEN h[n].snapshot
           ELSE Replay(g[h[n].parent], h[n].delta)]

LEMMA ReconstructedIs ==
  ASSUME NEW g, Solves(g, releases), \A k : Solves(k, releases) => k = g
  PROVE  Reconstructed = g
<1>1. Reconstructed = CHOOSE k : Solves(k, releases)
  BY DEF Reconstructed, Solves
<1> QED BY <1>1

LEMMA ReconstructedNext ==
  ASSUME NEW g, Solves(g, releases'), \A k : Solves(k, releases') => k = g
  PROVE  Reconstructed' = g
<1>1. Reconstructed' = CHOOSE k : Solves(k, releases')
  BY DEF Reconstructed, Solves
<1> QED BY <1>1

\* A release is made on an earlier one, the first on none, and records what its
\* parent served.
RowOk(g, h, n) ==
    /\ h[n].parent \in 0..(n - 1)
    /\ h[n].parent = 0 => h[n].mode = "checkpoint"
    /\ \A i \in DOMAIN h[n].delta :
         h[n].delta[i].old = IF h[n].parent = 0 THEN 0 ELSE g[h[n].parent][i]

\* g is what the history h serves, the only one that can be rebuilt from it.
Rebuilt(g, h) ==
    /\ Solves(g, h) /\ \A k : Solves(k, h) => k = g
    /\ g \in [1..Len(h) -> Content]
    /\ \A n \in 1..Len(h) : RowOk(g, h, n)

\* act is served with the pointer at hd, and every served revision exists.
Serves(g, act, hd, rev) ==
    /\ act = IF hd = 0 THEN Nothing ELSE g[hd]
    /\ \A n \in DOMAIN g : \A i \in Items : g[n][i] <= rev[i]

HInv ==
    /\ IInv /\ TypeOK
    /\ \E g : Rebuilt(g, releases) /\ Serves(g, active, head, revisions)

LEMMA Bounds ==
  /\ CheckpointEvery \in Nat /\ MaxRevisions \in Nat /\ MaxReleases \in Nat
  /\ MaxSequence \in Nat
BY HistoryAssumption

\* Histories that differ in nothing a content is rebuilt from.
Alike(h, k) ==
    /\ DOMAIN h = 1..Len(h) /\ DOMAIN k = 1..Len(h) /\ Len(k) = Len(h)
    /\ \A n \in 1..Len(h) :
         /\ k[n].mode = h[n].mode /\ k[n].parent = h[n].parent
         /\ k[n].snapshot = h[n].snapshot /\ k[n].delta = h[n].delta

LEMMA AlikeSolves ==
  ASSUME NEW h, NEW k, Alike(h, k), NEW g
  PROVE  Solves(g, h) <=> Solves(g, k)
<1> DEFINE H == [n \in DOMAIN h |->
                   IF h[n].mode = "checkpoint" THEN h[n].snapshot
                   ELSE Replay(g[h[n].parent], h[n].delta)]
           K == [n \in DOMAIN k |->
                   IF k[n].mode = "checkpoint" THEN k[n].snapshot
                   ELSE Replay(g[k[n].parent], k[n].delta)]
<1>1. H = K
  BY DEF Alike
<1> QED BY <1>1 DEF Solves

LEMMA AlikeRebuilt ==
  ASSUME NEW h, NEW k, Alike(h, k), NEW g, Rebuilt(g, h)
  PROVE  Rebuilt(g, k)
<1>1. Solves(g, k) /\ \A s : Solves(s, k) => s = g
  BY AlikeSolves DEF Rebuilt
<1>2. ASSUME NEW n \in 1..Len(k) PROVE RowOk(g, k, n)
  <2>1. RowOk(g, h, n) /\ n \in 1..Len(h)
    BY DEF Alike, Rebuilt
  <2> QED BY <2>1 DEF RowOk, Alike
<1> QED BY <1>1, <1>2 DEF Rebuilt, Alike

\* A release is published on top of a history.
LEMMA RebuiltAppend ==
  ASSUME NEW h, NEW g, NEW m \in Nat, Len(h) = m, DOMAIN h = 1..m, Rebuilt(g, h),
         NEW e, NEW k, DOMAIN k = 1..(m + 1), Len(k) = m + 1, k[m + 1] = e,
         \A n \in 1..m : /\ k[n].mode = h[n].mode /\ k[n].parent = h[n].parent
                         /\ k[n].snapshot = h[n].snapshot /\ k[n].delta = h[n].delta,
         NEW c \in Content, e.parent \in 0..m,
         e.mode = "checkpoint" => e.snapshot = c,
         e.mode # "checkpoint" => e.parent # 0 /\ Replay(g[e.parent], e.delta) = c,
         \A i \in DOMAIN e.delta :
           e.delta[i].old = IF e.parent = 0 THEN 0 ELSE g[e.parent][i]
  PROVE  Rebuilt([n \in 1..(m + 1) |-> IF n = m + 1 THEN c ELSE g[n]], k)
<1> DEFINE G == [n \in 1..(m + 1) |-> IF n = m + 1 THEN c ELSE g[n]]
           R(s, n) == IF k[n].mode = "checkpoint" THEN k[n].snapshot
                      ELSE Replay(s[k[n].parent], k[n].delta)
           Q(s, n) == IF h[n].mode = "checkpoint" THEN h[n].snapshot
                      ELSE Replay(s[h[n].parent], h[n].delta)
<1>1. g \in [1..m -> Content] /\ \A n \in 1..m : RowOk(g, h, n)
  BY DEF Rebuilt
<1>2. \A n \in 1..m : g[n] = Q(g, n)
  <2>1. g = [n \in 1..m |-> Q(g, n)]
    BY DEF Rebuilt, Solves
  <2> HIDE DEF Q
  <2> QED BY <2>1
<1>3. \A n \in 1..m : n \in 1..(m + 1) /\ n # m + 1 /\ G[n] = g[n]
  OBVIOUS
<1>4. G[m + 1] = c /\ m + 1 \in 1..(m + 1)
  OBVIOUS
<1> HIDE DEF G
<1>5. ASSUME NEW s, \A n \in 1..m : s[n] = g[n], NEW n \in 1..m
      PROVE  R(s, n) = g[n]
  <2>1. h[n].mode # "checkpoint" => h[n].parent \in 1..m
    BY <1>1 DEF RowOk
  <2>2. R(s, n) = Q(g, n)
    BY <1>5, <2>1
  <2> QED BY <1>2, <2>2
<1>6. ASSUME NEW s, \A n \in 1..m : s[n] = g[n] PROVE R(s, m + 1) = c
  <2>1. e.mode # "checkpoint" => s[e.parent] = g[e.parent]
    BY <1>6
  <2> QED BY <2>1
<1>7. Solves(G, k)
  <2>1. \A n \in 1..(m + 1) : n \in 1..m \/ n = m + 1
    OBVIOUS
  <2>2. ASSUME NEW n \in 1..(m + 1) PROVE G[n] = R(G, n)
    BY <1>3, <1>4, <1>5, <1>6, <2>1
  <2>3. G = [n \in 1..(m + 1) |-> G[n]]
    BY DEF G
  <2> HIDE DEF R
  <2>4. G = [n \in 1..(m + 1) |-> R(G, n)]
    BY <2>2, <2>3
  <2> QED BY <2>4 DEF Solves, R
<1>8. ASSUME NEW s, Solves(s, k) PROVE s = G
  <2>1. s = [n \in 1..(m + 1) |-> R(s, n)]
    BY <1>8 DEF Solves
  <2> DEFINE t == [n \in 1..m |-> s[n]]
  <2>2. ASSUME NEW n \in 1..m PROVE t[n] = Q(t, n)
    <3>1. s[n] = R(s, n) /\ t[n] = s[n]
      <4> HIDE DEF R
      <4> QED BY <1>3, <2>1
    <3>2. h[n].mode # "checkpoint" => h[n].parent \in 1..m
      BY <1>1 DEF RowOk
    <3>3. h[n].mode # "checkpoint" => t[h[n].parent] = s[h[n].parent]
      BY <3>2
    <3> HIDE DEF t
    <3> QED BY <3>1, <3>3
  <2>3. Solves(t, h)
    <3>1. t = [n \in 1..m |-> t[n]]
      OBVIOUS
    <3> HIDE DEF t, Q
    <3>2. t = [n \in 1..m |-> Q(t, n)]
      BY <2>2, <3>1
    <3> QED BY <3>2 DEF Solves, Q
  <2>4. t = g
    BY <2>3 DEF Rebuilt
  <2>5. \A n \in 1..m : s[n] = g[n]
    BY <2>4
  <2>6. s[m + 1] = c
    <3>1. s[m + 1] = R(s, m + 1)
      <4> HIDE DEF R
      <4> QED BY <1>4, <2>1
    <3> QED BY <1>6, <2>5, <3>1
  <2>7. s = [n \in 1..(m + 1) |-> s[n]]
    <3> HIDE DEF R
    <3> QED BY <2>1
  <2> QED BY <2>5, <2>6, <2>7 DEF G
<1>9. G \in [1..(m + 1) -> Content]
  BY <1>1 DEF G
<1>10. ASSUME NEW n \in 1..(m + 1) PROVE RowOk(G, k, n)
  <2>1. CASE n = m + 1
    <3>1. e.parent # 0 => e.parent \in 1..m
      OBVIOUS
    <3> QED BY <1>3, <2>1, <3>1 DEF RowOk
  <2>2. CASE n # m + 1
    <3>1. n \in 1..m /\ RowOk(g, h, n)
      BY <1>1, <2>2
    <3>2. h[n].parent # 0 => h[n].parent \in 1..m
      BY <3>1 DEF RowOk
    <3> QED BY <1>3, <3>1, <3>2 DEF RowOk
  <2> QED BY <2>1, <2>2
<1> QED BY <1>7, <1>8, <1>9, <1>10 DEF Rebuilt, G

\* A release keeps its type with another status.
LEMMA Restated ==
  ASSUME NEW r \in Release, NEW x \in {"published", "superseded"}
  PROVE  LET q == [r EXCEPT !.status = x]
         IN  /\ q \in Release /\ q.status = x /\ q.parent = r.parent
             /\ q.mode = r.mode /\ q.delta = r.delta /\ q.snapshot = r.snapshot
BY DEF Release

LEMMA HistoryRows ==
  ASSUME TypeOK
  PROVE  /\ Len(releases) \in Nat /\ DOMAIN releases = 1..Len(releases)
         /\ \A n \in 1..Len(releases) : releases[n] \in Release
BY DEF TypeOK

\* What AppendRelease appends, and that a publication publishes a content.
LEMMA AppendHistory ==
  ASSUME HInv, NEW delta \in Delta, AppendRelease(delta),
         UNCHANGED revisions, takedown' \in SUBSET Items,
         \A i \in DOMAIN delta : /\ delta[i].old = active[i]
                                 /\ delta[i].new <= revisions[i]
  PROVE  /\ HInv'
         /\ \E c \in Content : Reconstructed' = Append(Reconstructed, c) /\ active' = c
                               /\ head' = Len(Reconstructed) + 1
<1> DEFINE m == Len(releases)
           checkpoint == head = 0 \/ (sequence + 1) % CheckpointEvery = 0
           c == Changed(delta)
           e == [parent |-> head,
                 mode |-> IF checkpoint THEN "checkpoint" ELSE "delta",
                 status |-> "published", delta |-> delta,
                 snapshot |-> IF checkpoint THEN c ELSE Nothing]
           kept == [n \in DOMAIN releases |->
                      IF n = head
                      THEN [releases[n] EXCEPT !.status = "superseded"]
                      ELSE releases[n]]
           k == Append(kept, e)
<1>1. IInv /\ TypeOK /\ m \in Nat /\ DOMAIN releases = 1..m /\ head \in 0..m
  BY HistoryRows DEF HInv, TypeOK
<1>2. PICK g : Rebuilt(g, releases) /\ Serves(g, active, head, revisions)
  BY DEF HInv
<1>3. /\ releases' = k /\ active' = c /\ head' = m + 1 /\ sequence' = sequence + 1
      /\ m < MaxReleases /\ sequence < MaxSequence
  BY DEF AppendRelease
<1>4. DOMAIN delta \subseteq Items /\ \A i \in DOMAIN delta : delta[i] \in Change
  BY DEF Delta
<1>5. c \in Content /\ \A i \in Items : c[i] <= revisions[i]
  <2>1. ASSUME NEW i \in Items
        PROVE  /\ c[i] \in 0..MaxRevisions
               /\ c[i] <= revisions[i]
    BY <1>1, <1>4 DEF TypeOK, Content, Change, Changed
  <2> QED BY <2>1 DEF Content, Changed
<1>6. Nothing \in Content
  BY Bounds DEF Nothing, Content
<1>7. /\ e \in Release /\ e.parent = head /\ e.delta = delta
      /\ e.mode = "checkpoint" => e.snapshot = c
      /\ e.mode # "checkpoint" => head # 0
  <2>1. head \in 0..MaxReleases
    BY <1>1, <1>3, Bounds
  <2> HIDE DEF c
  <2> QED BY <1>5, <1>6, <2>1 DEF Release
<1>8. \A n \in 1..m : releases[n] \in Release
  BY <1>1, HistoryRows
<1>9. \A n \in 1..m :
        /\ kept[n] \in Release
        /\ kept[n].mode = releases[n].mode /\ kept[n].parent = releases[n].parent
        /\ kept[n].snapshot = releases[n].snapshot /\ kept[n].delta = releases[n].delta
  BY <1>1, <1>8, Restated
<1>10. kept = [n \in 1..m |-> kept[n]]
  BY <1>1
<1> HIDE DEF kept, e, c
<1>11. /\ k = [n \in 1..(m + 1) |-> IF n = m + 1 THEN e ELSE kept[n]]
       /\ Len(k) = m + 1
  BY <1>1, <1>10, AppendRow
<1> HIDE DEF k, m
<1>12. DOMAIN k = 1..(m + 1) /\ k[m + 1] = e /\ \A n \in 1..m : k[n] = kept[n]
  BY <1>1, <1>11
<1>13. k \in Seq(Release)
  <2>1. \A n \in 1..(m + 1) : n \in 1..m \/ n = m + 1
    BY <1>1
  <2>2. \A n \in 1..(m + 1) : k[n] \in Release
    BY <1>7, <1>9, <1>12, <2>1
  <2>3. k = [n \in 1..(m + 1) |-> k[n]]
    BY <1>11
  <2>4. k \in [1..(m + 1) -> Release]
    BY <2>2, <2>3
  <2> QED BY <1>1, <2>4
<1>14. TypeOK'
  <2>1. revisions' = revisions /\ head' \in 0..Len(releases')
    BY <1>1, <1>3, <1>11
  <2>2. Len(releases') <= MaxReleases /\ sequence' \in 0..MaxSequence
    BY <1>1, <1>3, <1>11, Bounds DEF TypeOK
  <2> QED BY <1>1, <1>3, <1>5, <1>13, <2>1, <2>2 DEF TypeOK
<1>15. IInv'
  BY <1>1, AppendReleaseStep
<1> DEFINE G == [n \in 1..(m + 1) |-> IF n = m + 1 THEN c ELSE g[n]]
<1>16. g \in [1..m -> Content] /\ (active = IF head = 0 THEN Nothing ELSE g[head])
       /\ \A n \in 1..m : \A i \in Items : g[n][i] <= revisions[i]
  BY <1>2 DEF Rebuilt, Serves, m
<1>17. /\ e.parent \in 0..m
       /\ e.mode # "checkpoint" => e.parent # 0 /\ Replay(g[e.parent], e.delta) = c
       /\ \A i \in DOMAIN e.delta :
            e.delta[i].old = IF e.parent = 0 THEN 0 ELSE g[e.parent][i]
  <2>1. head # 0 => Replay(g[head], delta) = c
    BY <1>16 DEF Replay, Changed, c
  <2>2. \A i \in DOMAIN delta :
          delta[i].old = IF head = 0 THEN 0 ELSE g[head][i]
    BY <1>4, <1>16 DEF Nothing
  <2> QED BY <1>1, <1>7, <2>1, <2>2
<1>18. Rebuilt(G, k)
  <2>1. \A n \in 1..m :
          /\ k[n].mode = releases[n].mode /\ k[n].parent = releases[n].parent
          /\ k[n].snapshot = releases[n].snapshot /\ k[n].delta = releases[n].delta
    BY <1>9, <1>12
  <2>2. Len(releases) = m /\ Len(k) = m + 1
    BY <1>11 DEF m
  <2> QED BY <1>1, <1>2, <1>5, <1>7, <1>12, <1>17, <2>1, <2>2, RebuiltAppend
<1>19. Serves(G, active', head', revisions')
  <2>1. G[m + 1] = c /\ m + 1 # 0 /\ DOMAIN G = 1..(m + 1)
    BY <1>1
  <2>2. ASSUME NEW n \in 1..(m + 1), NEW i \in Items PROVE G[n][i] <= revisions'[i]
    <3>1. n = m + 1 \/ n \in 1..m
      BY <1>1
    <3>2. G[n] = IF n = m + 1 THEN c ELSE g[n]
      OBVIOUS
    <3>3. revisions' = revisions
      OBVIOUS
    <3> HIDE DEF G
    <3> QED BY <1>5, <1>16, <3>1, <3>2, <3>3
  <2> HIDE DEF G
  <2> QED BY <1>3, <2>1, <2>2 DEF Serves
<1>20. HInv'
  <2> HIDE DEF G
  <2> QED BY <1>3, <1>14, <1>15, <1>18, <1>19 DEF HInv
<1>21. Reconstructed = g /\ Reconstructed' = G
  BY <1>2, <1>3, <1>18, ReconstructedIs, ReconstructedNext DEF Rebuilt
<1>22. G = Append(g, c) /\ Len(g) = m
  BY <1>1, <1>16, AppendRow
<1> QED BY <1>3, <1>5, <1>20, <1>21, <1>22

\* A release is activated.
LEMMA ActivateHistory ==
  ASSUME HInv, NEW n \in DOMAIN releases, ActivateKnowledgeRelease(n)
  PROVE  HInv' /\ Reconstructed' = Reconstructed /\ n \in 1..Len(Reconstructed)
<1> DEFINE m == Len(releases)
           k == [j \in DOMAIN releases |->
                   [releases[j] EXCEPT !.status =
                      IF j = n THEN "published"
                      ELSE IF @ = "published" THEN "superseded" ELSE @]]
<1>1. IInv /\ TypeOK /\ m \in Nat /\ DOMAIN releases = 1..m
      /\ \A j \in 1..m : releases[j] \in Release
  BY HistoryRows DEF HInv
<1>2. PICK g : Rebuilt(g, releases) /\ Serves(g, active, head, revisions)
  BY DEF HInv
<1>3. releases' = k /\ head' = n /\ active' = Reconstructed[n]
      /\ UNCHANGED <<revisions, sequence, takedown>>
  BY DEF ActivateKnowledgeRelease
<1>4. \A j \in 1..m :
        /\ k[j] \in Release
        /\ k[j].mode = releases[j].mode /\ k[j].parent = releases[j].parent
        /\ k[j].snapshot = releases[j].snapshot /\ k[j].delta = releases[j].delta
  <2>1. ASSUME NEW j \in 1..m
        PROVE  \E x \in {"published", "superseded"} :
                 k[j] = [releases[j] EXCEPT !.status = x]
    <3>1. releases[j].status \in {"published", "superseded"}
      BY <1>1 DEF Release
    <3> QED BY <1>1, <3>1
  <2>2. ASSUME NEW j \in 1..m
        PROVE  /\ k[j] \in Release /\ k[j].mode = releases[j].mode
               /\ k[j].parent = releases[j].parent
               /\ k[j].snapshot = releases[j].snapshot /\ k[j].delta = releases[j].delta
    <3>1. PICK x \in {"published", "superseded"} :
            k[j] = [releases[j] EXCEPT !.status = x]
      BY <2>1
    <3>2. releases[j] \in Release
      BY <1>1
    <3> DEFINE r == releases[j]
               q == [r EXCEPT !.status = x]
    <3> HIDE DEF r
    <3>3. /\ q \in Release /\ q.mode = r.mode /\ q.parent = r.parent
          /\ q.snapshot = r.snapshot /\ q.delta = r.delta
      BY <3>2, Restated DEF r
    <3> HIDE DEF k, q
    <3> QED BY <3>1, <3>3 DEF r, q
  <2> HIDE DEF k
  <2> QED BY <2>2
<1>5. k \in [1..m -> Release]
  <2>1. k = [j \in 1..m |-> k[j]]
    BY <1>1
  <2> HIDE DEF k
  <2> QED BY <1>4, <2>1
<1> HIDE DEF k, m
<1>6. k \in Seq(Release) /\ Len(k) = m /\ DOMAIN k = 1..m
  BY <1>1, <1>5
<1>7. Alike(releases, k)
  BY <1>1, <1>4, <1>6 DEF Alike, m
<1>8. Rebuilt(g, k)
  BY <1>2, <1>7, AlikeRebuilt
<1>9. Reconstructed = g /\ Reconstructed' = g
  BY <1>2, <1>3, <1>8, ReconstructedIs, ReconstructedNext DEF Rebuilt
<1>10. g \in [1..m -> Content] /\ n \in 1..m /\ n # 0
  BY <1>1, <1>2 DEF Rebuilt, m
<1>11. Serves(g, active', head', revisions')
  BY <1>2, <1>3, <1>9, <1>10 DEF Serves
<1>12. TypeOK'
  <2>1. g[n] \in Content /\ \A i \in Items : g[n][i] <= revisions[i]
    BY <1>2, <1>10 DEF Serves
  <2> QED BY <1>1, <1>3, <1>6, <1>9, <1>10, <2>1 DEF TypeOK, m
<1>13. IInv'
  BY <1>1, ActivationStep
<1>14. HInv'
  BY <1>3, <1>8, <1>11, <1>12, <1>13 DEF HInv
<1>15. Len(g) = m
  BY <1>1, <1>10
<1> QED BY <1>9, <1>10, <1>14, <1>15

\* The changes of a batch or of a takedown start from the active state.
LEMMA ChangesDelta ==
  ASSUME TypeOK, NEW target, DOMAIN target \subseteq Items,
         \A i \in DOMAIN target : target[i] \in 0..revisions[i]
  PROVE  LET delta == Changes(target)
         IN  /\ delta \in Delta
             /\ \A i \in DOMAIN delta : /\ delta[i].old = active[i]
                                        /\ delta[i].new <= revisions[i]
<1> DEFINE S == {i \in DOMAIN target : active[i] # target[i]}
           row(i) == [old |-> active[i], new |-> target[i]]
           delta == [i \in S |-> row(i)]
<1>1. delta = Changes(target)
  BY DEF Changes
<1>2. S \in SUBSET Items
  OBVIOUS
<1>3. ASSUME NEW i \in S
      PROVE  row(i) \in Change /\ row(i).old = active[i] /\ row(i).new <= revisions[i]
  <2>1. i \in Items /\ target[i] \in 0..revisions[i]
    OBVIOUS
  <2>2. revisions[i] \in 0..MaxRevisions /\ active[i] \in 0..MaxRevisions
    BY <2>1 DEF TypeOK, Content
  <2>3. target[i] \in 0..MaxRevisions /\ target[i] <= revisions[i]
    BY <2>1, <2>2, Bounds
  <2> QED BY <2>2, <2>3 DEF Change
<1> HIDE DEF S, row
<1>4. delta \in [S -> Change]
  BY <1>3
<1>5. delta \in Delta
  BY <1>2, <1>4 DEF Delta
<1>6. \A i \in DOMAIN delta : i \in S /\ delta[i] = row(i)
  OBVIOUS
<1> HIDE DEF delta
<1> QED BY <1>1, <1>3, <1>5, <1>6

\* What a step does to the served contents.
Publishes ==
    \E c \in Content : Reconstructed' = Append(Reconstructed, c) /\ active' = c
                       /\ head' = Len(Reconstructed) + 1
Activates ==
    \E n \in 1..Len(Reconstructed) :
      head' = n /\ active' = Reconstructed[n] /\ Reconstructed' = Reconstructed

LEMMA HistoryInit == Init => HInv /\ Reconstructed = <<>>
<1> SUFFICES ASSUME Init PROVE HInv /\ Reconstructed = <<>>
  OBVIOUS
<1>1. IInv
  BY InitInv
<1>2. /\ releases = <<>> /\ Len(releases) = 0 /\ DOMAIN releases = {}
      /\ head = 0 /\ active = Nothing /\ revisions = Nothing /\ sequence = 0
      /\ takedown = {}
  BY DEF Init
<1>3. Nothing \in Content /\ \A i \in Items : Nothing[i] = 0
  BY Bounds DEF Nothing, Content
<1>4. TypeOK
  <2>1. releases \in Seq(Release)
    BY <1>2
  <2>2. 0 \in 0..0 /\ 0 \in 0..MaxSequence /\ 0 <= MaxReleases /\ 0 <= 0
    BY Bounds
  <2> QED BY <1>2, <1>3, <2>1, <2>2 DEF TypeOK
<1>5. Rebuilt(<<>>, releases)
  <2>1. \A k : Solves(k, releases) <=> k = <<>>
    BY <1>2 DEF Solves
  <2>2. <<>> \in [1..0 -> Content] /\ 1..0 = {}
    OBVIOUS
  <2> QED BY <1>2, <2>1, <2>2 DEF Rebuilt
<1>6. Serves(<<>>, active, head, revisions)
  BY <1>2 DEF Serves
<1>7. Reconstructed = <<>>
  BY <1>5, ReconstructedIs DEF Rebuilt
<1> QED BY <1>1, <1>4, <1>5, <1>6, <1>7 DEF HInv

\* A step that leaves the releases and the active state alone.
LEMMA QuietStep ==
  ASSUME HInv, IInv', TypeOK', UNCHANGED <<releases, active, head>>,
         \A i \in Items : revisions[i] <= revisions'[i]
  PROVE  HInv' /\ Reconstructed' = Reconstructed
<1>1. PICK g : Rebuilt(g, releases) /\ Serves(g, active, head, revisions)
  BY DEF HInv
<1>2. Rebuilt(g, releases')
  BY <1>1
<1>3. Serves(g, active', head', revisions')
  <2>1. ASSUME NEW n \in DOMAIN g, NEW i \in Items PROVE g[n][i] <= revisions'[i]
    <3>1. g[n][i] \in Nat /\ revisions[i] \in Nat /\ revisions'[i] \in Nat
      <4>1. g[n] \in Content
        BY <1>1 DEF Rebuilt
      <4>2. revisions \in Content /\ revisions' \in Content
        BY DEF HInv, TypeOK
      <4> QED BY <4>1, <4>2, Bounds DEF Content
    <3>2. g[n][i] <= revisions[i] /\ revisions[i] <= revisions'[i]
      BY <1>1 DEF Serves
    <3> QED BY <3>1, <3>2
  <2> QED BY <1>1, <2>1 DEF Serves
<1>4. Reconstructed = g /\ Reconstructed' = g
  BY <1>1, <1>2, ReconstructedIs, ReconstructedNext DEF Rebuilt
<1> QED BY <1>2, <1>3, <1>4 DEF HInv

LEMMA HistoryNext ==
  HInv /\ [Next]_vars =>
    HInv' /\ (Publishes \/ Activates \/ UNCHANGED <<Reconstructed, head, active>>)
<1> SUFFICES ASSUME HInv, [Next]_vars
             PROVE  /\ HInv'
                    /\ Publishes \/ Activates \/ UNCHANGED <<Reconstructed, head, active>>
  OBVIOUS
<1>1. IInv' /\ TypeOK
  BY NextInv DEF HInv
<1>2. ASSUME NEW batch \in Batches, PublishKnowledgeBatch(batch)
      PROVE  HInv' /\ Publishes
  <2>1. DOMAIN batch \subseteq Items
    BY DEF Batches
  <2>2. \A i \in DOMAIN batch : batch[i] \in 0..revisions[i]
    <3>1. ASSUME NEW i \in DOMAIN batch PROVE batch[i] \in 0..revisions[i]
      <4>1. batch[i] \in 1..revisions[i] /\ revisions[i] \in Nat
        BY <1>1, <1>2, <2>1, Bounds DEF PublishKnowledgeBatch, TypeOK, Content
      <4> QED BY <4>1
    <3> QED BY <3>1
  <2> DEFINE delta == Changes(batch)
  <2>3. delta \in Delta /\ \A i \in DOMAIN delta : /\ delta[i].old = active[i]
                                                  /\ delta[i].new <= revisions[i]
    BY <1>1, <2>1, <2>2, ChangesDelta
  <2>4. AppendRelease(delta) /\ UNCHANGED revisions /\ takedown' \in SUBSET Items
    BY <1>1, <1>2 DEF PublishKnowledgeBatch, TypeOK
  <2> HIDE DEF delta
  <2> QED BY <2>3, <2>4, AppendHistory DEF Publishes
<1>3. ASSUME DeactivatePublishedCandidates PROVE HInv' /\ Publishes
  <2> DEFINE target == [i \in takedown |-> 0]
             delta == Changes(target)
  <2>1. DOMAIN target \subseteq Items /\ \A i \in DOMAIN target : target[i] \in 0..revisions[i]
    BY <1>1, Bounds DEF TypeOK, Content
  <2> HIDE DEF target
  <2>2. delta \in Delta /\ \A i \in DOMAIN delta : /\ delta[i].old = active[i]
                                                  /\ delta[i].new <= revisions[i]
    BY <1>1, <2>1, ChangesDelta
  <2>3. AppendRelease(delta) /\ UNCHANGED revisions /\ takedown' \in SUBSET Items
    BY <1>3 DEF DeactivatePublishedCandidates, target
  <2> HIDE DEF delta
  <2> QED BY <2>2, <2>3, AppendHistory DEF Publishes
<1>4. ASSUME NEW n \in DOMAIN releases, ActivateKnowledgeRelease(n)
      PROVE  HInv' /\ Activates
  <2>1. HInv' /\ Reconstructed' = Reconstructed /\ n \in 1..Len(Reconstructed)
    BY <1>4, ActivateHistory
  <2> QED BY <1>4, <2>1 DEF ActivateKnowledgeRelease, Activates
<1>5. ASSUME \/ UNCHANGED vars
             \/ \E i \in Items : CreateKnowledgeRevision(i)
             \/ AbortPublication
             \/ \E S \in SUBSET Items : ReadTakedown(S)
             \/ AbortTakedown
      PROVE  HInv' /\ UNCHANGED <<Reconstructed, head, active>>
  <2>1. UNCHANGED <<releases, active, head>>
    BY <1>5 DEF vars, CreateKnowledgeRevision, AbortPublication, ReadTakedown,
                AbortTakedown
  <2>2. revisions' \in Content /\ \A i \in Items : revisions[i] <= revisions'[i]
    <3>1. revisions \in Content /\ \A i \in Items : revisions[i] \in Nat
      BY <1>1, Bounds DEF TypeOK, Content
    <3>2. CASE UNCHANGED revisions
      BY <3>1, <3>2
    <3>3. ASSUME NEW i \in Items, CreateKnowledgeRevision(i)
          PROVE  revisions' \in Content /\ \A j \in Items : revisions[j] <= revisions'[j]
      <4>1. revisions[i] + 1 \in 0..MaxRevisions
        BY <3>1, <3>3, Bounds DEF CreateKnowledgeRevision
      <4>2. \A j \in Items : revisions'[j] = IF j = i THEN revisions[j] + 1 ELSE revisions[j]
        BY <3>1, <3>3 DEF CreateKnowledgeRevision, Content
      <4>3. revisions' \in Content
        BY <3>1, <3>3, <4>1 DEF CreateKnowledgeRevision, Content
      <4> QED BY <3>1, <4>2, <4>3
    <3> QED BY <1>5, <3>2, <3>3 DEF vars, AbortPublication, ReadTakedown, AbortTakedown
  <2>3. takedown' \in SUBSET Items /\ sequence' \in 0..MaxSequence
    BY <1>1, <1>5, Bounds
       DEF TypeOK, vars, CreateKnowledgeRevision, AbortPublication, ReadTakedown,
           AbortTakedown
  <2>4. TypeOK'
    <3>1. \A i \in Items : active[i] <= revisions'[i]
      <4>1. ASSUME NEW i \in Items PROVE active[i] <= revisions'[i]
        <5>1. active[i] \in Nat /\ revisions[i] \in Nat /\ revisions'[i] \in Nat
              /\ active[i] <= revisions[i] /\ revisions[i] <= revisions'[i]
          BY <1>1, <2>2, Bounds DEF TypeOK, Content
        <5> QED BY <5>1
      <4> QED BY <4>1
    <3> QED BY <1>1, <2>1, <2>2, <2>3, <3>1 DEF TypeOK
  <2>5. HInv' /\ Reconstructed' = Reconstructed
    BY <1>1, <2>1, <2>2, <2>4, QuietStep
  <2> QED BY <2>1, <2>5
<1>6. QED
  BY <1>2, <1>3, <1>4, <1>5 DEF Next

-----------------------------------------------------------------------------
(* The theorems.                                                            *)

LEMMA HistoryHolds == Spec => []HInv
<1>1. HInv /\ [Next]_vars => HInv'
  BY HistoryNext
<1> QED BY <1>1, HistoryInit, PTL DEF Spec

\* The rows have their types and every active revision exists, also after an
\* old release is activated.
THEOREM TypeCorrect == Spec => []TypeOK
<1>1. HInv => TypeOK
  BY DEF HInv
<1> QED BY <1>1, HistoryHolds, PTL

\* previous_revision_id of every release_changes row is what the parent release
\* served, on whichever branch of the history the release was published.
THEOREM ChangesAreFromParent == Spec => []ChangesStartFromParent
<1>1. HInv => ChangesStartFromParent
  <2> SUFFICES ASSUME HInv PROVE ChangesStartFromParent
    OBVIOUS
  <2>1. PICK g : Rebuilt(g, releases)
    BY DEF HInv
  <2>2. Reconstructed = g
    BY <2>1, ReconstructedIs DEF Rebuilt
  <2>3. DOMAIN releases = 1..Len(releases)
    BY HistoryRows DEF HInv
  <2> QED BY <2>1, <2>2, <2>3 DEF Rebuilt, RowOk, ChangesStartFromParent
<1> QED BY <1>1, HistoryHolds, PTL

\* The release tables implement ReleaseStore: the content rebuilt from the
\* nearest checkpoint and the deltas after it is for ever what the release was
\* published with, and readers see the content of exactly one release.
THEOREM Refinement == Spec => ImplementsReleaseStore
<1>1. Init => Store!Init
  BY HistoryInit, Bounds DEF Store!Init, Init, Content, Nothing
<1>2. HInv /\ [Next]_vars => [Store!Next]_Store!vars
  <2> SUFFICES ASSUME HInv, [Next]_vars PROVE [Store!Next]_Store!vars
    OBVIOUS
  <2>1. CASE Publishes
    BY <2>1 DEF Publishes, Store!Next, Store!Publish
  <2>2. CASE Activates
    BY <2>2 DEF Activates, Store!Next, Store!Activate
  <2>3. CASE UNCHANGED <<Reconstructed, head, active>>
    BY <2>3 DEF Store!vars
  <2> QED BY <2>1, <2>2, <2>3, HistoryNext
<1> QED BY <1>1, <1>2, HistoryHolds, PTL DEF Spec, Store!Spec, ImplementsReleaseStore
=============================================================================
