----------------------- MODULE MCCandidateLifecycle -----------------------
(* Instances of CandidateLifecycle for TLC.                                 *)
EXTENDS CandidateLifecycle, TLC

\* A free task row is the same whatever it held.
View == <<cand, served, run, faults,
          [k \in TaskIds |-> IF Free(k) THEN "free" ELSE task[k]]>>

Symmetry == Permutations(Candidates) \cup Permutations(Workers)
=============================================================================
