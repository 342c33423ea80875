---------------------------- MODULE MCAgentRuns ----------------------------
(* Small instances of AgentRuns: two executors, one model with a fallback. *)
EXTENDS AgentRuns, TLC

CONSTANTS e1, e2, t1, t2, luna, terra

MCExecutors == {e1, e2}
MCTasks == {t1, t2}
MCModels == {luna, terra}
Primary == [model |-> luna, fallback |-> None]
MCProfiles == {Primary}
WithFallback == {Primary, [model |-> luna, fallback |-> terra]}
Symmetry == Permutations(MCExecutors) \cup Permutations(MCTasks)
=============================================================================
