-------------------------- MODULE MCPipelineLease --------------------------
(* Instances of PipelineLease for TLC.                                      *)
EXTENDS PipelineLease

CONSTANTS deep, diagnosis, convert

\* A mechanical task competes with the deep review for one dedupe key.
MCKeyOf == [t \in Tasks |-> IF t = diagnosis THEN 2 ELSE 1]

\* Two AI tasks with keys of their own compete for capacity.
MCOwnKeys == [t \in Tasks |-> t]
=============================================================================
