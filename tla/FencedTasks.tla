---------------------------- MODULE FencedTasks ----------------------------
(***************************************************************************)
(* What the pipeline queue promises to everything that queues work on it,  *)
(* whatever happens to executors, leases, pauses and retries.              *)
(*                                                                         *)
(* A task is opened at most once per row, and only while no other open     *)
(* task has its dedupe key.  An open task is granted to one claimant after *)
(* another.  It is closed once: either by accepting the result of the      *)
(* claim that was granted last, or without a result.  Nothing happens to a *)
(* closed task any more.                                                   *)
(***************************************************************************)
EXTENDS Naturals

CONSTANTS
    Tasks,      \* the task rows
    KeyOf       \* KeyOf[t] is the dedupe key of row t

VARIABLES
    phase,      \* phase[t]  : "absent", "open" or "closed"
    granted,    \* granted[t]: how many claims of t were granted
    winner      \* winner[t] : the claim whose result closed t, 0 if none

vars == <<phase, granted, winner>>

Init ==
    /\ phase = [t \in Tasks |-> "absent"]
    /\ granted = [t \in Tasks |-> 0]
    /\ winner = [t \in Tasks |-> 0]

Open(t) ==
    /\ phase[t] = "absent"
    /\ \A u \in Tasks : KeyOf[u] = KeyOf[t] => phase[u] # "open"
    /\ phase' = [phase EXCEPT ![t] = "open"]
    /\ UNCHANGED <<granted, winner>>

Grant(t) ==
    /\ phase[t] = "open"
    /\ granted' = [granted EXCEPT ![t] = @ + 1]
    /\ UNCHANGED <<phase, winner>>

\* Only the latest claim can win, and winning closes the task.
Accept(t) ==
    /\ phase[t] = "open"
    /\ granted[t] > 0
    /\ phase' = [phase EXCEPT ![t] = "closed"]
    /\ winner' = [winner EXCEPT ![t] = granted[t]]
    /\ UNCHANGED granted

\* Any number of open tasks given up together.
Abandon(S) ==
    /\ \A t \in S : phase[t] = "open"
    /\ phase' = [t \in Tasks |-> IF t \in S THEN "closed" ELSE phase[t]]
    /\ UNCHANGED <<granted, winner>>

Next ==
    \/ \E t \in Tasks : Open(t) \/ Grant(t) \/ Accept(t)
    \/ \E S \in SUBSET Tasks : Abandon(S)

Spec == Init /\ [][Next]_vars
=============================================================================
