---------------------------- MODULE PublicStats ----------------------------
(***************************************************************************)
(* The cached public statistics (domain/telemetry.ts).  Every worker keeps *)
(* at most one refresh running beside its loop (background-maintenance.ts) *)
(* and the command line may run one more; a session advisory lock lets one *)
(* of them compute, in a snapshot of the database taken after the lock.    *)
(* The connection goes back to a pool with whatever lock it still holds.   *)
(***************************************************************************)
EXTENDS Naturals

CONSTANTS
    Refreshers,    \* worker processes and the command line
    MaxRelease,    \* bound: releases activated
    MaxFaults,     \* bound: failed computations and lost connections
    None           \* no value

NoneIsNobody == None \notin Refreshers

VARIABLES
    release,       \* active_release
    cache,         \* public_stats_cache: the release counted, or None
    aged,          \* the cache is older than five minutes
    broken,        \* refresh_error_code is set
    lock,          \* the holder of the advisory lock, or None
    refresh,       \* each refresher's step and its snapshot's release
    faults         \* faults so far

vars == <<release, cache, aged, broken, lock, refresh, faults>>

Releases == 1..MaxRelease
Steps == {"idle", "wanted", "locked", "computing", "unlock"}

Init ==
    /\ release = 1 /\ cache = None /\ aged = FALSE /\ broken = FALSE
    /\ lock = None
    /\ refresh = [p \in Refreshers |-> [step |-> "idle", snapshot |-> 1]]
    /\ faults = 0

At(p, step) == refresh[p].step = step
Goes(p, step) == refresh' = [refresh EXCEPT ![p].step = step]

\* A release is activated; five minutes pass.
Activate ==
    /\ release < MaxRelease
    /\ release' = release + 1
    /\ UNCHANGED <<cache, aged, broken, lock, refresh, faults>>

Age ==
    /\ cache # None /\ ~aged
    /\ aged' = TRUE
    /\ UNCHANGED <<release, cache, broken, lock, refresh, faults>>

(***************************************************************************)
(* refreshPublicStatsCacheIfStale and refreshPublicStatsCache.             *)
(***************************************************************************)
RefreshNeeded == cache = None \/ aged \/ cache # release

Start(p) ==
    /\ At(p, "idle") /\ RefreshNeeded
    /\ Goes(p, "wanted")
    /\ UNCHANGED <<release, cache, aged, broken, lock, faults>>

\* Without the lock the present statistics will do, or there are none yet.
TryLock(p) ==
    /\ At(p, "wanted")
    /\ IF lock = None
       THEN lock' = p /\ Goes(p, "locked")
       ELSE UNCHANGED lock /\ Goes(p, "idle")
    /\ UNCHANGED <<release, cache, aged, broken, faults>>

ComputePublicStats(p) ==
    /\ At(p, "locked")
    /\ refresh' = [refresh EXCEPT ![p] = [step |-> "computing", snapshot |-> release]]
    /\ UNCHANGED <<release, cache, aged, broken, lock, faults>>

Store(p) ==
    /\ At(p, "computing")
    /\ cache' = refresh[p].snapshot
    /\ aged' = FALSE /\ broken' = FALSE
    /\ Goes(p, "unlock")
    /\ UNCHANGED <<release, lock, faults>>

AfterFailure == "unlock"

\* A query fails or takes longer than 55 seconds: the error is noted in the row there is.
Fail(p) ==
    /\ At(p, "computing") /\ faults < MaxFaults
    /\ faults' = faults + 1
    /\ broken' = (cache # None)
    /\ Goes(p, AfterFailure)
    /\ UNCHANGED <<release, cache, aged, lock>>

Unlock(p) ==
    /\ At(p, "unlock")
    /\ lock' = None
    /\ Goes(p, "idle")
    /\ UNCHANGED <<release, cache, aged, broken, faults>>

\* The process or its connection dies: the database rolls back and unlocks.
Die(p) ==
    /\ ~At(p, "idle") /\ faults < MaxFaults
    /\ faults' = faults + 1
    /\ lock' = IF lock = p THEN None ELSE lock
    /\ Goes(p, "idle")
    /\ UNCHANGED <<release, cache, aged, broken>>

Refresh(p) == Start(p) \/ TryLock(p) \/ ComputePublicStats(p) \/ Store(p) \/ Unlock(p)

Next ==
    \/ Activate \/ Age
    \/ \E p \in Refreshers : Refresh(p) \/ Fail(p) \/ Die(p)

Spec == Init /\ [][Next]_vars

\* The worker loop starts a refresh on every round, and a refresh goes on.
Fairness == \A p \in Refreshers : WF_vars(Refresh(p))

FairSpec == Spec /\ Fairness

\* The variables keep their form.
TypeOK ==
    /\ release \in Releases /\ cache \in Releases \cup {None}
    /\ aged \in BOOLEAN /\ broken \in BOOLEAN
    /\ lock \in Refreshers \cup {None}
    /\ refresh \in [Refreshers -> [step: Steps, snapshot: Releases]]
    /\ faults \in 0..MaxFaults

\* The statistics served are those of the active release again and again: no failure,
\* lost connection or busy lock leaves old ones for good.
Behind == cache # release
StatsCatchUp == Behind ~> ~Behind
=============================================================================
