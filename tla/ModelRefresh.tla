---------------------------- MODULE ModelRefresh ----------------------------
(***************************************************************************)
(* The refresh of the catalog of models and of their prices: refreshCatalog *)
(* of src/cli/pipeline-pool.ts, refreshModelPricing and requestModelRefresh *)
(* of src/domain/pipeline-execution.ts.                                     *)
(*                                                                         *)
(* The pool discovers the models every five minutes, or when a refresh was *)
(* asked for since.  One refresh of the prices runs at a time and later    *)
(* callers wait for it, whatever they asked for.                           *)
(***************************************************************************)
EXTENDS Naturals

CONSTANTS
    MaxRequests,  \* bound on refreshes asked for
    MaxFaults     \* bound on reports that fail

BoundsAssumption == MaxRequests \in Nat /\ MaxFaults \in Nat

VARIABLES
    pool,        \* [discovering, requested, aged]: the refresh of the catalog
    prices,      \* pipeline_model_pricing: [error, aged]
    fetch,       \* the refresh of the prices that runs, or "none"
    asked,       \* asked[x]: what a request waits for, "covered" once the
                 \* refresh of x that runs began after it
    requests, faults

vars == <<pool, prices, fetch, asked, requests, faults>>

Init ==
    /\ pool = [discovering |-> FALSE, requested |-> FALSE, aged |-> TRUE]
    /\ prices = [error |-> FALSE, aged |-> TRUE]
    /\ fetch = "none"
    /\ asked = [catalog |-> "no", prices |-> "no"]
    /\ requests = 0 /\ faults = 0

Covered(x) == IF asked[x] = "yes" THEN "covered" ELSE asked[x]
Answered(x) == IF asked[x] = "covered" THEN "no" ELSE asked[x]
Unanswered(x) == IF asked[x] = "covered" THEN "yes" ELSE asked[x]

-----------------------------------------------------------------------------
(* The pool.                                                                *)

\* Mutant: the pool looks only for a request newer than its last refresh.
DueOnRequest == pool.requested

Due == pool.requested \/ pool.aged

\* One refresh at a time.
RefreshCatalog ==
    /\ ~pool.discovering /\ Due
    /\ pool' = [pool EXCEPT !.discovering = TRUE]
    /\ asked' = [asked EXCEPT !.catalog = Covered("catalog")]
    /\ UNCHANGED <<prices, fetch, requests, faults>>

\* The report is published; every request until now is older than the refresh
\* that ends now, the ones that came while it ran too.
ReportCatalog ==
    /\ pool.discovering
    /\ pool' = [discovering |-> FALSE, requested |-> FALSE, aged |-> FALSE]
    /\ asked' = [asked EXCEPT !.catalog = Answered("catalog")]
    /\ UNCHANGED <<prices, fetch, requests, faults>>

ReportFails ==
    /\ pool.discovering /\ faults < MaxFaults
    /\ pool' = [pool EXCEPT !.discovering = FALSE]
    /\ faults' = faults + 1
    /\ asked' = [asked EXCEPT !.catalog = Unanswered("catalog")]
    /\ UNCHANGED <<prices, fetch, requests>>

\* Five minutes pass after a refresh.
PoolAges ==
    /\ ~pool.discovering /\ ~pool.aged
    /\ pool' = [pool EXCEPT !.aged = TRUE]
    /\ UNCHANGED <<prices, fetch, asked, requests, faults>>

-----------------------------------------------------------------------------
(* The prices.                                                              *)

\* A caller that finds a refresh running waits for that one.
RefreshModelPricing(kind) == fetch' = IF fetch = "none" THEN kind ELSE fetch

RequestModelRefresh ==
    /\ requests < MaxRequests
    /\ requests' = requests + 1
    /\ pool' = [pool EXCEPT !.requested = TRUE]
    /\ RefreshModelPricing("forced")
    /\ asked' = [catalog |-> "yes", prices |-> "yes"]
    /\ UNCHANGED <<prices, faults>>

\* An open page asks for the models every half minute, and so for prices not
\* older than six hours.
GetExecutionModels ==
    /\ fetch = "none"
    /\ RefreshModelPricing("unforced")
    /\ UNCHANGED <<pool, prices, asked, requests, faults>>

ReadChecked ==
    /\ fetch \in {"forced", "unforced"}
    /\ IF fetch = "unforced" /\ ~prices.aged
       THEN fetch' = "none" /\ UNCHANGED asked
       ELSE /\ fetch' = "fetching"
            /\ asked' = [asked EXCEPT !.prices = Covered("prices")]
    /\ UNCHANGED <<pool, prices, requests, faults>>

\* The source has prices, or is unavailable or of another format: the page is
\* told either way.
ParseCodexPrices(found) ==
    /\ fetch = "fetching"
    /\ prices' = [error |-> ~found, aged |-> FALSE]
    /\ fetch' = "none"
    /\ asked' = [asked EXCEPT !.prices = Answered("prices")]
    /\ UNCHANGED <<pool, requests, faults>>

PricesAge ==
    /\ ~prices.aged
    /\ prices' = [prices EXCEPT !.aged = TRUE]
    /\ UNCHANGED <<pool, fetch, asked, requests, faults>>

-----------------------------------------------------------------------------

Pool == RefreshCatalog \/ ReportCatalog \/ PoolAges
Pricing == GetExecutionModels \/ ReadChecked \/ \E found \in BOOLEAN : ParseCodexPrices(found)

Next == Pool \/ ReportFails \/ Pricing \/ RequestModelRefresh \/ PricesAge

\* The pool's timer and the polls of an open page go on.
Fairness == WF_vars(Pool) /\ WF_vars(Pricing) /\ WF_vars(PricesAge)

Spec == Init /\ [][Next]_vars /\ Fairness
-----------------------------------------------------------------------------
(* Properties.                                                              *)

TypeOK ==
    /\ pool \in [discovering : BOOLEAN, requested : BOOLEAN, aged : BOOLEAN]
    /\ prices \in [error : BOOLEAN, aged : BOOLEAN]
    /\ fetch \in {"none", "forced", "unforced", "fetching"}
    /\ asked \in [{"catalog", "prices"} -> {"no", "yes", "covered"}]
    /\ requests \in 0..MaxRequests /\ faults \in 0..MaxFaults

\* A refresh asked for is answered by a catalog discovered, and by prices looked
\* up, after it was asked for, also when it came while a refresh was running.
Awaited == asked.catalog # "no" \/ asked.prices # "no"
RefreshIsAnswered == Awaited ~> ~Awaited
=============================================================================
