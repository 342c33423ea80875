--------------------------- MODULE OperationsFeed ---------------------------
(***************************************************************************)
(* The live view of the pipeline in the operations pages: workers record   *)
(* transition events in the transactions that move the work                *)
(* (domain/pipeline-transitions.ts), a page polls them after a cursor and  *)
(* polls an overview of counters (apps/admin/src/lib/queries.ts).  New     *)
(* transitions are animated only after the overview has been fetched       *)
(* again: a transition on the page must be in its counters.                *)
(***************************************************************************)
EXTENDS Naturals, FiniteSets, FiniteSetsExt

CONSTANTS
    Writers,     \* transactions that may be open at the same time
    PageSize,    \* events a page of transitions holds (limit)
    MaxEvents,   \* bound: transition events
    Absent       \* no value

PageIsNotEmpty == PageSize \in Nat \ {0}

VARIABLES
    lastId,      \* the sequence of event ids
    open,        \* the id each writer has inserted and not committed, or Absent
    committed,   \* ids of committed events
    listing,     \* the transitions request in flight, or Absent
    shown,       \* query.data of the transitions, or Absent
    consumed,    \* cursorRef and consumedCursorRef, or Absent
    fetching,    \* the overview request in flight, or Absent
    overview,    \* the events counted in the overview on the page, or Absent
    waiting,     \* the page of transitions waiting for the overview, or Absent
    visible      \* visibleTransitions

feedVars == <<lastId, open, committed, listing, shown, consumed, fetching,
          overview, waiting, visible>>

database == <<lastId, open, committed>>

Ids == 1..MaxEvents

FeedInit ==
    /\ lastId = 0 /\ open = [w \in Writers |-> Absent] /\ committed = {}
    /\ listing = Absent /\ shown = Absent /\ consumed = Absent
    /\ fetching = Absent /\ overview = Absent
    /\ waiting = Absent /\ visible = {}

(***************************************************************************)
(* The writers.  An id is taken from the sequence when the event is        *)
(* inserted and seen when its transaction commits, in whatever order.      *)
(***************************************************************************)
RecordPipelineTransition(w) ==
    /\ open[w] = Absent /\ lastId < MaxEvents
    /\ lastId' = lastId + 1
    /\ open' = [open EXCEPT ![w] = lastId']
    /\ UNCHANGED committed

EndTransaction(w) ==
    /\ open[w] # Absent
    /\ open' = [open EXCEPT ![w] = Absent]
    /\ \/ committed' = committed \cup {open[w]}
       \/ UNCHANGED committed
    /\ UNCHANGED lastId

Write ==
    /\ \E w \in Writers : RecordPipelineTransition(w) \/ EndTransaction(w)
    /\ UNCHANGED <<listing, shown, consumed, fetching, overview, waiting, visible>>

(***************************************************************************)
(* listPipelineTransitions: without a cursor the newest id and no event,   *)
(* else the first events after it.                                         *)
(***************************************************************************)
Listed(after) ==
    IF after = Absent
    THEN [next |-> Max(committed \cup {0}), ids |-> {}]
    ELSE LET newer == {i \in committed : i > after}
             ids == {i \in newer : Cardinality({j \in newer : j < i}) < PageSize}
         IN [next |-> Max(ids \cup {after}), ids |-> ids]

PollTransitions ==
    /\ listing = Absent
    /\ listing' = [after |-> consumed, reply |-> Absent]
    /\ UNCHANGED <<shown, consumed, fetching, overview, waiting, visible>>

ServeTransitions ==
    /\ listing # Absent /\ listing.reply = Absent
    /\ listing' = [listing EXCEPT !.reply = Listed(listing.after)]
    /\ UNCHANGED <<shown, consumed, fetching, overview, waiting, visible>>

LoseTransitions ==
    /\ listing # Absent
    /\ listing' = Absent
    /\ UNCHANGED <<shown, consumed, fetching, overview, waiting, visible>>

\* Mutant: the overview request in flight is waited for, whenever it was sent.
JoinedFetch == IF fetching = Absent THEN [reply |-> Absent] ELSE fetching

\* invalidateQueries cancels the overview request in flight and sends another;
\* only the first one, while the page has no overview yet, is waited for.
Refetch == IF overview = Absent THEN JoinedFetch ELSE [reply |-> Absent]

(***************************************************************************)
(* The page arrives.  One equal to the last leaves everything as it is;    *)
(* any other ends the wait of the page before it, and starts its own when  *)
(* its cursor is new and it has events.                                    *)
(***************************************************************************)
DeliverTransitions ==
    /\ listing # Absent /\ listing.reply # Absent
    /\ listing' = Absent
    /\ LET new == listing.reply
       IN IF new = shown THEN UNCHANGED <<shown, consumed, fetching, waiting>>
          ELSE /\ shown' = new
               /\ consumed' = new.next
               /\ IF new.next # consumed /\ new.ids # {}
                  THEN /\ waiting' = new.ids
                       /\ fetching' = Refetch
                  ELSE /\ waiting' = Absent
                       /\ UNCHANGED fetching
    /\ UNCHANGED <<overview, visible>>

(***************************************************************************)
(* The overview: polled every ten seconds and whenever it is invalidated.  *)
(***************************************************************************)
PollOverview ==
    /\ fetching = Absent
    /\ fetching' = [reply |-> Absent]
    /\ UNCHANGED <<listing, shown, consumed, overview, waiting, visible>>

ServeOverview ==
    /\ fetching # Absent /\ fetching.reply = Absent
    /\ fetching' = [reply |-> committed]
    /\ UNCHANGED <<listing, shown, consumed, overview, waiting, visible>>

DeliverOverview ==
    /\ fetching # Absent /\ fetching.reply # Absent
    /\ fetching' = Absent
    /\ overview' = fetching.reply
    /\ waiting' = Absent
    /\ visible' = IF waiting = Absent THEN visible ELSE waiting
    /\ UNCHANGED <<listing, shown, consumed>>

\* Without a successful answer the page is not animated.
LoseOverview ==
    /\ fetching # Absent
    /\ fetching' = Absent
    /\ waiting' = Absent
    /\ UNCHANGED <<listing, shown, consumed, overview, visible>>

Browse ==
    /\ \/ PollTransitions \/ ServeTransitions \/ LoseTransitions \/ DeliverTransitions
       \/ PollOverview \/ ServeOverview \/ DeliverOverview \/ LoseOverview
    /\ UNCHANGED database

FeedNext == Write \/ Browse

FeedSpec == FeedInit /\ [][FeedNext]_feedVars

(***************************************************************************)
(* Properties.                                                             *)
(***************************************************************************)

\* The feed's variables keep their form.
FeedTypeOK ==
    /\ lastId \in 0..MaxEvents /\ open \in [Writers -> Ids \cup {Absent}]
    /\ committed \subseteq Ids /\ visible \subseteq Ids
    /\ overview \in {Absent} \cup SUBSET Ids
    /\ consumed \in 0..MaxEvents \cup {Absent}
    /\ waiting \in {Absent} \cup SUBSET Ids

\* "stale values must never animate": a page that has an overview begins to show
\* transitions only with an overview that counts them, in whatever order the two
\* requests are sent, answered, lost and cancelled.
AnimatedTransitionsAreCounted ==
    [][visible' # visible /\ overview # Absent => visible' \subseteq overview']_feedVars

\* The same without the exception of the page's first overview.
FirstAnimationIsCounted == overview # Absent => visible \subseteq overview
=============================================================================
