--------------------------- MODULE CaseWorkbench ---------------------------
(***************************************************************************)
(* The network evidence workbench of the public demo                       *)
(* (apps/admin/src/webmcp).  One page keeps one case: a question, device   *)
(* evidence and a context, with what was derived from them: the snapshot   *)
(* analysis, the search results, the browser agent's analysis, and the     *)
(* tracked research task.  A person and a browser agent work on it at the  *)
(* same time, every operation awaits the server, and any edit makes a new  *)
(* case version and aborts the requests in flight.                         *)
(*                                                                         *)
(* The page's state exists three times: the updates React has queued (ui), *)
(* the committed copy the operations read (liveRef, here live), and the    *)
(* version the answers are checked against (caseVersionRef, here           *)
(* versionRef), which is written at once.  A person's edit is a discrete   *)
(* event: React commits it before any other task runs.  An update made by  *)
(* an awaiting operation is committed later (Commit).                      *)
(***************************************************************************)
EXTENDS Naturals, FiniteSets

CONSTANTS
    Questions,     \* texts of the question (three characters or more)
    Contexts,      \* vendor, model, system and version, at least one of the first three
    Evidences,     \* redacted evidence windows
    Refs,          \* revision references the knowledge base may answer with
    NoData,        \* no value
    MaxCaseVersion, \* bound: case versions
    MaxRequests    \* bound: requests in flight

CaseAssumption ==
    /\ NoData \notin Questions \cup Contexts \cup Evidences \cup Refs
    /\ MaxCaseVersion \in Nat \ {0}

VARIABLES
    ui,            \* the case with every queued update applied
    live,          \* liveRef.current: the case as last committed
    versionRef,    \* caseVersionRef.current
    requests,      \* operations awaiting something
    armed,         \* a research poll timer is set
    touched,       \* the research state changed since the last commit
    server,        \* the research tasks of the server, by question and context
    pollLost       \* a timer's poll of this case version failed

workbenchVars == <<ui, live, versionRef, requests, armed, touched, server, pollLost>>

TaskStatuses == {"researching", "settled"}  \* settled: completed, failed, cancelled,
                                           \* expired or waiting for input
NoTask == "none"
Operations == {"analyze", "search", "hash", "research", "status", "files"}
Actors == {"manual", "agent", "timer"}

Case == [version: 1..MaxCaseVersion, question: Questions \cup {NoData},
         evidence: Evidences \cup {NoData}, context: Contexts \cup {NoData},
         share: BOOLEAN, snapshot: Evidences \cup {NoData},
         search: {NoData} \cup [of: 1..MaxCaseVersion, question: Questions,
                              context: Contexts, answers: SUBSET Refs],
         analysis: {NoData} \cup [of: 1..MaxCaseVersion, refs: SUBSET Refs],
         research: TaskStatuses \cup {NoData},
         creds: {NoData} \cup [of: 1..MaxCaseVersion, question: Questions, context: Contexts]]

Request == [op: Operations, by: Actors, version: 1..MaxCaseVersion,
            question: Questions \cup {NoData}, context: Contexts \cup {NoData},
            evidence: Evidences \cup {NoData}, replied: BOOLEAN,
            answers: SUBSET Refs, status: TaskStatuses \cup {NoData}]

\* The page as it opens: the sample question, no evidence, no context.
BlankCase == [version |-> 1, question |-> NoData, evidence |-> NoData, context |-> NoData,
              share |-> FALSE, snapshot |-> NoData, search |-> NoData, analysis |-> NoData,
              research |-> NoData, creds |-> NoData]

CaseInit ==
    /\ \E q \in Questions : ui = [BlankCase EXCEPT !.question = q]
    /\ live = ui
    /\ versionRef = 1
    /\ requests = {}
    /\ armed = FALSE
    /\ touched = FALSE
    /\ server = [asked \in Questions \X Contexts |-> NoTask]
    /\ pollLost = FALSE

(***************************************************************************)
(* advanceCase and clearDerived: a new version without anything derived    *)
(* from the old one.                                                       *)
(***************************************************************************)
AdvancedCase(c) ==
    [c EXCEPT !.version = versionRef + 1, !.snapshot = NoData, !.search = NoData,
              !.analysis = NoData, !.research = NoData, !.creds = NoData]

\* advanceCase aborts the controller of the requests in flight, which reject;
\* an operation still hashing its key has not yet taken a controller.
Survivors == {r \in requests : r.op = "hash"}

(***************************************************************************)
(* A commit makes the queued case the one the operations read, and renews  *)
(* the poll timer when the research state changed.                         *)
(***************************************************************************)
Polls(c) == c.creds # NoData /\ c.research = "researching"

Commit ==
    /\ live # ui \/ touched
    /\ live' = ui
    /\ versionRef' = ui.version
    /\ armed' = IF touched THEN Polls(ui) ELSE armed
    /\ touched' = FALSE
    /\ UNCHANGED <<ui, requests, server, pollLost>>

(***************************************************************************)
(* A person's edits.  Each advances the case; React commits it at the end  *)
(* of the event, with the timer of the old research cleared.               *)
(***************************************************************************)
UserEdit(edited) ==
    /\ versionRef < MaxCaseVersion
    /\ ui' = AdvancedCase(edited)
    /\ live' = ui'
    /\ versionRef' = versionRef + 1
    /\ requests' = Survivors
    /\ armed' = FALSE
    /\ touched' = FALSE
    /\ pollLost' = FALSE
    /\ UNCHANGED server

UpdateQuestion == \E q \in Questions : UserEdit([ui EXCEPT !.question = q])

UpdateContext == \E c \in Contexts \cup {NoData} : UserEdit([ui EXCEPT !.context = c])

\* updateEvidence, the line range fields, and loadSample, which also empties the context.
UpdateEvidence ==
    \E e \in Evidences :
        \/ UserEdit([ui EXCEPT !.evidence = e])
        \/ UserEdit([ui EXCEPT !.evidence = e, !.context = NoData])

Reset ==
    /\ versionRef < MaxCaseVersion
    /\ ui' = AdvancedCase([ui EXCEPT !.question = NoData, !.evidence = NoData,
                                     !.context = NoData, !.share = FALSE])
    /\ live' = ui'
    /\ versionRef' = versionRef + 1
    /\ requests' = Survivors
    /\ armed' = FALSE
    /\ touched' = FALSE
    /\ pollLost' = FALSE
    /\ UNCHANGED server

\* The sharing checkbox leaves the case version alone.
ToggleShare ==
    /\ ui' = [ui EXCEPT !.share = ~@]
    /\ live' = ui'
    /\ versionRef' = ui.version
    /\ armed' = IF touched THEN Polls(ui) ELSE armed
    /\ touched' = FALSE
    /\ UNCHANGED <<requests, server, pollLost>>

(***************************************************************************)
(* Starting an operation.  It reads the committed case and refuses a       *)
(* version that is not its version; a manual operation passes versionRef   *)
(* and needs free buttons, an agent's tool passes the version it was told. *)
(***************************************************************************)
NewRequest(op, by) ==
    [op |-> op, by |-> by, version |-> live.version, question |-> NoData,
     context |-> NoData, evidence |-> NoData, replied |-> FALSE,
     answers |-> {}, status |-> NoData]

\* An operation about the question in its context.
QuestionRequest(op, by) ==
    [NewRequest(op, by) EXCEPT !.question = live.question, !.context = live.context]

\* The buttons wait for the manual operation started last; an edit that aborts
\* it frees them, and so does a reset for one that is still hashing.
ButtonsAreFree ==
    \A r \in requests : r.by = "manual" => r.op = "hash" /\ r.version # versionRef

Start(request, by) ==
    /\ Cardinality(requests) < MaxRequests
    /\ by = "manual" => ButtonsAreFree /\ versionRef = live.version
    /\ requests' = requests \cup {request}
    /\ UNCHANGED <<ui, live, versionRef, armed, touched, server, pollLost>>

StartAnalyze(by) ==
    /\ live.evidence # NoData
    /\ by = "agent" => live.share
    /\ Start([NewRequest("analyze", by) EXCEPT !.evidence = live.evidence], by)

StartSearch(by) ==
    /\ live.question # NoData /\ live.context # NoData
    /\ Start(QuestionRequest("search", by), by)

\* The committed case has the credentials of its task.
HasCredentials == live.creds # NoData /\ live.creds.of = live.version

\* The idempotency key is hashed before the request is sent.  A case that has
\* its task is answered without one; the button is disabled then.
StartResearch(by) ==
    /\ live.search # NoData /\ live.search.answers = {}
    /\ live.context # NoData
    /\ ~HasCredentials
    /\ Start(QuestionRequest("hash", by), by)

\* The request for the task's status is made of the credentials of the version.
StatusRequest(by) ==
    [NewRequest("status", by) EXCEPT
        !.question = live.creds.question, !.context = live.creds.context]

AgentStatus ==
    /\ HasCredentials
    /\ Cardinality(requests) < MaxRequests
    /\ requests' = requests \cup {StatusRequest("agent")}
    /\ UNCHANGED <<ui, live, versionRef, armed, touched, server, pollLost>>

\* The timer passes the version of the credentials it was set for; a version
\* the committed case has left is refused, and the refusal is not shown.
PollTimer ==
    /\ armed
    /\ armed' = FALSE
    /\ IF HasCredentials
       THEN requests' = requests \cup {StatusRequest("timer")}
       ELSE UNCHANGED requests
    /\ UNCHANGED <<ui, live, versionRef, touched, server, pollLost>>

StartFiles ==
    /\ \A r \in requests : r.op # "files"
    /\ Cardinality(requests) < MaxRequests
    /\ requests' = requests \cup {[NewRequest("files", "manual") EXCEPT !.version = versionRef]}
    /\ UNCHANGED <<ui, live, versionRef, armed, touched, server, pollLost>>

(***************************************************************************)
(* The key is hashed: the request is sent under the controller of this     *)
(* moment, whatever version the operation was started with.                *)
(***************************************************************************)
SendResearch(r) ==
    /\ r.op = "hash"
    /\ requests' = (requests \ {r}) \cup {[r EXCEPT !.op = "research"]}
    /\ UNCHANGED <<ui, live, versionRef, armed, touched, server, pollLost>>

(***************************************************************************)
(* The server answers.  A research request creates the task of its         *)
(* idempotency key (question and context) or finds it.                     *)
(***************************************************************************)
Answer(r) ==
    /\ ~r.replied
    /\ \/ /\ r.op \in {"analyze", "files"}
          /\ requests' = (requests \ {r}) \cup {[r EXCEPT !.replied = TRUE]}
          /\ UNCHANGED server
       \/ /\ r.op = "search"
          /\ \E found \in SUBSET Refs :
                requests' = (requests \ {r}) \cup
                    {[r EXCEPT !.replied = TRUE, !.answers = found]}
          /\ UNCHANGED server
       \/ /\ r.op \in {"research", "status"}
          /\ LET known == server[<<r.question, r.context>>]
                 status == IF known = NoTask THEN "researching" ELSE known
             IN /\ server' = [server EXCEPT ![<<r.question, r.context>>] = status]
                /\ requests' = (requests \ {r}) \cup
                       {[r EXCEPT !.replied = TRUE, !.status = status]}
    /\ UNCHANGED <<ui, live, versionRef, armed, touched, pollLost>>

\* The server's research comes to its end whether anybody looks or not.
Progress ==
    /\ \E q \in Questions, c \in Contexts :
          /\ server[<<q, c>>] = "researching"
          /\ server' = [server EXCEPT ![<<q, c>>] = "settled"]
    /\ UNCHANGED <<ui, live, versionRef, requests, armed, touched, pollLost>>

(***************************************************************************)
(* An operation ends: a lost request, a timeout, a server error or, for    *)
(* the agent's, the agent's own abort only end it.                         *)
(***************************************************************************)
Ended(r) == requests' = requests \ {r}

FailRequest(r) ==
    /\ ~r.replied
    /\ Ended(r)
    /\ pollLost' = (pollLost \/ r.by = "timer")
    /\ UNCHANGED <<ui, live, versionRef, armed, touched, server>>

(***************************************************************************)
(* expectedVersion: an answer is applied to the version it was asked for.  *)
(***************************************************************************)
\* Mutant: the request's abort is all that keeps an older answer out.
ExpectedUnlessAborted(r) == r.version <= versionRef

Expected(r) == r.version = versionRef

Outdated(r) ==
    /\ r.replied /\ r.op # "files"
    /\ ~Expected(r)
    /\ Ended(r)
    /\ UNCHANGED <<ui, live, versionRef, armed, touched, server, pollLost>>

\* The detected context fills the fields still empty; when it fills one, the
\* context is a new one and so is the version.
ApplyAnalyze(r) ==
    /\ r.op = "analyze" /\ r.replied /\ Expected(r)
    /\ \/ /\ ui' = [ui EXCEPT !.snapshot = r.evidence]
          /\ UNCHANGED <<versionRef, touched, pollLost>>
          /\ Ended(r)
       \/ /\ versionRef < MaxCaseVersion
          /\ \E c \in Contexts :
                ui' = [AdvancedCase(ui) EXCEPT !.context = c, !.snapshot = r.evidence]
          /\ versionRef' = versionRef + 1
          /\ requests' = Survivors
          /\ touched' = TRUE
          /\ pollLost' = FALSE
    /\ UNCHANGED <<live, armed, server>>

\* The results and their provenance; both awaits end in the same check.
ApplySearch(r) ==
    /\ r.op = "search" /\ r.replied /\ Expected(r)
    /\ ui' = [ui EXCEPT !.search = [of |-> r.version, question |-> r.question,
                                    context |-> r.context, answers |-> r.answers]]
    /\ Ended(r)
    /\ UNCHANGED <<live, versionRef, armed, touched, server, pollLost>>

ApplyResearch(r) ==
    /\ r.op = "research" /\ r.replied /\ Expected(r)
    /\ ui' = [ui EXCEPT !.research = r.status,
                        !.creds = [of |-> r.version, question |-> r.question,
                                   context |-> r.context]]
    /\ touched' = TRUE
    /\ Ended(r)
    /\ UNCHANGED <<live, versionRef, armed, server, pollLost>>

ApplyStatus(r) ==
    /\ r.op = "status" /\ r.replied /\ Expected(r)
    /\ ui' = [ui EXCEPT !.research = r.status]
    /\ touched' = TRUE
    /\ Ended(r)
    /\ UNCHANGED <<live, versionRef, armed, server, pollLost>>

\* The extracted files replace the evidence; the abort signal was checked, and
\* an advance of the case has already removed the operation here.
ApplyFiles(r) ==
    /\ r.op = "files" /\ r.replied
    /\ versionRef < MaxCaseVersion
    /\ \E e \in Evidences : ui' = AdvancedCase([ui EXCEPT !.evidence = e])
    /\ versionRef' = versionRef + 1
    /\ requests' = Survivors
    /\ touched' = TRUE
    /\ pollLost' = FALSE
    /\ UNCHANGED <<live, armed, server>>

(***************************************************************************)
(* present_network_case_analysis: synchronous, checked against the         *)
(* committed case and its results.                                         *)
(***************************************************************************)
Present ==
    /\ \E refs \in SUBSET (IF live.search # NoData /\ live.search.of = live.version
                           THEN live.search.answers ELSE {}) :
          ui' = [ui EXCEPT !.analysis = [of |-> live.version, refs |-> refs]]
    /\ UNCHANGED <<live, versionRef, requests, armed, touched, server, pollLost>>

CaseNext ==
    \/ Commit
    \/ UpdateQuestion \/ UpdateContext \/ UpdateEvidence \/ Reset \/ ToggleShare
    \/ \E by \in {"manual", "agent"} :
          StartAnalyze(by) \/ StartSearch(by) \/ StartResearch(by)
    \/ AgentStatus \/ PollTimer \/ StartFiles
    \/ \E r \in requests :
          \/ SendResearch(r) \/ Answer(r) \/ FailRequest(r) \/ Outdated(r)
          \/ ApplyAnalyze(r) \/ ApplySearch(r) \/ ApplyResearch(r)
          \/ ApplyStatus(r) \/ ApplyFiles(r)
    \/ Progress
    \/ Present

CaseSpec == CaseInit /\ [][CaseNext]_workbenchVars

(***************************************************************************)
(* Fairness: the browser renders what is queued and fires its timers, the  *)
(* server answers or the request fails (twenty seconds), an answer is      *)
(* processed, whatever the browser agent asks in between, and research     *)
(* comes to an end.                                                        *)
(***************************************************************************)
TimerAnswered ==
    \E r \in requests : r.op = "status" /\ r.by = "timer" /\ (Answer(r) \/ FailRequest(r))
TimerApplied ==
    \E r \in requests : r.by = "timer" /\ (ApplyStatus(r) \/ Outdated(r))

CaseFairness ==
    /\ WF_workbenchVars(Commit)
    /\ WF_workbenchVars(PollTimer)
    /\ WF_workbenchVars(TimerAnswered)
    /\ WF_workbenchVars(TimerApplied)
    /\ WF_workbenchVars(Progress)

FairCaseSpec == CaseSpec /\ CaseFairness

(***************************************************************************)
(* Properties.                                                             *)
(***************************************************************************)

\* The three copies of the case, the requests and the timer keep their form.
CaseTypeOK ==
    /\ ui \in Case /\ live \in Case
    /\ versionRef \in 1..MaxCaseVersion
    /\ requests \subseteq Request
    /\ armed \in BOOLEAN /\ touched \in BOOLEAN /\ pollLost \in BOOLEAN
    /\ server \in [Questions \X Contexts -> TaskStatuses \cup {NoTask}]

\* What the page shows of the server belongs to the case on the page: the
\* snapshot is of its evidence, the results and the tracked task are of its
\* question and context, whatever was edited while the answer was on its way.
ShownBelongsToCase ==
    /\ ui.snapshot # NoData => ui.snapshot = ui.evidence
    /\ ui.search # NoData =>
          /\ ui.search.of = ui.version
          /\ ui.search.question = ui.question
          /\ ui.search.context = ui.context
    /\ ui.creds # NoData =>
          /\ ui.creds.of = ui.version
          /\ ui.creds.question = ui.question
          /\ ui.creds.context = ui.context

\* A research task on the page is polled until it is over, or the case changes,
\* unless one of the timer's polls fails.
Followed == Polls(ui) /\ ~pollLost
ResearchIsFollowed == Followed ~> ~Followed
=============================================================================
